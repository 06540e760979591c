------------------------------ MODULE Sessions ------------------------------
(***************************************************************************)
(* Sessions of one client: the pool of server sessions, the implicit       *)
(* session of each fiber, one explicit session with its transactions, the  *)
(* attempts by which a command is executed, withTransaction, and close.    *)
(*                                                                         *)
(* The server is external. It keeps for every lsid the highest transaction *)
(* number it has seen and what became of it, and a command may reach it    *)
(* long after the client gave up waiting. Time (an expired server session, *)
(* an expired deadline) is a choice; commands have no timeoutMS.           *)
(***************************************************************************)
EXTENDS Transactions, Integers, SequencesExt

CONSTANTS
  Fibers,
  Owner,              \* the fiber that uses the explicit session
  Explicit,           \* the explicit session
  Lsids,              \* ids of server sessions; one nobody knows any more is new again
  Servers,            \* the mongos routers, or the load balancer
  Conns,              \* connections through the load balancer
  None,
  MaxAdaptiveRetries, \* @options.max_adaptive_retries
  Scenarios           \* name -> what the application does, see Scenes

\* writers: fibers that write outside of transactions. app: how the owner uses
\* the explicit session: not at all, call by call, or through withTransaction.
\* nested: a write runs commands of its own before it is sent (automatic
\* encryption reads keys). calls and faults are bounds: on the application's
\* calls per fiber, and on the attempts that fail.
Scenes == [writers: SUBSET Fibers, app: {"none", "calls", "with"},
           balanced: BOOLEAN, closes: BOOLEAN, nested: BOOLEAN,
           calls: Nat, faults: Nat]

ASSUME FiberAssumption ==
  /\ Owner \in Fibers /\ Explicit \notin Fibers
  /\ None \notin Fibers \cup {Explicit} \cup Lsids \cup Servers \cup Conns
  /\ None \notin States \cup Failures \cup {"ok"}
ASSUME RetryAssumption == MaxAdaptiveRetries \in Nat
ASSUME ScenarioAssumption == \A name \in DOMAIN Scenarios : Scenarios[name] \in Scenes

VARIABLES
  scene,     \* which of the scenarios this is
  poolOpen,  \* Session::Pool: ~@closed
  free,      \* Session::Pool @pool, taken and returned at the front
  number,    \* ServerSession @txn_number
  dirty,     \* ServerSessions marked dirty
  held,      \* ClientSession @server_session
  live,      \* client sessions not @released
  txn,       \* the explicit session's transaction
  op,        \* what each fiber is executing
  call,      \* where withTransaction is
  out,       \* connections checked out for the explicit session
  closer,    \* Client#close: "open", "ending", "closed"
  wire,      \* commands on their way to the server
  mongod,    \* the server's record of each lsid
  fate,      \* history: of each fiber's calls, how often applied, whether reported done
  commits,   \* history: transactions that committed
  faults     \* failures left

poolVars == <<poolOpen, free, dirty, held, live>>
serverVars == <<wire, mongod, fate, commits>>
vars == <<scene, poolVars, number, txn, op, call, out, closer, serverVars, faults>>

Sessions == Fibers \cup {Explicit}
Scene == Scenarios[scene]

\* from: transitions_from, while a command runs under state_transition.
\* begins: apply_transaction_read_concern. empty: @empty_commit. pin: the router,
\* conn: the connection. The rest is history: how many statements succeeded, whether
\* one failed with TransientTransactionError, and what the application was told.
NoTransaction ==
  [state |-> "none", from |-> None, empty |-> FALSE, begins |-> FALSE,
   pin |-> None, conn |-> None, acked |-> 0, spoiled |-> FALSE, told |-> "nothing"]

\* conn: a connection the attempt owns and returns itself. ends: the abort of a
\* session that is being ended.
Idle ==
  [kind |-> "none", pc |-> "idle", session |-> None, attempt |-> 0, allowed |-> 1,
   conn |-> None, ends |-> FALSE, reply |-> None]

\* No number was ever seen; the first may be 0.
NewRecord == [number |-> -1, state |-> "none", server |-> None, statements |-> 0]

Init ==
  /\ scene \in DOMAIN Scenarios
  /\ poolOpen = TRUE /\ free = <<>> /\ dirty = {}
  /\ number = [l \in Lsids |-> 0]
  /\ held = [c \in Sessions |-> None] /\ live = {}
  /\ txn = NoTransaction
  /\ op = [f \in Fibers |-> Idle]
  /\ call = [step |-> IF Scene.app = "with" THEN "start" ELSE "none", again |-> FALSE]
  /\ out = {} /\ closer = "open"
  /\ wire = {} /\ mongod = [l \in Lsids |-> NewRecord]
  /\ fate = [f \in Fibers |-> <<>>]
  /\ commits = 0 /\ faults = Scene.faults

-----------------------------------------------------------------------------
(* The pool of server sessions *)

Pooled == {free[i] : i \in DOMAIN free}

\* Nothing in the client or on its way to the server mentions it.
Forgotten(l) ==
  /\ l \notin Pooled
  /\ \A c \in Sessions : held[c] # l
  /\ \A m \in wire : m.lsid # l

Acquire_NeverNew(c, q) ==
  IF q = <<>> THEN UNCHANGED <<held, free, dirty, number, mongod>>
  ELSE /\ held' = [held EXCEPT ![c] = q[1]] /\ free' = Tail(q)
       /\ UNCHANGED <<dirty, number, mongod>>

\* Pool#acquire, while it is open: the first pooled session that has not
\* expired, or a new one. q is the queue it is taken from.
Acquire(c, q) ==
  \/ \E i \in DOMAIN q :
       /\ held' = [held EXCEPT ![c] = q[i]]
       /\ free' = SubSeq(q, i + 1, Len(q))
       /\ UNCHANGED <<dirty, number, mongod>>
  \/ /\ \E l \in Lsids : Forgotten(l)
     /\ LET new == CHOOSE l \in Lsids : Forgotten(l) IN
          /\ held' = [held EXCEPT ![c] = new]
          /\ dirty' = dirty \ {new}
          /\ number' = [number EXCEPT ![new] = 0]
          /\ mongod' = [mongod EXCEPT ![new] = NewRecord]
     /\ free' = <<>>

Returned_Dirty(l, q) == {q, <<l>> \o q}

\* What Pool#release of l makes of the queue q: it discards what expired at the
\* back, and keeps l unless it is dirty or expired.
Returned(l, q) ==
  LET trimmed == {SubSeq(q, 1, n) : n \in 0..Len(q)} IN
  IF l \in dirty THEN trimmed ELSE trimmed \cup {<<l>> \o t : t \in trimmed}

\* A closed pool keeps nothing.
Release(l) == IF poolOpen THEN free' \in Returned(l, free) ELSE UNCHANGED free

-----------------------------------------------------------------------------
(* Commands *)

\* The command of fiber f and what it works on.
Kind(f) == op[f].kind
Explicitly(f) == op[f].session = Explicit
Lsid(f) == held[op[f].session]
Serial(f) == Len(fate[f])
InTransaction(f) == Explicitly(f) /\ txn.state # "none"

NewCall(kind) == [kind |-> kind, applied |-> 0, done |-> FALSE]
Counted(c, applies) == IF applies THEN [c EXCEPT !.applied = @ + 1] ELSE c
Reported(c, reply) == IF reply = "ok" THEN [c EXCEPT !.done = TRUE] ELSE c

\* f starts a command: the record of its call, and op[f].
Begin(f, kind, session, pc) ==
  /\ fate' = [fate EXCEPT ![f] = Append(@, NewCall(kind))]
  /\ op' = [op EXCEPT ![f] = [Idle EXCEPT !.kind = kind, !.session = session, !.pc = pc]]

Callable(f) == op[f].pc = "idle" /\ Serial(f) < Scene.calls

\* A write without a session: implicit_session_for_fiber finds or makes the
\* fiber's session. Once the pool is closed there is none, and the call raises.
Lookup(f) ==
  /\ f \in Scene.writers /\ Callable(f)
  /\ IF f \in live
     THEN /\ Begin(f, "write", f, IF held[f] \in dirty THEN "recycle" ELSE "number")
          /\ UNCHANGED <<poolVars, number, mongod>>
     ELSE /\ poolOpen
          /\ Begin(f, "write", f, "number")
          /\ Acquire(f, free) /\ live' = live \cup {f}
          /\ UNCHANGED poolOpen
  /\ UNCHANGED <<scene, txn, call, out, closer, wire, commits, faults>>

\* recycle_dirty_server_session returns the dirty session and takes another.
Exchange(f) == poolOpen /\ \E q \in Returned(held[f], free) : Acquire(f, q)

Recycle_Waits(f) ==
  /\ op[f].pc = "recycle" /\ f \in live /\ Exchange(f)
  /\ op' = [op EXCEPT ![f] = [@ EXCEPT !.pc = "number"]]
  /\ UNCHANGED <<scene, poolOpen, live, txn, call, out, closer, wire, fate, commits, faults>>

\* A session that close released is left alone; if the pool is closed, acquire
\* raises and so does the command.
Recycle(f) ==
  /\ op[f].pc = "recycle"
  /\ \/ f \in live /\ Exchange(f) /\ op' = [op EXCEPT ![f] = [@ EXCEPT !.pc = "number"]]
     \/ /\ f \notin live \/ ~poolOpen
        /\ op' = [op EXCEPT ![f] = IF f \in live THEN Idle ELSE [@ EXCEPT !.pc = "number"]]
        /\ UNCHANGED <<free, held, dirty, number, mongod>>
  /\ UNCHANGED <<scene, poolOpen, live, txn, call, out, closer, wire, fate, commits, faults>>

\* execute_retryable_write: one selection, then the number all attempts share.
TakeNumber(f) ==
  /\ op[f].pc = "number"
  /\ \/ /\ number' = [number EXCEPT ![Lsid(f)] = @ + 1]
        /\ op' = [op EXCEPT ![f] = [@ EXCEPT !.pc = "send"]]
        /\ UNCHANGED faults
     \/ /\ faults > 0 /\ faults' = faults - 1
        /\ op' = [op EXCEPT ![f] = [@ EXCEPT !.pc = "ended", !.reply = "unselected"]]
        /\ UNCHANGED number
  /\ UNCHANGED <<scene, poolVars, txn, call, out, closer, serverVars>>

\* encrypt_command runs between checkout and the session fields: its own
\* commands use the fiber's session, and exchange it if it is dirty.
NestedCommand(f) ==
  /\ Scene.nested /\ op[f].pc = "send" /\ ~Explicitly(f)
  /\ f \in live /\ held[f] \in dirty
  /\ Exchange(f)
  /\ UNCHANGED <<scene, poolOpen, live, txn, op, call, out, closer, wire, fate, commits, faults>>

-----------------------------------------------------------------------------
(* One attempt *)

\* drop_dead_pin: the pinned connection was closed, or its service was cleared.
DropDeadPin(f) ==
  /\ op[f].pc = "send" /\ Explicitly(f) /\ txn.conn # None
  /\ faults > 0 /\ faults' = faults - 1
  /\ out' = out \ {txn.conn}
  /\ txn' = [txn EXCEPT !.conn = None]
  /\ UNCHANGED <<scene, poolVars, number, op, call, closer, serverVars>>

Message(f, route) ==
  [lsid |-> Lsid(f), number |-> number[Lsid(f)], kind |-> Kind(f),
   first |-> InTransaction(f) /\ (txn.from = "starting" \/ txn.begins),
   server |-> IF InTransaction(f) THEN route ELSE None, fiber |-> f, serial |-> Serial(f), attempt |-> op[f].attempt]

\* The pin, or any router or free connection there is.
Routes(f) ==
  IF Scene.balanced
  THEN IF Explicitly(f) /\ txn.conn # None THEN {txn.conn} ELSE Conns \ out
  ELSE IF Explicitly(f) /\ txn.pin # None THEN {txn.pin} ELSE Servers

\* Selection, checkout, pin, and execute_command up to the bytes on the wire. A
\* running transaction keeps the router, or the connection, of what it sends.
Send(f) ==
  /\ op[f].pc = "send"
  /\ \E route \in Routes(f) :
       LET pins == InTransaction(f) /\ Running(txn.state)
           owns == Scene.balanced /\ ~(Explicitly(f) /\ txn.conn = route) /\ ~pins IN
       /\ wire' = wire \cup {Message(f, route)}
       /\ op' = [op EXCEPT ![f] = [@ EXCEPT !.pc = "wait", !.conn = IF owns THEN route ELSE None]]
       /\ out' = IF Scene.balanced THEN out \cup {route} ELSE out
       /\ txn' = [txn EXCEPT !.pin = IF pins /\ ~Scene.balanced THEN route ELSE @,
                             !.conn = IF pins /\ Scene.balanced THEN route ELSE @,
                             !.begins = @ /\ ~InTransaction(f)]
  /\ UNCHANGED <<scene, poolVars, number, call, closer, mongod, fate, commits, faults>>

\* No server, no connection, or a pool that was cleared: nothing is sent.
NotSent(f) ==
  /\ op[f].pc = "send" /\ faults > 0 /\ faults' = faults - 1
  /\ \E failure \in {"unselected", "cleared"} :
       op' = [op EXCEPT ![f] = [@ EXCEPT !.pc = "ended", !.reply = failure]]
  /\ UNCHANGED <<scene, poolVars, number, txn, call, out, closer, serverVars>>

\* The connection breaks before the reply was read. The server session is dirty;
\* what was sent is lost, or still arrives.
NetworkError(f) ==
  /\ op[f].pc = "wait" /\ faults > 0 /\ faults' = faults - 1
  /\ dirty' = dirty \cup {Lsid(f)}
  /\ op' = [op EXCEPT ![f] = [@ EXCEPT !.pc = "ended", !.reply = "network"]]
  /\ \E lost \in SUBSET {m \in wire : m.fiber = f /\ m.serial = Serial(f)
                                                 /\ m.attempt = op[f].attempt} :
       wire' = wire \ lost
  /\ UNCHANGED <<scene, poolOpen, free, held, live, number, txn, call, out, closer,
                 mongod, fate, commits>>

-----------------------------------------------------------------------------
(* The server, external: what it may do with a message, and answer *)

Effect(record, reply) == [record |-> record, reply |-> reply]

\* Behind a load balancer another connection may lead to the same router.
Reaches(m, record) ==
  IF m.server = record.server THEN {TRUE} ELSE IF Scene.balanced THEN BOOLEAN ELSE {FALSE}

OnWrite(m, record) ==
  IF m.number > record.number
  THEN {Effect([number |-> m.number, state |-> "wrote", server |-> None, statements |-> 0], "ok")}
  ELSE {Effect(record, IF m.number = record.number /\ record.state = "wrote"
                       THEN "ok" ELSE "refused")}

OnStatement(m, record) ==
  IF m.first
  THEN IF m.number > record.number
       THEN {Effect([number |-> m.number, state |-> "open", server |-> m.server,
                     statements |-> 1], "ok")}
       ELSE {Effect(record, "refused")}
  ELSE IF m.number = record.number /\ record.state = "open"
       THEN {IF same THEN Effect([record EXCEPT !.statements = @ + 1], "ok")
                     ELSE Effect(record, "noTransaction") : same \in Reaches(m, record)}
       ELSE {Effect(record, "noTransaction")}

\* Another router that is asked to commit, with the recovery token, finds a
\* transaction that nobody decided, and aborts it.
OnCommit(m, record) ==
  IF m.first \/ m.number < record.number
  THEN {Effect(record, "refused")}
  ELSE IF m.number > record.number \/ record.state \notin {"open", "committed"}
  THEN {Effect(record, "noTransaction")}
  ELSE IF record.state = "committed"
       THEN {Effect(record, "ok")}
       ELSE {IF same THEN Effect([record EXCEPT !.state = "committed"], "ok")
                     ELSE Effect([record EXCEPT !.state = "aborted"], "noTransaction")
             : same \in Reaches(m, record)}

OnAbort(m, record) ==
  IF m.number = record.number /\ record.state = "open"
  THEN {IF same THEN Effect([record EXCEPT !.state = "aborted"], "ok")
                ELSE Effect(record, "noTransaction") : same \in Reaches(m, record)}
  ELSE {Effect(record, "noTransaction")}

Normal(m, record) ==
  CASE m.kind = "write"     -> OnWrite(m, record)
    [] m.kind = "statement" -> OnStatement(m, record)
    [] m.kind = "commit"    -> OnCommit(m, record)
    [] m.kind = "abort"     -> OnAbort(m, record)

\* What else may happen: the server is overloaded, steps down before or after it
\* executed the command, refuses it, aborts the transaction; or the client cannot
\* read the good reply.
Failing(m, record) ==
  LET lost == IF m.number = record.number /\ record.state = "open"
              THEN [record EXCEPT !.state = "aborted"] ELSE record
      good == {e \in Normal(m, record) : e.reply = "ok"} IN
  {Effect(record, "overload")}
  \cup (IF m.kind = "statement" THEN {} ELSE {Effect(record, "retryable")})
  \cup (IF m.kind = "statement" THEN {Effect(lost, "refused")} ELSE {Effect(record, "refused")})
  \cup (IF m.kind \in {"statement", "commit"} /\ lost # record
        THEN {Effect(lost, "noTransaction")} ELSE {})
  \cup (IF m.kind \in {"write", "commit"}
        THEN {[e EXCEPT !.reply = "retryable"] : e \in good} ELSE {})
  \cup (IF m.kind \in {"write", "statement"}
        THEN {[e EXCEPT !.reply = "local"] : e \in good} ELSE {})

\* f still waits for the answer to m.
Awaited(m) ==
  /\ op[m.fiber].pc = "wait" /\ op[m.fiber].reply = None
  /\ Serial(m.fiber) = m.serial /\ op[m.fiber].attempt = m.attempt

Take(m, effect) ==
  /\ wire' = wire \ {m}
  /\ mongod' = [mongod EXCEPT ![m.lsid] = effect.record]
  /\ fate' = [fate EXCEPT ![m.fiber] = [@ EXCEPT ![m.serial] =
                Counted(fate[m.fiber][m.serial],
                        m.kind = "write" /\ effect.record # mongod[m.lsid])]]
  /\ commits' = commits + (IF effect.record.state = "committed"
                              /\ mongod[m.lsid].state = "open" THEN 1 ELSE 0)
  /\ op' = IF Awaited(m) THEN [op EXCEPT ![m.fiber] = [@ EXCEPT !.reply = effect.reply]] ELSE op

Deliver(m) ==
  /\ \/ /\ \E effect \in Normal(m, mongod[m.lsid]) : Take(m, effect)
        /\ UNCHANGED faults
     \/ /\ Awaited(m) /\ faults > 0 /\ faults' = faults - 1
        /\ \E effect \in Failing(m, mongod[m.lsid]) : Take(m, effect)
  /\ UNCHANGED <<scene, poolVars, number, txn, call, out, closer>>

-----------------------------------------------------------------------------
(* The end of an attempt, and of a command *)

Again(f) ==
  LET allowed == Allowed(Kind(f), op[f].reply, op[f].allowed, MaxAdaptiveRetries) IN
  /\ TriesAgain(Kind(f), op[f].reply)
  /\ op[f].attempt + 1 <= allowed

\* execute_command unpins at some errors, the loop at more before it goes on, an
\* abort and the end of a session always.
Unpins(f) ==
  \/ op[f].reply # "ok" /\ UnpinsAtOnce(Kind(f), op[f].reply)
  \/ Again(f) /\ Kind(f) # "statement"
       /\ (Transient(Kind(f), op[f].reply) \/ UnknownResult(Kind(f), op[f].reply))
  \/ ~Again(f) /\ Kind(f) = "abort"

Unpinned(t) == [t EXCEPT !.pin = None, !.conn = None]

Freed_OwnedOnly(f) == {op[f].conn}

\* Connections the end of the attempt gives back to the pool.
Freed(f) == {op[f].conn} \cup (IF Explicitly(f) /\ Unpins(f) THEN {txn.conn} ELSE {})

NextAttempt(o) ==
  [o EXCEPT !.pc = "send", !.reply = None, !.conn = None, !.attempt = @ + 1,
            !.allowed = Allowed(o.kind, o.reply, o.allowed, MaxAdaptiveRetries)]

TriedAgain_NewNumber(f) ==
  /\ op[f].reply # None /\ Again(f)
  /\ op' = [op EXCEPT ![f] = NextAttempt(@)]
  /\ txn' = IF Explicitly(f) /\ Unpins(f) THEN Unpinned(txn) ELSE txn
  /\ out' = out \ Freed(f)
  /\ number' = IF Kind(f) = "write" THEN [number EXCEPT ![Lsid(f)] = @ + 1] ELSE number
  /\ UNCHANGED <<scene, poolVars, call, closer, serverVars, faults>>

TriedAgain(f) ==
  /\ op[f].reply # None /\ Again(f)
  /\ op' = [op EXCEPT ![f] = NextAttempt(@)]
  /\ txn' = IF Explicitly(f) /\ Unpins(f) THEN Unpinned(txn) ELSE txn
  /\ out' = out \ Freed(f)
  /\ UNCHANGED <<scene, poolVars, number, call, closer, serverVars, faults>>

\* What is told of a transaction the session has not left behind.
Tells(t, outcome) == IF t.told = "over" THEN t ELSE [t EXCEPT !.told = outcome]

\* The transaction once its command ended with reply r. A commit or an abort is
\* not taken back; an abort reports no error.
Settled(t, kind, r) ==
  LET back == IF r # "ok" /\ Restores(r) /\ t.from # None THEN t.from ELSE t.state
      done == [t EXCEPT !.from = None] IN
  CASE kind = "write"     -> [done EXCEPT !.state = back]
    [] kind = "statement" -> [done EXCEPT !.state = back,
                                          !.acked = IF r = "ok" THEN @ + 1 ELSE @,
                                          !.spoiled = @ \/ Transient(kind, r)]
    [] kind = "commit"    -> Tells([done EXCEPT !.empty = @ /\ r # "ok"],
                                   CASE r = "ok" -> "committed"
                                     [] r = "noTransaction" -> "failed"
                                     [] OTHER -> "unknown")
    [] kind = "abort"     -> Tells(done, "aborted")

Goes(step) == [step |-> step, again |-> FALSE]

AfterCommit_Restart(r) == {IF r = "ok" THEN Goes("returned") ELSE Goes("start")}

\* Where withTransaction goes on after its commit: an unknown result is asked for
\* again, a transient error starts over. A deadline may end every retry.
AfterCommit(r) ==
  IF r = "ok" THEN {Goes("returned")}
  ELSE {Goes("raised")} \cup (IF UnknownResult("commit", r) THEN {Goes("commit")}
                              ELSE IF Transient("commit", r) THEN {Goes("start")} ELSE {})

\* And after a statement: an error ends the body; one that is not transient the
\* body may also rescue.
AfterStatement(r) ==
  (IF Transient("statement", r) THEN {} ELSE {call})
  \cup (IF r = "ok" THEN {} ELSE {[step |-> "abort", again |-> Transient("statement", r)]})

Continues(kind, r) ==
  IF Scene.app # "with" \/ call.step \in {"returned", "raised"} THEN {call}
  ELSE CASE kind = "statement" -> AfterStatement(r)
         [] kind = "commit"    -> AfterCommit(r)
         [] kind = "abort"     -> {Goes("raised")} \cup (IF call.again THEN {Goes("start")} ELSE {})
         [] OTHER              -> {call}

CommandEnds(f) ==
  /\ op[f].reply # None /\ ~Again(f)
  /\ op' = [op EXCEPT ![f] = Idle]
  /\ fate' = [fate EXCEPT ![f] =
                [@ EXCEPT ![Serial(f)] = Reported(fate[f][Serial(f)], op[f].reply)]]
  /\ out' = out \ Freed(f)
  /\ IF Explicitly(f)
     THEN /\ LET t == Settled(txn, Kind(f), op[f].reply) IN
               txn' = IF Unpins(f) THEN Unpinned(t) ELSE t
          /\ call' \in Continues(Kind(f), op[f].reply)
          /\ IF op[f].ends THEN live' = live \ {Explicit} /\ Release(Lsid(f))
                           ELSE UNCHANGED <<live, free>>
     ELSE UNCHANGED <<txn, call, live, free>>
  /\ UNCHANGED <<scene, poolOpen, dirty, held, number, closer, wire, mongod, commits, faults>>

-----------------------------------------------------------------------------
(* The explicit session *)

OwnerIdle == op[Owner].pc = "idle" /\ Explicit \in live
ByCalls == Scene.app = "calls" /\ OwnerIdle /\ Callable(Owner)

StartSession ==
  /\ Scene.app # "none" /\ poolOpen /\ held[Explicit] = None
  /\ Acquire(Explicit, free) /\ live' = live \cup {Explicit}
  /\ UNCHANGED <<scene, poolOpen, txn, op, call, out, closer, wire, fate, commits, faults>>

\* start_transaction takes a number before anything is sent.
StartTransaction ==
  /\ Scene.app # "none" /\ OwnerIdle
  /\ IF Scene.app = "with"
     THEN call.step = "start" /\ call' = [call EXCEPT !.step = "body"]
     ELSE Serial(Owner) < Scene.calls /\ UNCHANGED call
  /\ Accepts(txn.state, "start")
  /\ number' = [number EXCEPT ![held[Explicit]] = @ + 1]
  /\ txn' = [NoTransaction EXCEPT !.state = After(txn.state, "start"), !.begins = TRUE]
  /\ out' = out \ {txn.conn}
  /\ UNCHANGED <<scene, poolVars, op, closer, serverVars, faults>>


Statement ==
  /\ Scene.app = "with" => call.step = "body"
  /\ OwnerIdle /\ Callable(Owner) /\ Running(txn.state)
  /\ Begin(Owner, "statement", Explicit, "send")
  /\ txn' = [txn EXCEPT !.from = txn.state, !.state = After(txn.state, "insert")]
  /\ UNCHANGED <<scene, poolVars, number, call, out, closer, wire, mongod, commits, faults>>

\* A write with the session, outside of a transaction: it unpins, and leaves the
\* transaction before.
PlainWrite ==
  /\ ByCalls /\ ~Running(txn.state)
  /\ Begin(Owner, "write", Explicit, "number")
  /\ txn' = [Unpinned(txn) EXCEPT
               !.from = IF txn.state = "none" THEN None ELSE txn.state,
               !.state = "none", !.told = "over"]
  /\ out' = out \ {txn.conn}
  /\ UNCHANGED <<scene, poolVars, number, call, closer, wire, mongod, commits, faults>>

\* The application does not commit what TransientTransactionError told it to run
\* again from the start.
MayCommit == ~txn.spoiled /\ IF Scene.app = "with" THEN call.step = "commit" /\ OwnerIdle ELSE ByCalls

\* commit_transaction of what was sent to the server.
Commit ==
  /\ MayCommit /\ Accepts(txn.state, "commit")
  /\ txn.state # "starting" /\ ~txn.empty
  /\ Begin(Owner, "commit", Explicit, "send")
  /\ txn' = [txn EXCEPT !.from = txn.state, !.state = After(txn.state, "commit"),
                         !.told = IF @ = "failed" THEN "unknown" ELSE @]
  /\ UNCHANGED <<scene, poolVars, number, call, out, closer, wire, mongod, commits, faults>>

\* commit_transaction of nothing. The second time @empty_commit is lost.
CommitEmpty ==
  /\ MayCommit /\ Accepts(txn.state, "commit")
  /\ txn.state = "starting" \/ txn.empty
  /\ txn' = Tells([txn EXCEPT !.state = After(txn.state, "commit"),
                              !.empty = txn.state = "starting"], "empty")
  /\ call' = IF Scene.app = "with" THEN [call EXCEPT !.step = "returned"] ELSE call
  /\ fate' = [fate EXCEPT ![Owner] = Append(@, [NewCall("commit") EXCEPT !.done = TRUE])]
  /\ UNCHANGED <<scene, poolVars, number, op, out, closer, wire, mongod, commits, faults>>

MayAbort == IF Scene.app = "with" THEN call.step = "abort" /\ OwnerIdle ELSE ByCalls

\* abort_transaction, and the one of a session that is being ended.
AbortSent(ends) ==
  /\ txn.state = "inProgress"
  /\ fate' = [fate EXCEPT ![Owner] = Append(@, NewCall("abort"))]
  /\ op' = [op EXCEPT ![Owner] = [Idle EXCEPT !.kind = "abort", !.session = Explicit,
                                              !.pc = "send", !.ends = ends]]
  /\ txn' = [txn EXCEPT !.from = txn.state, !.state = After(txn.state, "abort")]
  /\ UNCHANGED <<out, call>>

\* From starting nothing is sent; where it is illegal it raises. It unpins in
\* every case.
AbortUnsent ==
  /\ txn.state # "inProgress"
  /\ txn' = IF Accepts(txn.state, "abort")
            THEN Tells([Unpinned(txn) EXCEPT !.state = After(txn.state, "abort")], "aborted")
            ELSE Unpinned(txn)
  /\ out' = out \ {txn.conn}
  /\ call' \in Continues("abort", "ok")
  /\ fate' = [fate EXCEPT ![Owner] = Append(@, [NewCall("abort") EXCEPT !.done = TRUE])]
  /\ UNCHANGED op

Abort ==
  /\ MayAbort
  /\ AbortSent(FALSE) \/ AbortUnsent
  /\ UNCHANGED <<scene, poolVars, number, closer, wire, mongod, commits, faults>>

\* The body of withTransaction returns, or raises an error of its own.
BodyEnds ==
  /\ call.step = "body" /\ OwnerIdle
  /\ call' \in {[step |-> "commit", again |-> FALSE], [step |-> "abort", again |-> FALSE]}
  /\ UNCHANGED <<scene, poolVars, number, txn, op, out, closer, serverVars, faults>>

\* ClientSession#end: abort what is in progress, unpin, return the server session.
EndSession ==
  /\ OwnerIdle /\ call.step \in {"none", "returned", "raised"}
  /\ \/ AbortSent(TRUE) /\ UNCHANGED <<free, live>>
     \/ /\ txn.state # "inProgress"
        /\ txn' = Unpinned(txn) /\ out' = out \ {txn.conn}
        /\ live' = live \ {Explicit} /\ Release(held[Explicit])
        /\ UNCHANGED <<fate, op, call>>
  /\ UNCHANGED <<scene, poolOpen, dirty, held, number, closer, wire, mongod, commits, faults>>

-----------------------------------------------------------------------------
(* Client#close *)

\* end_fiber_implicit_sessions: every implicit session, in whatever order.
EndFiberSessions ==
  /\ Scene.closes /\ closer = "open" /\ closer' = "ending"
  /\ live' = live \ Fibers
  /\ \E kept \in SUBSET ({held[f] : f \in live \cap Fibers} \ dirty), n \in 0..Len(free) :
       \E front \in SetToSeqs(kept) : free' = front \o SubSeq(free, 1, n)
  /\ UNCHANGED <<scene, poolOpen, dirty, held, number, txn, op, call, out, serverVars, faults>>

\* Pool#close; the server sessions that were in it are ended.
ClosePool ==
  /\ closer = "ending" /\ closer' = "closed"
  /\ poolOpen' = FALSE /\ free' = <<>>
  /\ UNCHANGED <<scene, dirty, held, live, number, txn, op, call, out, serverVars, faults>>

-----------------------------------------------------------------------------
Attempts(f) ==
  \/ Recycle(f) \/ TakeNumber(f) \/ NestedCommand(f)
  \/ DropDeadPin(f) \/ Send(f) \/ NotSent(f) \/ NetworkError(f)
  \/ TriedAgain(f) \/ CommandEnds(f)

Next ==
  \/ \E f \in Fibers : Lookup(f) \/ Attempts(f)
  \/ \E m \in wire : Deliver(m)
  \/ StartSession \/ StartTransaction \/ Statement \/ PlainWrite
  \/ Commit \/ CommitEmpty \/ Abort \/ BodyEnds \/ EndSession
  \/ EndFiberSessions \/ ClosePool

Spec == Init /\ [][Next]_vars

\* The steps a fiber takes by itself once it executes a command.
Moves(f) ==
  \/ Recycle(f) \/ TakeNumber(f) \/ Send(f) \/ NotSent(f)
  \/ TriedAgain(f) \/ CommandEnds(f)

\* A runnable fiber is run, and a server that was asked answers.
FairSpec ==
  /\ Spec
  /\ \A f \in Fibers : WF_vars(Moves(f))
  /\ WF_vars(\E m \in wire : Deliver(m))

-----------------------------------------------------------------------------
(* Properties *)

Records == [number : Nat \cup {-1}, state : {"none", "wrote", "open", "committed", "aborted"},
            server : Servers \cup Conns \cup {None}, statements : Nat]
Messages == [lsid : Lsids, number : Nat, kind : Kinds, first : BOOLEAN,
             server : Servers \cup Conns \cup {None}, fiber : Fibers, serial : Nat, attempt : Nat]
Replies == Failures \cup {"ok", None}
TransactionRecords ==
  [state : States, from : States \cup {None}, empty : BOOLEAN, begins : BOOLEAN,
   pin : Servers \cup {None}, conn : Conns \cup {None}, acked : Nat,
   spoiled : BOOLEAN,
   told : {"nothing", "committed", "failed", "unknown", "aborted", "empty", "over"}]
Operations ==
  [kind : Kinds \cup {"none"}, pc : {"idle", "recycle", "number", "send", "wait", "ended"},
   session : Sessions \cup {None}, attempt : Nat, allowed : Nat,
   conn : Conns \cup {None}, ends : BOOLEAN, reply : Replies]
Calls == [kind : Kinds, applied : Nat, done : BOOLEAN]
Steps == {"none", "start", "body", "abort", "commit", "returned", "raised"}

\* The types of the variables; whoever executes a command holds a server session,
\* and what a command names exists.
TypeOK ==
  /\ scene \in DOMAIN Scenarios /\ poolOpen \in BOOLEAN
  /\ free \in Seq(Lsids) /\ dirty \subseteq Lsids
  /\ number \in [Lsids -> Nat]
  /\ held \in [Sessions -> Lsids \cup {None}] /\ live \subseteq Sessions
  /\ txn \in TransactionRecords
  /\ op \in [Fibers -> Operations]
  /\ call \in [step : Steps, again : BOOLEAN]
  /\ out \subseteq Conns /\ closer \in {"open", "ending", "closed"}
  /\ wire \subseteq Messages /\ mongod \in [Lsids -> Records]
  /\ fate \in [Fibers -> Seq(Calls)]
  /\ commits \in Nat /\ faults \in Nat
  /\ \A c \in live : held[c] \in Lsids
  /\ \A f \in Fibers : op[f].pc # "idle" =>
       /\ op[f].session \in Sessions /\ Lsid(f) \in Lsids /\ Kind(f) \in Kinds
       /\ Serial(f) > 0
       /\ Explicitly(f) => f = Owner /\ Explicit \in live
       /\ op[f].session \in {f, Explicit}

\* Two live sessions never share a server session, nor does the pool hold one that
\* is in use or twice, nor, before close returned sessions still in use, a dirty one.
OneHolder ==
  /\ \A c, d \in live : held[c] = held[d] => c = d
  /\ \A c \in live : held[c] \notin Pooled
  /\ \A i, j \in DOMAIN free : free[i] = free[j] => i = j
  /\ closer = "open" => Pooled \cap dirty = {}

\* A write is applied at most once, and once if it was reported done, whatever
\* was retried, recycled, lost or late, as long as nobody closes the client and no
\* command is nested in another.
ExactlyOnce ==
  closer = "open" /\ ~Scene.nested =>
    \A f \in Fibers : \A i \in DOMAIN fate[f] :
      fate[f][i].kind = "write" =>
        /\ fate[f][i].applied <= 1
        /\ fate[f][i].done => fate[f][i].applied = 1

\* "Retry of the same command keeps the dirty session", and with it the number by
\* which the server knows what it applied: no write is applied twice.
RetryKeepsSession ==
  \A f \in Fibers : \A i \in DOMAIN fate[f] : fate[f][i].applied <= 1

Outcome == mongod[held[Explicit]]
CommittedAtServer ==
  Outcome.number = number[held[Explicit]] /\ Outcome.state = "committed"

\* What commit and abort tell of a transaction is what became of it on the server
\* and stays so, also when an earlier attempt arrives late: a commit that succeeded
\* holds every statement that did, an empty one had none, and one that aborted or
\* failed with TransientTransactionError is not there. A close that returns the
\* session of a write under way lets that write move the transaction's number.
OutcomeAgrees ==
  closer = "open" /\ Explicit \in live =>
    /\ txn.told = "committed" => CommittedAtServer /\ txn.acked <= Outcome.statements
    /\ txn.told = "empty" => txn.acked = 0
    /\ txn.told \in {"aborted", "failed"} => ~CommittedAtServer

\* withTransaction commits its body at most once, however often it runs it, and
\* once if it returns normally, unless the body did nothing, as long as nobody
\* closes the client.
WithTransactionOnce ==
  closer = "open" /\ Scene.app = "with" =>
    /\ commits <= 1
    /\ call.step = "returned" => commits = 1 \/ txn.told = "empty"

\* A connection is checked out exactly while the transaction's pin or a command
\* holds it, and one of them only; an ended session keeps none.
ConnectionsAccounted ==
  /\ out = ({txn.conn} \cup {op[f].conn : f \in Fibers}) \ {None}
  /\ txn.conn # None => \A f \in Fibers : op[f].conn # txn.conn
  /\ \A f, g \in Fibers : op[f].conn # None /\ op[f].conn = op[g].conn => f = g
  /\ held[Explicit] # None /\ Explicit \notin live => txn.conn = None

\* A command that was started ends, with a result or an error.
OperationsEnd == \A f \in Fibers : op[f].pc # "idle" ~> op[f].pc = "idle"
=============================================================================
