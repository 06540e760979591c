------------------------ MODULE SessionsOutcomeProofs ------------------------
(***************************************************************************)
(* What commit, abort and withTransaction tell of the explicit session's   *)
(* transaction is what the server made of it, however late messages arrive *)
(* and whatever is tried again.                                            *)
(***************************************************************************)
EXTENDS SessionsProofs

\* The owner executes a command of this kind with the explicit session, or has
\* this reply to it.
Asks(kind) == Explicitly(Owner) /\ Kind(Owner) = kind
Answered(kind, reply) == Asks(kind) /\ op[Owner].reply = reply

\* m was sent with the number the explicit session has now.
Ours(m) == m.lsid = held[Explicit] /\ m.number = number[held[Explicit]]
OursOf(kind) == {m \in wire : Ours(m) /\ m.kind = kind}

-----------------------------------------------------------------------------
(* Messages of one attempt *)

\* The attempt that f executes is on its way only while f waits for it.
AttemptsOnce(f) ==
  op[f].pc # "idle" =>
    \A m \in wire : OfCall(m, f) =>
      /\ m.attempt <= op[f].attempt
      /\ m.attempt = op[f].attempt =>
           (op[f].pc = "wait" /\ op[f].reply = None) \/ op[f].reply = "network"

SameAttempt(m, w) == m.fiber = w.fiber /\ m.serial = w.serial /\ m.attempt = w.attempt

\* An attempt is one message.
SentOnce ==
  /\ \A f \in Fibers : AttemptsOnce(f)
  /\ \A m, w \in wire : SameAttempt(m, w) => m = w

-----------------------------------------------------------------------------
(* The transaction and its record at the server *)

\* A command of the transaction goes with the state, and is sent with its number.
CommandFits ==
  /\ Asks("write") => txn.told = "over"
  /\ Asks("statement") => txn.state = "inProgress" /\ Running(txn.from)
  /\ Asks("commit") => txn.state = "committed"
  /\ Asks("abort") => txn.state = "aborted"
  /\ ~Asks("write") /\ Explicitly(Owner) => \A m \in wire : OfCall(m, Owner) => Ours(m)

ToldFits ==
  /\ txn.told = "aborted" => txn.state = "aborted"
  /\ txn.told \in {"committed", "failed", "unknown", "empty"} => txn.state = "committed"

\* Statements that succeeded are in the record. Where the client takes the
\* transaction to be empty, none did.
StatementsHeld ==
  /\ txn.acked > 0 => Outcome.number = number[held[Explicit]] /\ txn.acked <= Outcome.statements
  /\ Answered("statement", "ok") =>
       Outcome.number = number[held[Explicit]] /\ txn.acked < Outcome.statements
  /\ txn.state = "starting" \/ txn.empty \/ txn.told = "empty" => txn.acked = 0
  /\ Asks("statement") /\ txn.from = "starting" => txn.acked = 0
  /\ txn.empty => txn.state = "committed"

\* The server cannot have committed what no commit was sent for.
NotCommitted == txn.state # "committed" => OursOf("commit") = {} /\ ~CommittedAtServer

\* A statement on its way is the one the owner waits for, or one it gave up, which
\* spoiled the transaction; what is spoiled is not committed.
Underway(m) ==
  /\ Asks("statement") /\ op[Owner].pc = "wait" /\ op[Owner].reply = None
  /\ OfCall(m, Owner) /\ m.attempt = op[Owner].attempt
StatementsUnderway ==
  /\ \A m \in OursOf("statement") :
       txn.spoiled \/ Answered("statement", "network") \/ Underway(m)
  /\ txn.state = "committed" => ~txn.spoiled

\* The server will not commit the transaction any more: it has decided otherwise,
\* or has not begun it.
Doomed == Outcome.number = number[held[Explicit]] => Outcome.state \notin {"open", "committed"}

Decided ==
  /\ txn.told = "committed" \/ Answered("commit", "ok") => CommittedAtServer
  /\ txn.told = "failed" \/ Answered("commit", "noTransaction") => Doomed

\* There is a transaction, and the session has not left it.
Current == txn.state # "none" /\ txn.told # "over"

TransactionKept ==
  /\ CommandFits
  /\ ToldFits
  /\ Current => StatementsHeld /\ NotCommitted /\ StatementsUnderway /\ Decided
  /\ txn.state = "none" /\ txn.told # "over" => txn.acked = 0

Kept == closer = "open" /\ Explicit \in live => TransactionKept

-----------------------------------------------------------------------------
(* withTransaction *)

\* The server would commit the transaction that m asks it to.
Commits(m) == m.kind = "commit" /\ mongod[m.lsid].number = m.number /\ mongod[m.lsid].state = "open"

\* Only the explicit session commits; nothing is added to what it asked to commit.
CommitsApart ==
  \A m \in wire : m.kind = "commit" =>
    /\ m.lsid = held[Explicit]
    /\ \A w \in wire : w.kind = "statement" => w.lsid # m.lsid \/ w.number # m.number

\* Outside of transactions only implicit sessions write, and they do nothing else.
ImplicitWrites == \A f \in Fibers : op[f].pc # "idle" => Explicitly(f) \/ Kind(f) = "write"

CommandAtStep ==
  /\ ~Asks("write") /\ call.step # "none"
  /\ Asks("statement") => call.step = "body"
  /\ Asks("commit") => call.step = "commit"
  /\ Asks("abort") => call.step \in IF op[Owner].ends THEN {"returned", "raised"} ELSE {"abort"}

\* What was committed is the session's transaction, and nothing else will be; where
\* withTransaction may begin again nothing was, and no commit can succeed any more.
CommittedOnce ==
  /\ commits <= 1
  /\ commits = 1 => \A m \in wire : ~Commits(m)
  /\ \A l \in Lsids : mongod[l].state = "committed" => commits = 1
  /\ held[Explicit] = None => commits = 0
  /\ Explicit \in live => /\ commits = 1 => CommittedAtServer
                          /\ \A m \in wire : Commits(m) => Ours(m)
  /\ call.step \in {"start", "body", "abort"} => commits = 0 /\ \A m \in wire : ~Commits(m)
  /\ call.step = "returned" => txn.state = "committed" /\ (commits = 1 \/ txn.told = "empty")

OnceKept == txn.told # "over" /\ CommitsApart /\ CommandAtStep /\ CommittedOnce

RunOnce == closer = "open" /\ Scene.app = "with" => OnceKept

-----------------------------------------------------------------------------
(* What a message can make of a transaction's record *)

\* A transaction only grows until it is decided, opens by a statement, and commits
\* by a commit, which tells what became of it.
EffectFits(m, r, x) ==
  /\ x.record.number = r.number => x.record.statements >= r.statements
  /\ x.record.state = "committed" =>
       \/ x.record = r
       \/ /\ m.kind = "commit" /\ m.number = r.number /\ r.state = "open"
          /\ x.record.number = r.number
  /\ r.state = "committed" /\ x.record.number = r.number => x.record.state = "committed"
  /\ x.record.state = "open" =>
       \/ r.state = "open" /\ x.record.number = r.number
       \/ m.kind = "statement" /\ x.record.number = m.number
  /\ m.kind = "statement" /\ x.reply = "ok" =>
       /\ x.record.number = m.number /\ x.record.statements > 0
       /\ r.number = m.number => x.record.statements = r.statements + 1
  /\ m.kind = "commit" /\ x.reply = "ok" =>
       x.record.number = m.number /\ x.record.state = "committed"
  /\ m.kind = "commit" /\ x.reply = "noTransaction" /\ x.record.number = m.number =>
       x.record.state \notin {"open", "committed"}

LEMMA EffectOutcome ==
  ASSUME NEW m \in Messages, NEW r \in Records,
         NEW e \in Normal(m, r) \cup Failing(m, r)
  PROVE  EffectFits(m, r, e)
  <1>0. m.number \in Nat /\ r.number \in Int /\ m.kind \in Kinds /\ r.statements \in Nat
    BY DEF Messages, Records
  <1>1. ASSUME NEW x \in OnWrite(m, r), m.kind = "write" PROVE EffectFits(m, r, x)
    BY <1>0, <1>1 DEF OnWrite, Effect, EffectFits
  <1>2. ASSUME NEW x \in OnStatement(m, r), m.kind = "statement" PROVE EffectFits(m, r, x)
    <2>1. \/ /\ m.number > r.number /\ x.reply = "ok" /\ x.record.number = m.number
             /\ x.record.state = "open" /\ x.record.statements = 1
          \/ x.record = r /\ x.reply \in {"refused", "noTransaction"}
          \/ /\ m.number = r.number /\ r.state = "open" /\ x.reply = "ok"
             /\ x.record = [r EXCEPT !.statements = @ + 1]
      BY <1>2 DEF OnStatement, Effect
    <2>2. ASSUME x.record = [r EXCEPT !.statements = @ + 1]
          PROVE  /\ x.record.statements = r.statements + 1 /\ x.record.state = r.state
                 /\ x.record.number = r.number
      BY <2>2 DEF Records
    <2> QED
      BY <1>0, <1>2, <2>1, <2>2 DEF EffectFits
  <1>3. ASSUME NEW x \in OnCommit(m, r), m.kind = "commit" PROVE EffectFits(m, r, x)
    <2>1. \/ x.record = r /\ x.reply = "refused"
          \/ /\ m.number > r.number \/ r.state \notin {"open", "committed"}
             /\ x.record = r /\ x.reply = "noTransaction"
          \/ m.number = r.number /\ r.state = "committed" /\ x.record = r /\ x.reply = "ok"
          \/ /\ m.number = r.number /\ r.state = "open" /\ x.reply = "ok"
             /\ x.record = [r EXCEPT !.state = "committed"]
          \/ /\ m.number = r.number /\ r.state = "open" /\ x.reply = "noTransaction"
             /\ x.record = [r EXCEPT !.state = "aborted"]
      BY <1>0, <1>3 DEF OnCommit, Effect
    <2>2. \A state : x.record = [r EXCEPT !.state = state] =>
            /\ x.record.state = state /\ x.record.number = r.number
            /\ x.record.statements = r.statements
      BY DEF Records
    <2> QED
      BY <1>0, <1>3, <2>1, <2>2 DEF EffectFits
  <1>4. ASSUME NEW x \in OnAbort(m, r), m.kind = "abort" PROVE EffectFits(m, r, x)
    <2>1. \/ x.record = r
          \/ r.state = "open" /\ x.record = [r EXCEPT !.state = "aborted"]
      BY <1>4 DEF OnAbort, Effect
    <2>2. x.record = [r EXCEPT !.state = "aborted"] =>
            /\ x.record.state = "aborted" /\ x.record.number = r.number
            /\ x.record.statements = r.statements
      BY DEF Records
    <2> QED
      BY <1>0, <1>4, <2>1, <2>2 DEF EffectFits
  <1>5. ASSUME NEW x \in Normal(m, r) PROVE EffectFits(m, r, x)
    BY <1>0, <1>1, <1>2, <1>3, <1>4, <1>5 DEF Normal, Kinds
  <1>6. ASSUME NEW x \in Failing(m, r) PROVE EffectFits(m, r, x)
    <2> DEFINE lost == IF m.number = r.number /\ r.state = "open"
                       THEN [r EXCEPT !.state = "aborted"] ELSE r
               good == {y \in Normal(m, r) : y.reply = "ok"}
    <2>1. /\ lost.number = r.number /\ lost.statements = r.statements
          /\ \/ lost = r
             \/ lost.state = "aborted" /\ r.state = "open"
      BY DEF Records
    <2>2. good \subseteq Effects
      BY NormalTyped
    <2>3. \A y \in good : EffectFits(m, r, y)
      BY <1>5
    <2> HIDE DEF lost, good
    <2>4. x \in {Effect(r, "overload")}
            \cup (IF m.kind = "statement" THEN {} ELSE {Effect(r, "retryable")})
            \cup (IF m.kind = "statement" THEN {Effect(lost, "refused")} ELSE {Effect(r, "refused")})
            \cup (IF m.kind \in {"statement", "commit"} /\ lost # r
                  THEN {Effect(lost, "noTransaction")} ELSE {})
            \cup (IF m.kind \in {"write", "commit"}
                  THEN {[y EXCEPT !.reply = "retryable"] : y \in good} ELSE {})
            \cup (IF m.kind \in {"write", "statement"}
                  THEN {[y EXCEPT !.reply = "local"] : y \in good} ELSE {})
      BY <1>6 DEF Failing, lost, good
    <2>5. CASE \E reply \in {"overload", "retryable", "refused"} : x = Effect(r, reply)
      BY <1>0, <2>5 DEF Effect, EffectFits
    <2>6. CASE \/ x = Effect(lost, "refused")
               \/ x = Effect(lost, "noTransaction") /\ lost # r
      BY <1>0, <2>1, <2>6 DEF Effect, EffectFits
    <2>7. CASE \E y \in good : \E reply \in {"retryable", "local"} : x = [y EXCEPT !.reply = reply]
      <3>1. PICK y \in good, reply \in {"retryable", "local"} : x = [y EXCEPT !.reply = reply]
        BY <2>7
      <3>2. x.record = y.record /\ x.reply = reply
        BY <2>2, <3>1 DEF Effects
      <3>3. EffectFits(m, r, y) /\ x.reply # "ok" /\ x.reply # "noTransaction"
        BY <2>3, <3>2
      <3> QED
        BY <3>2, <3>3 DEF EffectFits
    <2> QED
      BY <2>4, <2>5, <2>6, <2>7
  <1> QED
    BY <1>5, <1>6

-----------------------------------------------------------------------------
(* Steps *)

\* f begins a command.
NewCommand(f, kind, session, pc, ends) ==
  /\ op'[f].kind = kind /\ op'[f].session = session /\ op'[f].pc = pc
  /\ op'[f].reply = None /\ op'[f].ends = ends
  /\ Serial(f)' > Len(fate[f])
  /\ \A g \in Fibers : g # f => op'[g] = op[g] /\ fate'[g] = fate[g]

LEMMA LongerFate ==
  ASSUME Typed, NEW f \in Fibers, NEW k, fate' = [fate EXCEPT ![f] = Append(@, k)], k \in Calls
  PROVE  Serial(f)' > Len(fate[f]) /\ \A g \in Fibers : g # f => fate'[g] = fate[g]
  <1>1. fate \in [Fibers -> Seq(Calls)]
    BY DEF Typed, TypeOK
  <1>2. fate'[f] = Append(fate[f], k) /\ \A g \in Fibers : g # f => fate'[g] = fate[g]
    BY <1>1
  <1>3. Len(fate'[f]) = Len(fate[f]) + 1 /\ Len(fate[f]) \in Nat
    BY <1>1, <1>2, AppendProperties, LenProperties
  <1> QED
    BY <1>2, <1>3 DEF Serial

LEMMA BeginStep ==
  ASSUME Typed, NEW f \in Fibers, NEW kind \in Kinds, NEW session, NEW pc,
         Begin(f, kind, session, pc)
  PROVE  NewCommand(f, kind, session, pc, FALSE)
  <1>1. PICK o : o = [Idle EXCEPT !.kind = kind, !.session = session, !.pc = pc]
    OBVIOUS
  <1>2. op' = [op EXCEPT ![f] = o] /\ op \in [Fibers -> Operations]
    BY <1>1 DEF Begin, Typed, TypeOK
  <1>3. /\ o.kind = kind /\ o.session = session /\ o.pc = pc /\ o.reply = None /\ o.ends = FALSE
    BY <1>1 DEF Idle
  <1>4. PICK k \in Calls : k = NewCall(kind)
    BY NewCallTyped
  <1>5. fate' = [fate EXCEPT ![f] = Append(@, k)]
    BY <1>4 DEF Begin
  <1>6. Serial(f)' > Len(fate[f]) /\ \A g \in Fibers : g # f => fate'[g] = fate[g]
    BY <1>5, LongerFate
  <1>7. op'[f] = o /\ \A g \in Fibers : g # f => op'[g] = op[g]
    BY <1>2
  <1> QED
    BY <1>3, <1>6, <1>7 DEF NewCommand

LEMMA AbortStep ==
  ASSUME Typed, NEW ends \in BOOLEAN, AbortSent(ends)
  PROVE  NewCommand(Owner, "abort", Explicit, "send", ends)
  <1>1. PICK o : /\ o = [Idle EXCEPT !.kind = "abort", !.session = Explicit,
                                     !.pc = "send", !.ends = ends]
                 /\ op' = [op EXCEPT ![Owner] = o]
    BY Zenon DEF AbortSent
  <1>2. op \in [Fibers -> Operations] /\ Owner \in Fibers
    BY Distinct DEF Typed, TypeOK
  <1>3. /\ o.kind = "abort" /\ o.session = Explicit /\ o.pc = "send" /\ o.reply = None
        /\ o.ends = ends
    BY <1>1 DEF Idle
  <1>4. PICK k \in Calls : k = NewCall("abort")
    BY NewCallTyped DEF Kinds
  <1>5. fate' = [fate EXCEPT ![Owner] = Append(@, k)]
    BY <1>4, Zenon DEF AbortSent
  <1>6. Serial(Owner)' > Len(fate[Owner]) /\ \A g \in Fibers : g # Owner => fate'[g] = fate[g]
    BY <1>2, <1>5, LongerFate
  <1>7. op'[Owner] = o /\ \A g \in Fibers : g # Owner => op'[g] = op[g]
    BY <1>1, <1>2
  <1> QED
    BY <1>3, <1>6, <1>7 DEF NewCommand

\* Nothing that is on its way belongs to a new command.
LEMMA NothingSent ==
  ASSUME Typed, NEW f \in Fibers, Serial(f)' > Len(fate[f])
  PROVE  \A m \in wire : ~OfCall(m, f)'
  <1>1. ASSUME NEW m \in wire, OfCall(m, f)' PROVE FALSE
    <2>1. Carries(m) /\ m.fiber = f /\ m.serial = Serial(f)'
      BY <1>1 DEF OfCall, Typed, ShapesOK
    <2>2. Len(fate[f]) \in Nat
      BY LenProperties DEF Typed, TypeOK
    <2> QED
      BY <2>1, <2>2 DEF Carries
  <1> QED
    BY <1>1

\* What a step of f's command makes of op: it sends or fails to, goes on, breaks, is
\* tried again, or ends.
AttemptStep(f) ==
  /\ \A g \in Fibers : g # f => op'[g] = op[g] /\ fate'[g] = fate[g]
  /\ op[f].pc # "idle"
  /\ op'[f].pc = "idle" => op'[f] = Idle
  /\ op'[f].pc # "idle" =>
       /\ fate' = fate
       /\ op'[f].kind = op[f].kind /\ op'[f].session = op[f].session /\ op'[f].ends = op[f].ends
       /\ \/ op'[f] = op[f]
          \/ /\ op[f].pc \in {"recycle", "number", "send"} /\ op[f].reply = None
             /\ op'[f].attempt = op[f].attempt
             /\ op'[f].reply \in {None, "unselected", "cleared"}
          \/ /\ op[f].pc = "wait" /\ op'[f].pc = "ended" /\ op'[f].reply = "network"
             /\ op'[f].attempt = op[f].attempt
          \/ /\ TriedAgain(f)
             /\ op'[f].pc = "send" /\ op'[f].reply = None /\ op'[f].attempt = op[f].attempt + 1

LEMMA AttemptsStep ==
  ASSUME Typed, NEW f \in Fibers, Attempts(f)
  PROVE  AttemptStep(f)
  <1>1. op \in [Fibers -> Operations] /\ op[f] \in Operations /\ WellFormed(f) /\ OpsTyped
    BY TypedParts DEF OpsTyped
  <1>2. ASSUME NEW o, op' = [op EXCEPT ![f] = o]
        PROVE  op'[f] = o /\ \A g \in Fibers : g # f => op'[g] = op[g]
    BY <1>1, <1>2
  <1>3. op[f].pc \in {"recycle", "number", "send"} => op[f].reply = None
    BY <1>1 DEF WellFormed
  <1>4. CASE Recycle(f)
    <2>1. PICK o : /\ o \in {Idle, [op[f] EXCEPT !.pc = "number"]}
                   /\ op' = [op EXCEPT ![f] = o]
      BY <1>4 DEF Recycle
    <2>2. fate' = fate /\ op[f].pc = "recycle"
      BY <1>4 DEF Recycle
    <2>3. \/ o = Idle
          \/ /\ o.kind = op[f].kind /\ o.session = op[f].session /\ o.ends = op[f].ends
             /\ o.attempt = op[f].attempt /\ o.reply = op[f].reply /\ o.pc = "number"
      BY <1>1, <2>1 DEF Operations
    <2>4. op'[f] = o /\ \A g \in Fibers : g # f => op'[g] = op[g]
      BY <1>2, <2>1
    <2>5. CASE o = Idle
      BY <2>2, <2>4, <2>5, IdleFits DEF AttemptStep
    <2>6. CASE o # Idle
      BY <1>3, <2>1, <2>2, <2>3, <2>4, <2>6 DEF AttemptStep
    <2> QED
      BY <2>5, <2>6
  <1>5. CASE TakeNumber(f)
    <2>1. PICK o : /\ o \in {[op[f] EXCEPT !.pc = "send"],
                             [op[f] EXCEPT !.pc = "ended", !.reply = "unselected"]}
                   /\ op' = [op EXCEPT ![f] = o]
      BY <1>5 DEF TakeNumber
    <2>2. fate' = fate /\ op[f].pc = "number"
      BY <1>5 DEF TakeNumber, serverVars
    <2>3. /\ o.kind = op[f].kind /\ o.session = op[f].session /\ o.ends = op[f].ends
          /\ o.attempt = op[f].attempt /\ o.reply \in {op[f].reply, "unselected"}
          /\ o.pc \in {"send", "ended"}
      BY <1>1, <2>1 DEF Operations
    <2> QED
      BY <1>2, <1>3, <2>1, <2>2, <2>3 DEF AttemptStep
  <1>6. CASE NestedCommand(f) \/ DropDeadPin(f)
    <2>1. op' = op /\ fate' = fate /\ op[f].pc = "send"
      BY <1>6 DEF NestedCommand, DropDeadPin, serverVars
    <2> QED
      BY <2>1 DEF AttemptStep
  <1>7. CASE Send(f)
    <2>1. PICK conn, o : /\ o = [op[f] EXCEPT !.pc = "wait", !.conn = conn]
                         /\ op' = [op EXCEPT ![f] = o]
      BY <1>7, SendStep
    <2>2. fate' = fate /\ op[f].pc = "send"
      BY <1>7 DEF Send
    <2>3. /\ o.kind = op[f].kind /\ o.session = op[f].session /\ o.ends = op[f].ends
          /\ o.attempt = op[f].attempt /\ o.reply = op[f].reply /\ o.pc = "wait"
      BY <1>1, <2>1 DEF Operations
    <2> QED
      BY <1>2, <1>3, <2>1, <2>2, <2>3 DEF AttemptStep
  <1>8. CASE NotSent(f)
    <2>0. PICK failure \in {"unselected", "cleared"} :
            op' = [op EXCEPT ![f] = [@ EXCEPT !.pc = "ended", !.reply = failure]]
      BY <1>8 DEF NotSent
    <2>1. PICK o : /\ o = [op[f] EXCEPT !.pc = "ended", !.reply = failure]
                   /\ op' = [op EXCEPT ![f] = o]
      BY <2>0
    <2>2. fate' = fate /\ op[f].pc = "send"
      BY <1>8 DEF NotSent, serverVars
    <2>3. /\ o.kind = op[f].kind /\ o.session = op[f].session /\ o.ends = op[f].ends
          /\ o.attempt = op[f].attempt /\ o.reply = failure /\ o.pc = "ended"
      BY <1>1, <2>1 DEF Operations
    <2> QED
      BY <1>2, <1>3, <2>1, <2>2, <2>3 DEF AttemptStep
  <1>9. CASE NetworkError(f)
    <2>1. PICK o : /\ o = [op[f] EXCEPT !.pc = "ended", !.reply = "network"]
                   /\ op' = [op EXCEPT ![f] = o]
      BY <1>9 DEF NetworkError
    <2>2. fate' = fate /\ op[f].pc = "wait"
      BY <1>9 DEF NetworkError
    <2>3. /\ o.kind = op[f].kind /\ o.session = op[f].session /\ o.ends = op[f].ends
          /\ o.attempt = op[f].attempt /\ o.reply = "network" /\ o.pc = "ended"
      BY <1>1, <2>1 DEF Operations
    <2> QED
      BY <1>2, <2>1, <2>2, <2>3 DEF AttemptStep
  <1>10. CASE TriedAgain(f)
    <2>1. PICK o : o = NextAttempt(op[f]) /\ op' = [op EXCEPT ![f] = o]
      BY <1>10 DEF TriedAgain
    <2>2. fate' = fate /\ op[f].pc # "idle"
      BY <1>1, <1>10, RepliedExecutes DEF TriedAgain, serverVars
    <2>3. /\ o.kind = op[f].kind /\ o.session = op[f].session /\ o.ends = op[f].ends
          /\ o.attempt = op[f].attempt + 1 /\ o.reply = None /\ o.pc = "send"
      BY <1>1, <2>1 DEF NextAttempt, Operations
    <2> QED
      BY <1>2, <1>10, <2>1, <2>2, <2>3 DEF AttemptStep
  <1>11. CASE CommandEnds(f)
    <2>1. op' = [op EXCEPT ![f] = Idle] /\ op[f].pc # "idle"
      BY <1>1, <1>11, RepliedExecutes DEF CommandEnds
    <2>2. \A g \in Fibers : g # f => fate'[g] = fate[g]
      <3>1. PICK s : fate' = [fate EXCEPT ![f] = s]
        BY <1>11 DEF CommandEnds
      <3> QED
        BY <3>1 DEF Typed, TypeOK
    <2> QED
      BY <1>2, <2>1, <2>2, IdleFits DEF AttemptStep
  <1> QED
    BY <1>4, <1>5, <1>6, <1>7, <1>8, <1>9, <1>10, <1>11 DEF Attempts

\* What the server's answer to m changes.
Answers(m, e) ==
  /\ mongod' = [mongod EXCEPT ![m.lsid] = e.record] /\ wire' = wire \ {m}
  /\ \A g \in Fibers :
       /\ op'[g].kind = op[g].kind /\ op'[g].pc = op[g].pc /\ op'[g].session = op[g].session
       /\ op'[g].ends = op[g].ends /\ op'[g].attempt = op[g].attempt
       /\ Len(fate'[g]) = Len(fate[g])
       /\ \/ op'[g].reply = op[g].reply
          \/ /\ OfCall(m, g) /\ op[g].pc = "wait" /\ op[g].reply = None
             /\ m.attempt = op[g].attempt /\ op'[g].reply = e.reply

LEMMA DeliverStep ==
  ASSUME Typed, NEW m \in wire, Deliver(m)
  PROVE  \E e \in Effects :
           /\ e \in Normal(m, mongod[m.lsid]) \cup Failing(m, mongod[m.lsid])
           /\ Answers(m, e)
           /\ commits' = commits + (IF e.record.state = "committed"
                                       /\ mongod[m.lsid].state = "open" THEN 1 ELSE 0)
  <1>1. PICK e \in Effects : /\ e \in Normal(m, mongod[m.lsid]) \cup Failing(m, mongod[m.lsid])
                             /\ Take(m, e)
    BY DeliveredEffect
  <1>2. /\ m.fiber \in Fibers /\ op \in [Fibers -> Operations] /\ fate \in [Fibers -> Seq(Calls)]
    BY DeliveredEffect DEF Messages, Typed, TypeOK
  <1>3. ASSUME NEW g \in Fibers
        PROVE  /\ op'[g].kind = op[g].kind /\ op'[g].pc = op[g].pc
               /\ op'[g].session = op[g].session
               /\ op'[g].ends = op[g].ends /\ op'[g].attempt = op[g].attempt
               /\ \/ op'[g].reply = op[g].reply
                  \/ /\ OfCall(m, g) /\ op[g].pc = "wait" /\ op[g].reply = None
                     /\ m.attempt = op[g].attempt /\ op'[g].reply = e.reply
    <2>1. CASE Awaited(m) /\ g = m.fiber
      <3>1. PICK o : o = [op[g] EXCEPT !.reply = e.reply]
        OBVIOUS
      <3>2. op'[g] = o
        BY <1>1, <1>2, <2>1, <3>1 DEF Take
      <3>3. /\ o.kind = op[g].kind /\ o.pc = op[g].pc /\ o.session = op[g].session
            /\ o.ends = op[g].ends /\ o.attempt = op[g].attempt /\ o.reply = e.reply
        BY <1>2, <3>1 DEF Operations
      <3>4. OfCall(m, g) /\ op[g].pc = "wait" /\ op[g].reply = None /\ m.attempt = op[g].attempt
        BY <2>1 DEF Awaited, OfCall
      <3> QED
        BY <3>2, <3>3, <3>4
    <2>2. CASE ~Awaited(m)
      BY <1>1, <2>2 DEF Take
    <2>3. CASE Awaited(m) /\ g # m.fiber
      <3>1. op' = [op EXCEPT ![m.fiber] = [@ EXCEPT !.reply = e.reply]]
        BY <1>1, <2>3 DEF Take
      <3>2. op'[g] = op[g]
        BY <1>2, <2>3, <3>1
      <3> QED
        BY <3>2
    <2> QED
      BY <2>1, <2>2, <2>3
  <1>4. \A g \in Fibers : Len(fate'[g]) = Len(fate[g])
    BY DeliverChanges DEF Changes
  <1> QED
    BY <1>1, <1>3, <1>4 DEF Answers, Take

-----------------------------------------------------------------------------
(* An attempt is one message *)

\* Of the attempt that g executes nothing more is on its way than before.
AttemptKept(g) ==
  op'[g].pc # "idle" =>
    \/ Serial(g)' > Len(fate[g])
    \/ /\ op[g].pc # "idle" /\ Serial(g)' = Serial(g)
       /\ \/ op'[g].attempt = op[g].attempt + 1
          \/ /\ op'[g].attempt = op[g].attempt
             /\ \/ op'[g].pc = op[g].pc /\ op'[g].reply = op[g].reply
                \/ op'[g].reply = "network"
                \/ op[g].pc \in {"recycle", "number", "send"}

LEMMA AttemptKeptOnce ==
  ASSUME Typed, SentOnce, NEW g \in Fibers, AttemptKept(g), wire' \subseteq wire
  PROVE  AttemptsOnce(g)'
  <1> SUFFICES ASSUME op'[g].pc # "idle", NEW m \in wire', OfCall(m, g)'
               PROVE  /\ m.attempt <= op'[g].attempt
                      /\ m.attempt = op'[g].attempt =>
                           (op'[g].pc = "wait" /\ op'[g].reply = None) \/ op'[g].reply = "network"
    BY DEF AttemptsOnce
  <1>1. ~(Serial(g)' > Len(fate[g]))
    BY NothingSent
  <1>2. op[g].pc # "idle" /\ OfCall(m, g) /\ m \in wire
    BY <1>1 DEF AttemptKept, OfCall
  <1>3. /\ m.attempt <= op[g].attempt
        /\ m.attempt = op[g].attempt =>
             (op[g].pc = "wait" /\ op[g].reply = None) \/ op[g].reply = "network"
    BY <1>2 DEF SentOnce, AttemptsOnce
  <1>4. m.attempt \in Nat /\ op[g].attempt \in Nat
    BY <1>2 DEF Typed, TypeOK, Messages, Operations
  <1>5. op[g].pc \in {"recycle", "number", "send"} => op[g].reply = None
    BY DEF Typed, ShapesOK, WellFormed
  <1>6. None # "network"
    BY FiberAssumption DEF Failures
  <1> QED
    BY <1>1, <1>2, <1>3, <1>4, <1>5, <1>6 DEF AttemptKept

LEMMA SentOnceKept ==
  ASSUME Typed, SentOnce, \A g \in Fibers : AttemptKept(g), wire' \subseteq wire
  PROVE  SentOnce'
  <1>1. \A g \in Fibers : AttemptsOnce(g)'
    BY AttemptKeptOnce
  <1> QED
    BY <1>1 DEF SentOnce, SameAttempt

LEMMA SameAttemptKept ==
  ASSUME Typed, NEW g \in Fibers, op'[g] = op[g], fate'[g] = fate[g]
  PROVE  AttemptKept(g)
  BY DEF AttemptKept, Serial

\* The next attempt is not on its way before it is sent, and once then.
LEMMA SendSentOnce ==
  ASSUME Typed, SentOnce, NEW f \in Fibers, Send(f)
  PROVE  SentOnce'
  <1>1. AttemptStep(f) /\ op[f].pc = "send" /\ fate' = fate
    BY AttemptsStep DEF Attempts, Send
  <1>2. PICK route \in Routes(f) : wire' = wire \cup {Message(f, route)}
    BY SendStep
  <1>3. PICK w : w = Message(f, route) /\ wire' = wire \cup {w}
    BY <1>2
  <1>4. w.fiber = f /\ w.serial = Serial(f) /\ w.attempt = op[f].attempt
    BY <1>3 DEF Message
  <1>5. op'[f].pc = "wait" /\ op'[f].reply = None /\ op'[f].attempt = op[f].attempt
    <2>1. PICK conn, o : /\ o = [op[f] EXCEPT !.pc = "wait", !.conn = conn]
                         /\ op' = [op EXCEPT ![f] = o]
      BY SendStep
    <2>2. op \in [Fibers -> Operations] /\ op[f].reply = None
      BY <1>1 DEF Typed, TypeOK, ShapesOK, WellFormed
    <2>3. o.pc = "wait" /\ o.reply = op[f].reply /\ o.attempt = op[f].attempt
      BY <2>1, <2>2 DEF Operations
    <2> QED
      BY <2>1, <2>2, <2>3
  <1>6. op[f].reply = None /\ op[f].attempt \in Nat /\ None # "network"
    BY <1>1, FiberAssumption DEF Typed, TypeOK, ShapesOK, WellFormed, Operations, Failures
  <1>7. \A m \in wire : OfCall(m, f) => m.attempt < op[f].attempt
    <2>1. \A m \in wire : m.attempt \in Nat
      BY DEF Typed, TypeOK, Messages
    <2> QED
      BY <1>1, <1>6, <2>1 DEF SentOnce, AttemptsOnce
  <1>8. AttemptsOnce(f)'
    <2>1. ASSUME NEW m \in wire', OfCall(m, f)' PROVE m.attempt <= op'[f].attempt
      <3>1. CASE m = w
        BY <1>4, <1>5, <1>6, <3>1
      <3>2. CASE m \in wire
        <4>1. OfCall(m, f)
          BY <1>1, <2>1 DEF OfCall, Serial
        <4>2. m.attempt < op[f].attempt /\ m.attempt \in Nat
          BY <1>7, <3>2, <4>1 DEF Typed, TypeOK, Messages
        <4> QED
          BY <1>5, <1>6, <4>2
      <3> QED
        BY <1>3, <2>1, <3>1, <3>2
    <2> QED
      BY <1>5, <2>1 DEF AttemptsOnce
  <1>9. ASSUME NEW g \in Fibers, g # f PROVE AttemptsOnce(g)'
    <2>1. op'[g] = op[g] /\ fate'[g] = fate[g]
      BY <1>1, <1>9 DEF AttemptStep
    <2>2. \A m \in wire' : OfCall(m, g)' => m \in wire /\ OfCall(m, g)
      BY <1>3, <1>4, <1>9, <2>1 DEF OfCall, Serial
    <2> QED
      BY <2>1, <2>2 DEF SentOnce, AttemptsOnce
  <1>10. \A m, v \in wire' : SameAttempt(m, v) => m = v
    <2>1. ASSUME NEW m \in wire PROVE ~SameAttempt(m, w) /\ ~SameAttempt(w, m)
      <3>1. ASSUME m.fiber = f, m.serial = Serial(f) PROVE m.attempt # op[f].attempt
        BY <1>6, <1>7, <3>1 DEF OfCall, Typed, TypeOK, Messages
      <3> QED
        BY <1>4, <3>1 DEF SameAttempt
    <2> QED
      BY <1>3, <2>1 DEF SentOnce
  <1> QED
    BY <1>8, <1>9, <1>10 DEF SentOnce

LEMMA AttemptsSentOnce ==
  ASSUME Typed, SentOnce, NEW f \in Fibers, Attempts(f)
  PROVE  SentOnce'
  <1>1. CASE Send(f)
    BY <1>1, SendSentOnce
  <1>2. CASE ~Send(f)
    <2>1. wire' \subseteq wire
      BY <1>2 DEF Attempts, Recycle, TakeNumber, NestedCommand, DropDeadPin, NotSent,
         NetworkError, TriedAgain, CommandEnds, serverVars
    <2>2. AttemptKept(f)
      BY AttemptsStep DEF AttemptStep, AttemptKept, Serial
    <2>3. \A g \in Fibers : g # f => AttemptKept(g)
      BY AttemptsStep, SameAttemptKept DEF AttemptStep
    <2> QED
      BY <2>1, <2>2, <2>3, SentOnceKept
  <1> QED
    BY <1>1, <1>2

\* A new command.
LEMMA NewSentOnce ==
  ASSUME Typed, SentOnce, NEW f \in Fibers, Serial(f)' > Len(fate[f]) \/ op'[f].pc = "idle",
         \A g \in Fibers : g # f => op'[g] = op[g] /\ fate'[g] = fate[g],
         wire' = wire
  PROVE  SentOnce'
  <1>1. AttemptKept(f)
    BY DEF AttemptKept
  <1>2. \A g \in Fibers : g # f => AttemptKept(g)
    BY SameAttemptKept
  <1> QED
    BY <1>1, <1>2, SentOnceKept

\* No command begins or goes on.
LEMMA StillSentOnce ==
  ASSUME Typed, SentOnce, op' = op, fate' = fate, wire' \subseteq wire
  PROVE  SentOnce'
  BY SameAttemptKept, SentOnceKept

LEMMA DeliverSentOnce ==
  ASSUME Typed, SentOnce, NEW m \in wire, Deliver(m)
  PROVE  SentOnce'
  <1>1. PICK e \in Effects : Answers(m, e)
    BY DeliverStep
  <1>2. wire' = wire \ {m} /\ \A g \in Fibers : Serial(g)' = Serial(g)
    BY <1>1 DEF Answers, Serial
  <1>3. ASSUME NEW g \in Fibers, op'[g].pc # "idle", NEW w \in wire', OfCall(w, g)'
        PROVE  /\ w.attempt <= op'[g].attempt
               /\ w.attempt = op'[g].attempt =>
                    (op'[g].pc = "wait" /\ op'[g].reply = None) \/ op'[g].reply = "network"
    <2>1. /\ w \in wire /\ w # m /\ OfCall(w, g)
          /\ op'[g].pc = op[g].pc /\ op'[g].attempt = op[g].attempt
      BY <1>1, <1>2, <1>3 DEF Answers, OfCall
    <2>2. /\ w.attempt <= op[g].attempt
          /\ w.attempt = op[g].attempt =>
               (op[g].pc = "wait" /\ op[g].reply = None) \/ op[g].reply = "network"
      BY <1>3, <2>1 DEF SentOnce, AttemptsOnce
    <2>3. CASE op'[g].reply = op[g].reply
      BY <2>1, <2>2, <2>3
    <2>4. CASE OfCall(m, g) /\ m.attempt = op[g].attempt
      <3>1. w.attempt # op[g].attempt
        BY <2>1, <2>4 DEF SentOnce, SameAttempt, OfCall
      <3> QED
        BY <2>1, <2>2, <3>1
    <2> QED
      BY <1>1, <2>3, <2>4 DEF Answers
  <1>4. \A g \in Fibers : AttemptsOnce(g)'
    BY <1>3 DEF AttemptsOnce
  <1> QED
    BY <1>2, <1>4 DEF SentOnce, SameAttempt

\* What the owner does with the session when it is idle: a command, one that sends
\* nothing, or no command at all.
OwnerBegun ==
  \/ \E kind \in Kinds, pc \in {"number", "send"}, ends \in BOOLEAN :
       NewCommand(Owner, kind, Explicit, pc, ends)
  \/ op' = op /\ Serial(Owner)' > Len(fate[Owner])
     /\ \A g \in Fibers : g # Owner => fate'[g] = fate[g]
  \/ op' = op /\ fate' = fate

LEMMA OwnerStep ==
  ASSUME Typed,
         \/ StartTransaction \/ Statement \/ PlainWrite \/ Commit \/ CommitEmpty \/ Abort
         \/ BodyEnds \/ EndSession
  PROVE  OwnerBegun /\ op[Owner] = Idle /\ wire' = wire /\ mongod' = mongod /\ Explicit \in live
  <1>1. op[Owner].pc = "idle" /\ wire' = wire /\ mongod' = mongod /\ Explicit \in live
    BY DEF StartTransaction, Statement, PlainWrite, Commit, CommitEmpty, Abort, BodyEnds,
       EndSession, OwnerIdle, MayCommit, MayAbort, ByCalls, serverVars
  <1>2. op[Owner] = Idle /\ Owner \in Fibers
    BY <1>1, Distinct DEF Typed, ShapesOK, WellFormed
  <1>3. CASE Statement \/ PlainWrite \/ Commit
    <2>1. \/ Begin(Owner, "statement", Explicit, "send")
          \/ Begin(Owner, "write", Explicit, "number")
          \/ Begin(Owner, "commit", Explicit, "send")
      BY <1>3 DEF Statement, PlainWrite, Commit
    <2>2. \/ NewCommand(Owner, "statement", Explicit, "send", FALSE)
          \/ NewCommand(Owner, "write", Explicit, "number", FALSE)
          \/ NewCommand(Owner, "commit", Explicit, "send", FALSE)
      BY <1>2, <2>1, BeginStep DEF Kinds
    <2> QED
      BY <1>1, <1>2, <2>2 DEF OwnerBegun, Kinds
  <1>4. ASSUME NEW ends \in BOOLEAN, AbortSent(ends) PROVE OwnerBegun
    <2>1. NewCommand(Owner, "abort", Explicit, "send", ends)
      BY <1>4, AbortStep
    <2> QED
      BY <2>1 DEF OwnerBegun, Kinds
  <1>5. ASSUME NEW kind \in {"commit", "abort"}, op' = op,
               fate' = [fate EXCEPT ![Owner] = Append(@, [NewCall(kind) EXCEPT !.done = TRUE])]
        PROVE  OwnerBegun
    <2>1. PICK k \in Calls : k = [NewCall(kind) EXCEPT !.done = TRUE]
      BY NewCallTyped DEF Kinds
    <2>2. fate' = [fate EXCEPT ![Owner] = Append(@, k)]
      BY <1>5, <2>1
    <2> QED
      BY <1>2, <1>5, <2>2, LongerFate DEF OwnerBegun
  <1>6. CASE CommitEmpty
    <2>1. /\ op' = op
          /\ fate' = [fate EXCEPT ![Owner] = Append(@, [NewCall("commit") EXCEPT !.done = TRUE])]
      BY <1>6 DEF CommitEmpty
    <2> QED
      BY <1>1, <1>2, <1>5, <2>1
  <1>7. CASE AbortUnsent
    <2>1. /\ op' = op
          /\ fate' = [fate EXCEPT ![Owner] = Append(@, [NewCall("abort") EXCEPT !.done = TRUE])]
      BY <1>7 DEF AbortUnsent
    <2> QED
      BY <1>1, <1>2, <1>5, <2>1
  <1>8. CASE op' = op /\ fate' = fate
    BY <1>1, <1>2, <1>8 DEF OwnerBegun
  <1>9. CASE StartTransaction \/ BodyEnds
    BY <1>8, <1>9 DEF StartTransaction, BodyEnds, serverVars
  <1>10. CASE Abort
    BY <1>1, <1>2, <1>4, <1>7, <1>10 DEF Abort
  <1>11. CASE EndSession
    BY <1>1, <1>2, <1>4, <1>8, <1>11 DEF EndSession
  <1> QED
    BY <1>3, <1>6, <1>9, <1>10, <1>11

LEMMA NextSentOnce ==
  ASSUME Typed, SentOnce, [Next]_vars
  PROVE  SentOnce'
  <1>1. ASSUME NEW f \in Fibers, Lookup(f) PROVE SentOnce'
    <2>1. PICK pc : Begin(f, "write", f, pc)
      BY <1>1 DEF Lookup
    <2>2. NewCommand(f, "write", f, pc, FALSE) /\ wire' = wire
      BY <1>1, <2>1, BeginStep DEF Lookup, Kinds
    <2> QED
      BY <2>2, NewSentOnce DEF NewCommand
  <1>2. CASE StartSession \/ EndFiberSessions \/ ClosePool \/ UNCHANGED vars
    <2>1. op' = op /\ fate' = fate /\ wire' = wire
      BY <1>2 DEF StartSession, EndFiberSessions, ClosePool, vars, serverVars
    <2> QED
      BY <2>1, StillSentOnce
  <1>3. CASE \/ StartTransaction \/ Statement \/ PlainWrite \/ Commit \/ CommitEmpty \/ Abort
             \/ BodyEnds \/ EndSession
    <2>1. OwnerBegun /\ op[Owner] = Idle /\ wire' = wire /\ Owner \in Fibers
      BY <1>3, OwnerStep, Distinct
    <2>2. \/ Serial(Owner)' > Len(fate[Owner])
             /\ \A g \in Fibers : g # Owner => op'[g] = op[g] /\ fate'[g] = fate[g]
          \/ op' = op /\ fate' = fate
      BY <2>1 DEF OwnerBegun, NewCommand
    <2> QED
      BY <2>1, <2>2, NewSentOnce, StillSentOnce
  <1> QED
    BY <1>1, <1>2, <1>3, AttemptsSentOnce, DeliverSentOnce DEF Next

LEMMA InitSentOnce ==
  ASSUME Init
  PROVE  SentOnce
  BY DEF Init, SentOnce, AttemptsOnce

-----------------------------------------------------------------------------
(* What commit and abort tell *)

\* All but the pin, the connection and what the next command has to say.
SameTransaction ==
  /\ txn'.state = txn.state /\ txn'.from = txn.from /\ txn'.empty = txn.empty
  /\ txn'.acked = txn.acked /\ txn'.spoiled = txn.spoiled /\ txn'.told = txn.told

\* The explicit session keeps its server session and number.
SessionStays ==
  held'[Explicit] = held[Explicit] /\ number'[held[Explicit]] = number[held[Explicit]]

RecordStays == mongod'[held[Explicit]] = mongod[held[Explicit]]

LEMMA OursStay ==
  ASSUME SessionStays
  PROVE  \A m : Ours(m)' <=> Ours(m)
  BY DEF SessionStays, Ours

LEMMA OutcomeStays ==
  ASSUME SessionStays, RecordStays
  PROVE  /\ Outcome' = Outcome /\ (CommittedAtServer' <=> CommittedAtServer)
         /\ (Doomed' <=> Doomed) /\ number'[held'[Explicit]] = number[held[Explicit]]
  BY DEF SessionStays, RecordStays, Outcome, CommittedAtServer, Doomed

\* A step that has nothing to do with the transaction.
LEMMA QuietKept ==
  ASSUME TransactionKept, SameTransaction, SessionStays, RecordStays,
         \A m \in wire' : m \in wire \/ (m.lsid # held[Explicit] /\ m.fiber # Owner)
                          \/ (m.lsid # held[Explicit] /\ ~Explicitly(Owner)),
         \/ op'[Owner] = op[Owner] /\ fate'[Owner] = fate[Owner]
         \/ ~Explicitly(Owner) /\ op'[Owner].session # Explicit
  PROVE  TransactionKept'
  <1>1. \A m : Ours(m)' <=> Ours(m)
    BY OursStay
  <1>2. /\ Outcome' = Outcome /\ (CommittedAtServer' <=> CommittedAtServer)
        /\ (Doomed' <=> Doomed) /\ number'[held'[Explicit]] = number[held[Explicit]]
    BY OutcomeStays
  <1>3. \A kind : OursOf(kind)' \subseteq OursOf(kind)
    BY <1>1 DEF OursOf, Ours
  <1>4. /\ \A kind : Asks(kind)' <=> Asks(kind)
        /\ \A kind, reply : Answered(kind, reply)' <=> Answered(kind, reply)
        /\ Explicitly(Owner)' <=> Explicitly(Owner)
    BY DEF Asks, Answered, Explicitly, Kind
  <1>5. \A m : Explicitly(Owner) => (OfCall(m, Owner)' <=> OfCall(m, Owner))
    BY DEF OfCall, Serial, Explicitly
  <1>6. \A m : Underway(m)' <=> Underway(m)
    BY <1>4, <1>5 DEF Underway, Asks, Explicitly
  <1>7. CommandFits'
    <2>1. ASSUME ~Asks("write")', Explicitly(Owner)', NEW m \in wire', OfCall(m, Owner)'
          PROVE  Ours(m)'
      <3>1. ~Asks("write") /\ Explicitly(Owner) /\ OfCall(m, Owner)
        BY <1>4, <1>5, <2>1
      <3>2. m \in wire
        BY <3>1 DEF OfCall
      <3> QED
        BY <1>1, <3>1, <3>2 DEF TransactionKept, CommandFits
    <2> QED
      BY <1>4, <2>1 DEF TransactionKept, CommandFits, SameTransaction
  <1>8. ToldFits'
    BY DEF TransactionKept, ToldFits, SameTransaction
  <1>9. ASSUME Current' PROVE StatementsHeld' /\ NotCommitted' /\ StatementsUnderway' /\ Decided'
    <2>1. StatementsHeld /\ NotCommitted /\ StatementsUnderway /\ Decided
      BY <1>9 DEF TransactionKept, Current, SameTransaction
    <2>2. StatementsHeld'
      BY <1>2, <1>4, <2>1 DEF StatementsHeld, SameTransaction
    <2>3. NotCommitted'
      BY <1>2, <1>3, <2>1 DEF NotCommitted, SameTransaction
    <2>4. StatementsUnderway'
      BY <1>3, <1>4, <1>6, <2>1 DEF StatementsUnderway, SameTransaction
    <2>5. Decided'
      BY <1>2, <1>4, <2>1 DEF Decided, SameTransaction
    <2> QED
      BY <2>2, <2>3, <2>4, <2>5
  <1>10. txn'.state = "none" /\ txn'.told # "over" => txn'.acked = 0
    BY DEF TransactionKept, SameTransaction
  <1> QED
    BY <1>7, <1>8, <1>9, <1>10 DEF TransactionKept

\* A transaction that the session has left is nobody's concern.
LEMMA OverKept ==
  ASSUME txn'.told = "over", \A kind \in Kinds \ {"write"} : ~Asks(kind)',
         Explicitly(Owner)' => Kind(Owner)' \in Kinds
  PROVE  TransactionKept'
  <1>1. ~Asks("statement")' /\ ~Asks("commit")' /\ ~Asks("abort")'
    BY DEF Kinds
  <1>2. Explicitly(Owner)' => Asks("write")'
    BY <1>1 DEF Asks, Kinds
  <1>3. CommandFits'
    BY <1>1, <1>2 DEF CommandFits
  <1> QED
    BY <1>3 DEF TransactionKept, ToldFits, Current

\* The explicit session's server session is not set up anew, nor counted up by a
\* fiber that works with another one.
LEMMA AcquireStays ==
  ASSUME Typed, NEW c \in Sessions, c # Explicit, NEW q \in Seq(Lsids), Acquire(c, q),
         Explicit \in live
  PROVE  SessionStays /\ RecordStays
  <1>1. held'[Explicit] = held[Explicit] /\ held[Explicit] \in Lsids
    BY AcquireForgets, Distinct DEF Typed, TypeOK
  <1>2. ~Forgotten(held[Explicit])
    BY Distinct DEF Forgotten
  <1> QED
    BY <1>1, <1>2, AcquireForgets DEF SessionStays, RecordStays

LEMMA ExchangeStays ==
  ASSUME Typed, NEW f \in Fibers, f \in live, Exchange(f), Explicit \in live
  PROVE  SessionStays /\ RecordStays
  <1>1. PICK q \in Returned(held[f], free) : Acquire(f, q)
    BY DEF Exchange
  <1>2. q \in Seq(Lsids) /\ f \in Sessions /\ f # Explicit
    BY <1>1, ReturnedQueue, Distinct DEF Typed, TypeOK
  <1> QED
    BY <1>1, <1>2, AcquireStays

LEMMA LookupKept ==
  ASSUME Typed, TransactionKept, Explicit \in live, NEW f \in Fibers, Lookup(f)
  PROVE  TransactionKept'
  <1>1. SessionStays /\ RecordStays
    <2>1. CASE f \in live
      BY <2>1 DEF Lookup, Begin, serverVars, poolVars, SessionStays, RecordStays
    <2>2. CASE f \notin live
      BY <2>2, AcquireStays, Distinct DEF Lookup, Typed, TypeOK
    <2> QED
      BY <2>1, <2>2
  <1>2. wire' = wire /\ txn' = txn
    BY DEF Lookup
  <1>3. PICK pc : Begin(f, "write", f, pc)
    BY DEF Lookup
  <1>4. NewCommand(f, "write", f, pc, FALSE)
    BY <1>3, BeginStep DEF Kinds
  <1>5. \/ op'[Owner] = op[Owner] /\ fate'[Owner] = fate[Owner]
        \/ ~Explicitly(Owner) /\ op'[Owner].session # Explicit
    <2>1. CASE f = Owner
      <3>1. op[Owner] = Idle
        BY <2>1 DEF Lookup, Callable, Typed, ShapesOK, WellFormed
      <3> QED
        BY <1>4, <2>1, <3>1, Distinct DEF NewCommand, Explicitly, Idle
    <2>2. CASE f # Owner
      BY <1>4, <2>2, Distinct DEF NewCommand
    <2> QED
      BY <2>1, <2>2
  <1> QED
    BY <1>1, <1>2, <1>5, QuietKept DEF SameTransaction

LEMMA UnpinnedSame ==
  ASSUME NEW t \in TransactionRecords, NEW u, u = Unpinned(t)
  PROVE  /\ u.state = t.state /\ u.from = t.from /\ u.empty = t.empty
         /\ u.acked = t.acked /\ u.spoiled = t.spoiled /\ u.told = t.told
  BY DEF Unpinned, TransactionRecords

\* Only the end of one of its commands changes the transaction.
LEMMA GoesOnSame ==
  ASSUME Typed, NEW f \in Fibers,
         \/ DropDeadPin(f) \/ Send(f) \/ NotSent(f) \/ NetworkError(f) \/ TriedAgain(f)
         \/ Attempts(f) /\ ~Explicitly(f)
  PROVE  SameTransaction /\ call' = call
  <1>1. txn \in TransactionRecords
    BY DEF Typed, TypeOK
  <1>2. CASE TriedAgain(f)
    <2>1. PICK u : u = Unpinned(txn)
      OBVIOUS
    <2>2. txn' \in {txn, u} /\ call' = call
      BY <1>2, <2>1 DEF TriedAgain
    <2> QED
      BY <1>1, <2>1, <2>2, UnpinnedSame DEF SameTransaction
  <1>3. CASE DropDeadPin(f) \/ Send(f)
    BY <1>1, <1>3 DEF DropDeadPin, Send, SameTransaction, TransactionRecords
  <1>4. CASE Recycle(f) \/ TakeNumber(f) \/ NestedCommand(f) \/ NotSent(f) \/ NetworkError(f)
    BY <1>4 DEF Recycle, TakeNumber, NestedCommand, NotSent, NetworkError, SameTransaction
  <1>5. CASE CommandEnds(f) /\ ~Explicitly(f)
    BY <1>5 DEF CommandEnds, SameTransaction
  <1> QED
    BY <1>2, <1>3, <1>4, <1>5 DEF Attempts

\* A command that uses another session leaves this one's number and record alone.
LEMMA ImplicitStays ==
  ASSUME Holders, closer = "open", Explicit \in live,
         NEW f \in Fibers, ~Explicitly(f), Attempts(f)
  PROVE  SessionStays /\ RecordStays
  <1>1. Typed /\ op[f].pc # "idle"
    BY AttemptsStep DEF Holders, AttemptStep
  <1>2. Lsid(f) # held[Explicit]
    BY <1>1, OwnSession DEF Explicitly
  <1>3. CASE Exchange(f) /\ f \in live
    BY <1>1, <1>3, ExchangeStays
  <1>4. CASE UNCHANGED <<held, number, mongod>>
    BY <1>4 DEF SessionStays, RecordStays
  <1>5. CASE TakeNumber(f)
    <2>1. PICK l : l = Lsid(f)
      OBVIOUS
    <2>2. number' = number \/ number' = [number EXCEPT ![l] = @ + 1]
      BY <1>5, <2>1 DEF TakeNumber
    <2>3. held' = held /\ mongod' = mongod /\ number \in [Lsids -> Nat] /\ held[Explicit] \in Lsids
      BY <1>1, <1>5 DEF TakeNumber, poolVars, serverVars, Typed, TypeOK
    <2> QED
      BY <1>2, <2>1, <2>2, <2>3 DEF SessionStays, RecordStays
  <1> QED
    BY <1>3, <1>4, <1>5 DEF Attempts, Recycle, NestedCommand, DropDeadPin, Send, NotSent,
       NetworkError, TriedAgain, CommandEnds, poolVars, serverVars

\* The steps of a command that uses another session.
LEMMA ImplicitKept ==
  ASSUME Holders, closer = "open", TransactionKept, Explicit \in live,
         NEW f \in Fibers, ~Explicitly(f), Attempts(f)
  PROVE  TransactionKept'
  <1>1. AttemptStep(f) /\ Typed /\ op[f].pc # "idle" /\ txn \in TransactionRecords
    BY AttemptsStep DEF Holders, AttemptStep, Typed, TypeOK
  <1>2. Lsid(f) # held[Explicit] /\ op[f].session # Explicit
    BY <1>1, OwnSession DEF Explicitly
  <1>3. \/ op'[Owner] = op[Owner] /\ fate'[Owner] = fate[Owner]
        \/ ~Explicitly(Owner) /\ op'[Owner].session # Explicit
    BY <1>1, <1>2, Distinct DEF AttemptStep, Explicitly, Idle
  <1>4. SessionStays /\ RecordStays /\ SameTransaction
    BY <1>1, ImplicitStays, GoesOnSame
  <1>5. CASE Send(f)
    <2>1. PICK route \in Routes(f) : wire' = wire \cup {Message(f, route)}
      BY <1>5, SendStep
    <2>2. PICK w : w = Message(f, route) /\ wire' = wire \cup {w}
      BY <2>1
    <2>3. w.lsid # held[Explicit] /\ w.fiber = f
      BY <1>1, <1>2, <2>2, MessageTyped
    <2> QED
      BY <1>3, <1>4, <2>2, <2>3, QuietKept
  <1>6. CASE ~Send(f)
    <2>1. wire' \subseteq wire
      BY <1>6 DEF Attempts, Recycle, TakeNumber, NestedCommand, DropDeadPin, NotSent,
         NetworkError, TriedAgain, CommandEnds, serverVars
    <2> QED
      BY <1>3, <1>4, <2>1, QuietKept
  <1> QED
    BY <1>5, <1>6

\* A write with the explicit session: the transaction before it is over.
LEMMA ExplicitWriteKept ==
  ASSUME Typed, TransactionKept, Explicitly(Owner), Kind(Owner) = "write", Attempts(Owner)
  PROVE  TransactionKept'
  <1>1. AttemptStep(Owner) /\ txn \in TransactionRecords /\ txn.told = "over"
    BY AttemptsStep, Distinct DEF Typed, TypeOK, TransactionKept, CommandFits, Asks
  <1>2. txn'.told = "over"
    <2>1. CASE CommandEnds(Owner)
      <3>1. PICK t : t = Settled(txn, "write", op[Owner].reply)
        OBVIOUS
      <3>2. txn' \in {t, Unpinned(t)}
        BY <2>1, <3>1 DEF CommandEnds
      <3>3. t \in TransactionRecords /\ t.told = "over"
        BY <1>1, <3>1 DEF Settled, TransactionRecords
      <3> QED
        BY <3>2, <3>3 DEF Unpinned, TransactionRecords
    <2>2. CASE ~CommandEnds(Owner)
      BY <1>1, <2>2 DEF Attempts, Recycle, TakeNumber, NestedCommand, DropDeadPin, Send,
         NotSent, NetworkError, TriedAgain, Unpinned, TransactionRecords
    <2> QED
      BY <2>1, <2>2
  <1>3. op'[Owner].session # Explicit \/ op'[Owner].kind = "write"
    BY <1>1, Distinct DEF AttemptStep, Idle, Kind
  <1> QED
    BY <1>2, <1>3, OverKept DEF Asks, Explicitly, Kind, Kinds

\* A command of the transaction that goes on: its next attempt, or one that broke.
LEMMA GoesOnKept ==
  ASSUME Typed, TransactionKept, SameTransaction, SessionStays, RecordStays,
         Explicitly(Owner), Kind(Owner) # "write",
         op'[Owner].kind = op[Owner].kind, op'[Owner].session = op[Owner].session,
         fate'[Owner] = fate[Owner],
         op'[Owner].reply \notin {"ok", "noTransaction"},
         \A m \in wire' : m \in wire \/
           /\ Ours(m) /\ m.kind = Kind(Owner) /\ OfCall(m, Owner)
           /\ m.attempt = op'[Owner].attempt /\ op'[Owner].pc = "wait" /\ op'[Owner].reply = None,
         \/ op'[Owner].reply = "network" \/ Kind(Owner) # "statement"
         \/ /\ op[Owner].reply # "network"
            /\ op[Owner].pc # "wait" \/ op[Owner].reply # None
  PROVE  TransactionKept'
  <1>1. \A m : Ours(m)' <=> Ours(m)
    BY OursStay
  <1>2. /\ Outcome' = Outcome /\ (CommittedAtServer' <=> CommittedAtServer)
        /\ (Doomed' <=> Doomed) /\ number'[held'[Explicit]] = number[held[Explicit]]
    BY OutcomeStays
  <1>3. /\ \A kind : Asks(kind)' <=> Asks(kind)
        /\ Explicitly(Owner)' /\ Kind(Owner)' = Kind(Owner)
        /\ \A kind : ~Answered(kind, "ok")' /\ ~Answered(kind, "noTransaction")'
        /\ \A m : OfCall(m, Owner)' <=> OfCall(m, Owner)
    BY DEF Asks, Answered, Explicitly, Kind, OfCall, Serial
  <1>4. \A kind : kind # Kind(Owner) => OursOf(kind)' \subseteq OursOf(kind)
    BY <1>1 DEF OursOf
  <1>5. CommandFits'
    BY <1>1, <1>3 DEF CommandFits, TransactionKept, SameTransaction, Asks
  <1>6. ToldFits' /\ (txn'.state = "none" /\ txn'.told # "over" => txn'.acked = 0)
    BY DEF TransactionKept, ToldFits, SameTransaction
  <1>7. ASSUME Current' PROVE StatementsHeld' /\ NotCommitted' /\ StatementsUnderway' /\ Decided'
    <2>1. StatementsHeld /\ NotCommitted /\ StatementsUnderway /\ Decided /\ CommandFits
      BY <1>7 DEF TransactionKept, Current, SameTransaction
    <2>2. StatementsHeld'
      BY <1>2, <1>3, <2>1 DEF StatementsHeld, SameTransaction
    <2>3. NotCommitted'
      BY <1>2, <1>4, <2>1 DEF NotCommitted, SameTransaction, CommandFits, Asks
    <2>4. StatementsUnderway'
      <3>1. txn'.state = "committed" => ~txn'.spoiled
        BY <2>1 DEF StatementsUnderway, SameTransaction
      <3>2. ASSUME NEW m \in OursOf("statement")'
            PROVE  txn'.spoiled \/ Answered("statement", "network")' \/ Underway(m)'
        <4>1. CASE m \in wire
          <5>1. txn.spoiled \/ Answered("statement", "network") \/ Underway(m)
            BY <1>1, <2>1, <3>2, <4>1 DEF StatementsUnderway, OursOf
          <5> QED
            BY <5>1 DEF SameTransaction, Answered, Underway, Asks, Explicitly, Kind
        <4>2. CASE m \notin wire
          <5>1. /\ Kind(Owner) = "statement" /\ OfCall(m, Owner)
                /\ m.attempt = op'[Owner].attempt /\ op'[Owner].pc = "wait"
                /\ op'[Owner].reply = None
            BY <3>2, <4>2 DEF OursOf
          <5> QED
            BY <1>3, <5>1 DEF Underway, Asks
        <4> QED
          BY <4>1, <4>2
      <3> QED
        BY <3>1, <3>2 DEF StatementsUnderway
    <2>5. Decided'
      BY <1>2, <1>3, <2>1 DEF Decided, SameTransaction
    <2> QED
      BY <2>2, <2>3, <2>4, <2>5
  <1> QED
    BY <1>5, <1>6, <1>7 DEF TransactionKept

LEMMA CommandGoesOnKept ==
  ASSUME Typed, TransactionKept, Explicitly(Owner), Kind(Owner) # "write",
         \/ DropDeadPin(Owner) \/ Send(Owner) \/ NotSent(Owner) \/ NetworkError(Owner)
         \/ TriedAgain(Owner)
  PROVE  TransactionKept'
  <1>1. /\ AttemptStep(Owner) /\ txn \in TransactionRecords /\ op \in [Fibers -> Operations]
        /\ Owner \in Fibers /\ WellFormed(Owner)
    BY AttemptsStep, Distinct DEF Typed, TypeOK, ShapesOK, Attempts
  <1>2. SessionStays /\ RecordStays /\ fate' = fate
    BY DEF DropDeadPin, Send, NotSent, NetworkError, TriedAgain, poolVars, serverVars,
       SessionStays, RecordStays
  <1>3. SameTransaction
    BY <1>1, GoesOnSame
  <1>4. None \notin {"ok", "noTransaction", "network"}
    BY FiberAssumption DEF Failures
  <1>5. op[Owner].pc = "send" => op[Owner].reply = None
    BY <1>1 DEF WellFormed
  <1>6. CASE DropDeadPin(Owner)
    <2>1. op' = op /\ wire' = wire
      BY <1>6 DEF DropDeadPin, serverVars
    <2> QED
      BY <1>2, <1>3, <2>1, QuietKept
  <1>7. CASE Send(Owner)
    <2>1. PICK route \in Routes(Owner) : wire' = wire \cup {Message(Owner, route)}
      BY <1>1, <1>7, SendStep
    <2>2. PICK w : w = Message(Owner, route) /\ wire' = wire \cup {w}
      BY <2>1
    <2>3. op[Owner].pc = "send"
      BY <1>7 DEF Send
    <2>4. Ours(w) /\ w.kind = Kind(Owner) /\ OfCall(w, Owner) /\ w.attempt = op[Owner].attempt
      <3>1. /\ w.lsid = Lsid(Owner) /\ w.number = number[Lsid(Owner)]
            /\ w.kind = Kind(Owner) /\ w.fiber = Owner /\ w.serial = Serial(Owner)
        BY <1>1, <2>2, <2>3, MessageTyped
      <3> QED
        BY <2>2, <3>1 DEF Ours, OfCall, Message, Explicitly, Lsid
    <2>5. PICK conn, o : /\ o = [op[Owner] EXCEPT !.pc = "wait", !.conn = conn]
                         /\ op' = [op EXCEPT ![Owner] = o]
      BY <1>1, <1>7, SendStep
    <2>6. /\ op'[Owner].pc = "wait" /\ op'[Owner].reply = None
          /\ op'[Owner].kind = op[Owner].kind /\ op'[Owner].session = op[Owner].session
          /\ op'[Owner].attempt = op[Owner].attempt
      <3>1. /\ o.pc = "wait" /\ o.reply = op[Owner].reply /\ o.kind = op[Owner].kind
            /\ o.session = op[Owner].session /\ o.attempt = op[Owner].attempt
        BY <1>1, <2>5 DEF Operations
      <3> QED
        BY <1>1, <1>5, <2>3, <2>5, <3>1
    <2> QED
      BY <1>2, <1>3, <1>4, <1>5, <2>2, <2>3, <2>4, <2>6, GoesOnKept
  <1>8. CASE NotSent(Owner) \/ NetworkError(Owner)
    <2>1. op[Owner].pc \in {"send", "wait"} /\ op'[Owner].pc = "ended" /\ wire' \subseteq wire
          /\ (op'[Owner].reply = "network" \/ op[Owner].pc = "send")
          /\ op'[Owner].reply \notin {"ok", "noTransaction"}
      <3>1. CASE NotSent(Owner)
        <4>1. PICK failure \in {"unselected", "cleared"} :
                op' = [op EXCEPT ![Owner] = [@ EXCEPT !.pc = "ended", !.reply = failure]]
          BY <3>1 DEF NotSent
        <4>2. PICK o : /\ o = [op[Owner] EXCEPT !.pc = "ended", !.reply = failure]
                       /\ op' = [op EXCEPT ![Owner] = o]
          BY <4>1
        <4>3. o.pc = "ended" /\ o.reply = failure
          BY <1>1, <4>2 DEF Operations
        <4> QED
          BY <1>1, <3>1, <4>2, <4>3 DEF NotSent, serverVars
      <3>2. CASE NetworkError(Owner)
        <4>1. PICK o : /\ o = [op[Owner] EXCEPT !.pc = "ended", !.reply = "network"]
                       /\ op' = [op EXCEPT ![Owner] = o]
          BY <3>2 DEF NetworkError
        <4>2. o.pc = "ended" /\ o.reply = "network"
          BY <1>1, <4>1 DEF Operations
        <4> QED
          BY <1>1, <3>2, <4>1, <4>2 DEF NetworkError
      <3> QED
        BY <1>8, <3>1, <3>2
    <2>2. op'[Owner].kind = op[Owner].kind /\ op'[Owner].session = op[Owner].session
      BY <1>1, <2>1 DEF AttemptStep
    <2> QED
      BY <1>2, <1>3, <1>4, <1>5, <2>1, <2>2, GoesOnKept
  <1>9. CASE TriedAgain(Owner)
    <2>1. PICK o : o = NextAttempt(op[Owner]) /\ op' = [op EXCEPT ![Owner] = o]
      BY <1>9 DEF TriedAgain
    <2>2. /\ op'[Owner].kind = op[Owner].kind /\ op'[Owner].session = op[Owner].session
          /\ op'[Owner].reply = None
      <3>1. o.kind = op[Owner].kind /\ o.session = op[Owner].session /\ o.reply = None
        BY <1>1, <2>1 DEF NextAttempt, Operations
      <3> QED
        BY <1>1, <2>1, <3>1
    <2>3. /\ wire' = wire /\ op[Owner].reply # None
          /\ Kind(Owner) = "statement" => op[Owner].reply # "network"
      BY <1>9 DEF TriedAgain, serverVars, Again, TriesAgain
    <2> QED
      BY <1>2, <1>3, <1>4, <2>2, <2>3, GoesOnKept
  <1> QED
    BY <1>6, <1>7, <1>8, <1>9

\* The command of the transaction ends, and tells.
LEMMA CommandEndsKept ==
  ASSUME Typed, TransactionKept, Explicitly(Owner), Kind(Owner) # "write", CommandEnds(Owner)
  PROVE  TransactionKept'
  <1>1. /\ AttemptStep(Owner) /\ txn \in TransactionRecords /\ op \in [Fibers -> Operations]
        /\ Owner \in Fibers /\ WellFormed(Owner) /\ OpsTyped
    BY AttemptsStep, Distinct, TypedParts DEF Typed, TypeOK, ShapesOK, Attempts
  <1>2. PICK r : r = op[Owner].reply /\ r # None
    BY DEF CommandEnds
  <1>3. Kind(Owner) \in {"statement", "commit", "abort"}
    BY <1>1, <1>2, RepliedExecutes DEF Executing, Kinds
  <1>4. SessionStays /\ RecordStays /\ wire' = wire /\ op'[Owner] = Idle
    BY <1>1 DEF CommandEnds, SessionStays, RecordStays
  <1>5. /\ \A kind : ~Asks(kind)' /\ \A reply : ~Answered(kind, reply)'
        /\ ~Explicitly(Owner)' /\ \A m : ~Underway(m)'
    BY <1>4, Distinct DEF Asks, Answered, Underway, Explicitly, Idle
  <1>6. CommandFits'
    BY <1>5 DEF CommandFits
  <1>7. PICK t : t = Settled(txn, Kind(Owner), r)
    OBVIOUS
  <1>8. t \in TransactionRecords
    <2>1. t = Settled(txn, op[Owner].kind, op[Owner].reply)
      BY <1>2, <1>7 DEF Kind
    <2> QED
      BY <1>1, <1>2, <1>3, <2>1, SettledTyped DEF Kind, Operations, Kinds, TypeOK
  <1>9. /\ txn'.state = t.state /\ txn'.empty = t.empty
        /\ txn'.acked = t.acked /\ txn'.spoiled = t.spoiled /\ txn'.told = t.told
    <2>1. txn' \in {t, Unpinned(t)}
      BY <1>2, <1>7 DEF CommandEnds
    <2> QED
      BY <1>8, <2>1, UnpinnedSame
  <1>10. /\ \A m : Ours(m)' <=> Ours(m)
         /\ \A kind : OursOf(kind)' = OursOf(kind)
    <2>1. \A m : Ours(m)' <=> Ours(m)
      BY <1>4, OursStay
    <2> QED
      BY <1>4, <2>1 DEF OursOf
  <1>11. /\ Outcome' = Outcome /\ (CommittedAtServer' <=> CommittedAtServer)
         /\ (Doomed' <=> Doomed) /\ number'[held'[Explicit]] = number[held[Explicit]]
    BY <1>4, OutcomeStays
  <1>12. \A kind : Asks(kind) <=> Kind(Owner) = kind
    BY DEF Asks
  <1>13. CASE Kind(Owner) = "statement"
    <2>1. /\ t.empty = txn.empty /\ t.told = txn.told
          /\ t.state = txn.state \/ (t.state = txn.from /\ r # "ok")
          /\ t.acked = IF r = "ok" THEN txn.acked + 1 ELSE txn.acked
          /\ t.spoiled <=> txn.spoiled \/ Transient("statement", r)
      BY <1>1, <1>7, <1>13 DEF Settled, TransactionRecords
    <2>2. txn.state = "inProgress" /\ Running(txn.from) /\ ToldFits
      BY <1>12, <1>13 DEF TransactionKept, CommandFits
    <2>3. t.state \in {"starting", "inProgress"}
      BY <2>1, <2>2 DEF Running
    <2>4. ToldFits' /\ (Current' => Current)
      BY <1>9, <2>1, <2>2, <2>3 DEF ToldFits, Current
    <2>5. ASSUME Current PROVE StatementsHeld' /\ NotCommitted' /\ StatementsUnderway' /\ Decided'
      <3>1. StatementsHeld /\ NotCommitted /\ StatementsUnderway /\ Decided
        BY <2>5 DEF TransactionKept
      <3>2. /\ txn.acked \in Nat /\ ~txn.empty /\ txn.told \notin {"committed", "failed", "empty"}
            /\ Outcome.statements \in Nat
        <4>1. held[Explicit] \in Lsids
          BY <1>2, <1>1, RepliedExecutes DEF Executing, Explicitly, Lsid
        <4> QED
          BY <1>1, <2>2, <3>1, <4>1 DEF ToldFits, StatementsHeld, TransactionRecords, Typed, TypeOK,
             Records, Outcome
      <3>3. StatementsHeld'
        <4>1. Answered("statement", r)
          BY <1>2, <1>13 DEF Answered, Asks
        <4>2. txn'.acked > 0 =>
                Outcome.number = number[held[Explicit]] /\ txn'.acked <= Outcome.statements
          BY <1>9, <2>1, <3>1, <3>2, <4>1 DEF StatementsHeld
        <4>3. txn'.state = "starting" => txn'.acked = 0
          BY <1>9, <1>12, <1>13, <2>1, <2>2, <3>1 DEF StatementsHeld
        <4> QED
          BY <1>5, <1>9, <1>11, <2>1, <3>2, <4>2, <4>3 DEF StatementsHeld
      <3>4. NotCommitted'
        BY <1>9, <1>10, <1>11, <2>2, <3>1 DEF NotCommitted
      <3>5. StatementsUnderway'
        <4>1. ASSUME NEW m \in OursOf("statement") PROVE txn'.spoiled
          <5>1. txn.spoiled \/ Answered("statement", "network") \/ Underway(m)
            BY <3>1 DEF StatementsUnderway
          <5>2. Answered("statement", "network") => Transient("statement", r)
            BY <1>2 DEF Answered, Transient
          <5> QED
            BY <1>2, <1>9, <2>1, <5>1, <5>2 DEF Underway
        <4> QED
          BY <1>9, <1>10, <2>3, <4>1 DEF StatementsUnderway
      <3>6. Decided'
        BY <1>5, <1>9, <2>1, <3>2 DEF Decided
      <3> QED
        BY <3>3, <3>4, <3>5, <3>6
    <2>6. txn'.state # "none"
      BY <1>9, <2>3
    <2> QED
      BY <1>6, <2>4, <2>5, <2>6 DEF TransactionKept
  <1>14. CASE Kind(Owner) \in {"commit", "abort"}
    <2>1. /\ t.state = txn.state /\ t.acked = txn.acked /\ t.spoiled = txn.spoiled
          /\ t.empty => txn.empty
          /\ txn.told = "over" => t.told = "over"
          /\ txn.told # "over" =>
               t.told = IF Kind(Owner) = "abort" THEN "aborted"
                        ELSE IF r = "ok" THEN "committed"
                        ELSE IF r = "noTransaction" THEN "failed" ELSE "unknown"
      <3>1. CASE Kind(Owner) = "commit"
        BY <1>1, <1>7, <3>1 DEF Settled, Tells, TransactionRecords
      <3>2. CASE Kind(Owner) = "abort"
        BY <1>1, <1>7, <3>2 DEF Settled, Tells, TransactionRecords
      <3> QED
        BY <1>14, <3>1, <3>2
    <2>2. txn.state = IF Kind(Owner) = "commit" THEN "committed" ELSE "aborted"
      BY <1>12, <1>14 DEF TransactionKept, CommandFits
    <2>3. ToldFits' /\ (Current' <=> Current) /\ txn'.state # "none"
      BY <1>9, <1>14, <2>1, <2>2 DEF ToldFits, Current, TransactionKept
    <2>4. ASSUME Current PROVE StatementsHeld' /\ NotCommitted' /\ StatementsUnderway' /\ Decided'
      <3>1. /\ StatementsHeld /\ NotCommitted /\ StatementsUnderway /\ Decided
            /\ txn.told # "over"
        BY <2>4 DEF TransactionKept, Current
      <3>2. StatementsHeld'
        BY <1>5, <1>9, <1>11, <2>1, <2>2, <3>1 DEF StatementsHeld
      <3>3. NotCommitted'
        BY <1>9, <1>10, <1>11, <2>1, <3>1 DEF NotCommitted
      <3>4. StatementsUnderway'
        <4>1. ASSUME NEW m \in OursOf("statement") PROVE txn.spoiled
          BY <1>14, <3>1 DEF StatementsUnderway, Answered, Underway, Asks
        <4> QED
          BY <1>9, <1>10, <2>1, <3>1, <4>1 DEF StatementsUnderway
      <3>5. Decided'
        <4>1. Kind(Owner) = "commit" => Answered("commit", r)
          BY <1>2 DEF Asks, Answered
        <4>2. ASSUME txn'.told = "committed" PROVE CommittedAtServer
          <5>1. Kind(Owner) = "commit" /\ r = "ok"
            BY <1>9, <1>14, <2>1, <3>1, <4>2
          <5> QED
            BY <3>1, <4>1, <5>1 DEF Decided
        <4>3. ASSUME txn'.told = "failed" PROVE Doomed
          <5>1. Kind(Owner) = "commit" /\ r = "noTransaction"
            BY <1>9, <1>14, <2>1, <3>1, <4>3
          <5> QED
            BY <3>1, <4>1, <5>1 DEF Decided
        <4> QED
          BY <1>5, <1>11, <4>2, <4>3 DEF Decided
      <3> QED
        BY <3>2, <3>3, <3>4, <3>5
    <2> QED
      BY <1>6, <2>3, <2>4 DEF TransactionKept
  <1> QED
    BY <1>3, <1>13, <1>14

\* Once a commit was asked for, no statement of the transaction is on its way.
LEMMA NoneLate ==
  ASSUME TransactionKept, Current, txn.state = "committed"
  PROVE  OursOf("statement") = {}
  <1>1. ~Asks("statement") /\ ~txn.spoiled
    BY DEF TransactionKept, CommandFits, StatementsUnderway
  <1> QED
    BY <1>1 DEF TransactionKept, StatementsUnderway, Answered, Underway

\* What an answer can make of the record of the transaction.
LEMMA RecordMoves ==
  ASSUME Typed, NumbersGiven, Explicit \in live, SessionStays, NEW m \in wire, NEW e \in Effects,
         e \in Normal(m, mongod[m.lsid]) \cup Failing(m, mongod[m.lsid]), Answers(m, e)
  PROVE  /\ Outcome.number = number[held[Explicit]] =>
              /\ Outcome'.number = number[held[Explicit]]
              /\ Outcome'.statements >= Outcome.statements
         /\ CommittedAtServer => CommittedAtServer'
         /\ CommittedAtServer' /\ ~CommittedAtServer =>
              Ours(m) /\ m.kind = "commit" /\ ~Doomed
         /\ Doomed /\ OursOf("statement") = {} => Doomed'
         /\ Ours(m) /\ m.kind = "statement" /\ e.reply = "ok" =>
              /\ Outcome'.number = number[held[Explicit]] /\ Outcome'.statements > 0
              /\ Outcome.number = number[held[Explicit]] =>
                   Outcome'.statements = Outcome.statements + 1
         /\ Ours(m) /\ m.kind = "commit" /\ e.reply = "ok" => CommittedAtServer'
         /\ Ours(m) /\ m.kind = "commit" /\ e.reply = "noTransaction" => Doomed'
  <1>1. /\ mongod \in [Lsids -> Records] /\ m \in Messages /\ held[Explicit] \in Lsids
        /\ number \in [Lsids -> Nat] /\ mongod' = [mongod EXCEPT ![m.lsid] = e.record]
        /\ m.lsid \in Lsids /\ m.number \in Nat
    BY DEF Typed, TypeOK, Answers, Messages
  <1>2. PICK L \in Lsids : L = held[Explicit]
    BY <1>1
  <1>3. PICK N \in Nat : N = number[L]
    BY <1>1
  <1>4. PICK r \in Records : r = mongod[L]
    BY <1>1
  <1>5. /\ Outcome = r /\ held'[Explicit] = L /\ number'[L] = N /\ Outcome' = mongod'[L]
        /\ (CommittedAtServer <=> r.number = N /\ r.state = "committed")
        /\ (Doomed <=> (r.number = N => r.state \notin {"open", "committed"}))
        /\ (CommittedAtServer' <=> Outcome'.number = N /\ Outcome'.state = "committed")
        /\ (Doomed' <=> (Outcome'.number = N => Outcome'.state \notin {"open", "committed"}))
        /\ (Ours(m) <=> m.lsid = L /\ m.number = N)
    BY <1>2, <1>3, <1>4 DEF Outcome, CommittedAtServer, Doomed, SessionStays, Ours
  <1>6. CASE m.lsid # L
    <2>1. Outcome' = r
      BY <1>1, <1>4, <1>5, <1>6
    <2>2. r.statements \in Nat
      BY DEF Records
    <2> QED
      BY <1>2, <1>3, <1>5, <1>6, <2>1, <2>2
  <1>7. CASE m.lsid = L
    <2>1. Outcome' = e.record /\ mongod[m.lsid] = r
      BY <1>1, <1>4, <1>5, <1>7
    <2>2. EffectFits(m, r, e)
      BY <1>1, <2>1, EffectOutcome
    <2>3. /\ e.record.number >= r.number
          /\ e.record.number = r.number \/ e.record.number = m.number
      BY <1>1, <2>1, EffectRecord
    <2>4. m.number <= N /\ r.number <= N /\ r.number \in Int
      BY <1>2, <1>3, <1>4, <1>7 DEF NumbersGiven, Records
    <2>5. /\ m.number = N /\ m.kind = "statement" => OursOf("statement") # {}
      BY <1>5, <1>7 DEF OursOf
    <2>6. r.number = N => e.record.number = N /\ e.record.statements >= r.statements
      BY <1>1, <2>2, <2>3, <2>4 DEF EffectFits
    <2>7. r.number = N /\ r.state = "committed" => e.record.number = N /\ e.record.state = "committed"
      BY <2>2, <2>6 DEF EffectFits
    <2>8. e.record.number = N /\ e.record.state = "committed" =>
            \/ r.number = N /\ r.state = "committed"
            \/ m.kind = "commit" /\ m.number = N /\ r.number = N /\ r.state = "open"
      BY <2>2 DEF EffectFits
    <2>9. e.record.number = N /\ e.record.state = "open" =>
            \/ r.state = "open" /\ r.number = N
            \/ m.kind = "statement" /\ m.number = N
      BY <2>2 DEF EffectFits
    <2>10. /\ m.kind = "statement" /\ e.reply = "ok" /\ m.number = N =>
                /\ e.record.number = N /\ e.record.statements > 0
                /\ r.number = N => e.record.statements = r.statements + 1
           /\ m.kind = "commit" /\ e.reply = "ok" /\ m.number = N =>
                e.record.number = N /\ e.record.state = "committed"
           /\ m.kind = "commit" /\ e.reply = "noTransaction" /\ m.number = N /\ e.record.number = N =>
                e.record.state \notin {"open", "committed"}
      BY <2>2 DEF EffectFits
    <2> QED
      BY <1>2, <1>3, <1>5, <1>7, <2>1, <2>5, <2>6, <2>7, <2>8, <2>9, <2>10
  <1> QED
    BY <1>6, <1>7

LEMMA DeliverKept ==
  ASSUME Typed, NumbersGiven, SentOnce, TransactionKept, Explicit \in live,
         NEW m \in wire, Deliver(m)
  PROVE  TransactionKept'
  <1>1. PICK e \in Effects : /\ e \in Normal(m, mongod[m.lsid]) \cup Failing(m, mongod[m.lsid])
                             /\ Answers(m, e)
    BY DeliverStep
  <1>2. SessionStays /\ txn' = txn /\ wire' = wire \ {m} /\ Owner \in Fibers
    BY <1>1, Distinct DEF Deliver, poolVars, SessionStays, Answers
  <1>3. /\ op'[Owner].kind = op[Owner].kind /\ op'[Owner].pc = op[Owner].pc
        /\ op'[Owner].session = op[Owner].session /\ op'[Owner].attempt = op[Owner].attempt
        /\ Serial(Owner)' = Serial(Owner)
        /\ \/ op'[Owner].reply = op[Owner].reply
           \/ /\ OfCall(m, Owner) /\ op[Owner].pc = "wait" /\ op[Owner].reply = None
              /\ m.attempt = op[Owner].attempt /\ op'[Owner].reply = e.reply
    BY <1>1, <1>2 DEF Answers, Serial
  <1>4. /\ \A kind : Asks(kind)' <=> Asks(kind)
        /\ Explicitly(Owner)' <=> Explicitly(Owner)
        /\ \A w : OfCall(w, Owner)' <=> OfCall(w, Owner)
        /\ \A w : Ours(w)' <=> Ours(w)
    BY <1>2, <1>3, OursStay DEF Asks, Explicitly, Kind, OfCall
  <1>5. CASE Asks("write")
    <2>1. txn'.told = "over"
      BY <1>2, <1>5 DEF TransactionKept, CommandFits
    <2> QED
      BY <1>4, <1>5, <2>1, OverKept DEF Asks, Kinds
  <1>6. CASE ~Asks("write")
    <2>1. OfCall(m, Owner) /\ Explicitly(Owner) /\ op[Owner].pc = "wait" =>
            Ours(m) /\ m.kind = Kind(Owner)
      <3>1. ASSUME OfCall(m, Owner), op[Owner].pc = "wait" PROVE m.kind = Kind(Owner)
        BY <1>2, <3>1 DEF Typed, ShapesOK, WellFormed, Carries, OfCall
      <3> QED
        BY <1>6, <3>1 DEF TransactionKept, CommandFits
    <2>2. ASSUME NEW kind, NEW reply, Answered(kind, reply)'
          PROVE  Answered(kind, reply) \/ (Ours(m) /\ m.kind = kind /\ e.reply = reply)
      BY <1>3, <1>4, <2>1, <2>2 DEF Answered, Asks
    <2>3. \A kind : OursOf(kind)' = OursOf(kind) \ {m}
      BY <1>2, <1>4 DEF OursOf
    <2>4. CommandFits' /\ ToldFits' /\ (Current' => Current)
      <3>1. ASSUME ~Asks("write")', Explicitly(Owner)', NEW w \in wire', OfCall(w, Owner)'
            PROVE  Ours(w)'
        BY <1>2, <1>4, <3>1 DEF TransactionKept, CommandFits
      <3> QED
        BY <1>2, <1>4, <3>1 DEF TransactionKept, CommandFits, ToldFits, Current
    <2>5. ASSUME Current PROVE StatementsHeld' /\ NotCommitted' /\ StatementsUnderway' /\ Decided'
      <3>1. /\ StatementsHeld /\ NotCommitted /\ StatementsUnderway /\ Decided
            /\ CommandFits /\ ToldFits
        BY <2>5 DEF TransactionKept
      <3>2. /\ txn.acked \in Nat /\ Outcome.statements \in Nat /\ Outcome'.statements \in Int
            /\ number'[held'[Explicit]] = number[held[Explicit]]
        <4>1. held[Explicit] \in Lsids /\ Typed'
          BY NextTyped DEF Next, Typed, TypeOK
        <4> QED
          BY <1>2, <4>1 DEF Typed, TypeOK, Records, TransactionRecords, Outcome, SessionStays
      <3>3. StatementsHeld'
        <4>1. txn.acked > 0 => /\ Outcome'.number = number[held[Explicit]]
                               /\ txn.acked <= Outcome'.statements
          BY <1>1, <1>2, <3>1, <3>2, RecordMoves DEF StatementsHeld
        <4>2. ASSUME Answered("statement", "ok")'
              PROVE  /\ Outcome'.number = number[held[Explicit]]
                     /\ txn.acked < Outcome'.statements
          <5>1. CASE Answered("statement", "ok")
            BY <1>1, <1>2, <3>1, <3>2, <5>1, RecordMoves DEF StatementsHeld
          <5>2. CASE Ours(m) /\ m.kind = "statement" /\ e.reply = "ok"
            <6>1. /\ Outcome'.number = number[held[Explicit]] /\ Outcome'.statements > 0
                  /\ Outcome.number = number[held[Explicit]] =>
                       Outcome'.statements = Outcome.statements + 1
              BY <1>1, <1>2, <5>2, RecordMoves
            <6> QED
              BY <3>1, <3>2, <6>1 DEF StatementsHeld
          <5> QED
            BY <2>2, <4>2, <5>1, <5>2
        <4> QED
          BY <1>2, <1>4, <3>1, <3>2, <4>1, <4>2 DEF StatementsHeld
      <3>4. NotCommitted'
        <4>1. txn.state # "committed" => OursOf("commit") = {} /\ ~CommittedAtServer
          BY <3>1 DEF NotCommitted
        <4>2. Ours(m) /\ m.kind = "commit" => OursOf("commit") # {}
          BY DEF OursOf
        <4>3. CommittedAtServer' /\ ~CommittedAtServer => Ours(m) /\ m.kind = "commit"
          BY <1>1, <1>2, RecordMoves
        <4> QED
          BY <1>2, <2>3, <4>1, <4>2, <4>3 DEF NotCommitted
      <3>5. StatementsUnderway'
        <4>1. ASSUME NEW w \in OursOf("statement")'
              PROVE  txn'.spoiled \/ Answered("statement", "network")' \/ Underway(w)'
          <5>1. w \in OursOf("statement") /\ w # m /\ w \in wire
            BY <2>3, <4>1 DEF OursOf
          <5>2. txn.spoiled \/ Answered("statement", "network") \/ Underway(w)
            BY <3>1, <5>1 DEF StatementsUnderway
          <5>3. CASE Answered("statement", "network")
            <6>1. op[Owner].reply = "network" /\ None # "network"
              BY <5>3, FiberAssumption DEF Answered, Failures
            <6> QED
              BY <1>3, <1>4, <5>3, <6>1 DEF Answered
          <5>4. CASE Underway(w)
            <6>1. ~(OfCall(m, Owner) /\ m.attempt = op[Owner].attempt)
              BY <5>1, <5>4 DEF SentOnce, SameAttempt, OfCall, Underway
            <6>2. op'[Owner].reply = op[Owner].reply
              BY <1>3, <6>1
            <6> QED
              BY <1>3, <1>4, <5>4, <6>2 DEF Underway
          <5> QED
            BY <1>2, <5>2, <5>3, <5>4
        <4> QED
          BY <1>2, <3>1, <4>1 DEF StatementsUnderway
      <3>6. Decided'
        <4>1. ASSUME txn.told = "committed" \/ Answered("commit", "ok")' PROVE CommittedAtServer'
          <5>1. \/ txn.told = "committed" \/ Answered("commit", "ok")
                \/ Ours(m) /\ m.kind = "commit" /\ e.reply = "ok"
            BY <2>2, <4>1
          <5>2. (CommittedAtServer => CommittedAtServer')
                /\ (Ours(m) /\ m.kind = "commit" /\ e.reply = "ok" => CommittedAtServer')
            BY <1>1, <1>2, RecordMoves
          <5> QED
            BY <3>1, <5>1, <5>2 DEF Decided
        <4>2. ASSUME txn.told = "failed" \/ Answered("commit", "noTransaction")' PROVE Doomed'
          <5>1. \/ txn.told = "failed" \/ Answered("commit", "noTransaction")
                \/ Ours(m) /\ m.kind = "commit" /\ e.reply = "noTransaction"
            BY <2>2, <4>2
          <5>2. CASE txn.told = "failed" \/ Answered("commit", "noTransaction")
            <6>1. txn.state = "committed"
              BY <3>1, <5>2 DEF ToldFits, CommandFits, Answered
            <6>2. OursOf("statement") = {}
              BY <2>5, <6>1, NoneLate
            <6>3. Doomed
              BY <3>1, <5>2 DEF Decided
            <6> QED
              BY <1>1, <1>2, <6>2, <6>3, RecordMoves
          <5>3. CASE Ours(m) /\ m.kind = "commit" /\ e.reply = "noTransaction"
            BY <1>1, <1>2, <5>3, RecordMoves
          <5> QED
            BY <5>1, <5>2, <5>3
        <4> QED
          BY <1>2, <4>1, <4>2 DEF Decided
      <3> QED
        BY <3>3, <3>4, <3>5, <3>6
    <2> QED
      BY <1>2, <2>4, <2>5 DEF TransactionKept
  <1> QED
    BY <1>5, <1>6
-----------------------------------------------------------------------------
(* What the application does with an idle session *)

\* Nothing is on its way of a command that just began, or that was not sent.
LEMMA NothingAsked ==
  ASSUME Typed, OwnerBegun, op[Owner] = Idle, wire' = wire
  PROVE  /\ \A m : ~Underway(m)'
         /\ \A kind : \A reply \in {"ok", "noTransaction", "network"} : ~Answered(kind, reply)'
         /\ Explicitly(Owner)' => \A m \in wire' : ~OfCall(m, Owner)'
         /\ \A kind : ~Asks(kind) /\ \A reply : ~Answered(kind, reply)
         /\ \A m : ~Underway(m)
  <1>1. ~Explicitly(Owner) /\ Owner \in Fibers
    BY Distinct DEF Explicitly, Idle
  <1>2. op'[Owner].pc # "wait" /\ op'[Owner].reply = None
    BY DEF OwnerBegun, NewCommand, Idle
  <1>3. None \notin {"ok", "noTransaction", "network"}
    BY FiberAssumption DEF Failures
  <1>4. Explicitly(Owner)' => Serial(Owner)' > Len(fate[Owner])
    BY <1>1 DEF OwnerBegun, NewCommand, Explicitly
  <1>5. Explicitly(Owner)' => \A m \in wire' : ~OfCall(m, Owner)'
    BY <1>1, <1>4, NothingSent
  <1> QED
    BY <1>1, <1>2, <1>3, <1>5 DEF Underway, Answered, Asks

\* What the application's calls leave alone, and what they find.
LEMMA CallFinds ==
  ASSUME Typed, TransactionKept, OwnerBegun, op[Owner] = Idle, wire' = wire, mongod' = mongod,
         SessionStays
  PROVE  /\ Outcome' = Outcome /\ (CommittedAtServer' <=> CommittedAtServer)
         /\ (Doomed' <=> Doomed) /\ number'[held'[Explicit]] = number[held[Explicit]]
         /\ \A kind : OursOf(kind)' = OursOf(kind)
         /\ Current => \A m \in OursOf("statement") : txn.spoiled
         /\ Current => StatementsHeld /\ NotCommitted /\ Decided
         /\ ToldFits
  <1>1. RecordStays
    BY DEF RecordStays
  <1>2. \A m : Ours(m)' <=> Ours(m)
    BY OursStay
  <1>3. \A kind : OursOf(kind)' = OursOf(kind)
    BY <1>2 DEF OursOf
  <1>4. Current => \A m \in OursOf("statement") : txn.spoiled
    BY NothingAsked DEF TransactionKept, StatementsUnderway
  <1> QED
    BY <1>1, <1>3, <1>4, OutcomeStays DEF TransactionKept

LEMMA StatementKept ==
  ASSUME Typed, TransactionKept, Statement
  PROVE  TransactionKept'
  <1>1. /\ OwnerBegun /\ op[Owner] = Idle /\ wire' = wire /\ mongod' = mongod
        /\ SessionStays /\ txn \in TransactionRecords
    BY OwnerStep DEF Statement, poolVars, SessionStays, Typed, TypeOK
  <1>2. NewCommand(Owner, "statement", Explicit, "send", FALSE)
    BY BeginStep, Distinct DEF Statement, Kinds
  <1>3. /\ txn'.state = "inProgress" /\ txn'.from = txn.state /\ txn'.empty = txn.empty
        /\ txn'.acked = txn.acked /\ txn'.spoiled = txn.spoiled /\ txn'.told = txn.told
        /\ Running(txn.state)
    BY <1>1 DEF Statement, After, TransactionRecords
  <1>4. txn.state \notin {"none", "committed", "aborted"}
    BY <1>3 DEF Running
  <1>5. \A kind : Asks(kind)' <=> kind = "statement"
    BY <1>2 DEF NewCommand, Asks, Explicitly, Kind
  <1>6. CommandFits'
    BY <1>1, <1>3, <1>5, NothingAsked DEF CommandFits
  <1>7. ToldFits'
    BY <1>3, <1>4 DEF TransactionKept, ToldFits
  <1>8. ASSUME Current' PROVE StatementsHeld' /\ NotCommitted' /\ StatementsUnderway' /\ Decided'
    <2>1. Current
      BY <1>3, <1>4, <1>8 DEF Current
    <2>2. StatementsHeld'
      BY <1>1, <1>3, <1>4, <1>5, <2>1, CallFinds, NothingAsked DEF StatementsHeld, ToldFits
    <2>3. NotCommitted'
      BY <1>1, <1>4, <2>1, CallFinds DEF NotCommitted
    <2>4. StatementsUnderway'
      BY <1>1, <1>3, <2>1, CallFinds DEF StatementsUnderway
    <2>5. Decided'
      BY <1>1, <1>3, <1>4, CallFinds, NothingAsked DEF Decided, ToldFits
    <2> QED
      BY <2>2, <2>3, <2>4, <2>5
  <1> QED
    BY <1>3, <1>6, <1>7, <1>8 DEF TransactionKept

LEMMA CommitKept ==
  ASSUME Typed, TransactionKept, Commit
  PROVE  TransactionKept'
  <1>1. /\ OwnerBegun /\ op[Owner] = Idle /\ wire' = wire /\ mongod' = mongod
        /\ SessionStays /\ txn \in TransactionRecords
    BY OwnerStep DEF Commit, poolVars, SessionStays, Typed, TypeOK
  <1>2. NewCommand(Owner, "commit", Explicit, "send", FALSE)
    BY BeginStep, Distinct DEF Commit, Kinds
  <1>3. /\ txn'.state = "committed" /\ txn'.empty = txn.empty
        /\ txn'.acked = txn.acked /\ txn'.spoiled = txn.spoiled
        /\ txn'.told = IF txn.told = "failed" THEN "unknown" ELSE txn.told
        /\ ~txn.empty /\ ~txn.spoiled
        /\ txn.state \in {"inProgress", "committed"}
    BY <1>1 DEF Commit, MayCommit, After, Accepts, Running, TransactionRecords
  <1>4. \A kind : Asks(kind)' <=> kind = "commit"
    BY <1>2 DEF NewCommand, Asks, Explicitly, Kind
  <1>5. CommandFits'
    BY <1>1, <1>3, <1>4, NothingAsked DEF CommandFits
  <1>6. ToldFits'
    BY <1>3 DEF TransactionKept, ToldFits
  <1>7. ASSUME Current' PROVE StatementsHeld' /\ NotCommitted' /\ StatementsUnderway' /\ Decided'
    <2>1. Current
      BY <1>3, <1>7 DEF Current
    <2>2. StatementsHeld'
      BY <1>1, <1>3, <1>4, <2>1, CallFinds, NothingAsked DEF StatementsHeld
    <2>3. NotCommitted'
      BY <1>3 DEF NotCommitted
    <2>4. StatementsUnderway'
      BY <1>1, <1>3, <2>1, CallFinds DEF StatementsUnderway
    <2>5. Decided'
      BY <1>1, <1>3, <2>1, CallFinds, NothingAsked DEF Decided
    <2> QED
      BY <2>2, <2>3, <2>4, <2>5
  <1> QED
    BY <1>3, <1>5, <1>6, <1>7 DEF TransactionKept

LEMMA CommitEmptyKept ==
  ASSUME Typed, TransactionKept, CommitEmpty
  PROVE  TransactionKept'
  <1>1. /\ OwnerBegun /\ op[Owner] = Idle /\ wire' = wire /\ mongod' = mongod /\ op' = op
        /\ SessionStays /\ txn \in TransactionRecords
    BY OwnerStep DEF CommitEmpty, poolVars, SessionStays, Typed, TypeOK
  <1>2. PICK b \in BOOLEAN : b = (txn.state = "starting")
    BY ZenonT(20)
  <1>3. txn' = Tells([txn EXCEPT !.state = "committed", !.empty = b], "empty")
    BY <1>2 DEF CommitEmpty, After
  <1>4. /\ txn'.state = "committed"
        /\ txn'.acked = txn.acked /\ txn'.spoiled = txn.spoiled
        /\ txn'.told = IF txn.told = "over" THEN "over" ELSE "empty"
    BY <1>1, <1>3 DEF Tells, TransactionRecords
  <1>5. /\ txn.empty \/ txn.state = "starting"
        /\ ~txn.spoiled /\ txn.state \in {"starting", "inProgress", "committed"}
    BY DEF CommitEmpty, MayCommit, Accepts, Running
  <1>6. ~Explicitly(Owner)' /\ \A kind : ~Asks(kind)'
    BY <1>1, Distinct DEF Asks, Explicitly, Idle
  <1>7. CommandFits'
    BY <1>6 DEF CommandFits
  <1>8. ToldFits'
    BY <1>4 DEF ToldFits
  <1>9. ASSUME Current' PROVE StatementsHeld' /\ NotCommitted' /\ StatementsUnderway' /\ Decided'
    <2>1. Current
      BY <1>4, <1>5, <1>9 DEF Current
    <2>2. txn.acked = 0
      BY <1>1, <1>5, <2>1, CallFinds DEF StatementsHeld
    <2>3. StatementsHeld'
      BY <1>1, <1>4, <1>6, <2>2, NothingAsked DEF StatementsHeld
    <2>4. NotCommitted'
      BY <1>4 DEF NotCommitted
    <2>5. StatementsUnderway'
      BY <1>1, <1>4, <1>5, <2>1, CallFinds DEF StatementsUnderway
    <2>6. Decided'
      BY <1>1, <1>4, <1>9, NothingAsked DEF Decided
    <2> QED
      BY <2>3, <2>4, <2>5, <2>6
  <1> QED
    BY <1>4, <1>7, <1>8, <1>9 DEF TransactionKept

LEMMA AbortSentKept ==
  ASSUME Typed, TransactionKept, NEW ends \in BOOLEAN, AbortSent(ends), Abort \/ EndSession
  PROVE  TransactionKept'
  <1>1. /\ OwnerBegun /\ op[Owner] = Idle /\ wire' = wire /\ mongod' = mongod
        /\ SessionStays /\ txn \in TransactionRecords
    BY OwnerStep DEF Abort, EndSession, poolVars, SessionStays, Typed, TypeOK
  <1>2. NewCommand(Owner, "abort", Explicit, "send", ends)
    BY AbortStep
  <1>3. /\ txn'.state = "aborted" /\ txn'.empty = txn.empty
        /\ txn'.acked = txn.acked /\ txn'.spoiled = txn.spoiled /\ txn'.told = txn.told
        /\ txn.state = "inProgress"
    <2>1. txn' = [txn EXCEPT !.from = txn.state, !.state = "aborted"] /\ txn.state = "inProgress"
      BY DEF AbortSent, After
    <2> QED
      BY <1>1, <2>1 DEF TransactionRecords
  <1>4. \A kind : Asks(kind)' <=> kind = "abort"
    BY <1>2 DEF NewCommand, Asks, Explicitly, Kind
  <1>5. CommandFits'
    BY <1>1, <1>3, <1>4, NothingAsked DEF CommandFits
  <1>6. ToldFits'
    BY <1>3 DEF TransactionKept, ToldFits
  <1>7. ASSUME Current' PROVE StatementsHeld' /\ NotCommitted' /\ StatementsUnderway' /\ Decided'
    <2>1. Current
      BY <1>3, <1>7 DEF Current
    <2>2. StatementsHeld'
      BY <1>1, <1>3, <1>4, <2>1, CallFinds, NothingAsked DEF StatementsHeld
    <2>3. NotCommitted'
      BY <1>1, <1>3, <2>1, CallFinds DEF NotCommitted
    <2>4. StatementsUnderway'
      BY <1>1, <1>3, <2>1, CallFinds DEF StatementsUnderway
    <2>5. Decided'
      BY <1>1, <1>3, CallFinds, NothingAsked DEF Decided, ToldFits
    <2> QED
      BY <2>2, <2>3, <2>4, <2>5
  <1> QED
    BY <1>3, <1>5, <1>6, <1>7 DEF TransactionKept

\* What changes neither the transaction nor what is executed.
LEMMA UnchangedKept ==
  ASSUME TransactionKept, SameTransaction, SessionStays, wire' = wire, mongod' = mongod,
         op' = op, op[Owner] = Idle
  PROVE  TransactionKept'
  <1>1. ~Explicitly(Owner) /\ op'[Owner].session # Explicit
    BY Distinct DEF Explicitly, Idle
  <1>2. RecordStays
    BY DEF RecordStays
  <1> QED
    BY <1>1, <1>2, QuietKept

LEMMA AbortUnsentKept ==
  ASSUME Typed, TransactionKept, AbortUnsent, Abort
  PROVE  TransactionKept'
  <1>1. /\ OwnerBegun /\ op[Owner] = Idle /\ wire' = wire /\ mongod' = mongod /\ op' = op
        /\ SessionStays /\ txn \in TransactionRecords
    BY OwnerStep DEF Abort, AbortUnsent, poolVars, SessionStays, Typed, TypeOK
  <1>2. PICK u \in TransactionRecords : u = Unpinned(txn)
    BY <1>1, UnpinnedTyped
  <1>3. /\ u.state = txn.state /\ u.from = txn.from /\ u.empty = txn.empty
        /\ u.acked = txn.acked /\ u.spoiled = txn.spoiled /\ u.told = txn.told
    BY <1>1, <1>2, UnpinnedSame
  <1>4. CASE ~Accepts(txn.state, "abort")
    <2>1. txn' = u
      BY <1>2, <1>4 DEF AbortUnsent
    <2> QED
      BY <1>1, <1>3, <2>1, UnchangedKept DEF SameTransaction
  <1>5. CASE Accepts(txn.state, "abort")
    <2>1. txn.state = "starting"
      BY <1>5 DEF AbortUnsent, Accepts, Running
    <2>2. txn' = Tells([u EXCEPT !.state = "aborted"], "aborted")
      BY <1>2, <1>5 DEF AbortUnsent, After
    <2>3. /\ txn'.state = "aborted" /\ txn'.acked = txn.acked /\ txn'.empty = txn.empty
          /\ txn'.told = IF txn.told = "over" THEN "over" ELSE "aborted"
          /\ txn'.spoiled = txn.spoiled
      BY <1>3, <2>2 DEF Tells, TransactionRecords
    <2>4. ~Explicitly(Owner)' /\ \A kind : ~Asks(kind)'
      BY <1>1, Distinct DEF Asks, Explicitly, Idle
    <2>5. CommandFits' /\ ToldFits'
      BY <2>3, <2>4 DEF CommandFits, ToldFits
    <2>6. ASSUME Current' PROVE StatementsHeld' /\ NotCommitted' /\ StatementsUnderway' /\ Decided'
      <3>1. Current
        BY <2>1, <2>3, <2>6 DEF Current
      <3>2. StatementsHeld'
        BY <1>1, <2>1, <2>3, <2>4, <3>1, CallFinds, NothingAsked DEF StatementsHeld
      <3>3. NotCommitted'
        BY <1>1, <2>1, <3>1, CallFinds DEF NotCommitted
      <3>4. StatementsUnderway'
        BY <1>1, <2>3, <3>1, CallFinds DEF StatementsUnderway
      <3>5. Decided'
        BY <1>1, <2>3, <2>6, NothingAsked DEF Decided
      <3> QED
        BY <3>2, <3>3, <3>4, <3>5
    <2> QED
      BY <2>3, <2>5, <2>6 DEF TransactionKept
  <1> QED
    BY <1>4, <1>5

LEMMA PlainWriteKept ==
  ASSUME Typed, TransactionKept, PlainWrite
  PROVE  TransactionKept'
  <1>1. txn \in TransactionRecords
    BY DEF Typed, TypeOK
  <1>2. PICK u \in TransactionRecords : u = Unpinned(txn)
    BY <1>1, UnpinnedTyped
  <1>3. PICK from : txn' = [u EXCEPT !.from = from, !.state = "none", !.told = "over"]
    BY <1>2 DEF PlainWrite
  <1>4. txn'.told = "over"
    BY <1>3 DEF TransactionRecords
  <1>5. NewCommand(Owner, "write", Explicit, "number", FALSE)
    BY BeginStep, Distinct DEF PlainWrite, Kinds
  <1> QED
    BY <1>4, <1>5, OverKept DEF NewCommand, Asks, Kind, Kinds

\* A transaction that starts has a number that nobody has seen.
LEMMA StartTransactionKept ==
  ASSUME Typed, NumbersGiven, TransactionKept, StartTransaction
  PROVE  TransactionKept'
  <1>1. /\ OwnerBegun /\ op[Owner] = Idle /\ wire' = wire /\ mongod' = mongod /\ op' = op
        /\ Explicit \in live /\ held' = held
    BY OwnerStep DEF StartTransaction, poolVars, serverVars
  <1>2. PICK L \in Lsids : L = held[Explicit] /\ held'[Explicit] = L
    BY <1>1 DEF Typed, TypeOK
  <1>3. PICK N \in Nat : N = number[L]
    BY DEF Typed, TypeOK
  <1>4. number'[L] = N + 1
    <2>1. number \in [Lsids -> Nat] /\ number' = [number EXCEPT ![L] = @ + 1]
      BY <1>2 DEF StartTransaction, Typed, TypeOK
    <2> QED
      BY <1>3, <2>1
  <1>5. /\ txn'.state = "starting" /\ txn'.acked = 0 /\ txn'.empty = FALSE
        /\ txn'.told = "nothing"
    <2>1. txn' = [NoTransaction EXCEPT !.state = "starting", !.begins = TRUE]
      BY DEF StartTransaction, After
    <2> QED
      BY <2>1 DEF NoTransaction
  <1>6. Outcome' = mongod[L] /\ mongod[L].number \in Int /\ mongod[L].number <= N
    BY <1>1, <1>2, <1>3 DEF Outcome, NumbersGiven, Typed, TypeOK, Records
  <1>7. Outcome'.number # number'[held'[Explicit]]
    BY <1>2, <1>4, <1>6
  <1>8. \A kind : OursOf(kind)' = {}
    <2>1. ASSUME NEW m \in wire PROVE ~Ours(m)'
      <3>1. m.number \in Nat /\ (m.lsid = L => m.number <= N)
        BY <1>3 DEF NumbersGiven, Typed, TypeOK, Messages
      <3> QED
        BY <1>2, <1>4, <3>1 DEF Ours
    <2> QED
      BY <1>1, <2>1 DEF OursOf
  <1>9. ~Explicitly(Owner)' /\ \A kind : ~Asks(kind)' /\ \A reply : ~Answered(kind, reply)'
    BY <1>1, Distinct DEF Asks, Answered, Explicitly, Idle
  <1>10. CommandFits' /\ ToldFits'
    BY <1>5, <1>9 DEF CommandFits, ToldFits
  <1>11. StatementsHeld'
    BY <1>5, <1>9 DEF StatementsHeld
  <1>12. NotCommitted'
    BY <1>7, <1>8 DEF NotCommitted, CommittedAtServer
  <1>13. StatementsUnderway' /\ Decided'
    BY <1>5, <1>8, <1>9 DEF StatementsUnderway, Decided
  <1> QED
    BY <1>5, <1>10, <1>11, <1>12, <1>13 DEF TransactionKept

LEMMA OwnerKept ==
  ASSUME Typed, NumbersGiven, TransactionKept, Explicit \in live',
         \/ StartTransaction \/ Statement \/ PlainWrite \/ Commit \/ CommitEmpty \/ Abort
         \/ BodyEnds \/ EndSession
  PROVE  TransactionKept'
  <1>1. CASE BodyEnds
    <2>1. op[Owner] = Idle
      BY <1>1, OwnerStep
    <2>2. SameTransaction /\ SessionStays /\ wire' = wire /\ mongod' = mongod /\ op' = op
      BY <1>1 DEF BodyEnds, poolVars, serverVars, SameTransaction, SessionStays
    <2> QED
      BY <2>1, <2>2, UnchangedKept
  <1>2. CASE Abort
    BY <1>2, AbortSentKept, AbortUnsentKept DEF Abort
  <1>3. CASE EndSession
    <2>1. AbortSent(TRUE)
      BY <1>3 DEF EndSession
    <2> QED
      BY <1>3, <2>1, AbortSentKept
  <1> QED
    BY <1>1, <1>2, <1>3, StartTransactionKept, StatementKept, PlainWriteKept, CommitKept,
       CommitEmptyKept

\* The steps of a command.
LEMMA AttemptsKept ==
  ASSUME Holders, closer = "open", TransactionKept, Explicit \in live,
         NEW f \in Fibers, Attempts(f)
  PROVE  TransactionKept'
  <1>1. Typed /\ op[f].pc # "idle"
    BY AttemptsStep DEF Holders, AttemptStep
  <1>2. CASE ~Explicitly(f)
    BY <1>2, ImplicitKept
  <1>3. CASE Explicitly(f)
    <2>1. f = Owner /\ WellFormed(f)
      BY <1>1, <1>3, TypedParts DEF OpsTyped, Executing
    <2>2. CASE Kind(Owner) = "write"
      BY <1>1, <1>3, <2>1, <2>2, ExplicitWriteKept
    <2>3. CASE Kind(Owner) # "write"
      <3>1. op[Owner].pc \notin {"recycle", "number"}
        BY <2>1, <2>3 DEF WellFormed
      <3>2. \/ DropDeadPin(Owner) \/ Send(Owner) \/ NotSent(Owner) \/ NetworkError(Owner)
            \/ TriedAgain(Owner) \/ CommandEnds(Owner)
        BY <1>3, <2>1, <3>1 DEF Attempts, Recycle, TakeNumber, NestedCommand
      <3> QED
        BY <1>1, <1>3, <2>1, <2>3, <3>2, CommandGoesOnKept, CommandEndsKept
    <2> QED
      BY <2>2, <2>3
  <1> QED
    BY <1>2, <1>3

-----------------------------------------------------------------------------
(* The invariant *)

\* A session that was never started has had no transaction.
Unstarted ==
  held[Explicit] = None => txn.state = "none" /\ txn.told = "nothing" /\ txn.acked = 0

\* While the session is not live only StartSession touches it.
LEMMA AsleepSame ==
  ASSUME Typed, Explicit \notin live, [Next]_vars, ~StartSession
  PROVE  SameTransaction /\ held'[Explicit] = held[Explicit] /\ Explicit \notin live'
  <1>1. /\ \A f \in Fibers : ~(op[f].pc # "idle" /\ Explicitly(f))
        /\ txn \in TransactionRecords
    BY TypedParts DEF OpsTyped, Executing, Typed, TypeOK
  <1>2. ASSUME NEW c \in Sessions, c # Explicit, NEW q \in Seq(Lsids), Acquire(c, q)
        PROVE  held'[Explicit] = held[Explicit]
    BY <1>2, AcquireForgets, Distinct
  <1>3. ASSUME NEW f \in Fibers, f \in live, Exchange(f) PROVE held'[Explicit] = held[Explicit]
    <2>1. PICK q \in Returned(held[f], free) : Acquire(f, q)
      BY <1>3 DEF Exchange
    <2>2. q \in Seq(Lsids) /\ f \in Sessions /\ f # Explicit
      BY <1>3, <2>1, ReturnedQueue, Distinct DEF Typed, TypeOK
    <2> QED
      BY <1>2, <2>1, <2>2
  <1>4. ASSUME NEW f \in Fibers, Lookup(f)
        PROVE  SameTransaction /\ held'[Explicit] = held[Explicit] /\ Explicit \notin live'
    <2>1. f \in Sessions /\ f # Explicit /\ free \in Seq(Lsids)
      BY Distinct DEF Typed, TypeOK
    <2>2. /\ txn' = txn
          /\ \/ held' = held /\ live' = live
             \/ Acquire(f, free) /\ live' = live \cup {f}
      BY <1>4 DEF Lookup, poolVars
    <2> QED
      BY <1>2, <2>1, <2>2 DEF SameTransaction
  <1>5. ASSUME NEW f \in Fibers, Attempts(f)
        PROVE  SameTransaction /\ held'[Explicit] = held[Explicit] /\ Explicit \notin live'
    <2>1. ~Explicitly(f)
      BY <1>1, <1>5, AttemptsStep DEF AttemptStep
    <2>2. SameTransaction
      BY <1>5, <2>1, GoesOnSame
    <2> QED
      BY <1>3, <1>5, <2>1, <2>2 DEF Attempts, Recycle, TakeNumber, NestedCommand, DropDeadPin,
         Send, NotSent, NetworkError, TriedAgain, CommandEnds, poolVars
  <1>6. CASE \/ StartTransaction \/ Statement \/ PlainWrite \/ Commit \/ CommitEmpty \/ Abort
             \/ BodyEnds \/ EndSession
    BY <1>6, OwnerStep
  <1>7. CASE (\E m \in wire : Deliver(m)) \/ EndFiberSessions \/ ClosePool \/ UNCHANGED vars
    BY <1>7 DEF Deliver, EndFiberSessions, ClosePool, vars, poolVars, SameTransaction
  <1> QED
    BY <1>4, <1>5, <1>6, <1>7 DEF Next

LEMMA NextUnstarted ==
  ASSUME Typed, Typed', Unstarted, [Next]_vars
  PROVE  Unstarted'
  <1>1. CASE StartSession
    <2>1. Explicit \in live'
      BY <1>1 DEF StartSession
    <2>2. held'[Explicit] # None
      BY <2>1, Distinct DEF Typed, TypeOK
    <2> QED
      BY <2>2 DEF Unstarted
  <1>2. CASE ~StartSession /\ Explicit \notin live
    BY <1>2, AsleepSame DEF Unstarted, SameTransaction
  <1>3. CASE Explicit \in live /\ ~StartSession
    <2> SUFFICES held'[Explicit] # None
      BY DEF Unstarted
    <2>1. held[Explicit] # None
      BY <1>3, Distinct DEF Typed, TypeOK
    <2>2. held'[Explicit] = held[Explicit] \/ \E f \in Fibers, q \in Seq(Lsids) : Acquire(f, q)
      <3>1. ASSUME NEW f \in Fibers, f \in live, Exchange(f)
            PROVE  \E q \in Seq(Lsids) : Acquire(f, q)
        BY <3>1, ReturnedQueue DEF Exchange, Typed, TypeOK
      <3>2. free \in Seq(Lsids)
        BY DEF Typed, TypeOK
      <3> QED
        BY <1>3, <3>1, <3>2 DEF Next, vars, poolVars, Lookup, Attempts, Recycle, TakeNumber,
           NestedCommand, DropDeadPin, Send, NotSent, NetworkError, TriedAgain, CommandEnds,
           Deliver, StartTransaction, Statement, PlainWrite, Commit, CommitEmpty, Abort,
           BodyEnds, EndSession, EndFiberSessions, ClosePool
    <2> QED
      BY <2>1, <2>2, AcquireForgets, Distinct
  <1> QED
    BY <1>1, <1>2, <1>3

LEMMA StartSessionKept ==
  ASSUME Typed, Unstarted, StartSession
  PROVE  TransactionKept'
  <1>1. held[Explicit] = None /\ txn' = txn /\ op' = op
    BY DEF StartSession
  <1>2. ~Explicitly(Owner)'
    <2>1. Explicit \notin live
      BY <1>1, Distinct DEF Typed, TypeOK
    <2>2. op[Owner].session # Explicit
      BY <2>1, TypedParts, Distinct DEF OpsTyped, Executing, Explicitly, WellFormed, Idle
    <2> QED
      BY <1>1, <2>2 DEF Explicitly
  <1>3. CommandFits'
    BY <1>2 DEF CommandFits, Asks
  <1> QED
    BY <1>1, <1>3 DEF TransactionKept, ToldFits, Current, Unstarted

LEMMA NextKept ==
  ASSUME Holders, NumbersGiven, SentOnce, Unstarted, Kept, [Next]_vars
  PROVE  Kept'
  <1> SUFFICES ASSUME closer' = "open", Explicit \in live'
               PROVE  TransactionKept'
    BY DEF Kept
  <1>1. Typed
    BY DEF Holders
  <1>2. ~EndFiberSessions /\ ~ClosePool
    BY DEF EndFiberSessions, ClosePool
  <1>3. closer = "open"
    BY <1>2 DEF Next, vars, Lookup, Attempts, Recycle, TakeNumber, NestedCommand, DropDeadPin,
       Send, NotSent, NetworkError, TriedAgain, CommandEnds, Deliver, StartSession,
       StartTransaction, Statement, PlainWrite, Commit, CommitEmpty, Abort, BodyEnds, EndSession
  <1>4. CASE StartSession
    BY <1>1, <1>4, StartSessionKept
  <1>5. CASE ~StartSession
    <2>1. Explicit \in live
      BY <1>1, <1>5, AsleepSame
    <2>2. TransactionKept
      BY <1>3, <2>1 DEF Kept
    <2>3. CASE UNCHANGED vars
      <3>1. SameTransaction /\ SessionStays /\ RecordStays
        BY <2>3 DEF vars, poolVars, serverVars, SameTransaction, SessionStays, RecordStays
      <3> QED
        BY <2>2, <2>3, <3>1, QuietKept DEF vars, serverVars
    <2> QED
      BY <1>1, <1>2, <1>3, <1>5, <2>1, <2>2, <2>3, LookupKept, AttemptsKept, DeliverKept, OwnerKept
         DEF Next
  <1> QED
    BY <1>4, <1>5

LEMMA InitKept ==
  ASSUME Init
  PROVE  Kept /\ Unstarted
  BY DEF Init, Kept, Unstarted, NoTransaction

\* What the application was told follows from the invariant.
LEMMA KeptOutcome ==
  ASSUME Typed, Kept
  PROVE  OutcomeAgrees
  <1> SUFFICES ASSUME closer = "open", Explicit \in live
               PROVE  /\ txn.told = "committed" => CommittedAtServer /\ txn.acked <= Outcome.statements
                      /\ txn.told = "empty" => txn.acked = 0
                      /\ txn.told \in {"aborted", "failed"} => ~CommittedAtServer
    BY DEF OutcomeAgrees
  <1>1. TransactionKept
    BY DEF Kept
  <1>2. txn.acked \in Nat /\ Outcome.statements \in Nat
    <2>1. held[Explicit] \in Lsids
      BY DEF Typed, TypeOK
    <2> QED
      BY <2>1 DEF Typed, TypeOK, TransactionRecords, Records, Outcome
  <1>3. CASE txn.told \in {"committed", "empty", "aborted", "failed"}
    <2>1. txn.state = IF txn.told = "aborted" THEN "aborted" ELSE "committed"
      BY <1>1, <1>3 DEF TransactionKept, ToldFits
    <2>2. StatementsHeld /\ NotCommitted /\ Decided
      BY <1>1, <1>3, <2>1 DEF TransactionKept, Current
    <2> QED
      BY <1>2, <2>1, <2>2 DEF StatementsHeld, NotCommitted, Decided, Doomed, CommittedAtServer
  <1>4. CASE txn.told \notin {"committed", "empty", "aborted", "failed"}
    BY <1>4
  <1> QED
    BY <1>3, <1>4

OutcomeInv == IInv /\ SentOnce /\ Unstarted /\ Kept

\* The invariant of the session's transaction holds of every behaviour.
THEOREM SessionsTransactionKept == Spec => []OutcomeInv
  <1>1. Init => SentOnce /\ Unstarted /\ Kept
    BY InitSentOnce, InitKept
  <1>2. IInv /\ IInv' /\ SentOnce /\ Unstarted /\ Kept /\ [Next]_vars =>
          SentOnce' /\ Unstarted' /\ Kept'
    BY NextSentOnce, NextUnstarted, NextKept DEF IInv, Holders
  <1> QED
    BY <1>1, <1>2, SessionsInvariant, PTL DEF Spec, OutcomeInv

\* While the client is open, a commit that returned committed every statement that
\* succeeded, an empty one had none to commit, and what was aborted, or failed with
\* TransientTransactionError, is not there and will not be: whatever was tried again
\* and whatever arrives late.
THEOREM SessionsOutcomeAgrees == Spec => []OutcomeAgrees
  <1>1. OutcomeInv => OutcomeAgrees
    BY KeptOutcome DEF OutcomeInv, IInv, Holders
  <1> QED
    BY <1>1, SessionsTransactionKept, PTL

-----------------------------------------------------------------------------
(* withTransaction commits once *)

LEMMA NextImplicit ==
  ASSUME Typed, ImplicitWrites, [Next]_vars
  PROVE  ImplicitWrites'
  <1>1. ASSUME NEW f \in Fibers, Attempts(f) PROVE ImplicitWrites'
    <2>1. AttemptStep(f)
      BY <1>1, AttemptsStep
    <2> QED
      BY <2>1 DEF AttemptStep, ImplicitWrites, Explicitly, Kind
  <1>2. ASSUME NEW f \in Fibers, Lookup(f) PROVE ImplicitWrites'
    <2>1. PICK pc : Begin(f, "write", f, pc)
      BY <1>2 DEF Lookup
    <2>2. NewCommand(f, "write", f, pc, FALSE)
      BY <2>1, BeginStep DEF Kinds
    <2> QED
      BY <2>2 DEF NewCommand, ImplicitWrites, Explicitly, Kind
  <1>3. ASSUME NEW m \in wire, Deliver(m) PROVE ImplicitWrites'
    <2>1. PICK e \in Effects : Answers(m, e)
      BY <1>3, DeliverStep
    <2> QED
      BY <2>1 DEF Answers, ImplicitWrites, Explicitly, Kind
  <1>4. CASE \/ StartTransaction \/ Statement \/ PlainWrite \/ Commit \/ CommitEmpty \/ Abort
             \/ BodyEnds \/ EndSession
    <2>1. OwnerBegun
      BY <1>4, OwnerStep
    <2> QED
      BY <2>1 DEF OwnerBegun, NewCommand, ImplicitWrites, Explicitly, Kind
  <1>5. CASE StartSession \/ EndFiberSessions \/ ClosePool \/ UNCHANGED vars
    BY <1>5 DEF StartSession, EndFiberSessions, ClosePool, vars, ImplicitWrites, Explicitly, Kind
  <1> QED
    BY <1>1, <1>2, <1>3, <1>4, <1>5 DEF Next

\* As far as commits go, a step changes nothing.
CommitsStay ==
  /\ commits' = commits /\ held'[Explicit] = held[Explicit]
  /\ \A m \in wire' : Commits(m)' => m \in wire /\ Commits(m)
  /\ \A l \in Lsids : mongod'[l].state = "committed" => mongod[l].state = "committed"
  /\ Explicit \in live' => Explicit \in live /\ SessionStays /\ RecordStays

\* withTransaction begins again only if nothing was committed or can be, and returns
\* only after a commit.
GoesOn ==
  /\ call'.step \in {"start", "body", "abort"} => commits = 0 /\ \A m \in wire : ~Commits(m)
  /\ call'.step = "returned" => txn'.state = "committed" /\ (commits = 1 \/ txn'.told = "empty")

LEMMA OnceStays ==
  ASSUME CommittedOnce, CommitsStay, GoesOn
  PROVE  CommittedOnce'
  <1>1. ASSUME Explicit \in live' PROVE /\ CommittedAtServer' <=> CommittedAtServer
                                        /\ \A m : Ours(m)' <=> Ours(m)
    BY <1>1, OutcomeStays, OursStay DEF CommitsStay
  <1> QED
    BY <1>1 DEF CommittedOnce, CommitsStay, GoesOn

LEMMA SameGoesOn ==
  ASSUME CommittedOnce, call' = call, SameTransaction
  PROVE  GoesOn
  BY DEF CommittedOnce, SameTransaction, GoesOn

LEMMA ApartStays ==
  ASSUME CommitsApart, held'[Explicit] = held[Explicit], wire' \subseteq wire
  PROVE  CommitsApart'
  BY DEF CommitsApart

LEMMA AtStepStays ==
  ASSUME CommandAtStep, call' = call,
         \/ /\ op'[Owner].kind = op[Owner].kind /\ op'[Owner].session = op[Owner].session
            /\ op'[Owner].ends = op[Owner].ends
         \/ op'[Owner].session # Explicit
  PROVE  CommandAtStep'
  BY DEF CommandAtStep, Asks, Explicitly, Kind

\* Acquiring sets up records that no message is about.
LEMMA AcquireCommits ==
  ASSUME Typed, NEW c \in Sessions, NEW q \in Seq(Lsids), Acquire(c, q), wire' = wire
  PROVE  /\ \A m \in wire : Commits(m)' => Commits(m)
         /\ \A l \in Lsids : mongod'[l].state = "committed" => mongod[l].state = "committed"
  <1>1. \A m \in wire : Commits(m)' => Commits(m)
    BY AcquireRecords DEF RecordsKept, Commits
  <1>2. AcquiredFrom(c, q) /\ mongod \in [Lsids -> Records]
    BY AcquireCases DEF Typed, TypeOK
  <1>3. mongod' = mongod \/ \E new \in Lsids : mongod' = [mongod EXCEPT ![new] = NewRecord]
    BY <1>2 DEF AcquiredFrom
  <1>4. NewRecord.state # "committed"
    BY DEF NewRecord
  <1> QED
    BY <1>1, <1>2, <1>3, <1>4

LEMMA LookupOnce ==
  ASSUME Holders, OnceKept, NEW f \in Fibers, Lookup(f)
  PROVE  OnceKept'
  <1>1. /\ Typed /\ txn' = txn /\ call' = call /\ commits' = commits /\ wire' = wire
        /\ f \in Sessions /\ f # Explicit /\ free \in Seq(Lsids)
    BY Distinct DEF Holders, Typed, TypeOK, Lookup
  <1>2. \/ UNCHANGED <<held, live, number, mongod>>
        \/ Acquire(f, free) /\ live' = live \cup {f}
    BY DEF Lookup, poolVars
  <1>3. CommitsStay
    <2>1. CASE UNCHANGED <<held, live, number, mongod>>
      BY <1>1, <2>1 DEF CommitsStay, SessionStays, RecordStays, Commits
    <2>2. CASE Acquire(f, free) /\ live' = live \cup {f}
      <3>1. held'[Explicit] = held[Explicit]
        BY <1>1, <2>2, AcquireForgets, Distinct
      <3>2. Explicit \in live => SessionStays /\ RecordStays
        BY <1>1, <2>2, AcquireStays
      <3> QED
        BY <1>1, <2>2, <3>1, <3>2, AcquireCommits DEF CommitsStay
    <2> QED
      BY <1>2, <2>1, <2>2
  <1>4. PICK pc : Begin(f, "write", f, pc)
    BY DEF Lookup
  <1>5. NewCommand(f, "write", f, pc, FALSE)
    BY <1>1, <1>4, BeginStep DEF Kinds
  <1>6. op'[Owner] = op[Owner] \/ op'[Owner].session # Explicit
    BY <1>1, <1>5, Distinct DEF NewCommand
  <1>7. CommandAtStep'
    BY <1>1, <1>6, AtStepStays DEF OnceKept
  <1>8. CommitsApart'
    BY <1>1, <1>3, ApartStays DEF OnceKept, CommitsStay
  <1>9. GoesOn
    BY <1>1, SameGoesOn DEF OnceKept, SameTransaction
  <1> QED
    BY <1>1, <1>3, <1>7, <1>8, <1>9, OnceStays DEF OnceKept

\* A command's steps, but for those that send: commits stay what they are.
LEMMA NothingSentStays ==
  ASSUME Holders, closer = "open", CommandAtStep, NEW f \in Fibers, Attempts(f), ~Send(f)
  PROVE  CommitsStay /\ wire' \subseteq wire
  <1>1. Typed /\ op[f].pc # "idle" /\ WellFormed(f)
    BY AttemptsStep DEF Holders, AttemptStep, Typed, ShapesOK
  <1>2. wire' \subseteq wire /\ commits' = commits /\ live' \subseteq live
    BY DEF Attempts, Recycle, TakeNumber, NestedCommand, DropDeadPin, NotSent,
       NetworkError, TriedAgain, CommandEnds, poolVars, serverVars
  <1>3. CASE ~Explicitly(f)
    <2>1. \/ held' = held /\ mongod' = mongod
          \/ wire' = wire /\ f \in live /\ Exchange(f)
      BY <1>3 DEF Attempts, Recycle, TakeNumber, NestedCommand, DropDeadPin, NotSent,
         NetworkError, TriedAgain, CommandEnds, poolVars, serverVars
    <2>2. Explicit \in live => SessionStays /\ RecordStays
      BY <1>3, ImplicitStays
    <2>3. CASE held' = held /\ mongod' = mongod
      BY <1>2, <2>2, <2>3 DEF CommitsStay, Commits
    <2>4. CASE wire' = wire /\ f \in live /\ Exchange(f)
      <3>1. PICK q \in Returned(held[f], free) : Acquire(f, q)
        BY <2>4 DEF Exchange
      <3>2. q \in Seq(Lsids) /\ f \in Sessions /\ f # Explicit
        BY <1>1, <2>4, <3>1, ReturnedQueue, Distinct DEF Typed, TypeOK
      <3>3. held'[Explicit] = held[Explicit]
        BY <1>1, <3>1, <3>2, AcquireForgets, Distinct
      <3> QED
        BY <1>1, <1>2, <2>2, <2>4, <3>1, <3>2, <3>3, AcquireCommits DEF CommitsStay
    <2> QED
      BY <1>2, <2>1, <2>3, <2>4
  <1>4. CASE Explicitly(f)
    <2>1. f = Owner /\ Explicit \in live
      BY <1>1, <1>4, TypedParts DEF OpsTyped, Executing
    <2>2. op[f].pc \notin {"recycle", "number"}
      BY <1>1, <1>4, <2>1 DEF WellFormed, CommandAtStep, Asks
    <2>3. held' = held /\ mongod' = mongod /\ number' = number
      BY <1>4, <2>2 DEF Attempts, Recycle, TakeNumber, NestedCommand, DropDeadPin, NotSent,
         NetworkError, TriedAgain, CommandEnds, poolVars, serverVars
    <2> QED
      BY <1>2, <2>1, <2>3 DEF CommitsStay, Commits, SessionStays, RecordStays
  <1> QED
    BY <1>3, <1>4

\* A commit is sent when no statement of the transaction is late, and a statement
\* before any commit.
LEMMA SendOnce ==
  ASSUME Holders, closer = "open", Kept, ImplicitWrites, OnceKept, NEW f \in Fibers, Send(f)
  PROVE  OnceKept'
  <1>1. /\ Typed /\ AttemptStep(f) /\ op[f].pc = "send" /\ SameTransaction /\ call' = call
        /\ held' = held /\ number' = number /\ mongod' = mongod /\ live' = live
        /\ commits' = commits
    BY AttemptsStep, GoesOnSame DEF Holders, Attempts, Send, poolVars
  <1>2. op'[f].kind = op[f].kind /\ op'[f].session = op[f].session /\ op'[f].ends = op[f].ends
    <2>1. PICK conn, o : /\ o = [op[f] EXCEPT !.pc = "wait", !.conn = conn]
                         /\ op' = [op EXCEPT ![f] = o]
      BY SendStep
    <2>2. op \in [Fibers -> Operations]
      BY <1>1 DEF Typed, TypeOK
    <2> QED
      BY <2>1, <2>2 DEF Operations
  <1>3. PICK route \in Routes(f) : wire' = wire \cup {Message(f, route)}
    BY SendStep
  <1>4. PICK w : w = Message(f, route) /\ wire' = wire \cup {w}
    BY <1>3
  <1>5. w.lsid = Lsid(f) /\ w.number = number[Lsid(f)] /\ w.kind = Kind(f)
    BY <1>1, <1>4, MessageTyped
  <1>6. CommandAtStep'
    <2>1. \/ op'[Owner] = op[Owner]
          \/ /\ op'[Owner].kind = op[Owner].kind /\ op'[Owner].session = op[Owner].session
             /\ op'[Owner].ends = op[Owner].ends
      BY <1>1, <1>2, Distinct DEF AttemptStep
    <2> QED
      BY <1>1, <2>1, AtStepStays DEF OnceKept
  <1>7. GoesOn
    BY <1>1, SameGoesOn DEF OnceKept
  <1>8. txn'.told # "over"
    BY <1>1 DEF OnceKept, SameTransaction
  <1>9. \A m : Commits(m)' <=> Commits(m)
    BY <1>1 DEF Commits
  <1>10. Explicit \in live => SessionStays /\ RecordStays
    BY <1>1 DEF SessionStays, RecordStays
  <1>11. CASE Kind(f) \notin {"commit", "statement"}
    <2>1. CommitsStay
      BY <1>1, <1>4, <1>5, <1>9, <1>10, <1>11 DEF CommitsStay, Commits
    <2>2. CommitsApart'
      BY <1>1, <1>4, <1>5, <1>11 DEF OnceKept, CommitsApart
    <2> QED
      BY <1>6, <1>7, <1>8, <2>1, <2>2, OnceStays DEF OnceKept
  <1>12. CASE Kind(f) \in {"commit", "statement"}
    <2>1. Explicitly(f) /\ f = Owner /\ Explicit \in live /\ Asks(Kind(f))
      BY <1>1, <1>12, TypedParts DEF ImplicitWrites, OpsTyped, Executing, Asks
    <2>2. w.lsid = held[Explicit] /\ Ours(w)
      BY <1>5, <2>1 DEF Ours, Lsid, Explicitly
    <2>3. TransactionKept
      BY <2>1 DEF Kept
    <2>4. /\ Kind(f) = "commit" => txn.state = "committed"
          /\ Kind(f) = "statement" => txn.state = "inProgress"
      BY <2>1, <2>3 DEF TransactionKept, CommandFits
    <2>5. Current /\ NotCommitted
      BY <1>12, <2>3, <2>4 DEF TransactionKept, Current, OnceKept
    <2>6. CommitsApart'
      <3>1. ASSUME Kind(f) = "commit", NEW m \in wire, m.kind = "statement" PROVE ~Ours(m)
        BY <2>3, <2>4, <2>5, <3>1, NoneLate DEF OursOf
      <3>2. ASSUME Kind(f) = "statement", NEW m \in wire, m.kind = "commit" PROVE ~Ours(m)
        BY <2>4, <2>5, <3>2 DEF NotCommitted, OursOf
      <3> QED
        BY <1>1, <1>4, <1>5, <2>2, <3>1, <3>2 DEF OnceKept, CommitsApart, Ours
    <2>7. CASE Kind(f) = "statement"
      <3>1. CommitsStay
        BY <1>1, <1>4, <1>5, <1>9, <1>10, <2>7 DEF CommitsStay, Commits
      <3> QED
        BY <1>6, <1>7, <1>8, <2>6, <3>1, OnceStays DEF OnceKept
    <2>8. CASE Kind(f) = "commit"
      <3>1. call.step = "commit"
        BY <2>1, <2>8 DEF OnceKept, CommandAtStep
      <3>2. /\ commits = 1 => ~Commits(w)
            /\ \A m : Ours(m)' <=> Ours(m)
            /\ CommittedAtServer' <=> CommittedAtServer
        <4>1. commits = 1 => CommittedAtServer
          BY <2>1 DEF OnceKept, CommittedOnce
        <4>2. CommittedAtServer => ~Commits(w)
          BY <2>2 DEF CommittedAtServer, Outcome, Commits
        <4> QED
          BY <1>10, <2>1, <4>1, <4>2, OursStay, OutcomeStays
      <3>3. CommittedOnce'
        BY <1>1, <1>4, <1>9, <2>1, <2>2, <3>1, <3>2 DEF OnceKept, CommittedOnce
      <3> QED
        BY <1>6, <1>8, <2>6, <3>3 DEF OnceKept
    <2> QED
      BY <1>12, <2>7, <2>8
  <1> QED
    BY <1>11, <1>12

\* Where a command that ended leads withTransaction.
LEMMA ContinuesCases ==
  ASSUME Scene.app = "with", NEW kind \in {"statement", "commit", "abort"}, NEW r,
         NEW c \in Continues(kind, r)
  PROVE  \/ c = call /\ (call.step \in {"returned", "raised"} \/ kind = "statement")
         \/ kind = "statement" /\ c.step = "abort"
         \/ kind = "commit" /\ c.step \in {"raised", "commit"}
         \/ kind = "commit" /\ c.step = "returned" /\ r = "ok"
         \/ kind = "commit" /\ c.step = "start" /\ r = "noTransaction"
         \/ /\ kind = "abort" /\ call.step \notin {"returned", "raised"}
            /\ c.step \in {"raised", "start"}
  <1>1. CASE call.step \in {"returned", "raised"}
    BY <1>1 DEF Continues
  <1>2. CASE call.step \notin {"returned", "raised"} /\ kind = "statement"
    BY <1>2 DEF Continues, AfterStatement
  <1>3. CASE call.step \notin {"returned", "raised"} /\ kind = "commit"
    <2>1. c \in AfterCommit(r)
      BY <1>3 DEF Continues
    <2>2. Transient("commit", r) => r = "noTransaction"
      BY DEF Transient
    <2> QED
      BY <1>3, <2>1, <2>2 DEF AfterCommit, Goes
  <1>4. CASE call.step \notin {"returned", "raised"} /\ kind = "abort"
    BY <1>4 DEF Continues, Goes
  <1> QED
    BY <1>1, <1>2, <1>3, <1>4

\* What the end of a command leaves of the transaction.
LEMMA EndLeaves ==
  ASSUME Typed, NEW kind \in {"statement", "commit", "abort"}, NEW r \in Replies,
         NEW u, u \in {Settled(txn, kind, r), Unpinned(Settled(txn, kind, r))}
  PROVE  /\ txn.told # "over" => u.told # "over"
         /\ kind # "statement" => u.state = txn.state
  <1>1. txn \in TransactionRecords
    BY DEF Typed, TypeOK
  <1>2. PICK t \in TransactionRecords : t = Settled(txn, kind, r)
    BY <1>1, SettledTyped DEF Kinds
  <1>3. u.state = t.state /\ u.told = t.told
    BY <1>2, UnpinnedSame
  <1>4. CASE kind = "statement"
    <2>1. t.told = txn.told
      BY <1>1, <1>2, <1>4 DEF Settled, TransactionRecords
    <2> QED
      BY <1>3, <1>4, <2>1
  <1>5. CASE kind # "statement"
    <2>1. t.state = txn.state /\ (txn.told # "over" => t.told # "over")
      BY <1>1, <1>2, <1>5 DEF Settled, Tells, TransactionRecords
    <2> QED
      BY <1>3, <2>1
  <1> QED
    BY <1>4, <1>5

LEMMA CommandEndsOnce ==
  ASSUME Holders, closer = "open", Scene.app = "with", Kept, OnceKept, CommandEnds(Owner),
         Explicitly(Owner), ~Send(Owner)
  PROVE  OnceKept'
  <1>1. /\ Typed /\ AttemptStep(Owner) /\ Owner \in Fibers /\ op \in [Fibers -> Operations]
        /\ Attempts(Owner) /\ commits \in Nat
    BY AttemptsStep, Distinct DEF Holders, Attempts, Typed, TypeOK
  <1>2. PICK r : r = op[Owner].reply /\ r # None
    BY DEF CommandEnds
  <1>3. PICK kind : kind = Kind(Owner)
    OBVIOUS
  <1>4. /\ Explicit \in live /\ kind \in {"statement", "commit", "abort"} /\ r \in Replies
        /\ Answered(kind, r) /\ Asks(kind)
    <2>1. Executing(Owner)
      BY <1>1, <1>2, TypedParts, RepliedExecutes
    <2>2. kind \in {"statement", "commit", "abort"}
      BY <1>3, <2>1 DEF Executing, Kinds, OnceKept, CommandAtStep, Asks
    <2> QED
      BY <1>1, <1>2, <1>3, <2>1, <2>2 DEF Executing, Operations, Answered, Asks
  <1>5. CommitsStay /\ wire' \subseteq wire
    BY <1>1, NothingSentStays DEF OnceKept
  <1>6. TransactionKept
    BY <1>4 DEF Kept
  <1>7. /\ kind = "commit" => txn.state = "committed"
        /\ kind = "abort" => txn.state = "aborted"
    BY <1>4, <1>6 DEF TransactionKept, CommandFits
  <1>8. txn'.told # "over" /\ (kind # "statement" => txn'.state = txn.state)
    <2>1. txn' \in {Settled(txn, kind, r), Unpinned(Settled(txn, kind, r))}
      BY <1>2, <1>3 DEF CommandEnds
    <2> QED
      BY <1>1, <1>4, <2>1, EndLeaves DEF OnceKept
  <1>9. PICK c \in Continues(kind, r) : call' = c
    BY <1>2, <1>3 DEF CommandEnds
  <1>10. /\ kind = "statement" => call.step = "body"
         /\ kind = "commit" => call.step = "commit"
         /\ kind = "abort" => call.step \in {"returned", "raised", "abort"}
    BY <1>4 DEF OnceKept, CommandAtStep
  <1>11. CommittedOnce /\ (kind = "commit" => Decided)
    BY <1>6, <1>7 DEF OnceKept, TransactionKept, Current
  <1>12. kind = "commit" /\ r = "ok" => commits = 1
    <2>1. kind = "commit" /\ r = "ok" => CommittedAtServer
      BY <1>4, <1>11 DEF Decided
    <2>2. held[Explicit] \in Lsids
      BY <1>1, <1>4 DEF Typed, TypeOK
    <2> QED
      BY <1>11, <2>1, <2>2 DEF CommittedOnce, CommittedAtServer, Outcome
  <1>13. kind = "commit" /\ r = "noTransaction" => commits = 0 /\ \A m \in wire : ~Commits(m)
    <2>1. kind = "commit" /\ r = "noTransaction" => Doomed
      BY <1>4, <1>11 DEF Decided
    <2>2. Doomed => ~CommittedAtServer /\ \A m : ~(Commits(m) /\ Ours(m))
      BY DEF Doomed, CommittedAtServer, Outcome, Commits, Ours
    <2> QED
      BY <1>1, <1>4, <1>11, <2>1, <2>2 DEF CommittedOnce
  <1>14. GoesOn /\ call'.step # "none"
    <2>1. call.step \in {"body", "abort"} => commits = 0 /\ \A m \in wire : ~Commits(m)
      BY <1>11 DEF CommittedOnce
    <2>2. call.step = "returned" => txn.state = "committed"
      BY <1>11 DEF CommittedOnce
    <2> QED
      BY <1>4, <1>7, <1>8, <1>9, <1>10, <1>12, <1>13, <2>1, <2>2, ContinuesCases DEF GoesOn
  <1>15. CommandAtStep'
    <2>1. op'[Owner].session # Explicit
      BY <1>1, Distinct DEF CommandEnds, Idle
    <2> QED
      BY <1>14, <2>1 DEF CommandAtStep, Asks, Explicitly
  <1>16. CommitsApart' /\ CommittedOnce'
    BY <1>5, <1>14, ApartStays, OnceStays DEF OnceKept, CommitsStay
  <1> QED
    BY <1>8, <1>15, <1>16 DEF OnceKept

LEMMA AttemptsRun ==
  ASSUME Holders, closer = "open", Scene.app = "with", Kept, ImplicitWrites, OnceKept,
         NEW f \in Fibers, Attempts(f)
  PROVE  OnceKept'
  <1>1. Typed /\ AttemptStep(f)
    BY AttemptsStep DEF Holders
  <1>2. CASE Send(f)
    BY <1>2, SendOnce
  <1>3. CASE ~Send(f) /\ CommandEnds(f) /\ Explicitly(f)
    <2>1. f = Owner
      BY <1>1, <1>3, TypedParts DEF AttemptStep, OpsTyped, Executing
    <2> QED
      BY <1>3, <2>1, CommandEndsOnce
  <1>4. CASE ~Send(f) /\ ~(CommandEnds(f) /\ Explicitly(f))
    <2>1. CommitsStay /\ wire' \subseteq wire
      BY <1>4, NothingSentStays DEF OnceKept
    <2>2. SameTransaction /\ call' = call
      <3>1. CASE Explicitly(f)
        <4>1. f = Owner /\ WellFormed(f)
          BY <1>1, <3>1, TypedParts DEF AttemptStep, OpsTyped, Executing
        <4>2. op[f].pc \notin {"recycle", "number"}
          BY <3>1, <4>1 DEF WellFormed, OnceKept, CommandAtStep, Asks
        <4>3. DropDeadPin(f) \/ NotSent(f) \/ NetworkError(f) \/ TriedAgain(f)
          BY <1>4, <3>1, <4>2 DEF Attempts, Recycle, TakeNumber, NestedCommand
        <4> QED
          BY <1>1, <4>3, GoesOnSame
      <3>2. CASE ~Explicitly(f)
        BY <1>1, <3>2, GoesOnSame
      <3> QED
        BY <3>1, <3>2
    <2>3. \/ /\ op'[Owner].kind = op[Owner].kind /\ op'[Owner].session = op[Owner].session
             /\ op'[Owner].ends = op[Owner].ends
          \/ op'[Owner].session # Explicit
      BY <1>1, Distinct DEF AttemptStep, Idle
    <2>4. CommandAtStep' /\ CommitsApart' /\ CommittedOnce'
      BY <2>1, <2>2, <2>3, AtStepStays, ApartStays, SameGoesOn, OnceStays
         DEF OnceKept, CommitsStay
    <2> QED
      BY <2>2, <2>4 DEF OnceKept, SameTransaction
  <1> QED
    BY <1>2, <1>3, <1>4

\* What the owner does with the session leaves commits alone; a transaction that
\* starts has a new number.
LEMMA OwnerCommits ==
  ASSUME Typed, CommitsApart,
         \/ Statement \/ Commit \/ CommitEmpty \/ Abort \/ BodyEnds \/ EndSession
  PROVE  CommitsStay /\ CommitsApart'
  <1>1. wire' = wire /\ mongod' = mongod /\ Explicit \in live
    BY OwnerStep
  <1>2. held' = held /\ number' = number /\ commits' = commits
    BY DEF Statement, Commit, CommitEmpty, Abort, BodyEnds, EndSession, poolVars, serverVars
  <1> QED
    BY <1>1, <1>2, ApartStays DEF CommitsStay, Commits, SessionStays, RecordStays

\* A new command goes with the step that starts it.
LEMMA BegunAtStep ==
  ASSUME NEW kind, NEW pc, NEW ends, NewCommand(Owner, kind, Explicit, pc, ends),
         kind \in {"statement", "commit", "abort"}, call'.step # "none",
         kind = "statement" => call'.step = "body",
         kind = "commit" => call'.step = "commit",
         kind = "abort" => call'.step \in IF ends THEN {"returned", "raised"} ELSE {"abort"}
  PROVE  CommandAtStep'
  <1>1. \A k : Asks(k)' <=> k = kind
    BY DEF NewCommand, Asks, Explicitly, Kind
  <1>2. op'[Owner].ends = ends
    BY DEF NewCommand
  <1> QED
    BY <1>1, <1>2 DEF CommandAtStep

LEMMA IdleAtStep ==
  ASSUME op' = op, op[Owner] = Idle, call'.step # "none"
  PROVE  CommandAtStep'
  <1>1. op'[Owner].session # Explicit
    BY Distinct DEF Idle
  <1> QED
    BY <1>1 DEF CommandAtStep, Asks, Explicitly

LEMMA AbortSentOnce ==
  ASSUME Typed, Scene.app = "with", OnceKept, NEW ends \in BOOLEAN, AbortSent(ends),
         Abort \/ EndSession,
         call.step \in IF ends THEN {"returned", "raised"} ELSE {"abort"}
  PROVE  OnceKept'
  <1>1. CommitsStay /\ CommitsApart' /\ call' = call /\ txn \in TransactionRecords
    BY OwnerCommits DEF OnceKept, AbortSent, Typed, TypeOK
  <1>2. NewCommand(Owner, "abort", Explicit, "send", ends)
    BY AbortStep
  <1>3. CommandAtStep'
    BY <1>1, <1>2, BegunAtStep
  <1>4. txn'.told = txn.told /\ txn.state = "inProgress"
    BY <1>1 DEF AbortSent, TransactionRecords
  <1>5. GoesOn
    BY <1>1, <1>4 DEF OnceKept, CommittedOnce, GoesOn
  <1> QED
    BY <1>1, <1>3, <1>4, <1>5, OnceStays DEF OnceKept

LEMMA AbortUnsentOnce ==
  ASSUME Typed, Scene.app = "with", OnceKept, AbortUnsent, Abort
  PROVE  OnceKept'
  <1>1. CommitsStay /\ CommitsApart' /\ txn \in TransactionRecords /\ op' = op /\ op[Owner] = Idle
    BY OwnerCommits, OwnerStep DEF OnceKept, AbortUnsent, Typed, TypeOK
  <1>2. call.step = "abort" /\ call' \in Continues("abort", "ok")
    BY DEF Abort, MayAbort, AbortUnsent
  <1>3. call'.step \in {"raised", "start"}
    BY <1>2, ContinuesCases
  <1>4. PICK u \in TransactionRecords : u = Unpinned(txn)
    BY <1>1, UnpinnedTyped
  <1>5. u.told = txn.told
    BY <1>1, <1>4, UnpinnedSame
  <1>6. txn'.told # "over"
    <2>1. txn' = u \/ txn' = Tells([u EXCEPT !.state = "aborted"], "aborted")
      BY <1>4 DEF AbortUnsent, After
    <2> QED
      BY <1>5, <2>1 DEF Tells, TransactionRecords, OnceKept
  <1>7. GoesOn
    BY <1>2, <1>3 DEF OnceKept, CommittedOnce, GoesOn
  <1>8. CommandAtStep'
    BY <1>1, <1>3, IdleAtStep
  <1> QED
    BY <1>1, <1>6, <1>7, <1>8, OnceStays DEF OnceKept

LEMMA StartTransactionOnce ==
  ASSUME Typed, Scene.app = "with", OnceKept, StartTransaction
  PROVE  OnceKept'
  <1>1. /\ op' = op /\ op[Owner] = Idle /\ wire' = wire /\ mongod' = mongod
        /\ held' = held /\ commits' = commits
    BY OwnerStep DEF StartTransaction, poolVars, serverVars
  <1>2. call.step = "start" /\ call'.step = "body"
    BY DEF StartTransaction, Typed, TypeOK
  <1>3. txn'.told = "nothing"
    BY DEF StartTransaction, NoTransaction
  <1>4. CommittedOnce'
    <2>1. commits = 0 /\ \A m \in wire : ~Commits(m)
      BY <1>2 DEF OnceKept, CommittedOnce
    <2>2. \A m : Commits(m)' <=> Commits(m)
      BY <1>1 DEF Commits
    <2> QED
      BY <1>1, <1>2, <2>1, <2>2 DEF OnceKept, CommittedOnce
  <1> QED
    BY <1>1, <1>2, <1>3, <1>4, IdleAtStep, ApartStays DEF OnceKept

LEMMA OwnerOnce ==
  ASSUME Typed, Scene.app = "with", OnceKept,
         \/ StartTransaction \/ Statement \/ PlainWrite \/ Commit \/ CommitEmpty \/ Abort
         \/ BodyEnds \/ EndSession
  PROVE  OnceKept'
  <1>1. op[Owner] = Idle /\ txn \in TransactionRecords /\ call.step # "none" /\ ~PlainWrite
    BY OwnerStep DEF Typed, TypeOK, OnceKept, CommandAtStep, PlainWrite, ByCalls
  <1>2. CASE Statement
    <2>1. call' = call /\ call.step = "body" /\ NewCommand(Owner, "statement", Explicit, "send", FALSE)
      BY <1>2, BeginStep, Distinct DEF Statement, Kinds
    <2>2. txn'.told = txn.told
      BY <1>1, <1>2 DEF Statement, TransactionRecords
    <2>3. GoesOn
      BY <2>1 DEF OnceKept, CommittedOnce, GoesOn
    <2>4. CommandAtStep'
      BY <2>1, BegunAtStep
    <2> QED
      BY <1>2, <2>2, <2>3, <2>4, OwnerCommits, OnceStays DEF OnceKept
  <1>3. CASE Commit
    <2>1. call' = call /\ call.step = "commit" /\ NewCommand(Owner, "commit", Explicit, "send", FALSE)
      BY <1>3, BeginStep, Distinct DEF Commit, MayCommit, Kinds
    <2>2. txn'.told # "over"
      BY <1>1, <1>3 DEF Commit, TransactionRecords, OnceKept
    <2>3. GoesOn
      BY <2>1 DEF GoesOn
    <2>4. CommandAtStep'
      BY <2>1, BegunAtStep
    <2> QED
      BY <1>3, <2>2, <2>3, <2>4, OwnerCommits, OnceStays DEF OnceKept
  <1>4. CASE CommitEmpty
    <2>1. op' = op /\ call'.step = "returned"
      BY <1>4 DEF CommitEmpty, Typed, TypeOK
    <2>2. PICK b \in BOOLEAN : b = (txn.state = "starting")
      BY ZenonT(20)
    <2>3. txn' = Tells([txn EXCEPT !.state = "committed", !.empty = b], "empty")
      BY <1>4, <2>2 DEF CommitEmpty, After
    <2>4. txn'.state = "committed" /\ txn'.told = "empty"
      BY <1>1, <2>3 DEF Tells, TransactionRecords, OnceKept
    <2>5. GoesOn
      BY <2>1, <2>4 DEF GoesOn
    <2>6. CommandAtStep'
      BY <1>1, <2>1, IdleAtStep
    <2> QED
      BY <1>4, <2>4, <2>5, <2>6, OwnerCommits, OnceStays DEF OnceKept
  <1>5. CASE Abort
    <2>1. call.step = "abort"
      BY <1>5 DEF Abort, MayAbort
    <2> QED
      BY <1>5, <2>1, AbortSentOnce, AbortUnsentOnce DEF Abort
  <1>6. CASE BodyEnds
    <2>1. /\ call.step = "body" /\ call'.step \in {"commit", "abort"} /\ op' = op /\ txn' = txn
      BY <1>6 DEF BodyEnds
    <2>2. GoesOn
      BY <2>1 DEF OnceKept, CommittedOnce, GoesOn
    <2>3. CommandAtStep'
      BY <1>1, <2>1, IdleAtStep
    <2> QED
      BY <1>6, <2>1, <2>2, <2>3, OwnerCommits, OnceStays DEF OnceKept
  <1>7. CASE EndSession
    <2>1. call.step \in {"returned", "raised"}
      BY <1>1, <1>7 DEF EndSession
    <2>2. CASE AbortSent(TRUE)
      BY <1>7, <2>1, <2>2, AbortSentOnce
    <2>3. CASE ~AbortSent(TRUE)
      <3>1. txn' = Unpinned(txn) /\ op' = op /\ call' = call
        BY <1>7, <2>3 DEF EndSession
      <3>2. txn'.told = txn.told /\ txn'.state = txn.state
        BY <1>1, <3>1, UnpinnedSame
      <3>3. GoesOn
        BY <2>1, <3>1, <3>2 DEF OnceKept, CommittedOnce, GoesOn
      <3>4. CommandAtStep'
        BY <1>1, <3>1, IdleAtStep
      <3> QED
        BY <1>7, <3>2, <3>3, <3>4, OwnerCommits, OnceStays DEF OnceKept
    <2> QED
      BY <2>2, <2>3
  <1> QED
    BY <1>1, <1>2, <1>3, <1>4, <1>5, <1>6, <1>7, StartTransactionOnce

\* Before the session has a server session nothing was asked to commit.
LEMMA StartSessionOnce ==
  ASSUME Typed, OnceKept, StartSession
  PROVE  OnceKept'
  <1>1. /\ held[Explicit] = None /\ txn' = txn /\ op' = op /\ call' = call /\ wire' = wire
        /\ commits' = commits /\ Acquire(Explicit, free) /\ free \in Seq(Lsids)
    BY DEF StartSession, Typed, TypeOK
  <1>2. \A m \in wire : m.kind # "commit"
    BY <1>1, Distinct DEF OnceKept, CommitsApart, Typed, TypeOK, Messages
  <1>3. commits = 0
    BY <1>1 DEF OnceKept, CommittedOnce
  <1>4. \A l \in Lsids : mongod'[l].state = "committed" => mongod[l].state = "committed"
    BY <1>1, Distinct, AcquireCommits
  <1>5. CommittedOnce'
    BY <1>1, <1>2, <1>3, <1>4 DEF OnceKept, CommittedOnce, Commits
  <1>6. CommitsApart' /\ CommandAtStep'
    BY <1>1, <1>2 DEF OnceKept, CommitsApart, CommandAtStep, Asks, Explicitly, Kind
  <1> QED
    BY <1>1, <1>5, <1>6 DEF OnceKept

\* What an answer makes of the records, as far as commits are concerned: one that was
\* open is committed by a commit, and nothing else changes what a commit would find.
LEMMA AnswerCommits ==
  ASSUME Typed, CommitsApart, NEW m \in wire, NEW e \in Effects,
         e \in Normal(m, mongod[m.lsid]) \cup Failing(m, mongod[m.lsid]), Answers(m, e)
  PROVE  /\ \A w \in wire' : Commits(w)' =>
              w \in wire /\ Commits(w) /\ ~(w.lsid = m.lsid /\ e.record.state = "committed")
         /\ e.record.state = "committed" =>
              mongod[m.lsid].state = "committed" \/ (Commits(m) /\ mongod[m.lsid].state = "open")
         /\ \A l \in Lsids : l # m.lsid => mongod'[l] = mongod[l]
         /\ mongod'[m.lsid] = e.record
  <1>1. /\ mongod \in [Lsids -> Records] /\ m \in Messages /\ m.lsid \in Lsids
        /\ mongod' = [mongod EXCEPT ![m.lsid] = e.record] /\ wire' = wire \ {m}
        /\ \A w \in wire : w.lsid \in Lsids
    BY DEF Typed, TypeOK, Answers, Messages
  <1>2. PICK r \in Records : r = mongod[m.lsid]
    BY <1>1
  <1>3. EffectFits(m, r, e)
    BY <1>1, <1>2, EffectOutcome
  <1>4. mongod'[m.lsid] = e.record /\ \A l \in Lsids : l # m.lsid => mongod'[l] = mongod[l]
    BY <1>1
  <1>5. ASSUME NEW w \in wire', Commits(w)'
        PROVE  w \in wire /\ Commits(w) /\ ~(w.lsid = m.lsid /\ e.record.state = "committed")
    <2>1. w \in wire /\ w.kind = "commit" /\ w.lsid \in Lsids
      BY <1>1, <1>5 DEF Commits
    <2>2. CASE w.lsid # m.lsid
      BY <1>4, <1>5, <2>1, <2>2 DEF Commits
    <2>3. CASE w.lsid = m.lsid
      <3>1. e.record.state = "open" /\ e.record.number = w.number
        BY <1>4, <1>5, <2>3 DEF Commits
      <3>2. ~(m.kind = "statement" /\ m.number = w.number)
        BY <2>1, <2>3 DEF CommitsApart
      <3>3. r.state = "open" /\ r.number = w.number
        BY <1>3, <3>1, <3>2 DEF EffectFits
      <3> QED
        BY <1>2, <2>1, <2>3, <3>1, <3>3 DEF Commits
    <2> QED
      BY <2>2, <2>3
  <1>6. e.record.state = "committed" => r.state = "committed" \/ (Commits(m) /\ r.state = "open")
    BY <1>2, <1>3 DEF EffectFits, Commits
  <1> QED
    BY <1>2, <1>4, <1>5, <1>6

LEMMA DeliverOnce ==
  ASSUME Typed, NumbersGiven, OnceKept, NEW m \in wire, Deliver(m)
  PROVE  OnceKept'
  <1>1. PICK e \in Effects :
          /\ e \in Normal(m, mongod[m.lsid]) \cup Failing(m, mongod[m.lsid])
          /\ Answers(m, e)
          /\ commits' = commits + (IF e.record.state = "committed"
                                      /\ mongod[m.lsid].state = "open" THEN 1 ELSE 0)
    BY DeliverStep
  <1>2. /\ txn' = txn /\ call' = call /\ held' = held /\ number' = number /\ live' = live
        /\ wire' = wire \ {m} /\ SessionStays /\ Owner \in Fibers /\ commits \in Nat
        /\ m.lsid \in Lsids
    BY <1>1, Distinct DEF Deliver, poolVars, SessionStays, Answers, Typed, TypeOK, Messages
  <1>3. CommandAtStep'
    BY <1>1, <1>2, AtStepStays DEF OnceKept, Answers
  <1>4. CommitsApart'
    BY <1>2, ApartStays DEF OnceKept
  <1>5. CommittedOnce /\ CommitsApart
    BY DEF OnceKept
  <1>6. /\ \A w \in wire' : Commits(w)' =>
             w \in wire /\ Commits(w) /\ ~(w.lsid = m.lsid /\ e.record.state = "committed")
        /\ e.record.state = "committed" =>
             mongod[m.lsid].state = "committed" \/ (Commits(m) /\ mongod[m.lsid].state = "open")
        /\ \A l \in Lsids : l # m.lsid => mongod'[l] = mongod[l]
        /\ mongod'[m.lsid] = e.record
    BY <1>1, <1>5, AnswerCommits
  <1>7. \A w : Ours(w)' <=> Ours(w)
    BY <1>2, OursStay
  <1>8. CASE e.record.state = "committed" /\ mongod[m.lsid].state = "open"
    <2>1. Commits(m) /\ commits = 0 /\ commits' = 1
      BY <1>1, <1>2, <1>5, <1>6, <1>8 DEF CommittedOnce
    <2>2. \A w \in wire' : ~Commits(w)'
      <3>1. \A w \in wire : w.kind = "commit" => w.lsid = m.lsid
        BY <1>5, <2>1 DEF CommitsApart, Commits
      <3> QED
        BY <1>6, <1>8, <3>1 DEF Commits
    <2>3. Explicit \in live => CommittedAtServer'
      <3>1. ASSUME Explicit \in live PROVE CommittedAtServer'
        <4>1. Ours(m) /\ m.kind = "commit" /\ mongod[m.lsid].number = m.number
          BY <1>5, <2>1, <3>1 DEF CommittedOnce, Commits
        <4>2. EffectFits(m, mongod[m.lsid], e)
          BY <1>1, <1>2, EffectOutcome DEF Typed, TypeOK
        <4>3. e.record.number = m.number
          BY <1>8, <4>1, <4>2 DEF EffectFits
        <4> QED
          BY <1>2, <1>6, <1>8, <4>1, <4>3 DEF Ours, CommittedAtServer, Outcome
      <3> QED
        BY <3>1
    <2>4. held'[Explicit] # None
      BY <1>2, <1>5, <2>1, Distinct DEF CommitsApart, Commits
    <2>5. call.step \notin {"start", "body", "abort"}
      BY <1>5, <2>1 DEF CommittedOnce
    <2>6. call.step = "returned" => txn.state = "committed"
      BY <1>5 DEF CommittedOnce
    <2>7. CommittedOnce'
      BY <1>2, <2>1, <2>2, <2>3, <2>4, <2>5, <2>6 DEF CommittedOnce
    <2> QED
      BY <1>2, <1>3, <1>4, <2>7 DEF OnceKept
  <1>9. CASE ~(e.record.state = "committed" /\ mongod[m.lsid].state = "open")
    <2>1. commits' = commits
      BY <1>1, <1>2, <1>9
    <2>2. \A l \in Lsids : mongod'[l].state = "committed" => mongod[l].state = "committed"
      BY <1>6, <1>9
    <2>3. Explicit \in live => (CommittedAtServer => CommittedAtServer')
      BY <1>1, <1>2, RecordMoves
    <2>4. CommittedOnce'
      BY <1>2, <1>5, <1>6, <1>7, <2>1, <2>2, <2>3 DEF CommittedOnce
    <2> QED
      BY <1>2, <1>3, <1>4, <2>4 DEF OnceKept
  <1> QED
    BY <1>8, <1>9

LEMMA NextRunOnce ==
  ASSUME Holders, NumbersGiven, Kept, ImplicitWrites, RunOnce, [Next]_vars
  PROVE  RunOnce'
  <1> SUFFICES ASSUME closer' = "open", Scene'.app = "with"
               PROVE  OnceKept'
    BY DEF RunOnce
  <1>1. Typed /\ ~EndFiberSessions /\ ~ClosePool
    BY DEF Holders, EndFiberSessions, ClosePool
  <1>2. closer = "open" /\ Scene.app = "with"
    BY <1>1 DEF Next, vars, Lookup, Attempts, Recycle, TakeNumber, NestedCommand, DropDeadPin,
       Send, NotSent, NetworkError, TriedAgain, CommandEnds, Deliver, StartSession,
       StartTransaction, Statement, PlainWrite, Commit, CommitEmpty, Abort, BodyEnds, EndSession,
       Scene
  <1>3. OnceKept
    BY <1>2 DEF RunOnce
  <1>4. CASE UNCHANGED vars
    BY <1>3, <1>4 DEF vars, poolVars, serverVars, OnceKept, CommitsApart, CommandAtStep,
       CommittedOnce, Asks, Explicitly, Kind, Commits, Ours, CommittedAtServer, Outcome
  <1> QED
    BY <1>1, <1>2, <1>3, <1>4, LookupOnce, AttemptsRun, DeliverOnce, OwnerOnce, StartSessionOnce
       DEF Next

LEMMA InitRunOnce ==
  ASSUME Init
  PROVE  ImplicitWrites /\ RunOnce
  <1>1. /\ op = [f \in Fibers |-> Idle] /\ wire = {} /\ mongod = [l \in Lsids |-> NewRecord]
        /\ live = {} /\ commits = 0 /\ txn = NoTransaction
        /\ call.step = IF Scene.app = "with" THEN "start" ELSE "none"
    BY DEF Init
  <1>2. \A f \in Fibers : op[f].pc = "idle" /\ op[f].session = None
    BY <1>1 DEF Idle
  <1>3. Scene.app = "with" => CommandAtStep
    BY <1>1, <1>2, Distinct DEF CommandAtStep, Asks, Explicitly
  <1>4. Scene.app = "with" => CommittedOnce
    BY <1>1 DEF CommittedOnce, NewRecord
  <1> QED
    BY <1>1, <1>2, <1>3, <1>4 DEF ImplicitWrites, RunOnce, OnceKept, CommitsApart, NoTransaction

\* While the client is open withTransaction commits its body at most once, however
\* often it runs it or asks for the commit again, and once if it returns, unless the
\* body had nothing to commit.
THEOREM SessionsWithTransactionOnce == Spec => []WithTransactionOnce
  <1>1. Init => ImplicitWrites /\ RunOnce
    BY InitRunOnce
  <1>2. OutcomeInv /\ ImplicitWrites /\ RunOnce /\ [Next]_vars => ImplicitWrites' /\ RunOnce'
    BY NextImplicit, NextRunOnce DEF OutcomeInv, IInv, Holders
  <1>3. RunOnce => WithTransactionOnce
    BY DEF RunOnce, OnceKept, CommittedOnce, WithTransactionOnce
  <1> QED
    BY <1>1, <1>2, <1>3, SessionsTransactionKept, PTL DEF Spec
=============================================================================
