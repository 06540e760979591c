--------------------------- MODULE SessionsProofs ---------------------------
(***************************************************************************)
(* What holds of the sessions of one client for every scenario and any     *)
(* number of fibers, server sessions, routers and connections: a server    *)
(* session has one holder, a connection is accounted for once, and a write *)
(* that is tried again, recycled, lost or late is applied once.            *)
(***************************************************************************)
EXTENDS Sessions, FiniteSetTheorems, SequenceTheorems, TLAPS

\* The message carries the call that fiber and serial name.
Carries(m) ==
  /\ m.serial \in 1 .. Len(fate[m.fiber])
  /\ fate[m.fiber][m.serial].kind = m.kind

\* An operation between its steps. Only an attempt that was sent owns a
\* connection, and only one that has ended has a reply.
WellFormed(f) ==
  /\ op[f].pc = "idle" => op[f] = Idle
  /\ op[f].pc # "idle" => fate[f][Serial(f)].kind = Kind(f)
  /\ op[f].reply # None => op[f].pc \in {"wait", "ended"}
  /\ op[f].conn # None => op[f].pc \in {"wait", "ended"}
  /\ op[f].pc \in {"recycle", "number"} => Kind(f) = "write"
  /\ op[f].ends => Kind(f) = "abort" /\ Explicitly(f)

ShapesOK ==
  /\ \A f \in Fibers : WellFormed(f)
  /\ \A m \in wire : Carries(m)
  /\ IsFiniteSet(live)

Typed == TypeOK /\ ShapesOK

\* As long as nobody closes the client, who executes a command holds a live session.
OnLiveSessions ==
  closer = "open" => \A f \in Fibers : op[f].pc # "idle" => op[f].session \in live

\* A session that is not live has no pinned connection.
UnpinnedWhenEnded == Explicit \notin live => txn.conn = None

Holders == Typed /\ OneHolder /\ OnLiveSessions
Accounted == Typed /\ ConnectionsAccounted /\ UnpinnedWhenEnded

-----------------------------------------------------------------------------
(* Transaction numbers *)

\* No message and no record of the server has a number the client did not give out.
NumbersGiven ==
  /\ \A m \in wire : m.number <= number[m.lsid]
  /\ \A l \in Lsids : mongod[l].number <= number[l]

\* f executes a write that has its number.
Numbered(f) ==
  /\ Kind(f) = "write"
  /\ op[f].pc \in {"send", "wait"} \/ (op[f].pc = "ended" /\ op[f].reply # "unselected")

\* m was sent with the number that f's command has now, or for that command.
SameNumber(m, f) == m.lsid = Lsid(f) /\ m.number = number[Lsid(f)]
OfCall(m, f) == m.fiber = f /\ m.serial = Serial(f)

\* The server's record tells of a write with the number n.
Wrote(record, n) == record.number = n /\ record.state = "wrote"

Applied(f, i) == fate[f][i].applied

\* What has been applied is not applied again, and what is recorded was applied.
Agrees(record, n, applied) ==
  /\ applied > 0 => record.number >= n
  /\ Wrote(record, n) => applied = 1

\* All that was sent for a write has its number, and while it is executed nothing
\* else has; before that nothing was sent or applied, and a good reply means that
\* the write was.
FiberExact(f) ==
  /\ op[f].pc # "idle" /\ Kind(f) = "write" =>
       \A m \in wire : OfCall(m, f) => SameNumber(m, f) /\ op[f].pc \notin {"recycle", "number"}
  /\ Numbered(f) =>
       /\ \A m \in wire : SameNumber(m, f) => OfCall(m, f)
       /\ Agrees(mongod[Lsid(f)], number[Lsid(f)], Applied(f, Serial(f)))
  /\ op[f].pc \in {"recycle", "number"} => Applied(f, Serial(f)) = 0
  /\ Kind(f) = "write" /\ op[f].reply = "ok" => Applied(f, Serial(f)) = 1

MessageExact(m) ==
  m.kind = "write" => Agrees(mongod[m.lsid], m.number, Applied(m.fiber, m.serial))

\* Messages have the same number exactly if they are attempts of the same write.
NumbersOwned ==
  \A m, w \in wire : m.kind = "write" /\ w.kind = "write" =>
    (m.lsid = w.lsid /\ m.number = w.number <=> m.fiber = w.fiber /\ m.serial = w.serial)

CallExact(c) == c.kind = "write" => c.applied <= 1 /\ (c.done => c.applied = 1)

Exact ==
  /\ \A f \in Fibers : FiberExact(f)
  /\ \A m \in wire : MessageExact(m)
  /\ NumbersOwned
  /\ \A f \in Fibers : \A i \in 1 .. Len(fate[f]) : CallExact(fate[f][i])

\* As long as nobody closes the client and no command is nested in another.
Undisturbed == closer = "open" /\ ~Scene.nested

WritesOnce == Undisturbed => Exact

IInv == Holders /\ Accounted /\ NumbersGiven /\ WritesOnce

-----------------------------------------------------------------------------
(* Types *)

EnvTyped ==
  /\ scene \in DOMAIN Scenarios /\ poolOpen \in BOOLEAN
  /\ txn \in TransactionRecords /\ call \in [step : Steps, again : BOOLEAN]
  /\ out \subseteq Conns /\ closer \in {"open", "ending", "closed"}
  /\ commits \in Nat /\ faults \in Nat

PoolTyped ==
  /\ free \in Seq(Lsids) /\ dirty \subseteq Lsids
  /\ number \in [Lsids -> Nat] /\ mongod \in [Lsids -> Records]
  /\ held \in [Sessions -> Lsids \cup {None}]
  /\ live \subseteq Sessions /\ IsFiniteSet(live)
  /\ \A c \in live : held[c] \in Lsids

Executing(f) ==
  /\ op[f].session \in Sessions /\ Lsid(f) \in Lsids /\ Kind(f) \in Kinds
  /\ Serial(f) > 0
  /\ Explicitly(f) => f = Owner /\ Explicit \in live
  /\ op[f].session \in {f, Explicit}

OpsTyped ==
  /\ op \in [Fibers -> Operations]
  /\ \A f \in Fibers : WellFormed(f) /\ (op[f].pc # "idle" => Executing(f))

CallsTyped ==
  /\ fate \in [Fibers -> Seq(Calls)]
  /\ wire \subseteq Messages
  /\ \A m \in wire : Carries(m)

\* The types, variable by variable.
LEMMA TypedParts == Typed <=> EnvTyped /\ PoolTyped /\ OpsTyped /\ CallsTyped
  BY DEF Typed, TypeOK, ShapesOK, EnvTyped, PoolTyped, OpsTyped, CallsTyped, Executing

LEMMA TypedNext ==
  ASSUME EnvTyped', PoolTyped', OpsTyped', CallsTyped'
  PROVE  Typed'
  BY DEF Typed, TypeOK, ShapesOK, EnvTyped, PoolTyped, OpsTyped, CallsTyped, Executing

\* What a scenario's record has.
LEMMA SceneFields ==
  ASSUME scene \in DOMAIN Scenarios
  PROVE  /\ Scene.writers \subseteq Fibers /\ Scene.app \in {"none", "calls", "with"}
         /\ Scene.balanced \in BOOLEAN /\ Scene.nested \in BOOLEAN
         /\ Scene.calls \in Nat /\ Scene.faults \in Nat
  BY ScenarioAssumption DEF Scene, Scenes

\* None is nothing else, and the explicit session no fiber's.
LEMMA Distinct ==
  /\ None \notin Lsids /\ None \notin Conns /\ None \notin Servers /\ None \notin Sessions
  /\ Explicit \notin Fibers /\ Owner \in Fibers /\ Explicit \in Sessions /\ Fibers \subseteq Sessions
  BY FiberAssumption DEF Sessions

\* A part of a queue.
LEMMA PartOfQueue ==
  ASSUME NEW q \in Seq(Lsids), NEW a \in Nat, NEW n \in 0 .. Len(q), a > 0
  PROVE  /\ SubSeq(q, a, n) \in Seq(Lsids)
         /\ \A i \in 1 .. Len(SubSeq(q, a, n)) :
              a + i - 1 \in 1 .. Len(q) /\ SubSeq(q, a, n)[i] = q[a + i - 1]
  <1>1. \A i \in a .. n : q[i] \in Lsids
    BY ElementOfSeq
  <1>2. /\ SubSeq(q, a, n) \in Seq(Lsids)
        /\ Len(SubSeq(q, a, n)) = IF a <= n THEN n - a + 1 ELSE 0
        /\ \A i \in 1 .. n - a + 1 : SubSeq(q, a, n)[i] = q[a + i - 1]
    BY <1>1, SubSeqProperties, LenProperties
  <1> QED
    BY <1>2, LenProperties

\* What a queue becomes with a server session in front.
LEMMA InFront ==
  ASSUME NEW q \in Seq(Lsids), NEW l \in Lsids
  PROVE  /\ <<l>> \o q \in Seq(Lsids)
         /\ Len(<<l>> \o q) = Len(q) + 1
         /\ \A i \in 1 .. Len(q) + 1 : (<<l>> \o q)[i] = IF i = 1 THEN l ELSE q[i - 1]
  <1>1. <<l>> \in Seq(Lsids) /\ Len(<<l>>) = 1 /\ <<l>>[1] = l
    OBVIOUS
  <1>2. Len(q) \in Nat
    BY LenProperties
  <1> QED
    BY <1>1, <1>2, ConcatProperties

\* A queue without duplicates.
Injective(q) == \A i, j \in DOMAIN q : q[i] = q[j] => i = j

\* l is in the queue q.
In(l, q) == \E i \in DOMAIN q : q[i] = l

\* release keeps some of the queue's front, and l in front of it unless l is
\* dirty; if l was not in the queue nothing is in it twice.
LEMMA ReturnedQueue ==
  ASSUME NEW l \in Lsids, NEW q \in Seq(Lsids), NEW r \in Returned(l, q)
  PROVE  /\ r \in Seq(Lsids)
         /\ \A x : In(x, r) => In(x, q) \/ (x = l /\ l \notin dirty)
         /\ Injective(q) /\ ~In(l, q) => Injective(r)
  <1> DEFINE Fronts == {SubSeq(q, 1, n) : n \in 0 .. Len(q)}
  <1>1. ASSUME NEW t \in Fronts
        PROVE  /\ t \in Seq(Lsids) /\ Len(t) \in Nat /\ DOMAIN t = 1 .. Len(t)
               /\ \A i \in 1 .. Len(t) : i \in DOMAIN q /\ t[i] = q[i]
    <2>1. PICK n \in 0 .. Len(q) : t = SubSeq(q, 1, n)
      OBVIOUS
    <2> QED
      BY <2>1, PartOfQueue, LenProperties
  <1>2. CASE r \in Fronts
    <2>1. \A x : In(x, r) => In(x, q)
      BY <1>1, <1>2 DEF In
    <2>2. Injective(q) => Injective(r)
      <3>1. DOMAIN r = 1 .. Len(r) /\ \A i \in 1 .. Len(r) : i \in DOMAIN q /\ r[i] = q[i]
        BY <1>1, <1>2
      <3> QED
        BY <3>1 DEF Injective
    <2>3. r \in Seq(Lsids)
      BY <1>1, <1>2
    <2> QED
      BY <2>1, <2>2, <2>3
  <1>3. CASE l \notin dirty /\ \E t \in Fronts : r = <<l>> \o t
    <2>1. PICK t \in Fronts : r = <<l>> \o t
      BY <1>3
    <2>2. /\ r \in Seq(Lsids) /\ DOMAIN r = 1 .. Len(t) + 1
          /\ \A i \in 1 .. Len(t) + 1 : r[i] = IF i = 1 THEN l ELSE t[i - 1]
      BY <1>1, <2>1, InFront, LenProperties
    <2>3. \A i \in DOMAIN r : i # 1 => i - 1 \in 1 .. Len(t) /\ i - 1 \in DOMAIN q /\ r[i] = q[i - 1]
      BY <1>1, <2>2
    <2>4. r[1] = l
      BY <1>1, <2>2
    <2>5. \A x : In(x, r) => In(x, q) \/ (x = l /\ l \notin dirty)
      BY <1>3, <2>2, <2>3, <2>4 DEF In
    <2>6. ASSUME Injective(q), ~In(l, q) PROVE Injective(r)
      <3>1. ASSUME NEW i \in DOMAIN r, NEW j \in DOMAIN r, r[i] = r[j], i # 1, j # 1
            PROVE  i = j
        <4>1. i - 1 = j - 1
          BY <2>3, <2>6, <3>1 DEF Injective
        <4>2. i \in Nat /\ j \in Nat
          BY <1>1, <2>2
        <4> QED
          BY <4>1, <4>2
      <3>2. \A i \in DOMAIN r : i # 1 => r[i] # l
        BY <2>3, <2>6 DEF In
      <3> QED
        BY <2>4, <3>1, <3>2 DEF Injective
    <2> QED
      BY <2>2, <2>5, <2>6
  <1> QED
    BY <1>2, <1>3 DEF Returned

\* What acquire does to the state of the pool.
AcquiredFrom(c, q) ==
  \/ \E i \in DOMAIN q :
       /\ held' = [held EXCEPT ![c] = q[i]]
       /\ free' = SubSeq(q, i + 1, Len(q))
       /\ UNCHANGED <<dirty, number, mongod>>
  \/ \E new \in Lsids :
       /\ Forgotten(new)
       /\ held' = [held EXCEPT ![c] = new]
       /\ dirty' = dirty \ {new}
       /\ number' = [number EXCEPT ![new] = 0]
       /\ mongod' = [mongod EXCEPT ![new] = NewRecord]
       /\ free' = <<>>

\* The new session is one that is forgotten.
LEMMA AcquireCases ==
  ASSUME NEW c, NEW q, Acquire(c, q)
  PROVE  AcquiredFrom(c, q)
  <1>1. CASE \E i \in DOMAIN q :
               /\ held' = [held EXCEPT ![c] = q[i]]
               /\ free' = SubSeq(q, i + 1, Len(q))
               /\ UNCHANGED <<dirty, number, mongod>>
    BY <1>1 DEF AcquiredFrom
  <1>2. CASE /\ \E l \in Lsids : Forgotten(l)
             /\ LET new == CHOOSE l \in Lsids : Forgotten(l) IN
                  /\ held' = [held EXCEPT ![c] = new]
                  /\ dirty' = dirty \ {new}
                  /\ number' = [number EXCEPT ![new] = 0]
                  /\ mongod' = [mongod EXCEPT ![new] = NewRecord]
             /\ free' = <<>>
    <2>1. PICK new : new = CHOOSE l \in Lsids : Forgotten(l)
      OBVIOUS
    <2>2. new \in Lsids /\ Forgotten(new)
      BY <1>2, <2>1
    <2> QED
      BY <1>2, <2>1, <2>2 DEF AcquiredFrom
  <1> QED
    BY <1>1, <1>2 DEF Acquire

LEMMA NewRecordTyped == NewRecord \in Records
  BY DEF NewRecord, Records

\* Acquiring keeps the types, gives c a server session, and takes none away.
LEMMA AcquireTyped ==
  ASSUME PoolTyped, NEW c \in Sessions, NEW q \in Seq(Lsids), Acquire(c, q)
  PROVE  /\ free' \in Seq(Lsids) /\ dirty' \subseteq Lsids
         /\ number' \in [Lsids -> Nat] /\ mongod' \in [Lsids -> Records]
         /\ held' \in [Sessions -> Lsids \cup {None}]
         /\ held'[c] \in Lsids
         /\ \A d \in Sessions : d # c => held'[d] = held[d]
  <1>0. AcquiredFrom(c, q)
    BY AcquireCases
  <1>1. ASSUME NEW i \in DOMAIN q,
               held' = [held EXCEPT ![c] = q[i]],
               free' = SubSeq(q, i + 1, Len(q)),
               UNCHANGED <<dirty, number, mongod>>
        PROVE  /\ free' \in Seq(Lsids) /\ dirty' \subseteq Lsids
               /\ number' \in [Lsids -> Nat] /\ mongod' \in [Lsids -> Records]
               /\ held' \in [Sessions -> Lsids \cup {None}]
               /\ held'[c] \in Lsids
               /\ \A d \in Sessions : d # c => held'[d] = held[d]
    <2>1. q[i] \in Lsids /\ i \in Nat /\ Len(q) \in Nat
      BY LenProperties, ElementOfSeq
    <2>2. SubSeq(q, i + 1, Len(q)) \in Seq(Lsids)
      BY <2>1, PartOfQueue
    <2> QED
      BY <1>1, <2>1, <2>2 DEF PoolTyped
  <1>2. ASSUME NEW new \in Lsids,
               held' = [held EXCEPT ![c] = new],
               dirty' = dirty \ {new},
               number' = [number EXCEPT ![new] = 0],
               mongod' = [mongod EXCEPT ![new] = NewRecord],
               free' = <<>>
        PROVE  /\ free' \in Seq(Lsids) /\ dirty' \subseteq Lsids
               /\ number' \in [Lsids -> Nat] /\ mongod' \in [Lsids -> Records]
               /\ held' \in [Sessions -> Lsids \cup {None}]
               /\ held'[c] \in Lsids
               /\ \A d \in Sessions : d # c => held'[d] = held[d]
    <2>1. free' \in Seq(Lsids)
      BY <1>2, EmptySeq
    <2>2. number' \in [Lsids -> Nat]
      BY <1>2 DEF PoolTyped
    <2>3. mongod' \in [Lsids -> Records]
      BY <1>2, NewRecordTyped DEF PoolTyped
    <2> QED
      BY <1>2, <2>1, <2>2, <2>3 DEF PoolTyped
  <1> QED
    BY <1>0, <1>1, <1>2 DEF AcquiredFrom

\* An operation that executes, by itself.
Fits(o) ==
  /\ o \in Operations /\ o.pc # "idle" /\ o.kind \in Kinds
  /\ o.reply # None => o.pc \in {"wait", "ended"}
  /\ o.conn # None => o.pc \in {"wait", "ended"}
  /\ o.pc \in {"recycle", "number"} => o.kind = "write"
  /\ o.ends => o.kind = "abort" /\ o.session = Explicit

\* No session loses its server session.
HeldKept == \A c \in Sessions : held[c] \in Lsids => held'[c] \in Lsids

ExplicitKept == Explicit \in live => Explicit \in live'

\* No call is begun, and none becomes another.
FateKept ==
  \A g \in Fibers :
    /\ Len(fate'[g]) = Len(fate[g])
    /\ \A i \in 1 .. Len(fate[g]) : fate'[g][i].kind = fate[g][i].kind

\* The operations of the fibers a step leaves alone.
LEMMA OpsOther ==
  ASSUME OpsTyped, HeldKept, NEW g \in Fibers, op'[g] = op[g], fate'[g] = fate[g],
         op[g].pc # "idle" /\ op[g].session = Explicit => Explicit \in live'
  PROVE  WellFormed(g)' /\ (op'[g].pc # "idle" => Executing(g)')
  BY DEF OpsTyped, HeldKept, WellFormed, Executing, Lsid, Kind, Serial, Explicitly

LEMMA OpsSame ==
  ASSUME OpsTyped, HeldKept, ExplicitKept, op' = op, fate' = fate
  PROVE  OpsTyped'
  <1>1. \A g \in Fibers : op[g].pc # "idle" /\ op[g].session = Explicit => Explicit \in live'
    BY DEF OpsTyped, Executing, ExplicitKept, Explicitly
  <1>2. \A g \in Fibers : WellFormed(g)' /\ (op'[g].pc # "idle" => Executing(g)')
    BY <1>1, OpsOther
  <1> QED
    BY <1>2 DEF OpsTyped

\* f goes on with the same command.
LEMMA OpsAdvance ==
  ASSUME OpsTyped, CallsTyped, HeldKept, ExplicitKept, FateKept,
         NEW f \in Fibers, op[f].pc # "idle",
         NEW o, Fits(o), op' = [op EXCEPT ![f] = o],
         o.kind = op[f].kind, o.session = op[f].session,
         \A g \in Fibers : g # f => fate'[g] = fate[g]
  PROVE  OpsTyped'
  <1>1. op' \in [Fibers -> Operations] /\ op'[f] = o
    BY DEF OpsTyped, Fits
  <1>2. \A g \in Fibers : op[g].pc # "idle" /\ op[g].session = Explicit => Explicit \in live'
    BY DEF OpsTyped, Executing, ExplicitKept, Explicitly
  <1>3. ASSUME NEW g \in Fibers, g # f
        PROVE  WellFormed(g)' /\ (op'[g].pc # "idle" => Executing(g)')
    <2>1. op'[g] = op[g]
      BY <1>3 DEF OpsTyped
    <2> QED
      BY <1>2, <1>3, <2>1, OpsOther
  <1>4. Executing(f)
    BY DEF OpsTyped
  <1>5. Executing(f)'
    BY <1>1, <1>4 DEF Executing, HeldKept, ExplicitKept, FateKept, Lsid, Kind, Serial, Explicitly, Fits
  <1>6. WellFormed(f)'
    <2>1. Serial(f) \in 1 .. Len(fate[f])
      BY <1>4, LenProperties DEF Executing, Serial, CallsTyped
    <2>2. fate'[f][Serial(f)'].kind = Kind(f)
      BY <2>1 DEF OpsTyped, WellFormed, FateKept, Serial
    <2> QED
      BY <1>1, <2>2 DEF WellFormed, Fits, Kind, Explicitly
  <1> QED
    BY <1>1, <1>3, <1>5, <1>6 DEF OpsTyped

\* f begins a command.
LEMMA OpsBegin ==
  ASSUME OpsTyped, CallsTyped, HeldKept, ExplicitKept,
         NEW f \in Fibers, op[f].pc = "idle",
         NEW o, Fits(o), op' = [op EXCEPT ![f] = o],
         o.session \in {f, Explicit}, held'[o.session] \in Lsids,
         o.session = Explicit => f = Owner /\ Explicit \in live',
         NEW k \in Calls, k.kind = o.kind,
         fate' = [fate EXCEPT ![f] = Append(@, k)]
  PROVE  OpsTyped'
  <1>1. op' \in [Fibers -> Operations] /\ op'[f] = o
    BY DEF OpsTyped, Fits
  <1>2. \A g \in Fibers : op[g].pc # "idle" /\ op[g].session = Explicit => Explicit \in live'
    BY DEF OpsTyped, Executing, ExplicitKept, Explicitly
  <1>3. ASSUME NEW g \in Fibers, g # f
        PROVE  WellFormed(g)' /\ (op'[g].pc # "idle" => Executing(g)')
    <2>1. op'[g] = op[g] /\ fate'[g] = fate[g]
      BY <1>3 DEF OpsTyped, CallsTyped
    <2> QED
      BY <1>2, <1>3, <2>1, OpsOther
  <1>4. /\ Serial(f)' = Len(fate[f]) + 1 /\ Len(fate[f]) \in Nat
        /\ fate'[f][Serial(f)'] = k
    <2>1. fate[f] \in Seq(Calls) /\ fate'[f] = Append(fate[f], k)
      BY DEF CallsTyped
    <2> QED
      BY <2>1, AppendProperties, LenProperties DEF Serial
  <1>5. Executing(f)'
    BY <1>1, <1>4, Distinct DEF Executing, Lsid, Kind, Explicitly, Fits
  <1>6. WellFormed(f)'
    BY <1>1, <1>4 DEF WellFormed, Fits, Kind, Explicitly
  <1> QED
    BY <1>1, <1>3, <1>5, <1>6 DEF OpsTyped

LEMMA IdleFits == Idle \in Operations /\ Idle.pc = "idle" /\ Idle.reply = None
                  /\ Idle.conn = None /\ ~Idle.ends /\ Idle.kind = "none"
  BY DEF Idle, Operations, Replies

\* f's command is over.
LEMMA OpsEnd ==
  ASSUME OpsTyped, HeldKept, NEW f \in Fibers, op' = [op EXCEPT ![f] = Idle],
         \A g \in Fibers : g # f => fate'[g] = fate[g],
         ExplicitKept \/ (op[f].pc # "idle" /\ op[f].session = Explicit)
  PROVE  OpsTyped'
  <1>1. op' \in [Fibers -> Operations] /\ op'[f] = Idle
    BY IdleFits DEF OpsTyped
  <1>2. \A g \in Fibers : g # f /\ op[g].pc # "idle" /\ op[g].session = Explicit => Explicit \in live'
    BY DEF OpsTyped, Executing, ExplicitKept, Explicitly
  <1>3. ASSUME NEW g \in Fibers, g # f
        PROVE  WellFormed(g)' /\ (op'[g].pc # "idle" => Executing(g)')
    <2>1. op'[g] = op[g]
      BY <1>3 DEF OpsTyped
    <2> QED
      BY <1>2, <1>3, <2>1, OpsOther
  <1>4. WellFormed(f)' /\ (op'[f].pc # "idle" => Executing(f)')
    BY <1>1, IdleFits DEF WellFormed
  <1> QED
    BY <1>1, <1>3, <1>4 DEF OpsTyped

LEMMA CallsSame ==
  ASSUME CallsTyped, fate' = fate, wire' \subseteq wire
  PROVE  CallsTyped'
  BY DEF CallsTyped, Carries

LEMMA CallsBegin ==
  ASSUME CallsTyped, NEW f \in Fibers, NEW k \in Calls,
         fate' = [fate EXCEPT ![f] = Append(@, k)], wire' = wire
  PROVE  CallsTyped'
  <1>1. fate[f] \in Seq(Calls) /\ fate'[f] = Append(fate[f], k)
    BY DEF CallsTyped
  <1>2. /\ fate'[f] \in Seq(Calls) /\ Len(fate'[f]) = Len(fate[f]) + 1
        /\ Len(fate[f]) \in Nat
        /\ \A i \in 1 .. Len(fate[f]) : fate'[f][i] = fate[f][i]
    BY <1>1, AppendProperties, LenProperties
  <1>3. fate' \in [Fibers -> Seq(Calls)]
    BY <1>2 DEF CallsTyped
  <1>4. ASSUME NEW m \in wire PROVE Carries(m)'
    <2>1. m.fiber \in Fibers /\ Carries(m)
      BY DEF CallsTyped, Messages
    <2>2. CASE m.fiber = f
      BY <1>2, <2>1, <2>2 DEF Carries
    <2>3. CASE m.fiber # f
      BY <2>1, <2>3 DEF Carries, CallsTyped
    <2> QED
      BY <2>2, <2>3
  <1> QED
    BY <1>3, <1>4 DEF CallsTyped

\* One call's record changes, but not its kind.
LEMMA CallsChange ==
  ASSUME CallsTyped, NEW f \in Fibers, NEW i \in 1 .. Len(fate[f]),
         NEW k \in Calls, k.kind = fate[f][i].kind,
         fate' = [fate EXCEPT ![f] = [@ EXCEPT ![i] = k]], wire' \subseteq wire
  PROVE  /\ CallsTyped' /\ FateKept
         /\ \A g \in Fibers : g # f => fate'[g] = fate[g]
         /\ fate'[f][i] = k
         /\ \A j \in 1 .. Len(fate[f]) : j # i => fate'[f][j] = fate[f][j]
  <1>1. PICK s : s = [fate[f] EXCEPT ![i] = k]
    OBVIOUS
  <1>2. fate[f] \in Seq(Calls)
    BY DEF CallsTyped
  <1>3. /\ s \in Seq(Calls) /\ Len(s) = Len(fate[f])
        /\ \A j \in 1 .. Len(fate[f]) : s[j] = IF j = i THEN k ELSE fate[f][j]
    BY <1>1, <1>2, ExceptSeq
  <1>4. fate' = [fate EXCEPT ![f] = s]
    BY <1>1
  <1>5. /\ fate' \in [Fibers -> Seq(Calls)] /\ fate'[f] = s
        /\ \A g \in Fibers : g # f => fate'[g] = fate[g]
    BY <1>3, <1>4 DEF CallsTyped
  <1>6. FateKept
    BY <1>3, <1>5 DEF FateKept
  <1>7. ASSUME NEW m \in wire' PROVE Carries(m)'
    <2>1. m.fiber \in Fibers /\ Carries(m)
      BY DEF CallsTyped, Messages
    <2>2. Len(fate'[m.fiber]) = Len(fate[m.fiber])
      BY <2>1, <1>6 DEF FateKept
    <2>3. fate'[m.fiber][m.serial].kind = fate[m.fiber][m.serial].kind
      BY <2>1, <1>6 DEF FateKept, Carries
    <2> QED
      BY <2>1, <2>2, <2>3 DEF Carries
  <1> QED
    BY <1>3, <1>5, <1>6, <1>7 DEF CallsTyped

LEMMA NewCallTyped ==
  ASSUME NEW kind \in Kinds
  PROVE  /\ NewCall(kind) \in Calls /\ NewCall(kind).kind = kind
         /\ [NewCall(kind) EXCEPT !.done = TRUE] \in Calls
         /\ [NewCall(kind) EXCEPT !.done = TRUE].kind = kind
         /\ NewCall(kind).applied = 0 /\ NewCall(kind).done = FALSE
  BY DEF NewCall, Calls

\* A record of a transaction is one after what its command and its settling do to it.
LEMMA UnpinnedTyped ==
  ASSUME NEW t \in TransactionRecords
  PROVE  Unpinned(t) \in TransactionRecords /\ Unpinned(t).conn = None
  BY DEF Unpinned, TransactionRecords

LEMMA TellsTyped ==
  ASSUME NEW t \in TransactionRecords,
         NEW outcome \in {"committed", "failed", "unknown", "aborted", "empty"}
  PROVE  Tells(t, outcome) \in TransactionRecords /\ Tells(t, outcome).conn = t.conn
  BY DEF Tells, TransactionRecords

LEMMA AfterStatementTyped ==
  ASSUME NEW t \in TransactionRecords, NEW state \in States, NEW acked \in Nat,
         NEW spoiled \in BOOLEAN,
         NEW u, u = [t EXCEPT !.state = state, !.acked = acked, !.spoiled = spoiled]
  PROVE  u \in TransactionRecords
  BY DEF TransactionRecords

LEMMA SettledTyped ==
  ASSUME NEW t \in TransactionRecords, NEW kind \in Kinds, NEW r \in Replies
  PROVE  Settled(t, kind, r) \in TransactionRecords /\ Settled(t, kind, r).conn = t.conn
  <1> DEFINE done == [t EXCEPT !.from = None]
             back == IF r # "ok" /\ Restores(r) /\ t.from # None THEN t.from ELSE t.state
             told == CASE r = "ok" -> "committed"
                       [] r = "noTransaction" -> "failed"
                       [] OTHER -> "unknown"
  <1>1. done \in TransactionRecords /\ done.conn = t.conn /\ back \in States
    BY DEF TransactionRecords
  <1>2. told \in {"committed", "failed", "unknown"}
    OBVIOUS
  <1>3. CASE kind = "write"
    BY <1>1, <1>3 DEF Settled, TransactionRecords
  <1>4. CASE kind = "statement"
    <2>1. PICK acked \in Nat : acked = IF r = "ok" THEN done.acked + 1 ELSE done.acked
      BY <1>1 DEF TransactionRecords
    <2>2. PICK spoiled \in BOOLEAN : spoiled = (done.spoiled \/ Transient(kind, r))
      BY ZenonT(20)
    <2>3. Settled(t, kind, r) = [done EXCEPT !.state = back, !.acked = acked, !.spoiled = spoiled]
      BY <1>4, <2>1, <2>2 DEF Settled
    <2> QED
      <3>1. PICK d \in TransactionRecords : d = done
        BY <1>1
      <3>2. PICK b \in States : b = back
        BY <1>1
      <3>3. PICK u : u = Settled(t, kind, r)
        OBVIOUS
      <3>5. u = [d EXCEPT !.state = b, !.acked = acked, !.spoiled = spoiled]
        BY <2>3, <3>1, <3>2, <3>3
      <3>4. d.conn = t.conn
        BY <1>1, <3>1
      <3> HIDE DEF back, done
      <3> QED
        <4>1. u \in TransactionRecords
          BY <3>5, AfterStatementTyped
        <4>2. u.conn = d.conn
          BY <3>5 DEF TransactionRecords
        <4> QED
          BY <3>3, <3>4, <4>1, <4>2
  <1>5. CASE kind = "commit"
    <2>1. [done EXCEPT !.empty = @ /\ r # "ok"] \in TransactionRecords
      BY <1>1 DEF TransactionRecords
    <2> QED
      <3>1. PICK d \in TransactionRecords : d = [done EXCEPT !.empty = @ /\ r # "ok"]
        BY <2>1
      <3>2. d.conn = t.conn
        BY <1>1, <3>1 DEF TransactionRecords
      <3>3. Settled(t, kind, r) = Tells(d, told)
        BY <1>5, <3>1 DEF Settled
      <3> QED
        BY <1>2, <3>2, <3>3, TellsTyped
  <1>6. CASE kind = "abort"
    BY <1>1, <1>6, TellsTyped DEF Settled
  <1> QED
    BY <1>3, <1>4, <1>5, <1>6 DEF Kinds

LEMMA ContinuesTyped ==
  ASSUME EnvTyped, NEW kind \in Kinds, NEW r \in Replies, NEW c \in Continues(kind, r)
  PROVE  c \in [step : Steps, again : BOOLEAN]
  <1> DEFINE Good == [step : Steps, again : BOOLEAN]
  <1>1. call \in Good
    BY DEF EnvTyped
  <1>2. \A step \in Steps : Goes(step) \in Good
    BY DEF Goes
  <1>3. Goes("raised") \in Good /\ Goes("start") \in Good
        /\ Goes("commit") \in Good /\ Goes("returned") \in Good
    BY <1>2 DEF Steps
  <1>4. PICK transient \in BOOLEAN : transient = Transient(kind, r)
    BY DEF Transient
  <1>5. [step |-> "abort", again |-> transient] \in Good
    BY DEF Steps
  <1>6. CASE c = call
    BY <1>1, <1>6
  <1>7. CASE c # call /\ kind = "statement"
    BY <1>4, <1>5, <1>7 DEF Continues, AfterStatement
  <1>8. CASE c # call /\ kind = "commit"
    <2>1. c \in AfterCommit(r)
      BY <1>8 DEF Continues
    <2> QED
      BY <1>3, <2>1 DEF AfterCommit
  <1>9. CASE c # call /\ kind = "abort"
    <2>1. c = Goes("raised") \/ c = Goes("start")
      BY <1>9 DEF Continues
    <2> QED
      BY <1>3, <2>1
  <1>10. CASE c # call /\ kind = "write"
    BY <1>10 DEF Continues
  <1> QED
    BY <1>6, <1>7, <1>8, <1>9, <1>10 DEF Kinds

-----------------------------------------------------------------------------
(* Every step keeps the types *)

\* The pool's variables after an acquire of c, for whoever is live then.
LEMMA PoolAcquired ==
  ASSUME PoolTyped, NEW c \in Sessions, NEW q \in Seq(Lsids), Acquire(c, q),
         live' \in {live, live \cup {c}}
  PROVE  PoolTyped' /\ HeldKept /\ ExplicitKept /\ held'[c] \in Lsids
  <1>1. /\ free' \in Seq(Lsids) /\ dirty' \subseteq Lsids
        /\ number' \in [Lsids -> Nat] /\ mongod' \in [Lsids -> Records]
        /\ held' \in [Sessions -> Lsids \cup {None}]
        /\ held'[c] \in Lsids
        /\ \A d \in Sessions : d # c => held'[d] = held[d]
    BY AcquireTyped
  <1>2. IsFiniteSet(live')
    <2>1. IsFiniteSet(live \cup {c})
      BY FS_AddElement DEF PoolTyped
    <2> QED
      BY <2>1 DEF PoolTyped
  <1>3. live \subseteq live' /\ live' \subseteq live \cup {c} /\ live' \subseteq Sessions
    BY DEF PoolTyped
  <1> QED
    BY <1>1, <1>2, <1>3 DEF PoolTyped, HeldKept, ExplicitKept

LEMMA ExchangeTyped ==
  ASSUME PoolTyped, NEW f \in Fibers, f \in live, Exchange(f), live' = live
  PROVE  PoolTyped' /\ HeldKept /\ ExplicitKept
  <1>1. held[f] \in Lsids /\ free \in Seq(Lsids) /\ f \in Sessions
    BY DEF PoolTyped
  <1>2. PICK q \in Returned(held[f], free) : Acquire(f, q)
    BY DEF Exchange
  <1>3. q \in Seq(Lsids)
    BY <1>1, <1>2, ReturnedQueue
  <1> QED
    BY <1>1, <1>2, <1>3, PoolAcquired

LEMMA PoolSame ==
  ASSUME PoolTyped, UNCHANGED <<free, dirty, number, mongod, held, live>>
  PROVE  PoolTyped' /\ HeldKept /\ ExplicitKept
  BY DEF PoolTyped, HeldKept, ExplicitKept

LEMMA HeldSame ==
  ASSUME UNCHANGED <<held, live>>
  PROVE  HeldKept /\ ExplicitKept
  BY DEF HeldKept, ExplicitKept

LEMMA FateSame ==
  ASSUME fate' = fate
  PROVE  FateKept
  BY DEF FateKept

LEMMA EnvSame ==
  ASSUME EnvTyped, UNCHANGED <<scene, poolOpen, txn, call, out, closer, commits>>,
         faults' \in Nat
  PROVE  EnvTyped'
  BY DEF EnvTyped

\* Begin as the lemmas on operations and calls take it.
LEMMA BeginTyped ==
  ASSUME OpsTyped, CallsTyped, HeldKept, ExplicitKept,
         NEW f \in Fibers, op[f].pc = "idle", NEW kind \in Kinds, NEW session \in Sessions,
         NEW pc \in {"recycle", "number", "send"}, pc # "send" => kind = "write",
         Begin(f, kind, session, pc),
         session \in {f, Explicit}, held'[session] \in Lsids,
         session = Explicit => f = Owner /\ Explicit \in live',
         wire' = wire
  PROVE  OpsTyped' /\ CallsTyped'
  <1>1. PICK o : o = [Idle EXCEPT !.kind = kind, !.session = session, !.pc = pc]
    OBVIOUS
  <1>2. Fits(o) /\ o.session = session /\ o.kind = kind
    BY <1>1, Distinct DEF Idle, Fits, Operations, Replies, Kinds
  <1>3. PICK k \in Calls : k = NewCall(kind) /\ k.kind = kind
    BY NewCallTyped
  <1>4. op' = [op EXCEPT ![f] = o] /\ fate' = [fate EXCEPT ![f] = Append(@, k)]
    BY <1>1, <1>3 DEF Begin
  <1>5. OpsTyped'
    BY <1>2, <1>3, <1>4, OpsBegin
  <1>6. CallsTyped'
    BY <1>3, <1>4, CallsBegin
  <1> QED
    BY <1>5, <1>6

LEMMA LookupTyped ==
  ASSUME Typed, NEW f \in Fibers, Lookup(f)
  PROVE  Typed'
  <1>0. EnvTyped /\ PoolTyped /\ OpsTyped /\ CallsTyped
    BY TypedParts
  <1> USE <1>0
  <1>1. /\ op[f].pc = "idle" /\ f \in Sessions /\ f # Explicit /\ wire' = wire
        /\ UNCHANGED <<scene, poolOpen, txn, call, out, closer, commits, faults>>
    BY Distinct DEF Lookup, Callable, poolVars
  <1>2. EnvTyped'
    BY <1>1, EnvSame DEF EnvTyped
  <1>3. CASE f \in live
    <2>1. PICK pc \in {"recycle", "number"} : Begin(f, "write", f, pc)
      BY <1>3 DEF Lookup
    <2>2. PoolTyped' /\ HeldKept /\ ExplicitKept /\ held'[f] \in Lsids
      BY <1>3, PoolSame DEF Lookup, poolVars, PoolTyped
    <2>3. OpsTyped' /\ CallsTyped'
      BY <1>1, <2>1, <2>2, BeginTyped DEF Kinds
    <2> QED
      BY <1>2, <2>2, <2>3, TypedNext
  <1>4. CASE f \notin live
    <2>1. Begin(f, "write", f, "number") /\ Acquire(f, free) /\ live' = live \cup {f}
      BY <1>4 DEF Lookup
    <2>2. PoolTyped' /\ HeldKept /\ ExplicitKept /\ held'[f] \in Lsids
      <3>1. free \in Seq(Lsids)
        BY DEF PoolTyped
      <3> QED
        BY <1>1, <2>1, <3>1, PoolAcquired
    <2>3. OpsTyped' /\ CallsTyped'
      BY <1>1, <2>1, <2>2, BeginTyped DEF Kinds
    <2> QED
      BY <1>2, <2>2, <2>3, TypedNext
  <1> QED
    BY <1>3, <1>4

\* What an operation becomes when some of its fields are set.
LEMMA RecycledFits ==
  ASSUME NEW o, Fits(o), o.reply = None, o.conn = None, o.kind = "write",
         NEW r, r = [o EXCEPT !.pc = "number"]
  PROVE  Fits(r) /\ r.kind = o.kind /\ r.session = o.session
  BY DEF Fits, Operations

LEMMA FiberFits ==
  ASSUME OpsTyped, NEW f \in Fibers, op[f].pc # "idle"
  PROVE  Fits(op[f])
  BY DEF OpsTyped, WellFormed, Executing, Fits, Kind, Explicitly

LEMMA RecycleTyped ==
  ASSUME Typed, NEW f \in Fibers, Recycle(f)
  PROVE  Typed'
  <1>0. EnvTyped /\ PoolTyped /\ OpsTyped /\ CallsTyped
    BY TypedParts
  <1> USE <1>0
  <1>1. /\ op[f].pc = "recycle" /\ wire' = wire /\ fate' = fate /\ live' = live
        /\ UNCHANGED <<scene, poolOpen, txn, call, out, closer, commits, faults>>
    BY DEF Recycle
  <1>2. EnvTyped'
    BY <1>1, EnvSame DEF EnvTyped
  <1>3. PoolTyped' /\ HeldKept /\ ExplicitKept
    <2>1. CASE f \in live /\ Exchange(f)
      BY <1>1, <2>1, ExchangeTyped
    <2>2. CASE UNCHANGED <<free, held, dirty, number, mongod>>
      BY <1>1, <2>2, PoolSame
    <2> QED
      BY <2>1, <2>2 DEF Recycle
  <1>4. CallsTyped'
    BY <1>1, CallsSame
  <1>5. OpsTyped'
    <2>1. CASE op' = [op EXCEPT ![f] = Idle]
      BY <1>1, <1>3, <2>1, OpsEnd
    <2>2. CASE op' = [op EXCEPT ![f] = [@ EXCEPT !.pc = "number"]]
      <3>1. PICK o : o = [op[f] EXCEPT !.pc = "number"]
        OBVIOUS
      <3>2. Fits(op[f]) /\ op[f].reply = None /\ op[f].conn = None /\ op[f].kind = "write"
        BY <1>1, FiberFits DEF Fits
      <3>3. Fits(o) /\ o.kind = op[f].kind /\ o.session = op[f].session
        BY <3>1, <3>2, RecycledFits
      <3>4. op' = [op EXCEPT ![f] = o]
        BY <2>2, <3>1
      <3> QED
        BY <1>1, <1>3, <3>3, <3>4, OpsAdvance, FateSame
    <2> QED
      BY <2>1, <2>2 DEF Recycle
  <1> QED
    BY <1>2, <1>3, <1>4, <1>5, TypedNext

LEMMA TakeNumberTyped ==
  ASSUME Typed, NEW f \in Fibers, TakeNumber(f)
  PROVE  Typed'
  <1>0. EnvTyped /\ PoolTyped /\ OpsTyped /\ CallsTyped
    BY TypedParts
  <1> USE <1>0
  <1>1. /\ op[f].pc = "number" /\ wire' = wire /\ fate' = fate /\ mongod' = mongod
        /\ UNCHANGED <<free, dirty, held, live>>
        /\ UNCHANGED <<scene, poolOpen, txn, call, out, closer, commits>>
    BY DEF TakeNumber, poolVars, serverVars
  <1>2. EnvTyped'
    BY <1>1, EnvSame DEF EnvTyped, TakeNumber
  <1>3. Lsid(f) \in Lsids
    BY <1>1 DEF OpsTyped, Executing
  <1>4. number' \in [Lsids -> Nat]
    BY <1>3 DEF TakeNumber, PoolTyped
  <1>5. PoolTyped' /\ HeldKept /\ ExplicitKept
    BY <1>1, <1>4, HeldSame DEF PoolTyped
  <1>6. CallsTyped'
    BY <1>1, CallsSame
  <1>7. Fits(op[f]) /\ op[f].reply = None /\ op[f].conn = None
    BY <1>1, FiberFits DEF Fits
  <1>8. OpsTyped'
    <2>1. PICK o : /\ o \in {[op[f] EXCEPT !.pc = "send"],
                             [op[f] EXCEPT !.pc = "ended", !.reply = "unselected"]}
                   /\ op' = [op EXCEPT ![f] = o]
      BY DEF TakeNumber
    <2>2. Fits(o) /\ o.kind = op[f].kind /\ o.session = op[f].session
      BY <1>7, <2>1 DEF Fits, Operations, Replies, Failures
    <2> QED
      BY <1>1, <1>5, <2>1, <2>2, OpsAdvance, FateSame
  <1> QED
    BY <1>2, <1>5, <1>6, <1>8, TypedNext

LEMMA NestedTyped ==
  ASSUME Typed, NEW f \in Fibers, NestedCommand(f)
  PROVE  Typed'
  <1>0. EnvTyped /\ PoolTyped /\ OpsTyped /\ CallsTyped
    BY TypedParts
  <1> USE <1>0
  <1>1. /\ op' = op /\ wire' = wire /\ fate' = fate /\ live' = live /\ faults' = faults
        /\ f \in live /\ Exchange(f)
        /\ UNCHANGED <<scene, poolOpen, txn, call, out, closer, commits>>
    BY DEF NestedCommand
  <1>2. EnvTyped'
    BY <1>1, EnvSame DEF EnvTyped
  <1>3. PoolTyped' /\ HeldKept /\ ExplicitKept
    BY <1>1, ExchangeTyped
  <1>4. OpsTyped' /\ CallsTyped'
    BY <1>1, <1>3, OpsSame, CallsSame
  <1> QED
    BY <1>2, <1>3, <1>4, TypedNext

LEMMA DropDeadPinTyped ==
  ASSUME Typed, NEW f \in Fibers, DropDeadPin(f)
  PROVE  Typed'
  <1>0. EnvTyped /\ PoolTyped /\ OpsTyped /\ CallsTyped
    BY TypedParts
  <1> USE <1>0
  <1>1. /\ op' = op /\ wire' = wire /\ fate' = fate
        /\ UNCHANGED <<free, dirty, number, mongod, held, live>>
        /\ UNCHANGED <<scene, poolOpen, call, closer, commits>>
    BY DEF DropDeadPin, poolVars, serverVars
  <1>2. txn' \in TransactionRecords
    BY DEF DropDeadPin, EnvTyped, TransactionRecords
  <1>3. EnvTyped'
    BY <1>1, <1>2 DEF EnvTyped, DropDeadPin
  <1>4. PoolTyped' /\ OpsTyped' /\ CallsTyped'
    BY <1>1, PoolSame, OpsSame, CallsSame
  <1> QED
    BY <1>3, <1>4, TypedNext

\* A route is a router or a connection, whichever the deployment has.
LEMMA RouteTyped ==
  ASSUME EnvTyped, NEW f \in Fibers, NEW route \in Routes(f)
  PROVE  IF Scene.balanced THEN route \in Conns ELSE route \in Servers
  BY DEF Routes, EnvTyped, TransactionRecords

LEMMA MessageTyped ==
  ASSUME Typed, NEW f \in Fibers, op[f].pc # "idle", NEW route \in Routes(f),
         NEW m, m = Message(f, route)
  PROVE  /\ m \in Messages /\ Carries(m) /\ m.lsid = Lsid(f) /\ m.number = number[Lsid(f)]
         /\ m.kind = Kind(f) /\ m.fiber = f /\ m.serial = Serial(f)
  <1>0. EnvTyped /\ PoolTyped /\ OpsTyped /\ CallsTyped
    BY TypedParts
  <1>1. PICK first \in BOOLEAN :
          first = (InTransaction(f) /\ (txn.from = "starting" \/ txn.begins))
    BY ZenonT(20)
  <1>2. PICK server \in Servers \cup Conns \cup {None} :
          server = IF InTransaction(f) THEN route ELSE None
    BY <1>0, RouteTyped
  <1>3. m = [lsid |-> Lsid(f), number |-> number[Lsid(f)], kind |-> Kind(f), first |-> first,
             server |-> server, fiber |-> f, serial |-> Serial(f), attempt |-> op[f].attempt]
    BY <1>1, <1>2 DEF Message
  <1>4. Executing(f) /\ WellFormed(f) /\ op[f] \in Operations
    BY <1>0 DEF OpsTyped
  <1>5. Serial(f) \in Nat /\ Serial(f) \in 1 .. Len(fate[f])
    BY <1>0, <1>4, LenProperties DEF CallsTyped, Serial, Executing
  <1>6. number[Lsid(f)] \in Nat /\ op[f].attempt \in Nat
    BY <1>0, <1>4 DEF PoolTyped, Executing, Operations
  <1>7. m \in Messages
    BY <1>3, <1>4, <1>5, <1>6 DEF Messages, Executing
  <1>8. Carries(m)
    BY <1>3, <1>4, <1>5 DEF Carries, WellFormed
  <1> QED
    BY <1>3, <1>7, <1>8

LEMMA SendTyped ==
  ASSUME Typed, NEW f \in Fibers, Send(f)
  PROVE  Typed'
  <1>0. EnvTyped /\ PoolTyped /\ OpsTyped /\ CallsTyped
    BY TypedParts
  <1> USE <1>0
  <1> DEFINE pins == InTransaction(f) /\ Running(txn.state)
             owns(route) == Scene.balanced /\ ~(Explicitly(f) /\ txn.conn = route) /\ ~pins
  <1>1. /\ op[f].pc = "send" /\ fate' = fate
        /\ UNCHANGED <<free, dirty, number, mongod, held, live>>
        /\ UNCHANGED <<scene, poolOpen, call, closer, commits, faults>>
    BY DEF Send, poolVars
  <1>2. PICK route \in Routes(f) :
          /\ wire' = wire \cup {Message(f, route)}
          /\ op' = [op EXCEPT ![f] = [@ EXCEPT !.pc = "wait",
                                               !.conn = IF owns(route) THEN route ELSE None]]
          /\ out' = IF Scene.balanced THEN out \cup {route} ELSE out
          /\ txn' = [txn EXCEPT !.pin = IF pins /\ ~Scene.balanced THEN route ELSE @,
                                !.conn = IF pins /\ Scene.balanced THEN route ELSE @,
                                !.begins = @ /\ ~InTransaction(f)]
    BY DEF Send
  <1>3. IF Scene.balanced THEN route \in Conns ELSE route \in Servers
    BY RouteTyped
  <1>4. txn' \in TransactionRecords
    <2>1. PICK pin \in Servers \cup {None} : pin = IF pins /\ ~Scene.balanced THEN route ELSE txn.pin
      BY <1>3 DEF EnvTyped, TransactionRecords
    <2>2. PICK conn \in Conns \cup {None} : conn = IF pins /\ Scene.balanced THEN route ELSE txn.conn
      BY <1>3 DEF EnvTyped, TransactionRecords
    <2>3. PICK begins \in BOOLEAN : begins = (txn.begins /\ ~InTransaction(f))
      BY ZenonT(20)
    <2>4. txn' = [txn EXCEPT !.pin = pin, !.conn = conn, !.begins = begins]
      BY <1>2, <2>1, <2>2, <2>3
    <2> QED
      BY <2>4 DEF EnvTyped, TransactionRecords
  <1>5. EnvTyped'
    BY <1>1, <1>2, <1>3, <1>4 DEF EnvTyped
  <1>6. PoolTyped' /\ HeldKept /\ ExplicitKept
    BY <1>1, PoolSame
  <1>7. OpsTyped'
    <2>1. PICK conn \in Conns \cup {None} : conn = IF owns(route) THEN route ELSE None
      BY <1>3
    <2>2. PICK o : o = [op[f] EXCEPT !.pc = "wait", !.conn = conn]
      OBVIOUS
    <2>3. op' = [op EXCEPT ![f] = o]
      BY <1>2, <2>1, <2>2
    <2>4. Fits(op[f])
      BY <1>1, FiberFits
    <2>5. Fits(o) /\ o.kind = op[f].kind /\ o.session = op[f].session
      BY <2>2, <2>4 DEF Fits, Operations
    <2> QED
      BY <1>1, <1>6, <2>3, <2>5, OpsAdvance, FateSame
  <1>8. CallsTyped'
    <2>1. PICK m : m = Message(f, route)
      OBVIOUS
    <2>2. m \in Messages /\ Carries(m)
      BY <1>1, <2>1, MessageTyped
    <2>3. wire' = wire \cup {m}
      BY <1>2, <2>1
    <2> QED
      BY <1>1, <2>2, <2>3 DEF CallsTyped, Carries
  <1> QED
    BY <1>5, <1>6, <1>7, <1>8, TypedNext

LEMMA NotSentTyped ==
  ASSUME Typed, NEW f \in Fibers, NotSent(f)
  PROVE  Typed'
  <1>0. EnvTyped /\ PoolTyped /\ OpsTyped /\ CallsTyped
    BY TypedParts
  <1> USE <1>0
  <1>1. /\ op[f].pc = "send" /\ wire' = wire /\ fate' = fate
        /\ UNCHANGED <<free, dirty, number, mongod, held, live>>
        /\ UNCHANGED <<scene, poolOpen, txn, call, out, closer, commits>>
    BY DEF NotSent, poolVars, serverVars
  <1>2. EnvTyped'
    BY <1>1, EnvSame DEF EnvTyped, NotSent
  <1>3. PoolTyped' /\ HeldKept /\ ExplicitKept /\ CallsTyped'
    BY <1>1, PoolSame, CallsSame
  <1>4. OpsTyped'
    <2>1. PICK failure \in {"unselected", "cleared"} :
            op' = [op EXCEPT ![f] = [@ EXCEPT !.pc = "ended", !.reply = failure]]
      BY DEF NotSent
    <2>2. PICK o : o = [op[f] EXCEPT !.pc = "ended", !.reply = failure]
      OBVIOUS
    <2>3. Fits(op[f])
      BY <1>1, FiberFits
    <2>4. Fits(o) /\ o.kind = op[f].kind /\ o.session = op[f].session
      BY <2>2, <2>3 DEF Fits, Operations, Replies, Failures
    <2> QED
      BY <1>1, <1>3, <2>1, <2>2, <2>4, OpsAdvance, FateSame
  <1> QED
    BY <1>2, <1>3, <1>4, TypedNext

LEMMA NetworkErrorTyped ==
  ASSUME Typed, NEW f \in Fibers, NetworkError(f)
  PROVE  Typed'
  <1>0. EnvTyped /\ PoolTyped /\ OpsTyped /\ CallsTyped
    BY TypedParts
  <1> USE <1>0
  <1>1. /\ op[f].pc = "wait" /\ wire' \subseteq wire /\ fate' = fate
        /\ dirty' = dirty \cup {Lsid(f)}
        /\ UNCHANGED <<free, number, mongod, held, live>>
        /\ UNCHANGED <<scene, poolOpen, txn, call, out, closer, commits>>
    BY DEF NetworkError
  <1>2. EnvTyped'
    BY <1>1, EnvSame DEF EnvTyped, NetworkError
  <1>3. Lsid(f) \in Lsids
    BY <1>1 DEF OpsTyped, Executing
  <1>4. PoolTyped' /\ HeldKept /\ ExplicitKept /\ CallsTyped'
    BY <1>1, <1>3, HeldSame, CallsSame DEF PoolTyped
  <1>5. OpsTyped'
    <2>1. PICK o : o = [op[f] EXCEPT !.pc = "ended", !.reply = "network"]
      OBVIOUS
    <2>2. op' = [op EXCEPT ![f] = o]
      BY <2>1 DEF NetworkError
    <2>3. Fits(op[f])
      BY <1>1, FiberFits
    <2>4. Fits(o) /\ o.kind = op[f].kind /\ o.session = op[f].session
      BY <2>1, <2>3 DEF Fits, Operations, Replies, Failures
    <2> QED
      BY <1>1, <1>4, <2>2, <2>4, OpsAdvance, FateSame
  <1> QED
    BY <1>2, <1>4, <1>5, TypedNext

\* An attempt that ended belongs to a command that executes.
LEMMA RepliedExecutes ==
  ASSUME OpsTyped, NEW f \in Fibers, op[f].reply # None
  PROVE  op[f].pc \in {"wait", "ended"} /\ Executing(f) /\ Fits(op[f])
  <1>1. op[f].pc \in {"wait", "ended"}
    BY DEF OpsTyped, WellFormed
  <1> QED
    BY <1>1, FiberFits DEF OpsTyped

LEMMA UnpinnedOrNot ==
  ASSUME EnvTyped, NEW f \in Fibers,
         txn' = IF Explicitly(f) /\ Unpins(f) THEN Unpinned(txn) ELSE txn
  PROVE  txn' \in TransactionRecords
  BY UnpinnedTyped DEF EnvTyped

LEMMA TriedAgainTyped ==
  ASSUME Typed, NEW f \in Fibers, TriedAgain(f)
  PROVE  Typed'
  <1>0. EnvTyped /\ PoolTyped /\ OpsTyped /\ CallsTyped
    BY TypedParts
  <1> USE <1>0
  <1>1. /\ op[f].reply # None /\ wire' = wire /\ fate' = fate
        /\ UNCHANGED <<free, dirty, number, mongod, held, live>>
        /\ UNCHANGED <<scene, poolOpen, call, closer, commits, faults>>
    BY DEF TriedAgain, poolVars, serverVars
  <1>2. txn' \in TransactionRecords
    BY UnpinnedOrNot DEF TriedAgain
  <1>3. EnvTyped'
    BY <1>1, <1>2 DEF EnvTyped, TriedAgain
  <1>4. PoolTyped' /\ HeldKept /\ ExplicitKept /\ CallsTyped'
    BY <1>1, PoolSame, CallsSame
  <1>5. op[f].pc # "idle" /\ Fits(op[f])
    BY <1>1, RepliedExecutes
  <1>6. OpsTyped'
    <2>1. PICK allowed \in Nat :
            allowed = Allowed(Kind(f), op[f].reply, op[f].allowed, MaxAdaptiveRetries)
      BY <1>5, RetryAssumption DEF Allowed, Fits, Operations
    <2>5. PICK attempt \in Nat : attempt = op[f].attempt + 1
      BY <1>5 DEF Fits, Operations
    <2>6. PICK o : o = NextAttempt(op[f])
      OBVIOUS
    <2>2. o = [op[f] EXCEPT !.pc = "send", !.reply = None, !.conn = None,
                            !.attempt = attempt, !.allowed = allowed]
      BY <2>1, <2>5, <2>6 DEF NextAttempt, Kind
    <2>3. op' = [op EXCEPT ![f] = o]
      BY <2>6 DEF TriedAgain
    <2>4. Fits(o) /\ o.kind = op[f].kind /\ o.session = op[f].session
      <3>1. /\ o.pc = "send" /\ o.reply = None /\ o.conn = None
            /\ o.kind = op[f].kind /\ o.session = op[f].session /\ o.ends = op[f].ends
        BY <1>5, <2>2 DEF Fits, Operations
      <3>2. o \in Operations
        BY <1>5, <2>2 DEF Fits, Operations, Replies
      <3> QED
        BY <1>5, <3>1, <3>2 DEF Fits
    <2> QED
      BY <1>1, <1>4, <1>5, <2>3, <2>4, OpsAdvance, FateSame
  <1> QED
    BY <1>3, <1>4, <1>6, TypedNext

LEMMA ReleaseTyped ==
  ASSUME PoolTyped, NEW l \in Lsids, Release(l)
  PROVE  free' \in Seq(Lsids)
  BY ReturnedQueue DEF Release, PoolTyped

LEMMA CommandEndsTyped ==
  ASSUME Typed, NEW f \in Fibers, CommandEnds(f)
  PROVE  Typed'
  <1>0. EnvTyped /\ PoolTyped /\ OpsTyped /\ CallsTyped
    BY TypedParts
  <1> USE <1>0
  <1>1. /\ op[f].reply # None /\ wire' = wire /\ op' = [op EXCEPT ![f] = Idle]
        /\ UNCHANGED <<scene, poolOpen, dirty, held, number, closer, mongod, commits, faults>>
    BY DEF CommandEnds
  <1>2. Executing(f) /\ op[f].pc # "idle" /\ Fits(op[f])
    BY <1>1, RepliedExecutes
  <1>3. Kind(f) \in Kinds /\ op[f].reply \in Replies
    BY <1>2 DEF Executing, Fits, Operations
  <1>4. /\ txn' \in TransactionRecords
        /\ call' \in [step : Steps, again : BOOLEAN]
    <2>1. CASE Explicitly(f)
      <3>1. txn \in TransactionRecords
        BY DEF EnvTyped
      <3>2. PICK t \in TransactionRecords : t = Settled(txn, Kind(f), op[f].reply)
        BY <1>3, <3>1, SettledTyped
      <3>3. txn' = IF Unpins(f) THEN Unpinned(t) ELSE t
        BY <2>1, <3>2 DEF CommandEnds
      <3>4. call' \in Continues(Kind(f), op[f].reply)
        BY <2>1 DEF CommandEnds
      <3> QED
        BY <1>3, <3>3, <3>4, UnpinnedTyped, ContinuesTyped
    <2>2. CASE ~Explicitly(f)
      BY <2>2 DEF CommandEnds, EnvTyped
    <2> QED
      BY <2>1, <2>2
  <1>5. EnvTyped'
    BY <1>1, <1>4 DEF EnvTyped, CommandEnds
  <1>6. /\ free' \in Seq(Lsids)
        /\ live' = live \/ (live' = live \ {Explicit} /\ Explicitly(f))
    BY <1>2, ReleaseTyped DEF CommandEnds, Executing, PoolTyped
  <1>7. PoolTyped'
    <2>1. live' \subseteq live
      BY <1>6
    <2>2. IsFiniteSet(live')
      BY <2>1, FS_Subset DEF PoolTyped
    <2> QED
      BY <1>1, <1>6, <2>1, <2>2 DEF PoolTyped
  <1>8. CallsTyped' /\ FateKept /\ \A g \in Fibers : g # f => fate'[g] = fate[g]
    <2>1. Serial(f) \in 1 .. Len(fate[f]) /\ fate[f] \in Seq(Calls)
      BY <1>2, LenProperties DEF CallsTyped, Serial, Executing
    <2>2. fate[f][Serial(f)] \in Calls
      BY <2>1, ElementOfSeq
    <2>4. PICK k : k = Reported(fate[f][Serial(f)], op[f].reply)
      OBVIOUS
    <2>5. k \in Calls /\ k.kind = fate[f][Serial(f)].kind
      BY <2>2, <2>4 DEF Calls, Reported
    <2>6. fate' = [fate EXCEPT ![f] = [@ EXCEPT ![Serial(f)] = k]]
      BY <2>4 DEF CommandEnds
    <2> QED
      BY <1>1, <2>1, <2>5, <2>6, CallsChange
  <1>9. OpsTyped'
    <2>1. HeldKept
      BY <1>1 DEF HeldKept
    <2>2. ExplicitKept \/ (op[f].pc # "idle" /\ op[f].session = Explicit)
      BY <1>2, <1>6 DEF ExplicitKept, Explicitly
    <2> QED
      BY <1>1, <1>8, <2>1, <2>2, OpsEnd
  <1> QED
    BY <1>5, <1>7, <1>8, <1>9, TypedNext

\* What the server makes of a message is a record and a reply.
Effects == [record : Records, reply : Replies]

LEMMA EffectTyped ==
  ASSUME NEW r \in Records, NEW reply \in Replies
  PROVE  Effect(r, reply) \in Effects
  BY DEF Effect, Effects

\* The records the server may keep, besides the one it has.
LEMMA RecordsTyped ==
  ASSUME NEW m \in Messages, NEW r \in Records
  PROVE  /\ [number |-> m.number, state |-> "wrote", server |-> None, statements |-> 0] \in Records
         /\ [number |-> m.number, state |-> "open", server |-> m.server,
             statements |-> 1] \in Records
         /\ [r EXCEPT !.statements = @ + 1] \in Records
         /\ [r EXCEPT !.state = "committed"] \in Records
         /\ [r EXCEPT !.state = "aborted"] \in Records
  BY DEF Records, Messages

LEMMA NormalTyped ==
  ASSUME NEW m \in Messages, NEW r \in Records
  PROVE  Normal(m, r) \subseteq Effects
  <1> DEFINE Good(x, reply) == Effect(x, reply) \in Effects
  <1>1. /\ [number |-> m.number, state |-> "wrote", server |-> None, statements |-> 0] \in Records
        /\ [number |-> m.number, state |-> "open", server |-> m.server, statements |-> 1] \in Records
        /\ [r EXCEPT !.statements = @ + 1] \in Records
        /\ [r EXCEPT !.state = "committed"] \in Records
        /\ [r EXCEPT !.state = "aborted"] \in Records
    BY RecordsTyped
  <1>2. \A x \in Records : /\ Effect(x, "ok") \in Effects
                           /\ Effect(x, "refused") \in Effects
                           /\ Effect(x, "noTransaction") \in Effects
    BY EffectTyped DEF Replies, Failures
  <1>3. OnWrite(m, r) \subseteq Effects
    BY <1>1, <1>2 DEF OnWrite
  <1>4. OnStatement(m, r) \subseteq Effects
    BY <1>1, <1>2 DEF OnStatement
  <1>5. OnCommit(m, r) \subseteq Effects
    BY <1>1, <1>2 DEF OnCommit
  <1>6. OnAbort(m, r) \subseteq Effects
    BY <1>1, <1>2 DEF OnAbort
  <1>7. m.kind \in Kinds
    BY DEF Messages
  <1> QED
    BY <1>3, <1>4, <1>5, <1>6, <1>7 DEF Normal, Kinds

LEMMA FailingTyped ==
  ASSUME NEW m \in Messages, NEW r \in Records
  PROVE  Failing(m, r) \subseteq Effects
  <1> DEFINE lost == IF m.number = r.number /\ r.state = "open"
                     THEN [r EXCEPT !.state = "aborted"] ELSE r
             good == {e \in Normal(m, r) : e.reply = "ok"}
  <1>1. lost \in Records
    BY RecordsTyped
  <1>2. \A x \in Records : /\ Effect(x, "overload") \in Effects
                           /\ Effect(x, "retryable") \in Effects
                           /\ Effect(x, "refused") \in Effects
                           /\ Effect(x, "noTransaction") \in Effects
    BY EffectTyped DEF Replies, Failures
  <1>3. \A e \in good : /\ [e EXCEPT !.reply = "retryable"] \in Effects
                        /\ [e EXCEPT !.reply = "local"] \in Effects
    <2>1. good \subseteq Effects
      BY NormalTyped
    <2> HIDE DEF good
    <2> QED
      BY <2>1 DEF Effects, Replies, Failures
  <1> HIDE DEF lost, good
  <1>4. ASSUME NEW e \in Failing(m, r) PROVE e \in Effects
    <2>1. e \in {Effect(r, "overload")}
            \cup (IF m.kind = "statement" THEN {} ELSE {Effect(r, "retryable")})
            \cup (IF m.kind = "statement" THEN {Effect(lost, "refused")} ELSE {Effect(r, "refused")})
            \cup (IF m.kind \in {"statement", "commit"} /\ lost # r
                  THEN {Effect(lost, "noTransaction")} ELSE {})
            \cup (IF m.kind \in {"write", "commit"}
                  THEN {[x EXCEPT !.reply = "retryable"] : x \in good} ELSE {})
            \cup (IF m.kind \in {"write", "statement"}
                  THEN {[x EXCEPT !.reply = "local"] : x \in good} ELSE {})
      BY DEF Failing, lost, good
    <2> QED
      BY <1>1, <1>2, <1>3, <2>1
  <1> QED
    BY <1>4

\* One effect of a message, whichever way it came about.
LEMMA DeliveredEffect ==
  ASSUME NEW m, Deliver(m), Typed, m \in wire
  PROVE  /\ \E e \in Effects : /\ e \in Normal(m, mongod[m.lsid]) \cup Failing(m, mongod[m.lsid])
                               /\ Take(m, e)
         /\ mongod[m.lsid] \in Records /\ m \in Messages /\ Carries(m)
         /\ faults' \in Nat
  <1>1. m \in Messages /\ mongod \in [Lsids -> Records] /\ faults \in Nat /\ Carries(m)
    BY DEF Typed, TypeOK, ShapesOK
  <1>2. mongod[m.lsid] \in Records
    BY <1>1 DEF Messages
  <1>3. Normal(m, mongod[m.lsid]) \cup Failing(m, mongod[m.lsid]) \subseteq Effects
    BY <1>1, <1>2, NormalTyped, FailingTyped
  <1> QED
    BY <1>1, <1>2, <1>3 DEF Deliver

LEMMA DeliverTyped ==
  ASSUME Typed, NEW m \in wire, Deliver(m)
  PROVE  Typed' /\ FateKept
  <1>0. EnvTyped /\ PoolTyped /\ OpsTyped /\ CallsTyped
    BY TypedParts
  <1> USE <1>0
  <1>1. PICK e \in Effects : Take(m, e)
    BY DeliveredEffect
  <1>2. m \in Messages /\ Carries(m) /\ faults' \in Nat
    BY DeliveredEffect
  <1>3. e.record \in Records /\ e.reply \in Replies
    BY DEF Effects
  <1>4. /\ UNCHANGED <<free, dirty, number, held, live>>
        /\ UNCHANGED <<scene, poolOpen, txn, call, out, closer>>
    BY DEF Deliver, poolVars
  <1>5. commits' \in Nat
    <2>1. PICK more \in Nat : more = IF e.record.state = "committed"
                                        /\ mongod[m.lsid].state = "open" THEN 1 ELSE 0
      OBVIOUS
    <2> QED
      BY <1>1, <2>1 DEF Take, EnvTyped
  <1>6. EnvTyped'
    BY <1>2, <1>4, <1>5 DEF EnvTyped
  <1>7. mongod' \in [Lsids -> Records]
    BY <1>1, <1>3 DEF Take, PoolTyped
  <1>8. PoolTyped' /\ HeldKept /\ ExplicitKept
    BY <1>4, <1>7, HeldSame DEF PoolTyped
  <1>9. m.fiber \in Fibers /\ m.serial \in 1 .. Len(fate[m.fiber])
        /\ fate[m.fiber] \in Seq(Calls)
    BY <1>2 DEF Messages, Carries, CallsTyped
  <1>10. PICK k : /\ k \in {fate[m.fiber][m.serial],
                            [fate[m.fiber][m.serial] EXCEPT !.applied = @ + 1]}
                  /\ fate' = [fate EXCEPT ![m.fiber] = [@ EXCEPT ![m.serial] = k]]
    BY <1>1 DEF Take, Counted
  <1>11. k \in Calls /\ k.kind = fate[m.fiber][m.serial].kind
    <2>1. fate[m.fiber][m.serial] \in Calls
      BY <1>9, ElementOfSeq
    <2> QED
      BY <1>10, <2>1 DEF Calls
  <1>12. wire' \subseteq wire
    BY <1>1 DEF Take
  <1>13. CallsTyped' /\ FateKept /\ \A g \in Fibers : g # m.fiber => fate'[g] = fate[g]
    <2>1. PICK f \in Fibers : f = m.fiber
      BY <1>9
    <2>2. PICK i \in 1 .. Len(fate[f]) : i = m.serial
      BY <1>9, <2>1
    <2>3. fate' = [fate EXCEPT ![f] = [@ EXCEPT ![i] = k]]
      BY <1>10, <2>1, <2>2
    <2>4. k.kind = fate[f][i].kind
      BY <1>11, <2>1, <2>2
    <2>5. CallsTyped' /\ FateKept /\ \A g \in Fibers : g # f => fate'[g] = fate[g]
      BY <1>11, <1>12, <2>3, <2>4, CallsChange
    <2> QED
      BY <2>1, <2>5
  <1>14. OpsTyped'
    <2>1. CASE Awaited(m)
      <3>1. op[m.fiber].pc = "wait" /\ Fits(op[m.fiber])
        BY <1>9, <2>1, FiberFits DEF Awaited
      <3>2. PICK o : o = [op[m.fiber] EXCEPT !.reply = e.reply]
        OBVIOUS
      <3>3. op' = [op EXCEPT ![m.fiber] = o]
        BY <1>1, <2>1, <3>2 DEF Take
      <3>4. Fits(o) /\ o.kind = op[m.fiber].kind /\ o.session = op[m.fiber].session
        BY <1>3, <3>1, <3>2 DEF Fits, Operations
      <3> QED
        BY <1>8, <1>9, <1>13, <3>1, <3>3, <3>4, OpsAdvance
    <2>2. CASE ~Awaited(m)
      <3>1. op' = op
        BY <1>1, <2>2 DEF Take
      <3>2. ASSUME NEW g \in Fibers
            PROVE  WellFormed(g)' /\ (op'[g].pc # "idle" => Executing(g)')
        <4>1. fate'[g] \in Seq(Calls) /\ Len(fate'[g]) = Len(fate[g]) /\ Len(fate[g]) \in Nat
          BY <1>13, LenProperties DEF FateKept, CallsTyped
        <4>2. Executing(g) => fate'[g][Serial(g)].kind = fate[g][Serial(g)].kind
          BY <1>13, <4>1 DEF FateKept, Executing, Serial
        <4> QED
          BY <1>4, <3>1, <4>1, <4>2 DEF OpsTyped, WellFormed, Executing, Lsid, Kind, Serial, Explicitly
      <3> QED
        BY <3>1, <3>2 DEF OpsTyped
    <2> QED
      BY <2>1, <2>2
  <1> QED
    BY <1>6, <1>8, <1>13, <1>14, TypedNext

LEMMA StartSessionTyped ==
  ASSUME Typed, StartSession
  PROVE  Typed'
  <1>0. EnvTyped /\ PoolTyped /\ OpsTyped /\ CallsTyped
    BY TypedParts
  <1> USE <1>0
  <1>1. /\ Acquire(Explicit, free) /\ live' = live \cup {Explicit}
        /\ op' = op /\ fate' = fate /\ wire' = wire /\ faults' = faults
        /\ UNCHANGED <<scene, poolOpen, txn, call, out, closer, commits>>
    BY DEF StartSession
  <1>2. EnvTyped'
    BY <1>1, EnvSame DEF EnvTyped
  <1>3. PoolTyped' /\ HeldKept /\ ExplicitKept
    <2>1. free \in Seq(Lsids) /\ Explicit \in Sessions
      BY Distinct DEF PoolTyped
    <2> QED
      BY <1>1, <2>1, PoolAcquired
  <1>4. OpsTyped' /\ CallsTyped'
    BY <1>1, <1>3, OpsSame, CallsSame
  <1> QED
    BY <1>2, <1>3, <1>4, TypedNext

LEMMA StartTransactionTyped ==
  ASSUME Typed, StartTransaction
  PROVE  Typed'
  <1>0. EnvTyped /\ PoolTyped /\ OpsTyped /\ CallsTyped
    BY TypedParts
  <1> USE <1>0
  <1>1. /\ op' = op /\ fate' = fate /\ wire' = wire /\ faults' = faults /\ mongod' = mongod
        /\ UNCHANGED <<free, dirty, held, live>>
        /\ UNCHANGED <<scene, poolOpen, closer, commits>>
    BY DEF StartTransaction, poolVars, serverVars
  <1>2. Explicit \in live /\ held[Explicit] \in Lsids
    BY DEF StartTransaction, OwnerIdle, PoolTyped
  <1>3. txn' \in TransactionRecords
    BY DEF StartTransaction, TransactionRecords, NoTransaction, After, States
  <1>4. call' \in [step : Steps, again : BOOLEAN]
    BY DEF StartTransaction, EnvTyped, Steps
  <1>5. EnvTyped'
    BY <1>1, <1>3, <1>4 DEF EnvTyped, StartTransaction
  <1>6. number' \in [Lsids -> Nat]
    BY <1>2 DEF StartTransaction, PoolTyped
  <1>7. PoolTyped' /\ HeldKept /\ ExplicitKept
    BY <1>1, <1>6, HeldSame DEF PoolTyped
  <1>8. OpsTyped' /\ CallsTyped'
    BY <1>1, <1>7, OpsSame, CallsSame
  <1> QED
    BY <1>5, <1>7, <1>8, TypedNext

\* The state a statement leads to is a state.
LEMMA AfterTyped ==
  ASSUME NEW state, NEW event \in {"insert", "start", "commit", "abort"}
  PROVE  After(state, event) \in States
  BY DEF After, States

LEMMA OwnerBegins ==
  ASSUME Typed, OwnerIdle, NEW kind \in Kinds, NEW pc \in {"number", "send"},
         pc # "send" => kind = "write", Begin(Owner, kind, Explicit, pc),
         UNCHANGED <<free, dirty, number, mongod, held, live>>, wire' = wire
  PROVE  PoolTyped' /\ OpsTyped' /\ CallsTyped'
  <1>0. EnvTyped /\ PoolTyped /\ OpsTyped /\ CallsTyped
    BY TypedParts
  <1>1. PoolTyped' /\ HeldKept /\ ExplicitKept
    BY <1>0, PoolSame
  <1>2. /\ op[Owner].pc = "idle" /\ Owner \in Fibers /\ Explicit \in Sessions
        /\ held'[Explicit] \in Lsids /\ Explicit \in live'
    BY <1>0, Distinct DEF OwnerIdle, PoolTyped
  <1> QED
    BY <1>0, <1>1, <1>2, BeginTyped

LEMMA StatementTyped ==
  ASSUME Typed, Statement
  PROVE  Typed'
  <1>0. EnvTyped
    BY TypedParts
  <1>1. /\ OwnerIdle /\ Begin(Owner, "statement", Explicit, "send") /\ wire' = wire
        /\ UNCHANGED <<free, dirty, number, mongod, held, live>>
        /\ UNCHANGED <<scene, poolOpen, call, out, closer, commits, faults>>
    BY DEF Statement, poolVars
  <1>2. PoolTyped' /\ OpsTyped' /\ CallsTyped'
    BY <1>1, OwnerBegins DEF Kinds
  <1>3. txn' \in TransactionRecords
    <2>1. After(txn.state, "insert") \in States
      BY AfterTyped
    <2> QED
      BY <1>0, <2>1 DEF Statement, EnvTyped, TransactionRecords
  <1>4. EnvTyped'
    BY <1>0, <1>1, <1>3 DEF EnvTyped
  <1> QED
    BY <1>2, <1>4, TypedNext

LEMMA PlainWriteTyped ==
  ASSUME Typed, PlainWrite
  PROVE  Typed' /\ txn'.conn = None
  <1>0. EnvTyped
    BY TypedParts
  <1>1. /\ OwnerIdle /\ Begin(Owner, "write", Explicit, "number") /\ wire' = wire
        /\ UNCHANGED <<free, dirty, number, mongod, held, live>>
        /\ UNCHANGED <<scene, poolOpen, call, closer, commits, faults>>
    BY DEF PlainWrite, poolVars, ByCalls
  <1>2. PoolTyped' /\ OpsTyped' /\ CallsTyped'
    BY <1>1, OwnerBegins DEF Kinds
  <1>3. txn' \in TransactionRecords /\ txn'.conn = None
    <2>1. PICK t \in TransactionRecords : t = Unpinned(txn) /\ t.conn = None
      BY <1>0, UnpinnedTyped DEF EnvTyped
    <2>2. PICK from \in States \cup {None} : from = IF txn.state = "none" THEN None ELSE txn.state
      BY <1>0 DEF EnvTyped, TransactionRecords
    <2>3. txn' = [t EXCEPT !.from = from, !.state = "none", !.told = "over"]
      BY <2>1, <2>2 DEF PlainWrite
    <2> QED
      BY <2>1, <2>3 DEF TransactionRecords, States
  <1>4. EnvTyped'
    BY <1>0, <1>1, <1>3 DEF EnvTyped, PlainWrite
  <1> QED
    BY <1>2, <1>3, <1>4, TypedNext

LEMMA CommitTyped ==
  ASSUME Typed, Commit
  PROVE  Typed'
  <1>0. EnvTyped
    BY TypedParts
  <1>1. /\ OwnerIdle /\ Begin(Owner, "commit", Explicit, "send") /\ wire' = wire
        /\ UNCHANGED <<free, dirty, number, mongod, held, live>>
        /\ UNCHANGED <<scene, poolOpen, call, out, closer, commits, faults>>
    BY DEF Commit, poolVars, MayCommit, ByCalls
  <1>2. PoolTyped' /\ OpsTyped' /\ CallsTyped'
    BY <1>1, OwnerBegins DEF Kinds
  <1>3. txn' \in TransactionRecords
    <2>1. After(txn.state, "commit") \in States
      BY AfterTyped
    <2> QED
      BY <1>0, <2>1 DEF Commit, EnvTyped, TransactionRecords
  <1>4. EnvTyped'
    BY <1>0, <1>1, <1>3 DEF EnvTyped
  <1> QED
    BY <1>2, <1>4, TypedNext

\* A call that was over as soon as it began.
LEMMA CallsUnsent ==
  ASSUME Typed, NEW kind \in Kinds,
         fate' = [fate EXCEPT ![Owner] = Append(@, [NewCall(kind) EXCEPT !.done = TRUE])],
         op' = op, wire' = wire, op[Owner].pc = "idle",
         UNCHANGED <<held, live>> \/ (UNCHANGED held /\ live' = live \ {Explicit})
  PROVE  OpsTyped' /\ CallsTyped'
  <1>0. OpsTyped /\ CallsTyped
    BY TypedParts
  <1>1. PICK k \in Calls : k = [NewCall(kind) EXCEPT !.done = TRUE]
    BY NewCallTyped
  <1>2. CallsTyped'
    BY <1>0, <1>1, CallsBegin, Distinct
  <1>3. ASSUME NEW g \in Fibers
        PROVE  WellFormed(g)' /\ (op'[g].pc # "idle" => Executing(g)')
    <2>1. CASE g = Owner
      BY <1>0, <2>1, IdleFits DEF OpsTyped, WellFormed
    <2>2. CASE g # Owner
      <3>1. fate'[g] = fate[g]
        BY <1>0, <2>2 DEF CallsTyped
      <3>2. HeldKept
        BY DEF HeldKept
      <3>3. ~(op[g].pc # "idle" /\ op[g].session = Explicit)
        BY <1>0, <2>2 DEF OpsTyped, Executing, Explicitly
      <3> QED
        BY <1>0, <3>1, <3>2, <3>3, OpsOther
    <2> QED
      BY <2>1, <2>2
  <1> QED
    BY <1>0, <1>2, <1>3 DEF OpsTyped

LEMMA CommitEmptyTyped ==
  ASSUME Typed, CommitEmpty
  PROVE  Typed' /\ txn'.conn = txn.conn
  <1>0. EnvTyped /\ PoolTyped
    BY TypedParts
  <1>1. /\ op[Owner].pc = "idle" /\ wire' = wire /\ op' = op
        /\ fate' = [fate EXCEPT ![Owner] = Append(@, [NewCall("commit") EXCEPT !.done = TRUE])]
        /\ UNCHANGED <<free, dirty, number, mongod, held, live>>
        /\ UNCHANGED <<scene, poolOpen, out, closer, commits, faults>>
    BY DEF CommitEmpty, poolVars, MayCommit, ByCalls, OwnerIdle
  <1>2. PoolTyped' /\ OpsTyped' /\ CallsTyped'
    BY <1>0, <1>1, PoolSame, CallsUnsent DEF Kinds
  <1>3. txn' \in TransactionRecords /\ txn'.conn = txn.conn
    <2>1. PICK state \in States : state = After(txn.state, "commit")
      BY AfterTyped
    <2>2. PICK empty \in BOOLEAN : empty = (txn.state = "starting")
      BY ZenonT(20)
    <2>3. PICK t : t = [txn EXCEPT !.state = state, !.empty = empty]
      OBVIOUS
    <2>4. t \in TransactionRecords /\ t.conn = txn.conn
      BY <1>0, <2>3 DEF EnvTyped, TransactionRecords
    <2>5. txn' = Tells([txn EXCEPT !.state = After(txn.state, "commit"),
                                   !.empty = (txn.state = "starting")], "empty")
      BY DEF CommitEmpty
    <2>6. txn' = Tells(t, "empty")
      BY <2>1, <2>2, <2>3, <2>5, Zenon
    <2> QED
      BY <2>4, <2>6, TellsTyped
  <1>4. call' \in [step : Steps, again : BOOLEAN]
    BY <1>0 DEF CommitEmpty, EnvTyped, Steps
  <1>5. EnvTyped'
    BY <1>0, <1>1, <1>3, <1>4 DEF EnvTyped
  <1> QED
    BY <1>2, <1>3, <1>5, TypedNext

\* An abort that is sent, whether or not the session ends with it.
LEMMA AbortSentTyped ==
  ASSUME Typed, OwnerIdle, NEW ends \in BOOLEAN, AbortSent(ends), wire' = wire,
         UNCHANGED <<held, live>>
  PROVE  /\ OpsTyped' /\ CallsTyped' /\ txn' \in TransactionRecords
         /\ txn'.conn = txn.conn /\ out' = out /\ call' = call
         /\ op'[Owner].kind = "abort" /\ op'[Owner].pc = "send"
  <1>0. EnvTyped /\ OpsTyped /\ CallsTyped /\ PoolTyped
    BY TypedParts
  <1>1. PICK o : o = [Idle EXCEPT !.kind = "abort", !.session = Explicit,
                                  !.pc = "send", !.ends = ends]
    OBVIOUS
  <1>2. Fits(o) /\ o.session = Explicit /\ o.kind = "abort" /\ o.pc = "send"
    BY <1>1, Distinct DEF Idle, Fits, Operations, Replies, Kinds
  <1>3. PICK k \in Calls : k = NewCall("abort") /\ k.kind = "abort"
    BY NewCallTyped DEF Kinds
  <1>4. op' = [op EXCEPT ![Owner] = o] /\ fate' = [fate EXCEPT ![Owner] = Append(@, k)]
    BY <1>1, <1>3 DEF AbortSent
  <1>5. /\ op[Owner].pc = "idle" /\ Owner \in Fibers /\ HeldKept /\ ExplicitKept
        /\ held'[Explicit] \in Lsids /\ Explicit \in live'
    BY <1>0, HeldSame, Distinct DEF OwnerIdle, PoolTyped
  <1>6. OpsTyped'
    BY <1>0, <1>2, <1>3, <1>4, <1>5, OpsBegin
  <1>7. CallsTyped'
    BY <1>0, <1>3, <1>4, <1>5, CallsBegin
  <1>8. txn' \in TransactionRecords /\ txn'.conn = txn.conn
    <2>1. After(txn.state, "abort") \in States
      BY AfterTyped
    <2> QED
      BY <1>0, <2>1 DEF AbortSent, EnvTyped, TransactionRecords
  <1>9. op'[Owner] = o
    BY <1>0, <1>4, <1>5 DEF OpsTyped
  <1> QED
    BY <1>2, <1>6, <1>7, <1>8, <1>9 DEF AbortSent

LEMMA AbortUnsentTyped ==
  ASSUME Typed, OwnerIdle, AbortUnsent, wire' = wire, UNCHANGED <<held, live>>
  PROVE  /\ OpsTyped' /\ CallsTyped' /\ txn' \in TransactionRecords /\ txn'.conn = None
         /\ call' \in [step : Steps, again : BOOLEAN]
         /\ out' = out \ {txn.conn} /\ op' = op
  <1>0. EnvTyped /\ OpsTyped /\ CallsTyped
    BY TypedParts
  <1>1. OpsTyped' /\ CallsTyped'
    BY CallsUnsent DEF AbortUnsent, OwnerIdle, Kinds
  <1>2. txn' \in TransactionRecords /\ txn'.conn = None
    <2>1. PICK t \in TransactionRecords : t = Unpinned(txn) /\ t.conn = None
      BY <1>0, UnpinnedTyped DEF EnvTyped
    <2>2. PICK state \in States : state = After(txn.state, "abort")
      BY AfterTyped
    <2>3. PICK u : u = [t EXCEPT !.state = state]
      OBVIOUS
    <2>4. u \in TransactionRecords /\ u.conn = None
      BY <2>1, <2>3 DEF TransactionRecords
    <2>5. txn' = Tells(u, "aborted") \/ txn' = t
      BY <2>1, <2>2, <2>3 DEF AbortUnsent
    <2> QED
      BY <2>1, <2>4, <2>5, TellsTyped
  <1>3. call' \in [step : Steps, again : BOOLEAN]
    BY <1>0, ContinuesTyped DEF AbortUnsent, Kinds, Replies
  <1> QED
    BY <1>1, <1>2, <1>3 DEF AbortUnsent

LEMMA AbortTyped ==
  ASSUME Typed, Abort
  PROVE  Typed'
  <1>0. EnvTyped /\ PoolTyped
    BY TypedParts
  <1>1. /\ OwnerIdle /\ wire' = wire
        /\ UNCHANGED <<free, dirty, number, mongod, held, live>>
        /\ UNCHANGED <<scene, poolOpen, closer, commits, faults>>
    BY DEF Abort, poolVars, MayAbort, ByCalls
  <1>2. PoolTyped'
    BY <1>0, <1>1, PoolSame
  <1>3. /\ OpsTyped' /\ CallsTyped' /\ txn' \in TransactionRecords
        /\ call' \in [step : Steps, again : BOOLEAN] /\ out' \subseteq out
    <2>1. CASE AbortSent(FALSE)
      BY <1>0, <1>1, <2>1, AbortSentTyped DEF EnvTyped
    <2>2. CASE AbortUnsent
      BY <1>1, <2>2, AbortUnsentTyped
    <2> QED
      BY <2>1, <2>2 DEF Abort
  <1>4. EnvTyped'
    BY <1>0, <1>1, <1>3 DEF EnvTyped
  <1> QED
    BY <1>2, <1>3, <1>4, TypedNext

LEMMA BodyEndsTyped ==
  ASSUME Typed, BodyEnds
  PROVE  Typed'
  <1>0. EnvTyped /\ PoolTyped /\ OpsTyped /\ CallsTyped
    BY TypedParts
  <1> USE <1>0
  <1>1. /\ op' = op /\ fate' = fate /\ wire' = wire
        /\ UNCHANGED <<free, dirty, number, mongod, held, live>>
        /\ UNCHANGED <<scene, poolOpen, txn, out, closer, commits, faults>>
    BY DEF BodyEnds, poolVars, serverVars
  <1>2. EnvTyped'
    <2>1. call' = [step |-> "commit", again |-> FALSE] \/ call' = [step |-> "abort", again |-> FALSE]
      BY DEF BodyEnds
    <2>2. [step |-> "commit", again |-> FALSE] \in [step : Steps, again : BOOLEAN]
      BY DEF Steps
    <2>3. [step |-> "abort", again |-> FALSE] \in [step : Steps, again : BOOLEAN]
      BY DEF Steps
    <2>4. call' \in [step : Steps, again : BOOLEAN]
      BY <2>1, <2>2, <2>3
    <2> QED
      BY <1>1, <2>4 DEF EnvTyped
  <1>3. PoolTyped' /\ OpsTyped' /\ CallsTyped'
    BY <1>1, PoolSame, OpsSame, CallsSame
  <1> QED
    BY <1>2, <1>3, TypedNext

LEMMA EndSessionTyped ==
  ASSUME Typed, EndSession
  PROVE  Typed'
  <1>0. EnvTyped /\ PoolTyped /\ OpsTyped /\ CallsTyped
    BY TypedParts
  <1>1. /\ OwnerIdle /\ wire' = wire
        /\ UNCHANGED <<scene, poolOpen, dirty, held, number, mongod, closer, commits, faults>>
    BY DEF EndSession
  <1>2. CASE AbortSent(TRUE) /\ UNCHANGED <<free, live>>
    <2>1. /\ OpsTyped' /\ CallsTyped' /\ txn' \in TransactionRecords
          /\ out' = out /\ call' = call
      BY <1>1, <1>2, AbortSentTyped
    <2>2. PoolTyped'
      BY <1>0, <1>1, <1>2, PoolSame
    <2>3. EnvTyped'
      BY <1>0, <1>1, <2>1 DEF EnvTyped
    <2> QED
      BY <2>1, <2>2, <2>3, TypedNext
  <1>3. CASE /\ txn' = Unpinned(txn) /\ out' = out \ {txn.conn}
             /\ live' = live \ {Explicit} /\ Release(held[Explicit])
             /\ UNCHANGED <<fate, op, call>>
    <2>1. txn' \in TransactionRecords
      BY <1>0, <1>3, UnpinnedTyped DEF EnvTyped
    <2>2. EnvTyped'
      BY <1>0, <1>1, <1>3, <2>1 DEF EnvTyped
    <2>3. PoolTyped'
      <3>1. free' \in Seq(Lsids)
        BY <1>0, <1>1, <1>3, ReleaseTyped DEF OwnerIdle, PoolTyped
      <3>2. IsFiniteSet(live')
        BY <1>0, <1>3, FS_Subset DEF PoolTyped
      <3> QED
        BY <1>0, <1>1, <1>3, <3>1, <3>2 DEF PoolTyped
    <2>4. CallsTyped'
      BY <1>0, <1>1, <1>3, CallsSame
    <2>5. OpsTyped'
      <3>1. op[Owner].pc = "idle" /\ op' = op /\ fate' = fate /\ HeldKept
        BY <1>1, <1>3 DEF OwnerIdle, HeldKept
      <3>2. \A g \in Fibers : ~(op[g].pc # "idle" /\ op[g].session = Explicit)
        BY <1>0, <3>1 DEF OpsTyped, Executing, Explicitly
      <3>3. \A g \in Fibers : WellFormed(g)' /\ (op'[g].pc # "idle" => Executing(g)')
        BY <1>0, <3>1, <3>2, OpsOther
      <3> QED
        BY <1>0, <3>1, <3>3 DEF OpsTyped
    <2> QED
      BY <2>2, <2>3, <2>4, <2>5, TypedNext
  <1> QED
    BY <1>2, <1>3 DEF EndSession

\* The server sessions that close returns, one after the other.
LEMMA ReturnedByClose ==
  ASSUME PoolTyped, NEW kept \in SUBSET {held[f] : f \in live \cap Fibers},
         NEW front \in SetToSeqs(kept)
  PROVE  /\ front \in Seq(Lsids) /\ Injective(front)
         /\ \A i \in DOMAIN front : front[i] \in kept
  <1> DEFINE X == live \cap Fibers
             h == [f \in X |-> held[f]]
             T == {held[f] : f \in X}
  <1>1. IsFiniteSet(X)
    BY FS_Subset DEF PoolTyped
  <1>2. h \in Surjection(X, T)
    BY DEF Surjection
  <1>3. IsFiniteSet(T)
    BY <1>1, <1>2, FS_Surjection
  <1>4. IsFiniteSet(kept) /\ Cardinality(kept) \in Nat
    BY <1>3, FS_Subset, FS_CardinalityType
  <1>5. kept \subseteq Lsids
    BY DEF PoolTyped
  <1>6. front \in [1 .. Cardinality(kept) -> kept]
        /\ \A i, j \in 1 .. Cardinality(kept) : i # j => front[i] # front[j]
    BY DEF SetToSeqs
  <1>7. front \in Seq(Lsids)
    <2>1. front \in [1 .. Cardinality(kept) -> Lsids]
      BY <1>5, <1>6
    <2> QED
      BY <1>4, <2>1
  <1> QED
    BY <1>6, <1>7 DEF Injective

LEMMA EndFiberSessionsTyped ==
  ASSUME Typed, EndFiberSessions
  PROVE  Typed'
  <1>0. EnvTyped /\ PoolTyped /\ OpsTyped /\ CallsTyped
    BY TypedParts
  <1>1. /\ op' = op /\ fate' = fate /\ wire' = wire /\ closer' = "ending"
        /\ live' = live \ Fibers
        /\ UNCHANGED <<scene, poolOpen, dirty, held, number, mongod, txn, call, out, commits, faults>>
    BY DEF EndFiberSessions, serverVars
  <1>2. PICK kept \in SUBSET ({held[f] : f \in live \cap Fibers} \ dirty), n \in 0 .. Len(free) :
          \E front \in SetToSeqs(kept) : free' = front \o SubSeq(free, 1, n)
    BY DEF EndFiberSessions
  <1>3. PICK front \in SetToSeqs(kept) : free' = front \o SubSeq(free, 1, n)
    BY <1>2
  <1>4. front \in Seq(Lsids)
    BY <1>0, ReturnedByClose
  <1>5. SubSeq(free, 1, n) \in Seq(Lsids)
    BY <1>0, PartOfQueue DEF PoolTyped
  <1>6. free' \in Seq(Lsids)
    BY <1>3, <1>4, <1>5, ConcatProperties
  <1>7. IsFiniteSet(live')
    BY <1>0, <1>1, FS_Subset DEF PoolTyped
  <1>8. PoolTyped'
    BY <1>0, <1>1, <1>6, <1>7 DEF PoolTyped
  <1>9. HeldKept /\ ExplicitKept
    BY <1>1, Distinct DEF HeldKept, ExplicitKept
  <1>10. EnvTyped' /\ OpsTyped' /\ CallsTyped'
    BY <1>0, <1>1, <1>9, OpsSame, CallsSame DEF EnvTyped
  <1> QED
    BY <1>8, <1>10, TypedNext

LEMMA ClosePoolTyped ==
  ASSUME Typed, ClosePool
  PROVE  Typed'
  <1>0. EnvTyped /\ PoolTyped /\ OpsTyped /\ CallsTyped
    BY TypedParts
  <1>1. /\ op' = op /\ fate' = fate /\ wire' = wire /\ free' = <<>>
        /\ closer' = "closed" /\ poolOpen' = FALSE
        /\ UNCHANGED <<scene, dirty, held, live, number, mongod, txn, call, out, commits, faults>>
    BY DEF ClosePool, serverVars
  <1>2. free' \in Seq(Lsids)
    BY <1>1, EmptySeq
  <1>3. EnvTyped' /\ PoolTyped'
    BY <1>0, <1>1, <1>2 DEF EnvTyped, PoolTyped
  <1>4. OpsTyped' /\ CallsTyped'
    BY <1>0, <1>1, HeldSame, OpsSame, CallsSame
  <1> QED
    BY <1>3, <1>4, TypedNext

LEMMA StutterTyped ==
  ASSUME Typed, UNCHANGED vars
  PROVE  Typed'
  <1>0. EnvTyped /\ PoolTyped /\ OpsTyped /\ CallsTyped
    BY TypedParts
  <1>1. /\ op' = op /\ fate' = fate /\ wire' = wire
        /\ UNCHANGED <<free, dirty, number, mongod, held, live>>
        /\ UNCHANGED <<scene, poolOpen, txn, call, out, closer, commits, faults>>
    BY DEF vars, poolVars, serverVars
  <1>2. EnvTyped' /\ PoolTyped' /\ OpsTyped' /\ CallsTyped'
    BY <1>0, <1>1, PoolSame, OpsSame, CallsSame DEF EnvTyped
  <1> QED
    BY <1>2, TypedNext

LEMMA InitTyped ==
  ASSUME Init
  PROVE  Typed
  <1>1. EnvTyped
    <2>1. scene \in DOMAIN Scenarios /\ faults = Scene.faults /\ Scene.faults \in Nat
      BY SceneFields DEF Init
    <2>2. txn \in TransactionRecords
      BY DEF Init, NoTransaction, TransactionRecords, States
    <2>3. call \in [step : Steps, again : BOOLEAN]
      BY DEF Init, Steps
    <2> QED
      BY <2>1, <2>2, <2>3 DEF Init, EnvTyped
  <1>2. PoolTyped
    <2>1. free \in Seq(Lsids)
      BY EmptySeq DEF Init
    <2>2. mongod \in [Lsids -> Records]
      BY NewRecordTyped DEF Init
    <2>3. number \in [Lsids -> Nat] /\ held \in [Sessions -> Lsids \cup {None}]
      BY DEF Init
    <2> QED
      BY <2>1, <2>2, <2>3, FS_EmptySet DEF Init, PoolTyped
  <1>3. OpsTyped
    <2>1. op = [f \in Fibers |-> Idle]
      BY DEF Init
    <2> QED
      BY <2>1, IdleFits DEF OpsTyped, WellFormed
  <1>4. CallsTyped
    BY EmptySeq DEF Init, CallsTyped
  <1> QED
    BY <1>1, <1>2, <1>3, <1>4, TypedParts

\* Every step keeps the types and the shapes.
LEMMA NextTyped ==
  ASSUME Typed, [Next]_vars
  PROVE  Typed'
  <1>1. ASSUME NEW f \in Fibers, Lookup(f) PROVE Typed'
    BY <1>1, LookupTyped
  <1>2. ASSUME NEW f \in Fibers, Attempts(f) PROVE Typed'
    BY <1>2, RecycleTyped, TakeNumberTyped, NestedTyped, DropDeadPinTyped, SendTyped,
       NotSentTyped, NetworkErrorTyped, TriedAgainTyped, CommandEndsTyped DEF Attempts
  <1>3. ASSUME NEW m \in wire, Deliver(m) PROVE Typed'
    BY <1>3, DeliverTyped
  <1> QED
    BY <1>1, <1>2, <1>3, StartSessionTyped, StartTransactionTyped, StatementTyped,
       PlainWriteTyped, CommitTyped, CommitEmptyTyped, AbortTyped, BodyEndsTyped,
       EndSessionTyped, EndFiberSessionsTyped, ClosePoolTyped, StutterTyped DEF Next

\* TypeOK holds of every reachable state: whoever executes a command holds a server
\* session, and what a command and a message name exists.
THEOREM SessionsTypeCorrect == Spec => []TypeOK
  <1>1. Init => Typed
    BY InitTyped
  <1>2. Typed /\ [Next]_vars => Typed'
    BY NextTyped
  <1>3. Typed => TypeOK
    BY DEF Typed
  <1> QED
    BY <1>1, <1>2, <1>3, PTL DEF Spec

-----------------------------------------------------------------------------
(* A server session has one holder *)

\* OneHolder in the terms of the lemmas on queues.
Apart(q) ==
  /\ Injective(q)
  /\ closer = "open" => \A x \in dirty : ~In(x, q)

LEMMA OneHolderParts ==
  OneHolder <=> /\ \A c, d \in live : held[c] = held[d] => c = d
                /\ \A c \in live : ~In(held[c], free)
                /\ Apart(free)
  BY DEF OneHolder, Pooled, In, Apart, Injective

LEMMA OneHolderNext ==
  ASSUME \A c, d \in live' : held'[c] = held'[d] => c = d,
         \A c \in live' : ~In(held'[c], free'),
         Injective(free'),
         closer' = "open" => \A x \in dirty' : ~In(x, free')
  PROVE  OneHolder'
  BY DEF OneHolder, Pooled, In, Injective

LEMMA OneHolderSame ==
  ASSUME OneHolder, UNCHANGED <<held, free, dirty>>, live' \subseteq live,
         closer' = "open" => closer = "open"
  PROVE  OneHolder'
  BY DEF OneHolder, Pooled

\* acquire from a queue in which nothing is that another session holds.
LEMMA OneHolderAcquire ==
  ASSUME Typed, OneHolder, NEW c \in Sessions, NEW q \in Seq(Lsids), Acquire(c, q),
         Apart(q), \A d \in live : d # c => ~In(held[d], q),
         live' = live \cup {c}, closer' = closer
  PROVE  OneHolder'
  <1>1. PoolTyped /\ \A d \in Sessions : held'[d] = IF d = c THEN held'[c] ELSE held[d]
    BY TypedParts, AcquireTyped
  <1>2. AcquiredFrom(c, q)
    BY AcquireCases
  <1>3. live \subseteq Sessions
    BY <1>1 DEF PoolTyped
  <1>4. ASSUME NEW i \in DOMAIN q,
               held' = [held EXCEPT ![c] = q[i]],
               free' = SubSeq(q, i + 1, Len(q)),
               UNCHANGED <<dirty, number, mongod>>
        PROVE  OneHolder'
    <2>1. held'[c] = q[i]
      BY <1>1, <1>4 DEF PoolTyped
    <2>2. i \in Nat /\ DOMAIN q = 1 .. Len(q) /\ Len(q) \in Nat
      BY LenProperties
    <2>3. /\ free' \in Seq(Lsids)
          /\ \A j \in 1 .. Len(free') : i + j \in DOMAIN q /\ i + j # i /\ free'[j] = q[i + j]
      BY <1>4, <2>2, PartOfQueue
    <2>4. DOMAIN free' = 1 .. Len(free') /\ Len(free') \in Nat
      BY <2>3, LenProperties
    <2>5. \A x : In(x, free') => In(x, q)
      BY <2>3, <2>4 DEF In
    <2>6. ~In(q[i], free')
      BY <2>3, <2>4 DEF In, Apart, Injective
    <2>7. Injective(free')
      <3>1. ASSUME NEW j \in DOMAIN free', NEW k \in DOMAIN free', free'[j] = free'[k]
            PROVE  j = k
        <4>1. i + j = i + k
          BY <2>3, <2>4, <3>1 DEF Apart, Injective
        <4> QED
          BY <2>2, <2>4, <4>1
      <3> QED
        BY <3>1 DEF Injective
    <2>8. \A d \in live : d # c => held[d] # q[i]
      BY DEF In
    <2>9. \A d, e \in live' : held'[d] = held'[e] => d = e
      BY <1>1, <1>3, <2>1, <2>8 DEF OneHolder
    <2>10. \A d \in live' : ~In(held'[d], free')
      BY <1>1, <1>3, <2>1, <2>5, <2>6
    <2> QED
      BY <1>4, <2>5, <2>7, <2>9, <2>10, OneHolderNext DEF Apart
  <1>5. ASSUME NEW new \in Lsids,
               Forgotten(new),
               held' = [held EXCEPT ![c] = new],
               free' = <<>>
        PROVE  OneHolder'
    <2>1. held'[c] = new
      BY <1>1, <1>5 DEF PoolTyped
    <2>2. \A d \in live : d # c => held[d] # new
      BY <1>3, <1>5 DEF Forgotten
    <2>3. \A d, e \in live' : held'[d] = held'[e] => d = e
      BY <1>1, <1>3, <2>1, <2>2 DEF OneHolder
    <2>4. \A x : ~In(x, free')
      BY <1>5 DEF In
    <2>5. Injective(free')
      BY <1>5 DEF Injective
    <2> QED
      BY <2>3, <2>4, <2>5, OneHolderNext
  <1> QED
    BY <1>2, <1>4, <1>5 DEF AcquiredFrom

\* A queue to which c returned its server session holds nobody else's.
LEMMA ReturnedApart ==
  ASSUME Typed, OneHolder, NEW c \in live, NEW q \in Returned(held[c], free)
  PROVE  /\ q \in Seq(Lsids) /\ Apart(q)
         /\ \A d \in live : d # c => ~In(held[d], q)
  <1>1. held[c] \in Lsids /\ free \in Seq(Lsids)
    BY TypedParts DEF PoolTyped
  <1>2. /\ \A d, e \in live : held[d] = held[e] => d = e
        /\ \A d \in live : ~In(held[d], free)
        /\ Apart(free)
    BY OneHolderParts
  <1>3. /\ q \in Seq(Lsids)
        /\ \A x : In(x, q) => In(x, free) \/ (x = held[c] /\ held[c] \notin dirty)
        /\ Injective(free) /\ ~In(held[c], free) => Injective(q)
    BY <1>1, ReturnedQueue
  <1>4. Apart(q)
    BY <1>2, <1>3 DEF Apart
  <1>5. \A d \in live : d # c => ~In(held[d], q)
    BY <1>2, <1>3
  <1> QED
    BY <1>3, <1>4, <1>5

LEMMA OneHolderExchange ==
  ASSUME Typed, OneHolder, NEW f \in Fibers, f \in live, Exchange(f), live' = live,
         closer' = closer
  PROVE  OneHolder'
  <1>1. PICK q \in Returned(held[f], free) : Acquire(f, q)
    BY DEF Exchange
  <1>2. /\ q \in Seq(Lsids) /\ Apart(q)
        /\ \A d \in live : d # f => ~In(held[d], q)
    BY ReturnedApart
  <1>3. f \in Sessions /\ live' = live \cup {f}
    BY Distinct
  <1> QED
    BY <1>1, <1>2, <1>3, OneHolderAcquire

\* c ends, and its server session goes back to the pool.
LEMMA OneHolderRelease ==
  ASSUME Typed, OneHolder, NEW c \in live, Release(held[c]), live' = live \ {c},
         UNCHANGED <<held, dirty, closer>>
  PROVE  OneHolder'
  <1>1. CASE free' = free
    BY <1>1, OneHolderSame
  <1>2. CASE free' \in Returned(held[c], free)
    <2>1. PICK q \in Returned(held[c], free) : free' = q
      BY <1>2
    <2>2. Apart(q) /\ \A d \in live : d # c => ~In(held[d], q)
      BY ReturnedApart
    <2>3. \A d, e \in live' : held'[d] = held'[e] => d = e
      BY DEF OneHolder
    <2> QED
      BY <2>1, <2>2, <2>3, OneHolderNext DEF Apart
  <1> QED
    BY <1>1, <1>2 DEF Release

\* No command is begun, and none changes its session.
SessionsKept ==
  \A g \in Fibers : op'[g].pc # "idle" =>
    op[g].pc # "idle" /\ op'[g].session = op[g].session

LEMMA KeptBySame ==
  ASSUME op' = op
  PROVE  SessionsKept
  BY DEF SessionsKept

\* The attempts of f go on with the session of f's command.
LEMMA KeptByAttempts ==
  ASSUME Typed, NEW f \in Fibers, Attempts(f)
  PROVE  SessionsKept
  <1>1. op \in [Fibers -> Operations]
    BY DEF Typed, TypeOK
  <1>2. ASSUME NEW o, op' = [op EXCEPT ![f] = o],
               o.pc = "idle" \/ (op[f].pc # "idle" /\ o.session = op[f].session)
        PROVE  SessionsKept
    BY <1>1, <1>2 DEF SessionsKept
  <1>3. op[f] \in Operations
    BY <1>1
  <1>4. CASE Recycle(f)
    <2>1. PICK o : /\ o \in {Idle, [op[f] EXCEPT !.pc = "number"]}
                   /\ op' = [op EXCEPT ![f] = o]
      BY <1>4 DEF Recycle
    <2>2. o.pc = "idle" \/ (op[f].pc # "idle" /\ o.session = op[f].session)
      BY <1>3, <1>4, <2>1, IdleFits DEF Recycle, Operations
    <2> QED
      BY <1>2, <2>1, <2>2
  <1>5. CASE TakeNumber(f)
    <2>1. PICK o : /\ o \in {[op[f] EXCEPT !.pc = "send"],
                             [op[f] EXCEPT !.pc = "ended", !.reply = "unselected"]}
                   /\ op' = [op EXCEPT ![f] = o]
      BY <1>5 DEF TakeNumber
    <2>2. op[f].pc # "idle" /\ o.session = op[f].session
      BY <1>3, <1>5, <2>1 DEF TakeNumber, Operations
    <2> QED
      BY <1>2, <2>1, <2>2
  <1>6. CASE NestedCommand(f)
    BY <1>6, KeptBySame DEF NestedCommand
  <1>7. CASE DropDeadPin(f)
    BY <1>7, KeptBySame DEF DropDeadPin
  <1>8. CASE Send(f)
    <2>1. PICK conn, o : /\ o = [op[f] EXCEPT !.pc = "wait", !.conn = conn]
                         /\ op' = [op EXCEPT ![f] = o]
      BY <1>8 DEF Send
    <2>2. op[f].pc # "idle" /\ o.session = op[f].session
      BY <1>3, <1>8, <2>1 DEF Send, Operations
    <2> QED
      BY <1>2, <2>1, <2>2
  <1>9. CASE NotSent(f)
    <2>1. PICK failure, o : /\ o = [op[f] EXCEPT !.pc = "ended", !.reply = failure]
                            /\ op' = [op EXCEPT ![f] = o]
      BY <1>9 DEF NotSent
    <2>2. op[f].pc # "idle" /\ o.session = op[f].session
      BY <1>3, <1>9, <2>1 DEF NotSent, Operations
    <2> QED
      BY <1>2, <2>1, <2>2
  <1>10. CASE NetworkError(f)
    <2>1. PICK o : /\ o = [op[f] EXCEPT !.pc = "ended", !.reply = "network"]
                   /\ op' = [op EXCEPT ![f] = o]
      BY <1>10 DEF NetworkError
    <2>2. op[f].pc # "idle" /\ o.session = op[f].session
      BY <1>3, <1>10, <2>1 DEF NetworkError, Operations
    <2> QED
      BY <1>2, <2>1, <2>2
  <1>11. CASE TriedAgain(f)
    <2>1. PICK o : o = NextAttempt(op[f]) /\ op' = [op EXCEPT ![f] = o]
      BY <1>11 DEF TriedAgain
    <2>2. op[f].pc # "idle"
      BY <1>11, RepliedExecutes, TypedParts DEF TriedAgain
    <2>3. o.session = op[f].session
      BY <1>3, <2>1 DEF NextAttempt, Operations
    <2> QED
      BY <1>2, <2>1, <2>2, <2>3
  <1>12. CASE CommandEnds(f)
    BY <1>2, <1>12, IdleFits DEF CommandEnds
  <1> QED
    BY <1>4, <1>5, <1>6, <1>7, <1>8, <1>9, <1>10, <1>11, <1>12 DEF Attempts

LEMMA KeptByDeliver ==
  ASSUME Typed, NEW m \in wire, Deliver(m)
  PROVE  SessionsKept
  <1>1. op \in [Fibers -> Operations] /\ m.fiber \in Fibers
    BY DEF Typed, TypeOK, Messages
  <1>2. PICK reply : op' = op \/ (op' = [op EXCEPT ![m.fiber] = [@ EXCEPT !.reply = reply]]
                                  /\ op[m.fiber].pc = "wait")
    BY DEF Deliver, Take, Awaited
  <1>3. ASSUME op' = [op EXCEPT ![m.fiber] = [@ EXCEPT !.reply = reply]],
               op[m.fiber].pc = "wait"
        PROVE  SessionsKept
    <2>1. PICK o : o = [op[m.fiber] EXCEPT !.reply = reply]
      OBVIOUS
    <2>2. op' = [op EXCEPT ![m.fiber] = o]
      BY <1>3, <2>1
    <2>3. o.session = op[m.fiber].session
      BY <1>1, <2>1 DEF Operations
    <2> QED
      BY <1>1, <1>3, <2>2, <2>3 DEF SessionsKept
  <1> QED
    BY <1>2, <1>3, KeptBySame

\* Commands stay on live sessions when sessions only come, or only close takes them.
LEMMA OnLiveKept ==
  ASSUME OnLiveSessions, SessionsKept, closer' = closer,
         \A g \in Fibers : op'[g].pc # "idle" /\ op'[g].session \in live => op'[g].session \in live'
  PROVE  OnLiveSessions'
  BY DEF OnLiveSessions, SessionsKept

LEMMA OnLiveBegin ==
  ASSUME Typed, OnLiveSessions, NEW f \in Fibers, NEW kind, NEW session, NEW pc,
         Begin(f, kind, session, pc), session \in live', live \subseteq live', closer' = closer
  PROVE  OnLiveSessions'
  <1>1. PICK o : o = [Idle EXCEPT !.kind = kind, !.session = session, !.pc = pc]
    OBVIOUS
  <1>2. op \in [Fibers -> Operations] /\ op' = [op EXCEPT ![f] = o]
    BY <1>1 DEF Typed, TypeOK, Begin
  <1>3. o.session = session
    BY <1>1 DEF Idle
  <1> QED
    BY <1>2, <1>3 DEF OnLiveSessions

LEMMA LookupHolders ==
  ASSUME Holders, NEW f \in Fibers, Lookup(f)
  PROVE  OneHolder' /\ OnLiveSessions'
  <1>1. f \in Sessions /\ closer' = closer
    BY Distinct DEF Lookup
  <1>2. CASE f \in live
    <2>1. UNCHANGED <<free, dirty, held, live>>
      BY <1>2 DEF Lookup, poolVars
    <2>2. PICK pc : Begin(f, "write", f, pc)
      BY <1>2 DEF Lookup
    <2> QED
      BY <1>1, <1>2, <2>1, <2>2, OneHolderSame, OnLiveBegin DEF Holders
  <1>3. CASE f \notin live
    <2>1. Begin(f, "write", f, "number") /\ Acquire(f, free) /\ live' = live \cup {f}
      BY <1>3 DEF Lookup
    <2>2. free \in Seq(Lsids) /\ Apart(free) /\ \A d \in live : ~In(held[d], free)
      BY OneHolderParts DEF Holders, Typed, TypeOK
    <2>3. OneHolder'
      BY <1>1, <2>1, <2>2, OneHolderAcquire DEF Holders
    <2>4. f \in live' /\ live \subseteq live'
      BY <2>1
    <2>5. OnLiveSessions'
      BY <1>1, <2>1, <2>4, OnLiveBegin DEF Holders
    <2> QED
      BY <2>3, <2>5
  <1> QED
    BY <1>2, <1>3

LEMMA CommandEndsHolders ==
  ASSUME Holders, NEW f \in Fibers, CommandEnds(f)
  PROVE  OneHolder' /\ OnLiveSessions'
  <1>1. UNCHANGED <<dirty, held, closer>> /\ op' = [op EXCEPT ![f] = Idle]
    BY DEF CommandEnds
  <1>2. /\ OpsTyped /\ PoolTyped /\ op \in [Fibers -> Operations]
        /\ Executing(f)
    BY RepliedExecutes, TypedParts DEF Holders, CommandEnds, OpsTyped
  <1>3. SessionsKept
    BY KeptByAttempts DEF Holders, Attempts
  <1>4. CASE Explicitly(f) /\ live' = live \ {Explicit} /\ Release(Lsid(f))
    <2>1. Explicit \in live /\ f = Owner /\ Lsid(f) = held[Explicit]
      BY <1>2, <1>4 DEF Executing, Explicitly, Lsid
    <2>2. OneHolder'
      BY <1>1, <1>4, <2>1, OneHolderRelease DEF Holders
    <2>3. \A g \in Fibers : op'[g].pc # "idle" => op'[g].session # Explicit
      BY <1>1, <1>2, <2>1, IdleFits DEF OpsTyped, Executing, Explicitly
    <2> QED
      BY <1>1, <1>3, <1>4, <2>2, <2>3, OnLiveKept DEF Holders
  <1>5. CASE UNCHANGED <<live, free>>
    BY <1>1, <1>3, <1>5, OneHolderSame, OnLiveKept DEF Holders
  <1> QED
    BY <1>4, <1>5 DEF CommandEnds

LEMMA NetworkErrorHolders ==
  ASSUME Holders, NEW f \in Fibers, NetworkError(f)
  PROVE  OneHolder' /\ OnLiveSessions'
  <1>1. /\ op[f].pc = "wait" /\ dirty' = dirty \cup {Lsid(f)}
        /\ UNCHANGED <<free, held, live, closer>>
    BY DEF NetworkError
  <1>2. SessionsKept
    BY KeptByAttempts DEF Holders, Attempts
  <1>3. closer = "open" => op[f].session \in live /\ ~In(Lsid(f), free)
    BY <1>1, OneHolderParts DEF Holders, OnLiveSessions, Lsid
  <1>4. OneHolder'
    BY <1>1, <1>3, OneHolderParts, OneHolderNext DEF Holders, Apart
  <1> QED
    BY <1>1, <1>2, <1>4, OnLiveKept DEF Holders

LEMMA AttemptsHolders ==
  ASSUME Holders, NEW f \in Fibers, Attempts(f)
  PROVE  OneHolder' /\ OnLiveSessions'
  <1>1. SessionsKept
    BY KeptByAttempts DEF Holders
  <1>2. ASSUME UNCHANGED <<free, held, dirty, live, closer>>
        PROVE  OneHolder' /\ OnLiveSessions'
    BY <1>1, <1>2, OneHolderSame, OnLiveKept DEF Holders
  <1>3. ASSUME f \in live, Exchange(f), live' = live, closer' = closer
        PROVE  OneHolder' /\ OnLiveSessions'
    BY <1>1, <1>3, OneHolderExchange, OnLiveKept DEF Holders
  <1>4. CASE Recycle(f)
    BY <1>2, <1>3, <1>4 DEF Recycle
  <1>5. CASE NestedCommand(f)
    BY <1>3, <1>5 DEF NestedCommand
  <1>6. CASE TakeNumber(f) \/ DropDeadPin(f) \/ Send(f) \/ NotSent(f) \/ TriedAgain(f)
    BY <1>2, <1>6 DEF TakeNumber, DropDeadPin, Send, NotSent, TriedAgain, poolVars
  <1> QED
    BY <1>4, <1>5, <1>6, NetworkErrorHolders, CommandEndsHolders DEF Attempts

LEMMA SessionHolders ==
  ASSUME Holders, StartSession
  PROVE  OneHolder' /\ OnLiveSessions'
  <1>1. /\ Acquire(Explicit, free) /\ live' = live \cup {Explicit} /\ op' = op /\ closer' = closer
    BY DEF StartSession
  <1>2. free \in Seq(Lsids) /\ Apart(free) /\ \A d \in live : ~In(held[d], free)
    BY OneHolderParts DEF Holders, Typed, TypeOK
  <1> QED
    BY <1>1, <1>2, Distinct, OneHolderAcquire, OnLiveKept, KeptBySame DEF Holders

LEMMA OwnerHolders ==
  ASSUME Holders,
         \/ StartTransaction \/ Statement \/ PlainWrite \/ Commit \/ CommitEmpty
         \/ Abort \/ BodyEnds
  PROVE  OneHolder' /\ OnLiveSessions'
  <1>1. UNCHANGED <<free, held, dirty, live, closer>>
    BY DEF StartTransaction, Statement, PlainWrite, Commit, CommitEmpty, Abort, BodyEnds, poolVars
  <1>2. OneHolder'
    BY <1>1, OneHolderSame DEF Holders
  <1>3. ASSUME op' = op PROVE OnLiveSessions'
    BY <1>1, <1>3, OnLiveKept, KeptBySame DEF Holders
  <1>4. CASE StartTransaction \/ CommitEmpty \/ BodyEnds
    BY <1>2, <1>3, <1>4 DEF StartTransaction, CommitEmpty, BodyEnds
  <1>5. CASE Statement \/ PlainWrite \/ Commit
    <2>1. Explicit \in live /\ \E kind, pc : Begin(Owner, kind, Explicit, pc)
      BY <1>5 DEF Statement, PlainWrite, Commit, OwnerIdle, ByCalls, MayCommit
    <2> QED
      BY <1>1, <1>2, <2>1, OnLiveBegin, Distinct DEF Holders
  <1>6. CASE Abort
    <2>1. CASE AbortUnsent
      BY <1>2, <1>3, <2>1 DEF AbortUnsent
    <2>2. CASE AbortSent(FALSE)
      <3>1. Explicit \in live
        BY <1>6 DEF Abort, MayAbort, OwnerIdle, ByCalls
      <3>2. PICK o : /\ o = [Idle EXCEPT !.kind = "abort", !.session = Explicit,
                                         !.pc = "send", !.ends = FALSE]
                     /\ op' = [op EXCEPT ![Owner] = o]
        BY <2>2 DEF AbortSent
      <3>3. o.session = Explicit
        BY <3>2 DEF Idle
      <3> QED
        BY <1>1, <1>2, <3>1, <3>2, <3>3 DEF Holders, Typed, TypeOK, OnLiveSessions
    <2> QED
      BY <1>6, <2>1, <2>2 DEF Abort
  <1> QED
    BY <1>4, <1>5, <1>6

LEMMA EndSessionHolders ==
  ASSUME Holders, EndSession
  PROVE  OneHolder' /\ OnLiveSessions'
  <1>1. OwnerIdle /\ UNCHANGED <<dirty, held, closer>> /\ Explicit \in live
    BY DEF EndSession, OwnerIdle
  <1>2. CASE AbortSent(TRUE) /\ UNCHANGED <<free, live>>
    <2>1. OneHolder'
      BY <1>1, <1>2, OneHolderSame DEF Holders
    <2>2. PICK o : /\ o = [Idle EXCEPT !.kind = "abort", !.session = Explicit,
                                       !.pc = "send", !.ends = TRUE]
                   /\ op' = [op EXCEPT ![Owner] = o]
      BY <1>2 DEF AbortSent
    <2>3. o.session = Explicit
      BY <2>2 DEF Idle
    <2> QED
      BY <1>1, <1>2, <2>1, <2>2, <2>3 DEF Holders, Typed, TypeOK, OnLiveSessions
  <1>3. CASE live' = live \ {Explicit} /\ Release(held[Explicit]) /\ op' = op
    <2>1. OneHolder'
      BY <1>1, <1>3, OneHolderRelease DEF Holders
    <2>2. \A g \in Fibers : op'[g].pc # "idle" => op'[g].session # Explicit
      BY <1>1, <1>3, TypedParts DEF Holders, OpsTyped, Executing, Explicitly, OwnerIdle
    <2> QED
      BY <1>1, <1>3, <2>1, <2>2, KeptBySame, OnLiveKept DEF Holders
  <1> QED
    BY <1>2, <1>3 DEF EndSession

\* close: what the fibers held, and what the pool had before.
LEMMA CloseHolders ==
  ASSUME Holders, EndFiberSessions \/ ClosePool
  PROVE  OneHolder' /\ OnLiveSessions'
  <1>1. closer' \in {"ending", "closed"} /\ held' = held
    BY DEF EndFiberSessions, ClosePool
  <1>2. OnLiveSessions'
    BY <1>1 DEF OnLiveSessions
  <1>3. CASE ClosePool
    <2>1. free' = <<>> /\ live' = live
      BY <1>3 DEF ClosePool
    <2>2. Injective(free') /\ \A x : ~In(x, free')
      BY <2>1 DEF Injective, In
    <2>3. \A c, d \in live' : held'[c] = held'[d] => c = d
      BY <1>1, <2>1 DEF Holders, OneHolder
    <2> QED
      BY <1>2, <2>2, <2>3, OneHolderNext
  <1>4. CASE EndFiberSessions
    <2>1. live' = live \ Fibers
      BY <1>4 DEF EndFiberSessions
    <2>2. PICK kept \in SUBSET ({held[f] : f \in live \cap Fibers} \ dirty), n \in 0 .. Len(free) :
            \E front \in SetToSeqs(kept) : free' = front \o SubSeq(free, 1, n)
      BY <1>4 DEF EndFiberSessions
    <2>3. PICK front \in SetToSeqs(kept) : free' = front \o SubSeq(free, 1, n)
      BY <2>2
    <2>4. PICK t : t = SubSeq(free, 1, n)
      OBVIOUS
    <2>5. PoolTyped /\ free \in Seq(Lsids) /\ Len(free) \in Nat /\ DOMAIN free = 1 .. Len(free)
      BY TypedParts, LenProperties DEF Holders, PoolTyped
    <2>6. /\ front \in Seq(Lsids) /\ Injective(front)
          /\ \A i \in DOMAIN front : front[i] \in kept
      BY <2>5, ReturnedByClose
    <2>7. /\ t \in Seq(Lsids)
          /\ \A i \in 1 .. Len(t) : i \in DOMAIN free /\ t[i] = free[i]
      BY <2>4, <2>5, PartOfQueue
    <2>8. /\ Len(front) \in Nat /\ DOMAIN front = 1 .. Len(front)
          /\ Len(t) \in Nat /\ DOMAIN t = 1 .. Len(t)
      BY <2>6, <2>7, LenProperties
    <2>9. /\ free' \in Seq(Lsids) /\ Len(free') = Len(front) + Len(t)
          /\ \A i \in 1 .. Len(front) + Len(t) :
               free'[i] = IF i <= Len(front) THEN front[i] ELSE t[i - Len(front)]
      BY <2>3, <2>4, <2>6, <2>7, ConcatProperties
    <2>10. DOMAIN free' = 1 .. Len(front) + Len(t)
      BY <2>9, LenProperties
    <2>11. /\ \A c, d \in live : held[c] = held[d] => c = d
           /\ \A c \in live : ~In(held[c], free)
           /\ Injective(free)
      BY OneHolderParts DEF Holders, Apart
    <2>12. \A i \in DOMAIN front : \E f \in live \cap Fibers : front[i] = held[f]
      BY <2>6
    <2>13. \A i \in DOMAIN free' :
             \/ i \in DOMAIN front /\ free'[i] = front[i]
             \/ i > Len(front) /\ i - Len(front) \in DOMAIN free /\ free'[i] = free[i - Len(front)]
      BY <2>7, <2>8, <2>9, <2>10
    <2>14. \A c \in live' : ~In(held'[c], free')
      <3>1. ASSUME NEW c \in live', NEW i \in DOMAIN free', free'[i] = held[c] PROVE FALSE
        <4>1. CASE i \in DOMAIN front /\ free'[i] = front[i]
          BY <2>1, <2>11, <2>12, <3>1, <4>1
        <4>2. CASE i - Len(front) \in DOMAIN free /\ free'[i] = free[i - Len(front)]
          BY <2>1, <2>11, <3>1, <4>2 DEF In
        <4> QED
          BY <2>13, <4>1, <4>2
      <3> QED
        BY <1>1, <3>1 DEF In
    <2>15. Injective(free')
      <3>1. ASSUME NEW i \in DOMAIN free', NEW j \in DOMAIN free', free'[i] = free'[j],
                   i \in DOMAIN front, free'[i] = front[i],
                   j - Len(front) \in DOMAIN free, free'[j] = free[j - Len(front)]
            PROVE  FALSE
        <4>1. PICK f \in live \cap Fibers : front[i] = held[f]
          BY <2>12, <3>1
        <4> QED
          BY <2>11, <3>1, <4>1 DEF In
      <3>2. ASSUME NEW i \in DOMAIN free', NEW j \in DOMAIN free', free'[i] = free'[j]
            PROVE  i = j
        <4>1. CASE i \in DOMAIN front /\ free'[i] = front[i] /\ j \in DOMAIN front /\ free'[j] = front[j]
          BY <2>6, <3>2, <4>1 DEF Injective
        <4>2. CASE /\ i - Len(front) \in DOMAIN free /\ free'[i] = free[i - Len(front)]
                   /\ j - Len(front) \in DOMAIN free /\ free'[j] = free[j - Len(front)]
          <5>1. i - Len(front) = j - Len(front)
            BY <2>11, <3>2, <4>2 DEF Injective
          <5> QED
            BY <2>8, <2>10, <5>1
        <4> QED
          BY <2>13, <3>1, <3>2, <4>1, <4>2
      <3> QED
        BY <3>2 DEF Injective
    <2>16. \A c, d \in live' : held'[c] = held'[d] => c = d
      BY <1>1, <2>1, <2>11
    <2> QED
      BY <1>1, <1>2, <2>14, <2>15, <2>16, OneHolderNext
  <1> QED
    BY <1>3, <1>4

LEMMA NextHolders ==
  ASSUME Holders, [Next]_vars
  PROVE  Holders'
  <1>0. Typed'
    BY NextTyped DEF Holders
  <1>1. CASE UNCHANGED vars
    <2>1. UNCHANGED <<free, held, dirty, live, closer>> /\ op' = op
      BY <1>1 DEF vars, poolVars
    <2> QED
      BY <1>0, <2>1, OneHolderSame, KeptBySame, OnLiveKept DEF Holders
  <1>2. ASSUME NEW m \in wire, Deliver(m) PROVE OneHolder' /\ OnLiveSessions'
    <2>1. UNCHANGED <<free, held, dirty, live, closer>>
      BY <1>2 DEF Deliver, poolVars
    <2>2. SessionsKept
      BY <1>2, KeptByDeliver DEF Holders
    <2> QED
      BY <2>1, <2>2, OneHolderSame, OnLiveKept DEF Holders
  <1>3. CASE Next
    <2>1. OneHolder' /\ OnLiveSessions'
      BY <1>2, <1>3, LookupHolders, AttemptsHolders, SessionHolders, OwnerHolders,
         EndSessionHolders, CloseHolders DEF Next
    <2> QED
      BY <1>0, <2>1 DEF Holders
  <1> QED
    BY <1>1, <1>3

LEMMA InitHolders ==
  ASSUME Init
  PROVE  Holders
  <1>1. OneHolder
    BY DEF Init, OneHolder, Pooled
  <1>2. OnLiveSessions
    BY IdleFits DEF Init, OnLiveSessions
  <1> QED
    BY <1>1, <1>2, InitTyped DEF Holders

\* No two live sessions share a server session and the pool holds none that is in
\* use, none twice and, while the client is open, no dirty one, in every order of
\* look-ups, exchanges, ends and losses, by any number of fibers.
THEOREM SessionsOneHolder == Spec => []OneHolder
  <1>1. Init => Holders
    BY InitHolders
  <1>2. Holders /\ [Next]_vars => Holders'
    BY NextHolders
  <1>3. Holders => OneHolder
    BY DEF Holders
  <1> QED
    BY <1>1, <1>2, <1>3, PTL DEF Spec

-----------------------------------------------------------------------------
(* Connections *)

\* Who holds which connection.
LEMMA AccountedParts ==
  ASSUME ConnectionsAccounted
  PROVE  /\ \A k : k \in out <=> k # None /\ (k = txn.conn \/ \E f \in Fibers : op[f].conn = k)
         /\ txn.conn # None => \A f \in Fibers : op[f].conn # txn.conn
         /\ \A f, g \in Fibers : op[f].conn # None /\ op[f].conn = op[g].conn => f = g
  BY DEF ConnectionsAccounted

LEMMA AccountedNext ==
  ASSUME \A k : k \in out' <=> k # None /\ (k = txn'.conn \/ \E f \in Fibers : op'[f].conn = k),
         txn'.conn # None => \A f \in Fibers : op'[f].conn # txn'.conn,
         \A f, g \in Fibers : op'[f].conn # None /\ op'[f].conn = op'[g].conn => f = g,
         Explicit \notin live' => txn'.conn = None
  PROVE  ConnectionsAccounted' /\ UnpinnedWhenEnded'
  BY DEF ConnectionsAccounted, UnpinnedWhenEnded

\* The attempts keep the connections they own.
ConnsKept == \A g \in Fibers : op'[g].conn = op[g].conn

\* Nothing is pinned, checked out or given back.
LEMMA AccountedSame ==
  ASSUME Accounted, out' = out, txn'.conn = txn.conn, ConnsKept,
         Explicit \in live => Explicit \in live'
  PROVE  ConnectionsAccounted' /\ UnpinnedWhenEnded'
  BY AccountedParts, AccountedNext DEF Accounted, ConnsKept, UnpinnedWhenEnded

\* The session is unpinned.
LEMMA AccountedUnpinned ==
  ASSUME Accounted, out' = out \ {txn.conn}, txn'.conn = None, ConnsKept
  PROVE  ConnectionsAccounted' /\ UnpinnedWhenEnded'
  <1>1. \A k : k \in out' <=> k # None /\ (k = txn'.conn \/ \E f \in Fibers : op'[f].conn = k)
    BY AccountedParts DEF Accounted, ConnsKept
  <1>2. \A f, g \in Fibers : op'[f].conn # None /\ op'[f].conn = op'[g].conn => f = g
    BY AccountedParts DEF Accounted, ConnsKept
  <1> QED
    BY <1>1, <1>2, AccountedNext

\* f's operation becomes o, which owns what f's operation owned.
LEMMA ConnsKeptBy ==
  ASSUME Typed, NEW f \in Fibers, NEW o, op' = [op EXCEPT ![f] = o], o.conn = op[f].conn
  PROVE  ConnsKept
  BY DEF Typed, TypeOK, ConnsKept

\* A fiber that executes nothing owns no connection.
LEMMA IdleOwnsNone ==
  ASSUME Typed, NEW f \in Fibers, op[f].pc = "idle"
  PROVE  op[f].conn = None /\ op[f].reply = None
  BY IdleFits DEF Typed, ShapesOK, WellFormed

LEMMA BeginOwnsNone ==
  ASSUME Typed, NEW f \in Fibers, op[f].pc = "idle", NEW kind, NEW session, NEW pc,
         Begin(f, kind, session, pc)
  PROVE  ConnsKept
  <1>1. PICK o : o = [Idle EXCEPT !.kind = kind, !.session = session, !.pc = pc]
    OBVIOUS
  <1>2. o.conn = None /\ op' = [op EXCEPT ![f] = o]
    BY <1>1 DEF Idle, Begin
  <1> QED
    BY <1>2, IdleOwnsNone, ConnsKeptBy

LEMMA LookupAccounted ==
  ASSUME Accounted, NEW f \in Fibers, Lookup(f)
  PROVE  ConnectionsAccounted' /\ UnpinnedWhenEnded'
  <1>1. /\ out' = out /\ txn' = txn /\ op[f].pc = "idle"
        /\ \E pc : Begin(f, "write", f, pc)
        /\ live' = live \/ live' = live \cup {f}
    BY DEF Lookup, Callable, poolVars
  <1> QED
    BY <1>1, BeginOwnsNone, AccountedSame DEF Accounted

\* Before an attempt is sent, while it waits, and when it fails.
LEMMA AttemptAccounted ==
  ASSUME Accounted, NEW f \in Fibers,
         \/ Recycle(f) \/ TakeNumber(f) \/ NestedCommand(f) \/ NotSent(f) \/ NetworkError(f)
  PROVE  ConnectionsAccounted' /\ UnpinnedWhenEnded'
  <1>1. op \in [Fibers -> Operations] /\ op[f] \in Operations
    BY DEF Accounted, Typed, TypeOK
  <1>2. out' = out /\ txn' = txn /\ live' = live
    BY DEF Recycle, TakeNumber, NestedCommand, NotSent, NetworkError, poolVars
  <1>3. CASE Recycle(f)
    <2>1. PICK o : /\ o \in {Idle, [op[f] EXCEPT !.pc = "number"]}
                   /\ op' = [op EXCEPT ![f] = o]
      BY <1>3 DEF Recycle
    <2>2. op[f].conn = None
      BY <1>3 DEF Recycle, Accounted, Typed, ShapesOK, WellFormed
    <2>3. o.conn = op[f].conn
      BY <1>1, <2>1, <2>2, IdleFits DEF Operations
    <2> QED
      BY <1>2, <2>1, <2>3, ConnsKeptBy, AccountedSame DEF Accounted
  <1>4. CASE NestedCommand(f)
    BY <1>2, <1>4, AccountedSame DEF NestedCommand, ConnsKept
  <1>5. CASE TakeNumber(f)
    <2>1. PICK o : /\ o \in {[op[f] EXCEPT !.pc = "send"],
                             [op[f] EXCEPT !.pc = "ended", !.reply = "unselected"]}
                   /\ op' = [op EXCEPT ![f] = o]
      BY <1>5 DEF TakeNumber
    <2>2. o.conn = op[f].conn
      BY <1>1, <2>1 DEF Operations
    <2> QED
      BY <1>2, <2>1, <2>2, ConnsKeptBy, AccountedSame DEF Accounted
  <1>6. CASE NotSent(f) \/ NetworkError(f)
    <2>1. PICK failure, o : /\ o = [op[f] EXCEPT !.pc = "ended", !.reply = failure]
                            /\ op' = [op EXCEPT ![f] = o]
      BY <1>6 DEF NotSent, NetworkError
    <2>2. o.conn = op[f].conn
      BY <1>1, <2>1 DEF Operations
    <2> QED
      BY <1>2, <2>1, <2>2, ConnsKeptBy, AccountedSame DEF Accounted
  <1> QED
    BY <1>3, <1>4, <1>5, <1>6

LEMMA DropDeadPinAccounted ==
  ASSUME Accounted, NEW f \in Fibers, DropDeadPin(f)
  PROVE  ConnectionsAccounted' /\ UnpinnedWhenEnded'
  <1>1. txn'.conn = None
    BY DEF DropDeadPin, Accounted, Typed, TypeOK, TransactionRecords
  <1> QED
    BY <1>1, AccountedUnpinned DEF DropDeadPin, ConnsKept

\* A connection is taken that nobody has, or the pinned one is used.
LEMMA SendAccounted ==
  ASSUME Accounted, NEW f \in Fibers, Send(f)
  PROVE  ConnectionsAccounted' /\ UnpinnedWhenEnded'
  <1> DEFINE pins == InTransaction(f) /\ Running(txn.state)
             owns(route) == Scene.balanced /\ ~(Explicitly(f) /\ txn.conn = route) /\ ~pins
  <1>0. EnvTyped /\ op \in [Fibers -> Operations] /\ op[f].conn = None /\ live' = live
    BY TypedParts DEF Accounted, Typed, TypeOK, ShapesOK, WellFormed, Send, poolVars
  <1>1. PICK route \in Routes(f) :
          /\ op' = [op EXCEPT ![f] = [@ EXCEPT !.pc = "wait",
                                               !.conn = IF owns(route) THEN route ELSE None]]
          /\ out' = IF Scene.balanced THEN out \cup {route} ELSE out
          /\ txn' = [txn EXCEPT !.pin = IF pins /\ ~Scene.balanced THEN route ELSE @,
                                !.conn = IF pins /\ Scene.balanced THEN route ELSE @,
                                !.begins = @ /\ ~InTransaction(f)]
    BY DEF Send
  <1>2. IF Scene.balanced THEN route \in Conns ELSE route \in Servers
    BY <1>0, RouteTyped
  <1>3. PICK conn : conn = IF owns(route) THEN route ELSE None
    OBVIOUS
  <1>4. PICK pinned : pinned = IF pins /\ Scene.balanced THEN route ELSE txn.conn
    OBVIOUS
  <1>5. \A g \in Fibers : op'[g].conn = IF g = f THEN conn ELSE op[g].conn
    <2>1. PICK o : o = [op[f] EXCEPT !.pc = "wait", !.conn = conn]
      OBVIOUS
    <2>2. op' = [op EXCEPT ![f] = o]
      BY <1>1, <1>3, <2>1
    <2>3. o.conn = conn
      BY <1>0, <2>1 DEF Operations
    <2> QED
      BY <1>0, <2>2, <2>3
  <1>6. txn'.conn = pinned
    <2>1. PICK pin : pin = IF pins /\ ~Scene.balanced THEN route ELSE txn.pin
      OBVIOUS
    <2>2. PICK begins \in BOOLEAN : begins = (txn.begins /\ ~InTransaction(f))
      BY ZenonT(20)
    <2>3. txn' = [txn EXCEPT !.pin = pin, !.conn = pinned, !.begins = begins]
      BY <1>1, <1>4, <2>1, <2>2
    <2> QED
      BY <1>0, <2>3 DEF EnvTyped, TransactionRecords
  <1>7. pins => Explicitly(f)
    BY DEF InTransaction
  <1>8. CASE ~Scene.balanced
    <2>1. conn = None /\ pinned = txn.conn /\ out' = out
      BY <1>1, <1>3, <1>4, <1>8
    <2> QED
      BY <1>0, <1>5, <1>6, <2>1, AccountedSame DEF ConnsKept
  <1>9. CASE Scene.balanced /\ Explicitly(f) /\ txn.conn # None
    <2>1. route = txn.conn
      BY <1>9 DEF Routes
    <2>2. conn = None /\ pinned = txn.conn /\ out' = out \cup {txn.conn}
      BY <1>1, <1>3, <1>4, <1>9, <2>1
    <2>3. txn.conn \in out
      BY <1>9, AccountedParts DEF Accounted
    <2>4. out' = out
      BY <2>2, <2>3
    <2> QED
      BY <1>0, <1>5, <1>6, <2>2, <2>4, AccountedSame DEF ConnsKept
  <1>10. CASE Scene.balanced /\ ~(Explicitly(f) /\ txn.conn # None)
    <2>1. route \in Conns /\ route \notin out /\ route # None
      BY <1>2, <1>10, Distinct DEF Routes
    <2>2. out' = out \cup {route}
      BY <1>1, <1>10
    <2>3. /\ \A k : k \in out <=> k # None /\ (k = txn.conn \/ \E g \in Fibers : op[g].conn = k)
          /\ txn.conn # None => \A g \in Fibers : op[g].conn # txn.conn
          /\ \A g, h \in Fibers : op[g].conn # None /\ op[g].conn = op[h].conn => g = h
      BY AccountedParts DEF Accounted
    <2>4. txn.conn # route /\ \A g \in Fibers : op[g].conn # route
      BY <2>1, <2>3
    <2>5. CASE pins
      <3>1. conn = None /\ pinned = route /\ txn.conn = None
        BY <1>3, <1>4, <1>7, <1>10, <2>5
      <3>2. \A g \in Fibers : op'[g].conn = op[g].conn
        BY <1>0, <1>5, <3>1
      <3>3. \A k : k \in out' <=> k # None /\ (k = txn'.conn \/ \E g \in Fibers : op'[g].conn = k)
        BY <1>6, <2>1, <2>2, <2>3, <3>1, <3>2
      <3>4. Explicit \notin live' => txn'.conn = None
        BY <1>0, <1>7, <2>5, TypedParts DEF Accounted, OpsTyped, Executing, Send
      <3> QED
        BY <1>6, <2>3, <2>4, <3>1, <3>2, <3>3, <3>4, AccountedNext
    <2>6. CASE ~pins
      <3>1. conn = route /\ pinned = txn.conn
        BY <1>3, <1>4, <1>10, <2>4, <2>6
      <3>2. \A k : k \in out' <=> k # None /\ (k = txn'.conn \/ \E g \in Fibers : op'[g].conn = k)
        BY <1>0, <1>5, <1>6, <2>1, <2>2, <2>3, <3>1
      <3>3. txn'.conn # None => \A g \in Fibers : op'[g].conn # txn'.conn
        BY <1>5, <1>6, <2>3, <2>4, <3>1
      <3>4. \A g, h \in Fibers : op'[g].conn # None /\ op'[g].conn = op'[h].conn => g = h
        BY <1>5, <2>3, <2>4, <3>1
      <3>5. Explicit \notin live' => txn'.conn = None
        BY <1>0, <1>6, <3>1 DEF Accounted, UnpinnedWhenEnded
      <3> QED
        BY <3>2, <3>3, <3>4, <3>5, AccountedNext
    <2> QED
      BY <2>5, <2>6
  <1> QED
    BY <1>8, <1>9, <1>10

\* The end of an attempt gives back what it owns, and what the session had pinned
\* if it unpins.
LEMMA AccountedFreed ==
  ASSUME Accounted, NEW f \in Fibers, out' = out \ Freed(f), op'[f].conn = None,
         \A g \in Fibers : g # f => op'[g] = op[g],
         txn'.conn = IF Explicitly(f) /\ Unpins(f) THEN None ELSE txn.conn,
         Explicit \notin live' => Explicit \notin live \/ (Explicitly(f) /\ Unpins(f))
  PROVE  ConnectionsAccounted' /\ UnpinnedWhenEnded'
  <1>1. /\ \A k : k \in out <=> k # None /\ (k = txn.conn \/ \E g \in Fibers : op[g].conn = k)
        /\ txn.conn # None => \A g \in Fibers : op[g].conn # txn.conn
        /\ \A g, h \in Fibers : op[g].conn # None /\ op[g].conn = op[h].conn => g = h
    BY AccountedParts DEF Accounted
  <1>2. Explicit \notin live' => txn'.conn = None
    BY DEF Accounted, UnpinnedWhenEnded
  <1>3. \A g, h \in Fibers : op'[g].conn # None /\ op'[g].conn = op'[h].conn => g = h
    BY <1>1
  <1>4. txn'.conn # None => \A g \in Fibers : op'[g].conn # txn'.conn
    BY <1>1
  <1>5. CASE Explicitly(f) /\ Unpins(f)
    <2>1. \A k : k \in out' <=> k \in out /\ k # op[f].conn /\ k # txn.conn
      BY <1>5 DEF Freed
    <2>2. \A k : k \in out' <=> k # None /\ (k = txn'.conn \/ \E g \in Fibers : op'[g].conn = k)
      BY <1>1, <1>5, <2>1
    <2> QED
      BY <1>2, <1>3, <1>4, <2>2, AccountedNext
  <1>6. CASE ~(Explicitly(f) /\ Unpins(f))
    <2>1. \A k : k \in out' <=> k \in out /\ k # op[f].conn
      BY <1>6 DEF Freed
    <2>2. \A k : k \in out' <=> k # None /\ (k = txn'.conn \/ \E g \in Fibers : op'[g].conn = k)
      BY <1>1, <1>6, <2>1
    <2> QED
      BY <1>2, <1>3, <1>4, <2>2, AccountedNext
  <1> QED
    BY <1>5, <1>6

LEMMA TriedAgainAccounted ==
  ASSUME Accounted, NEW f \in Fibers, TriedAgain(f)
  PROVE  ConnectionsAccounted' /\ UnpinnedWhenEnded'
  <1>1. /\ op \in [Fibers -> Operations] /\ txn \in TransactionRecords
        /\ live' = live /\ out' = out \ Freed(f)
    BY DEF Accounted, Typed, TypeOK, TriedAgain, poolVars
  <1>2. PICK o : o = NextAttempt(op[f]) /\ op' = [op EXCEPT ![f] = o]
    BY DEF TriedAgain
  <1>3. o.conn = None
    BY <1>1, <1>2 DEF NextAttempt, Operations
  <1>4. txn'.conn = IF Explicitly(f) /\ Unpins(f) THEN None ELSE txn.conn
    BY <1>1, UnpinnedTyped DEF TriedAgain
  <1> QED
    BY <1>1, <1>2, <1>3, <1>4, AccountedFreed

\* The abort of a session that ends unpins it.
LEMMA CommandEndsAccounted ==
  ASSUME Accounted, NEW f \in Fibers, CommandEnds(f)
  PROVE  ConnectionsAccounted' /\ UnpinnedWhenEnded'
  <1>1. /\ op \in [Fibers -> Operations] /\ txn \in TransactionRecords
        /\ out' = out \ Freed(f) /\ op' = [op EXCEPT ![f] = Idle]
        /\ op[f].reply # None /\ ~Again(f)
    BY DEF Accounted, Typed, TypeOK, CommandEnds
  <1>2. Executing(f) /\ Fits(op[f])
    BY <1>1, RepliedExecutes, TypedParts DEF Accounted
  <1>3. op'[f].conn = None /\ \A g \in Fibers : g # f => op'[g] = op[g]
    BY <1>1, IdleFits
  <1>4. txn'.conn = IF Explicitly(f) /\ Unpins(f) THEN None ELSE txn.conn
    <2>1. CASE Explicitly(f)
      <3>1. PICK t : t = Settled(txn, Kind(f), op[f].reply)
        OBVIOUS
      <3>2. Kind(f) \in Kinds /\ op[f].reply \in Replies
        BY <1>2 DEF Executing, Fits, Operations
      <3>3. t \in TransactionRecords /\ t.conn = txn.conn
        BY <1>1, <3>1, <3>2, SettledTyped
      <3>4. txn' = IF Unpins(f) THEN Unpinned(t) ELSE t
        BY <2>1, <3>1 DEF CommandEnds
      <3> QED
        BY <2>1, <3>3, <3>4, UnpinnedTyped
    <2>2. CASE ~Explicitly(f)
      BY <2>2 DEF CommandEnds
    <2> QED
      BY <2>1, <2>2
  <1>5. Explicit \notin live' => Explicit \notin live \/ (Explicitly(f) /\ Unpins(f))
    <2>1. CASE live' = live
      BY <2>1
    <2>2. CASE op[f].ends
      <3>1. Kind(f) = "abort" /\ Explicitly(f)
        BY <1>2, <2>2 DEF Fits, Kind, Explicitly
      <3> QED
        BY <1>1, <3>1 DEF Unpins
    <2> QED
      BY <2>1, <2>2 DEF CommandEnds
  <1> QED
    BY <1>1, <1>3, <1>4, <1>5, AccountedFreed

LEMMA DeliverAccounted ==
  ASSUME Accounted, NEW m \in wire, Deliver(m)
  PROVE  ConnectionsAccounted' /\ UnpinnedWhenEnded'
  <1>1. /\ op \in [Fibers -> Operations] /\ m.fiber \in Fibers
        /\ out' = out /\ txn' = txn /\ live' = live
    BY DEF Accounted, Typed, TypeOK, Messages, Deliver, poolVars
  <1>2. PICK reply : op' = op \/ op' = [op EXCEPT ![m.fiber] = [@ EXCEPT !.reply = reply]]
    BY DEF Deliver, Take
  <1>3. ConnsKept
    <2>1. CASE op' = op
      BY <2>1 DEF ConnsKept
    <2>2. CASE op' = [op EXCEPT ![m.fiber] = [@ EXCEPT !.reply = reply]]
      <3>1. PICK o : o = [op[m.fiber] EXCEPT !.reply = reply]
        OBVIOUS
      <3>2. o.conn = op[m.fiber].conn
        BY <1>1, <3>1 DEF Operations
      <3> QED
        BY <1>1, <2>2, <3>1, <3>2, ConnsKeptBy DEF Accounted
    <2> QED
      BY <1>2, <2>1, <2>2
  <1> QED
    BY <1>1, <1>3, AccountedSame

LEMMA OwnerAccounted ==
  ASSUME Accounted, Statement \/ PlainWrite \/ Commit
  PROVE  ConnectionsAccounted' /\ UnpinnedWhenEnded'
  <1>0. Typed /\ txn \in TransactionRecords /\ Owner \in Fibers
    BY Distinct DEF Accounted, Typed, TypeOK
  <1>1. /\ op[Owner].pc = "idle" /\ live' = live
        /\ \E kind, pc : Begin(Owner, kind, Explicit, pc)
    BY DEF Statement, PlainWrite, Commit, MayCommit, ByCalls, OwnerIdle, poolVars
  <1>2. ConnsKept
    BY <1>0, <1>1, BeginOwnsNone
  <1>3. CASE Statement
    <2>1. txn'.conn = txn.conn /\ out' = out
      BY <1>0, <1>3 DEF Statement, TransactionRecords
    <2> QED
      BY <1>1, <1>2, <2>1, AccountedSame
  <1>4. CASE Commit
    <2>1. txn'.conn = txn.conn /\ out' = out
      BY <1>0, <1>4 DEF Commit, TransactionRecords
    <2> QED
      BY <1>1, <1>2, <2>1, AccountedSame
  <1>5. CASE PlainWrite
    <2>1. txn'.conn = None /\ out' = out \ {txn.conn}
      BY <1>0, <1>5, PlainWriteTyped DEF PlainWrite
    <2> QED
      BY <1>2, <2>1, AccountedUnpinned
  <1> QED
    BY <1>3, <1>4, <1>5

\* What an abort, sent or not, and the end of a session leave checked out.
LEMMA AbortAccounted ==
  ASSUME Accounted, OwnerIdle,
         \/ \E ends \in BOOLEAN : AbortSent(ends) /\ live' = live
         \/ AbortUnsent
         \/ UNCHANGED op /\ txn' = Unpinned(txn) /\ out' = out \ {txn.conn}
  PROVE  ConnectionsAccounted' /\ UnpinnedWhenEnded'
  <1>0. Typed /\ txn \in TransactionRecords /\ Owner \in Fibers /\ op[Owner].pc = "idle"
    BY Distinct DEF Accounted, Typed, TypeOK, OwnerIdle
  <1>1. CASE \E ends \in BOOLEAN : AbortSent(ends) /\ live' = live
    <2>5. PICK ends \in BOOLEAN : AbortSent(ends) /\ live' = live
      BY <1>1
    <2>1. PICK o :
            /\ AbortSent(ends) /\ live' = live
            /\ o = [Idle EXCEPT !.kind = "abort", !.session = Explicit, !.pc = "send", !.ends = ends]
            /\ op' = [op EXCEPT ![Owner] = o]
      BY <2>5 DEF AbortSent
    <2>2. o.conn = None
      BY <2>1 DEF Idle
    <2>3. ConnsKept
      BY <1>0, <2>1, <2>2, IdleOwnsNone, ConnsKeptBy
    <2>4. txn'.conn = txn.conn /\ out' = out
      BY <1>0, <2>1 DEF AbortSent, TransactionRecords
    <2> QED
      BY <2>1, <2>3, <2>4, AccountedSame
  <1>2. CASE AbortUnsent
    <2>1. PICK t \in TransactionRecords : t = Unpinned(txn) /\ t.conn = None
      BY <1>0, UnpinnedTyped
    <2>2. PICK state \in States : state = After(txn.state, "abort")
      BY AfterTyped
    <2>3. PICK u : u = [t EXCEPT !.state = state]
      OBVIOUS
    <2>4. u \in TransactionRecords /\ u.conn = None
      BY <2>1, <2>3 DEF TransactionRecords
    <2>5. txn' = Tells(u, "aborted") \/ txn' = t
      BY <1>2, <2>1, <2>2, <2>3 DEF AbortUnsent
    <2>6. txn'.conn = None
      BY <2>1, <2>4, <2>5, TellsTyped
    <2> QED
      BY <1>2, <2>6, AccountedUnpinned DEF AbortUnsent, ConnsKept
  <1>3. CASE UNCHANGED op /\ txn' = Unpinned(txn) /\ out' = out \ {txn.conn}
    BY <1>0, <1>3, UnpinnedTyped, AccountedUnpinned DEF ConnsKept
  <1> QED
    BY <1>1, <1>2, <1>3

LEMMA QuietAccounted ==
  ASSUME Accounted,
         \/ StartSession \/ CommitEmpty \/ BodyEnds \/ EndFiberSessions \/ ClosePool
         \/ UNCHANGED vars
  PROVE  ConnectionsAccounted' /\ UnpinnedWhenEnded'
  <1>1. op' = op /\ out' = out
    BY DEF StartSession, CommitEmpty, BodyEnds, EndFiberSessions, ClosePool, vars
  <1>2. txn'.conn = txn.conn
    BY CommitEmptyTyped DEF Accounted, StartSession, BodyEnds, EndFiberSessions, ClosePool, vars
  <1>3. Explicit \in live => Explicit \in live'
    BY Distinct DEF StartSession, CommitEmpty, BodyEnds, EndFiberSessions, ClosePool, vars, poolVars
  <1> QED
    BY <1>1, <1>2, <1>3, AccountedSame DEF ConnsKept

LEMMA NextAccounted ==
  ASSUME Accounted, [Next]_vars
  PROVE  Accounted'
  <1>0. Typed'
    BY NextTyped DEF Accounted
  <1>1. ASSUME NEW f \in Fibers, Attempts(f)
        PROVE  ConnectionsAccounted' /\ UnpinnedWhenEnded'
    BY <1>1, AttemptAccounted, DropDeadPinAccounted, SendAccounted, TriedAgainAccounted,
       CommandEndsAccounted DEF Attempts
  <1>2. CASE StartTransaction
    <2>1. txn'.conn = None
      BY <1>2 DEF StartTransaction, NoTransaction
    <2> QED
      BY <1>0, <1>2, <2>1, AccountedUnpinned DEF StartTransaction, ConnsKept, Accounted
  <1>3. CASE Abort
    <2>1. OwnerIdle /\ live' = live
      BY <1>3 DEF Abort, MayAbort, ByCalls, poolVars
    <2> QED
      BY <1>0, <1>3, <2>1, AbortAccounted DEF Abort, Accounted
  <1>4. CASE EndSession
    BY <1>0, <1>4, AbortAccounted DEF EndSession, Accounted
  <1> QED
    BY <1>0, <1>1, <1>2, <1>3, <1>4, LookupAccounted, DeliverAccounted, OwnerAccounted,
       QuietAccounted DEF Next, Accounted

LEMMA InitAccounted ==
  ASSUME Init
  PROVE  Accounted
  <1>1. /\ txn.conn = None /\ out = {} /\ \A f \in Fibers : op[f].conn = None
    BY IdleFits DEF Init, NoTransaction
  <1> QED
    BY <1>1, InitTyped DEF Accounted, ConnectionsAccounted, UnpinnedWhenEnded

\* A connection is checked out exactly while one command or the transaction's pin
\* holds it, and a session that ended holds none, whatever fails in between.
THEOREM SessionsConnectionsAccounted == Spec => []ConnectionsAccounted
  <1>1. Init => Accounted
    BY InitAccounted
  <1>2. Accounted /\ [Next]_vars => Accounted'
    BY NextAccounted
  <1>3. Accounted => ConnectionsAccounted
    BY DEF Accounted
  <1> QED
    BY <1>1, <1>2, <1>3, PTL DEF Spec

-----------------------------------------------------------------------------
(* Nobody knows a number that was not given out *)

\* Numbers only grow, and nothing new is sent or recorded.
LEMMA GivenGrows ==
  ASSUME Typed, NumbersGiven, wire' \subseteq wire, mongod' = mongod,
         number' \in [Lsids -> Nat], \A l \in Lsids : number'[l] >= number[l]
  PROVE  NumbersGiven'
  <1>1. wire \subseteq Messages /\ number \in [Lsids -> Nat] /\ mongod \in [Lsids -> Records]
    BY DEF Typed, TypeOK
  <1>2. ASSUME NEW m \in wire' PROVE m.number <= number'[m.lsid]
    <2>1. /\ m.lsid \in Lsids /\ m.number \in Nat /\ m.number <= number[m.lsid]
      BY <1>1 DEF NumbersGiven, Messages
    <2>2. number[m.lsid] \in Nat /\ number'[m.lsid] \in Nat /\ number'[m.lsid] >= number[m.lsid]
      BY <1>1, <2>1
    <2> QED
      BY <2>1, <2>2
  <1>3. ASSUME NEW l \in Lsids PROVE mongod'[l].number <= number'[l]
    <2>1. mongod[l].number <= number[l] /\ mongod[l].number \in Int
      BY <1>1 DEF NumbersGiven, Records
    <2>2. number[l] \in Nat /\ number'[l] \in Nat /\ number'[l] >= number[l]
      BY <1>1
    <2> QED
      BY <2>1, <2>2
  <1> QED
    BY <1>2, <1>3 DEF NumbersGiven

LEMMA GivenSame ==
  ASSUME Typed, NumbersGiven, wire' \subseteq wire, mongod' = mongod, number' = number
  PROVE  NumbersGiven'
  BY DEF Typed, TypeOK, NumbersGiven

\* What acquire leaves alone: the numbers and records of what is held or on its way.
LEMMA AcquireForgets ==
  ASSUME Typed, NEW c \in Sessions, NEW q \in Seq(Lsids), Acquire(c, q)
  PROVE  /\ \A d \in Sessions : d # c => held'[d] = held[d]
         /\ \A l \in Lsids :
              \/ number'[l] = number[l] /\ mongod'[l] = mongod[l]
              \/ Forgotten(l) /\ number'[l] = 0 /\ mongod'[l].number = -1
  <1>1. /\ PoolTyped /\ number \in [Lsids -> Nat] /\ mongod \in [Lsids -> Records]
    BY TypedParts DEF PoolTyped
  <1>2. \A d \in Sessions : d # c => held'[d] = held[d]
    BY <1>1, AcquireTyped
  <1>3. AcquiredFrom(c, q)
    BY AcquireCases
  <1>4. ASSUME NEW new \in Lsids, Forgotten(new),
               number' = [number EXCEPT ![new] = 0],
               mongod' = [mongod EXCEPT ![new] = NewRecord]
        PROVE  \A l \in Lsids :
                 \/ number'[l] = number[l] /\ mongod'[l] = mongod[l]
                 \/ Forgotten(l) /\ number'[l] = 0 /\ mongod'[l].number = -1
    BY <1>1, <1>4 DEF NewRecord
  <1> QED
    BY <1>2, <1>3, <1>4 DEF AcquiredFrom

LEMMA GivenAcquire ==
  ASSUME Typed, NumbersGiven, NEW c \in Sessions, NEW q \in Seq(Lsids), Acquire(c, q),
         wire' = wire
  PROVE  NumbersGiven'
  <1>1. wire \subseteq Messages /\ number \in [Lsids -> Nat] /\ mongod \in [Lsids -> Records]
    BY DEF Typed, TypeOK
  <1>2. \A l \in Lsids :
          \/ number'[l] = number[l] /\ mongod'[l] = mongod[l]
          \/ Forgotten(l) /\ number'[l] = 0 /\ mongod'[l].number = -1
    BY AcquireForgets
  <1>3. ASSUME NEW m \in wire PROVE m.number <= number'[m.lsid]
    <2>1. m.lsid \in Lsids /\ ~Forgotten(m.lsid)
      BY <1>1 DEF Messages, Forgotten
    <2> QED
      BY <1>2, <2>1 DEF NumbersGiven
  <1>4. \A l \in Lsids : mongod'[l].number <= number'[l]
    BY <1>2 DEF NumbersGiven
  <1> QED
    BY <1>3, <1>4 DEF NumbersGiven

LEMMA GivenExchange ==
  ASSUME Typed, NumbersGiven, NEW f \in Fibers, f \in live, Exchange(f), wire' = wire
  PROVE  NumbersGiven'
  <1>1. PICK q \in Returned(held[f], free) : Acquire(f, q)
    BY DEF Exchange
  <1>2. q \in Seq(Lsids) /\ f \in Sessions
    BY <1>1, ReturnedQueue DEF Typed, TypeOK
  <1> QED
    BY <1>1, <1>2, GivenAcquire

\* What a message can make of a record.
LEMMA EffectRecord ==
  ASSUME NEW m \in Messages, NEW r \in Records,
         NEW e \in Normal(m, r) \cup Failing(m, r)
  PROVE  /\ e.record.number >= r.number
         /\ e.record.number = r.number \/ e.record.number = m.number
         /\ e.record.state = "wrote" => e.record = r \/ m.kind = "write"
         /\ m.kind = "write" /\ e.record # r =>
              m.number > r.number /\ e.record.number = m.number /\ e.record.state = "wrote"
         /\ m.kind = "write" /\ e.record = r /\ e.reply = "ok" =>
              r.number = m.number /\ r.state = "wrote"
  <1> DEFINE Good(x) ==
        /\ x.record.number >= r.number
        /\ x.record.number = r.number \/ x.record.number = m.number
        /\ x.record.state = "wrote" => x.record = r \/ m.kind = "write"
        /\ m.kind = "write" /\ x.record # r =>
             m.number > r.number /\ x.record.number = m.number /\ x.record.state = "wrote"
        /\ m.kind = "write" /\ x.record = r /\ x.reply = "ok" =>
             r.number = m.number /\ r.state = "wrote"
  <1>0. m.number \in Nat /\ r.number \in Int /\ m.kind \in Kinds
    BY DEF Messages, Records
  <1>1. ASSUME NEW x \in OnWrite(m, r), m.kind = "write" PROVE Good(x)
    BY <1>0, <1>1 DEF OnWrite, Effect
  <1>2. ASSUME NEW x \in OnStatement(m, r), m.kind = "statement" PROVE Good(x)
    BY <1>0, <1>2 DEF OnStatement, Effect, Records
  <1>3. ASSUME NEW x \in OnCommit(m, r), m.kind = "commit" PROVE Good(x)
    BY <1>0, <1>3 DEF OnCommit, Effect, Records
  <1>4. ASSUME NEW x \in OnAbort(m, r), m.kind = "abort" PROVE Good(x)
    BY <1>0, <1>4 DEF OnAbort, Effect, Records
  <1>5. ASSUME NEW x \in Normal(m, r) PROVE Good(x)
    BY <1>0, <1>1, <1>2, <1>3, <1>4, <1>5 DEF Normal, Kinds
  <1>6. ASSUME NEW x \in Failing(m, r) PROVE Good(x)
    <2> DEFINE lost == IF m.number = r.number /\ r.state = "open"
                       THEN [r EXCEPT !.state = "aborted"] ELSE r
               good == {y \in Normal(m, r) : y.reply = "ok"}
    <2>1. lost.number = r.number /\ (lost.state = "wrote" => lost = r)
      BY DEF Records
    <2>2. good \subseteq Effects
      BY NormalTyped
    <2>3. \A y \in good : Good(y)
      BY <1>5
    <2> HIDE DEF lost, good
    <2>4. x \in {Effect(r, "overload")}
            \cup (IF m.kind = "statement" THEN {} ELSE {Effect(r, "retryable")})
            \cup (IF m.kind = "statement" THEN {Effect(lost, "refused")} ELSE {Effect(r, "refused")})
            \cup (IF m.kind \in {"statement", "commit"} /\ lost # r
                  THEN {Effect(lost, "noTransaction")} ELSE {})
            \cup (IF m.kind \in {"write", "commit"}
                  THEN {[y EXCEPT !.reply = "retryable"] : y \in good} ELSE {})
            \cup (IF m.kind \in {"write", "statement"}
                  THEN {[y EXCEPT !.reply = "local"] : y \in good} ELSE {})
      BY <1>6 DEF Failing, lost, good
    <2>5. CASE /\ \E reply \in {"overload", "retryable", "refused"} : x = Effect(r, reply)
      BY <1>0, <2>5 DEF Effect
    <2>6. CASE /\ m.kind # "write"
               /\ \E reply \in {"refused", "noTransaction"} : x = Effect(lost, reply)
      BY <1>0, <2>1, <2>6 DEF Effect
    <2>7. CASE \E y \in good : \E reply \in {"retryable", "local"} : x = [y EXCEPT !.reply = reply]
      <3>1. PICK y \in good, reply \in {"retryable", "local"} : x = [y EXCEPT !.reply = reply]
        BY <2>7
      <3>2. x.record = y.record /\ x.reply = reply
        BY <2>2, <3>1 DEF Effects
      <3> QED
        BY <2>3, <3>1, <3>2
    <2> QED
      BY <2>4, <2>5, <2>6, <2>7
  <1>7. Good(e)
    BY <1>5, <1>6
  <1> QED
    BY <1>7

\* What has become of a message does not go beyond it.
LEMMA GivenDeliver ==
  ASSUME Typed, NumbersGiven, NEW m \in wire, Deliver(m)
  PROVE  NumbersGiven'
  <1>1. PICK e \in Effects : /\ e \in Normal(m, mongod[m.lsid]) \cup Failing(m, mongod[m.lsid])
                             /\ Take(m, e)
    BY DeliveredEffect
  <1>2. mongod[m.lsid] \in Records /\ m \in Messages
    BY DeliveredEffect
  <1>3. e.record.number = mongod[m.lsid].number \/ e.record.number = m.number
    BY <1>1, <1>2, EffectRecord
  <1>4. /\ mongod \in [Lsids -> Records] /\ m.lsid \in Lsids
        /\ mongod' = [mongod EXCEPT ![m.lsid] = e.record]
        /\ wire' \subseteq wire /\ number' = number
    BY <1>1, <1>2 DEF Take, Deliver, Typed, TypeOK, Messages
  <1>5. ASSUME NEW l \in Lsids PROVE mongod'[l].number <= number'[l]
    <2>1. CASE l = m.lsid
      <3>1. mongod'[l] = e.record
        BY <1>4, <2>1
      <3> QED
        BY <1>3, <1>4, <2>1, <3>1 DEF NumbersGiven
    <2>2. CASE l # m.lsid
      BY <1>4, <2>2 DEF NumbersGiven
    <2> QED
      BY <2>1, <2>2
  <1> QED
    BY <1>4, <1>5 DEF NumbersGiven

\* What is sent has the number its session has.
LEMMA GivenSend ==
  ASSUME Typed, NumbersGiven, NEW f \in Fibers, Send(f)
  PROVE  NumbersGiven'
  <1>1. op[f].pc # "idle" /\ UNCHANGED <<number, mongod>>
    BY DEF Send
  <1>2. PICK route \in Routes(f) : wire' = wire \cup {Message(f, route)}
    BY DEF Send
  <1>3. PICK m : m = Message(f, route) /\ wire' = wire \cup {m}
    BY <1>2
  <1>5. m.lsid = Lsid(f) /\ m.number = number[Lsid(f)]
    BY <1>1, <1>3, MessageTyped
  <1>4. m.number <= number[m.lsid]
    <2>1. number[Lsid(f)] \in Nat
      BY <1>1, TypedParts DEF PoolTyped, OpsTyped, Executing
    <2> QED
      BY <1>5, <2>1
  <1> QED
    BY <1>1, <1>3, <1>4 DEF NumbersGiven

\* A number is taken by counting up.
LEMMA GivenCounts ==
  ASSUME Typed, NumbersGiven, NEW l \in Lsids, number' = [number EXCEPT ![l] = @ + 1],
         wire' = wire, mongod' = mongod
  PROVE  NumbersGiven'
  <1>1. number \in [Lsids -> Nat]
    BY DEF Typed, TypeOK
  <1>2. number' \in [Lsids -> Nat] /\ \A k \in Lsids : number'[k] >= number[k]
    BY <1>1
  <1> QED
    BY <1>2, GivenGrows

LEMMA AttemptsGiven ==
  ASSUME Typed, NumbersGiven, NEW f \in Fibers, Attempts(f)
  PROVE  NumbersGiven'
  <1>1. CASE Recycle(f)
    <2>1. CASE f \in live /\ Exchange(f)
      BY <1>1, <2>1, GivenExchange DEF Recycle
    <2>2. CASE UNCHANGED <<free, held, dirty, number, mongod>>
      BY <1>1, <2>2, GivenSame DEF Recycle
    <2> QED
      BY <1>1, <2>1, <2>2 DEF Recycle
  <1>2. CASE TakeNumber(f)
    <2>1. Lsid(f) \in Lsids /\ wire' = wire /\ mongod' = mongod
      BY <1>2, TypedParts DEF TakeNumber, OpsTyped, Executing, serverVars
    <2>2. PICK l \in Lsids : l = Lsid(f)
      BY <2>1
    <2>3. number' = number \/ number' = [number EXCEPT ![l] = @ + 1]
      BY <1>2, <2>2 DEF TakeNumber
    <2> QED
      BY <2>1, <2>3, GivenSame, GivenCounts
  <1>3. CASE NestedCommand(f)
    BY <1>3, GivenExchange DEF NestedCommand
  <1>4. CASE Send(f)
    BY <1>4, GivenSend
  <1>5. CASE DropDeadPin(f) \/ NotSent(f) \/ NetworkError(f) \/ TriedAgain(f) \/ CommandEnds(f)
    <2>1. wire' \subseteq wire /\ UNCHANGED <<number, mongod>>
      BY <1>5 DEF DropDeadPin, NotSent, NetworkError, TriedAgain, CommandEnds, serverVars
    <2> QED
      BY <2>1, GivenSame
  <1> QED
    BY <1>1, <1>2, <1>3, <1>4, <1>5 DEF Attempts

LEMMA NextGiven ==
  ASSUME Typed, NumbersGiven, [Next]_vars
  PROVE  NumbersGiven'
  <1>1. ASSUME NEW f \in Fibers, Lookup(f) PROVE NumbersGiven'
    <2>1. wire' = wire /\ f \in Sessions /\ free \in Seq(Lsids)
      BY <1>1, Distinct DEF Lookup, Typed, TypeOK
    <2>2. Acquire(f, free) \/ UNCHANGED <<number, mongod>>
      BY <1>1 DEF Lookup
    <2> QED
      BY <2>1, <2>2, GivenAcquire, GivenSame
  <1>2. CASE StartSession
    BY <1>2, Distinct, GivenAcquire DEF StartSession, Typed, TypeOK
  <1>3. CASE StartTransaction
    <2>1. held[Explicit] \in Lsids /\ wire' = wire /\ mongod' = mongod
      BY <1>3 DEF StartTransaction, OwnerIdle, serverVars, Typed, TypeOK
    <2>2. PICK l \in Lsids : l = held[Explicit]
      BY <2>1
    <2>3. number' = [number EXCEPT ![l] = @ + 1]
      BY <1>3, <2>2 DEF StartTransaction
    <2> QED
      BY <2>1, <2>3, GivenCounts
  <1>4. CASE \/ Statement \/ PlainWrite \/ Commit \/ CommitEmpty \/ Abort \/ BodyEnds
             \/ EndSession \/ EndFiberSessions \/ ClosePool \/ UNCHANGED vars
    <2>1. wire' \subseteq wire /\ UNCHANGED <<number, mongod>>
      BY <1>4 DEF Statement, PlainWrite, Commit, CommitEmpty, Abort, BodyEnds, EndSession,
         EndFiberSessions, ClosePool, vars, serverVars
    <2> QED
      BY <2>1, GivenSame
  <1> QED
    BY <1>1, <1>2, <1>3, <1>4, AttemptsGiven, GivenDeliver DEF Next

-----------------------------------------------------------------------------
(* Each write once *)

\* What a step of f, of the server or of the application does to the others: it
\* leaves a fiber and what it works on alone.
Alone(g) ==
  /\ op'[g] = op[g] /\ fate'[g] = fate[g]
  /\ op[g].pc # "idle" =>
       /\ held'[op[g].session] = held[op[g].session]
       /\ number'[Lsid(g)] = number[Lsid(g)] /\ mongod'[Lsid(g)] = mongod[Lsid(g)]

\* No call is applied, and none is taken back.
AppliedKept ==
  \A g \in Fibers :
    /\ Len(fate'[g]) >= Len(fate[g])
    /\ \A i \in 1 .. Len(fate[g]) : fate'[g][i].applied = fate[g][i].applied

\* The records of the messages on their way stay.
RecordsKept == \A m \in wire' : mongod'[m.lsid] = mongod[m.lsid]

\* While the client is open, fibers work on server sessions of their own.
LEMMA OwnSession ==
  ASSUME Holders, closer = "open", NEW f \in Fibers, op[f].pc # "idle"
  PROVE  /\ op[f].session \in live /\ op[f].session \in {f, Explicit}
         /\ op[f].session = Explicit => f = Owner
         /\ \A c \in live : c # op[f].session => held[c] # Lsid(f)
         /\ \A g \in Fibers : g # f /\ op[g].pc # "idle" => Lsid(g) # Lsid(f)
  <1>1. \A g \in Fibers : op[g].pc # "idle" =>
          op[g].session \in live /\ op[g].session \in {g, Explicit}
          /\ (op[g].session = Explicit => g = Owner)
    BY TypedParts DEF Holders, OpsTyped, Executing, Explicitly, OnLiveSessions
  <1>2. \A c, d \in live : held[c] = held[d] => c = d
    BY DEF Holders, OneHolder
  <1>3. ASSUME NEW g \in Fibers, g # f, op[g].pc # "idle" PROVE Lsid(g) # Lsid(f)
    <2>1. op[g].session # op[f].session
      BY <1>1, <1>3, Distinct
    <2> QED
      BY <1>1, <1>2, <1>3, <2>1 DEF Lsid
  <1> QED
    BY <1>1, <1>2, <1>3 DEF Lsid

\* A fiber that is idle has nothing to lose.
LEMMA IdleExact ==
  ASSUME NEW g \in Fibers, op[g] = Idle
  PROVE  FiberExact(g)
  BY IdleFits, FiberAssumption DEF FiberExact, Numbered, Kind

LEMMA IdleExactNext ==
  ASSUME NEW g \in Fibers, op'[g] = Idle
  PROVE  FiberExact(g)'
  BY IdleFits, FiberAssumption DEF FiberExact, Numbered, Kind

LEMMA AloneExact ==
  ASSUME Typed, NEW g \in Fibers, FiberExact(g), Alone(g), wire' \subseteq wire
  PROVE  FiberExact(g)'
  <1>1. CASE op[g].pc = "idle"
    BY <1>1, IdleExactNext, TypedParts DEF OpsTyped, WellFormed, Alone
  <1>2. CASE op[g].pc # "idle"
    <2>1. /\ Lsid(g)' = Lsid(g) /\ Serial(g)' = Serial(g) /\ Kind(g)' = Kind(g)
          /\ number'[Lsid(g)] = number[Lsid(g)] /\ mongod'[Lsid(g)] = mongod[Lsid(g)]
          /\ op'[g] = op[g] /\ fate'[g] = fate[g]
      BY <1>2 DEF Alone, Lsid, Serial, Kind
    <2>2. \A m \in wire' : m \in wire /\ (SameNumber(m, g)' <=> SameNumber(m, g))
                                     /\ (OfCall(m, g)' <=> OfCall(m, g))
      BY <2>1 DEF SameNumber, OfCall
    <2>3. Numbered(g)' <=> Numbered(g)
      BY <2>1 DEF Numbered
    <2>4. Applied(g, Serial(g))' = Applied(g, Serial(g))
      BY <2>1 DEF Applied
    <2>5. Agrees(mongod[Lsid(g)], number[Lsid(g)], Applied(g, Serial(g)))' <=>
          Agrees(mongod[Lsid(g)], number[Lsid(g)], Applied(g, Serial(g)))
      BY <2>1, <2>4 DEF Agrees, Wrote
    <2> QED
      BY <2>1, <2>2, <2>3, <2>4, <2>5 DEF FiberExact
  <1> QED
    BY <1>1, <1>2

\* A step of f that applies nothing and leaves the other fibers alone.
LEMMA ExactStep ==
  ASSUME Typed, Exact, NEW f \in Fibers, \A g \in Fibers : g # f => Alone(g),
         wire' \subseteq wire, RecordsKept, AppliedKept,
         FiberExact(f)', \A i \in 1 .. Len(fate'[f]) : CallExact(fate'[f][i])
  PROVE  Exact'
  <1>1. \A g \in Fibers : FiberExact(g)'
    BY AloneExact DEF Exact
  <1>2. ASSUME NEW m \in wire' PROVE MessageExact(m)'
    <2>1. MessageExact(m) /\ m \in wire /\ m.fiber \in Fibers /\ Carries(m)
      BY DEF Exact, Typed, TypeOK, ShapesOK, Messages
    <2>2. Applied(m.fiber, m.serial)' = Applied(m.fiber, m.serial)
      BY <2>1 DEF Applied, AppliedKept, Carries
    <2>3. mongod'[m.lsid] = mongod[m.lsid]
      BY DEF RecordsKept
    <2> QED
      BY <2>1, <2>2, <2>3 DEF MessageExact, Agrees, Wrote
  <1>3. NumbersOwned'
    BY DEF Exact, NumbersOwned
  <1>4. ASSUME NEW g \in Fibers PROVE \A i \in 1 .. Len(fate'[g]) : CallExact(fate'[g][i])
    <2>1. CASE g # f
      BY <2>1 DEF Alone, Exact
    <2> QED
      BY <2>1
  <1> QED
    BY <1>1, <1>2, <1>3, <1>4 DEF Exact

\* The same of a step that leaves every fiber and all calls alone.
LEMMA ExactSame ==
  ASSUME Typed, Exact, \A g \in Fibers : Alone(g), wire' \subseteq wire, RecordsKept
  PROVE  Exact'
  <1>1. AppliedKept
    <2>1. \A g \in Fibers : Len(fate[g]) \in Nat /\ fate'[g] = fate[g]
      BY LenProperties, TypedParts DEF CallsTyped, Alone
    <2> QED
      BY <2>1 DEF AppliedKept
  <1>2. Owner \in Fibers
    BY Distinct
  <1>3. FiberExact(Owner)'
    BY <1>2, AloneExact DEF Exact
  <1>4. \A i \in 1 .. Len(fate'[Owner]) : CallExact(fate'[Owner][i])
    BY <1>2 DEF Alone, Exact
  <1> QED
    BY <1>1, <1>2, <1>3, <1>4, ExactStep

\* f's calls, and one more that was not applied.
LEMMA AppliedAppend ==
  ASSUME Typed, Exact, NEW f \in Fibers, NEW k \in Calls, CallExact(k),
         fate' = [fate EXCEPT ![f] = Append(@, k)]
  PROVE  /\ AppliedKept /\ Serial(f)' = Len(fate[f]) + 1 /\ Len(fate[f]) \in Nat
         /\ fate'[f][Serial(f)'] = k
         /\ \A g \in Fibers : g # f => fate'[g] = fate[g]
         /\ \A i \in 1 .. Len(fate'[f]) : CallExact(fate'[f][i])
  <1>1. fate \in [Fibers -> Seq(Calls)] /\ \A g \in Fibers : Len(fate[g]) \in Nat
    BY LenProperties, TypedParts DEF CallsTyped
  <1>2. fate'[f] = Append(fate[f], k) /\ \A g \in Fibers : g # f => fate'[g] = fate[g]
    BY <1>1
  <1>3. /\ Len(fate'[f]) = Len(fate[f]) + 1 /\ fate'[f][Len(fate[f]) + 1] = k
        /\ \A i \in 1 .. Len(fate[f]) : fate'[f][i] = fate[f][i]
    BY <1>1, <1>2, AppendProperties
  <1>4. \A i \in 1 .. Len(fate'[f]) : CallExact(fate'[f][i])
    <2>1. \A i \in 1 .. Len(fate[f]) : CallExact(fate[f][i])
      BY DEF Exact
    <2>2. \A i \in 1 .. Len(fate'[f]) : i \in 1 .. Len(fate[f]) \/ i = Len(fate[f]) + 1
      BY <1>1, <1>3
    <2> QED
      BY <1>3, <2>1, <2>2
  <1>5. AppliedKept
    <2>1. ASSUME NEW g \in Fibers
          PROVE  /\ Len(fate'[g]) >= Len(fate[g])
                 /\ \A i \in 1 .. Len(fate[g]) : fate'[g][i].applied = fate[g][i].applied
      <3>1. CASE g = f
        BY <1>1, <1>3, <3>1
      <3>2. CASE g # f
        BY <1>1, <1>2, <3>2
      <3> QED
        BY <3>1, <3>2
    <2> QED
      BY <2>1 DEF AppliedKept
  <1> QED
    BY <1>1, <1>2, <1>3, <1>4, <1>5 DEF Serial

\* A command begins with a call that is not applied and that no message carries.
LEMMA BeginExact ==
  ASSUME Typed, Exact, NEW f \in Fibers, NEW kind \in Kinds, NEW session,
         NEW pc \in {"recycle", "number", "send"}, kind = "write" => pc # "send",
         kind # "write" => pc = "send",
         Begin(f, kind, session, pc), wire' = wire
  PROVE  /\ FiberExact(f)' /\ AppliedKept
         /\ \A g \in Fibers : g # f => op'[g] = op[g] /\ fate'[g] = fate[g]
         /\ \A i \in 1 .. Len(fate'[f]) : CallExact(fate'[f][i])
  <1>1. PICK k \in Calls : k = NewCall(kind) /\ k.applied = 0 /\ k.done = FALSE
    BY NewCallTyped
  <1>2. CallExact(k)
    BY <1>1 DEF CallExact
  <1>3. fate' = [fate EXCEPT ![f] = Append(@, k)]
    BY <1>1 DEF Begin
  <1>4. /\ AppliedKept /\ Serial(f)' = Len(fate[f]) + 1 /\ Len(fate[f]) \in Nat
        /\ fate'[f][Serial(f)'] = k
        /\ \A g \in Fibers : g # f => fate'[g] = fate[g]
        /\ \A i \in 1 .. Len(fate'[f]) : CallExact(fate'[f][i])
    BY <1>2, <1>3, AppliedAppend
  <1>5. PICK o : o = [Idle EXCEPT !.kind = kind, !.session = session, !.pc = pc]
    OBVIOUS
  <1>6. op' = [op EXCEPT ![f] = o] /\ op \in [Fibers -> Operations]
    BY <1>5 DEF Begin, Typed, TypeOK
  <1>7. op'[f] = o /\ o.kind = kind /\ o.pc = pc /\ o.reply = None
        /\ \A g \in Fibers : g # f => op'[g] = op[g]
    BY <1>5, <1>6 DEF Idle
  <1>8. \A m \in wire' : ~OfCall(m, f)'
    <2>1. ASSUME NEW m \in wire', OfCall(m, f)' PROVE FALSE
      <3>1. Carries(m) /\ m.fiber = f /\ m.serial = Len(fate[f]) + 1
        BY <1>4, <2>1 DEF OfCall, Typed, ShapesOK
      <3> QED
        BY <1>4, <3>1 DEF Carries
    <2> QED
      BY <2>1
  <1>9. Applied(f, Serial(f))' = 0
    BY <1>1, <1>4 DEF Applied
  <1>10. ~Numbered(f)'
    BY <1>7 DEF Numbered, Kind
  <1>11. FiberExact(f)'
    BY <1>7, <1>8, <1>9, <1>10, FiberAssumption DEF FiberExact
  <1> QED
    BY <1>4, <1>7, <1>11

LEMMA OthersAlone ==
  ASSUME Typed, NEW f \in Fibers, NEW o, op' = [op EXCEPT ![f] = o],
         UNCHANGED <<held, number, mongod>>, \A g \in Fibers : g # f => fate'[g] = fate[g]
  PROVE  op'[f] = o /\ \A g \in Fibers : g # f => Alone(g)
  BY DEF Alone, Typed, TypeOK

LEMMA AllKept ==
  ASSUME Typed, fate' = fate
  PROVE  AppliedKept
  <1>1. \A g \in Fibers : Len(fate[g]) \in Nat
    BY LenProperties, TypedParts DEF CallsTyped
  <1> QED
    BY <1>1 DEF AppliedKept

\* f goes on, or fails, with what it has.
LEMMA AdvanceExact ==
  ASSUME Typed, Exact, NEW f \in Fibers,
         UNCHANGED <<held, number, mongod, fate>>, wire' \subseteq wire,
         NEW o, op' = [op EXCEPT ![f] = o], o.kind = op[f].kind, o.session = op[f].session,
         op[f].pc # "idle", o.pc # "idle", o.reply # "ok", Numbered(f)' => Numbered(f),
         o.pc \in {"recycle", "number"} <=> op[f].pc \in {"recycle", "number"}
  PROVE  Exact'
  <1>1. op'[f] = o /\ \A g \in Fibers : g # f => Alone(g)
    BY OthersAlone
  <1>2. FiberExact(f)
    BY DEF Exact
  <1>3. /\ Lsid(f)' = Lsid(f) /\ Serial(f)' = Serial(f) /\ Kind(f)' = Kind(f)
        /\ number' = number /\ mongod' = mongod /\ Applied(f, Serial(f))' = Applied(f, Serial(f))
    BY <1>1 DEF Lsid, Serial, Kind, Applied
  <1>4. \A m \in wire' : m \in wire /\ (SameNumber(m, f)' <=> SameNumber(m, f))
                                   /\ (OfCall(m, f)' <=> OfCall(m, f))
    BY <1>3 DEF SameNumber, OfCall
  <1>5. Agrees(mongod[Lsid(f)], number[Lsid(f)], Applied(f, Serial(f)))' <=>
        Agrees(mongod[Lsid(f)], number[Lsid(f)], Applied(f, Serial(f)))
    BY <1>3 DEF Agrees, Wrote
  <1>6. FiberExact(f)'
    BY <1>1, <1>2, <1>3, <1>4, <1>5 DEF FiberExact
  <1>7. AppliedKept /\ RecordsKept
    BY AllKept DEF RecordsKept
  <1> QED
    BY <1>1, <1>6, <1>7, ExactStep DEF Exact

\* What f sets aside, or takes, is not what another fiber works on.
LEMMA AcquireAlone ==
  ASSUME Holders, closer = "open", NEW c \in Sessions, NEW q \in Seq(Lsids), Acquire(c, q),
         wire' = wire, NEW g \in Fibers, op'[g] = op[g], fate'[g] = fate[g],
         op[g].pc # "idle" => op[g].session # c
  PROVE  Alone(g)
  <1>1. CASE op[g].pc # "idle"
    <2>1. Lsid(g) \in Lsids /\ op[g].session \in Sessions
      BY <1>1, TypedParts DEF Holders, OpsTyped, Executing
    <2>2. ~Forgotten(Lsid(g))
      BY <2>1 DEF Forgotten, Lsid
    <2>3. held'[op[g].session] = held[op[g].session]
      BY <1>1, <2>1, AcquireForgets DEF Holders
    <2>4. number'[Lsid(g)] = number[Lsid(g)] /\ mongod'[Lsid(g)] = mongod[Lsid(g)]
      BY <2>1, <2>2, AcquireForgets DEF Holders
    <2> QED
      BY <2>3, <2>4 DEF Alone
  <1>2. CASE op[g].pc = "idle"
    BY <1>2 DEF Alone
  <1> QED
    BY <1>1, <1>2

LEMMA AcquireRecords ==
  ASSUME Typed, NEW c \in Sessions, NEW q \in Seq(Lsids), Acquire(c, q), wire' = wire
  PROVE  RecordsKept
  <1>1. \A m \in wire : m.lsid \in Lsids /\ ~Forgotten(m.lsid)
    BY DEF Typed, TypeOK, Messages, Forgotten
  <1> QED
    BY <1>1, AcquireForgets DEF RecordsKept

LEMMA LookupExact ==
  ASSUME Holders, closer = "open", Exact, NEW f \in Fibers, Lookup(f)
  PROVE  Exact'
  <1>1. /\ op[f].pc = "idle" /\ wire' = wire /\ f \in Sessions /\ Typed
        /\ free \in Seq(Lsids)
    BY Distinct DEF Lookup, Callable, Holders, Typed, TypeOK
  <1>2. PICK pc \in {"recycle", "number"} : Begin(f, "write", f, pc)
    BY DEF Lookup
  <1>3. /\ FiberExact(f)' /\ AppliedKept
        /\ \A g \in Fibers : g # f => op'[g] = op[g] /\ fate'[g] = fate[g]
        /\ \A i \in 1 .. Len(fate'[f]) : CallExact(fate'[f][i])
    BY <1>1, <1>2, BeginExact DEF Kinds
  <1>4. CASE UNCHANGED <<poolVars, number, mongod>>
    <2>1. (\A g \in Fibers : g # f => Alone(g)) /\ RecordsKept
      BY <1>3, <1>4 DEF Alone, RecordsKept, poolVars
    <2> QED
      BY <1>1, <1>3, <2>1, ExactStep
  <1>5. CASE Acquire(f, free)
    <2>1. \A g \in Fibers : g # f /\ op[g].pc # "idle" => op[g].session # f
      BY OwnSession, Distinct
    <2>2. \A g \in Fibers : g # f => Alone(g)
      BY <1>1, <1>3, <1>5, <2>1, AcquireAlone
    <2>3. RecordsKept
      BY <1>1, <1>5, AcquireRecords
    <2> QED
      BY <1>1, <1>3, <2>2, <2>3, ExactStep
  <1> QED
    BY <1>4, <1>5 DEF Lookup

LEMMA RecycleExact ==
  ASSUME Holders, closer = "open", Exact, NEW f \in Fibers, Recycle(f)
  PROVE  Exact'
  <1>1. /\ op[f].pc = "recycle" /\ wire' = wire /\ fate' = fate /\ Typed
        /\ op \in [Fibers -> Operations] /\ f \in Sessions
    BY Distinct DEF Recycle, Holders, Typed, TypeOK
  <1>2. PICK next : next = [op[f] EXCEPT !.pc = "number"]
    OBVIOUS
  <1>3. /\ next.pc = "number" /\ next.kind = op[f].kind /\ next.session = op[f].session
        /\ next.reply = op[f].reply /\ op[f].reply = None
    <2>1. op[f].reply = None
      BY <1>1, TypedParts DEF OpsTyped, WellFormed
    <2> QED
      BY <1>1, <1>2, <2>1 DEF Operations
  <1>4. CASE f \in live /\ Exchange(f) /\ op' = [op EXCEPT ![f] = next]
    <2>1. PICK q \in Returned(held[f], free) : Acquire(f, q)
      BY <1>4 DEF Exchange
    <2>2. q \in Seq(Lsids)
      BY <1>1, <1>4, <2>1, ReturnedQueue DEF Typed, TypeOK
    <2>3. \A g \in Fibers : g # f /\ op[g].pc # "idle" => op[g].session # f
      BY OwnSession, Distinct
    <2>4. op'[f] = next /\ \A g \in Fibers : g # f => op'[g] = op[g]
      BY <1>1, <1>4
    <2>5. \A g \in Fibers : g # f => Alone(g)
      BY <1>1, <2>1, <2>2, <2>3, <2>4, AcquireAlone
    <2>6. RecordsKept /\ AppliedKept
      BY <1>1, <2>1, <2>2, AcquireRecords, AllKept
    <2>7. FiberExact(f)'
      <3>1. FiberExact(f) /\ op[f].pc \in {"recycle", "number"} /\ op[f].pc # "idle"
        BY <1>1 DEF Exact
      <3>2. Kind(f) = "write"
        BY <1>1, TypedParts DEF OpsTyped, WellFormed
      <3>3. Applied(f, Serial(f)) = 0 /\ \A m \in wire : ~OfCall(m, f)
        BY <3>1, <3>2 DEF FiberExact
      <3>4. Applied(f, Serial(f))' = 0 /\ \A m \in wire' : ~OfCall(m, f)'
        BY <1>1, <3>3 DEF OfCall, Serial, Applied
      <3>5. ~Numbered(f)'
        BY <1>3, <2>4 DEF Numbered
      <3> QED
        BY <1>3, <2>4, <3>4, <3>5, FiberAssumption DEF FiberExact
    <2> QED
      BY <1>1, <2>5, <2>6, <2>7, ExactStep DEF Exact
  <1>5. ASSUME NEW o \in {Idle, next}, op' = [op EXCEPT ![f] = o],
               UNCHANGED <<held, number, mongod>>
        PROVE  Exact'
    <2>1. op'[f] = o /\ \A g \in Fibers : g # f => Alone(g)
      BY <1>1, <1>5, OthersAlone
    <2>2. CASE o = Idle
      <3>1. FiberExact(f)' /\ AppliedKept /\ RecordsKept
        BY <1>1, <1>5, <2>1, <2>2, IdleExactNext, AllKept DEF RecordsKept
      <3> QED
        BY <1>1, <2>1, <3>1, ExactStep DEF Exact
    <2>3. CASE o = next
      <3>1. ~Numbered(f)'
        BY <1>3, <2>1, <2>3 DEF Numbered
      <3> QED
        BY <1>1, <1>3, <1>5, <2>3, <3>1, AdvanceExact, FiberAssumption
    <2> QED
      BY <2>2, <2>3
  <1> QED
    BY <1>2, <1>4, <1>5 DEF Recycle

\* The number is one that nobody has seen.
LEMMA TakeNumberExact ==
  ASSUME Holders, closer = "open", NumbersGiven, Exact, NEW f \in Fibers, TakeNumber(f)
  PROVE  Exact'
  <1>1. /\ op[f].pc = "number" /\ wire' = wire /\ fate' = fate /\ mongod' = mongod
        /\ held' = held /\ Typed /\ op \in [Fibers -> Operations] /\ number \in [Lsids -> Nat]
        /\ mongod \in [Lsids -> Records] /\ wire \subseteq Messages
    BY DEF TakeNumber, poolVars, serverVars, Holders, Typed, TypeOK
  <1>2. Kind(f) = "write" /\ op[f].reply = None /\ Lsid(f) \in Lsids
    BY <1>1, TypedParts DEF OpsTyped, WellFormed, Executing
  <1>3. CASE UNCHANGED number
    <2>1. PICK o : /\ o = [op[f] EXCEPT !.pc = "ended", !.reply = "unselected"]
                   /\ op' = [op EXCEPT ![f] = o]
      <3>1. CASE op' = [op EXCEPT ![f] = [@ EXCEPT !.pc = "ended", !.reply = "unselected"]]
        BY <3>1
      <3>2. CASE number' = [number EXCEPT ![Lsid(f)] = @ + 1]
        BY <1>1, <1>2, <1>3, <3>2
      <3> QED
        BY <3>1, <3>2 DEF TakeNumber
    <2>2. /\ o.pc = "ended" /\ o.reply = "unselected" /\ o.kind = op[f].kind
          /\ o.session = op[f].session
      BY <1>1, <2>1 DEF Operations
    <2>3. op'[f] = o /\ \A g \in Fibers : g # f => Alone(g)
      BY <1>1, <1>3, <2>1, OthersAlone
    <2>4. FiberExact(f)'
      <3>1. \A m \in wire : ~OfCall(m, f)
        BY <1>1, <1>2 DEF Exact, FiberExact
      <3>2. \A m \in wire' : ~OfCall(m, f)'
        BY <1>1, <3>1 DEF OfCall, Serial
      <3>3. ~Numbered(f)'
        BY <2>2, <2>3 DEF Numbered
      <3> QED
        BY <2>2, <2>3, <3>2, <3>3 DEF FiberExact
    <2> QED
      BY <1>1, <2>3, <2>4, AllKept, ExactStep DEF Exact, RecordsKept
  <1>4. CASE number' = [number EXCEPT ![Lsid(f)] = @ + 1]
    <2>1. number'[Lsid(f)] = number[Lsid(f)] + 1 /\ number[Lsid(f)] \in Nat
          /\ \A l \in Lsids : l # Lsid(f) => number'[l] = number[l]
      BY <1>1, <1>2, <1>4
    <2>2. PICK o : o = [op[f] EXCEPT !.pc = "send"] /\ op' = [op EXCEPT ![f] = o]
      <3>1. CASE UNCHANGED number
        BY <2>1, <3>1
      <3>2. CASE op' = [op EXCEPT ![f] = [@ EXCEPT !.pc = "send"]]
        BY <3>2
      <3> QED
        BY <3>1, <3>2 DEF TakeNumber
    <2>3. /\ o.pc = "send" /\ o.reply = None /\ o.kind = op[f].kind /\ o.session = op[f].session
      BY <1>1, <1>2, <2>2 DEF Operations
    <2>4. op'[f] = o /\ \A g \in Fibers : g # f => op'[g] = op[g]
      BY <1>1, <2>2
    <2>5. ASSUME NEW g \in Fibers, g # f PROVE Alone(g)
      <3>1. op[g].pc # "idle" => Lsid(g) # Lsid(f) /\ Lsid(g) \in Lsids
        BY <1>1, <2>5, OwnSession, TypedParts DEF OpsTyped, Executing
      <3> QED
        BY <1>1, <2>1, <2>4, <2>5, <3>1 DEF Alone
    <2>6. FiberExact(f)'
      <3>1. Applied(f, Serial(f)) = 0 /\ \A m \in wire : ~OfCall(m, f)
        BY <1>1, <1>2 DEF Exact, FiberExact
      <3>2. /\ Lsid(f)' = Lsid(f) /\ Applied(f, Serial(f))' = 0
            /\ \A m \in wire' : ~OfCall(m, f)'
        BY <1>1, <2>3, <2>4, <3>1 DEF OfCall, Serial, Applied, Lsid
      <3>3. ASSUME NEW m \in wire' PROVE ~SameNumber(m, f)'
        <4>1. m.number \in Nat /\ m.number <= number[m.lsid]
          BY <1>1 DEF NumbersGiven, Messages
        <4> QED
          BY <2>1, <3>2, <4>1 DEF SameNumber
      <3>4. ~Wrote(mongod[Lsid(f)], number[Lsid(f)])'
        <4>1. mongod[Lsid(f)].number \in Int /\ mongod[Lsid(f)].number <= number[Lsid(f)]
          BY <1>1, <1>2 DEF NumbersGiven, Records
        <4> QED
          BY <1>1, <2>1, <3>2, <4>1 DEF Wrote
      <3>5. Agrees(mongod[Lsid(f)], number[Lsid(f)], Applied(f, Serial(f)))'
        BY <3>2, <3>4 DEF Agrees
      <3>6. op'[f].pc = "send" /\ op'[f].reply # "ok"
        BY <2>3, <2>4, FiberAssumption
      <3> QED
        BY <3>2, <3>3, <3>5, <3>6 DEF FiberExact
    <2> QED
      BY <1>1, <2>5, <2>6, AllKept, ExactStep DEF Exact, RecordsKept
  <1> QED
    BY <1>3, <1>4 DEF TakeNumber

LEMMA FailedExact ==
  ASSUME Typed, Exact, NEW f \in Fibers, NotSent(f) \/ NetworkError(f)
  PROVE  Exact'
  <1>1. /\ UNCHANGED <<held, number, mongod, fate>> /\ wire' \subseteq wire
        /\ op[f].pc \in {"send", "wait"} /\ op \in [Fibers -> Operations]
    BY DEF NotSent, NetworkError, poolVars, serverVars, Typed, TypeOK
  <1>2. PICK failure \in {"unselected", "cleared", "network"} :
          op' = [op EXCEPT ![f] = [@ EXCEPT !.pc = "ended", !.reply = failure]]
    BY DEF NotSent, NetworkError
  <1>3. PICK o : /\ o = [op[f] EXCEPT !.pc = "ended", !.reply = failure]
                 /\ op' = [op EXCEPT ![f] = o]
    BY <1>2
  <1>4. o.pc = "ended" /\ o.reply = failure /\ o.kind = op[f].kind /\ o.session = op[f].session
    BY <1>1, <1>3 DEF Operations
  <1>5. Numbered(f)' => Numbered(f)
    <2>1. op'[f] = o
      BY <1>1, <1>3
    <2> QED
      BY <1>1, <1>4, <2>1 DEF Numbered, Kind
  <1> QED
    BY <1>1, <1>3, <1>4, <1>5, AdvanceExact

\* Only what had its number is tried again, and it keeps it.
LEMMA TriedAgainExact ==
  ASSUME Typed, Exact, NEW f \in Fibers, TriedAgain(f)
  PROVE  Exact'
  <1>1. /\ UNCHANGED <<held, number, mongod, fate>> /\ wire' = wire
        /\ op[f].reply # None /\ Again(f) /\ op \in [Fibers -> Operations]
    BY DEF TriedAgain, poolVars, serverVars, Typed, TypeOK
  <1>2. PICK o : o = NextAttempt(op[f]) /\ op' = [op EXCEPT ![f] = o]
    BY DEF TriedAgain
  <1>3. op[f].pc \in {"wait", "ended"}
    BY <1>1, RepliedExecutes, TypedParts
  <1>4. o.pc = "send" /\ o.reply = None /\ o.kind = op[f].kind /\ o.session = op[f].session
    BY <1>1, <1>2 DEF NextAttempt, Operations
  <1>5. Numbered(f)' => Numbered(f)
    <2>1. op'[f] = o
      BY <1>1, <1>2
    <2>2. Kind(f) = "write" => op[f].reply # "unselected"
      BY <1>1 DEF Again, TriesAgain
    <2> QED
      BY <1>3, <1>4, <2>1, <2>2 DEF Numbered, Kind
  <1> QED
    BY <1>1, <1>2, <1>3, <1>4, <1>5, AdvanceExact, FiberAssumption

\* What is reported done was applied.
LEMMA CommandEndsExact ==
  ASSUME Typed, Exact, NEW f \in Fibers, CommandEnds(f)
  PROVE  Exact'
  <1>1. /\ op[f].reply # None /\ wire' = wire /\ op' = [op EXCEPT ![f] = Idle]
        /\ UNCHANGED <<held, number, mongod>>
    BY DEF CommandEnds
  <1>2. op[f].pc # "idle" /\ Executing(f) /\ WellFormed(f)
    BY <1>1, RepliedExecutes, TypedParts DEF OpsTyped
  <1>3. PICK i \in 1 .. Len(fate[f]) : i = Serial(f)
    BY <1>2, LenProperties, TypedParts DEF Executing, Serial, CallsTyped
  <1>4. fate[f][i] \in Calls /\ CallExact(fate[f][i]) /\ fate[f][i].kind = Kind(f)
    BY <1>2, <1>3, ElementOfSeq, TypedParts DEF Exact, WellFormed, CallsTyped
  <1>5. PICK k : k = Reported(fate[f][i], op[f].reply)
    OBVIOUS
  <1>6. k \in Calls /\ k.kind = fate[f][i].kind /\ k.applied = fate[f][i].applied
        /\ k.done = (fate[f][i].done \/ op[f].reply = "ok")
    <2>1. CASE op[f].reply = "ok"
      BY <1>4, <1>5, <2>1 DEF Reported, Calls
    <2>2. CASE op[f].reply # "ok"
      BY <1>4, <1>5, <2>2 DEF Reported, Calls
    <2> QED
      BY <2>1, <2>2
  <1>7. CallExact(k)
    <2>1. k.kind = "write" /\ op[f].reply = "ok" => k.applied = 1
      BY <1>3, <1>4, <1>6 DEF Exact, FiberExact, Applied
    <2> QED
      BY <1>4, <1>6, <2>1 DEF CallExact
  <1>8. fate' = [fate EXCEPT ![f] = [@ EXCEPT ![i] = k]]
    BY <1>3, <1>5 DEF CommandEnds
  <1>9. /\ FateKept
        /\ \A g \in Fibers : g # f => fate'[g] = fate[g]
        /\ fate'[f][i] = k
        /\ \A j \in 1 .. Len(fate[f]) : j # i => fate'[f][j] = fate[f][j]
    <2>1. CallsTyped /\ k \in Calls /\ k.kind = fate[f][i].kind /\ wire' \subseteq wire
      BY <1>1, <1>6, TypedParts
    <2> QED
      BY <1>8, <2>1, CallsChange, ZenonT(30)
  <1>10. op'[f] = Idle /\ \A g \in Fibers : g # f => Alone(g)
    BY <1>1, <1>9, OthersAlone
  <1>11. AppliedKept
    <2>1. \A g \in Fibers : Len(fate[g]) \in Nat
      BY LenProperties, TypedParts DEF CallsTyped
    <2> QED
      BY <1>6, <1>9, <2>1 DEF AppliedKept, FateKept
  <1>12. \A j \in 1 .. Len(fate'[f]) : CallExact(fate'[f][j])
    BY <1>7, <1>9 DEF FateKept, Exact
  <1> QED
    BY <1>1, <1>10, <1>11, <1>12, IdleExactNext, ExactStep DEF RecordsKept

\* What sending does to the wire and to the operation of f.
LEMMA SendStep ==
  ASSUME NEW f \in Fibers, Send(f)
  PROVE  /\ \E route \in Routes(f) : wire' = wire \cup {Message(f, route)}
         /\ \E conn, o : /\ o = [op[f] EXCEPT !.pc = "wait", !.conn = conn]
                         /\ op' = [op EXCEPT ![f] = o]
  <1>1. \E route \in Routes(f) : wire' = wire \cup {Message(f, route)}
    BY DEF Send
  <1>2. PICK conn, o : /\ o = [op[f] EXCEPT !.pc = "wait", !.conn = conn]
                       /\ op' = [op EXCEPT ![f] = o]
    BY DEF Send
  <1> QED
    BY <1>1, <1>2

\* What is sent for a write has its number, and no other write has it.
LEMMA SendExact ==
  ASSUME Holders, closer = "open", Exact, NEW f \in Fibers, Send(f)
  PROVE  Exact'
  <1>1. /\ op[f].pc = "send" /\ Typed /\ op \in [Fibers -> Operations]
        /\ UNCHANGED <<held, number, mongod, fate>>
    BY DEF Send, poolVars, Holders, Typed, TypeOK
  <1>2. PICK route \in Routes(f) : wire' = wire \cup {Message(f, route)}
    BY SendStep
  <1>3. PICK m : m = Message(f, route) /\ wire' = wire \cup {m}
    BY <1>2
  <1>4. /\ m \in Messages /\ m.lsid = Lsid(f) /\ m.number = number[Lsid(f)]
        /\ m.kind = Kind(f) /\ m.fiber = f /\ m.serial = Serial(f)
    BY <1>1, <1>3, MessageTyped
  <1>5. PICK conn, o : /\ o = [op[f] EXCEPT !.pc = "wait", !.conn = conn]
                       /\ op' = [op EXCEPT ![f] = o]
    BY SendStep
  <1>6. /\ o.pc = "wait" /\ o.kind = op[f].kind /\ o.session = op[f].session
        /\ o.reply = None /\ o.reply = op[f].reply
    <2>1. op[f].reply = None
      BY <1>1, TypedParts DEF OpsTyped, WellFormed
    <2> QED
      BY <1>1, <1>5, <2>1 DEF Operations
  <1>7. op'[f] = o /\ \A g \in Fibers : g # f => Alone(g)
    BY <1>1, <1>5, OthersAlone
  <1>8. /\ Kind(f)' = Kind(f) /\ Lsid(f)' = Lsid(f) /\ Serial(f)' = Serial(f)
        /\ Applied(f, Serial(f))' = Applied(f, Serial(f))
    BY <1>1, <1>6, <1>7 DEF Kind, Lsid, Serial, Applied
  <1>9. FiberExact(f) /\ (Kind(f) = "write" => Numbered(f))
    BY <1>1 DEF Exact, Numbered
  <1>10. FiberExact(f)'
    <2>1. \A w \in wire' : (SameNumber(w, f)' <=> SameNumber(w, f))
                           /\ (OfCall(w, f)' <=> OfCall(w, f))
      BY <1>1, <1>8 DEF SameNumber, OfCall
    <2>2. SameNumber(m, f) /\ OfCall(m, f)
      BY <1>4 DEF SameNumber, OfCall
    <2>3. \A w \in wire' : w \in wire \/ w = m
      BY <1>3
    <2>4. Agrees(mongod[Lsid(f)], number[Lsid(f)], Applied(f, Serial(f)))' <=>
          Agrees(mongod[Lsid(f)], number[Lsid(f)], Applied(f, Serial(f)))
      BY <1>1, <1>8 DEF Agrees, Wrote
    <2>5. Kind(f) = "write" =>
            \A w \in wire' : (OfCall(w, f) => SameNumber(w, f)) /\ (SameNumber(w, f) => OfCall(w, f))
      BY <1>1, <1>9, <2>2, <2>3 DEF FiberExact
    <2>6. Numbered(f)' => Kind(f) = "write"
      BY <1>8 DEF Numbered
    <2>7. op'[f].pc = "wait" /\ op'[f].reply # "ok"
      BY <1>6, <1>7, FiberAssumption
    <2> QED
      BY <1>8, <1>9, <2>1, <2>4, <2>5, <2>6, <2>7 DEF FiberExact
  <1>11. ASSUME NEW g \in Fibers, g # f PROVE FiberExact(g)'
    <2>1. CASE op[g].pc = "idle"
      BY <1>1, <1>7, <1>11, <2>1, IdleExactNext, TypedParts DEF OpsTyped, WellFormed, Alone
    <2>2. CASE op[g].pc # "idle"
      <3>1. Lsid(g) # Lsid(f) /\ FiberExact(g) /\ op'[g] = op[g] /\ fate' = fate
        BY <1>1, <1>7, <1>11, <2>2, OwnSession DEF Exact, Alone
      <3>2. ~SameNumber(m, g) /\ ~OfCall(m, g)
        BY <1>4, <1>11, <3>1 DEF SameNumber, OfCall
      <3>3. /\ Kind(g)' = Kind(g) /\ Lsid(g)' = Lsid(g) /\ Serial(g)' = Serial(g)
            /\ Applied(g, Serial(g))' = Applied(g, Serial(g)) /\ (Numbered(g)' <=> Numbered(g))
        BY <1>1, <3>1 DEF Kind, Lsid, Serial, Applied, Numbered
      <3>4. \A w \in wire' : (SameNumber(w, g)' <=> SameNumber(w, g))
                             /\ (OfCall(w, g)' <=> OfCall(w, g))
        BY <1>1, <3>3 DEF SameNumber, OfCall
      <3>5. \A w \in wire' : w \in wire \/ w = m
        BY <1>3
      <3>6. Agrees(mongod[Lsid(g)], number[Lsid(g)], Applied(g, Serial(g)))' <=>
            Agrees(mongod[Lsid(g)], number[Lsid(g)], Applied(g, Serial(g)))
        BY <1>1, <3>3 DEF Agrees, Wrote
      <3> QED
        BY <3>1, <3>2, <3>3, <3>4, <3>5, <3>6 DEF FiberExact
    <2> QED
      BY <2>1, <2>2
  <1>12. ASSUME NEW w \in wire' PROVE MessageExact(w)'
    <2>1. MessageExact(w)' <=> MessageExact(w)
      BY <1>1 DEF MessageExact, Agrees, Wrote, Applied
    <2>2. CASE w \in wire
      BY <2>1, <2>2 DEF Exact
    <2>3. CASE w = m
      BY <1>4, <1>9, <2>1, <2>3 DEF MessageExact, FiberExact
    <2> QED
      BY <1>3, <2>2, <2>3
  <1>13. NumbersOwned'
    <2>1. \A w \in wire : m.kind = "write" /\ w.kind = "write" =>
            (w.lsid = m.lsid /\ w.number = m.number <=> w.fiber = m.fiber /\ w.serial = m.serial)
      BY <1>1, <1>4, <1>9 DEF FiberExact, SameNumber, OfCall
    <2> QED
      BY <1>3, <2>1 DEF Exact, NumbersOwned
  <1>14. \A g \in Fibers : \A i \in 1 .. Len(fate'[g]) : CallExact(fate'[g][i])
    BY <1>1 DEF Exact
  <1> QED
    BY <1>10, <1>11, <1>12, <1>13, <1>14 DEF Exact

LEMMA AttemptsExact ==
  ASSUME Holders, closer = "open", ~Scene.nested, NumbersGiven, Exact,
         NEW f \in Fibers, Attempts(f)
  PROVE  Exact'
  <1>1. CASE DropDeadPin(f)
    <2>1. wire' = wire /\ \A g \in Fibers : Alone(g)
      BY <1>1 DEF DropDeadPin, Alone, poolVars, serverVars
    <2>2. RecordsKept
      BY <1>1 DEF DropDeadPin, RecordsKept, serverVars
    <2> QED
      BY <2>1, <2>2, ExactSame DEF Holders
  <1>2. CASE NestedCommand(f)
    BY <1>2 DEF NestedCommand
  <1> QED
    BY <1>1, <1>2, RecycleExact, TakeNumberExact, SendExact, FailedExact, TriedAgainExact,
       CommandEndsExact DEF Attempts, Holders

LEMMA StartSessionExact ==
  ASSUME Holders, closer = "open", Exact, StartSession
  PROVE  Exact'
  <1>1. /\ op' = op /\ fate' = fate /\ wire' = wire /\ Acquire(Explicit, free)
        /\ held[Explicit] = None /\ free \in Seq(Lsids) /\ Typed
    BY DEF StartSession, Holders, Typed, TypeOK
  <1>2. ASSUME NEW g \in Fibers PROVE Alone(g)
    <2>1. op[g].pc # "idle" => op[g].session # Explicit
      BY <1>1, Distinct, TypedParts DEF OpsTyped, Executing, Lsid
    <2> QED
      BY <1>1, <2>1, Distinct, AcquireAlone
  <1> QED
    BY <1>1, <1>2, Distinct, AcquireRecords, ExactSame

\* The explicit session takes a number; nobody executes with it.
LEMMA StartTransactionExact ==
  ASSUME Holders, closer = "open", Exact, StartTransaction
  PROVE  Exact'
  <1>1. /\ op' = op /\ fate' = fate /\ wire' = wire /\ mongod' = mongod /\ held' = held
        /\ number' = [number EXCEPT ![held[Explicit]] = @ + 1]
        /\ op[Owner].pc = "idle" /\ Explicit \in live /\ Typed /\ number \in [Lsids -> Nat]
    BY DEF StartTransaction, OwnerIdle, serverVars, poolVars, Holders, Typed, TypeOK
  <1>2. ASSUME NEW g \in Fibers PROVE Alone(g)
    <2>1. op[g].pc # "idle" => Lsid(g) \in Lsids /\ Lsid(g) # held[Explicit]
      <3>1. ASSUME op[g].pc # "idle" PROVE Lsid(g) \in Lsids /\ op[g].session # Explicit
        BY <1>1, <3>1, OwnSession, TypedParts DEF OpsTyped, Executing
      <3> QED
        BY <1>1, <3>1, OwnSession
    <2> QED
      BY <1>1, <2>1 DEF Alone
  <1> QED
    BY <1>1, <1>2, ExactSame DEF RecordsKept

\* The application begins a command, or settles one without sending anything.
LEMMA OwnerExact ==
  ASSUME Typed, Exact, UNCHANGED <<held, number, mongod, wire>>, op[Owner].pc = "idle",
         \/ op' = op /\ fate' = fate
         \/ \E kind \in Kinds, pc \in {"number", "send"} :
              /\ (kind = "write") <=> (pc = "number")
              /\ Begin(Owner, kind, Explicit, pc)
         \/ /\ op' = op
            /\ \E kind \in {"commit", "abort"} :
                 fate' = [fate EXCEPT ![Owner] = Append(@, [NewCall(kind) EXCEPT !.done = TRUE])]
         \/ \E ends \in BOOLEAN : AbortSent(ends)
  PROVE  Exact'
  <1>1. Owner \in Fibers /\ RecordsKept /\ op[Owner] = Idle /\ op \in [Fibers -> Operations]
    BY Distinct, TypedParts DEF RecordsKept, OpsTyped, WellFormed
  <1>2. CASE op' = op /\ fate' = fate
    <2>1. \A g \in Fibers : Alone(g)
      BY <1>2 DEF Alone
    <2> QED
      BY <1>1, <2>1, ExactSame
  <1>3. ASSUME NEW kind \in Kinds, NEW pc \in {"number", "send"},
               (kind = "write") <=> (pc = "number"), Begin(Owner, kind, Explicit, pc)
        PROVE  Exact'
    <2>1. /\ FiberExact(Owner)' /\ AppliedKept
          /\ \A g \in Fibers : g # Owner => op'[g] = op[g] /\ fate'[g] = fate[g]
          /\ \A i \in 1 .. Len(fate'[Owner]) : CallExact(fate'[Owner][i])
      BY <1>1, <1>3, BeginExact
    <2>2. \A g \in Fibers : g # Owner => Alone(g)
      BY <2>1 DEF Alone
    <2> QED
      BY <1>1, <2>1, <2>2, ExactStep
  <1>4. ASSUME NEW kind \in {"commit", "abort"}, op' = op,
               fate' = [fate EXCEPT ![Owner] = Append(@, [NewCall(kind) EXCEPT !.done = TRUE])]
        PROVE  Exact'
    <2>1. PICK k \in Calls : k = [NewCall(kind) EXCEPT !.done = TRUE] /\ k.kind = kind
      BY NewCallTyped DEF Kinds
    <2>2. CallExact(k)
      BY <2>1 DEF CallExact
    <2>3. fate' = [fate EXCEPT ![Owner] = Append(@, k)]
      BY <1>4, <2>1
    <2>4. /\ AppliedKept
          /\ \A g \in Fibers : g # Owner => fate'[g] = fate[g]
          /\ \A i \in 1 .. Len(fate'[Owner]) : CallExact(fate'[Owner][i])
      BY <1>1, <2>2, <2>3, AppliedAppend
    <2>5. \A g \in Fibers : g # Owner => Alone(g)
      BY <1>4, <2>4 DEF Alone
    <2>6. FiberExact(Owner)'
      BY <1>1, <1>4, IdleExactNext
    <2> QED
      BY <1>1, <2>4, <2>5, <2>6, ExactStep
  <1>5. ASSUME NEW ends \in BOOLEAN, AbortSent(ends) PROVE Exact'
    <2>1. PICK o : /\ o = [Idle EXCEPT !.kind = "abort", !.session = Explicit,
                                       !.pc = "send", !.ends = ends]
                   /\ op' = [op EXCEPT ![Owner] = o]
      BY <1>5, Zenon DEF AbortSent
    <2>2. o.kind = "abort" /\ o.pc = "send"
      BY <2>1 DEF Idle
    <2>3. PICK k \in Calls : k = NewCall("abort") /\ k.kind = "abort"
      BY NewCallTyped DEF Kinds
    <2>4. CallExact(k)
      BY <2>3 DEF CallExact
    <2>5. fate' = [fate EXCEPT ![Owner] = Append(@, k)]
      BY <1>5, <2>3, Zenon DEF AbortSent
    <2>6. /\ AppliedKept
          /\ \A g \in Fibers : g # Owner => fate'[g] = fate[g]
          /\ \A i \in 1 .. Len(fate'[Owner]) : CallExact(fate'[Owner][i])
      BY <1>1, <2>4, <2>5, AppliedAppend
    <2>7. op'[Owner] = o /\ \A g \in Fibers : g # Owner => Alone(g)
      BY <1>1, <2>1, <2>6, OthersAlone
    <2>8. FiberExact(Owner)'
      BY <2>2, <2>7 DEF FiberExact, Numbered, Kind
    <2> QED
      BY <1>1, <2>6, <2>7, <2>8, ExactStep
  <1> QED
    BY <1>2, <1>3, <1>4, <1>5

\* What an effect of m changes: the record of the message's session and, if that is
\* a write the server had not seen, the count of the message's call.
Changes(m, e) ==
  /\ mongod' = [mongod EXCEPT ![m.lsid] = e.record]
  /\ wire' = wire \ {m}
  /\ \A g \in Fibers : Len(fate'[g]) = Len(fate[g])
  /\ \A g \in Fibers : \A i \in 1 .. Len(fate[g]) :
       \/ fate'[g][i] = fate[g][i]
          /\ (g = m.fiber /\ i = m.serial => m.kind # "write" \/ e.record = mongod[m.lsid])
       \/ /\ g = m.fiber /\ i = m.serial /\ m.kind = "write" /\ e.record # mongod[m.lsid]
          /\ fate'[g][i] = [fate[g][i] EXCEPT !.applied = @ + 1]
  /\ \A g \in Fibers :
       /\ op'[g].kind = op[g].kind /\ op'[g].pc = op[g].pc
       /\ op'[g].session = op[g].session
       /\ \/ op'[g].reply = op[g].reply
          \/ OfCall(m, g) /\ op[g].pc = "wait" /\ op'[g].reply = e.reply

LEMMA DeliverChanges ==
  ASSUME Typed, NEW m \in wire, Deliver(m)
  PROVE  \E e \in Effects :
           e \in Normal(m, mongod[m.lsid]) \cup Failing(m, mongod[m.lsid]) /\ Changes(m, e)
  <1>0. PICK r : r = mongod[m.lsid]
    OBVIOUS
  <1>1. PICK e \in Effects : e \in Normal(m, r) \cup Failing(m, r) /\ Take(m, e)
    BY <1>0, DeliveredEffect
  <1>2. /\ m \in Messages /\ m.fiber \in Fibers /\ Carries(m) /\ op \in [Fibers -> Operations]
        /\ fate \in [Fibers -> Seq(Calls)]
    BY DeliveredEffect DEF Messages, Typed, TypeOK
  <1>3. PICK s : s = fate[m.fiber]
    OBVIOUS
  <1>4. PICK k : k = Counted(s[m.serial], m.kind = "write" /\ e.record # mongod[m.lsid])
    OBVIOUS
  <1>5. s \in Seq(Calls) /\ m.serial \in 1 .. Len(s)
    BY <1>2, <1>3 DEF Carries
  <1>6. \/ k = s[m.serial] /\ (m.kind # "write" \/ e.record = r)
        \/ /\ m.kind = "write" /\ e.record # r
           /\ k = [s[m.serial] EXCEPT !.applied = @ + 1]
    BY <1>4, <1>0 DEF Counted
  <1>7. k \in Calls
    <2>1. s[m.serial] \in Calls
      BY <1>5, ElementOfSeq
    <2> QED
      BY <1>6, <2>1 DEF Calls
  <1>8. PICK q : q = [s EXCEPT ![m.serial] = k]
    OBVIOUS
  <1>9. /\ Len(q) = Len(s)
        /\ \A i \in 1 .. Len(s) : q[i] = IF i = m.serial THEN k ELSE s[i]
    BY <1>5, <1>7, <1>8, ExceptSeq
  <1>10. fate' = [fate EXCEPT ![m.fiber] = q]
    BY <1>1, <1>3, <1>4, <1>8 DEF Take
  <1>11. fate'[m.fiber] = q /\ \A g \in Fibers : g # m.fiber => fate'[g] = fate[g]
    BY <1>2, <1>10
  <1>12. \A g \in Fibers : Len(fate'[g]) = Len(fate[g])
    BY <1>3, <1>9, <1>11
  <1>13. ASSUME NEW g \in Fibers, NEW i \in 1 .. Len(fate[g])
         PROVE  \/ fate'[g][i] = fate[g][i]
                   /\ (g = m.fiber /\ i = m.serial => m.kind # "write" \/ e.record = r)
                \/ /\ g = m.fiber /\ i = m.serial /\ m.kind = "write" /\ e.record # r
                   /\ fate'[g][i] = [fate[g][i] EXCEPT !.applied = @ + 1]
    <2>1. CASE g = m.fiber /\ i = m.serial
      <3>1. fate'[g][i] = k /\ s[m.serial] = fate[g][i]
        BY <1>3, <1>9, <1>11, <1>13, <2>1
      <3> QED
        BY <1>6, <2>1, <3>1
    <2>2. CASE ~(g = m.fiber /\ i = m.serial)
      <3>1. fate'[g][i] = fate[g][i]
        BY <1>3, <1>9, <1>11, <1>13, <2>2
      <3> QED
        BY <2>2, <3>1
    <2> QED
      BY <2>1, <2>2
  <1>14. ASSUME NEW g \in Fibers
         PROVE  /\ op'[g].kind = op[g].kind /\ op'[g].pc = op[g].pc
                /\ op'[g].session = op[g].session
                /\ \/ op'[g].reply = op[g].reply
                   \/ OfCall(m, g) /\ op[g].pc = "wait" /\ op'[g].reply = e.reply
    <2>1. CASE Awaited(m) /\ g = m.fiber
      <3>1. PICK o : o = [op[g] EXCEPT !.reply = e.reply]
        OBVIOUS
      <3>2. op'[g] = o
        BY <1>1, <1>2, <2>1, <3>1 DEF Take
      <3>3. /\ o.kind = op[g].kind /\ o.pc = op[g].pc /\ o.session = op[g].session
            /\ o.reply = e.reply
        BY <1>2, <3>1 DEF Operations
      <3>4. OfCall(m, g) /\ op[g].pc = "wait"
        BY <2>1 DEF Awaited, OfCall
      <3> QED
        BY <3>2, <3>3, <3>4
    <2>2. CASE ~Awaited(m) \/ g # m.fiber
      <3>1. op'[g] = op[g]
        <4>1. CASE ~Awaited(m)
          BY <1>1, <4>1 DEF Take
        <4>2. CASE Awaited(m) /\ g # m.fiber
          <5>1. op' = [op EXCEPT ![m.fiber] = [@ EXCEPT !.reply = e.reply]]
            BY <1>1, <4>2 DEF Take
          <5> QED
            BY <1>2, <4>2, <5>1
        <4> QED
          BY <2>2, <4>1, <4>2
      <3> QED
        BY <3>1
    <2> QED
      BY <2>1, <2>2
  <1>15. mongod' = [mongod EXCEPT ![m.lsid] = e.record] /\ wire' = wire \ {m}
    BY <1>1 DEF Take
  <1> QED
    BY <1>1, <1>12, <1>13, <1>14, <1>15, <1>0 DEF Changes

\* A record may move on: what agreed with it agrees still, but for the write that
\* moved it on, which is now applied.
LEMMA AgreesStill ==
  ASSUME NEW m \in Messages, NEW r \in Records, NEW e \in Normal(m, r) \cup Failing(m, r)
  PROVE  /\ \A n \in Nat, a \in Nat :
              Agrees(r, n, a) /\ (m.kind # "write" \/ e.record = r \/ n # m.number)
              => Agrees(e.record, n, a)
         /\ m.kind = "write" /\ e.record # r => Agrees(e.record, m.number, 1)
  <1>1. /\ e.record.number >= r.number
        /\ e.record.number = r.number \/ e.record.number = m.number
        /\ e.record.state = "wrote" => e.record = r \/ m.kind = "write"
        /\ m.kind = "write" /\ e.record # r =>
             m.number > r.number /\ e.record.number = m.number /\ e.record.state = "wrote"
    BY EffectRecord
  <1>2. m.number \in Nat /\ r.number \in Int /\ e.record.number \in Int
    BY <1>1 DEF Messages, Records
  <1>3. ASSUME NEW n \in Nat, NEW a \in Nat, Agrees(r, n, a),
               m.kind # "write" \/ e.record = r \/ n # m.number
        PROVE  Agrees(e.record, n, a)
    <2>1. a > 0 => e.record.number >= n
      BY <1>1, <1>2, <1>3 DEF Agrees
    <2>2. e.record.number = n /\ e.record.state = "wrote" => a = 1
      BY <1>1, <1>3 DEF Agrees, Wrote
    <2> QED
      BY <2>1, <2>2 DEF Agrees, Wrote
  <1>4. ASSUME m.kind = "write", e.record # r PROVE Agrees(e.record, m.number, 1)
    BY <1>1, <1>2, <1>4 DEF Agrees, Wrote
  <1> QED
    BY <1>3, <1>4

\* The server applies a write when it sees its number for the first time, and then
\* knows it.
LEMMA DeliverExact ==
  ASSUME Holders, Exact, NEW m \in wire, Deliver(m)
  PROVE  Exact'
  <1>1. PICK r : r = mongod[m.lsid]
    OBVIOUS
  <1>2. /\ Typed /\ m \in Messages /\ r \in Records /\ Carries(m) /\ mongod \in [Lsids -> Records]
        /\ number \in [Lsids -> Nat]
        /\ fate \in [Fibers -> Seq(Calls)] /\ UNCHANGED <<held, number>>
    BY <1>1, DeliveredEffect DEF Deliver, poolVars, Holders, Typed, TypeOK
  <1>2a. PICK e \in Effects : e \in Normal(m, r) \cup Failing(m, r) /\ Changes(m, e)
    BY <1>1, <1>2, DeliverChanges
  <1>3. /\ e \in Normal(m, r) \cup Failing(m, r)
        /\ mongod' = [mongod EXCEPT ![m.lsid] = e.record]
        /\ wire' = wire \ {m}
        /\ \A g \in Fibers : Len(fate'[g]) = Len(fate[g])
        /\ \A g \in Fibers : \A i \in 1 .. Len(fate[g]) :
             \/ fate'[g][i] = fate[g][i]
                /\ (g = m.fiber /\ i = m.serial => m.kind # "write" \/ e.record = r)
             \/ /\ g = m.fiber /\ i = m.serial /\ m.kind = "write" /\ e.record # r
                /\ fate'[g][i] = [fate[g][i] EXCEPT !.applied = @ + 1]
        /\ \A g \in Fibers :
             /\ op'[g].kind = op[g].kind /\ op'[g].pc = op[g].pc
             /\ op'[g].session = op[g].session
             /\ \/ op'[g].reply = op[g].reply
                \/ OfCall(m, g) /\ op[g].pc = "wait" /\ op'[g].reply = e.reply
    BY <1>1, <1>2a DEF Changes
  <1> DEFINE counts == m.kind = "write" /\ e.record # r
  <1>4. /\ m.fiber \in Fibers /\ m.lsid \in Lsids /\ m.number \in Nat
        /\ m.serial \in 1 .. Len(fate[m.fiber])
    BY <1>2 DEF Messages, Carries
  <1>5. /\ \A l \in Lsids, n \in Nat, a \in Nat :
             Agrees(mongod[l], n, a) /\ (~counts \/ l # m.lsid \/ n # m.number)
             => Agrees(mongod'[l], n, a)
        /\ counts => Agrees(mongod'[m.lsid], m.number, 1)
    <2>1. mongod'[m.lsid] = e.record /\ \A l \in Lsids : l # m.lsid => mongod'[l] = mongod[l]
      BY <1>2, <1>3, <1>4
    <2>2. /\ \A n \in Nat, a \in Nat :
               Agrees(r, n, a) /\ (m.kind # "write" \/ e.record = r \/ n # m.number)
               => Agrees(e.record, n, a)
          /\ m.kind = "write" /\ e.record # r => Agrees(e.record, m.number, 1)
      BY <1>2, <1>3, AgreesStill
    <2>3. ASSUME NEW l \in Lsids, NEW n \in Nat, NEW a \in Nat, Agrees(mongod[l], n, a),
                 ~counts \/ l # m.lsid \/ n # m.number
          PROVE  Agrees(mongod'[l], n, a)
      <3>1. CASE l = m.lsid
        BY <1>1, <2>1, <2>2, <2>3, <3>1
      <3>2. CASE l # m.lsid
        BY <2>1, <2>3, <3>2
      <3> QED
        BY <3>1, <3>2
    <2> QED
      BY <2>1, <2>2, <2>3
  <1>6. \A g \in Fibers : \A i \in 1 .. Len(fate[g]) : fate[g][i] \in Calls
    BY <1>2, ElementOfSeq
  <1>7. counts => Applied(m.fiber, m.serial) = 0
    <2>1. ASSUME counts PROVE Applied(m.fiber, m.serial) = 0
      <3>1. m.number > r.number
        BY <1>2, <1>3, <2>1, EffectRecord
      <3>2. Agrees(mongod[m.lsid], m.number, Applied(m.fiber, m.serial))
        BY <2>1 DEF Exact, MessageExact
      <3>3. Applied(m.fiber, m.serial) \in Nat /\ r.number \in Int
        BY <1>2, <1>4, <1>6 DEF Applied, Calls, Records
      <3> QED
        BY <1>1, <1>4, <3>1, <3>2, <3>3 DEF Agrees
    <2> QED
      BY <2>1
  <1>8. ASSUME NEW g \in Fibers, NEW i \in 1 .. Len(fate[g])
        PROVE  /\ Applied(g, i) \in Nat
               /\ fate'[g][i].kind = fate[g][i].kind /\ fate'[g][i].done = fate[g][i].done
               /\ ~(counts /\ g = m.fiber /\ i = m.serial) => Applied(g, i)' = Applied(g, i)
               /\ counts /\ g = m.fiber /\ i = m.serial => Applied(g, i)' = 1
    <2>1. fate[g][i] \in Calls
      BY <1>6
    <2>2. CASE counts /\ g = m.fiber /\ i = m.serial
      <3>1. fate'[g][i] = [fate[g][i] EXCEPT !.applied = @ + 1]
        BY <1>3, <2>2
      <3>2. fate[g][i].applied = 0
        BY <1>7, <2>2 DEF Applied
      <3> QED
        BY <2>1, <2>2, <3>1, <3>2 DEF Calls, Applied
    <2>3. CASE ~(counts /\ g = m.fiber /\ i = m.serial)
      <3>1. fate'[g][i] = fate[g][i]
        BY <1>3, <2>3
      <3> QED
        BY <2>1, <2>3, <3>1 DEF Calls, Applied
    <2> QED
      BY <2>2, <2>3
  <1> HIDE DEF counts
  <1>9. ASSUME NEW g \in Fibers PROVE FiberExact(g)'
    <2>1. /\ Kind(g)' = Kind(g) /\ Lsid(g)' = Lsid(g) /\ Serial(g)' = Serial(g)
          /\ op'[g].pc = op[g].pc /\ (Numbered(g)' => Numbered(g))
      BY <1>2, <1>3 DEF Kind, Lsid, Serial, Numbered
    <2>2. CASE op[g].pc = "idle"
      <3>1. Kind(g) = "none"
        BY <1>2, <2>2, IdleFits, TypedParts DEF OpsTyped, WellFormed, Kind
      <3> QED
        BY <2>1, <2>2, <3>1 DEF FiberExact, Numbered
    <2>3. CASE op[g].pc # "idle"
      <3>1. /\ Serial(g) \in 1 .. Len(fate[g]) /\ Lsid(g) \in Lsids /\ WellFormed(g)
            /\ FiberExact(g) /\ number[Lsid(g)] \in Nat
        <4>1. Executing(g) /\ WellFormed(g)
          BY <1>2, <2>3, TypedParts DEF OpsTyped
        <4>2. Len(fate[g]) \in Nat
          BY <1>2, LenProperties
        <4> QED
          BY <1>2, <4>1, <4>2 DEF Executing, Serial, Exact
      <3>2. \A w \in wire' : w \in wire /\ (SameNumber(w, g)' <=> SameNumber(w, g))
                                       /\ (OfCall(w, g)' <=> OfCall(w, g))
        BY <1>2, <1>3, <2>1 DEF SameNumber, OfCall
      <3>3. PICK a \in Nat : a = Applied(g, Serial(g))
        BY <1>8, <3>1
      <3>4. Applied(g, Serial(g))' = IF counts /\ OfCall(m, g) THEN 1 ELSE a
        <4>1. Applied(g, Serial(g))' = fate'[g][Serial(g)].applied
          BY <2>1 DEF Applied
        <4>2. PICK i \in 1 .. Len(fate[g]) : i = Serial(g)
          BY <3>1
        <4>3. fate'[g][i].applied = Applied(g, i)'
          BY DEF Applied
        <4>4. OfCall(m, g) <=> g = m.fiber /\ i = m.serial
          BY <4>2 DEF OfCall
        <4>5. fate'[g][i].applied = IF counts /\ OfCall(m, g) THEN 1 ELSE Applied(g, i)
          <5>1. CASE counts /\ OfCall(m, g)
            BY <1>8, <4>3, <4>4, <5>1
          <5>2. CASE ~(counts /\ OfCall(m, g))
            BY <1>8, <4>3, <4>4, <5>2
          <5> QED
            BY <5>1, <5>2
        <4> QED
          BY <3>3, <4>1, <4>2, <4>5
      <3>5. Numbered(g) => Agrees(mongod[Lsid(g)], number[Lsid(g)], Applied(g, Serial(g)))'
        <4>1. ASSUME Numbered(g)
              PROVE  Agrees(mongod'[Lsid(g)], number[Lsid(g)], Applied(g, Serial(g))')
          <5>1. Kind(g) = "write" /\ op[g].pc # "idle"
            BY <2>3, <4>1 DEF Numbered
          <5>2. OfCall(m, g) <=> SameNumber(m, g)
            BY <3>1, <4>1, <5>1 DEF FiberExact
          <5>3. CASE counts /\ OfCall(m, g)
            <6>1. m.lsid = Lsid(g) /\ m.number = number[Lsid(g)]
              BY <5>2, <5>3 DEF SameNumber
            <6> QED
              BY <1>5, <3>4, <5>3, <6>1
          <5>4. CASE ~(counts /\ OfCall(m, g))
            <6>1. Agrees(mongod[Lsid(g)], number[Lsid(g)], a)
              BY <3>1, <3>3, <4>1 DEF FiberExact
            <6>2. ~counts \/ Lsid(g) # m.lsid \/ number[Lsid(g)] # m.number
              BY <5>2, <5>4 DEF SameNumber
            <6>3. Agrees(mongod'[Lsid(g)], number[Lsid(g)], a)
              BY <1>5, <3>1, <6>1, <6>2
            <6> QED
              BY <3>4, <5>4, <6>3
          <5> QED
            BY <5>3, <5>4
        <4> QED
          BY <1>2, <2>1, <4>1
      <3>6. op[g].pc \in {"recycle", "number"} => Applied(g, Serial(g))' = 0
        <4>1. op[g].pc \in {"recycle", "number"} => a = 0 /\ ~OfCall(m, g)
          BY <2>3, <3>1, <3>3 DEF FiberExact, WellFormed
        <4> QED
          BY <3>4, <4>1
      <3>7. Kind(g) = "write" /\ op'[g].reply = "ok" => Applied(g, Serial(g))' = 1
        <4>1. ASSUME Kind(g) = "write", op[g].reply = "ok" PROVE a = 1
          BY <3>1, <3>3, <4>1 DEF FiberExact
        <4>2. ASSUME Kind(g) = "write", OfCall(m, g), e.reply = "ok", ~counts PROVE a = 1
          <5>1. m.kind = "write" /\ m.fiber = g /\ m.serial = Serial(g)
            BY <1>2, <3>1, <4>2, <2>3 DEF WellFormed, Carries, OfCall
          <5>2. r.number = m.number /\ r.state = "wrote"
            BY <1>2, <1>3, <4>2, <5>1, EffectRecord DEF counts
          <5>3. Wrote(mongod[m.lsid], m.number)
            BY <1>1, <5>2 DEF Wrote
          <5> QED
            BY <3>3, <5>1, <5>3 DEF Exact, MessageExact, Agrees
        <4> QED
          BY <1>3, <3>4, <4>1, <4>2
      <3> QED
        BY <2>1, <3>1, <3>2, <3>5, <3>6, <3>7 DEF FiberExact
    <2> QED
      BY <2>2, <2>3
  <1>10. ASSUME NEW w \in wire' PROVE MessageExact(w)'
    <2>1. /\ w \in wire /\ w.lsid \in Lsids /\ w.number \in Nat /\ w.fiber \in Fibers
          /\ w.serial \in 1 .. Len(fate[w.fiber]) /\ MessageExact(w)
      BY <1>2, <1>3 DEF Typed, TypeOK, ShapesOK, Messages, Carries, Exact
    <2>2. PICK a \in Nat : a = Applied(w.fiber, w.serial)
      BY <1>8, <2>1
    <2>3. ASSUME w.kind = "write"
          PROVE  Agrees(mongod'[w.lsid], w.number, Applied(w.fiber, w.serial)')
      <3>1. Agrees(mongod[w.lsid], w.number, a)
        BY <2>1, <2>2, <2>3 DEF MessageExact
      <3>2. CASE counts /\ w.fiber = m.fiber /\ w.serial = m.serial
        <4>1. w.lsid = m.lsid /\ w.number = m.number
          BY <2>1, <2>3, <3>2 DEF Exact, NumbersOwned, counts
        <4>2. Applied(w.fiber, w.serial)' = 1
          BY <1>8, <2>1, <3>2
        <4> QED
          BY <1>5, <3>2, <4>1, <4>2
      <3>3. CASE ~(counts /\ w.fiber = m.fiber /\ w.serial = m.serial)
        <4>1. ~counts \/ w.lsid # m.lsid \/ w.number # m.number
          BY <2>1, <2>3, <3>3 DEF Exact, NumbersOwned, counts
        <4>2. Applied(w.fiber, w.serial)' = a
          BY <1>8, <2>1, <2>2, <3>3
        <4> QED
          BY <1>5, <2>1, <3>1, <4>1, <4>2
      <3> QED
        BY <3>2, <3>3
    <2> QED
      BY <2>3 DEF MessageExact
  <1>11. NumbersOwned'
    BY <1>3 DEF Exact, NumbersOwned
  <1>12. ASSUME NEW g \in Fibers, NEW i \in 1 .. Len(fate'[g]) PROVE CallExact(fate'[g][i])
    <2>1. i \in 1 .. Len(fate[g])
      BY <1>3
    <2>2. CallExact(fate[g][i])
      BY <2>1 DEF Exact
    <2> QED
      BY <1>8, <2>1, <2>2 DEF CallExact, Applied
  <1> QED
    BY <1>9, <1>10, <1>11, <1>12 DEF Exact

LEMMA ApplicationExact ==
  ASSUME Typed, Exact,
         \/ Statement \/ PlainWrite \/ Commit \/ CommitEmpty \/ Abort \/ BodyEnds \/ EndSession
  PROVE  Exact'
  <1>1. UNCHANGED <<held, number, mongod, wire>> /\ op[Owner].pc = "idle"
    BY DEF Statement, PlainWrite, Commit, CommitEmpty, Abort, BodyEnds, EndSession,
       OwnerIdle, MayCommit, MayAbort, ByCalls, poolVars, serverVars
  <1>2. CASE Statement \/ PlainWrite \/ Commit
    <2>1. \E kind \in Kinds, pc \in {"number", "send"} :
            /\ (kind = "write") <=> (pc = "number")
            /\ Begin(Owner, kind, Explicit, pc)
      <3>1. CASE Statement
        <4>1. Begin(Owner, "statement", Explicit, "send")
          BY <3>1 DEF Statement
        <4> QED
          BY <4>1 DEF Kinds
      <3>2. CASE PlainWrite
        <4>1. Begin(Owner, "write", Explicit, "number")
          BY <3>2 DEF PlainWrite
        <4> QED
          BY <4>1 DEF Kinds
      <3>3. CASE Commit
        <4>1. Begin(Owner, "commit", Explicit, "send")
          BY <3>3 DEF Commit
        <4> QED
          BY <4>1 DEF Kinds
      <3> QED
        BY <1>2, <3>1, <3>2, <3>3
    <2> QED
      BY <1>1, <2>1, OwnerExact
  <1>3. CASE CommitEmpty
    <2>1. /\ op' = op
          /\ fate' = [fate EXCEPT ![Owner] = Append(@, [NewCall("commit") EXCEPT !.done = TRUE])]
      BY <1>3 DEF CommitEmpty
    <2> QED
      BY <1>1, <2>1, OwnerExact
  <1>4. CASE AbortUnsent
    <2>1. /\ op' = op
          /\ fate' = [fate EXCEPT ![Owner] = Append(@, [NewCall("abort") EXCEPT !.done = TRUE])]
      BY <1>4 DEF AbortUnsent
    <2> QED
      BY <1>1, <2>1, OwnerExact
  <1>5. CASE AbortSent(FALSE) \/ AbortSent(TRUE)
    BY <1>1, <1>5, OwnerExact
  <1>6. CASE op' = op /\ fate' = fate
    BY <1>1, <1>6, OwnerExact
  <1>7. CASE BodyEnds
    BY <1>6, <1>7 DEF BodyEnds, serverVars
  <1>8. CASE Abort
    BY <1>4, <1>5, <1>8 DEF Abort
  <1>9. CASE EndSession
    BY <1>5, <1>6, <1>9 DEF EndSession
  <1> QED
    BY <1>2, <1>3, <1>7, <1>8, <1>9

LEMMA NextExact ==
  ASSUME Holders, NumbersGiven, WritesOnce, [Next]_vars
  PROVE  WritesOnce'
  <1> SUFFICES ASSUME Undisturbed' PROVE Exact'
    BY DEF WritesOnce
  <1>1. closer' = "open" /\ ~Scene'.nested /\ Typed
    BY DEF Undisturbed, Holders
  <1>2. CASE EndFiberSessions \/ ClosePool
    BY <1>1, <1>2 DEF EndFiberSessions, ClosePool
  <1>3. CASE scene' = scene /\ closer' = closer
    <2>1. closer = "open" /\ ~Scene.nested /\ Exact
      <3>1. Undisturbed
        BY <1>1, <1>3 DEF Undisturbed, Scene
      <3> QED
        BY <3>1 DEF Undisturbed, WritesOnce
    <2>2. CASE UNCHANGED vars
      <3>1. (\A g \in Fibers : Alone(g)) /\ wire' = wire /\ RecordsKept
        BY <2>2 DEF vars, poolVars, serverVars, Alone, RecordsKept
      <3> QED
        BY <1>1, <2>1, <3>1, ExactSame
    <2>3. CASE StartSession \/ StartTransaction
      BY <2>1, <2>3, StartSessionExact, StartTransactionExact
    <2>4. CASE \/ Statement \/ PlainWrite \/ Commit \/ CommitEmpty \/ Abort \/ BodyEnds
               \/ EndSession
      BY <1>1, <2>1, <2>4, ApplicationExact
    <2>5. ASSUME NEW f \in Fibers, Lookup(f) \/ Attempts(f) PROVE Exact'
      BY <2>1, <2>5, LookupExact, AttemptsExact
    <2>6. ASSUME NEW m \in wire, Deliver(m) PROVE Exact'
      BY <2>1, <2>6, DeliverExact
    <2> QED
      BY <1>2, <2>2, <2>3, <2>4, <2>5, <2>6 DEF Next
  <1>4. EndFiberSessions \/ ClosePool \/ (scene' = scene /\ closer' = closer)
    <2>1. ASSUME NEW f \in Fibers, Lookup(f) \/ Attempts(f)
          PROVE  scene' = scene /\ closer' = closer
      BY <2>1 DEF Lookup, Attempts, Recycle, TakeNumber, NestedCommand, DropDeadPin, Send,
         NotSent, NetworkError, TriedAgain, CommandEnds
    <2>2. ASSUME NEW m \in wire, Deliver(m) PROVE scene' = scene /\ closer' = closer
      BY <2>2 DEF Deliver
    <2>3. CASE \/ StartSession \/ StartTransaction \/ Statement \/ PlainWrite \/ Commit
               \/ CommitEmpty \/ Abort \/ BodyEnds \/ EndSession \/ UNCHANGED vars
      BY <2>3 DEF StartSession, StartTransaction, Statement, PlainWrite, Commit, CommitEmpty,
         Abort, BodyEnds, EndSession, vars
    <2> QED
      BY <2>1, <2>2, <2>3 DEF Next
  <1> QED
    BY <1>2, <1>3, <1>4

LEMMA InitExact ==
  ASSUME Init
  PROVE  NumbersGiven /\ WritesOnce
  <1>1. /\ op = [f \in Fibers |-> Idle] /\ wire = {} /\ fate = [f \in Fibers |-> <<>>]
        /\ number = [l \in Lsids |-> 0] /\ mongod = [l \in Lsids |-> NewRecord]
    BY DEF Init
  <1>2. NumbersGiven
    BY <1>1 DEF NumbersGiven, NewRecord
  <1>3. \A f \in Fibers : FiberExact(f)
    BY <1>1, IdleExact
  <1>4. \A f \in Fibers : \A i \in 1 .. Len(fate[f]) : CallExact(fate[f][i])
    <2>1. \A f \in Fibers : Len(fate[f]) = 0
      BY <1>1, EmptySeq
    <2> QED
      BY <2>1
  <1>5. Exact
    BY <1>1, <1>3, <1>4 DEF Exact, NumbersOwned
  <1> QED
    BY <1>2, <1>5 DEF WritesOnce

\* All that is proved of the sessions is one inductive invariant: the types, the
\* holders of server sessions, the accounts of connections, and the numbers by
\* which the server knows what it applied.
THEOREM SessionsInvariant == Spec => []IInv
  <1>1. Init => IInv
    BY InitHolders, InitAccounted, InitExact DEF IInv
  <1>2. IInv /\ [Next]_vars => IInv'
    BY NextHolders, NextAccounted, NextGiven, NextExact DEF IInv, Holders
  <1> QED
    BY <1>1, <1>2, PTL DEF Spec

\* As long as nobody closes the client and no command is nested in another, a write
\* outside of transactions is applied at most once, and once if it was reported
\* done: however many attempts it takes, whatever was lost, came late or was
\* answered twice, and whichever server session the fiber had to exchange before.
THEOREM SessionsExactlyOnce == Spec => []ExactlyOnce
  <1>1. ASSUME IInv PROVE ExactlyOnce
    <2>1. \A f \in Fibers : DOMAIN fate[f] = 1 .. Len(fate[f])
      BY <1>1, LenProperties DEF IInv, Holders, Typed, TypeOK
    <2>2. Undisturbed => \A f \in Fibers : \A i \in DOMAIN fate[f] : CallExact(fate[f][i])
      BY <1>1, <2>1 DEF IInv, WritesOnce, Exact
    <2> QED
      BY <2>2 DEF ExactlyOnce, Undisturbed, CallExact
  <1> QED
    BY <1>1, SessionsInvariant, PTL
=============================================================================
