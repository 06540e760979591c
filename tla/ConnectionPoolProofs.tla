------------------------ MODULE ConnectionPoolProofs ------------------------
(***************************************************************************)
(* Theorems about ConnectionPool, for every number of fibers and every     *)
(* limit.  The inductive invariant is the one ConnectionPool states and    *)
(* TLC checks; each lemma below proves that a step preserves one part.     *)
(***************************************************************************)
EXTENDS ConnectionPool, FiniteSetTheorems, SequenceTheorems, TLAPS

(* The last element of a sequence without repetitions and the others.      *)
LEMMA FrontLast ==
  ASSUME NEW S, NEW s \in Seq(S), s # <<>>,
         \A i, j \in DOMAIN s : s[i] = s[j] => i = j
  PROVE  /\ Front(s) \in Seq(S) /\ Last(s) \in S
         /\ Last(s) \in ToSet(s)
         /\ ToSet(Front(s)) = ToSet(s) \ {Last(s)}
         /\ \A i, j \in DOMAIN Front(s) : Front(s)[i] = Front(s)[j] => i = j
<1>1. /\ Len(s) \in Nat /\ Len(s) # 0 /\ DOMAIN s = 1..Len(s)
  BY LenProperties, EmptySeq
<1>2. /\ Front(s) \in Seq(S) /\ DOMAIN Front(s) = 1..(Len(s) - 1)
      /\ \A i \in 1..(Len(s) - 1) : Front(s)[i] = s[i]
  BY <1>1, SubSeqProperties, LenProperties DEF Front
<1> QED
  BY <1>1, <1>2 DEF Last, ToSet

(* Appending an element to a sequence that does not have it.               *)
LEMMA AppendNew ==
  ASSUME NEW S, NEW s \in Seq(S), NEW e \in S
  PROVE  /\ Append(s, e) \in Seq(S)
         /\ ToSet(Append(s, e)) = ToSet(s) \cup {e}
         /\ (e \notin ToSet(s) /\ (\A i, j \in DOMAIN s : s[i] = s[j] => i = j))
              => \A i, j \in DOMAIN Append(s, e) :
                   Append(s, e)[i] = Append(s, e)[j] => i = j
<1>1. /\ Append(s, e) \in Seq(S) /\ Len(s) \in Nat
      /\ DOMAIN s = 1..Len(s) /\ DOMAIN Append(s, e) = 1..(Len(s) + 1)
      /\ \A i \in 1..Len(s) : Append(s, e)[i] = s[i]
      /\ Append(s, e)[Len(s) + 1] = e
  BY AppendProperties, LenProperties
<1> QED
  BY <1>1 DEF ToSet

LEMMA EmptyToSet == ToSet(<<>>) = {}
  BY DEF ToSet

(* What the receivers' queue may become is again a sequence of fibers.     *)
LEMMA QueueTypes ==
  ASSUME NEW S, NEW s \in Seq(S)
  PROVE  /\ s # <<>> => Tail(s) \in Seq(S)
         /\ \A i \in DOMAIN s : RemoveAt(s, i) \in Seq(S)
  BY HeadTailProperties, LenProperties, SubSeqProperties, ConcatProperties
     DEF RemoveAt

(* Elements of a sequence are in its set.                                  *)
LEMMA ToSetSubset ==
  ASSUME NEW S, NEW s \in Seq(S)
  PROVE  ToSet(s) \subseteq S
  BY ElementOfSeq, LenProperties DEF ToSet

-----------------------------------------------------------------------------
(* Counting handshakes. *)

LEMMA HandshakingFinite ==
  IsFiniteSet(Handshaking)
<1> Handshaking \in SUBSET Fibers
  BY DEF Handshaking
<1> QED
  BY ConstantsAssumption, FS_Subset

(* A handshake that is under way is counted.                               *)
LEMMA InflightPositive ==
  ASSUME TypeOK, ConnectingBounded
  PROVE  /\ Cardinality(Handshaking) \in Nat
         /\ \A f \in Handshaking : inflight - 1 \in Nat
         /\ filler = "connecting" => inflight - 1 \in Nat
<1>1. Cardinality(Handshaking) \in Nat
  BY HandshakingFinite, FS_CardinalityType
<1>2. Handshaking # {} => Cardinality(Handshaking) # 0
  BY HandshakingFinite, FS_EmptySet
<1> QED
  BY <1>1, <1>2 DEF ConnectingBounded, TypeOK

(* The signal leaves a queue of fibers.                                    *)
LEMMA SignalledType ==
  ASSUME queue \in Seq(Fibers)
  PROVE  Signalled \in Seq(Fibers)
  BY QueueTypes, EmptySeq DEF Signalled

-----------------------------------------------------------------------------
(* Every variable keeps its type. *)

LEMMA TypeStep ==
  ASSUME TypeOK, Ownership, HandshakeUncounted, ConnectingBounded, [Next]_vars
  PROVE  TypeOK'
<1> USE DEF TypeOK, poolVars, connVars, sockVars, CloseSockets, fiberVars,
            fillVars, FiberStates, FillerStates, Ownership
<1>h. \A f \in Fibers : pc[f] \in {"connecting", "using"} => held[f] \in Conns
  OBVIOUS
<1>i. \A f \in Fibers : pc[f] = "connecting" => inflight - 1 \in Nat
  BY InflightPositive DEF Handshaking
<1>j. filler = "connecting" => inflight - 1 \in Nat /\ fillConn \in Conns
  BY InflightPositive
<1>q. Signalled \in Seq(Fibers) /\ <<>> \in Seq(Fibers) /\ <<>> \in Seq(Conns)
  BY SignalledType, EmptySeq
<1>l. idle # <<>> => Front(idle) \in Seq(Conns) /\ Last(idle) \in Conns
  BY FrontLast
<1>a. \A c \in Conns : Append(idle, c) \in Seq(Conns)
  BY AppendNew
<1>s. ASSUME UNCHANGED vars PROVE TypeOK'
  BY <1>s DEF vars
<1>c. ASSUME NEW f \in Fibers, Checkout(f) PROVE TypeOK'
  <2>1. CASE Enter(f)
    BY <2>1 DEF Enter
  <2>2. CASE PickIdle(f)
    BY <2>2, <1>l DEF PickIdle
  <2>3. CASE DiscardIdle(f)
    BY <2>3, <1>l, <1>q DEF DiscardIdle, Forget
  <2>4. CASE BeginConnect(f)
    BY <2>4 DEF BeginConnect, NewConns
  <2>5. CASE Established(f)
    BY <2>5, <1>h, <1>i, <1>q DEF Established
  <2>6. CASE ConnectRefused(f) \/ ConnectFails(f)
    <3>1. EndConnect(f) /\ pc[f] = "connecting"
      BY <2>6 DEF ConnectRefused, ConnectFails
    <3> QED BY <3>1, <1>i, <1>q DEF EndConnect
  <2>7. CASE StartWait(f)
    BY <2>7 DEF StartWait
  <2>8. CASE Park(f)
    <3>1. Append(queue, f) \in Seq(Fibers)
      BY AppendNew
    <3> QED BY <2>8, <3>1 DEF Park
  <2>9. CASE WaitTimeout(f)
    <3>1. queue' \in Seq(Fibers)
      BY <2>9, QueueTypes DEF WaitTimeout
    <3> QED BY <2>9, <3>1 DEF WaitTimeout
  <2>10. CASE Resume(f)
    BY <2>10 DEF Resume
  <2>11. CASE GiveUp(f)
    BY <2>11 DEF GiveUp
  <2> QED
    BY <1>c, <2>1, <2>2, <2>3, <2>4, <2>5, <2>6, <2>7, <2>8, <2>9, <2>10, <2>11
       DEF Checkout
<1>u. ASSUME NEW f \in Fibers, UseFails(f) PROVE TypeOK'
  BY <1>u DEF UseFails
<1>r. ASSUME NEW f \in Fibers, Return(f) PROVE TypeOK'
  <2>1. CASE ~ReleaseToIdle(f)
    <3>1. CheckIn(f) /\ Forget(held[f]) /\ idle' = idle /\ queue' \in {queue, Signalled}
      BY <1>r, <2>1 DEF Return, ReleaseFresh, ReleaseToClosed, ReleaseUnusable, ReleaseExcess, Drop
    <3> QED BY <3>1, <1>q DEF CheckIn, Forget
  <2>3. CASE ReleaseToIdle(f)
    BY <2>3, <1>q, <1>h, <1>a DEF ReleaseToIdle, CheckIn
  <2> QED BY <2>1, <2>3
<1>p. ASSUME Populate PROVE TypeOK'
  <2>1. CASE StartMinSize
    BY <2>1 DEF StartMinSize
  <2>2. CASE FillDone \/ FillReportsError \/ FillEnds
    BY <2>2 DEF FillDone, FillReportsError, FillEnds
  <2>3. CASE FillBegins
    BY <2>3 DEF FillBegins, NewConns
  <2>4. CASE FillEstablished
    BY <2>4, <1>j, <1>a DEF FillEstablished, FillUnlocks
  <2>6. CASE FillRefused \/ FillFails
    BY <2>6, <1>j DEF FillRefused, FillFails, FillLoses, FillUnlocks
  <2>5. CASE FillSignals
    BY <2>5, <1>q DEF FillSignals
  <2> QED BY <1>p, <2>1, <2>2, <2>3, <2>4, <2>5, <2>6 DEF Populate
<1>m. ASSUME MarkReady PROVE TypeOK'
  <2>1. paused' \in BOOLEAN
    BY <1>m, Zenon DEF MarkReady
  <2>3. starters' \in Nat
    BY <1>m DEF MarkReady
  <2>2. UNCHANGED <<closed, drained, generation, total, idle, inUse, inflight,
                    lock, channelOpen, queue, connVars, fiberVars, filler,
                    fillConn>>
    BY <1>m DEF MarkReady
  <2> QED BY <2>1, <2>2, <2>3
<1>x. ASSUME NEW b \in BOOLEAN, ClearPool(b) PROVE TypeOK'
  BY <1>x, <1>q DEF ClearPool, DestroyIdle
<1>y. ASSUME CopySetups \/ \E c \in Conns : InterruptInUse(c) \/ InterruptSetup(c)
      PROVE  TypeOK'
  <2>1. CASE CopySetups
    <3>1. BeingSetUp \subseteq open
      BY DEF HandshakeUncounted
    <3>2. copied' \subseteq open /\ UNCHANGED <<open, interrupted, toInterrupt>>
      BY <2>1, <3>1 DEF CopySetups
    <3> QED BY <2>1, <3>2 DEF CopySetups
  <2>2. ASSUME NEW c \in Conns, InterruptInUse(c) PROVE TypeOK'
    BY <2>2 DEF InterruptInUse
  <2>3. ASSUME NEW c \in Conns, InterruptSetup(c) PROVE TypeOK'
    BY <2>3 DEF InterruptSetup
  <2> QED BY <1>y, <2>1, <2>2, <2>3
<1>z. ASSUME Close \/ Drain PROVE TypeOK'
  BY <1>z, <1>q DEF Close, Drain, DestroyIdle
<1> QED
  BY <1>s, <1>c, <1>u, <1>r, <1>p, <1>m, <1>x, <1>y, <1>z DEF Next

-----------------------------------------------------------------------------
(* The mutex is held from one iteration of checkout's loop to the next. *)

LEMMA LoopStepInv ==
  ASSUME TypeOK, LoopHasMutex, [Next]_vars
  PROVE  LoopHasMutex'
<1> USE ConstantsAssumption
    DEF TypeOK, LoopHasMutex, poolVars, connVars, sockVars, CloseSockets, fiberVars, fillVars
<1>s. ASSUME UNCHANGED vars PROVE LoopHasMutex'
  BY <1>s DEF vars
<1>c. ASSUME NEW f \in Fibers, Checkout(f) PROVE LoopHasMutex'
  <2>1. CASE Enter(f) \/ Resume(f)
    BY <2>1 DEF Enter, Resume, MayRetry
  <2>2. CASE PickIdle(f) \/ BeginConnect(f) \/ StartWait(f)
    <3>1. /\ pc[f] = "loop" /\ UNCHANGED poolVars
          /\ pc' = [pc EXCEPT ![f] = pc'[f]] /\ pc'[f] # "loop"
      BY <2>2 DEF PickIdle, BeginConnect, StartWait
    <3>2. \A g \in Fibers : pc'[g] = "loop" => g # f /\ pc[g] = "loop"
      BY <3>1
    <3>3. \A g \in Fibers : pc[g] = "loop" => g = f
      BY <3>1
    <3> QED BY <3>1, <3>2, <3>3
  <2>3. CASE DiscardIdle(f) \/ WaitTimeout(f)
    BY <2>3 DEF DiscardIdle, WaitTimeout
  <2>4. CASE Established(f) \/ ConnectRefused(f) \/ ConnectFails(f) \/ GiveUp(f)
    BY <2>4 DEF Established, ConnectRefused, ConnectFails, EndConnect, GiveUp
  <2>5. CASE Park(f)
    BY <2>5 DEF Park
  <2> QED
    BY <1>c, <2>1, <2>2, <2>3, <2>4, <2>5 DEF Checkout
<1>u. ASSUME NEW f \in Fibers, UseFails(f) PROVE LoopHasMutex'
  BY <1>u DEF UseFails
<1>r. ASSUME NEW f \in Fibers, Return(f) PROVE LoopHasMutex'
  <2>1. CheckIn(f)
    BY <1>r DEF Return, ReleaseFresh, ReleaseToClosed, ReleaseUnusable, ReleaseToIdle,
                ReleaseExcess, Drop
  <2> QED BY <2>1 DEF CheckIn
<1>p. ASSUME Populate PROVE LoopHasMutex'
  <2>1. UNCHANGED <<poolVars, pc>>
    BY <1>p DEF Populate, StartMinSize, FillDone, FillBegins, FillEstablished,
       FillRefused, FillFails, FillLoses, FillSignals, FillReportsError, FillEnds
  <2>2. lock' = lock \/ lock \in {NoOne, Filler}
    BY <1>p DEF Populate, StartMinSize, FillDone, FillBegins, FillEstablished,
       FillRefused, FillFails, FillLoses, FillSignals, FillReportsError, FillEnds
  <2> QED BY <2>1, <2>2
<1>m. ASSUME MarkReady PROVE LoopHasMutex'
  BY <1>m DEF MarkReady
<1>x. ASSUME NEW b \in BOOLEAN, ClearPool(b) PROVE LoopHasMutex'
  BY <1>x DEF ClearPool
<1>y. ASSUME CopySetups \/ \E c \in Conns : InterruptInUse(c) \/ InterruptSetup(c)
      PROVE  LoopHasMutex'
  BY <1>y DEF InterruptInUse, InterruptSetup, CopySetups
<1>z. ASSUME Close \/ Drain PROVE LoopHasMutex'
  BY <1>z DEF Close, Drain
<1> QED
  BY <1>s, <1>c, <1>u, <1>r, <1>p, <1>m, <1>x, <1>y, <1>z DEF Next

-----------------------------------------------------------------------------
(* Nobody refers to the connection that somebody else owns. *)

LEMMA OwnershipStep ==
  ASSUME TypeOK, Ownership, HandshakeUncounted, NoLeakedSlot, LoopHasMutex,
         [Next]_vars
  PROVE  Ownership'
<1>a. ASSUME NEW c \in Conns, c \notin ToSet(idle)
      PROVE  /\ ToSet(Append(idle, c)) = ToSet(idle) \cup {c}
             /\ \A i, j \in DOMAIN Append(idle, c) :
                  Append(idle, c)[i] = Append(idle, c)[j] => i = j
  <2>1. idle \in Seq(Conns) /\ \A i, j \in DOMAIN idle : idle[i] = idle[j] => i = j
    BY DEF TypeOK, Ownership
  <2> QED BY <1>a, <2>1, AppendNew
<1> USE ConstantsAssumption
    DEF TypeOK, Ownership, poolVars, connVars, sockVars, CloseSockets, fiberVars, fillVars
<1>s. ASSUME UNCHANGED <<held, pc, idle, filler, fillConn>> PROVE Ownership'
  BY <1>s
<1>e. ToSet(<<>>) = {}
  BY EmptyToSet
<1>o. ASSUME NEW f \in Fibers,
             held' = [held EXCEPT ![f] = NoConn],
             pc' = [pc EXCEPT ![f] = "outside"],
             UNCHANGED <<idle, filler, fillConn>>
      PROVE  Ownership'
  BY <1>o
<1>l. ASSUME idle # <<>>
      PROVE  /\ Last(idle) \in Conns /\ Last(idle) \in ToSet(idle)
             /\ ToSet(Front(idle)) = ToSet(idle) \ {Last(idle)}
             /\ \A i, j \in DOMAIN Front(idle) : Front(idle)[i] = Front(idle)[j] => i = j
  BY <1>l, FrontLast
<1>c. ASSUME NEW f \in Fibers, Checkout(f) PROVE Ownership'
  <2>1. CASE Enter(f) \/ StartWait(f) \/ Park(f) \/ Resume(f) \/ GiveUp(f)
    <3>1. /\ pc[f] \notin {"connecting", "using"}
          /\ \E p \in {"outside", "loop", "parking", "waiting"} :
               pc' = [pc EXCEPT ![f] = p]
          /\ UNCHANGED <<held, idle, filler, fillConn>>
      BY <2>1 DEF Enter, StartWait, Park, Resume, GiveUp, Awake
    <3> QED BY <3>1
  <2>2. CASE WaitTimeout(f)
    BY <2>2 DEF WaitTimeout
  <2>3. CASE PickIdle(f)
    BY <2>3, <1>l DEF PickIdle
  <2>4. CASE DiscardIdle(f)
    BY <2>4, <1>l DEF DiscardIdle
  <2>5. CASE BeginConnect(f)
    BY <2>5, <1>e DEF BeginConnect, NewConns
  <2>6. CASE Established(f)
    BY <2>6 DEF Established
  <2>7. CASE ConnectRefused(f) \/ ConnectFails(f)
    BY <2>7, <1>o DEF ConnectRefused, ConnectFails, EndConnect
  <2> QED
    BY <1>c, <2>1, <2>2, <2>3, <2>4, <2>5, <2>6, <2>7 DEF Checkout
<1>u. ASSUME NEW f \in Fibers, UseFails(f) PROVE Ownership'
  BY <1>u, <1>s DEF UseFails
<1>r. ASSUME NEW f \in Fibers, Return(f) PROVE Ownership'
  <2>1. CASE ReleaseToIdle(f)
    <3>1. held[f] \in Conns /\ held[f] \notin ToSet(idle)
      BY <2>1 DEF ReleaseToIdle, CheckIn
    <3>2. /\ ToSet(Append(idle, held[f])) = ToSet(idle) \cup {held[f]}
          /\ \A i, j \in DOMAIN Append(idle, held[f]) :
               Append(idle, held[f])[i] = Append(idle, held[f])[j] => i = j
      BY <3>1, <1>a
    <3> QED BY <2>1, <3>1, <3>2 DEF ReleaseToIdle, CheckIn
  <2>2. CASE ~ReleaseToIdle(f)
    <3>1. /\ held' = [held EXCEPT ![f] = NoConn]
          /\ pc' = [pc EXCEPT ![f] = "outside"]
          /\ UNCHANGED <<idle, filler, fillConn>>
      BY <1>r, <2>2 DEF Return, ReleaseFresh, ReleaseToClosed, ReleaseUnusable,
         ReleaseExcess, Drop, CheckIn
    <3> QED BY <3>1, <1>o
  <2> QED BY <2>1, <2>2
<1>p. ASSUME Populate PROVE Ownership'
  <2>1. CASE StartMinSize \/ FillDone \/ FillSignals \/ FillReportsError \/ FillEnds
    BY <2>1 DEF StartMinSize, FillDone, FillSignals, FillReportsError, FillEnds
  <2>2. CASE FillBegins
    BY <2>2 DEF FillBegins, NewConns
  <2>3. CASE FillEstablished
    <3>1. fillConn \in Conns /\ fillConn \notin ToSet(idle)
      BY <2>3 DEF FillEstablished
    <3>2. /\ ToSet(Append(idle, fillConn)) = ToSet(idle) \cup {fillConn}
          /\ \A i, j \in DOMAIN Append(idle, fillConn) :
               Append(idle, fillConn)[i] = Append(idle, fillConn)[j] => i = j
      BY <3>1, <1>a
    <3>3. ToSet(idle) \subseteq Conns
      BY ToSetSubset
    <3> QED BY <2>3, <3>1, <3>2, <3>3 DEF FillEstablished
  <2>4. CASE FillRefused \/ FillFails
    <3>1. ToSet(idle) \subseteq Conns
      BY ToSetSubset
    <3> QED BY <2>4, <3>1 DEF FillRefused, FillFails, FillLoses
  <2> QED BY <1>p, <2>1, <2>2, <2>3, <2>4 DEF Populate
<1>m. ASSUME MarkReady PROVE Ownership'
  BY <1>m, <1>s DEF MarkReady
<1>x. ASSUME NEW b \in BOOLEAN, ClearPool(b) PROVE Ownership'
  BY <1>x, <1>e DEF ClearPool, DestroyIdle
<1>y. ASSUME CopySetups \/ \E c \in Conns : InterruptInUse(c) \/ InterruptSetup(c)
      PROVE  Ownership'
  BY <1>y, <1>s DEF InterruptInUse, InterruptSetup, CopySetups
<1>z. ASSUME Close \/ Drain PROVE Ownership'
  BY <1>z, <1>e DEF Close, Drain, DestroyIdle
<1> QED
  BY <1>s, <1>c, <1>u, <1>r, <1>p, <1>m, <1>x, <1>y, <1>z DEF Next, vars

-----------------------------------------------------------------------------
(* What is counted is idle or used. *)

(* SlotsCounted, connection by connection.                                 *)
Uses(f, c) == pc[f] = "using" /\ held[f] = c

SlotsByConn ==
  \A c \in Conns :
    IF drained THEN c \notin total /\ c \notin inUse
               ELSE /\ c \in inUse <=> \E f \in Fibers : Uses(f, c)
                    /\ c \in total <=> c \in inUse \/ c \in ToSet(idle)

LEMMA SlotsEquivalence ==
  ASSUME TypeOK, Ownership
  PROVE  SlotsCounted <=> SlotsByConn
<1>1. ToSet(idle) \subseteq Conns
  BY ToSetSubset DEF TypeOK
<1>2. \A f \in Fibers : pc[f] = "using" => held[f] \in Conns
  BY DEF TypeOK, Ownership
<1>3. \A c \in Conns : c \in HeldBy(Users) <=> \E f \in Fibers : Uses(f, c)
  BY DEF HeldBy, Users, Uses
<1>4. HeldBy(Users) \subseteq Conns
  BY <1>2 DEF HeldBy, Users
<1>5. CASE drained
  BY <1>5 DEF TypeOK, SlotsCounted, SlotsByConn
<1>6. CASE ~drained
  <2>1. inUse = HeldBy(Users) <=>
          \A c \in Conns : c \in inUse <=> \E f \in Fibers : Uses(f, c)
    BY <1>3, <1>4 DEF TypeOK
  <2>2. ASSUME inUse = HeldBy(Users)
        PROVE  total = ToSet(idle) \cup HeldBy(Users) <=>
                 \A c \in Conns : c \in total <=> c \in inUse \/ c \in ToSet(idle)
    BY <2>2, <1>1, <1>4 DEF TypeOK
  <2> QED BY <1>6, <2>1, <2>2 DEF SlotsCounted, SlotsByConn
<1> QED
  BY <1>5, <1>6

LEMMA SlotsStep ==
  ASSUME TypeOK, Ownership, HandshakeUncounted, SlotsCounted, LoopHasMutex,
         TypeOK', Ownership', [Next]_vars
  PROVE  SlotsCounted'
<1> SUFFICES SlotsByConn'
  BY SlotsEquivalence, PTL
<1>0. SlotsByConn
  BY SlotsEquivalence
<1>h. \A f \in Fibers : pc[f] \in {"connecting", "using"} => held[f] \in Conns
  BY DEF TypeOK, Ownership
<1>l. ASSUME idle # <<>>
      PROVE  /\ Last(idle) \in Conns /\ Last(idle) \in ToSet(idle)
             /\ ToSet(Front(idle)) = ToSet(idle) \ {Last(idle)}
  BY <1>l, FrontLast DEF TypeOK, Ownership
<1>a. \A c \in Conns : ToSet(Append(idle, c)) = ToSet(idle) \cup {c}
  BY AppendNew DEF TypeOK
<1>e. ToSet(<<>>) = {}
  BY EmptyToSet
<1> USE ConstantsAssumption DEF SlotsByConn, Uses, TypeOK, poolVars, connVars,
        fiberVars, fillVars
(* Steps that move no connection between idle, used and gone.              *)
<1>k. ASSUME UNCHANGED <<total, idle, inUse, drained>>,
             \A f \in Fibers : pc'[f] = "using" <=> pc[f] = "using",
             \A f \in Fibers : pc[f] = "using" => held'[f] = held[f]
      PROVE  SlotsByConn'
  BY <1>k, <1>0
<1>c. ASSUME NEW f \in Fibers, Checkout(f) PROVE SlotsByConn'
  <2>1. CASE Enter(f) \/ StartWait(f)
    BY <2>1, <1>k DEF Enter, StartWait
  <2>7. CASE Park(f) \/ WaitTimeout(f)
    BY <2>7, <1>k DEF Park, WaitTimeout
  <2>8. CASE Resume(f) \/ GiveUp(f)
    BY <2>8, <1>k DEF Resume, GiveUp, Awake
  <2>5. CASE BeginConnect(f)
    <3>1. PICK c \in NewConns : held' = [held EXCEPT ![f] = c]
      BY <2>5 DEF BeginConnect
    <3> QED BY <2>5, <3>1, <1>k DEF BeginConnect
  <2>6. CASE ConnectRefused(f) \/ ConnectFails(f)
    BY <2>6, <1>k DEF ConnectRefused, ConnectFails, EndConnect
  <2>2. CASE PickIdle(f)
    BY <2>2, <1>0, <1>l DEF PickIdle, LoopHasMutex, Ownership
  <2>3. CASE DiscardIdle(f)
    BY <2>3, <1>0, <1>l DEF DiscardIdle, Forget, LoopHasMutex, Ownership
  <2>4. CASE Established(f)
    BY <2>4, <1>0, <1>h DEF Established, LoopHasMutex, Ownership
  <2> QED
    BY <1>c, <2>1, <2>2, <2>3, <2>4, <2>5, <2>6, <2>7, <2>8
       DEF Checkout
<1>u. ASSUME NEW f \in Fibers, UseFails(f) PROVE SlotsByConn'
  BY <1>u, <1>k DEF UseFails
<1>r. ASSUME NEW f \in Fibers, Return(f) PROVE SlotsByConn'
  <2>1. CASE ReleaseToIdle(f)
    BY <2>1, <1>0, <1>h, <1>a DEF ReleaseToIdle, CheckIn, LoopHasMutex, Ownership
  <2>2. CASE ~ReleaseToIdle(f)
    <3>1. CheckIn(f) /\ Forget(held[f]) /\ UNCHANGED idle
      BY <1>r, <2>2 DEF Return, ReleaseFresh, ReleaseToClosed, ReleaseUnusable, ReleaseExcess, Drop
    <3> QED BY <3>1, <1>0, <1>h DEF CheckIn, Forget, Ownership
  <2> QED BY <2>1, <2>2
<1>p. ASSUME Populate PROVE SlotsByConn'
  <2>1. CASE FillEstablished
    BY <2>1, <1>0, <1>a DEF FillEstablished, LoopHasMutex, Ownership
  <2>2. CASE ~FillEstablished
    BY <1>p, <2>2, <1>k DEF Populate, StartMinSize, FillDone, FillBegins,
       FillRefused, FillFails, FillLoses, FillSignals, FillReportsError, FillEnds
  <2> QED BY <2>1, <2>2
<1>x. ASSUME UNCHANGED <<drained, inUse, pc, held>>, DestroyIdle
      PROVE  SlotsByConn'
  BY <1>x, <1>0, <1>e DEF DestroyIdle, Ownership
<1>y. ASSUME Drain PROVE SlotsByConn'
  BY <1>y DEF Drain
<1>z. ASSUME \/ UNCHANGED vars \/ MarkReady
             \/ CopySetups \/ \E c \in Conns : InterruptInUse(c) \/ InterruptSetup(c)
      PROVE  SlotsByConn'
  BY <1>z, <1>k DEF vars, MarkReady, InterruptInUse, InterruptSetup, CopySetups
<1>w. ASSUME Close \/ \E b \in BOOLEAN : ClearPool(b) PROVE SlotsByConn'
  BY <1>w, <1>x DEF Close, ClearPool
<1> QED
  BY <1>c, <1>u, <1>r, <1>p, <1>y, <1>z, <1>w DEF Next

-----------------------------------------------------------------------------
(* A handshake's socket stays open and out of the pool's books. *)

InHandshake(c) ==
  /\ c # NoConn
  /\ \/ \E f \in Fibers : pc[f] = "connecting" /\ held[f] = c
     \/ c = fillConn

Uncounted(c) ==
  /\ c \in open /\ c \notin total /\ c \notin inUse
  /\ c \notin toInterrupt /\ c \notin ShutInUse

AllUncounted == \A c : InHandshake(c) => Uncounted(c)

LEMMA HandshakeByElement ==
  HandshakeUncounted <=> AllUncounted
BY DEF HandshakeUncounted, AllUncounted, InHandshake, Uncounted, HeldBy, Handshaking,
   BeingSetUp

LEMMA HandshakeStep ==
  ASSUME TypeOK, Ownership, HandshakeUncounted, SlotsCounted, LoopHasMutex,
         [Next]_vars
  PROVE  HandshakeUncounted'
<1> SUFFICES AllUncounted'
  BY HandshakeByElement, PTL
<1> SUFFICES ASSUME NEW d, InHandshake(d)' PROVE Uncounted(d)'
  BY DEF AllUncounted
<1>0. \A c : InHandshake(c) => Uncounted(c)
  BY HandshakeByElement DEF AllUncounted
<1>h. \A f \in Fibers : pc[f] \in {"connecting", "using"} => held[f] \in Conns
  BY DEF TypeOK, Ownership
<1>l. idle # <<>> => Last(idle) \in ToSet(idle) /\ Last(idle) \in Conns
  BY FrontLast DEF TypeOK, Ownership
<1>t. /\ ~drained => ToSet(idle) \subseteq total
      /\ \A c \in NewConns : c \in Conns /\ c \notin total /\ c \notin inUse
                             /\ c \notin toInterrupt /\ c \notin open
                             /\ \A f \in Fibers : held[f] # c
  BY DEF SlotsCounted, NewConns, HeldBy, Users
<1> USE ConstantsAssumption DEF TypeOK, poolVars, connVars, sockVars, CloseSockets,
        fiberVars, fillVars, ShutInUse
(* Steps that start no handshake and end or close none.                    *)
<1>k. ASSUME \A c : InHandshake(c)' => InHandshake(c),
             \A c : Uncounted(c) /\ InHandshake(c)' => Uncounted(c)'
      PROVE  Uncounted(d)'
  BY <1>0, <1>k
<1>c. ASSUME NEW f \in Fibers, Checkout(f) PROVE Uncounted(d)'
  <2>1. CASE \/ Enter(f) \/ StartWait(f) \/ Park(f) \/ WaitTimeout(f)
             \/ Resume(f) \/ GiveUp(f)
    BY <2>1, <1>k DEF Enter, StartWait, Park, WaitTimeout, Resume, GiveUp, Awake,
       Uncounted, InHandshake
  <2>2. CASE PickIdle(f)
    <3>1. \A c : InHandshake(c)' => InHandshake(c)
      BY <2>2 DEF PickIdle, InHandshake
    <3>2. Last(idle) # d
      BY <2>2, <3>1, <1>l DEF PickIdle, InHandshake, Ownership
    <3> QED BY <2>2, <3>1, <3>2, <1>0 DEF PickIdle, Uncounted
  <2>3. CASE DiscardIdle(f)
    <3>1. \A c : InHandshake(c)' => InHandshake(c)
      BY <2>3 DEF DiscardIdle, InHandshake
    <3>2. Last(idle) # d
      BY <2>3, <3>1, <1>l DEF DiscardIdle, InHandshake, Ownership
    <3> QED BY <2>3, <3>1, <3>2, <1>0 DEF DiscardIdle, Forget, Uncounted
  <2>4. CASE BeginConnect(f)
    <3>1. PICK c \in NewConns : /\ held' = [held EXCEPT ![f] = c]
                                /\ open' = open \cup {c}
      BY <2>4 DEF BeginConnect
    <3>2. InHandshake(d) \/ d = c
      BY <2>4, <3>1 DEF BeginConnect, InHandshake
    <3> QED BY <2>4, <3>1, <3>2, <1>0, <1>t DEF BeginConnect, Uncounted
  <2>5. CASE Established(f)
    <3>1. InHandshake(d) /\ d # held[f]
      BY <2>5 DEF Established, InHandshake, Ownership
    <3> QED BY <2>5, <3>1, <1>0 DEF Established, Uncounted
  <2>6. CASE ConnectRefused(f) \/ ConnectFails(f)
    <3>2. /\ pc[f] = "connecting" /\ pc' = [pc EXCEPT ![f] = "outside"]
          /\ held' = [held EXCEPT ![f] = NoConn] /\ UNCHANGED fillConn
      BY <2>6 DEF ConnectRefused, ConnectFails, EndConnect
    <3>3. ASSUME NEW g \in Fibers, pc'[g] = "connecting", held'[g] = d
          PROVE  g # f /\ pc[g] = "connecting" /\ held[g] = d
      BY <3>2, <3>3
    <3>1. InHandshake(d) /\ d # held[f]
      BY <3>2, <3>3, <1>h DEF InHandshake, Ownership
    <3> QED BY <2>6, <3>1, <1>0 DEF ConnectRefused, ConnectFails, EndConnect, Uncounted
  <2> QED
    BY <1>c, <2>1, <2>2, <2>3, <2>4, <2>5, <2>6 DEF Checkout
<1>u. ASSUME NEW f \in Fibers, UseFails(f) \/ Return(f) PROVE Uncounted(d)'
  <2>6. CheckIn(f) => InHandshake(d) /\ d # held[f]
    BY <1>h DEF CheckIn, InHandshake, Ownership
  <2>7. UseFails(f) => InHandshake(d) /\ d # held[f]
    BY <1>h DEF UseFails, InHandshake, Ownership
  <2>1. InHandshake(d) /\ d # held[f]
    BY <1>u, <2>6, <2>7 DEF Return, ReleaseFresh, ReleaseToClosed, ReleaseUnusable,
       ReleaseToIdle, ReleaseExcess, Drop
  <2>2. Uncounted(d)
    BY <2>1, <1>0
  <2>3. CASE UseFails(f)
    BY <2>1, <2>2, <2>3 DEF UseFails, Uncounted
  <2>4. CASE ReleaseToIdle(f)
    BY <2>1, <2>2, <2>4 DEF ReleaseToIdle, CheckIn, Uncounted
  <2>5. CASE CheckIn(f) /\ Forget(held[f])
    BY <2>1, <2>2, <2>5 DEF CheckIn, Forget, Uncounted
  <2> QED BY <1>u, <2>3, <2>4, <2>5 DEF Return, ReleaseFresh, ReleaseToClosed,
             ReleaseUnusable, ReleaseExcess, Drop
<1>p. ASSUME Populate PROVE Uncounted(d)'
  <2>1. CASE StartMinSize \/ FillDone \/ FillSignals \/ FillReportsError \/ FillEnds
    BY <2>1, <1>k DEF StartMinSize, FillDone, FillSignals, FillReportsError, FillEnds,
       InHandshake, Uncounted
  <2>2. CASE FillBegins
    <3>1. PICK c \in NewConns : /\ fillConn' = c
                                /\ open' = open \cup {c}
      BY <2>2 DEF FillBegins
    <3>2. InHandshake(d) \/ d = c
      BY <2>2, <3>1 DEF FillBegins, InHandshake
    <3> QED BY <2>2, <3>1, <3>2, <1>0, <1>t DEF FillBegins, Uncounted
  <2>3. CASE FillEstablished
    <3>1. InHandshake(d) /\ d # fillConn
      BY <2>3 DEF FillEstablished, InHandshake, Ownership
    <3> QED BY <2>3, <3>1, <1>0 DEF FillEstablished, Uncounted
  <2>4. CASE FillRefused \/ FillFails
    <3>1. InHandshake(d) /\ d # fillConn
      BY <2>4 DEF FillRefused, FillFails, FillLoses, InHandshake, Ownership
    <3> QED BY <2>4, <3>1, <1>0 DEF FillRefused, FillFails, FillLoses, Uncounted
  <2> QED BY <1>p, <2>1, <2>2, <2>3, <2>4 DEF Populate
<1>m. ASSUME UNCHANGED vars \/ MarkReady PROVE Uncounted(d)'
  BY <1>m, <1>k DEF vars, MarkReady, InHandshake, Uncounted
<1>x. ASSUME DestroyIdle, UNCHANGED <<inUse, pc, held, fillConn>>,
             \A c \in toInterrupt' : c \in toInterrupt \/ c \in total
      PROVE  Uncounted(d)'
  <2>1. InHandshake(d)
    BY <1>x DEF InHandshake
  <2>2. d \notin ToSet(idle)
    BY <2>1 DEF InHandshake, Ownership
  <2> QED BY <1>x, <2>1, <2>2, <1>0 DEF DestroyIdle, Uncounted
<1>w. ASSUME Close \/ \E b \in BOOLEAN : ClearPool(b) PROVE Uncounted(d)'
  BY <1>w, <1>x DEF Close, ClearPool
<1>y. ASSUME CopySetups \/ \E c \in Conns : InterruptInUse(c) \/ InterruptSetup(c)
      PROVE  Uncounted(d)'
  BY <1>y, <1>k DEF InterruptInUse, InterruptSetup, CopySetups, InHandshake, Uncounted
<1>z. ASSUME Drain PROVE Uncounted(d)'
  BY <1>z, <1>k DEF Drain, InHandshake, Uncounted
<1> QED
  BY <1>c, <1>u, <1>p, <1>m, <1>w, <1>y, <1>z DEF Next

(* SocketsOwned, connection by connection.                                 *)
LEMMA SocketsByElement ==
  SocketsOwned <=> \A c \in open : c \in total \/ InHandshake(c)
BY DEF SocketsOwned, BeingSetUp, InHandshake, HeldBy, Handshaking

LEMMA SocketsStep ==
  ASSUME TypeOK, Ownership, SocketsOwned, [Next]_vars
  PROVE  SocketsOwned'
<1>0. \A c \in open : c \in total \/ InHandshake(c)
  BY SocketsByElement
<1> SUFFICES (\A c \in open : c \in total \/ InHandshake(c))'
  BY SocketsByElement, PTL
<1> SUFFICES ASSUME NEW d \in open' PROVE d \in total' \/ InHandshake(d)'
  OBVIOUS
<1> USE ConstantsAssumption DEF TypeOK, poolVars, connVars, sockVars, CloseSockets,
        fiberVars, fillVars
(* Steps that open no socket, and forget none that stays open.             *)
<1>k. ASSUME open' \subseteq open, d \in total => d \in total',
             InHandshake(d) => InHandshake(d)'
      PROVE  d \in total' \/ InHandshake(d)'
  BY <1>0, <1>k
<1>c. ASSUME NEW f \in Fibers, Checkout(f) PROVE d \in total' \/ InHandshake(d)'
  <2>1. CASE \/ Enter(f) \/ PickIdle(f) \/ StartWait(f) \/ Park(f)
             \/ WaitTimeout(f) \/ Resume(f) \/ GiveUp(f)
    BY <2>1, <1>k DEF Enter, PickIdle, StartWait, Park, WaitTimeout, Resume, GiveUp,
       Awake, InHandshake
  <2>2. CASE DiscardIdle(f)
    BY <2>2, <1>k DEF DiscardIdle, Forget, InHandshake
  <2>3. CASE BeginConnect(f)
    <3>1. PICK c \in NewConns : /\ held' = [held EXCEPT ![f] = c]
                                /\ open' = open \cup {c}
      BY <2>3 DEF BeginConnect
    <3>2. pc' = [pc EXCEPT ![f] = "connecting"] /\ pc[f] = "loop"
          /\ UNCHANGED <<total, fillConn>>
      BY <2>3 DEF BeginConnect
    <3>3. CASE d = c
      <4>1. held'[f] = d /\ pc'[f] = "connecting" /\ d # NoConn
        BY <3>1, <3>2, <3>3 DEF NewConns
      <4> QED BY <4>1 DEF InHandshake
    <3>4. CASE d # c
      BY <3>1, <3>2, <3>4, <1>0 DEF InHandshake
    <3> QED BY <3>3, <3>4
  <2>4. CASE Established(f)
    BY <2>4, <1>0 DEF Established, InHandshake
  <2>5. CASE ConnectRefused(f) \/ ConnectFails(f)
    <3>1. /\ open' = open \ {held[f]} /\ UNCHANGED <<total, fillConn>>
          /\ pc' = [pc EXCEPT ![f] = "outside"] /\ held' = [held EXCEPT ![f] = NoConn]
      BY <2>5 DEF ConnectRefused, ConnectFails, EndConnect
    <3>2. \A g \in Fibers : g # f => pc'[g] = pc[g] /\ held'[g] = held[g]
      BY <3>1
    <3>3. d \in open /\ d # held[f]
      BY <3>1
    <3> QED BY <3>1, <3>2, <3>3, <1>0 DEF InHandshake
  <2> QED BY <1>c, <2>1, <2>2, <2>3, <2>4, <2>5 DEF Checkout
<1>u. ASSUME NEW f \in Fibers, UseFails(f) \/ Return(f)
      PROVE  d \in total' \/ InHandshake(d)'
  <2>1. CASE UseFails(f)
    BY <2>1, <1>k DEF UseFails, InHandshake
  <2>2. CASE CheckIn(f) /\ Forget(held[f])
    BY <2>2, <1>k DEF CheckIn, Forget, InHandshake
  <2>3. CASE ReleaseToIdle(f)
    BY <2>3, <1>k DEF ReleaseToIdle, CheckIn, InHandshake
  <2> QED BY <1>u, <2>1, <2>2, <2>3 DEF Return, ReleaseFresh, ReleaseToClosed,
             ReleaseUnusable, ReleaseExcess, Drop
<1>p. ASSUME Populate PROVE d \in total' \/ InHandshake(d)'
  <2>1. CASE StartMinSize \/ FillDone \/ FillSignals \/ FillReportsError \/ FillEnds
    BY <2>1, <1>k DEF StartMinSize, FillDone, FillSignals, FillReportsError,
       FillEnds, InHandshake
  <2>2. CASE FillBegins
    BY <2>2, <1>0 DEF FillBegins, NewConns, InHandshake, Ownership
  <2>3. CASE FillEstablished
    BY <2>3, <1>0 DEF FillEstablished, InHandshake
  <2>4. CASE FillRefused \/ FillFails
    BY <2>4, <1>0 DEF FillRefused, FillFails, FillLoses, InHandshake
  <2> QED BY <1>p, <2>1, <2>2, <2>3, <2>4 DEF Populate
<1>m. ASSUME UNCHANGED vars \/ MarkReady PROVE d \in total' \/ InHandshake(d)'
  BY <1>m, <1>k DEF vars, MarkReady, InHandshake
<1>x. ASSUME Close \/ Drain \/ \E b \in BOOLEAN : ClearPool(b)
      PROVE  d \in total' \/ InHandshake(d)'
  BY <1>x, <1>0 DEF Close, Drain, ClearPool, DestroyIdle, InHandshake
<1>y. ASSUME CopySetups \/ \E c \in Conns : InterruptInUse(c) \/ InterruptSetup(c)
      PROVE  d \in total' \/ InHandshake(d)'
  BY <1>y, <1>k DEF CopySetups, InterruptInUse, InterruptSetup, InHandshake
<1> QED
  BY <1>c, <1>u, <1>p, <1>m, <1>x, <1>y DEF Next

-----------------------------------------------------------------------------
(* Generations.  What a clear may interrupt, or has interrupted, is older  *)
(* than the pool if it is still counted.                                   *)

CountedOld ==
  \A c \in total :
    /\ connGen[c] <= generation
    /\ paused /\ ~closed => connGen[c] < generation
    /\ c \in toInterrupt \cup ShutInUse => connGen[c] < generation

LEMMA CountedOldEquivalence ==
  Generations /\ InterruptsOnlyStale <=> CountedOld
BY DEF Generations, InterruptsOnlyStale, CountedOld

LEMMA GenerationStep ==
  ASSUME TypeOK, Ownership, HandshakeUncounted, LoopHasMutex,
         Generations, InterruptsOnlyStale, [Next]_vars
  PROVE  Generations' /\ InterruptsOnlyStale'
<1> SUFFICES CountedOld'
  BY CountedOldEquivalence, PTL
<1>0. CountedOld
  BY CountedOldEquivalence
<1>1. \A c : InHandshake(c) => Uncounted(c)
  BY HandshakeByElement DEF AllUncounted
<1>h. \A f \in Fibers : pc[f] = "connecting" => held[f] \in Conns
  BY DEF TypeOK, Ownership
<1> USE ConstantsAssumption DEF TypeOK, poolVars, connVars, sockVars, CloseSockets,
        fiberVars, fillVars, ShutInUse, CountedOld
(* Steps that count no more connections.                                   *)
<1>k. ASSUME total' \subseteq total, UNCHANGED <<connGen, generation>>,
             toInterrupt' \cup ShutInUse' \subseteq toInterrupt \cup ShutInUse,
             paused' /\ ~closed' => paused /\ ~closed
      PROVE  CountedOld'
  BY <1>k, <1>0
(* A handshake that ends well.                                             *)
<1>n. ASSUME NEW c \in Conns, InHandshake(c), ~paused,
             connGen' = [connGen EXCEPT ![c] = generation],
             total' = total \cup {c},
             UNCHANGED <<poolVars, toInterrupt, sockVars>>
      PROVE  CountedOld'
  <2>1. c \notin toInterrupt /\ c \notin ShutInUse /\ c \notin total
    BY <1>n, <1>1 DEF Uncounted
  <2> QED BY <1>n, <1>0, <2>1
<1>c. ASSUME NEW f \in Fibers, Checkout(f) PROVE CountedOld'
  <2>1. CASE \/ Enter(f) \/ PickIdle(f) \/ ConnectRefused(f) \/ ConnectFails(f)
             \/ StartWait(f) \/ Park(f) \/ WaitTimeout(f) \/ Resume(f) \/ GiveUp(f)
    BY <2>1, <1>k DEF Enter, PickIdle, ConnectRefused, ConnectFails, EndConnect,
       StartWait, Park, WaitTimeout, Resume, GiveUp, Awake
  <2>2. CASE DiscardIdle(f)
    BY <2>2, <1>k DEF DiscardIdle, Forget
  <2>3. CASE BeginConnect(f)
    BY <2>3, <1>k DEF BeginConnect
  <2>4. CASE Established(f)
    BY <2>4, <1>h, <1>n DEF Established, InHandshake
  <2> QED
    BY <1>c, <2>1, <2>2, <2>3, <2>4 DEF Checkout
<1>u. ASSUME NEW f \in Fibers, UseFails(f) PROVE CountedOld'
  BY <1>u, <1>k DEF UseFails
<1>r. ASSUME NEW f \in Fibers, Return(f) PROVE CountedOld'
  BY <1>r, <1>k DEF Return, ReleaseFresh, ReleaseToClosed, ReleaseUnusable, ReleaseToIdle,
     ReleaseExcess, Drop, CheckIn, Forget
<1>p. ASSUME Populate PROVE CountedOld'
  <2>1. CASE FillEstablished
    BY <2>1, <1>n DEF FillEstablished, InHandshake, Ownership
  <2>2. CASE FillBegins
    BY <2>2, <1>k DEF FillBegins
  <2>3. CASE ~FillEstablished /\ ~FillBegins
    BY <1>p, <2>3, <1>k DEF Populate, StartMinSize, FillDone, FillRefused,
       FillFails, FillLoses, FillSignals, FillReportsError, FillEnds
  <2> QED BY <2>1, <2>2, <2>3
<1>m. ASSUME UNCHANGED vars \/ MarkReady \/ Close \/ Drain PROVE CountedOld'
  BY <1>m, <1>k DEF vars, MarkReady, Close, Drain, DestroyIdle
<1>x. ASSUME NEW b \in BOOLEAN, ClearPool(b) PROVE CountedOld'
  BY <1>x, <1>0 DEF ClearPool, DestroyIdle
<1>y. ASSUME CopySetups \/ \E c \in Conns : InterruptInUse(c) \/ InterruptSetup(c)
      PROVE  CountedOld'
  BY <1>y, <1>k DEF InterruptInUse, InterruptSetup, CopySetups
<1> QED
  BY <1>c, <1>u, <1>r, <1>p, <1>m, <1>x, <1>y DEF Next

-----------------------------------------------------------------------------
(* What is idle can be handed out. *)

LEMMA IdleStep ==
  ASSUME TypeOK, Ownership, HandshakeUncounted, SlotsCounted, LoopHasMutex,
         Generations, InterruptsOnlyStale, IdleUsable, [Next]_vars
  PROVE  IdleUsable'
<1>0. /\ \A c \in ToSet(idle) : c \in open /\ c \notin ShutInUse
                               /\ connGen[c] = generation
      /\ paused => idle = <<>>
  BY DEF IdleUsable, Stale
<1>1. \A c : InHandshake(c) => Uncounted(c)
  BY HandshakeByElement DEF AllUncounted
<1>h. \A f \in Fibers : pc[f] \in {"connecting", "using"} =>
         held[f] \in Conns /\ held[f] \notin ToSet(idle)
  BY DEF TypeOK, Ownership
<1>l. ASSUME idle # <<>>
      PROVE  /\ Last(idle) \in Conns
             /\ ToSet(Front(idle)) = ToSet(idle) \ {Last(idle)}
  BY <1>l, FrontLast DEF TypeOK, Ownership
<1>a. \A c \in Conns : ToSet(Append(idle, c)) = ToSet(idle) \cup {c}
  BY AppendNew DEF TypeOK
<1>e. ToSet(<<>>) = {}
  BY EmptyToSet
<1> USE ConstantsAssumption DEF TypeOK, poolVars, connVars, sockVars, CloseSockets,
        fiberVars, fillVars, ShutInUse, IdleUsable, Dead, Stale
<1>k. ASSUME UNCHANGED <<idle, generation>>, paused' => paused,
             \A c \in ToSet(idle) : /\ c \in open' /\ c \notin ShutInUse'
                                   /\ connGen'[c] = connGen[c]
      PROVE  IdleUsable'
  BY <1>k, <1>0
(* A connection joins the idle ones of a ready pool.                       *)
<1>n. ASSUME NEW c \in Conns, idle' = Append(idle, c), ~paused,
             connGen' = [connGen EXCEPT ![c] = generation],
             c \in open, c \notin ShutInUse,
             UNCHANGED <<poolVars, sockVars>>
      PROVE  IdleUsable'
  BY <1>n, <1>0, <1>a
<1>w. ASSUME idle' = <<>> PROVE IdleUsable'
  BY <1>w, <1>e
<1>c. ASSUME NEW f \in Fibers, Checkout(f) PROVE IdleUsable'
  <2>1. CASE \/ Enter(f) \/ StartWait(f) \/ Park(f) \/ WaitTimeout(f)
             \/ Resume(f) \/ GiveUp(f)
    BY <2>1, <1>k, <1>0 DEF Enter, StartWait, Park, WaitTimeout, Resume, GiveUp, Awake
  <2>2. CASE PickIdle(f)
    BY <2>2, <1>0, <1>l DEF PickIdle, LoopHasMutex
  <2>3. CASE DiscardIdle(f)
    BY <2>3, <1>0, <1>l DEF DiscardIdle, Forget, LoopHasMutex
  <2>4. CASE BeginConnect(f)
    BY <2>4, <1>k, <1>0 DEF BeginConnect
  <2>5. CASE Established(f)
    BY <2>5, <1>k, <1>0, <1>h DEF Established
  <2>6. CASE ConnectRefused(f) \/ ConnectFails(f)
    BY <2>6, <1>k, <1>0, <1>h DEF ConnectRefused, ConnectFails, EndConnect
  <2> QED
    BY <1>c, <2>1, <2>2, <2>3, <2>4, <2>5, <2>6 DEF Checkout
<1>u. ASSUME NEW f \in Fibers, UseFails(f) PROVE IdleUsable'
  BY <1>u, <1>k, <1>0, <1>h DEF UseFails
<1>r. ASSUME NEW f \in Fibers, Return(f) PROVE IdleUsable'
  <2>1. CASE ReleaseToIdle(f)
    <3>1. held[f] \in Conns /\ held[f] \in open /\ held[f] \notin ShutInUse
          /\ connGen[held[f]] = generation /\ ~closed
      BY <2>1, <1>h DEF ReleaseToIdle, CheckIn
    <3>2. held[f] \in total
      BY <2>1, <3>1 DEF ReleaseToIdle, CheckIn, SlotsCounted, HeldBy, Users,
         LoopHasMutex
    <3>3. ~paused
      BY <3>1, <3>2 DEF Generations
    <3> QED BY <2>1, <3>1, <3>3, <1>n DEF ReleaseToIdle, CheckIn
  <2>2. CASE ~ReleaseToIdle(f)
    <3>1. CheckIn(f) /\ Forget(held[f]) /\ UNCHANGED idle
      BY <1>r, <2>2 DEF Return, ReleaseFresh, ReleaseToClosed, ReleaseUnusable, ReleaseExcess, Drop
    <3> QED BY <3>1, <1>k, <1>0, <1>h DEF CheckIn, Forget
  <2> QED BY <2>1, <2>2
<1>p. ASSUME Populate PROVE IdleUsable'
  <2>1. CASE FillEstablished
    <3>1. fillConn \in open /\ fillConn \notin ShutInUse /\ fillConn \in Conns
      BY <2>1, <1>1 DEF FillEstablished, InHandshake, Uncounted, Ownership
    <3> QED BY <2>1, <3>1, <1>n DEF FillEstablished
  <2>2. CASE FillBegins
    BY <2>2, <1>k, <1>0 DEF FillBegins
  <2>3. CASE FillRefused \/ FillFails
    BY <2>3, <1>k, <1>0 DEF FillRefused, FillFails, FillLoses, Ownership
  <2>4. CASE StartMinSize \/ FillDone \/ FillSignals \/ FillReportsError \/ FillEnds
    BY <2>4, <1>k, <1>0 DEF StartMinSize, FillDone, FillSignals, FillReportsError,
       FillEnds
  <2> QED BY <1>p, <2>1, <2>2, <2>3, <2>4 DEF Populate
<1>m. ASSUME UNCHANGED vars \/ MarkReady PROVE IdleUsable'
  BY <1>m, <1>k, <1>0 DEF vars, MarkReady
<1>x. ASSUME Close \/ Drain \/ \E b \in BOOLEAN : ClearPool(b) PROVE IdleUsable'
  BY <1>x, <1>w DEF Close, Drain, ClearPool, DestroyIdle
<1>y. ASSUME CopySetups \/ \E c \in Conns : InterruptInUse(c) \/ InterruptSetup(c)
      PROVE  IdleUsable'
  <2>1. ASSUME NEW c \in Conns, InterruptInUse(c) PROVE IdleUsable'
    <3>1. c \notin ToSet(idle)
      <4>1. CASE drained
        BY <4>1, <1>0, <1>e DEF LoopHasMutex
      <4>2. CASE ~drained
        BY <2>1, <4>2, <1>0 DEF InterruptInUse, InterruptsOnlyStale, SlotsCounted
      <4> QED BY <4>1, <4>2
    <3> QED BY <2>1, <3>1, <1>k, <1>0 DEF InterruptInUse
  <2>2. ASSUME NEW c \in Conns, InterruptSetup(c) PROVE IdleUsable'
    BY <2>2, <1>k, <1>0 DEF InterruptSetup
  <2>3. CASE CopySetups
    BY <2>3, <1>k, <1>0 DEF CopySetups
  <2> QED BY <1>y, <2>1, <2>2, <2>3
<1> QED
  BY <1>c, <1>u, <1>r, <1>p, <1>m, <1>x, <1>y DEF Next

-----------------------------------------------------------------------------
(* Counting.  @inflight counts the handshakes. *)

Filling == filler = "connecting"

Counted == inflight = Cardinality(Handshaking) + IF Filling THEN 1 ELSE 0

LEMMA InflightStep ==
  ASSUME TypeOK, ConnectingBounded, [Next]_vars
  PROVE  ConnectingBounded'
<1>0. /\ inflight <= MaxConnecting /\ inflight \in Nat
      /\ Cardinality(Handshaking) \in Nat /\ Counted
      /\ MaxConnecting \in Nat
  BY InflightPositive, ConstantsAssumption
     DEF ConnectingBounded, TypeOK, Counted, Filling
<1> SUFFICES Counted' /\ inflight' <= MaxConnecting
  BY ConstantsAssumption DEF ConnectingBounded, Counted, Filling
(* One fiber more, or one fiber fewer, in a handshake.                     *)
<1>a. ASSUME NEW f \in Fibers, f \notin Handshaking,
             Handshaking' = Handshaking \cup {f}
      PROVE  Cardinality(Handshaking)' = Cardinality(Handshaking) + 1
  BY <1>a, HandshakingFinite, FS_AddElement
<1>b. ASSUME NEW f \in Handshaking, Handshaking' = Handshaking \ {f}
      PROVE  /\ Cardinality(Handshaking)' = Cardinality(Handshaking) - 1
             /\ Cardinality(Handshaking)' \in Nat
  <2>1. IsFiniteSet(Handshaking \ {f}) /\ f \notin Handshaking \ {f}
        /\ Handshaking = (Handshaking \ {f}) \cup {f}
    BY HandshakingFinite, FS_RemoveElement
  <2>2. Cardinality(Handshaking) = Cardinality(Handshaking \ {f}) + 1
    BY <2>1, FS_AddElement
  <2>3. Cardinality(Handshaking \ {f}) \in Nat
    BY <2>1, FS_CardinalityType
  <2> QED BY <1>b, <2>2, <2>3
<1>k. ASSUME Handshaking' = Handshaking, Filling' = Filling, inflight' = inflight
      PROVE  Counted' /\ inflight' <= MaxConnecting
  BY <1>k, <1>0 DEF Counted
<1> USE DEF TypeOK, poolVars, connVars, sockVars, CloseSockets, fiberVars, fillVars, Handshaking, Filling
<1>c. ASSUME NEW f \in Fibers, Checkout(f)
      PROVE Counted' /\ inflight' <= MaxConnecting
  <2>1. CASE \/ Enter(f) \/ PickIdle(f) \/ DiscardIdle(f) \/ StartWait(f)
             \/ Park(f) \/ WaitTimeout(f) \/ Resume(f) \/ GiveUp(f)
    BY <2>1, <1>k DEF Enter, PickIdle, DiscardIdle, StartWait, Park, WaitTimeout,
       Resume, GiveUp, Awake
  <2>2. CASE BeginConnect(f)
    <3>1. f \notin Handshaking /\ Handshaking' = Handshaking \cup {f}
      BY <2>2 DEF BeginConnect
    <3>2. Cardinality(Handshaking)' = Cardinality(Handshaking) + 1
      BY <3>1, <1>a
    <3>3. inflight' = inflight + 1 /\ filler' = filler /\ inflight < MaxConnecting
      BY <2>2 DEF BeginConnect, CanCreate
    <3> HIDE DEF Handshaking
    <3> QED BY <1>0, <3>2, <3>3 DEF Counted
  <2>3. CASE Established(f) \/ ConnectRefused(f) \/ ConnectFails(f)
    <3>1. f \in Handshaking /\ Handshaking' = Handshaking \ {f}
      BY <2>3 DEF Established, ConnectRefused, ConnectFails, EndConnect
    <3>2. /\ Cardinality(Handshaking)' = Cardinality(Handshaking) - 1
          /\ Cardinality(Handshaking)' \in Nat
      BY <3>1, <1>b
    <3>3. inflight' = inflight - 1 /\ filler' = filler
      BY <2>3 DEF Established, ConnectRefused, ConnectFails, EndConnect
    <3> HIDE DEF Handshaking
    <3> QED BY <1>0, <3>2, <3>3 DEF Counted
  <2> QED BY <1>c, <2>1, <2>2, <2>3 DEF Checkout
<1>u. ASSUME NEW f \in Fibers, UseFails(f) \/ Return(f)
      PROVE Counted' /\ inflight' <= MaxConnecting
  <2>1. CASE UseFails(f)
    BY <2>1, <1>k DEF UseFails
  <2>2. CASE CheckIn(f)
    BY <2>2, <1>k DEF CheckIn
  <2> QED BY <1>u, <2>1, <2>2 DEF Return, ReleaseFresh, ReleaseToClosed, ReleaseUnusable,
             ReleaseToIdle, ReleaseExcess, Drop
<1>p. ASSUME Populate PROVE Counted' /\ inflight' <= MaxConnecting
  <2>1. CASE StartMinSize \/ FillDone \/ FillSignals \/ FillReportsError \/ FillEnds
    BY <2>1, <1>k DEF StartMinSize, FillDone, FillSignals, FillReportsError, FillEnds
  <2>2. CASE FillBegins
    <3>1. /\ Handshaking' = Handshaking /\ inflight' = inflight + 1
          /\ ~Filling /\ Filling' /\ inflight < MaxConnecting
      BY <2>2 DEF FillBegins, FillStops, CanCreate
    <3> HIDE DEF Handshaking, Filling
    <3> QED BY <1>0, <3>1 DEF Counted
  <2>3. CASE FillEstablished \/ FillRefused \/ FillFails
    <3>1. /\ Handshaking' = Handshaking /\ inflight' = inflight - 1
          /\ Filling /\ ~Filling'
      BY <2>3 DEF FillEstablished, FillRefused, FillFails, FillLoses
    <3> HIDE DEF Handshaking, Filling
    <3> QED BY <1>0, <3>1 DEF Counted
  <2> QED BY <1>p, <2>1, <2>2, <2>3 DEF Populate
<1>m. ASSUME \/ UNCHANGED vars \/ MarkReady \/ Close \/ Drain
             \/ \E b \in BOOLEAN : ClearPool(b)
             \/ CopySetups \/ \E c \in Conns : InterruptInUse(c) \/ InterruptSetup(c)
      PROVE Counted' /\ inflight' <= MaxConnecting
  BY <1>m, <1>k DEF vars, MarkReady, Close, Drain, ClearPool, InterruptInUse, InterruptSetup, CopySetups
<1> QED
  BY <1>c, <1>u, <1>p, <1>m DEF Next

(* The limit on sockets.                                                   *)
LEMMA SizeStep ==
  ASSUME TypeOK, TypeOK', ConnectingBounded, Ownership, PoolSizeBounded, [Next]_vars
  PROVE  PoolSizeBounded'
<1>f. /\ IsFiniteSet(total) /\ Cardinality(total) \in Nat /\ inflight \in Nat
      /\ MaxPoolSize \in Nat
      /\ \A f \in Handshaking : inflight - 1 \in Nat
      /\ filler = "connecting" => inflight - 1 \in Nat
  BY ConstantsAssumption, FS_Subset, FS_CardinalityType, InflightPositive DEF TypeOK
<1>g. IsFiniteSet(total') /\ Cardinality(total') \in Nat
  BY ConstantsAssumption, FS_Subset, FS_CardinalityType DEF TypeOK
(* Fewer connections and no more handshakes.                               *)
<1>k. ASSUME total' \subseteq total, inflight' \in Nat, inflight' <= inflight
      PROVE  PoolSizeBounded'
  <2>1. Cardinality(total') <= Cardinality(total)
    BY <1>k, <1>f, FS_Subset
  <2> QED BY <2>1, <1>f, <1>g, <1>k DEF PoolSizeBounded
(* A handshake becomes a connection.                                       *)
<1>n. ASSUME NEW c, total' = total \cup {c}, inflight' = inflight - 1
      PROVE  PoolSizeBounded'
  <2>1. Cardinality(total') <= Cardinality(total) + 1
    BY <1>n, <1>f, FS_AddElement
  <2> QED BY <2>1, <1>f, <1>g, <1>n DEF PoolSizeBounded
(* A handshake begins.                                                     *)
<1>b. ASSUME CanCreate, total' = total, inflight' = inflight + 1
      PROVE  PoolSizeBounded'
  BY <1>b, <1>f DEF CanCreate, PoolSizeBounded
<1> USE DEF poolVars, connVars, sockVars, CloseSockets, fiberVars, fillVars
<1>c. ASSUME NEW f \in Fibers, Checkout(f) PROVE PoolSizeBounded'
  <2>1. CASE \/ Enter(f) \/ PickIdle(f) \/ StartWait(f)
             \/ Park(f) \/ WaitTimeout(f) \/ Resume(f) \/ GiveUp(f)
    BY <2>1, <1>k, <1>f DEF Enter, PickIdle, StartWait, Park, WaitTimeout, Resume,
       GiveUp
  <2>2. CASE DiscardIdle(f)
    BY <2>2, <1>k, <1>f DEF DiscardIdle, Forget
  <2>3. CASE BeginConnect(f)
    BY <2>3, <1>b DEF BeginConnect
  <2>4. CASE Established(f)
    BY <2>4, <1>n DEF Established
  <2>5. CASE ConnectRefused(f) \/ ConnectFails(f)
    <3>1. f \in Handshaking /\ inflight' = inflight - 1 /\ total' = total
      BY <2>5 DEF ConnectRefused, ConnectFails, EndConnect, Handshaking
    <3> QED BY <3>1, <1>k, <1>f
  <2> QED BY <1>c, <2>1, <2>2, <2>3, <2>4, <2>5 DEF Checkout
<1>u. ASSUME NEW f \in Fibers, UseFails(f) \/ Return(f) PROVE PoolSizeBounded'
  BY <1>u, <1>k, <1>f DEF UseFails, Return, ReleaseFresh, ReleaseToClosed, ReleaseUnusable,
     ReleaseToIdle, ReleaseExcess, Drop, CheckIn, Forget
<1>p. ASSUME Populate PROVE PoolSizeBounded'
  <2>1. CASE StartMinSize \/ FillDone \/ FillSignals \/ FillReportsError \/ FillEnds
    BY <2>1, <1>k, <1>f DEF StartMinSize, FillDone, FillSignals, FillReportsError,
       FillEnds
  <2>2. CASE FillBegins
    BY <2>2, <1>b DEF FillBegins, FillStops
  <2>3. CASE FillEstablished
    BY <2>3, <1>n DEF FillEstablished
  <2>4. CASE FillRefused \/ FillFails
    BY <2>4, <1>k, <1>f DEF FillRefused, FillFails, FillLoses
  <2> QED BY <1>p, <2>1, <2>2, <2>3, <2>4 DEF Populate
<1>m. ASSUME \/ UNCHANGED vars \/ MarkReady \/ Close \/ Drain
             \/ \E b \in BOOLEAN : ClearPool(b)
             \/ CopySetups \/ \E c \in Conns : InterruptInUse(c) \/ InterruptSetup(c)
      PROVE PoolSizeBounded'
  BY <1>m, <1>k, <1>f DEF vars, MarkReady, Close, Drain, ClearPool, DestroyIdle,
     InterruptInUse, InterruptSetup, CopySetups
<1> QED
  BY <1>c, <1>u, <1>p, <1>m DEF Next

-----------------------------------------------------------------------------
(* The invariant. *)

LEMMA InitInductive ==
  Init => Inductive
<1> SUFFICES ASSUME Init PROVE Inductive
  OBVIOUS
<1>1. TypeOK
  BY ConstantsAssumption, EmptySeq DEF Init, TypeOK, FiberStates, FillerStates
<1>2. Handshaking = {} /\ Users = {} /\ ToSet(idle) = {}
      /\ HeldBy({}) = {} /\ total = {} /\ inUse = {} /\ inflight = 0
      /\ filler = "off" /\ fillConn = NoConn /\ drained = FALSE
  BY EmptyToSet DEF Init, Handshaking, Users, HeldBy
<1>3. Cardinality({}) = 0
  BY FS_EmptySet
<1>4. ConnectingBounded /\ PoolSizeBounded
  BY <1>2, <1>3, ConstantsAssumption DEF ConnectingBounded, PoolSizeBounded
<1>5. LoopHasMutex /\ Ownership
  BY ConstantsAssumption, EmptyToSet DEF Init, LoopHasMutex, Ownership
<1>6. SlotsCounted /\ SocketsOwned /\ HandshakeUncounted /\ Generations /\ InterruptsOnlyStale
  BY <1>2 DEF Init, SlotsCounted, SocketsOwned, HandshakeUncounted, BeingSetUp,
     Generations, InterruptsOnlyStale
<1>7. IdleUsable
  BY <1>2 DEF Init, IdleUsable
<1> QED
  BY <1>1, <1>4, <1>5, <1>6, <1>7 DEF Inductive, NoLeakedSlot

LEMMA InductiveStep ==
  Inductive /\ [Next]_vars => Inductive'
<1> SUFFICES ASSUME Inductive, [Next]_vars PROVE Inductive'
  OBVIOUS
<1> USE DEF Inductive, NoLeakedSlot
<1>1. TypeOK'
  BY TypeStep
<1>2. LoopHasMutex' /\ Ownership' /\ HandshakeUncounted' /\ IdleUsable'
  BY LoopStepInv, OwnershipStep, HandshakeStep, IdleStep
<1>3. NoLeakedSlot'
  BY <1>1, <1>2, SlotsStep, SocketsStep
<1>4. Generations' /\ InterruptsOnlyStale'
  BY GenerationStep
<1>5. ConnectingBounded' /\ PoolSizeBounded'
  BY <1>1, InflightStep, SizeStep
<1> QED BY <1>1, <1>2, <1>3, <1>4, <1>5

(* Every reachable state of a pool of any size, with any number of fibers, *)
(* satisfies the inductive invariant.                                      *)
THEOREM PoolInvariant == Spec => []Inductive
BY InitInductive, InductiveStep, PTL DEF Spec

(* The variables of the pool keep their types.                             *)
THEOREM PoolTypes == Spec => []TypeOK
<1>1. Inductive => TypeOK
  BY DEF Inductive
<1> QED BY <1>1, PoolInvariant, PTL

(* Established connections and handshakes together never exceed            *)
(* maxPoolSize, whatever races with the unlocked handshakes.               *)
THEOREM PoolSize == Spec => []PoolSizeBounded
<1>1. Inductive => PoolSizeBounded
  BY DEF Inductive
<1> QED BY <1>1, PoolInvariant, PTL

(* @inflight never exceeds maxConnecting and counts the handshakes.        *)
THEOREM PoolConnecting == Spec => []ConnectingBounded
<1>1. Inductive => ConnectingBounded
  BY DEF Inductive
<1> QED BY <1>1, PoolInvariant, PTL

(* No two fibers use one connection, and none is used while it is idle.    *)
THEOREM PoolOwner == Spec => []OneOwner
<1>1. Inductive => OneOwner
  BY DEF Inductive, Ownership, OneOwner, Users
<1> QED BY <1>1, PoolInvariant, PTL

(* What a pool counts is idle, or used by a fiber that will check it in,   *)
(* and every open socket is counted or has its handshake to end.           *)
THEOREM PoolSlots == Spec => []NoLeakedSlot
<1>1. Inductive => NoLeakedSlot
  BY DEF Inductive
<1> QED BY <1>1, PoolInvariant, PTL

(* An idle connection is open and current, and no clear that found it in   *)
(* use has shut it down.  (One that found it being set up may have.)       *)
THEOREM PoolIdle == Spec => []IdleUsable
<1>1. Inductive => IdleUsable
  BY DEF Inductive
<1> QED BY <1>1, PoolInvariant, PTL

(* What a clear found in use and shuts down, however late, is stale while  *)
(* it is counted: the clear costs no connection made after it, except by   *)
(* interrupt_pending_setup.                                                *)
THEOREM PoolInterrupts == Spec => []InterruptsOnlyStale
<1>1. Inductive => InterruptsOnlyStale
  BY DEF Inductive
<1> QED BY <1>1, PoolInvariant, PTL

-----------------------------------------------------------------------------
(* What a step may never do. *)

LEMMA HandOutStep ==
  ASSUME Inductive, Next, NEW f \in Fibers, pc[f] # "using", pc'[f] = "using"
  PROVE  ~closed /\ ~paused /\ (held[f] \in open \ ShutInUse)' /\ ~Stale(held[f])'
<1> USE DEF Inductive, TypeOK, poolVars, connVars, sockVars, CloseSockets, fiberVars, fillVars
<1>1. PickIdle(f) \/ Established(f)
  <2>1. ASSUME NEW g \in Fibers, Checkout(g), ~PickIdle(g), ~Established(g)
        PROVE  FALSE
    BY <2>1 DEF Checkout, Enter, DiscardIdle, BeginConnect, ConnectRefused,
       ConnectFails, EndConnect, StartWait, Park, WaitTimeout, Resume, GiveUp
  <2>2. ASSUME NEW g \in Fibers, g # f, PickIdle(g) \/ Established(g)
        PROVE  FALSE
    BY <2>2 DEF PickIdle, Established
  <2>3. ASSUME NEW g \in Fibers, UseFails(g) \/ Return(g) PROVE FALSE
    BY <2>3 DEF UseFails, Return, ReleaseFresh, ReleaseToClosed, ReleaseUnusable, ReleaseToIdle,
       ReleaseExcess, Drop, CheckIn
  <2>4. ASSUME pc' = pc PROVE FALSE
    BY <2>4
  <2> QED
    BY <2>1, <2>2, <2>3, <2>4 DEF Next, MarkReady, Populate, StartMinSize,
       FillDone, FillBegins, FillEstablished, FillRefused, FillFails, FillLoses,
       FillSignals, FillReportsError, FillEnds, ClearPool, InterruptInUse, InterruptSetup, CopySetups, Close,
       Drain
<1>2. CASE PickIdle(f)
  <2>1. Last(idle) \in ToSet(idle) /\ Last(idle) \in Conns
    BY <1>2, FrontLast DEF PickIdle, Ownership
  <2>2. Last(idle) \in open \ ShutInUse /\ connGen[Last(idle)] = generation
    BY <2>1 DEF IdleUsable, Stale
  <2> QED BY <1>2, <2>2 DEF PickIdle, LoopHasMutex, ShutInUse, Stale
<1>3. CASE Established(f)
  <2>1. held[f] \in Conns /\ Uncounted(held[f])
    BY <1>3, HandshakeByElement DEF Established, AllUncounted, InHandshake, Ownership
  <2> QED BY <1>3, <2>1 DEF Established, Uncounted, ShutInUse, Stale
<1> QED BY <1>1, <1>2, <1>3

(* checkout hands out only open connections of the current generation that *)
(* no clear found in use and shut down, and only while the pool is ready.  *)
THEOREM PoolHandOut == Spec => FreshHandOut
<1>1. Inductive /\ [Next]_vars =>
        [\A f \in Fibers : pc[f] # "using" /\ pc'[f] = "using" =>
           /\ ~closed /\ ~paused
           /\ (held[f] \in open \ ShutInUse)' /\ ~Stale(held[f])']_vars
  BY HandOutStep
<1> QED BY <1>1, PoolInvariant, PTL DEF Spec, FreshHandOut

LEMMA ClearedWaiterStep ==
  ASSUME Inductive, Next, NEW f \in Fibers, pc[f] \in {"parking", "waiting"},
         startGen[f] # generation
  PROVE  pc'[f] \in {"parking", "waiting", "outside"}
<1> USE DEF Inductive, TypeOK, poolVars, connVars, sockVars, CloseSockets, fiberVars, fillVars
<1>1. ASSUME NEW g \in Fibers, Checkout(g)
      PROVE  pc'[f] \in {"parking", "waiting", "outside"}
  <2>1. CASE g = f
    BY <1>1, <2>1 DEF Checkout, Enter, PickIdle, DiscardIdle, BeginConnect,
       Established, ConnectRefused, ConnectFails, EndConnect, StartWait, Park,
       WaitTimeout, Resume, MayRetry, GiveUp
  <2>2. CASE g # f
    <3>1. pc'[f] = pc[f]
      BY <1>1, <2>2 DEF Checkout, Enter, PickIdle, DiscardIdle, BeginConnect,
         Established, ConnectRefused, ConnectFails, EndConnect, StartWait, Park,
         WaitTimeout, Resume, GiveUp
    <3> QED BY <3>1
  <2> QED BY <2>1, <2>2
<1>2. ASSUME NEW g \in Fibers, UseFails(g) \/ Return(g)
      PROVE  pc'[f] \in {"parking", "waiting", "outside"}
  BY <1>2 DEF UseFails, Return, ReleaseFresh, ReleaseToClosed, ReleaseUnusable, ReleaseToIdle,
     ReleaseExcess, Drop, CheckIn
<1>3. ASSUME pc' = pc PROVE pc'[f] \in {"parking", "waiting", "outside"}
  BY <1>3
<1> QED
  BY <1>1, <1>2, <1>3 DEF Next, MarkReady, Populate, StartMinSize, FillDone,
     FillBegins, FillEstablished, FillRefused, FillFails, FillLoses, FillSignals,
     FillReportsError, FillEnds, ClearPool, InterruptInUse, InterruptSetup, CopySetups, Close, Drain

(* A checkout that waited through a clear is not served, even if the pool  *)
(* is ready again when it wakes up.                                        *)
THEOREM PoolClearedWaiter == Spec => ClearedWaiterNotServed
<1>1. Inductive /\ [Next]_vars =>
        [\A f \in Fibers : pc[f] \in {"parking", "waiting"} /\ startGen[f] # generation
           => pc'[f] \in {"parking", "waiting", "outside"}]_vars
  BY ClearedWaiterStep
<1> QED BY <1>1, PoolInvariant, PTL DEF Spec, ClearedWaiterNotServed

LEMMA ClosedStep ==
  ASSUME Inductive, Next, closed
  PROVE  closed' /\ paused' /\ total' \subseteq total
<1> USE DEF Inductive, LoopHasMutex, poolVars, connVars, sockVars, CloseSockets, fiberVars, fillVars
<1>1. ASSUME NEW f \in Fibers, Checkout(f) PROVE closed' /\ paused' /\ total' \subseteq total
  BY <1>1 DEF Checkout, Enter, PickIdle, DiscardIdle, Forget, BeginConnect,
     Established, ConnectRefused, ConnectFails, EndConnect, StartWait, Park,
     WaitTimeout, Resume, GiveUp
<1>2. ASSUME NEW f \in Fibers, UseFails(f) \/ Return(f)
      PROVE  closed' /\ paused' /\ total' \subseteq total
  BY <1>2 DEF UseFails, Return, ReleaseFresh, ReleaseToClosed, ReleaseUnusable, ReleaseToIdle,
     ReleaseExcess, Drop, CheckIn, Forget
<1>3. ASSUME Populate PROVE closed' /\ paused' /\ total' \subseteq total
  BY <1>3 DEF Populate, StartMinSize, FillDone, FillBegins, FillEstablished,
     FillRefused, FillFails, FillLoses, FillSignals, FillReportsError, FillEnds
<1> QED
  BY <1>1, <1>2, <1>3 DEF Next, MarkReady, ClearPool, DestroyIdle, InterruptInUse, InterruptSetup, CopySetups,
     Close, Drain

(* A closed pool stays closed, paused, and counts no new connection.       *)
THEOREM PoolClosed == Spec => ClosedForGood
<1>1. Inductive /\ [Next]_vars =>
        [closed => closed' /\ paused' /\ total' \subseteq total]_vars
  BY ClosedStep
<1> QED BY <1>1, PoolInvariant, PTL DEF Spec, ClosedForGood

-----------------------------------------------------------------------------
(* The single-threaded build: a fiber that is about to wait keeps the      *)
(* mutex until it receives.                                                *)

(* The elements that stay when one is taken out.                           *)
LEMMA RemoveAtElements ==
  ASSUME NEW S, NEW s \in Seq(S), NEW i \in DOMAIN s
  PROVE  /\ DOMAIN RemoveAt(s, i) = 1..(Len(s) - 1)
         /\ \A k \in 1..(Len(s) - 1) :
              RemoveAt(s, i)[k] = IF k < i THEN s[k] ELSE s[k + 1]
<1>0. PICK a, b : a = SubSeq(s, 1, i - 1) /\ b = SubSeq(s, i + 1, Len(s))
  OBVIOUS
<1>1. /\ a \in Seq(S) /\ Len(a) = i - 1
      /\ \A k \in 1..(i - 1) : a[k] = s[k]
  BY <1>0, LenProperties, SubSeqProperties
<1>2. /\ b \in Seq(S) /\ Len(b) = Len(s) - i
      /\ \A k \in 1..(Len(s) - i) : b[k] = s[i + k]
  BY <1>0, LenProperties, SubSeqProperties
<1>4. PICK r : r = a \o b /\ r = RemoveAt(s, i)
  BY <1>0 DEF RemoveAt
<1>5. /\ r \in Seq(S) /\ Len(r) = (i - 1) + (Len(s) - i)
      /\ \A k \in 1..((i - 1) + (Len(s) - i)) :
           r[k] = IF k <= i - 1 THEN a[k] ELSE b[k - (i - 1)]
  <2>1. /\ r \in Seq(S) /\ Len(r) = Len(a) + Len(b)
        /\ \A k \in 1..Len(a) + Len(b) :
             r[k] = IF k <= Len(a) THEN a[k] ELSE b[k - Len(a)]
    <3>1. /\ a \o b \in Seq(S) /\ Len(a \o b) = Len(a) + Len(b)
          /\ \A k \in 1..Len(a) + Len(b) :
               (a \o b)[k] = IF k <= Len(a) THEN a[k] ELSE b[k - Len(a)]
      <4>1. a \in Seq(S) /\ b \in Seq(S)
        BY <1>1, <1>2
      <4> QED BY ONLY <4>1, ConcatProperties, Zenon
    <3> QED BY <1>4, <3>1, Zenon
  <2> QED BY <2>1, <1>1, <1>2
<1>6. i \in 1..Len(s) /\ Len(s) \in Nat /\ (i - 1) + (Len(s) - i) = Len(s) - 1
  BY LenProperties
<1>7. DOMAIN r = 1..(Len(s) - 1)
  BY <1>5, <1>6, LenProperties
<1>8. ASSUME NEW k \in 1..(Len(s) - 1)
      PROVE  r[k] = IF k < i THEN s[k] ELSE s[k + 1]
  <2>1. r[k] = IF k <= i - 1 THEN a[k] ELSE b[k - (i - 1)]
    BY <1>5, <1>6, <1>8
  <2>2. CASE k < i
    <3>1. k \in 1..(i - 1) /\ k <= i - 1
      BY <1>6, <1>8, <2>2
    <3> QED BY <1>1, <2>1, <2>2, <3>1
  <2>3. CASE ~(k < i)
    <3>1. PICK j : j = k - (i - 1)
      OBVIOUS
    <3>2. j \in 1..(Len(s) - i) /\ i + j = k + 1 /\ ~(k <= i - 1)
      BY <1>6, <1>8, <2>3, <3>1
    <3> QED BY <1>2, <2>1, <2>3, <3>1, <3>2
  <2> QED BY <2>2, <2>3
<1> QED BY <1>4, <1>7, <1>8

(* What a signal or a timeout makes of the queue, and that one who left a  *)
(* queue without repetitions is not in it any more.                        *)
LEMMA QueueSets ==
  ASSUME NEW S, NEW s \in Seq(S)
  PROVE  /\ s # <<>> => ToSet(Tail(s)) \subseteq ToSet(s) /\ Head(s) \in ToSet(s)
         /\ \A i \in DOMAIN s : ToSet(RemoveAt(s, i)) \subseteq ToSet(s)
         /\ (\A i, j \in DOMAIN s : s[i] = s[j] => i = j) =>
              /\ s # <<>> =>
                   /\ Head(s) \notin ToSet(Tail(s))
                   /\ \A i, j \in DOMAIN Tail(s) : Tail(s)[i] = Tail(s)[j] => i = j
              /\ \A k \in DOMAIN s :
                   /\ s[k] \notin ToSet(RemoveAt(s, k))
                   /\ \A i, j \in DOMAIN RemoveAt(s, k) :
                        RemoveAt(s, k)[i] = RemoveAt(s, k)[j] => i = j
<1>1. /\ Len(s) \in Nat /\ DOMAIN s = 1..Len(s)
      /\ s # <<>> => Len(s) # 0 /\ Head(s) = s[1]
      /\ s # <<>> => DOMAIN Tail(s) = 1..(Len(s) - 1)
      /\ s # <<>> => \A i \in 1..(Len(s) - 1) : Tail(s)[i] = s[i + 1]
  BY HeadTailProperties, LenProperties, EmptySeq
<1>2. s # <<>> => ToSet(Tail(s)) \subseteq ToSet(s) /\ Head(s) \in ToSet(s)
  BY <1>1 DEF ToSet
<1>3. ASSUME NEW i \in DOMAIN s
      PROVE  ToSet(RemoveAt(s, i)) \subseteq ToSet(s)
  <2>1. PICK r : r = RemoveAt(s, i)
    OBVIOUS
  <2>2. /\ DOMAIN r = 1..(Len(s) - 1)
        /\ \A k \in 1..(Len(s) - 1) : r[k] = s[k] \/ r[k] = s[k + 1]
    BY <2>1, <1>3, RemoveAtElements
  <2>3. \A k \in 1..(Len(s) - 1) : k \in DOMAIN s /\ k + 1 \in DOMAIN s
    BY <1>1
  <2> QED BY <2>1, <2>2, <2>3 DEF ToSet
<1>4. ASSUME \A i, j \in DOMAIN s : s[i] = s[j] => i = j, s # <<>>
      PROVE  /\ Head(s) \notin ToSet(Tail(s))
             /\ \A i, j \in DOMAIN Tail(s) : Tail(s)[i] = Tail(s)[j] => i = j
  <2>1. \A i \in 1..(Len(s) - 1) :
          i + 1 \in DOMAIN s /\ 1 \in DOMAIN s /\ i + 1 # 1
    BY <1>1
  <2>2. Head(s) \notin ToSet(Tail(s))
    BY <1>1, <1>4, <2>1 DEF ToSet
  <2>3. ASSUME NEW i \in DOMAIN Tail(s), NEW j \in DOMAIN Tail(s),
               Tail(s)[i] = Tail(s)[j]
        PROVE  i = j
    <3>1. i \in 1..(Len(s) - 1) /\ j \in 1..(Len(s) - 1)
      BY <1>1, <1>4
    <3>2. s[i + 1] = s[j + 1]
      BY <1>1, <1>4, <2>3, <3>1
    <3>3. i + 1 = j + 1
      BY <1>4, <2>1, <3>1, <3>2
    <3> QED BY <1>1, <3>1, <3>3
  <2> QED BY <2>2, <2>3
<1>5. ASSUME \A i, j \in DOMAIN s : s[i] = s[j] => i = j, NEW k \in DOMAIN s
      PROVE  /\ s[k] \notin ToSet(RemoveAt(s, k))
             /\ \A i, j \in DOMAIN RemoveAt(s, k) :
                  RemoveAt(s, k)[i] = RemoveAt(s, k)[j] => i = j
  <2>0. PICK r : r = RemoveAt(s, k)
    OBVIOUS
  <2>1. /\ DOMAIN r = 1..(Len(s) - 1)
        /\ \A i \in 1..(Len(s) - 1) : r[i] = IF i < k THEN s[i] ELSE s[i + 1]
    BY <2>0, RemoveAtElements
  <2>2. /\ k \in 1..Len(s) /\ Len(s) \in Nat
        /\ \A i \in 1..(Len(s) - 1) : i \in DOMAIN s /\ i + 1 \in DOMAIN s
    BY <1>1, <1>5
  <2>3. \A i \in 1..(Len(s) - 1) : r[i] # s[k]
    <3> SUFFICES ASSUME NEW i \in 1..(Len(s) - 1), r[i] = s[k]
                 PROVE  FALSE
      OBVIOUS
    <3>1. CASE i < k
      <4>1. i = k
        BY <1>5, <2>1, <2>2, <3>1
      <4> QED BY <2>2, <3>1, <4>1
    <3>2. CASE ~(i < k)
      <4>1. i + 1 = k
        BY <1>5, <2>1, <2>2, <3>2
      <4> QED BY <2>2, <3>2, <4>1
    <3> QED BY <3>1, <3>2
  <2>4. ASSUME NEW i \in 1..(Len(s) - 1), NEW j \in 1..(Len(s) - 1), r[i] = r[j]
        PROVE  i = j
    <3>1. CASE i < k /\ j < k
      BY <1>5, <2>1, <2>2, <2>4, <3>1
    <3>2. CASE ~(i < k) /\ ~(j < k)
      <4>1. i + 1 = j + 1
        BY <1>5, <2>1, <2>2, <2>4, <3>2
      <4> QED BY <4>1
    <3>3. CASE i < k /\ ~(j < k)
      <4>1. i = j + 1
        BY <1>5, <2>1, <2>2, <2>4, <3>3
      <4> QED BY <2>2, <3>3, <4>1
    <3>4. CASE ~(i < k) /\ j < k
      <4>1. i + 1 = j
        BY <1>5, <2>1, <2>2, <2>4, <3>4
      <4> QED BY <2>2, <3>4, <4>1
    <3> QED BY <3>1, <3>2, <3>3, <3>4
  <2> QED BY <2>0, <2>1, <2>3, <2>4 DEF ToSet
<1> QED BY <1>2, <1>3, <1>4, <1>5

(* Receivers leave the queue from its head or at a timeout; one who comes  *)
(* goes to its end.                                                        *)
LEMMA QueueMoves ==
  ASSUME TypeOK
  PROVE  /\ ToSet(Signalled) \subseteq ToSet(queue)
         /\ \A i \in DOMAIN queue : ToSet(RemoveAt(queue, i)) \subseteq ToSet(queue)
         /\ \A f \in Fibers : ToSet(Append(queue, f)) = ToSet(queue) \cup {f}
         /\ ToSet(queue) \subseteq Fibers
BY QueueSets, AppendNew, EmptyToSet, ToSetSubset DEF TypeOK, Signalled

LEMMA SleepersStep ==
  ASSUME ~Parallel, TypeOK, LoopHasMutex, SleepersCurrent, [Next]_vars
  PROVE  SleepersCurrent'
<1> USE ConstantsAssumption
    DEF TypeOK, SleepersCurrent, poolVars, connVars, sockVars, CloseSockets, fiberVars, fillVars
<1>q. /\ ToSet(Signalled) \subseteq ToSet(queue)
      /\ \A i \in DOMAIN queue : ToSet(RemoveAt(queue, i)) \subseteq ToSet(queue)
      /\ \A f \in Fibers : ToSet(Append(queue, f)) = ToSet(queue) \cup {f}
      /\ ToSet(queue) \subseteq Fibers /\ ToSet(<<>>) = {}
  BY QueueMoves, EmptyToSet
(* The mutex is free, so no fiber is in the loop or about to wait.         *)
<1>n. lock = NoOne => \A f \in Fibers : pc[f] \notin {"loop", "parking"}
  BY DEF LoopHasMutex
<1>s. ASSUME UNCHANGED <<lock, pc, startGen, generation>>,
             ToSet(queue') \subseteq ToSet(queue)
      PROVE  SleepersCurrent'
  BY <1>s
<1>c. ASSUME NEW f \in Fibers, Checkout(f) PROVE SleepersCurrent'
  <2>1. CASE Enter(f)
    BY <2>1, <1>n, <1>q DEF Enter
  <2>2. CASE PickIdle(f) \/ BeginConnect(f)
    <3>1. /\ pc[f] = "loop" /\ pc'[f] \in {"using", "connecting"}
          /\ pc' = [pc EXCEPT ![f] = pc'[f]]
          /\ UNCHANGED <<queue, startGen, generation>>
      BY <2>2 DEF PickIdle, BeginConnect
    <3>2. \A g \in Fibers : pc[g] = "parking" => FALSE
      BY <3>1 DEF LoopHasMutex
    <3> QED BY <3>1, <3>2, <1>q
  <2>3. CASE DiscardIdle(f)
    BY <2>3, <1>s, <1>q DEF DiscardIdle
  <2>4. CASE Established(f) \/ ConnectRefused(f) \/ ConnectFails(f)
    <3>1. /\ pc[f] = "connecting" /\ pc'[f] \in {"using", "outside"}
          /\ pc' = [pc EXCEPT ![f] = pc'[f]]
          /\ queue' = Signalled
          /\ UNCHANGED <<startGen, generation>> /\ lock = NoOne
      BY <2>4 DEF Established, ConnectRefused, ConnectFails, EndConnect
    <3> QED BY <3>1, <1>n, <1>q
  <2>5. CASE StartWait(f)
    <3>1. \A g \in Fibers : pc[g] \in {"loop", "parking"} => g = f
      BY <2>5 DEF StartWait, LoopHasMutex
    <3>2. lock' = f
      BY <2>5 DEF StartWait
    <3> QED BY <2>5, <3>1, <3>2, <1>q DEF StartWait
  <2>6. CASE Park(f)
    <3>1. \A g \in Fibers : pc[g] \in {"loop", "parking"} => g = f
      BY <2>6 DEF Park, LoopHasMutex
    <3>2. ToSet(queue') \subseteq ToSet(queue) \cup {f}
      BY <2>6, <1>q DEF Park
    <3> QED BY <2>6, <3>1, <3>2, <1>q DEF Park
  <2>7. CASE WaitTimeout(f)
    BY <2>7, <1>s, <1>q DEF WaitTimeout
  <2>8. CASE Resume(f)
    BY <2>8, <1>n, <1>q DEF Resume, MayRetry, Awake
  <2>9. CASE GiveUp(f)
    BY <2>9, <1>n, <1>q DEF GiveUp, Awake
  <2> QED
    BY <1>c, <2>1, <2>2, <2>3, <2>4, <2>5, <2>6, <2>7, <2>8, <2>9 DEF Checkout
<1>u. ASSUME NEW f \in Fibers, UseFails(f) PROVE SleepersCurrent'
  BY <1>u, <1>s DEF UseFails
<1>r. ASSUME NEW f \in Fibers, Return(f) PROVE SleepersCurrent'
  <2>1. CheckIn(f) /\ queue' \in {queue, Signalled}
    BY <1>r DEF Return, ReleaseFresh, ReleaseToClosed, ReleaseUnusable, ReleaseToIdle,
                ReleaseExcess, Drop
  <2>2. ToSet(queue') \subseteq ToSet(queue)
    BY <2>1, <1>q
  <2> QED BY <2>1, <2>2, <1>n, <1>q DEF CheckIn
<1>p. ASSUME Populate PROVE SleepersCurrent'
  <2>1. UNCHANGED <<pc, startGen, generation>> /\ queue' \in {queue, Signalled}
    BY <1>p DEF Populate, StartMinSize, FillDone, FillBegins, FillEstablished,
       FillRefused, FillFails, FillLoses, FillSignals, FillReportsError, FillEnds
  <2>2. \/ lock' = lock
        \/ lock = NoOne
        \/ lock = Filler
    BY <1>p DEF Populate, StartMinSize, FillDone, FillBegins, FillEstablished,
       FillRefused, FillFails, FillLoses, FillSignals, FillReportsError, FillEnds
  <2>3. ToSet(queue') \subseteq ToSet(queue)
    BY <2>1, <1>q
  <2>4. \A g \in Fibers : pc[g] = "parking" => lock' = g
    BY <2>2
  <2> QED BY <2>1, <2>3, <2>4
<1>m. ASSUME MarkReady \/ Drain PROVE SleepersCurrent'
  BY <1>m, <1>s DEF MarkReady, Drain
<1>x. ASSUME NEW b \in BOOLEAN, ClearPool(b) PROVE SleepersCurrent'
  BY <1>x, <1>n, <1>q DEF ClearPool
<1>y. ASSUME CopySetups \/ \E c \in Conns : InterruptInUse(c) \/ InterruptSetup(c)
      PROVE  SleepersCurrent'
  BY <1>y, <1>s DEF InterruptInUse, InterruptSetup, CopySetups
<1>z. ASSUME Close PROVE SleepersCurrent'
  BY <1>z, <1>s, <1>q DEF Close
<1>v. ASSUME UNCHANGED vars PROVE SleepersCurrent'
  BY <1>v, <1>s DEF vars
<1> QED
  BY <1>c, <1>u, <1>r, <1>p, <1>m, <1>x, <1>y, <1>z, <1>v DEF Next

LEMMA InitSleepers ==
  Init => SleepersCurrent
BY EmptyToSet DEF Init, SleepersCurrent

LEMMA SleepersStepInductive ==
  ~Parallel /\ Inductive /\ SleepersCurrent /\ [Next]_vars => SleepersCurrent'
BY SleepersStep DEF Inductive

(* In the single-threaded build, whatever the limits and the fibers,       *)
(* nobody stays asleep for a generation that was cleared: a clear reaches  *)
(* every receiver.                                                         *)
THEOREM PoolClearWakes ==
  ASSUME ~Parallel
  PROVE  Spec => []NoSleeperOnClearedPool
<1>1. Inductive /\ SleepersCurrent /\ [Next]_vars => SleepersCurrent'
  BY SleepersStepInductive
<1>2. SleepersCurrent => NoSleeperOnClearedPool
  BY DEF SleepersCurrent, NoSleeperOnClearedPool
<1> QED BY <1>1, <1>2, InitSleepers, PoolInvariant, PTL DEF Spec

-----------------------------------------------------------------------------
(* The single-threaded build without a background fill: no signal is lost. *)

LEMMA QuietStep ==
  ASSUME ~Parallel, MinPoolSize = 0, TypeOK, LoopHasMutex, SleepersCurrent,
         QuietQueue, [Next]_vars
  PROVE  QuietQueue'
<1> USE ConstantsAssumption
    DEF TypeOK, QuietQueue, poolVars, connVars, sockVars, CloseSockets, fiberVars, fillVars
<1>q. /\ ToSet(Signalled) \subseteq ToSet(queue) /\ ToSet(<<>>) = {}
      /\ ToSet(queue) \subseteq Fibers
      /\ \A i, j \in DOMAIN Signalled : Signalled[i] = Signalled[j] => i = j
      /\ queue = <<>> => Signalled = <<>>
  BY QueueMoves, QueueSets, EmptyToSet DEF Signalled
<1>n. /\ lock = NoOne => \A f \in Fibers : pc[f] \notin {"loop", "parking"}
      /\ \A f \in Fibers : pc[f] = "loop" => \A g \in Fibers : pc[g] # "parking"
  BY DEF LoopHasMutex, SleepersCurrent
(* Nobody is about to sleep.                                               *)
<1>k. ASSUME UNCHANGED <<filler, timedOut>>, queue' \in {queue, Signalled, <<>>},
             paused' = paused \/ queue' = <<>>,
             \A g \in Fibers : pc'[g] # "parking"
      PROVE  QuietQueue'
  BY <1>k, <1>q
(* What is free stays as it is.                                            *)
<1>s. ASSUME UNCHANGED <<filler, timedOut, queue, idle, total, inflight, paused>>,
             \A g \in Fibers : pc'[g] = "parking" => pc[g] = "parking"
      PROVE  QuietQueue'
  BY <1>s DEF CanCreate
<1>c. ASSUME NEW f \in Fibers, Checkout(f) PROVE QuietQueue'
  <2>1. CASE Enter(f) \/ Resume(f) \/ GiveUp(f)
    BY <2>1, <1>s DEF Enter, Resume, GiveUp
  <2>2. CASE PickIdle(f) \/ DiscardIdle(f) \/ BeginConnect(f)
    <3>1. /\ UNCHANGED <<filler, timedOut, paused>> /\ queue' \in {queue, Signalled}
          /\ pc[f] = "loop"
          /\ pc' = [pc EXCEPT ![f] = pc'[f]] /\ pc'[f] # "parking"
      BY <2>2 DEF PickIdle, DiscardIdle, BeginConnect
    <3>2. \A g \in Fibers : pc'[g] # "parking"
      BY <3>1, <1>n
    <3> QED BY <3>1, <3>2, <1>k
  <2>3. CASE Established(f) \/ ConnectRefused(f) \/ ConnectFails(f)
    <3>1. /\ UNCHANGED <<filler, timedOut, paused>> /\ queue' = Signalled
          /\ lock = NoOne
          /\ pc' = [pc EXCEPT ![f] = pc'[f]] /\ pc'[f] # "parking"
      BY <2>3 DEF Established, ConnectRefused, ConnectFails, EndConnect
    <3>2. \A g \in Fibers : pc'[g] # "parking"
      BY <3>1, <1>n
    <3> QED BY <3>1, <3>2, <1>k
  <2>4. CASE StartWait(f)
    <3>1. /\ pc[f] = "loop" /\ idle = <<>> /\ ~CanCreate
          /\ timedOut' = [timedOut EXCEPT ![f] = FALSE]
          /\ UNCHANGED <<filler, queue, idle, total, inflight, paused>>
          /\ \A g \in Fibers : g # f => pc'[g] = pc[g]
      BY <2>4 DEF StartWait
    <3>2. ~paused /\ idle' = <<>> /\ ~CanCreate'
      BY <3>1 DEF LoopHasMutex, CanCreate
    <3> QED BY <3>1, <3>2, <1>n, <1>q
  <2>5. CASE Park(f)
    <3>1. /\ pc[f] = "parking" /\ ~paused
          /\ UNCHANGED <<filler, timedOut, idle, total, inflight, paused>>
          /\ queue' = queue \/ queue' = Append(queue, f)
          /\ \A g \in Fibers : pc'[g] = "parking" => pc[g] = "parking"
      BY <2>5 DEF Park
    <3>2. f \notin ToSet(queue) /\ ~timedOut[f]
      BY <3>1 DEF SleepersCurrent
    <3>3. PICK a : a = Append(queue, f)
      OBVIOUS
    <3>4. /\ ToSet(a) = ToSet(queue) \cup {f}
          /\ \A i, j \in DOMAIN a : a[i] = a[j] => i = j
      <4>1. /\ Append(queue, f) \in Seq(Fibers)
            /\ ToSet(Append(queue, f)) = ToSet(queue) \cup {f}
            /\ \A i, j \in DOMAIN Append(queue, f) :
                 Append(queue, f)[i] = Append(queue, f)[j] => i = j
        BY ONLY <3>2, TypeOK, QuietQueue, f \in Fibers, AppendNew
           DEF TypeOK, QuietQueue
      <4> QED BY ONLY <3>3, <4>1
    <3>5. /\ \A i, j \in DOMAIN queue' : queue'[i] = queue'[j] => i = j
          /\ \A g \in ToSet(queue') : ~timedOut'[g]
          /\ paused' => queue' = <<>>
      BY <3>1, <3>2, <3>3, <3>4
    <3> QED BY <3>1, <3>5 DEF CanCreate
  <2>6. CASE WaitTimeout(f)
    <3>1. PICK i \in DOMAIN queue : queue[i] = f /\ queue' = RemoveAt(queue, i)
      BY <2>6 DEF WaitTimeout
    <3>2. /\ f \notin ToSet(queue') /\ ToSet(queue') \subseteq ToSet(queue)
          /\ \A k, j \in DOMAIN queue' : queue'[k] = queue'[j] => k = j
      <4>1. queue \in Seq(Fibers)
            /\ \A k, j \in DOMAIN queue : queue[k] = queue[j] => k = j
        OBVIOUS
      <4>2. PICK r : r = RemoveAt(queue, i)
        OBVIOUS
      <4>3. /\ queue[i] \notin ToSet(r) /\ ToSet(r) \subseteq ToSet(queue)
            /\ \A k, j \in DOMAIN r : r[k] = r[j] => k = j
        <5>1. /\ ToSet(RemoveAt(queue, i)) \subseteq ToSet(queue)
              /\ queue[i] \notin ToSet(RemoveAt(queue, i))
              /\ \A k, j \in DOMAIN RemoveAt(queue, i) :
                   RemoveAt(queue, i)[k] = RemoveAt(queue, i)[j] => k = j
          BY ONLY <4>1, i \in DOMAIN queue, QueueSets, Zenon
        <5> QED BY ONLY <4>2, <5>1
      <4> QED BY ONLY <3>1, <4>2, <4>3
    <3>3. /\ queue # <<>> /\ f \in ToSet(queue)
          /\ UNCHANGED <<filler, idle, total, inflight, paused, pc>>
          /\ timedOut' = [timedOut EXCEPT ![f] = TRUE]
      BY <2>6, <3>1 DEF WaitTimeout, ToSet
    <3>4. pc[f] = "waiting" /\ ~paused'
      BY <3>3 DEF SleepersCurrent
    <3>5. \A g \in ToSet(queue') : ~timedOut'[g]
      BY <3>2, <3>3, <1>q
    <3>6. \A g \in Fibers : pc'[g] = "parking" =>
            idle' = <<>> /\ ~CanCreate' /\ ~paused' /\ ~timedOut'[g]
      BY <3>3, <3>4 DEF CanCreate
    <3> QED BY ONLY QuietQueue, <3>2, <3>3, <3>4, <3>5, <3>6 DEF QuietQueue
  <2> QED
    BY <1>c, <2>1, <2>2, <2>3, <2>4, <2>5, <2>6 DEF Checkout
<1>u. ASSUME NEW f \in Fibers, UseFails(f) PROVE QuietQueue'
  BY <1>u, <1>s DEF UseFails
<1>r. ASSUME NEW f \in Fibers, Return(f) PROVE QuietQueue'
  <2>1. CheckIn(f) /\ queue' \in {queue, Signalled}
    BY <1>r DEF Return, ReleaseFresh, ReleaseToClosed, ReleaseUnusable, ReleaseToIdle,
                ReleaseExcess, Drop
  <2>2. \A g \in Fibers : pc'[g] # "parking"
    BY <2>1, <1>n DEF CheckIn
  <2> QED BY <2>1, <2>2, <1>k DEF CheckIn
<1>p. ASSUME Populate PROVE QuietQueue'
  <2>1. StartMinSize
    BY <1>p DEF Populate, FillDone, FillBegins, FillEstablished, FillRefused,
       FillFails, FillLoses, FillSignals, FillReportsError, FillEnds
  <2> QED BY <2>1, <1>s DEF StartMinSize
<1>m. ASSUME MarkReady \/ Drain PROVE QuietQueue'
  BY <1>m, <1>n, <1>k DEF MarkReady, Drain, LoopHasMutex
<1>x. ASSUME NEW b \in BOOLEAN, ClearPool(b) PROVE QuietQueue'
  BY <1>x, <1>n, <1>k DEF ClearPool
<1>y. ASSUME CopySetups \/ \E c \in Conns : InterruptInUse(c) \/ InterruptSetup(c)
      PROVE  QuietQueue'
  BY <1>y, <1>s DEF InterruptInUse, InterruptSetup, CopySetups
<1>z. ASSUME Close PROVE QuietQueue'
  BY <1>z, <1>n, <1>k DEF Close
<1>v. ASSUME UNCHANGED vars PROVE QuietQueue'
  BY <1>v, <1>s DEF vars
<1> QED
  BY <1>c, <1>u, <1>r, <1>p, <1>m, <1>x, <1>y, <1>z, <1>v DEF Next

(* Counting two sets that differ in at most one element.                   *)
LEMMA SetCounts ==
  ASSUME NEW S, IsFiniteSet(S), NEW R \in SUBSET S, NEW Q \in SUBSET S
  PROVE  /\ Cardinality(R) \in Nat /\ Cardinality(Q) \in Nat
         /\ R \subseteq Q => Cardinality(R) <= Cardinality(Q)
         /\ \A g \in Q : g \notin R /\ R \subseteq Q
              => Cardinality(R) + 1 <= Cardinality(Q)
         /\ \A g \in R : R \ {g} \subseteq Q => Cardinality(R) <= Cardinality(Q) + 1
<1>1. IsFiniteSet(R) /\ IsFiniteSet(Q)
  BY FS_Subset
<1>2. Cardinality(R) \in Nat /\ Cardinality(Q) \in Nat
  BY <1>1, FS_CardinalityType
<1>3. ASSUME R \subseteq Q PROVE Cardinality(R) <= Cardinality(Q)
  BY <1>1, <1>3, FS_Subset
<1>4. ASSUME NEW g \in Q, g \notin R, R \subseteq Q
      PROVE  Cardinality(R) + 1 <= Cardinality(Q)
  <2>1. PICK T : T = R \cup {g}
    OBVIOUS
  <2>2. Cardinality(T) = Cardinality(R) + 1
    BY <1>1, <1>4, <2>1, FS_AddElement
  <2>3. T \in SUBSET Q
    BY <1>4, <2>1
  <2> QED BY <1>1, <2>2, <2>3, FS_Subset
<1>5. ASSUME NEW g \in R, R \ {g} \subseteq Q
      PROVE  Cardinality(R) <= Cardinality(Q) + 1
  <2>1. PICK T : T = R \ {g}
    OBVIOUS
  <2>2. Cardinality(T) = Cardinality(R) - 1
    BY <1>1, <1>5, <2>1, FS_RemoveElement
  <2>3. T \in SUBSET Q
    BY <1>5, <2>1
  <2>4. Cardinality(T) <= Cardinality(Q)
    BY <1>1, <2>3, FS_Subset
  <2> QED BY <1>2, <2>2, <2>4
<1> QED BY <1>2, <1>3, <1>4, <1>5

(* A sequence without repetitions is as long as its set is large.          *)
LEMMA DistinctLength ==
  ASSUME NEW S, NEW s \in Seq(S), \A i, j \in DOMAIN s : s[i] = s[j] => i = j
  PROVE  Cardinality(ToSet(s)) = Len(s)
<1>1. Len(s) \in Nat /\ DOMAIN s = 1..Len(s) /\ s \in [1..Len(s) -> S]
  BY LenProperties
<1>2. s \in [1..Len(s) -> ToSet(s)]
  BY <1>1 DEF ToSet
<1>3. s \in Bijection(1..Len(s), ToSet(s))
  BY <1>1, <1>2 DEF ToSet, Bijection, Injection, Surjection, IsInjective
<1>4. ExistsBijection(1..Len(s), ToSet(s))
  BY <1>3 DEF ExistsBijection
<1> QED BY <1>1, <1>4, FS_CountingElements

(* No fiber that returns its connection finds the idle ones at their       *)
(* limit, unless the pool is unlimited.                                    *)
LEMMA IdleFits ==
  ASSUME Inductive, ~closed, NEW f \in Fibers, pc[f] = "using", MaxPoolSize > 0
  PROVE  CanIncreaseIdle
<1> USE DEF Inductive
<1>1. /\ held[f] \in total /\ held[f] \notin ToSet(idle)
      /\ ToSet(idle) \subseteq total
  BY DEF NoLeakedSlot, SlotsCounted, LoopHasMutex, Users, HeldBy, Ownership
<1>2. Cardinality(ToSet(idle)) = Len(idle)
  BY DistinctLength DEF TypeOK, Ownership
<1>3. total \in SUBSET Conns /\ ToSet(idle) \in SUBSET Conns /\ inflight \in Nat
      /\ Len(idle) \in Nat
  BY <1>1, LenProperties DEF TypeOK
<1>4. PICK T : T = ToSet(idle)
  OBVIOUS
<1>5. Cardinality(T) + 1 <= Cardinality(total) /\ Cardinality(total) \in Nat
  BY <1>1, <1>3, <1>4, ConstantsAssumption, SetCounts
<1> QED BY <1>2, <1>3, <1>4, <1>5, ConstantsAssumption
       DEF PoolSizeBounded, CanIncreaseIdle

(* Runners are counted, before and after a step.                           *)
LEMMA RunnersMove ==
  ASSUME TypeOK
  PROVE  /\ Cardinality(Runners) \in Nat /\ Cardinality(Runners') \in Nat
         /\ Runners \subseteq Runners' => Cardinality(Runners) <= Cardinality(Runners')
         /\ \A g \in Runners' : g \notin Runners /\ Runners \subseteq Runners'
              => Cardinality(Runners) + 1 <= Cardinality(Runners')
         /\ \A g \in Runners : Runners \ {g} \subseteq Runners'
              => Cardinality(Runners) <= Cardinality(Runners') + 1
<1>1. PICK R, Q : R = Runners /\ Q = Runners'
  OBVIOUS
<1>2. R \in SUBSET Fibers /\ Q \in SUBSET Fibers
  BY <1>1 DEF Runners
<1>3. /\ Cardinality(R) \in Nat /\ Cardinality(Q) \in Nat
      /\ R \subseteq Q => Cardinality(R) <= Cardinality(Q)
      /\ \A g \in Q : g \notin R /\ R \subseteq Q
           => Cardinality(R) + 1 <= Cardinality(Q)
      /\ \A g \in R : R \ {g} \subseteq Q => Cardinality(R) <= Cardinality(Q) + 1
  BY <1>2, ConstantsAssumption, SetCounts
<1> QED BY ONLY <1>1, <1>3

(* A signal makes a runner of the fiber that waited longest.               *)
LEMMA SignalRuns ==
  ASSUME TypeOK, SleepersCurrent, QuietQueue, queue # <<>>, queue' = Signalled,
         UNCHANGED <<generation, startGen, timedOut>>,
         \A g \in Fibers : pc[g] \in {"waiting", "loop"} => pc'[g] = pc[g]
  PROVE  Cardinality(Runners) + 1 <= Cardinality(Runners')
<1>1. /\ queue \in Seq(Fibers)
      /\ \A i, j \in DOMAIN queue : queue[i] = queue[j] => i = j
  BY DEF TypeOK, QuietQueue
<1>2. /\ Head(queue) \in ToSet(queue) /\ Head(queue) \notin ToSet(queue')
      /\ ToSet(queue') \subseteq ToSet(queue)
  BY <1>1, QueueSets DEF Signalled
<1>3. PICK g \in Fibers : g = Head(queue)
  BY <1>1, <1>2, ToSetSubset
<1>4. pc[g] = "waiting" /\ startGen[g] = generation /\ ~timedOut[g]
  BY <1>2, <1>3 DEF SleepersCurrent, QuietQueue
<1>5. g \notin Runners
  BY <1>2, <1>3, <1>4 DEF Runners, Awake
<1>6. g \in Runners'
  BY <1>2, <1>3, <1>4 DEF Runners, Awake
<1>7. Runners \subseteq Runners'
  BY <1>2 DEF Runners, Awake
<1> QED BY <1>5, <1>6, <1>7, RunnersMove

(* Connections are counted, before and after a step.                       *)
LEMMA TotalMoves ==
  ASSUME TypeOK, TypeOK'
  PROVE  /\ Cardinality(total) \in Nat /\ Cardinality(total') \in Nat
         /\ \A c \in total' : c \notin total /\ total \subseteq total'
              => Cardinality(total) + 1 <= Cardinality(total')
         /\ \A c : total \ {c} \subseteq total'
              => Cardinality(total) <= Cardinality(total') + 1
<1>1. total \in SUBSET Conns /\ total' \in SUBSET Conns
  BY DEF TypeOK
<1>2. /\ Cardinality(total) \in Nat /\ Cardinality(total') \in Nat
      /\ total \subseteq total' => Cardinality(total) <= Cardinality(total')
      /\ \A c \in total' : c \notin total /\ total \subseteq total'
           => Cardinality(total) + 1 <= Cardinality(total')
      /\ \A c \in total : total \ {c} \subseteq total'
           => Cardinality(total) <= Cardinality(total') + 1
  BY <1>1, ConstantsAssumption, SetCounts
<1>3. ASSUME NEW c, total \ {c} \subseteq total'
      PROVE  Cardinality(total) <= Cardinality(total') + 1
  <2>1. CASE c \in total
    BY <1>2, <1>3, <2>1
  <2>2. CASE c \notin total
    BY <1>2, <1>3, <2>2
  <2> QED BY <2>1, <2>2
<1> QED BY <1>2, <1>3

(* The balance of runners and free slots survives every step: what frees   *)
(* a slot or a connection sends a signal, and what takes one was a runner. *)
LEMMA CountStep ==
  ASSUME ~Parallel, MinPoolSize = 0, Inductive, TypeOK', SleepersCurrent,
         QuietQueue, queue # <<>> => EnoughRunners, [Next]_vars, queue' # <<>>
  PROVE  EnoughRunners'
<1> USE ConstantsAssumption DEF poolVars, connVars, sockVars, CloseSockets, fiberVars, fillVars
<1>t. TypeOK /\ LoopHasMutex
  BY DEF Inductive
<1>n. /\ Cardinality(Runners) \in Nat /\ Cardinality(Runners') \in Nat
      /\ Cardinality(total) \in Nat /\ Cardinality(total') \in Nat
      /\ Len(idle) \in Nat /\ Len(idle') \in Nat
      /\ inflight \in Nat /\ inflight' \in Nat
  BY <1>t, RunnersMove, TotalMoves, LenProperties DEF TypeOK
<1>a. /\ idle # <<>> => Len(Front(idle)) = Len(idle) - 1
      /\ \A c \in Conns : Len(Append(idle, c)) = Len(idle) + 1
  <2>1. idle \in Seq(Conns)
    BY <1>t DEF TypeOK
  <2>2. \A c \in Conns : Len(Append(idle, c)) = Len(idle) + 1
    BY <2>1, AppendProperties
  <2>3. ASSUME idle # <<>> PROVE Len(Front(idle)) = Len(idle) - 1
    <3>1. Len(idle) \in Nat /\ Len(idle) # 0
      BY <2>1, <2>3, LenProperties, EmptySeq
    <3>2. /\ Len(idle) \in Nat /\ Front(idle) \in Seq(Conns)
          /\ DOMAIN Front(idle) = 1..(Len(idle) - 1)
      BY ONLY <2>1, <3>1, SubSeqProperties, LenProperties DEF Front
    <3>3. Len(idle) - 1 \in Nat /\ 1..Len(Front(idle)) = 1..(Len(idle) - 1)
      BY ONLY <3>1, <3>2, LenProperties
    <3> QED BY ONLY <3>2, <3>3, LenProperties
  <2> QED BY <2>2, <2>3
(* The balance, in additions only.                                         *)
<1>k. ASSUME queue # <<>>,
             Len(idle') + Cardinality(Runners) + inflight
               <= Len(idle) + Cardinality(Runners') + inflight',
             MaxPoolSize > 0 =>
               Len(idle') + Cardinality(Runners) + Cardinality(total) + inflight
                 <= Len(idle) + Cardinality(Runners') + Cardinality(total') + inflight'
      PROVE  EnoughRunners'
  <2>1. MaxPoolSize \in Nat /\ MaxConnecting \in Nat /\ EnoughRunners
    BY <1>k
  <2>2. CASE Len(idle) + MaxConnecting <= Cardinality(Runners) + inflight
    <3>1. Len(idle') + MaxConnecting <= Cardinality(Runners') + inflight'
      BY ONLY <1>k, <1>n, <2>1, <2>2
    <3> QED BY <3>1 DEF EnoughRunners
  <2>3. CASE /\ MaxPoolSize > 0
             /\ Len(idle) + MaxPoolSize
                  <= Cardinality(Runners) + Cardinality(total) + inflight
    <3>1. Len(idle') + MaxPoolSize
            <= Cardinality(Runners') + Cardinality(total') + inflight'
      <4>1. Len(idle') + Cardinality(Runners) + Cardinality(total) + inflight
              <= Len(idle) + Cardinality(Runners') + Cardinality(total') + inflight'
        BY <1>k, <2>3
      <4>2. PICK r, r1, t, t1, l, l1 :
              /\ r = Cardinality(Runners) /\ r1 = Cardinality(Runners')
              /\ t = Cardinality(total) /\ t1 = Cardinality(total')
              /\ l = Len(idle) /\ l1 = Len(idle')
        OBVIOUS
      <4>3. /\ {r, r1, t, t1, l, l1, inflight, inflight', MaxPoolSize} \subseteq Nat
            /\ l1 + r + t + inflight <= l + r1 + t1 + inflight'
            /\ l + MaxPoolSize <= r + t + inflight
        BY ONLY <1>n, <2>1, <2>3, <4>1, <4>2
      <4>4. l1 + MaxPoolSize <= r1 + t1 + inflight'
        BY ONLY <4>3
      <4> QED BY ONLY <4>2, <4>4
    <3> QED BY <2>3, <3>1 DEF EnoughRunners
  <2> QED BY <2>1, <2>2, <2>3 DEF EnoughRunners
(* Nothing is freed or taken, and no runner stops.                         *)
<1>s. ASSUME queue # <<>>, UNCHANGED <<idle, total, inflight>>,
             Runners \subseteq Runners'
      PROVE  EnoughRunners'
  <2>1. Cardinality(Runners) <= Cardinality(Runners')
    BY <1>s, <1>t, RunnersMove
  <2> QED BY <1>k, <1>s, <1>n, <2>1
(* Nobody sleeps on a pool that is paused.                                 *)
<1>q. /\ queue = <<>> => Signalled = <<>>
      /\ paused => queue = <<>>
      /\ closed => paused
  BY <1>t DEF Signalled, QuietQueue, LoopHasMutex
(* A signal is sent.                                                       *)
<1>g. ASSUME queue' = Signalled, UNCHANGED <<generation, startGen, timedOut>>,
             \A g \in Fibers : pc[g] \in {"waiting", "loop"} => pc'[g] = pc[g]
      PROVE  queue # <<>> /\ Cardinality(Runners) + 1 <= Cardinality(Runners')
  <2>1. queue # <<>>
    BY <1>g, <1>q
  <2> QED BY <1>g, <1>t, <2>1, SignalRuns
(* A runner takes something.                                               *)
<1>l. ASSUME NEW f \in Fibers, pc[f] = "loop", pc'[f] # "loop",
             UNCHANGED <<queue, generation, startGen, timedOut>>,
             pc' = [pc EXCEPT ![f] = pc'[f]]
      PROVE  queue # <<>> /\ Cardinality(Runners) <= Cardinality(Runners') + 1
  <2>1. f \in Runners /\ Runners \ {f} \subseteq Runners'
    BY <1>l, <1>t DEF Runners, Awake, TypeOK
  <2> QED BY <1>l, <1>t, <2>1, RunnersMove
<1>c. ASSUME NEW f \in Fibers, Checkout(f) PROVE EnoughRunners'
  <2>1. CASE Enter(f)
    <3>1. Runners \subseteq Runners'
      BY <2>1, <1>t DEF Enter, Runners, Awake, TypeOK
    <3> QED BY <2>1, <3>1, <1>s DEF Enter
  <2>2. CASE PickIdle(f)
    <3>1. /\ queue # <<>> /\ Cardinality(Runners) <= Cardinality(Runners') + 1
          /\ Len(idle') = Len(idle) - 1 /\ UNCHANGED <<total, inflight>>
      BY <2>2, <1>t, <1>a, <1>l DEF PickIdle, TypeOK
    <3> QED BY <3>1, <1>n, <1>k
  <2>3. CASE DiscardIdle(f)
    <3>1. queue # <<>> /\ Cardinality(Runners) + 1 <= Cardinality(Runners')
      BY <2>3, <1>g DEF DiscardIdle
    <3>2. Len(idle') = Len(idle) - 1 /\ inflight' = inflight
      BY <2>3, <1>a DEF DiscardIdle
    <3>3. Cardinality(total) <= Cardinality(total') + 1
      <4>1. total \ {Last(idle)} \subseteq total'
        BY <2>3 DEF DiscardIdle, Forget
      <4> QED BY <4>1, <1>t, TotalMoves
    <3>4. /\ Len(idle') + Cardinality(Runners) + inflight
               <= Len(idle) + Cardinality(Runners') + inflight'
          /\ Len(idle') + Cardinality(Runners) + Cardinality(total) + inflight
               <= Len(idle) + Cardinality(Runners') + Cardinality(total') + inflight'
      BY ONLY <3>1, <3>2, <3>3, <1>n
    <3> QED BY ONLY <3>1, <3>4, <1>k
  <2>4. CASE BeginConnect(f)
    <3>1. /\ queue # <<>> /\ Cardinality(Runners) <= Cardinality(Runners') + 1
          /\ inflight' = inflight + 1 /\ UNCHANGED <<idle, total>>
      BY <2>4, <1>t, <1>l DEF BeginConnect, TypeOK
    <3> QED BY <3>1, <1>n, <1>k
  <2>5. CASE Established(f)
    <3>1. queue # <<>> /\ Cardinality(Runners) + 1 <= Cardinality(Runners')
      BY <2>5, <1>t, <1>g DEF Established, TypeOK
    <3>2. held[f] \notin total
      <4>1. held[f] \in BeingSetUp
        BY <2>5 DEF Established, Inductive, Ownership, BeingSetUp, HeldBy, Handshaking
      <4> QED BY <4>1 DEF Inductive, HandshakeUncounted
    <3>3. Cardinality(total) + 1 <= Cardinality(total')
      BY <2>5, <3>2, <1>t, TotalMoves DEF Established
    <3>4. inflight' = inflight - 1 /\ idle' = idle
      BY <2>5 DEF Established
    <3> QED BY <3>1, <3>3, <3>4, <1>n, <1>k
  <2>6. CASE ConnectRefused(f) \/ ConnectFails(f)
    <3>1. pc[f] = "connecting" /\ EndConnect(f)
      BY <2>6 DEF ConnectRefused, ConnectFails
    <3>2. queue # <<>> /\ Cardinality(Runners) + 1 <= Cardinality(Runners')
      BY <3>1, <1>t, <1>g DEF EndConnect, TypeOK
    <3>3. inflight' = inflight - 1 /\ UNCHANGED <<idle, total>>
      BY <3>1 DEF EndConnect
    <3> QED BY <3>2, <3>3, <1>n, <1>k
  <2>7. CASE StartWait(f) \/ Park(f)
    <3>1. idle = <<>> /\ ~CanCreate /\ UNCHANGED <<idle, total, inflight>>
      BY <2>7 DEF StartWait, Park, QuietQueue
    <3>2. Len(idle') = 0
      BY <3>1, EmptySeq
    <3> QED BY <3>1, <3>2, <1>n DEF EnoughRunners, CanCreate
  <2>8. CASE WaitTimeout(f)
    <3>1. PICK i \in DOMAIN queue : queue[i] = f /\ queue' = RemoveAt(queue, i)
      BY <2>8 DEF WaitTimeout
    <3>2. f \in ToSet(queue) /\ queue # <<>> /\ ToSet(queue') \subseteq ToSet(queue)
      <4>1. f \in ToSet(queue) /\ queue # <<>>
        BY <3>1 DEF ToSet
      <4>2. ToSet(RemoveAt(queue, i)) \subseteq ToSet(queue)
        BY <1>t, QueueMoves
      <4> QED BY <3>1, <4>1, <4>2
    <3>3. Runners \subseteq Runners'
      BY <2>8, <3>2, <1>t DEF WaitTimeout, Runners, Awake, TypeOK, SleepersCurrent
    <3> QED BY <2>8, <3>2, <3>3, <1>s DEF WaitTimeout
  <2>9. CASE Resume(f)
    <3>1. Runners \subseteq Runners'
      BY <2>9, <1>t DEF Resume, Runners, Awake, TypeOK
    <3> QED BY <2>9, <3>1, <1>s DEF Resume
  <2>10. CASE GiveUp(f)
    <3>1. f \notin Runners
      BY <2>10, <1>q, <1>t DEF GiveUp, Runners, Awake, MayRetry
    <3>2. Runners \subseteq Runners'
      BY <2>10, <3>1, <1>t DEF GiveUp, Runners, Awake, TypeOK
    <3> QED BY <2>10, <3>2, <1>s DEF GiveUp
  <2> QED
    BY <1>c, <2>1, <2>2, <2>3, <2>4, <2>5, <2>6, <2>7, <2>8, <2>9, <2>10 DEF Checkout
<1>u. ASSUME NEW f \in Fibers, UseFails(f) PROVE EnoughRunners'
  <2>1. Runners \subseteq Runners'
    BY <1>u DEF UseFails, Runners, Awake
  <2> QED BY <1>u, <2>1, <1>s DEF UseFails
<1>r. ASSUME NEW f \in Fibers, Return(f) PROVE EnoughRunners'
  <2>1. CheckIn(f)
    BY <1>r DEF Return, ReleaseFresh, ReleaseToClosed, ReleaseUnusable, ReleaseToIdle,
                ReleaseExcess, Drop
  <2>2. /\ inflight' = inflight
        /\ queue' = Signalled =>
             queue # <<>> /\ Cardinality(Runners) + 1 <= Cardinality(Runners')
    BY <2>1, <1>t, <1>g DEF CheckIn, TypeOK
  <2>3. CASE ReleaseToClosed(f)
    BY <2>3, <1>q DEF ReleaseToClosed
  <2>4. CASE ReleaseUnusable(f) \/ Drop(f)
    <3>1. queue' = Signalled /\ idle' = idle /\ total \ {held[f]} \subseteq total'
      BY <2>4 DEF ReleaseUnusable, Drop, Forget
    <3>2. Cardinality(total) <= Cardinality(total') + 1
      BY <3>1, <1>t, TotalMoves
    <3> QED BY <2>2, <3>1, <3>2, <1>n, <1>k
  <2>5. CASE ReleaseToIdle(f)
    <3>1. held[f] \in Conns
      BY <2>1, <1>t DEF CheckIn, Inductive, Ownership, TypeOK
    <3>2. /\ queue' = Signalled /\ Len(idle') = Len(idle) + 1
          /\ total' = total
      BY <2>5, <3>1, <1>a DEF ReleaseToIdle
    <3> QED BY <2>2, <3>2, <1>n, <1>k
  <2>6. CASE ~CanIncreaseIdle /\ ReleaseExcess(f)
    <3>1. ~(MaxPoolSize > 0)
      BY <2>1, <2>6, IdleFits DEF ReleaseExcess, CheckIn
    <3>2. queue' = queue /\ idle' = idle
      BY <2>6 DEF ReleaseExcess
    <3>3. Runners \subseteq Runners'
      BY <2>1, <3>2, <1>t DEF CheckIn, Runners, Awake, TypeOK
    <3>4. Cardinality(Runners) <= Cardinality(Runners')
      BY <3>3, <1>t, RunnersMove
    <3> QED BY <2>2, <3>1, <3>2, <3>4, <1>n, <1>k
  <2> QED BY <1>r, <2>3, <2>4, <2>5, <2>6
         DEF Return, ReleaseFresh
<1>p. ASSUME Populate PROVE EnoughRunners'
  <2>1. StartMinSize
    BY <1>p DEF QuietQueue, Populate, FillDone, FillBegins, FillEstablished,
       FillRefused, FillFails, FillLoses, FillSignals, FillReportsError, FillEnds
  <2>2. Runners \subseteq Runners'
    BY <2>1 DEF StartMinSize, Runners, Awake
  <2> QED BY <2>1, <2>2, <1>s DEF StartMinSize
<1>m. ASSUME MarkReady \/ Drain PROVE EnoughRunners'
  BY <1>m, <1>q DEF MarkReady, Drain
<1>x. ASSUME NEW b \in BOOLEAN, ClearPool(b) PROVE EnoughRunners'
  BY <1>x DEF ClearPool
<1>y. ASSUME CopySetups \/ \E c \in Conns : InterruptInUse(c) \/ InterruptSetup(c)
      PROVE  EnoughRunners'
  <2>1. Runners \subseteq Runners'
    BY <1>y DEF InterruptInUse, InterruptSetup, CopySetups, Runners, Awake
  <2> QED BY <1>y, <2>1, <1>s DEF InterruptInUse, InterruptSetup, CopySetups
<1>z. ASSUME Close PROVE EnoughRunners'
  BY <1>z DEF Close
<1>v. ASSUME UNCHANGED vars PROVE EnoughRunners'
  <2>1. Runners \subseteq Runners'
    BY <1>v DEF vars, Runners, Awake
  <2> QED BY <1>v, <2>1, <1>s DEF vars
<1> QED
  BY <1>c, <1>u, <1>r, <1>p, <1>m, <1>x, <1>y, <1>z, <1>v DEF Next

LEMMA InitSignals ==
  Init => SignalsKept
BY EmptyToSet DEF Init, SignalsKept, QuietQueue

LEMMA SignalsStep ==
  /\ ~Parallel /\ MinPoolSize = 0 /\ Inductive /\ Inductive' /\ SleepersCurrent
  /\ SignalsKept /\ [Next]_vars
  => SignalsKept'
<1> SUFFICES ASSUME ~Parallel, MinPoolSize = 0, Inductive, Inductive',
                    SleepersCurrent, SignalsKept, [Next]_vars
             PROVE  SignalsKept'
  OBVIOUS
<1>1. TypeOK /\ LoopHasMutex /\ TypeOK'
  BY DEF Inductive
<1>2. QuietQueue'
  BY <1>1, QuietStep DEF SignalsKept
<1>3. queue' # <<>> => EnoughRunners'
  BY <1>1, CountStep DEF SignalsKept
<1> QED BY <1>2, <1>3 DEF SignalsKept

(* Beside what is free there is a runner.                                  *)
LEMMA RunnerBesideFreeSlot ==
  Inductive /\ SignalsKept => NoSleeperBesideFreeSlot
<1> SUFFICES ASSUME Inductive, SignalsKept, queue # <<>>, ~paused,
                    idle # <<>> \/ CanCreate
             PROVE  \E f \in Fibers : pc[f] = "loop" \/ (Awake(f) /\ ~timedOut[f])
  BY DEF NoSleeperBesideFreeSlot
<1>1. TypeOK /\ PoolSizeBounded /\ ConnectingBounded
  BY DEF Inductive
<1>2. /\ Len(idle) \in Nat /\ idle # <<>> => Len(idle) # 0
      /\ inflight \in Nat /\ inflight <= MaxConnecting
      /\ IsFiniteSet(total) /\ Cardinality(total) \in Nat
  BY <1>1, LenProperties, EmptySeq, ConstantsAssumption, FS_Subset,
     FS_CardinalityType DEF TypeOK, ConnectingBounded
<1>3. Cardinality(Runners) \in Nat
  BY <1>1, RunnersMove
<1>4. Cardinality(Runners) # 0
  BY <1>1, <1>2, <1>3, ConstantsAssumption
     DEF SignalsKept, EnoughRunners, CanCreate, PoolSizeBounded
<1>5. Runners # {}
  BY <1>4, FS_EmptySet
<1> QED BY <1>5 DEF Runners

(* In the single-threaded build and without a background fill, whatever    *)
(* the limits and the number of fibers, nobody sleeps beside a connection  *)
(* or a slot that is free without a fiber on its way to it.  Both          *)
(* hypotheses are needed: see the run pool_lost_wakeup and the hazard of   *)
(* populate_min's single signal.                                           *)
THEOREM PoolNoLostSignal ==
  ASSUME ~Parallel, MinPoolSize = 0
  PROVE  Spec => []NoSleeperBesideFreeSlot
<1>1. Inductive /\ SleepersCurrent /\ [Next]_vars => SleepersCurrent'
  BY SleepersStepInductive
<1>2. Inductive /\ Inductive' /\ SleepersCurrent /\ SignalsKept /\ [Next]_vars
        => SignalsKept'
  BY SignalsStep
<1> QED
  BY <1>1, <1>2, InitSleepers, InitSignals, PoolInvariant, RunnerBesideFreeSlot,
     PTL DEF Spec
=============================================================================
