------------------- MODULE ConnectionPoolRefinementProofs -------------------
(***************************************************************************)
(* ConnectionPool implements PoolContract, for every number of fibers and  *)
(* every limit.  Each action of the pool is one step of the contract or    *)
(* none: handshakes, waits, interrupts and failures of sockets are         *)
(* invisible; what remains is leases and epochs.                           *)
(***************************************************************************)
EXTENDS ConnectionPoolRefinement, ConnectionPoolProofs

Lease == [f \in Fibers |-> IF pc[f] = "using" THEN held[f] ELSE NoConn]
Mode == IF closed THEN "closed" ELSE IF paused THEN "cleared" ELSE "ready"
Visible == <<Mode, generation, Lease, ToSet(idle), connGen>>

(* A connection whose handshake is under way is not a member, and while it *)
(* lasts there is room for one more.                                       *)
LEMMA HandshakeMayJoin ==
  ASSUME Inductive, ~closed, ~paused, NEW c \in Conns, InHandshake(c),
         connGen' = [connGen EXCEPT ![c] = generation]
  PROVE  Contract!MayJoin(c)
<1> USE DEF Inductive
<1>1. Contract!Members = total
  <2>1. Contract!Leased = HeldBy(Users)
    BY ConstantsAssumption DEF Contract!Leased, HeldBy, Users, TypeOK, Ownership
  <2> QED BY <2>1 DEF Contract!Members, NoLeakedSlot, SlotsCounted, LoopHasMutex
<1>2. c \notin total
  BY HandshakeByElement DEF AllUncounted, Uncounted
<1>3. inflight >= 1 /\ inflight \in Nat
  <2>1. (\E f \in Fibers : f \in Handshaking) \/ filler = "connecting"
    BY DEF InHandshake, Handshaking, Ownership
  <2> QED BY <2>1, InflightPositive DEF TypeOK
<1>4. Cardinality(total) \in Nat
  BY ConstantsAssumption, FS_Subset, FS_CardinalityType DEF TypeOK
<1>5. MaxPoolSize > 0 => Cardinality(total) < MaxPoolSize
  BY <1>3, <1>4, ConstantsAssumption DEF PoolSizeBounded
<1>6. Mode = "ready"
  BY Zenon DEF Mode
<1>7. Contract!Cardinality(total) = Cardinality(total)
  BY DEF Contract!Cardinality, Cardinality
<1> QED BY <1>1, <1>2, <1>5, <1>6, <1>7 DEF Contract!MayJoin, Mode

LEMMA ContractInit == Init => Contract!Init
BY EmptyToSet DEF Init, Contract!Init

LEMMA ContractStep ==
  Inductive /\ [Next]_vars => [Contract!Next]_Visible
<1> SUFFICES ASSUME Inductive, [Next]_vars
             PROVE  Contract!Next \/ UNCHANGED Visible
  BY Zenon
<1> USE ConstantsAssumption
    DEF Inductive, TypeOK, poolVars, connVars, sockVars, CloseSockets, fiberVars,
        fillVars
<1>h. \A f \in Fibers : pc[f] \in {"connecting", "using"} =>
         held[f] \in Conns /\ held[f] # NoConn
  BY DEF Ownership
<1>l. ASSUME idle # <<>>
      PROVE  /\ Last(idle) \in Conns /\ Last(idle) \in ToSet(idle)
             /\ ToSet(Front(idle)) = ToSet(idle) \ {Last(idle)}
  BY <1>l, FrontLast DEF Ownership
<1>a. \A c \in Conns : ToSet(Append(idle, c)) = ToSet(idle) \cup {c}
  BY AppendNew
<1>e. ToSet(<<>>) = {}
  BY EmptyToSet
<1>m. UNCHANGED poolVars => Mode' = Mode
  BY DEF Mode
(* Steps of the pool that its users do not see.                            *)
<1>k. ASSUME UNCHANGED <<poolVars, idle, connGen>>,
             \A f \in Fibers : pc'[f] = "using" <=> pc[f] = "using",
             \A f \in Fibers : pc[f] = "using" => held'[f] = held[f]
      PROVE  UNCHANGED Visible
  <2>1. Lease' = Lease
    BY <1>k DEF Lease
  <2> QED BY <1>k, <2>1, <1>m DEF Visible
<1>c. ASSUME NEW f \in Fibers, Checkout(f) PROVE Contract!Next \/ UNCHANGED Visible
  <2>1. CASE \/ Enter(f) \/ BeginConnect(f) \/ ConnectRefused(f) \/ ConnectFails(f)
             \/ StartWait(f) \/ Park(f) \/ WaitTimeout(f) \/ Resume(f) \/ GiveUp(f)
    BY <2>1, <1>k DEF Enter, BeginConnect, ConnectRefused, ConnectFails, EndConnect,
       StartWait, Park, WaitTimeout, Resume, GiveUp, Awake
  <2>2. CASE PickIdle(f)
    <3>1. /\ Lease[f] = NoConn
          /\ Lease' = [Lease EXCEPT ![f] = Last(idle)]
      BY <2>2, <1>l DEF PickIdle, Lease
    <3>2. ~closed /\ ~paused /\ UNCHANGED <<closed, paused, generation, connGen>>
      BY <2>2 DEF PickIdle, LoopHasMutex
    <3>4. Mode = "ready" /\ Mode' = Mode
      BY <3>2, Zenon DEF Mode
    <3>5. ToSet(idle)' = ToSet(idle) \ {Last(idle)} /\ Last(idle) \in ToSet(idle)
      BY <2>2, <1>l DEF PickIdle
    <3>6. PICK c \in Conns : c = Last(idle)
      BY <2>2, <1>l DEF PickIdle
    <3>3. Contract!LeaseAvailable(f, c)
      BY <3>1, <3>2, <3>4, <3>5, <3>6 DEF Contract!LeaseAvailable, Lease, Mode
    <3> QED BY <3>3 DEF Contract!Next
  <2>3. CASE DiscardIdle(f)
    <3>1. Contract!Evict(Last(idle))
      BY <2>3, <1>l DEF DiscardIdle, Contract!Evict
    <3> QED BY <3>1, <2>3, <1>l DEF DiscardIdle, Contract!Next
  <2>4. CASE Established(f)
    <3>1. /\ Lease[f] = NoConn
          /\ Lease' = [Lease EXCEPT ![f] = held[f]]
      BY <2>4, <1>h DEF Established, Lease
    <3>2. Contract!MayJoin(held[f])
      BY <2>4, <1>h, HandshakeMayJoin DEF Established, InHandshake
    <3>4. UNCHANGED <<closed, paused, generation, idle>>
      BY <2>4 DEF Established
    <3>5. Mode' = Mode
      BY <3>4, Zenon DEF Mode
    <3>6. PICK c \in Conns : c = held[f]
      BY <2>4, <1>h DEF Established
    <3>3. Contract!LeaseNew(f, c)
      BY <3>1, <3>2, <3>4, <3>5, <3>6 DEF Contract!LeaseNew, Lease, Mode
    <3> QED BY <3>3 DEF Contract!Next
  <2> QED BY <1>c, <2>1, <2>2, <2>3, <2>4 DEF Checkout
<1>u. ASSUME NEW f \in Fibers, UseFails(f) PROVE UNCHANGED Visible
  BY <1>u, <1>k DEF UseFails
<1>r. ASSUME NEW f \in Fibers, Return(f) PROVE Contract!Next
  <2>1. CheckIn(f)
    BY <1>r DEF Return, ReleaseFresh, ReleaseToClosed, ReleaseUnusable, ReleaseToIdle,
                ReleaseExcess, Drop
  <2>2. /\ Lease[f] = held[f] /\ held[f] # NoConn /\ held[f] \in Conns
        /\ Lease' = [Lease EXCEPT ![f] = NoConn]
    BY <2>1, <1>h DEF CheckIn, Lease
  <2>3. CASE ReleaseToIdle(f)
    <3>1. connGen[held[f]] = generation /\ ~closed
      BY <2>3 DEF ReleaseToIdle, Stale
    <3>2. held[f] \in total
      BY <2>1, <3>1 DEF CheckIn, NoLeakedSlot, SlotsCounted, HeldBy, Users, LoopHasMutex
    <3>3. ~paused
      BY <3>1, <3>2 DEF Generations
    <3>4. Contract!GiveBack(f)
      BY <2>1, <2>2, <2>3, <3>1, <3>3, <1>a
         DEF ReleaseToIdle, CheckIn, Contract!GiveBack, Lease
    <3> QED BY <3>4 DEF Contract!Next
  <2>4. CASE ~ReleaseToIdle(f)
    <3>1. UNCHANGED idle
      BY <1>r, <2>4 DEF Return, ReleaseFresh, ReleaseToClosed, ReleaseUnusable, ReleaseExcess, Drop
    <3>2. Contract!GiveBack(f)
      BY <2>1, <2>2, <3>1 DEF CheckIn, Contract!GiveBack, Lease
    <3> QED BY <3>2 DEF Contract!Next
  <2> QED BY <2>3, <2>4
<1>p. ASSUME Populate PROVE Contract!Next \/ UNCHANGED Visible
  <2>1. CASE ~FillEstablished
    BY <1>p, <2>1, <1>k DEF Populate, StartMinSize, FillDone, FillBegins,
       FillRefused, FillFails, FillLoses, FillSignals, FillReportsError, FillEnds
  <2>2. CASE FillEstablished
    <3>1. fillConn \in Conns /\ InHandshake(fillConn)
      BY <2>2 DEF FillEstablished, InHandshake, Ownership
    <3>2. Contract!MayJoin(fillConn)
      BY <2>2, <3>1, HandshakeMayJoin DEF FillEstablished
    <3>3. Contract!Join(fillConn)
      BY <2>2, <3>1, <3>2, <1>a DEF FillEstablished, Contract!Join
    <3> QED BY <3>1, <3>3 DEF Contract!Next
  <2> QED BY <2>1, <2>2
<1>t. ASSUME MarkReady PROVE Contract!Next
  <2>1. Contract!Ready
    BY <1>t DEF MarkReady, Contract!Ready
  <2> QED BY <2>1 DEF Contract!Next
<1>x. ASSUME NEW b \in BOOLEAN, ClearPool(b) PROVE Contract!Next
  <2>1. Contract!Clear
    BY <1>x, <1>e DEF ClearPool, DestroyIdle, Contract!Clear
  <2> QED BY <2>1 DEF Contract!Next
<1>y. ASSUME CopySetups \/ \E c \in Conns : InterruptInUse(c) \/ InterruptSetup(c)
      PROVE  UNCHANGED Visible
  BY <1>y, <1>k DEF CopySetups, InterruptInUse, InterruptSetup
<1>z. ASSUME Close PROVE Contract!Next
  <2>1. Contract!Close
    BY <1>z, <1>e DEF Close, DestroyIdle, Contract!Close
  <2> QED BY <2>1 DEF Contract!Next
<1>d. ASSUME Drain PROVE UNCHANGED Visible
  <2>1. idle = <<>>
    BY <1>d DEF Drain, LoopHasMutex, IdleUsable
  <2>2. closed' = closed /\ paused' = paused
    BY <1>d DEF Drain
  <2>3. Mode' = Mode
    BY <2>2 DEF Mode
  <2>4. Lease' = Lease
    BY <1>d DEF Drain, Lease
  <2> QED BY <1>d, <2>1, <2>3, <2>4 DEF Drain, Visible
<1>s. ASSUME UNCHANGED vars PROVE UNCHANGED Visible
  BY <1>s, <1>k DEF vars
<1> QED
  BY <1>c, <1>u, <1>r, <1>p, <1>t, <1>x, <1>y, <1>z, <1>d, <1>s DEF Next

(* Users of the pool may rely on the contract: exclusive leases, at most   *)
(* maxPoolSize members, and nothing from before a clear handed out again.  *)
THEOREM PoolImplementsContract == Spec => ImplementsContract
<1>1. Visible = Contract!vars
  BY DEF Visible, Contract!vars, Mode, Lease
<1>2. Inductive /\ [Next]_vars => [Contract!Next]_Contract!vars
  BY ContractStep DEF Visible, Contract!vars, Mode, Lease
<1> QED
  BY <1>2, ContractInit, PoolInvariant, PTL
     DEF Spec, ImplementsContract, Contract!Spec
=============================================================================
