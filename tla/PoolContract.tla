---------------------------- MODULE PoolContract ----------------------------
(***************************************************************************)
(* What users of a connection pool rely on, without mutex, waits,          *)
(* handshakes or sockets: connections are leased to fibers, one fiber at a *)
(* time; they join the pool while it is ready, at most Limit of them; and  *)
(* a clear ends the epoch, after which no connection that joined before    *)
(* it becomes available again.                                             *)
(***************************************************************************)
EXTENDS Naturals, FiniteSets

CONSTANTS Fibers, Conns, NoConn, Limit   \* a Limit of 0 is no limit

VARIABLES
  mode,        \* "cleared", "ready" or "closed"
  epoch,       \* counts clears
  lease,       \* the connection each fiber has, or NoConn
  available,   \* connections that can be leased
  joined       \* the epoch in which a connection joined

vars == <<mode, epoch, lease, available, joined>>

Leased == {lease[f] : f \in Fibers} \ {NoConn}
Members == available \cup Leased

Init ==
  /\ mode = "cleared" /\ epoch = 0 /\ available = {}
  /\ lease = [f \in Fibers |-> NoConn]
  /\ joined = [c \in Conns |-> 0]

Ready ==
  /\ mode = "cleared" /\ mode' = "ready"
  /\ UNCHANGED <<epoch, lease, available, joined>>

Clear ==
  /\ mode' = IF mode = "closed" THEN "closed" ELSE "cleared"
  /\ epoch' = epoch + 1
  /\ available' = {}
  /\ UNCHANGED <<lease, joined>>

Close ==
  /\ mode' = "closed" /\ available' = {}
  /\ UNCHANGED <<epoch, lease, joined>>

MayJoin(c) ==
  /\ mode = "ready" /\ c \notin Members
  /\ Limit > 0 => Cardinality(Members) < Limit
  /\ joined' = [joined EXCEPT ![c] = epoch]

Join(c) ==
  /\ MayJoin(c)
  /\ available' = available \cup {c}
  /\ UNCHANGED <<mode, epoch, lease>>

LeaseNew(f, c) ==
  /\ lease[f] = NoConn /\ MayJoin(c)
  /\ lease' = [lease EXCEPT ![f] = c]
  /\ UNCHANGED <<mode, epoch, available>>

LeaseAvailable(f, c) ==
  /\ mode = "ready" /\ lease[f] = NoConn /\ c \in available
  /\ available' = available \ {c}
  /\ lease' = [lease EXCEPT ![f] = c]
  /\ UNCHANGED <<mode, epoch, joined>>

Evict(c) ==
  /\ available' = available \ {c}
  /\ UNCHANGED <<mode, epoch, lease, joined>>

(* A connection that comes back is available again, or gone.               *)
GiveBack(f) ==
  /\ lease[f] # NoConn
  /\ lease' = [lease EXCEPT ![f] = NoConn]
  /\ \/ UNCHANGED available
     \/ /\ mode = "ready" /\ joined[lease[f]] = epoch
        /\ available' = available \cup {lease[f]}
  /\ UNCHANGED <<mode, epoch, joined>>

Next ==
  \/ Ready \/ Clear \/ Close
  \/ \E c \in Conns : Join(c) \/ Evict(c)
  \/ \E f \in Fibers : GiveBack(f) \/ \E c \in Conns : LeaseNew(f, c) \/ LeaseAvailable(f, c)

Spec == Init /\ [][Next]_vars
=============================================================================
