---------------------- MODULE ConnectionPoolRefinement ----------------------
(* ConnectionPool implements PoolContract.                                 *)
EXTENDS ConnectionPool

Contract == INSTANCE PoolContract WITH
  Limit <- MaxPoolSize,
  mode <- IF closed THEN "closed" ELSE IF paused THEN "cleared" ELSE "ready",
  epoch <- generation,
  lease <- [f \in Fibers |-> IF pc[f] = "using" THEN held[f] ELSE NoConn],
  available <- ToSet(idle),
  joined <- connGen

(* Every behaviour of the pool, with its handshakes, waits and late        *)
(* check-ins, is one that its users may rely on.                           *)
ImplementsContract == Contract!Spec
=============================================================================
