-------------------------- MODULE MCConnectionPool --------------------------
(* Small instances of ConnectionPool, and of its refinement, for TLC. *)
EXTENDS ConnectionPoolRefinement, TLC

Symmetry == Permutations(Fibers) \cup Permutations(Conns)
=============================================================================
