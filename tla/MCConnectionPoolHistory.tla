---------------------- MODULE MCConnectionPoolHistory ----------------------
(* Small instances of ConnectionPoolHistory for TLC. *)
EXTENDS ConnectionPoolHistory, TLC

Symmetry == Permutations(Fibers) \cup Permutations(Conns)
=============================================================================
