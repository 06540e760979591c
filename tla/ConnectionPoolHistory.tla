----------------------- MODULE ConnectionPoolHistory ------------------------
(***************************************************************************)
(* ConnectionPool with a history variable: the generation of the pool when *)
(* the handshake of a connection began.  It is a function of the pool's    *)
(* steps and restricts none of them.                                       *)
(***************************************************************************)
EXTENDS ConnectionPool

VARIABLE begun

InitHistory == Init /\ begun = [c \in Conns |-> 0]

NextHistory ==
  /\ Next
  /\ begun' = [c \in Conns |-> IF c \in open' \ open THEN generation ELSE begun[c]]

SpecHistory == InitHistory /\ [][NextHistory]_<<vars, begun>>

(* The generation of a connection is the pool's at its handshake, so that  *)
(* a clear during the handshake makes the connection stale.                *)
GenerationOfHandshake == \A c \in total : connGen[c] = begun[c]
=============================================================================
