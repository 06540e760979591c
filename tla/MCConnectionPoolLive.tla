------------------------ MODULE MCConnectionPoolLive ------------------------
(***************************************************************************)
(* Two small pools for TLC, of which a behaviour follows one: the pool of  *)
(* the constants, and one with maxPoolSize 0, whose max_idle_pool_size is  *)
(* 0 too, so that every check-in is in excess.                             *)
(***************************************************************************)
EXTENDS ConnectionPool

VARIABLE unlimited

Unlimited == INSTANCE ConnectionPool WITH MaxPoolSize <- 0

InitLive == Init /\ unlimited \in BOOLEAN

NextLive ==
  /\ unlimited' = unlimited
  /\ IF unlimited THEN Unlimited!Next ELSE Next

(* Fairness of the pool that the behaviour follows.  Neither has a fill:  *)
(* Populate is never enabled.                                             *)
FairnessLive ==
  /\ \A f \in Fibers :
       /\ WF_vars(IF unlimited THEN Unlimited!Proceed(f) ELSE Proceed(f))
       /\ SF_vars(IF unlimited THEN Unlimited!Relock(f) ELSE Relock(f))
  /\ SF_vars(Drain)
  /\ WF_vars(\E c \in Conns : InterruptInUse(c))

SpecLive == InitLive /\ [][NextLive]_<<vars, unlimited>> /\ FairnessLive
=============================================================================
