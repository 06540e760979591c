--------------------------- MODULE ConnectionPool ---------------------------
(***************************************************************************)
(* Mongo::Connection::Pool (connection/connection_pool.cr): the pool of    *)
(* one server of a deployment that is not load balanced (serviceId nil).   *)
(*                                                                         *)
(* Fibers check connections out and back in; a background fiber, the       *)
(* filler, opens connections up to minPoolSize; application errors and the *)
(* monitor clear the pool; the monitor or a checkout marks it ready; the   *)
(* client closes it.  Everything under `sync` is one action, or one action *)
(* per iteration of checkout's loop with `lock` kept in between.  The      *)
(* mutex is released around a handshake and around a wait, and the program *)
(* is built both for one thread and for several (-Dpreview_mt              *)
(* -Dexecution_context): Parallel says which.                              *)
(***************************************************************************)
EXTENDS Naturals, FiniteSets, Sequences, SequencesExt

CONSTANTS
  Fibers,        \* fibers that run operations
  Conns,         \* identities of connections; one nobody refers to is new
  NoConn,        \* no connection
  NoOne,         \* the mutex is free
  Filler,        \* the fiber of populate_min
  MaxPoolSize,   \* maxPoolSize, and max_idle_pool_size; 0 is unlimited
  MaxConnecting, \* maxConnecting
  MinPoolSize,   \* minPoolSize
  IdleTimeout,   \* is maxIdleTimeMS set?
  Parallel,      \* do fibers run on several threads?
  MaxGeneration  \* bound: clears the model explores

ASSUME ConstantsAssumption ==
  /\ MaxPoolSize \in Nat
  /\ MaxConnecting \in Nat \ {0}
  /\ MinPoolSize \in Nat
  /\ IdleTimeout \in BOOLEAN
  /\ Parallel \in BOOLEAN
  /\ MaxGeneration \in Nat
  /\ IsFiniteSet(Conns)
  /\ IsFiniteSet(Fibers)
  /\ NoConn \notin Conns
  /\ NoOne \notin Fibers
  /\ Filler \notin Fibers \cup {NoOne}

VARIABLES
  paused, closed, drained,  \* @paused, @closed; has `drain` run?
  generation,               \* @generation
  total,                    \* @total
  idle,                     \* @idle, the last one is handed out first
  inUse,                    \* the keys of @in_use
  inflight,                 \* @inflight
  lock,                     \* who holds @mutex
  channelOpen,              \* is @availability_channel open?
  queue,                    \* fibers receiving from it, first come first served
  open,                     \* connections whose socket is not closed
  interrupted,              \* those among them that were shut down
  connGen,                  \* Connection#generation
  toInterrupt,              \* clear's result: sockets its caller will shut down
  copied,                   \* those of `open` that a clear found being set up
  pc, held, startGen, timedOut,  \* of each fiber
  starters,                 \* callers between mark_ready and start_min_size
  filler, fillConn          \* the fiber of populate_min, and what it opens

poolVars == <<paused, closed, drained, generation>>
sockVars == <<open, interrupted, copied>>
connVars == <<sockVars, connGen, toInterrupt>>
fiberVars == <<pc, held, startGen, timedOut>>
fillVars == <<starters, filler, fillConn>>
vars == <<poolVars, total, idle, inUse, inflight, lock, channelOpen, queue,
          connVars, fiberVars, fillVars>>

(* Definitions whose name has an underscore are variants of the one whose  *)
(* name they begin with, each with a plausible bug.  No specification uses *)
(* them: a property is tested by exchanging the two.                       *)

FiberStates ==
  {"outside", "loop", "connecting", "parking", "waiting", "using"}

FillerStates ==
  {"off", "check", "connecting", "signal", "signalError", "onError", "ending"}

Init ==
  /\ paused = TRUE /\ closed = FALSE /\ drained = FALSE
  /\ generation = 0
  /\ total = {} /\ idle = <<>> /\ inUse = {} /\ inflight = 0
  /\ lock = NoOne /\ channelOpen = TRUE /\ queue = <<>>
  /\ open = {} /\ interrupted = {} /\ toInterrupt = {} /\ copied = {}
  /\ connGen = [c \in Conns |-> 0]
  /\ pc = [f \in Fibers |-> "outside"]
  /\ held = [f \in Fibers |-> NoConn]
  /\ startGen = [f \in Fibers |-> 0]
  /\ timedOut = [f \in Fibers |-> FALSE]
  /\ starters = 0 /\ filler = "off" /\ fillConn = NoConn

-----------------------------------------------------------------------------
(* stale_unlocked? and the tests on the limits *)

Stale(c) == connGen[c] # generation

Expirable(c) == Stale(c) \/ IdleTimeout   \* elapsed time is any time

Dead(c) == c \notin open \/ c \in interrupted

CanCreate_IgnoresInflight ==
  /\ MaxPoolSize = 0 \/ Cardinality(total) < MaxPoolSize
  /\ inflight < MaxConnecting

CanCreate ==
  /\ MaxPoolSize = 0 \/ Cardinality(total) + inflight < MaxPoolSize
  /\ inflight < MaxConnecting

CanIncreaseIdle == Len(idle) < MaxPoolSize

FillTarget ==
  IF MaxPoolSize > 0 /\ MinPoolSize > MaxPoolSize THEN MaxPoolSize
                                                  ELSE MinPoolSize

Users == {f \in Fibers : pc[f] = "using"}
Handshaking == {f \in Fibers : pc[f] = "connecting"}
HeldBy(S) == {held[f] : f \in S}

(* take_connection_id gives a number never used before in this pool; here, *)
(* an identity that no variable refers to any more.                        *)
NewConns ==
  {c \in Conns : /\ c \notin open \cup total \cup toInterrupt
                 /\ c \notin ToSet(idle)
                 /\ \A f \in Fibers : held[f] # c
                 /\ c # fillConn}

(* signal_available: send to the first receiver, drop the signal if none. *)
Signalled == IF queue = <<>> THEN <<>> ELSE Tail(queue)

CloseSockets(S) ==
  /\ open' = open \ S
  /\ interrupted' = interrupted \ S
  /\ copied' = copied \ S

Forget(c) ==
  /\ total' = total \ {c}
  /\ inUse' = inUse \ {c}
  /\ CloseSockets({c})

-----------------------------------------------------------------------------
(* checkout *)

Enter(f) ==     \* on a closed or paused pool it raises and changes nothing
  /\ pc[f] = "outside" /\ lock = NoOne
  /\ ~closed /\ ~paused
  /\ lock' = f
  /\ pc' = [pc EXCEPT ![f] = "loop"]
  /\ startGen' = [startGen EXCEPT ![f] = generation]
  /\ UNCHANGED <<poolVars, total, idle, inUse, inflight, channelOpen, queue,
                 connVars, held, timedOut, fillVars>>

PickIdle_Peeks(f) ==    \* the connection stays among the idle ones
  /\ pc[f] = "loop" /\ idle # <<>>
  /\ ~Stale(Last(idle))
  /\ inUse' = inUse \cup {Last(idle)}
  /\ held' = [held EXCEPT ![f] = Last(idle)]
  /\ pc' = [pc EXCEPT ![f] = "using"]
  /\ lock' = NoOne
  /\ UNCHANGED <<poolVars, idle, total, inflight, channelOpen, queue, connVars,
                 startGen, timedOut, fillVars>>

PickIdle(f) ==
  /\ pc[f] = "loop" /\ idle # <<>>
  /\ ~Stale(Last(idle))
  /\ idle' = Front(idle)
  /\ inUse' = inUse \cup {Last(idle)}
  /\ held' = [held EXCEPT ![f] = Last(idle)]
  /\ pc' = [pc EXCEPT ![f] = "using"]
  /\ lock' = NoOne
  /\ UNCHANGED <<poolVars, total, inflight, channelOpen, queue, connVars,
                 startGen, timedOut, fillVars>>

DiscardIdle(f) ==
  /\ pc[f] = "loop" /\ idle # <<>>
  /\ Expirable(Last(idle))
  /\ idle' = Front(idle)
  /\ Forget(Last(idle))
  /\ queue' = Signalled
  /\ UNCHANGED <<poolVars, inflight, lock, channelOpen, connGen, toInterrupt,
                 fiberVars, fillVars>>

BeginConnect(f) ==
  /\ pc[f] = "loop" /\ idle = <<>> /\ CanCreate
  /\ \E c \in NewConns :
       /\ held' = [held EXCEPT ![f] = c]
       /\ open' = open \cup {c}
  /\ inflight' = inflight + 1
  /\ pc' = [pc EXCEPT ![f] = "connecting"]
  /\ lock' = NoOne
  /\ UNCHANGED <<poolVars, total, idle, inUse, channelOpen, queue, interrupted,
                 copied, connGen, toInterrupt, startGen, timedOut, fillVars>>

Established_WhilePaused(f) ==    \* no test after the handshake but `closed`
  /\ pc[f] = "connecting" /\ lock = NoOne /\ ~closed
  /\ connGen' = [connGen EXCEPT ![held[f]] = generation]
  /\ total' = total \cup {held[f]}
  /\ inUse' = inUse \cup {held[f]}
  /\ inflight' = inflight - 1
  /\ queue' = Signalled
  /\ pc' = [pc EXCEPT ![f] = "using"]
  /\ UNCHANGED <<poolVars, idle, lock, channelOpen, sockVars, toInterrupt,
                 held, startGen, timedOut, fillVars>>

Established(f) ==
  /\ pc[f] = "connecting" /\ lock = NoOne
  /\ ~closed /\ ~paused
  /\ connGen' = [connGen EXCEPT ![held[f]] = generation]
  /\ total' = total \cup {held[f]}
  /\ inUse' = inUse \cup {held[f]}
  /\ inflight' = inflight - 1
  /\ queue' = Signalled
  /\ pc' = [pc EXCEPT ![f] = "using"]
  /\ UNCHANGED <<poolVars, idle, lock, channelOpen, sockVars, toInterrupt,
                 held, startGen, timedOut, fillVars>>

EndConnect_CountedTwice(f) ==    \* by the rescue and by its caller
  /\ CloseSockets({held[f]})
  /\ held' = [held EXCEPT ![f] = NoConn]
  /\ inflight' = inflight - 2
  /\ queue' = Signalled
  /\ pc' = [pc EXCEPT ![f] = "outside"]
  /\ UNCHANGED <<poolVars, total, idle, inUse, lock, channelOpen, connGen,
                 toInterrupt, startGen, timedOut, fillVars>>

EndConnect_Silent(f) ==    \* no signal
  /\ CloseSockets({held[f]})
  /\ held' = [held EXCEPT ![f] = NoConn]
  /\ inflight' = inflight - 1
  /\ pc' = [pc EXCEPT ![f] = "outside"]
  /\ UNCHANGED queue
  /\ UNCHANGED <<poolVars, total, idle, inUse, lock, channelOpen, connGen,
                 toInterrupt, startGen, timedOut, fillVars>>

EndConnect_SocketLeft(f) ==    \* the socket stays open
  /\ held' = [held EXCEPT ![f] = NoConn]
  /\ inflight' = inflight - 1
  /\ queue' = Signalled
  /\ pc' = [pc EXCEPT ![f] = "outside"]
  /\ UNCHANGED <<poolVars, total, idle, inUse, lock, channelOpen, connVars,
                 startGen, timedOut, fillVars>>

(* The socket of a handshake that ends without a connection is closed. *)
EndConnect(f) ==
  /\ CloseSockets({held[f]})
  /\ held' = [held EXCEPT ![f] = NoConn]
  /\ inflight' = inflight - 1
  /\ queue' = Signalled
  /\ pc' = [pc EXCEPT ![f] = "outside"]
  /\ UNCHANGED <<poolVars, total, idle, inUse, lock, channelOpen, connGen,
                 toInterrupt, startGen, timedOut, fillVars>>

ConnectRefused(f) ==   \* the pool was closed or cleared during the handshake
  pc[f] = "connecting" /\ lock = NoOne /\ (closed \/ paused) /\ EndConnect(f)

ConnectFails(f) ==     \* the factory raises
  pc[f] = "connecting" /\ lock = NoOne /\ EndConnect(f)

(* The wait.  startGen[f] = generation holds here, so the first of the two *)
(* generation tests never raises.  A fiber of a single-threaded build is   *)
(* not switched out between unlocking the mutex and receiving.             *)
StartWait(f) ==
  /\ pc[f] = "loop" /\ idle = <<>> /\ ~CanCreate
  /\ pc' = [pc EXCEPT ![f] = "parking"]
  /\ timedOut' = [timedOut EXCEPT ![f] = FALSE]
  /\ lock' = IF Parallel THEN NoOne ELSE f
  /\ UNCHANGED <<poolVars, total, idle, inUse, inflight, channelOpen, queue,
                 connVars, held, startGen, fillVars>>

Park(f) ==
  /\ pc[f] = "parking"
  /\ pc' = [pc EXCEPT ![f] = "waiting"]
  /\ queue' = IF channelOpen THEN Append(queue, f) ELSE queue
  /\ lock' = IF lock = f THEN NoOne ELSE lock
  /\ UNCHANGED <<poolVars, total, idle, inUse, inflight, channelOpen,
                 connVars, held, startGen, timedOut, fillVars>>

WaitTimeout(f) ==
  /\ \E i \in DOMAIN queue : queue[i] = f /\ queue' = RemoveAt(queue, i)
  /\ timedOut' = [timedOut EXCEPT ![f] = TRUE]
  /\ UNCHANGED <<poolVars, total, idle, inUse, inflight, lock, channelOpen,
                 connVars, pc, held, startGen, fillVars>>

Awake(f) == pc[f] = "waiting" /\ f \notin ToSet(queue)

MayRetry_AnyGeneration(f) == ~closed /\ ~paused /\ ~timedOut[f]

MayRetry(f) ==
  ~closed /\ ~paused /\ generation = startGen[f] /\ ~timedOut[f]

Resume(f) ==
  /\ Awake(f) /\ lock = NoOne /\ MayRetry(f)
  /\ pc' = [pc EXCEPT ![f] = "loop"]
  /\ lock' = f
  /\ UNCHANGED <<poolVars, total, idle, inUse, inflight, channelOpen, queue,
                 connVars, held, startGen, timedOut, fillVars>>

GiveUp(f) ==    \* PoolClosed, PoolCleared or the wait-queue timeout
  /\ Awake(f) /\ lock = NoOne /\ ~MayRetry(f)
  /\ pc' = [pc EXCEPT ![f] = "outside"]
  /\ UNCHANGED <<poolVars, total, idle, inUse, inflight, lock, channelOpen,
                 queue, connVars, held, startGen, timedOut, fillVars>>

-----------------------------------------------------------------------------
(* check-in.  A connection in use is not in `idle`, so `remove` changes no *)
(* more than Forget does.                                                  *)

UseFails(f) ==    \* the operation closes the socket it was using
  /\ pc[f] = "using" /\ held[f] \in open
  /\ CloseSockets({held[f]})
  /\ UNCHANGED <<poolVars, total, idle, inUse, inflight, lock, channelOpen,
                 queue, connGen, toInterrupt, fiberVars, fillVars>>

CheckIn(f) ==
  /\ pc[f] = "using" /\ lock = NoOne
  /\ pc' = [pc EXCEPT ![f] = "outside"]
  /\ held' = [held EXCEPT ![f] = NoConn]
  /\ UNCHANGED <<poolVars, inflight, lock, channelOpen, connGen, toInterrupt,
                 startGen, timedOut, fillVars>>

ReleaseToClosed(f) ==
  /\ CheckIn(f)
  /\ closed
  /\ Forget(held[f])
  /\ UNCHANGED <<idle, queue>>

ReleaseUnusable(f) ==
  /\ CheckIn(f)
  /\ ~closed /\ (Dead(held[f]) \/ Stale(held[f]))
  /\ Forget(held[f])
  /\ queue' = Signalled
  /\ UNCHANGED idle

ReleaseToIdle_Stale(f) ==    \* no test of the generation
  /\ CheckIn(f)
  /\ ~closed /\ ~Dead(held[f])
  /\ inUse' = inUse \ {held[f]}
  /\ idle' = Append(idle, held[f])
  /\ queue' = Signalled
  /\ UNCHANGED <<total, sockVars>>

ReleaseToIdle(f) ==
  /\ CheckIn(f)
  /\ ~closed /\ ~Dead(held[f]) /\ ~Stale(held[f])
  /\ inUse' = inUse \ {held[f]}
  /\ idle' = Append(idle, held[f])
  /\ queue' = Signalled
  /\ UNCHANGED <<total, sockVars>>

ReleaseExcess(f) ==    \* no signal, although a slot is free again
  /\ CheckIn(f)
  /\ ~closed /\ ~Dead(held[f]) /\ ~Stale(held[f])
  /\ Forget(held[f])
  /\ UNCHANGED <<idle, queue>>

ReleaseFresh(f) ==
  IF CanIncreaseIdle THEN ReleaseToIdle(f) ELSE ReleaseExcess(f)

Drop(f) ==
  /\ CheckIn(f) /\ Forget(held[f])
  /\ queue' = Signalled
  /\ UNCHANGED idle

-----------------------------------------------------------------------------
(* mark_ready, start_min_size and populate_min *)

(* Without a minPoolSize start_min_size returns at once.                   *)
MarkReady ==
  /\ lock = NoOne /\ ~closed /\ paused
  /\ paused' = FALSE
  /\ starters' = IF MinPoolSize = 0 THEN starters ELSE starters + 1
  /\ UNCHANGED <<closed, drained, generation, total, idle, inUse, inflight,
                 lock, channelOpen, queue, connVars, fiberVars, filler,
                 fillConn>>

StartMinSize ==
  /\ starters > 0 /\ lock = NoOne
  /\ starters' = starters - 1
  /\ filler' = IF MinPoolSize = 0 \/ closed \/ paused \/ filler # "off"
                  THEN filler ELSE "check"
  /\ UNCHANGED <<poolVars, total, idle, inUse, inflight, lock, channelOpen,
                 queue, connVars, fiberVars, fillConn>>

FillStops ==
  \/ closed
  \/ paused
  \/ Cardinality(total) + inflight >= FillTarget
  \/ ~CanCreate

FillDone ==
  /\ filler = "check" /\ lock = NoOne /\ FillStops
  /\ filler' = "ending"
  /\ UNCHANGED <<poolVars, total, idle, inUse, inflight, lock, channelOpen,
                 queue, connVars, fiberVars, starters, fillConn>>

FillBegins ==
  /\ filler = "check" /\ lock = NoOne /\ ~FillStops
  /\ filler' = "connecting"
  /\ inflight' = inflight + 1
  /\ \E c \in NewConns :
       /\ fillConn' = c
       /\ open' = open \cup {c}
  /\ UNCHANGED <<poolVars, total, idle, inUse, lock, channelOpen, queue,
                 interrupted, copied, connGen, toInterrupt, fiberVars, starters>>

(* populate_min unlocks before it signals; see StartWait for Parallel. *)
FillUnlocks == lock' = IF Parallel THEN NoOne ELSE Filler

FillEstablished ==
  /\ filler = "connecting" /\ lock = NoOne
  /\ ~closed /\ ~paused
  /\ connGen' = [connGen EXCEPT ![fillConn] = generation]
  /\ total' = total \cup {fillConn}
  /\ idle' = Append(idle, fillConn)
  /\ inflight' = inflight - 1
  /\ fillConn' = NoConn
  /\ filler' = "signal"
  /\ FillUnlocks
  /\ UNCHANGED <<poolVars, inUse, channelOpen, queue, sockVars, toInterrupt,
                 fiberVars, starters>>

FillLoses_StillCounted(next) ==    \* no decrement of @inflight
  /\ filler = "connecting" /\ lock = NoOne
  /\ CloseSockets({fillConn})
  /\ fillConn' = NoConn
  /\ filler' = next
  /\ FillUnlocks
  /\ UNCHANGED <<poolVars, total, idle, inUse, inflight, channelOpen, queue,
                 connGen, toInterrupt, fiberVars, starters>>

FillLoses(next) ==    \* the handshake ends without a connection
  /\ filler = "connecting" /\ lock = NoOne
  /\ inflight' = inflight - 1
  /\ CloseSockets({fillConn})
  /\ fillConn' = NoConn
  /\ filler' = next
  /\ FillUnlocks
  /\ UNCHANGED <<poolVars, total, idle, inUse, channelOpen, queue, connGen,
                 toInterrupt, fiberVars, starters>>

FillRefused == (closed \/ paused) /\ FillLoses("signal")

FillFails == FillLoses("signalError")

FillSignals ==
  /\ filler \in {"signal", "signalError"}
  /\ queue' = Signalled
  /\ filler' = IF filler = "signal" THEN "check" ELSE "onError"
  /\ lock' = IF lock = Filler THEN NoOne ELSE lock
  /\ UNCHANGED <<poolVars, total, idle, inUse, inflight, channelOpen, connVars,
                 fiberVars, starters, fillConn>>

FillReportsError ==   \* on_error; the clear it may cause is a ClearPool
  /\ filler = "onError"
  /\ filler' = "ending"
  /\ UNCHANGED <<poolVars, total, idle, inUse, inflight, lock, channelOpen,
                 queue, connVars, fiberVars, starters, fillConn>>

FillEnds ==
  /\ filler = "ending" /\ lock = NoOne
  /\ filler' = "off"
  /\ UNCHANGED <<poolVars, total, idle, inUse, inflight, lock, channelOpen,
                 queue, connVars, fiberVars, starters, fillConn>>

-----------------------------------------------------------------------------
(* clear, close and drain *)

DestroyIdle_StillCounted ==
  CloseSockets(ToSet(idle)) /\ idle' = <<>> /\ UNCHANGED total

DestroyIdle ==
  /\ CloseSockets(ToSet(idle))
  /\ total' = total \ ToSet(idle)
  /\ idle' = <<>>

ClearPool_SameGeneration(interrupt) ==
  /\ lock = NoOne
  /\ paused' = TRUE
  /\ toInterrupt' = IF interrupt THEN toInterrupt \cup (total \cap inUse)
                                 ELSE toInterrupt
  /\ DestroyIdle
  /\ queue' = <<>>
  /\ channelOpen' = TRUE
  /\ UNCHANGED <<closed, drained, generation, inUse, inflight, lock, connGen,
                 fiberVars, fillVars>>

ClearPool_WakesNobody(interrupt) ==
  /\ lock = NoOne /\ generation < MaxGeneration
  /\ generation' = generation + 1
  /\ paused' = TRUE
  /\ toInterrupt' = IF interrupt THEN toInterrupt \cup (total \cap inUse)
                                 ELSE toInterrupt
  /\ DestroyIdle
  /\ UNCHANGED <<closed, drained, inUse, inflight, lock, connGen, queue,
                 channelOpen, fiberVars, fillVars>>

(* A clear replaces and closes the channel: every receiver wakes up, and a *)
(* closed pool has an open channel again.                                  *)
ClearPool(interrupt) ==
  /\ lock = NoOne /\ generation < MaxGeneration
  /\ generation' = generation + 1
  /\ paused' = TRUE
  /\ toInterrupt' = IF interrupt
                      THEN toInterrupt \cup
                             {c \in total \cap inUse : connGen[c] <= generation}
                      ELSE toInterrupt
  /\ DestroyIdle
  /\ queue' = <<>>
  /\ channelOpen' = TRUE
  /\ UNCHANGED <<closed, drained, inUse, inflight, lock, connGen, fiberVars,
                 fillVars>>

InterruptInUse(c) ==
  /\ c \in toInterrupt
  /\ toInterrupt' = toInterrupt \ {c}
  /\ interrupted' = interrupted \cup ({c} \cap open)
  /\ UNCHANGED <<poolVars, total, idle, inUse, inflight, lock, channelOpen,
                 queue, open, connGen, copied, fiberVars, fillVars>>

BeingSetUp == (HeldBy(Handshaking) \cup {fillConn}) \ {NoConn}

(* interrupt_pending_setup.  After the pool's clear, without its mutex, a  *)
(* clear that interrupts copies @pending_setup, which is the client's and  *)
(* holds the setups of every server: the clear may be that of another pool *)
(* and comes at any time.  A connection is listed from the opening of its  *)
(* socket (or until another server's connection of the same number ends    *)
(* its setup) to its last reply, within the time it is being set up.       *)
CopySetups ==
  /\ \E found \in SUBSET BeingSetUp \ {{}} : copied' = copied \cup found
  /\ UNCHANGED <<poolVars, total, idle, inUse, inflight, lock, channelOpen,
                 queue, open, interrupted, connGen, toInterrupt, fiberVars,
                 fillVars>>

(* The copied connections are shut down later, one by one, whatever has    *)
(* become of them: counted, idle or in use.  Nothing is left to shut down  *)
(* on a closed socket.                                                     *)
InterruptSetup(c) ==
  /\ c \in copied \ interrupted
  /\ interrupted' = interrupted \cup {c}
  /\ UNCHANGED <<poolVars, total, idle, inUse, inflight, lock, channelOpen,
                 queue, open, connGen, toInterrupt, copied, fiberVars, fillVars>>

Close ==
  /\ lock = NoOne /\ ~closed
  /\ closed' = TRUE /\ paused' = TRUE
  /\ channelOpen' = FALSE
  /\ queue' = <<>>
  /\ DestroyIdle
  /\ UNCHANGED <<drained, generation, inUse, inflight, lock, connGen,
                 toInterrupt, fiberVars, fillVars>>

Drain ==    \* the client drains every pool it closes
  /\ lock = NoOne /\ closed /\ ~drained
  /\ drained' = TRUE
  /\ CloseSockets(total)
  /\ total' = {} /\ idle' = <<>> /\ inUse' = {}
  /\ UNCHANGED <<paused, closed, generation, inflight, lock, channelOpen,
                 queue, connGen, toInterrupt, fiberVars, fillVars>>

-----------------------------------------------------------------------------
Checkout(f) ==
  \/ Enter(f) \/ PickIdle(f) \/ DiscardIdle(f)
  \/ BeginConnect(f) \/ Established(f) \/ ConnectRefused(f) \/ ConnectFails(f)
  \/ StartWait(f) \/ Park(f) \/ WaitTimeout(f) \/ Resume(f) \/ GiveUp(f)

Return(f) ==
  \/ ReleaseToClosed(f) \/ ReleaseUnusable(f) \/ ReleaseFresh(f) \/ Drop(f)

Populate ==
  \/ StartMinSize \/ FillDone \/ FillBegins \/ FillEstablished \/ FillRefused
  \/ FillFails \/ FillSignals \/ FillReportsError \/ FillEnds

Next ==
  \/ \E f \in Fibers : Checkout(f) \/ UseFails(f) \/ Return(f)
  \/ MarkReady \/ Populate
  \/ \E interrupt \in BOOLEAN : ClearPool(interrupt)
  \/ CopySetups
  \/ \E c \in Conns : InterruptInUse(c) \/ InterruptSetup(c)
  \/ Close \/ Drain

Spec == Init /\ [][Next]_vars

-----------------------------------------------------------------------------
(* What the pool guarantees. *)

TypeOK ==
  /\ paused \in BOOLEAN /\ closed \in BOOLEAN /\ drained \in BOOLEAN
  /\ generation \in Nat
  /\ total \subseteq Conns /\ inUse \subseteq Conns /\ open \subseteq Conns
  /\ interrupted \subseteq open /\ copied \subseteq open
  /\ toInterrupt \subseteq Conns
  /\ idle \in Seq(Conns) /\ queue \in Seq(Fibers)
  /\ inflight \in Nat /\ starters \in Nat
  /\ lock \in Fibers \cup {Filler, NoOne}
  /\ channelOpen \in BOOLEAN
  /\ connGen \in [Conns -> Nat]
  /\ pc \in [Fibers -> FiberStates]
  /\ held \in [Fibers -> Conns \cup {NoConn}]
  /\ startGen \in [Fibers -> Nat]
  /\ timedOut \in [Fibers -> BOOLEAN]
  /\ filler \in FillerStates
  /\ fillConn \in Conns \cup {NoConn}

(* The pool never has more sockets, established or being established, than *)
(* maxPoolSize: checkout tests the limit, unlocks for a handshake, and     *)
(* counts the connection only when it has locked again.                    *)
PoolSizeBounded ==
  MaxPoolSize > 0 => Cardinality(total) + inflight <= MaxPoolSize

(* @inflight is the number of handshakes under way, never above            *)
(* maxConnecting, on every way a handshake can end.                        *)
ConnectingBounded ==
  /\ inflight <= MaxConnecting
  /\ inflight = Cardinality(Handshaking) + IF filler = "connecting" THEN 1 ELSE 0

(* A connection has one owner: two fibers never use the same socket, and   *)
(* none is used while it is idle.                                          *)
OneOwner ==
  /\ \A f, g \in Users : held[f] = held[g] => f = g
  /\ \A f \in Users : held[f] \notin ToSet(idle)
  /\ \A i, j \in DOMAIN idle : idle[i] = idle[j] => i = j

SlotsCounted ==
  IF drained THEN total = {} /\ inUse = {}
             ELSE /\ total = ToSet(idle) \cup HeldBy(Users)
                  /\ inUse = HeldBy(Users)

SocketsOwned == open \subseteq total \cup BeingSetUp

(* No slot leaks: until the client has drained the pool, every connection  *)
(* it counts is idle or used by a fiber that will check it in, and @in_use *)
(* lists exactly the latter.  No socket leaks: an open one is counted, or  *)
(* its handshake is still to end.                                          *)
NoLeakedSlot == SlotsCounted /\ SocketsOwned

(* Connections whose socket was shut down because a clear found them in    *)
(* use, and for no other reason: no clear, of this or of another pool,     *)
(* found them being set up.                                                *)
ShutInUse == interrupted \ copied

(* What is idle is open and of the current generation, and a pool that is  *)
(* paused or closed has nothing idle, even after check-ins that raced with *)
(* the clear.  Its socket may be shut down, but only by a clear that found *)
(* it being set up: neither checkout nor the fill looks at that again.     *)
IdleUsable ==
  /\ \A c \in ToSet(idle) : c \in open \ ShutInUse /\ ~Stale(c)
  /\ paused => idle = <<>>

(* The connections that a clear finds in use and shuts down are never      *)
(* handed out again, however late its caller does it: while counted they   *)
(* are stale, and so is every counted connection with a shut socket but    *)
(* those that a clear found being set up.                                  *)
InterruptsOnlyStale ==
  \A c \in (toInterrupt \cup ShutInUse) \cap total : connGen[c] < generation

(* checkout hands out a connection only from a ready pool, of the current  *)
(* generation and with an open socket, which no clear has shut down unless *)
(* it found the connection being set up.                                   *)
FreshHandOut ==
  [][\A f \in Fibers : pc[f] # "using" /\ pc'[f] = "using" =>
        /\ ~closed /\ ~paused
        /\ (held[f] \in open \ ShutInUse)' /\ ~Stale(held[f])']_vars

(* A fiber that was waiting when the pool was cleared is never served by   *)
(* that checkout, not even when the pool is ready again before it runs.    *)
ClearedWaiterNotServed ==
  [][\A f \in Fibers : pc[f] \in {"parking", "waiting"} /\ startGen[f] # generation
        => pc'[f] \in {"parking", "waiting", "outside"}]_vars

(* A closed pool stays closed and paused, and once drained nothing is      *)
(* counted in it again, whatever handshake or check-in is still to end.    *)
ClosedForGood ==
  [][closed => closed' /\ paused' /\ total' \subseteq total]_vars

(* Nobody sleeps beside a free connection or a free slot: some fiber is    *)
(* awake to take it.                                                       *)
NoSleeperBesideFreeSlot ==
  queue # <<>> /\ ~paused /\ (idle # <<>> \/ CanCreate) =>
    \/ \E f \in Fibers : pc[f] = "loop" \/ (Awake(f) /\ ~timedOut[f])
    \/ filler \in {"signal", "signalError"}

(* No fiber is asleep on behalf of a generation that was cleared.          *)
NoSleeperOnClearedPool ==
  \A f \in Fibers : f \in ToSet(queue) => startGen[f] = generation

-----------------------------------------------------------------------------
(* The inductive invariant from which the safety properties follow.        *)

(* A fiber is in checkout's loop only with the mutex, in a ready pool.     *)
LoopHasMutex ==
  /\ \A f \in Fibers : pc[f] = "loop" => lock = f /\ ~closed /\ ~paused
  /\ closed => paused
  /\ drained => closed

(* Who refers to which connection, and what is counted.                    *)
Ownership ==
  /\ \A f \in Fibers : held[f] # NoConn <=> pc[f] \in {"connecting", "using"}
  /\ \A f, g \in Fibers : held[f] = held[g] /\ held[f] # NoConn => f = g
  /\ \A f \in Fibers : held[f] # NoConn => held[f] \notin ToSet(idle)
  /\ \A i, j \in DOMAIN idle : idle[i] = idle[j] => i = j
  /\ fillConn # NoConn <=> filler = "connecting"
  /\ \A f \in Fibers : fillConn # NoConn => held[f] # fillConn
  /\ fillConn \notin ToSet(idle)

(* A connection that is being set up has an open socket and is not in the  *)
(* books of the pool, where a clear looks for what is in use.  Only        *)
(* interrupt_pending_setup can have found it and shut its socket down.     *)
HandshakeUncounted ==
  \A c \in BeingSetUp :
    c \in open /\ c \notin total \cup inUse \cup toInterrupt \cup ShutInUse

(* Connections of a pool that is paused but not closed are stale.          *)
Generations ==
  /\ \A c \in total : connGen[c] <= generation
  /\ paused /\ ~closed => \A c \in total : connGen[c] < generation

Inductive ==
  /\ TypeOK /\ LoopHasMutex /\ Ownership /\ NoLeakedSlot
  /\ HandshakeUncounted /\ Generations /\ InterruptsOnlyStale /\ IdleUsable
  /\ ConnectingBounded /\ PoolSizeBounded

(* On one thread a fiber keeps the mutex until it receives, so nobody      *)
(* sleeps, or is about to, on behalf of a generation that was cleared.     *)
SleepersCurrent ==
  /\ \A f \in Fibers : pc[f] = "parking" => lock = f
  /\ \A f \in Fibers : pc[f] \in {"loop", "parking"} => startGen[f] = generation
  /\ \A f \in ToSet(queue) : pc[f] = "waiting" /\ startGen[f] = generation

(* Fibers that will look at what is free: each carries a signal.           *)
Runners ==
  {f \in Fibers :
     \/ pc[f] = "loop"
     \/ Awake(f) /\ ~timedOut[f] /\ startGen[f] = generation}

(* On one thread and without a fill, who is about to sleep has found       *)
(* nothing free, and nobody sleeps on a paused pool.                       *)
QuietQueue ==
  /\ filler = "off"
  /\ \A f \in Fibers :
       pc[f] = "parking" => idle = <<>> /\ ~CanCreate /\ ~paused /\ ~timedOut[f]
  /\ paused => queue = <<>>
  /\ \A i, j \in DOMAIN queue : queue[i] = queue[j] => i = j
  /\ \A f \in ToSet(queue) : ~timedOut[f]

(* As many runners as idle connections and free slots, where a slot is     *)
(* free as far as both limits allow.                                       *)
EnoughRunners ==
  \/ Len(idle) + MaxConnecting <= Cardinality(Runners) + inflight
  \/ /\ MaxPoolSize > 0
     /\ Len(idle) + MaxPoolSize
          <= Cardinality(Runners) + Cardinality(total) + inflight

SignalsKept == QuietQueue /\ (queue # <<>> => EnoughRunners)

-----------------------------------------------------------------------------
(* Scheduling.  The mutex is fair to fibers that keep asking for it, a     *)
(* handshake ends (connectTimeoutMS), a timer fires, an operation checks   *)
(* its connection in, the client drains what it closes, and the caller of  *)
(* clear shuts down what it was told to.                                   *)

(* A fiber does one of these at a time, so one condition stands for each.  *)
Proceed(f) ==
  \/ PickIdle(f) \/ DiscardIdle(f) \/ BeginConnect(f) \/ StartWait(f)
  \/ Park(f) \/ WaitTimeout(f)

Relock(f) ==
  \/ Established(f) \/ ConnectRefused(f) \/ ConnectFails(f)
  \/ Resume(f) \/ GiveUp(f) \/ Return(f)

Fairness ==
  /\ \A f \in Fibers : WF_vars(Proceed(f)) /\ SF_vars(Relock(f))
  /\ SF_vars(Populate)
  /\ SF_vars(Drain)
  /\ WF_vars(\E c \in Conns : InterruptInUse(c))

FairSpec == Spec /\ Fairness

(* Closing the client leaves no fiber blocked in a checkout and no socket  *)
(* open, also when a handshake was under way.                              *)
CloseReleasesAll ==
  closed ~> open = {} /\ \A f \in Fibers : pc[f] = "outside"

(* A fiber whose wait a clear made pointless leaves its checkout.          *)
ClearedWaiterLeaves ==
  \A f \in Fibers :
    (pc[f] = "waiting" /\ startGen[f] # generation) ~> pc[f] = "outside"

(* Every socket opened before a clear is closed in the end.                *)
ClearedSocketsClose ==
  \A c \in Conns : (c \in total /\ Stale(c)) ~> c \notin open \/ ~Stale(c)
=============================================================================
