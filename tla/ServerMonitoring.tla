-------------------------- MODULE ServerMonitoring --------------------------
(***************************************************************************)
(* One server as its client sees it: its description, its monitor, its     *)
(* pool, and the fibers that select it and use its connections. Each has a *)
(* lock of its own, or none, and they tell each other what happened over   *)
(* two channels with room for one token: the monitor is asked for a scan,  *)
(* and everybody who waits is told that the topology changed.              *)
(*                                                                         *)
(* The server carries data in a topology whose Unknown servers are not     *)
(* selected, and sends no topologyVersion with its errors. What the pool   *)
(* does inside, the rules of the topology and Client#close have modules of *)
(* their own; of the pool there is here whether it is ready, whether it    *)
(* was ever cleared, and how many connections are idle.                    *)
(***************************************************************************)
EXTENDS Naturals, FiniteSets, SequencesExt

CONSTANTS
  Fiber,     \* of the application
  MaxFaults  \* bound: outages and errors that change something there may be

ASSUME FiberAssumption == IsFiniteSet(Fiber)
ASSUME MaxFaultsAssumption == MaxFaults \in Nat

\* Where a fiber may be: waiting for news in "asleep" and "resting", out of
\* selection and checkout in "outside".
Places == {"outside", "select", "asked", "recheck", "asleep", "selected", "take",
           "nudged", "resting", "hello", "publish", "join", "use", "tell",
           "cancel"}

VARIABLES
  up, faults,   \* the server, and what may still happen to it
  known,        \* its description in the topology is not Unknown
  replaced,     \* during a check: it is another object than at the start
  news,         \* a token is in Client@topology_update
  waiting,      \* the fibers that receive from it, in their order
  pool,         \* Client@pools of its address
  pc, fresh,    \* a fiber, and whether what it holds is of this generation
  monitor,      \* Monitor#scan
  requested, token,  \* Monitor@scan_requested and a token in @resume_scan
  owed          \* a scan was asked for and none has begun since

serverVars == <<up, faults>>
topologyVars == <<known, replaced>>
newsVars == <<news, waiting>>
fiberVars == <<pc, fresh>>
requestVars == <<requested, token, owed>>
vars == <<serverVars, topologyVars, newsVars, pool, fiberVars, monitor,
          requestVars>>

\* Monitor#scan between two checks: nothing is left of the last.
To(place) == [at |-> place, previous |-> FALSE, answer |-> FALSE, cut |-> FALSE,
              retryNow |-> FALSE]
At(place) == monitor.at = place

Init ==
  /\ up \in BOOLEAN /\ faults = MaxFaults
  /\ known = FALSE /\ replaced = FALSE
  /\ news = FALSE /\ waiting = <<>>
  /\ pool = [ready |-> FALSE, cleared |-> FALSE, idle |-> 0]
  /\ pc = [f \in Fiber |-> "outside"] /\ fresh = [f \in Fiber |-> FALSE]
  /\ monitor = To("top")
  /\ requested = FALSE /\ token = FALSE /\ owed = FALSE

-----------------------------------------------------------------------------
(* The server *)

Fault == faults > 0 /\ faults' = faults - 1

Crash ==
  /\ up /\ Fault /\ up' = FALSE
  /\ UNCHANGED <<topologyVars, newsVars, pool, fiberVars, monitor,
                 requestVars>>

Recover ==
  /\ ~up /\ up' = TRUE
  /\ UNCHANGED <<faults, topologyVars, newsVars, pool, fiberVars,
                 monitor, requestVars>>

\* A message to it is lost, with it or without.
Unanswered == (IF up THEN Fault ELSE UNCHANGED faults) /\ UNCHANGED up

\* It answers with an error, which counts as a fault if the client heeds it.
Counts(heeded) == (IF heeded THEN Fault ELSE UNCHANGED faults) /\ UNCHANGED up

-----------------------------------------------------------------------------
(* What the fibers and the monitor do to each other *)

\* TopologyDescription#update and #apply_application_error, under the lock.
Describe(isKnown) ==
  /\ known' = isKnown
  /\ replaced' = (monitor.at \in {"checking", "checked"})

\* ready_pool; after a clear the pool has no connection that is not stale.
Ready == [pool EXCEPT !.ready = TRUE]
Cleared == [ready |-> FALSE, cleared |-> TRUE, idle |-> 0]
Stale == [f \in Fiber |-> FALSE]

\* A fiber told that the topology changed looks again.
LooksAgain(at) == IF at = "asleep" THEN "select" ELSE "take"

Announce_IfDifferent(now) ==
  IF waiting = <<>> \/ known = monitor.previous
  THEN /\ news' = (news \/ (waiting = <<>> /\ known # monitor.previous))
       /\ pc' = now /\ UNCHANGED waiting
  ELSE /\ waiting' = Tail(waiting)
       /\ pc' = [now EXCEPT ![Head(waiting)] = LooksAgain(@)]
       /\ UNCHANGED news

\* Client#on_topology_update: one of those who wait is told; if nobody waits
\* the token stays, and there is never more than one.
Announce(now) ==
  IF waiting = <<>> THEN news' = TRUE /\ pc' = now /\ UNCHANGED waiting
  ELSE /\ waiting' = Tail(waiting)
       /\ pc' = [now EXCEPT ![Head(waiting)] = LooksAgain(@)]
       /\ UNCHANGED news

\* The second half of Monitor#request_immediate_scan.
WakeMonitor_Interrupts(change) ==
  monitor' = change /\ UNCHANGED <<token, owed>>

WakeMonitor(change) ==
  /\ owed' = TRUE
  /\ IF monitor.at \in {"asleep", "cooling"}
     THEN monitor' = To(IF At("asleep") THEN "woken" ELSE "top") /\ UNCHANGED token
     ELSE monitor' = change /\ token' = TRUE

-----------------------------------------------------------------------------
(* Server selection *)

Goes(f, from, to) == pc[f] = from /\ pc' = [pc EXCEPT ![f] = to]

Begin(f) ==
  /\ Goes(f, "outside", "select")
  /\ UNCHANGED <<serverVars, topologyVars, newsVars, pool, fresh, monitor,
                 requestVars>>

\* Unknown servers are not selected: ask for a scan. request_immediate_scan
\* sets the flag, then sends the token.
Select(f) ==
  /\ Goes(f, "select", IF known THEN "selected" ELSE "asked")
  /\ requested' = (requested \/ ~known)
  /\ UNCHANGED <<serverVars, topologyVars, newsVars, pool, fresh, monitor, token,
                 owed>>

Send(f) ==
  /\ Goes(f, "asked", "recheck")
  /\ WakeMonitor(monitor)
  /\ UNCHANGED <<serverVars, topologyVars, newsVars, pool, fresh, requested>>

\* Receive from @topology_update: at once if a token is there.
Wait(f, as) ==
  IF news
  THEN /\ news' = FALSE
       /\ pc' = [pc EXCEPT ![f] = LooksAgain(as)] /\ UNCHANGED waiting
  ELSE /\ waiting' = Append(waiting, f)
       /\ pc' = [pc EXCEPT ![f] = as] /\ UNCHANGED news

\* The monitor may have answered already: look once more, then wait.
Recheck(f) ==
  /\ pc[f] = "recheck"
  /\ IF known THEN pc' = [pc EXCEPT ![f] = "selected"] /\ UNCHANGED newsVars
     ELSE Wait(f, "asleep")
  /\ UNCHANGED <<serverVars, topologyVars, pool, fresh, monitor, requestVars>>

\* A receive ends without a token.
StopsWaiting(f) ==
  \E i \in DOMAIN waiting : waiting[i] = f /\ waiting' = RemoveAt(waiting, i)

\* Who waits until its own time is over has an error for it.
GiveUp(f) ==
  /\ pc[f] \in {"asleep", "resting"}
  /\ pc' = [pc EXCEPT ![f] = "outside"]
  /\ StopsWaiting(f)
  /\ UNCHANGED <<serverVars, topologyVars, news, pool, fresh, monitor,
                 requestVars>>

-----------------------------------------------------------------------------
(* Checkout *)

\* get_connection: for all this fiber knows the server is known, and its pool
\* is made ready whatever happened since.
GetConnection(f) ==
  /\ Goes(f, "selected", "take")
  /\ pool' = Ready
  /\ UNCHANGED <<serverVars, topologyVars, newsVars, fresh, monitor, requestVars>>

\* An idle connection, a new one, or PoolCleared: then the monitor is asked.
Take(f) ==
  /\ pc[f] = "take"
  /\ LET idle == pool.ready /\ pool.idle > 0
     IN  /\ pc' = [pc EXCEPT ![f] = IF ~pool.ready THEN "nudged"
                                    ELSE IF idle THEN "use" ELSE "hello"]
         /\ pool' = IF idle THEN [pool EXCEPT !.idle = @ - 1] ELSE pool
         /\ fresh' = [fresh EXCEPT ![f] = idle]
  /\ requested' = (requested \/ ~pool.ready)
  /\ UNCHANGED <<serverVars, topologyVars, newsVars, monitor, token, owed>>

\* Wait for news, 50 milliseconds at most, and try again.
Rest(f) ==
  /\ pc[f] = "nudged" /\ Wait(f, "resting")
  /\ WakeMonitor(monitor)
  /\ UNCHANGED <<serverVars, topologyVars, pool, fresh, requested>>

RestEnds_StaysInLine(f) ==
  /\ Goes(f, "resting", "take")
  /\ UNCHANGED <<serverVars, topologyVars, newsVars, pool, fresh, monitor,
                 requestVars>>

RestEnds(f) ==
  /\ Goes(f, "resting", "take")
  /\ StopsWaiting(f)
  /\ UNCHANGED <<serverVars, topologyVars, news, pool, fresh, monitor,
                 requestVars>>

\* establish_connection: the hello of a new connection describes the server.
Established(f) ==
  /\ up /\ Goes(f, "hello", "publish")
  /\ Describe(TRUE)
  /\ UNCHANGED <<serverVars, newsVars, pool, fresh, monitor, requestVars>>

\* After the topology lock: the pool is made ready, the news are told.
Publish(f) ==
  /\ pc[f] = "publish"
  /\ pool' = Ready
  /\ Announce([pc EXCEPT ![f] = "join"])
  /\ UNCHANGED <<serverVars, topologyVars, fresh, monitor, requestVars>>

\* The pool counts the connection, unless it was cleared meanwhile.
Join(f) ==
  /\ Goes(f, "join", IF pool.ready THEN "use" ELSE "nudged")
  /\ fresh' = [fresh EXCEPT ![f] = pool.ready]
  /\ requested' = (requested \/ ~pool.ready)
  /\ UNCHANGED <<serverVars, topologyVars, newsVars, pool, monitor, token, owed>>

\* A network error during hello says nothing of a known server, but ends the
\* checkout; with an Unknown one it is tried again.
HelloFails(f) ==
  /\ Unanswered /\ Goes(f, "hello", IF known THEN "outside" ELSE "take")
  /\ UNCHANGED <<topologyVars, newsVars, pool, fresh, monitor, requestVars>>

\* handle_application_error, in the lock of the topology: it counts if the
\* connection is of the pool's generation, and most errors clear the pool.
ApplicationError(f, current, clears) ==
  IF current
  THEN /\ Describe(FALSE)
       /\ pc' = [pc EXCEPT ![f] = "tell"]
       /\ IF clears THEN pool' = Cleared /\ fresh' = Stale
          ELSE UNCHANGED <<pool, fresh>>
  ELSE /\ fresh' = [fresh EXCEPT ![f] = FALSE]
       /\ pc' = [pc EXCEPT ![f] = "outside"]
       /\ UNCHANGED <<topologyVars, pool>>

\* Authentication is refused. The connection has no generation before checkout
\* gives it one: it passes for one of the first.
AuthenticationFails(f) ==
  /\ pc[f] = "hello" /\ up /\ Counts(~pool.cleared)
  /\ ApplicationError(f, ~pool.cleared, TRUE)
  /\ UNCHANGED <<newsVars, monitor, requestVars>>

-----------------------------------------------------------------------------
(* Commands *)

CheckedIn(f) == IF fresh[f] THEN [pool EXCEPT !.idle = @ + 1] ELSE pool

Answered(f) ==
  /\ up /\ Goes(f, "use", "outside")
  /\ pool' = CheckedIn(f) /\ fresh' = [fresh EXCEPT ![f] = FALSE]
  /\ UNCHANGED <<serverVars, topologyVars, newsVars, monitor, requestVars>>

\* A timeout says nothing of the server; the connection is closed.
TimesOut(f) ==
  /\ Goes(f, "use", "outside")
  /\ fresh' = [fresh EXCEPT ![f] = FALSE]
  /\ UNCHANGED <<serverVars, topologyVars, newsVars, pool, monitor, requestVars>>

ConnectionFails(f) ==
  /\ pc[f] = "use" /\ Unanswered
  /\ ApplicationError(f, fresh[f], TRUE)
  /\ UNCHANGED <<newsVars, monitor, requestVars>>

\* The server says it is no longer primary, or shutting down.
StateChange(f) ==
  /\ pc[f] = "use" /\ up /\ Counts(fresh[f])
  /\ \E shutdown \in BOOLEAN : ApplicationError(f, fresh[f], shutdown)
  /\ UNCHANGED <<newsVars, monitor, requestVars>>

Tell(f) ==
  /\ pc[f] = "tell"
  /\ Announce([pc EXCEPT ![f] = "cancel"])
  /\ UNCHANGED <<serverVars, topologyVars, pool, fresh, monitor, requestVars>>

\* The monitor's hello is interrupted, if it can be, and a scan requested; the
\* connection goes back.
CancelCheck(f) ==
  /\ Goes(f, "cancel", "outside")
  /\ requested' = TRUE
  /\ \E cut \in {monitor.cut, monitor.at = "checking"} :
       WakeMonitor([monitor EXCEPT !.cut = cut])
  /\ pool' = CheckedIn(f) /\ fresh' = [fresh EXCEPT ![f] = FALSE]
  /\ UNCHANGED <<serverVars, topologyVars, newsVars>>

-----------------------------------------------------------------------------
(* Monitor#scan *)

StartCheck ==
  /\ At("top")
  /\ monitor' = [To("checking") EXCEPT !.previous = known]
  /\ owed' = FALSE
  /\ UNCHANGED <<serverVars, topologyVars, newsVars, pool, fiberVars, requested,
                 token>>

HelloAnswered ==
  /\ At("checking") /\ up
  /\ monitor' = [monitor EXCEPT !.at = "checked", !.answer = TRUE,
                                !.cut = FALSE]
  /\ UNCHANGED <<serverVars, topologyVars, newsVars, pool, fiberVars, requestVars>>

\* A check that fails is not repeated at once unless the server was known and
\* the network is to blame.
CheckFails ==
  /\ At("checking")
  /\ Unanswered \/ (monitor.cut /\ UNCHANGED serverVars)
  /\ \E network \in BOOLEAN :
       monitor' = [monitor EXCEPT !.at = "checked", !.cut = FALSE,
                                  !.retryNow = network /\ monitor.previous]
  /\ UNCHANGED <<topologyVars, newsVars, pool, fiberVars, requestVars>>

\* An error found the server Unknown first: check again.
AlreadyUnknown == ~monitor.answer /\ ~known /\ replaced

EndCheck ==
  /\ At("checked")
  /\ IF AlreadyUnknown
     THEN /\ monitor' = To("top")
          /\ requested' = FALSE
     ELSE /\ monitor' = [monitor EXCEPT !.at = "apply"]
          /\ UNCHANGED requested
  /\ replaced' = FALSE
  /\ UNCHANGED <<serverVars, known, newsVars, pool, fiberVars, token, owed>>

Apply ==
  /\ At("apply")
  /\ Describe(monitor.answer)
  /\ monitor' = [monitor EXCEPT !.at = "publish"]
  /\ UNCHANGED <<serverVars, newsVars, pool, fiberVars, requestVars>>

MonitorPublishes_Once ==
  /\ At("publish")
  /\ pool' = IF monitor.answer /\ ~monitor.previous THEN Ready ELSE pool
  /\ Announce(pc)
  /\ monitor' = [monitor EXCEPT !.at = IF monitor.previous /\ ~monitor.answer
                                       THEN "clear" ELSE "decide"]
  /\ UNCHANGED <<serverVars, topologyVars, fresh, requestVars>>

\* After the topology lock, as for a connection.
MonitorPublishes ==
  /\ At("publish")
  /\ pool' = IF monitor.answer THEN Ready ELSE pool
  /\ Announce(pc)
  /\ monitor' = [monitor EXCEPT !.at = IF monitor.previous /\ ~monitor.answer
                                       THEN "clear" ELSE "decide"]
  /\ UNCHANGED <<serverVars, topologyVars, fresh, requestVars>>

\* The pool of a server that was known, whatever it is by now.
MonitorClears ==
  /\ At("clear")
  /\ pool' = Cleared /\ fresh' = Stale
  /\ monitor' = [monitor EXCEPT !.at = "decide"]
  /\ UNCHANGED <<serverVars, topologyVars, newsVars, pc, requestVars>>

\* wait_cooldown: a token ends it, and so does an old one.
Cools == IF token THEN "top" ELSE "cooling"

Decide_StartsClean ==
  /\ At("decide")
  /\ requested' = FALSE /\ token' = FALSE
  /\ \/ (monitor.retryNow \/ monitor.answer) /\ monitor' = To("top")
     \/ ~monitor.retryNow /\ monitor' = To("asleep")
  /\ UNCHANGED <<serverVars, topologyVars, newsVars, pool, fiberVars, owed>>

\* Check again at once (after an error, or if the server holds back the answer
\* to a hello until it has news), after the cooldown, or after a heartbeat.
Decide ==
  /\ At("decide")
  /\ \/ /\ monitor.retryNow \/ monitor.answer
        /\ requested' = FALSE
        /\ monitor' = To("top") /\ UNCHANGED token
     \/ /\ ~monitor.retryNow /\ requested
        /\ requested' = FALSE
        /\ monitor' = To(Cools) /\ token' = FALSE
     \/ /\ ~monitor.retryNow /\ ~requested
        /\ monitor' = IF token THEN To("woken")
                      ELSE [To("asleep") EXCEPT !.answer = monitor.answer]
        /\ token' = FALSE /\ UNCHANGED requested
  /\ UNCHANGED <<serverVars, topologyVars, newsVars, pool, fiberVars, owed>>

Woken ==
  /\ At("woken")
  /\ requested' = FALSE
  /\ monitor' = To(Cools) /\ token' = FALSE
  /\ UNCHANGED <<serverVars, topologyVars, newsVars, pool, fiberVars, owed>>

\* The heartbeat or the cooldown is over.
TimePasses ==
  /\ At("asleep") \/ At("cooling")
  /\ monitor' = To("top")
  /\ UNCHANGED <<serverVars, topologyVars, newsVars, pool, fiberVars, requestVars>>

-----------------------------------------------------------------------------
Selecting(f) == Select(f) \/ Send(f) \/ Recheck(f)

CheckingOut(f) ==
  \/ GetConnection(f) \/ Take(f) \/ Rest(f) \/ RestEnds(f)
  \/ Established(f) \/ HelloFails(f) \/ AuthenticationFails(f)
  \/ Publish(f) \/ Join(f)

Using(f) ==
  \/ Answered(f) \/ TimesOut(f) \/ ConnectionFails(f) \/ StateChange(f)
  \/ Tell(f) \/ CancelCheck(f)

Monitoring ==
  \/ StartCheck \/ HelloAnswered \/ CheckFails \/ EndCheck \/ Apply
  \/ MonitorPublishes \/ MonitorClears \/ Decide \/ Woken \/ TimePasses

Next ==
  \/ Crash \/ Recover \/ Monitoring
  \/ \E f \in Fiber :
       Begin(f) \/ GiveUp(f) \/ Selecting(f) \/ CheckingOut(f) \/ Using(f)

Spec == Init /\ [][Next]_vars

\* Every step of the monitor leads on in its loop, every step of a fiber to
\* another place.
MonitorLoops ==
  \/ monitor' = To("top")
  \/ \E previous \in BOOLEAN :
       monitor' = [To("checking") EXCEPT !.previous = previous]

FiberMoves(f) ==
  /\ pc[f] \notin {"outside", "asleep"}
  /\ \E place \in Places : pc' = [pc EXCEPT ![f] = place]

\* Fibers are scheduled, timers of the code end, a server that is up answers
\* or the wait for it times out, and no outage is for ever. Nobody has to
\* begin a command; the timeouts of callers are not relied on.
FairSpec ==
  /\ Spec
  /\ WF_vars(Recover)
  /\ WF_monitor(MonitorLoops)
  /\ \A f \in Fiber : WF_pc(FiberMoves(f))

-----------------------------------------------------------------------------
(* Properties *)

\* Every variable holds a value of its kind; those who wait for news are in
\* line exactly once, and never beside a token; and only fibers with a
\* connection hold one of the pool's generation.
TypeOK ==
  /\ up \in BOOLEAN /\ faults \in 0 .. MaxFaults
  /\ known \in BOOLEAN /\ replaced \in BOOLEAN
  /\ news \in BOOLEAN /\ waiting \in Seq(Fiber) /\ IsInjective(waiting)
  /\ ToSet(waiting) = {f \in Fiber : pc[f] \in {"asleep", "resting"}}
  /\ news => waiting = <<>>
  /\ pool \in [ready: BOOLEAN, cleared: BOOLEAN, idle: 0 .. Cardinality(Fiber)]
  /\ pc \in [Fiber -> Places]
  /\ \A f \in Fiber : fresh[f] => pc[f] \in {"use", "tell", "cancel"}
  /\ monitor \in [at: {"top", "checking", "checked", "apply", "publish", "clear",
                       "decide", "asleep", "woken", "cooling"},
                  previous: BOOLEAN, answer: BOOLEAN, cut: BOOLEAN,
                  retryNow: BOOLEAN]
  /\ requested \in BOOLEAN /\ token \in BOOLEAN /\ owed \in BOOLEAN
  /\ token => monitor.at \notin {"asleep", "cooling"}

\* A scan that was asked for comes before the monitor sleeps for a heartbeat,
\* wherever in its loop the request met it, though it resets the flag in four
\* places and an old token may be taken for the new one.
RequestNotLost == owed => monitor.at # "asleep"

\* A server that a command found Unknown is not left to the next heartbeat: the
\* monitor sleeps only if it has found the same, or if whoever marked it is on
\* the way to wake it.
UnknownIsRechecked ==
  ~known /\ monitor.at = "asleep" /\ monitor.answer =>
    \E f \in Fiber : pc[f] \in {"tell", "cancel"}

\* Faults and outages over, the server ends up known and its pool ready, though
\* errors clear it inside the topology lock, the monitor clears it after, and
\* it is made ready by answers that were overtaken.
Recovers == <>[](known /\ pool.ready)

\* Whoever waits for the server gets a connection or an error in the end,
\* though one token is all that a change of the topology gives to many.
Served ==
  \A f \in Fiber :
    pc[f] \in {"select", "asleep", "take", "resting"} ~>
      pc[f] \in {"use", "outside"}
=============================================================================
