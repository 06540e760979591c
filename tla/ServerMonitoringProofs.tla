----------------------- MODULE ServerMonitoringProofs -----------------------
(***************************************************************************)
(* No scan that was asked for is lost, and no server that a command found  *)
(* Unknown is left to the next heartbeat, for any number of fibers and     *)
(* faults.                                                                 *)
(***************************************************************************)
EXTENDS ServerMonitoring, FiniteSetTheorems, TLAPS

-----------------------------------------------------------------------------
(* The inductive invariant *)

Monitors ==
  [at: {"top", "checking", "checked", "apply", "publish", "clear", "decide",
        "asleep", "woken", "cooling"},
   previous: BOOLEAN, answer: BOOLEAN, cut: BOOLEAN, retryNow: BOOLEAN]

ServerTypes ==
  /\ up \in BOOLEAN /\ faults \in 0 .. MaxFaults
  /\ known \in BOOLEAN /\ replaced \in BOOLEAN /\ news \in BOOLEAN

FiberTypes ==
  /\ pool \in [ready: BOOLEAN, cleared: BOOLEAN, idle: Nat]
  /\ pc \in [Fiber -> Places] /\ fresh \in [Fiber -> BOOLEAN]

MonitorTypes ==
  /\ monitor \in Monitors
  /\ requested \in BOOLEAN /\ token \in BOOLEAN /\ owed \in BOOLEAN

Types == ServerTypes /\ FiberTypes /\ MonitorTypes

\* Who waits for news is in line once, and nobody waits beside a token.
Waiters == {f \in Fiber : pc[f] \in {"asleep", "resting"}}

Line ==
  /\ waiting \in Seq(Fiber) /\ IsInjective(waiting)
  /\ ToSet(waiting) = Waiters
  /\ news => waiting = <<>>

\* An idle connection belongs to a fiber that does not hold another.
Holders == {f \in Fiber : fresh[f] \/ pc[f] \in {"hello", "publish", "join"}}

Connections ==
  /\ \A f \in Fiber : fresh[f] => pc[f] \in {"use", "tell", "cancel"}
  /\ pool.idle + Cardinality(Holders) <= Cardinality(Fiber)

\* A scan asked for is ahead in the loop, or there is a token for it.
Requests ==
  /\ token => monitor.at \notin {"asleep", "cooling"}
  /\ owed => token \/ monitor.at \in {"top", "woken", "cooling"}

\* A server that became Unknown after its last answer was applied: a token is
\* there, or the fiber that marked it has yet to send one.
Found ==
  ~known /\ monitor.answer /\ monitor.at \in {"publish", "clear", "decide", "asleep"} =>
    token \/ \E f \in Fiber : pc[f] \in {"tell", "cancel"}

Inductive == Types /\ Line /\ Connections /\ Requests /\ Found

-----------------------------------------------------------------------------
(* The line of those who wait *)

LEMMA LineTail ==
  ASSUME NEW S, NEW s \in Seq(S), s # <<>>, IsInjective(s)
  PROVE  /\ Tail(s) \in Seq(S) /\ IsInjective(Tail(s)) /\ Head(s) \in ToSet(s)
         /\ Head(s) \in S /\ ToSet(Tail(s)) = ToSet(s) \ {Head(s)}
  <1>1. Len(s) \in Nat \ {0} /\ Tail(s) \in Seq(S) /\ Len(Tail(s)) = Len(s) - 1
    OBVIOUS
  <1>2. \A i \in 1 .. Len(s) - 1 : Tail(s)[i] = s[i + 1]
    BY <1>1
  <1>3. Head(s) = s[1] /\ DOMAIN s = 1 .. Len(s) /\ DOMAIN Tail(s) = 1 .. Len(s) - 1
    BY <1>1
  <1>4. IsInjective(Tail(s))
    BY <1>1, <1>2, <1>3 DEF IsInjective
  <1>5. \A x : x \in ToSet(Tail(s)) <=> x \in ToSet(s) /\ x # Head(s)
    <2>1. ASSUME NEW x \in ToSet(Tail(s))
          PROVE  x \in ToSet(s) /\ x # Head(s)
      <3>1. PICK i \in 1 .. Len(s) - 1 : x = s[i + 1]
        BY <1>2, <1>3 DEF ToSet
      <3>2. i + 1 \in 1 .. Len(s) /\ 1 \in 1 .. Len(s) /\ i + 1 # 1
        BY <1>1
      <3> QED
        BY <1>3, <3>1, <3>2 DEF ToSet, IsInjective
    <2>2. ASSUME NEW x \in ToSet(s), x # Head(s)
          PROVE  x \in ToSet(Tail(s))
      <3>1. PICK i \in 1 .. Len(s) : x = s[i]
        BY <1>3 DEF ToSet
      <3>2. i - 1 \in 1 .. Len(s) - 1 /\ (i - 1) + 1 = i
        BY <1>1, <1>3, <2>2, <3>1
      <3> QED
        BY <1>2, <1>3, <3>1, <3>2 DEF ToSet
    <2> QED
      BY <2>1, <2>2
  <1>6. Head(s) \in ToSet(s) /\ Head(s) \in S
    <2>1. 1 \in DOMAIN s
      BY <1>1, <1>3
    <2> QED
      BY <1>3, <2>1 DEF ToSet
  <1>7. ToSet(Tail(s)) = ToSet(s) \ {Head(s)}
    BY <1>5
  <1> QED
    BY <1>1, <1>4, <1>6, <1>7

LEMMA LineAppend ==
  ASSUME NEW S, NEW s \in Seq(S), NEW x \in S, x \notin ToSet(s), IsInjective(s)
  PROVE  /\ Append(s, x) \in Seq(S) /\ IsInjective(Append(s, x))
         /\ ToSet(Append(s, x)) = ToSet(s) \cup {x}
  <1> DEFINE t == Append(s, x)
  <1>1. /\ t \in Seq(S) /\ Len(s) \in Nat /\ Len(t) = Len(s) + 1
        /\ DOMAIN s = 1 .. Len(s) /\ DOMAIN t = 1 .. Len(s) + 1
    OBVIOUS
  <1>2. t[Len(s) + 1] = x /\ \A i \in 1 .. Len(s) : t[i] = s[i]
    OBVIOUS
  <1>3. \A i \in 1 .. Len(s) : s[i] # x
    BY <1>1 DEF ToSet
  <1> HIDE DEF t
  <1>4. IsInjective(t)
    BY <1>1, <1>2, <1>3 DEF IsInjective
  <1>5. ToSet(t) = ToSet(s) \cup {x}
    BY <1>1, <1>2 DEF ToSet
  <1> QED
    BY <1>1, <1>4, <1>5 DEF t

LEMMA LineRemoveAt ==
  ASSUME NEW S, NEW s \in Seq(S), NEW k \in DOMAIN s, IsInjective(s)
  PROVE  /\ RemoveAt(s, k) \in Seq(S) /\ IsInjective(RemoveAt(s, k))
         /\ ToSet(RemoveAt(s, k)) = ToSet(s) \ {s[k]}
  <1> DEFINE a == SubSeq(s, 1, k - 1)
             b == SubSeq(s, k + 1, Len(s))
             t == RemoveAt(s, k)
  <1>1. Len(s) \in Nat /\ DOMAIN s = 1 .. Len(s) /\ k \in 1 .. Len(s)
    OBVIOUS
  <1>2. a \in Seq(S) /\ Len(a) = k - 1 /\ \A i \in 1 .. k - 1 : a[i] = s[i]
    BY <1>1
  <1>3. /\ b \in Seq(S) /\ Len(b) = Len(s) - k
        /\ \A i \in 1 .. Len(s) - k : b[i] = s[k + i]
    BY <1>1
  <1>4. t = a \o b
    BY DEF RemoveAt
  <1> HIDE DEF a, b, t
  <1>5. /\ t \in Seq(S) /\ Len(t) = Len(s) - 1
        /\ \A i \in 1 .. k - 1 : t[i] = s[i]
        /\ \A i \in k .. Len(s) - 1 : t[i] = s[i + 1]
    <2>1. /\ t \in Seq(S) /\ Len(t) = Len(a) + Len(b)
          /\ \A i \in 1 .. Len(a) : t[i] = a[i]
          /\ \A i \in Len(a) + 1 .. Len(a) + Len(b) : t[i] = b[i - Len(a)]
      BY <1>2, <1>3, <1>4, SMTT(30)
    <2>2. \A i \in k .. Len(s) - 1 : /\ i \in Len(a) + 1 .. Len(a) + Len(b)
                                      /\ i - Len(a) \in 1 .. Len(s) - k
                                      /\ k + (i - Len(a)) = i + 1
      BY <1>1, <1>2, <1>3
    <2>3. \A i \in k .. Len(s) - 1 : t[i] = s[i + 1]
      BY <1>3, <2>1, <2>2
    <2>4. \A i \in 1 .. k - 1 : t[i] = s[i]
      BY <1>1, <1>2, <2>1
    <2>5. Len(t) = Len(s) - 1
      BY <1>1, <1>2, <1>3, <2>1
    <2> QED
      BY <2>1, <2>3, <2>4, <2>5
  <1>6. DOMAIN t = 1 .. Len(s) - 1
    BY <1>5
  <1>7. IsInjective(t)
    <2> DEFINE from(i) == IF i < k THEN i ELSE i + 1
    <2>1. \A i \in 1 .. Len(s) - 1 : from(i) \in 1 .. Len(s) /\ t[i] = s[from(i)]
      BY <1>1, <1>5, SMTT(30)
    <2>2. \A i, j \in 1 .. Len(s) - 1 : from(i) = from(j) => i = j
      BY <1>1
    <2> HIDE DEF from
    <2> QED
      BY <1>1, <1>6, <2>1, <2>2 DEF IsInjective
  <1>8. ToSet(t) = ToSet(s) \ {s[k]}
    <2>1. ASSUME NEW x \in ToSet(t)
          PROVE  x \in ToSet(s) /\ x # s[k]
      <3>1. PICK i \in 1 .. Len(s) - 1 : x = t[i]
        BY <1>6 DEF ToSet
      <3>2. CASE i < k
        BY <1>1, <1>5, <3>1, <3>2 DEF ToSet, IsInjective
      <3>3. CASE i >= k
        BY <1>1, <1>5, <3>1, <3>3 DEF ToSet, IsInjective
      <3> QED
        BY <1>1, <3>1, <3>2, <3>3
    <2>2. ASSUME NEW x \in ToSet(s), x # s[k]
          PROVE  x \in ToSet(t)
      <3>1. PICK i \in 1 .. Len(s) : x = s[i]
        BY <1>1 DEF ToSet
      <3>2. CASE i < k
        BY <1>1, <1>5, <1>6, <3>1, <3>2, SMTT(30) DEF ToSet
      <3>3. CASE i > k
        <4>1. i - 1 \in k .. Len(s) - 1 /\ (i - 1) + 1 = i
          BY <1>1, <3>3
        <4>2. i - 1 \in DOMAIN t /\ t[i - 1] = x
          BY <1>1, <1>5, <1>6, <3>1, <4>1
        <4> QED
          BY <4>2 DEF ToSet
      <3> QED
        BY <1>1, <2>2, <3>1, <3>2, <3>3
    <2> QED
      BY <2>1, <2>2
  <1> QED
    BY <1>5, <1>7, <1>8 DEF t

-----------------------------------------------------------------------------
(* Operators of the model *)

LEMMA FaultSpent ==
  ASSUME faults \in 0 .. MaxFaults, Fault
  PROVE  faults' \in 0 .. MaxFaults
  BY MaxFaultsAssumption DEF Fault

\* The first in line is told, everybody else is where the caller put him.
LEMMA AnnounceEffect ==
  ASSUME Line, NEW now \in [Fiber -> Places], Announce(now)
  PROVE  /\ pc' \in [Fiber -> Places] /\ news' \in BOOLEAN \cup {news}
         /\ \A g \in Fiber :
              pc'[g] = IF waiting # <<>> /\ g = Head(waiting)
                       THEN LooksAgain(now[g]) ELSE now[g]
  <1>1. CASE waiting = <<>>
    BY <1>1 DEF Announce
  <1>2. CASE waiting # <<>>
    <2>1. Head(waiting) \in Fiber
      BY <1>2, LineTail DEF Line
    <2>2. pc' = [now EXCEPT ![Head(waiting)] = LooksAgain(now[Head(waiting)])]
          /\ UNCHANGED news
      BY <1>2 DEF Announce
    <2>3. LooksAgain(now[Head(waiting)]) \in Places
      BY DEF LooksAgain, Places
    <2> QED
      BY <1>2, <2>1, <2>2, <2>3
  <1> QED
    BY <1>1, <1>2

\* Receiving from the channel.
LEMMA WaitEffect ==
  ASSUME Types, NEW f \in Fiber, NEW as \in {"asleep", "resting"}, Wait(f, as)
  PROVE  /\ pc' = [pc EXCEPT ![f] = IF news THEN LooksAgain(as) ELSE as]
         /\ pc' \in [Fiber -> Places] /\ news' \in BOOLEAN
  <1>1. LooksAgain(as) \in Places /\ as \in Places
    BY DEF LooksAgain, Places
  <1> QED
    BY <1>1 DEF Wait, Types, FiberTypes, ServerTypes

\* Waking the monitor: it wakes up, or finds the token.
LEMMA WakeEffect ==
  ASSUME MonitorTypes, NEW change \in Monitors, WakeMonitor(change)
  PROVE  /\ monitor' \in Monitors /\ token' \in BOOLEAN /\ owed' = TRUE
         /\ \/ monitor.at \in {"asleep", "cooling"} /\ monitor'.at \in {"woken", "top"}
               /\ monitor'.answer = FALSE /\ token' = token
            \/ monitor.at \notin {"asleep", "cooling"} /\ monitor' = change /\ token'
  <1>1. CASE monitor.at \in {"asleep", "cooling"}
    <2>1. monitor' = To(IF At("asleep") THEN "woken" ELSE "top") /\ UNCHANGED token
          /\ owed' = TRUE
      BY <1>1 DEF WakeMonitor
    <2>2. monitor' \in Monitors /\ monitor'.at \in {"woken", "top"}
          /\ monitor'.answer = FALSE
      BY <2>1 DEF To, Monitors
    <2>3. token \in BOOLEAN
      BY DEF MonitorTypes
    <2> QED
      BY <1>1, <2>1, <2>2, <2>3
  <1>2. CASE monitor.at \notin {"asleep", "cooling"}
    BY <1>2 DEF WakeMonitor
  <1> QED
    BY <1>1, <1>2

LEMMA ToType ==
  ASSUME NEW place \in {"top", "checking", "checked", "apply", "publish", "clear",
                        "decide", "asleep", "woken", "cooling"}
  PROVE  To(place) \in Monitors /\ To(place).at = place
  BY DEF To, Monitors

LEMMA DescribeEffect ==
  ASSUME NEW isKnown \in BOOLEAN, Describe(isKnown)
  PROVE  known' = isKnown /\ known' \in BOOLEAN /\ replaced' \in BOOLEAN
  BY DEF Describe

\* An error counts, and marks the server, or says nothing.
LEMMA ErrorEffect ==
  ASSUME ServerTypes, FiberTypes, NEW f \in Fiber,
         NEW current \in BOOLEAN, NEW clears \in BOOLEAN,
         ApplicationError(f, current, clears)
  PROVE  /\ FiberTypes' /\ known' \in BOOLEAN /\ replaced' \in BOOLEAN
         /\ pc' = [pc EXCEPT ![f] = IF current THEN "tell" ELSE "outside"]
         /\ current => ~known'
         /\ ~current => known' = known
         /\ \/ pool'.idle = 0 /\ fresh' = Stale
            \/ current /\ pool' = pool /\ fresh' = fresh
            \/ ~current /\ pool' = pool /\ fresh' = [fresh EXCEPT ![f] = FALSE]
  <1>1. CASE current
    <2>1. known' = FALSE /\ replaced' \in BOOLEAN
      BY <1>1, DescribeEffect DEF ApplicationError
    <2>2. pc' = [pc EXCEPT ![f] = "tell"] /\ pc' \in [Fiber -> Places]
      BY <1>1 DEF ApplicationError, FiberTypes, Places
    <2>3. CASE clears
      <3>1. pool' = Cleared /\ fresh' = Stale
        BY <1>1, <2>3 DEF ApplicationError
      <3>2. pool' \in [ready: BOOLEAN, cleared: BOOLEAN, idle: Nat] /\ pool'.idle = 0
        BY <3>1 DEF Cleared
      <3>3. fresh' \in [Fiber -> BOOLEAN]
        BY <3>1 DEF Stale
      <3> QED
        BY <1>1, <2>1, <2>2, <3>1, <3>2, <3>3 DEF FiberTypes
    <2>4. CASE ~clears
      BY <1>1, <2>1, <2>2, <2>4 DEF ApplicationError, FiberTypes
    <2> QED
      BY <2>3, <2>4
  <1>2. CASE ~current
    BY <1>2 DEF ApplicationError, topologyVars, ServerTypes, FiberTypes, Places
  <1> QED
    BY <1>1, <1>2

-----------------------------------------------------------------------------
(* The steps *)

LEMMA ServerTypesStep ==
  ASSUME Inductive, [Next]_vars
  PROVE  ServerTypes'
  <1> USE DEF Inductive
  <1>1. CASE StartCheck \/ HelloAnswered \/ MonitorClears \/ Decide \/ Woken \/
            TimePasses \/ UNCHANGED vars
    <2>1. UNCHANGED <<up, faults, known, replaced, news>>
      BY <1>1 DEF StartCheck, HelloAnswered, MonitorClears, Decide, Woken,
             TimePasses, vars, serverVars, topologyVars, newsVars
    <2> QED
      BY <2>1 DEF Types, ServerTypes
  <1>2. ASSUME NEW f \in Fiber,
               Begin(f) \/ GiveUp(f) \/ Select(f) \/ Send(f) \/
               GetConnection(f) \/ Take(f) \/ RestEnds(f) \/ Join(f) \/
               Answered(f) \/ TimesOut(f) \/ CancelCheck(f)
        PROVE  ServerTypes'
    <2>1. UNCHANGED <<up, faults, known, replaced, news>>
      BY <1>2 DEF Begin, GiveUp, Select, Send, GetConnection, Take, RestEnds,
             Join, Answered, TimesOut, CancelCheck, Goes, serverVars,
             topologyVars, newsVars
    <2> QED
      BY <2>1 DEF Types, ServerTypes
  <1>3. CASE Crash
    BY <1>3, FaultSpent DEF Crash, serverVars, topologyVars, newsVars,
       fiberVars, requestVars, Types, ServerTypes
  <1>4. CASE Recover
    BY <1>4 DEF Recover, serverVars, topologyVars, newsVars, fiberVars,
       requestVars, Types, ServerTypes
  <1>5. CASE CheckFails
    BY <1>5, FaultSpent DEF CheckFails, At, Unanswered, serverVars,
       topologyVars, newsVars, fiberVars, requestVars, Types, ServerTypes
  <1>6. CASE EndCheck
    BY <1>6 DEF EndCheck, At, To, serverVars, topologyVars, newsVars,
       fiberVars, requestVars, Types, ServerTypes
  <1>7. CASE Apply
    <2>1. monitor.answer \in BOOLEAN
      BY DEF Types, MonitorTypes, Monitors
    <2>2. known' \in BOOLEAN /\ replaced' \in BOOLEAN
      BY <1>7, <2>1, DescribeEffect DEF Apply
    <2> QED
      BY <1>7, <2>2 DEF Apply, serverVars, newsVars, Types, ServerTypes
  <1>8. CASE MonitorPublishes
    <2>1. news' \in BOOLEAN \cup {news}
      BY <1>8, AnnounceEffect DEF MonitorPublishes, Types, FiberTypes
    <2> QED
      BY <1>8, <2>1 DEF MonitorPublishes, serverVars, topologyVars, Types,
         ServerTypes
  <1>9. ASSUME NEW f \in Fiber, Recheck(f)
        PROVE  ServerTypes'
    BY <1>9, WaitEffect DEF Recheck, serverVars, topologyVars, newsVars,
       fiberVars, requestVars, Types, ServerTypes
  <1>10. ASSUME NEW f \in Fiber, Rest(f)
        PROVE  ServerTypes'
    BY <1>10, WaitEffect DEF Rest, serverVars, topologyVars, newsVars,
       fiberVars, requestVars, Types, ServerTypes
  <1>11. ASSUME NEW f \in Fiber, Established(f)
        PROVE  ServerTypes'
    BY <1>11 DEF Established, Goes, Describe, serverVars, topologyVars,
       newsVars, fiberVars, requestVars, Types, ServerTypes
  <1>12. ASSUME NEW f \in Fiber, HelloFails(f)
        PROVE  ServerTypes'
    BY <1>12, FaultSpent DEF HelloFails, Goes, Unanswered, serverVars,
       topologyVars, newsVars, fiberVars, requestVars, Types, ServerTypes
  <1>13. ASSUME NEW f \in Fiber, AuthenticationFails(f)
        PROVE  ServerTypes'
    <2>1. PICK clears \in BOOLEAN : ApplicationError(f, ~pool.cleared, clears)
      BY <1>13 DEF AuthenticationFails
    <2>2. (~pool.cleared) \in BOOLEAN
      BY DEF Types, FiberTypes
    <2>3. known' \in BOOLEAN /\ replaced' \in BOOLEAN
      BY <2>1, <2>2, ErrorEffect DEF Types
    <2>4. up' = up /\ faults' \in 0 .. MaxFaults /\ news' = news
      BY <1>13, FaultSpent DEF AuthenticationFails, Counts, newsVars, Types,
         ServerTypes
    <2> QED
      BY <2>3, <2>4 DEF Types, ServerTypes
  <1>14. ASSUME NEW f \in Fiber, Publish(f)
        PROVE  ServerTypes'
    <2>1. [pc EXCEPT ![f] = "join"] \in [Fiber -> Places]
      BY DEF Types, FiberTypes, Places
    <2>2. news' \in BOOLEAN \cup {news}
      BY <1>14, <2>1, AnnounceEffect DEF Publish, Ready
    <2> QED
      BY <1>14, <2>2 DEF Publish, Ready, serverVars, topologyVars, Types,
         ServerTypes
  <1>15. ASSUME NEW f \in Fiber, ConnectionFails(f)
        PROVE  ServerTypes'
    <2>1. PICK clears \in BOOLEAN : ApplicationError(f, fresh[f], clears)
      BY <1>15 DEF ConnectionFails
    <2>2. fresh[f] \in BOOLEAN
      BY DEF Types, FiberTypes
    <2>3. known' \in BOOLEAN /\ replaced' \in BOOLEAN
      BY <2>1, <2>2, ErrorEffect DEF Types
    <2>4. up' = up /\ faults' \in 0 .. MaxFaults /\ news' = news
      BY <1>15, FaultSpent DEF ConnectionFails, Unanswered, newsVars, Types,
         ServerTypes
    <2> QED
      BY <2>3, <2>4 DEF Types, ServerTypes
  <1>16. ASSUME NEW f \in Fiber, StateChange(f)
        PROVE  ServerTypes'
    <2>1. PICK clears \in BOOLEAN : ApplicationError(f, fresh[f], clears)
      BY <1>16 DEF StateChange
    <2>2. fresh[f] \in BOOLEAN
      BY DEF Types, FiberTypes
    <2>3. known' \in BOOLEAN /\ replaced' \in BOOLEAN
      BY <2>1, <2>2, ErrorEffect DEF Types
    <2>4. up' = up /\ faults' \in 0 .. MaxFaults /\ news' = news
      BY <1>16, FaultSpent DEF StateChange, Counts, newsVars, Types,
         ServerTypes
    <2> QED
      BY <2>3, <2>4 DEF Types, ServerTypes
  <1>17. ASSUME NEW f \in Fiber, Tell(f)
        PROVE  ServerTypes'
    <2>1. [pc EXCEPT ![f] = "cancel"] \in [Fiber -> Places]
      BY DEF Types, FiberTypes, Places
    <2>2. news' \in BOOLEAN \cup {news}
      BY <1>17, <2>1, AnnounceEffect DEF Tell
    <2> QED
      BY <1>17, <2>2 DEF Tell, serverVars, topologyVars, Types, ServerTypes
  <1> QED
    BY <1>1, <1>2, <1>3, <1>4, <1>5, <1>6, <1>7, <1>8, <1>9, <1>10, <1>11,
       <1>12, <1>13, <1>14, <1>15, <1>16, <1>17
       DEF Next, Monitoring, Selecting, CheckingOut, Using

LEMMA FiberTypesStep ==
  ASSUME Inductive, [Next]_vars
  PROVE  FiberTypes'
  <1> USE DEF Inductive
  <1>1. CASE Crash \/ Recover \/ StartCheck \/ HelloAnswered \/ CheckFails \/
            EndCheck \/ Apply \/ Decide \/ Woken \/ TimePasses \/ UNCHANGED
            vars
    <2>1. UNCHANGED <<pool, pc, fresh>>
      BY <1>1 DEF Crash, Recover, StartCheck, HelloAnswered, CheckFails,
             EndCheck, Apply, Decide, Woken, TimePasses, vars, fiberVars
    <2> QED
      BY <2>1 DEF Types, FiberTypes
  <1>2. CASE MonitorPublishes
    <2>1. pc' \in [Fiber -> Places]
      BY <1>2, AnnounceEffect DEF MonitorPublishes, Types, FiberTypes
    <2> QED
      BY <1>2, <2>1 DEF MonitorPublishes, Ready, Types, FiberTypes
  <1>3. CASE MonitorClears
    BY <1>3 DEF MonitorClears, At, Cleared, Stale, serverVars, topologyVars,
       newsVars, fiberVars, requestVars, Types, FiberTypes, Places
  <1>4. ASSUME NEW f \in Fiber, Begin(f)
        PROVE  FiberTypes'
    BY <1>4 DEF Begin, Goes, serverVars, topologyVars, newsVars, fiberVars,
       requestVars, Types, FiberTypes, Places
  <1>5. ASSUME NEW f \in Fiber, GiveUp(f)
        PROVE  FiberTypes'
    BY <1>5 DEF GiveUp, StopsWaiting, serverVars, topologyVars, newsVars,
       fiberVars, requestVars, Types, FiberTypes, Places
  <1>6. ASSUME NEW f \in Fiber, Select(f)
        PROVE  FiberTypes'
    BY <1>6 DEF Select, Goes, serverVars, topologyVars, newsVars, fiberVars,
       requestVars, Types, FiberTypes, Places
  <1>7. ASSUME NEW f \in Fiber, Send(f)
        PROVE  FiberTypes'
    BY <1>7 DEF Send, Goes, serverVars, topologyVars, newsVars, fiberVars,
       requestVars, Types, FiberTypes, Places
  <1>8. ASSUME NEW f \in Fiber, Recheck(f)
        PROVE  FiberTypes'
    BY <1>8, WaitEffect DEF Recheck, serverVars, topologyVars, newsVars,
       fiberVars, requestVars, Types, FiberTypes, Places
  <1>9. ASSUME NEW f \in Fiber, GetConnection(f)
        PROVE  FiberTypes'
    BY <1>9 DEF GetConnection, Goes, Ready, serverVars, topologyVars, newsVars,
       fiberVars, requestVars, Types, FiberTypes, Places
  <1>10. ASSUME NEW f \in Fiber, Take(f)
        PROVE  FiberTypes'
    BY <1>10 DEF Take, serverVars, topologyVars, newsVars, fiberVars,
       requestVars, Types, FiberTypes, Places
  <1>11. ASSUME NEW f \in Fiber, Rest(f)
        PROVE  FiberTypes'
    BY <1>11, WaitEffect DEF Rest, serverVars, topologyVars, newsVars,
       fiberVars, requestVars, Types, FiberTypes, Places
  <1>12. ASSUME NEW f \in Fiber, RestEnds(f)
        PROVE  FiberTypes'
    BY <1>12 DEF RestEnds, Goes, StopsWaiting, serverVars, topologyVars,
       newsVars, fiberVars, requestVars, Types, FiberTypes, Places
  <1>13. ASSUME NEW f \in Fiber, Established(f)
        PROVE  FiberTypes'
    BY <1>13 DEF Established, Goes, Describe, serverVars, topologyVars,
       newsVars, fiberVars, requestVars, Types, FiberTypes, Places
  <1>14. ASSUME NEW f \in Fiber, HelloFails(f)
        PROVE  FiberTypes'
    BY <1>14 DEF HelloFails, Goes, Unanswered, serverVars, topologyVars,
       newsVars, fiberVars, requestVars, Types, FiberTypes, Places
  <1>15. ASSUME NEW f \in Fiber, AuthenticationFails(f)
        PROVE  FiberTypes'
    <2>1. PICK clears \in BOOLEAN : ApplicationError(f, ~pool.cleared, clears)
      BY <1>15 DEF AuthenticationFails
    <2>2. (~pool.cleared) \in BOOLEAN
      BY DEF Types, FiberTypes
    <2> QED
      BY <2>1, <2>2, ErrorEffect DEF Types
  <1>16. ASSUME NEW f \in Fiber, Publish(f)
        PROVE  FiberTypes'
    <2>1. [pc EXCEPT ![f] = "join"] \in [Fiber -> Places]
      BY DEF Types, FiberTypes, Places
    <2>2. pc' \in [Fiber -> Places]
      BY <1>16, <2>1, AnnounceEffect DEF Publish, Ready
    <2> QED
      BY <1>16, <2>2 DEF Publish, Ready, Types, FiberTypes
  <1>17. ASSUME NEW f \in Fiber, Join(f)
        PROVE  FiberTypes'
    BY <1>17 DEF Join, Goes, serverVars, topologyVars, newsVars, fiberVars,
       requestVars, Types, FiberTypes, Places
  <1>18. ASSUME NEW f \in Fiber, Answered(f)
        PROVE  FiberTypes'
    BY <1>18 DEF Answered, Goes, CheckedIn, serverVars, topologyVars, newsVars,
       fiberVars, requestVars, Types, FiberTypes, Places
  <1>19. ASSUME NEW f \in Fiber, TimesOut(f)
        PROVE  FiberTypes'
    BY <1>19 DEF TimesOut, Goes, serverVars, topologyVars, newsVars, fiberVars,
       requestVars, Types, FiberTypes, Places
  <1>20. ASSUME NEW f \in Fiber, ConnectionFails(f)
        PROVE  FiberTypes'
    <2>1. PICK clears \in BOOLEAN : ApplicationError(f, fresh[f], clears)
      BY <1>20 DEF ConnectionFails
    <2>2. fresh[f] \in BOOLEAN
      BY DEF Types, FiberTypes
    <2> QED
      BY <2>1, <2>2, ErrorEffect DEF Types
  <1>21. ASSUME NEW f \in Fiber, StateChange(f)
        PROVE  FiberTypes'
    <2>1. PICK clears \in BOOLEAN : ApplicationError(f, fresh[f], clears)
      BY <1>21 DEF StateChange
    <2>2. fresh[f] \in BOOLEAN
      BY DEF Types, FiberTypes
    <2> QED
      BY <2>1, <2>2, ErrorEffect DEF Types
  <1>22. ASSUME NEW f \in Fiber, Tell(f)
        PROVE  FiberTypes'
    <2>1. [pc EXCEPT ![f] = "cancel"] \in [Fiber -> Places]
      BY DEF Types, FiberTypes, Places
    <2>2. pc' \in [Fiber -> Places]
      BY <1>22, <2>1, AnnounceEffect DEF Tell
    <2> QED
      BY <1>22, <2>2 DEF Tell, Types, FiberTypes
  <1>23. ASSUME NEW f \in Fiber, CancelCheck(f)
        PROVE  FiberTypes'
    BY <1>23 DEF CancelCheck, Goes, CheckedIn, serverVars, topologyVars,
       newsVars, fiberVars, requestVars, Types, FiberTypes, Places
  <1> QED
    BY <1>1, <1>2, <1>3, <1>4, <1>5, <1>6, <1>7, <1>8, <1>9, <1>10, <1>11,
       <1>12, <1>13, <1>14, <1>15, <1>16, <1>17, <1>18, <1>19, <1>20, <1>21,
       <1>22, <1>23
       DEF Next, Monitoring, Selecting, CheckingOut, Using

LEMMA MonitorTypesStep ==
  ASSUME Inductive, [Next]_vars
  PROVE  MonitorTypes'
  <1> USE DEF Inductive
  <1>1. CASE Crash \/ Recover \/ UNCHANGED vars
    <2>1. UNCHANGED <<monitor, requested, token, owed>>
      BY <1>1 DEF Crash, Recover, vars, requestVars
    <2> QED
      BY <2>1 DEF Types, MonitorTypes
  <1>2. ASSUME NEW f \in Fiber,
               Begin(f) \/ GiveUp(f) \/ Recheck(f) \/ GetConnection(f) \/
               RestEnds(f) \/ Established(f) \/ HelloFails(f) \/
               AuthenticationFails(f) \/ Publish(f) \/ Answered(f) \/
               TimesOut(f) \/ ConnectionFails(f) \/ StateChange(f) \/ Tell(f)
        PROVE  MonitorTypes'
    <2>1. UNCHANGED <<monitor, requested, token, owed>>
      BY <1>2 DEF Begin, GiveUp, Recheck, GetConnection, RestEnds, Established,
             HelloFails, AuthenticationFails, Publish, Answered, TimesOut,
             ConnectionFails, StateChange, Tell, requestVars
    <2> QED
      BY <2>1 DEF Types, MonitorTypes
  <1>3. CASE StartCheck
    <2>1. monitor' \in Monitors
      BY <1>3 DEF StartCheck, To, Monitors, Types, ServerTypes
    <2> QED
      BY <1>3, <2>1 DEF StartCheck, Types, MonitorTypes
  <1>4. CASE HelloAnswered
    BY <1>4 DEF HelloAnswered, At, serverVars, topologyVars, newsVars,
       fiberVars, requestVars, Types, MonitorTypes, Monitors
  <1>5. CASE CheckFails
    BY <1>5 DEF CheckFails, At, Unanswered, serverVars, topologyVars, newsVars,
       fiberVars, requestVars, Types, MonitorTypes, Monitors
  <1>6. CASE EndCheck
    <2>1. monitor' \in Monitors
      BY <1>6, ToType DEF EndCheck, Monitors, Types, MonitorTypes
    <2>2. requested' \in BOOLEAN /\ token' = token /\ owed' = owed
      BY <1>6 DEF EndCheck, Types, MonitorTypes
    <2> QED
      BY <2>1, <2>2 DEF Types, MonitorTypes
  <1>7. CASE Apply
    BY <1>7 DEF Apply, At, Describe, serverVars, topologyVars, newsVars,
       fiberVars, requestVars, Types, MonitorTypes, Monitors
  <1>8. CASE MonitorPublishes
    BY <1>8 DEF MonitorPublishes, At, Ready, serverVars, topologyVars,
       newsVars, fiberVars, requestVars, Types, MonitorTypes, Monitors
  <1>9. CASE MonitorClears
    BY <1>9 DEF MonitorClears, At, Cleared, Stale, serverVars, topologyVars,
       newsVars, fiberVars, requestVars, Types, MonitorTypes, Monitors
  <1>10. CASE Decide
    <2>1. To(Cools) \in Monitors
      BY ToType DEF Cools
    <2>2. [To("asleep") EXCEPT !.answer = monitor.answer] \in Monitors
      BY DEF To, Monitors, Types, MonitorTypes
    <2>3. monitor' \in Monitors
      BY <1>10, <2>1, <2>2, ToType DEF Decide
    <2>4. requested' \in BOOLEAN /\ token' \in BOOLEAN /\ owed' = owed
      BY <1>10 DEF Decide, Types, MonitorTypes
    <2> QED
      BY <2>3, <2>4 DEF Types, MonitorTypes
  <1>11. CASE Woken
    BY <1>11 DEF Woken, At, To, Cools, serverVars, topologyVars, newsVars,
       fiberVars, requestVars, Types, MonitorTypes, Monitors
  <1>12. CASE TimePasses
    BY <1>12 DEF TimePasses, At, To, serverVars, topologyVars, newsVars,
       fiberVars, requestVars, Types, MonitorTypes, Monitors
  <1>13. ASSUME NEW f \in Fiber, Select(f)
        PROVE  MonitorTypes'
    BY <1>13 DEF Select, Goes, serverVars, topologyVars, newsVars, fiberVars,
       requestVars, Types, MonitorTypes, Monitors
  <1>14. ASSUME NEW f \in Fiber, Send(f)
        PROVE  MonitorTypes'
    BY <1>14, WakeEffect DEF Send, Goes, serverVars, topologyVars, newsVars,
       fiberVars, requestVars, Types, MonitorTypes, Monitors
  <1>15. ASSUME NEW f \in Fiber, Take(f)
        PROVE  MonitorTypes'
    BY <1>15 DEF Take, serverVars, topologyVars, newsVars, fiberVars,
       requestVars, Types, MonitorTypes, Monitors
  <1>16. ASSUME NEW f \in Fiber, Rest(f)
        PROVE  MonitorTypes'
    BY <1>16, WakeEffect DEF Rest, serverVars, topologyVars, newsVars,
       fiberVars, requestVars, Types, MonitorTypes, Monitors
  <1>17. ASSUME NEW f \in Fiber, Join(f)
        PROVE  MonitorTypes'
    BY <1>17 DEF Join, Goes, serverVars, topologyVars, newsVars, fiberVars,
       requestVars, Types, MonitorTypes, Monitors
  <1>18. ASSUME NEW f \in Fiber, CancelCheck(f)
        PROVE  MonitorTypes'
    BY <1>18, WakeEffect DEF CancelCheck, Goes, CheckedIn, serverVars,
       topologyVars, newsVars, fiberVars, requestVars, Types, MonitorTypes,
       Monitors
  <1> QED
    BY <1>1, <1>2, <1>3, <1>4, <1>5, <1>6, <1>7, <1>8, <1>9, <1>10, <1>11,
       <1>12, <1>13, <1>14, <1>15, <1>16, <1>17, <1>18
       DEF Next, Monitoring, Selecting, CheckingOut, Using

\* A fiber that goes from a place where nobody waits to another.
LEMMA OthersWait ==
  ASSUME FiberTypes, NEW f \in Fiber, NEW to \in Places \ {"asleep", "resting"},
         pc[f] \notin {"asleep", "resting"}, pc' = [pc EXCEPT ![f] = to]
  PROVE  Waiters' = Waiters
  BY DEF Waiters, FiberTypes

LEMMA LineKept ==
  ASSUME Line, UNCHANGED newsVars, Waiters' = Waiters
  PROVE  Line'
  BY DEF Line, newsVars

\* One that is told is no longer in line.
LEMMA LineTold ==
  ASSUME Types, Line, NEW now \in [Fiber -> Places], Announce(now),
         \A g \in Fiber : now[g] \in {"asleep", "resting"} <=> pc[g] \in {"asleep", "resting"}
  PROVE  Line'
  <1>1. \A g \in Fiber : pc'[g] = IF waiting # <<>> /\ g = Head(waiting)
                                  THEN LooksAgain(now[g]) ELSE now[g]
    BY AnnounceEffect
  <1>2. CASE waiting = <<>>
    <2>1. waiting' = <<>>
      BY <1>2 DEF Announce
    <2>2. Waiters' = Waiters
      BY <1>1, <1>2 DEF Waiters
    <2> QED
      BY <1>2, <2>1, <2>2 DEF Line
  <1>3. CASE waiting # <<>>
    <2>1. waiting' = Tail(waiting) /\ news' = news
      BY <1>3 DEF Announce
    <2>2. Waiters' = Waiters \ {Head(waiting)}
      BY <1>1, <1>3 DEF Waiters, LooksAgain
    <2>3. /\ Tail(waiting) \in Seq(Fiber) /\ IsInjective(Tail(waiting))
          /\ ToSet(Tail(waiting)) = Waiters \ {Head(waiting)}
      BY <1>3, LineTail DEF Line
    <2>4. ~news
      BY <1>3 DEF Line
    <2> QED
      BY <2>1, <2>2, <2>3, <2>4 DEF Line
  <1> QED
    BY <1>2, <1>3

\* One that waits goes to the end of the line, or takes the token.
LEMMA LineJoined ==
  ASSUME Types, Line, NEW f \in Fiber, NEW as \in {"asleep", "resting"},
         pc[f] \notin {"asleep", "resting"}, Wait(f, as)
  PROVE  Line'
  <1>1. pc' = [pc EXCEPT ![f] = IF news THEN LooksAgain(as) ELSE as] /\ pc \in [Fiber -> Places]
    BY WaitEffect DEF Types, FiberTypes
  <1>2. CASE news
    <2>1. waiting' = waiting /\ waiting = <<>>
      BY <1>2 DEF Wait, Line
    <2>2. Waiters' = Waiters
      BY <1>1, <1>2 DEF Waiters, LooksAgain
    <2> QED
      BY <2>1, <2>2 DEF Line
  <1>3. CASE ~news
    <2>1. waiting' = Append(waiting, f) /\ news' = news
      BY <1>3 DEF Wait
    <2>2. Waiters' = Waiters \cup {f}
      BY <1>1, <1>3 DEF Waiters
    <2>3. f \notin ToSet(waiting)
      BY DEF Line, Waiters
    <2>4. /\ Append(waiting, f) \in Seq(Fiber) /\ IsInjective(Append(waiting, f))
          /\ ToSet(Append(waiting, f)) = Waiters \cup {f}
      BY <2>3, LineAppend DEF Line
    <2> QED
      BY <1>3, <2>1, <2>2, <2>4 DEF Line
  <1> QED
    BY <1>2, <1>3

\* One that stops waiting leaves the line, wherever in it he is.
LEMMA LineLeft ==
  ASSUME Types, Line, NEW f \in Fiber, NEW to \in Places \ {"asleep", "resting"},
         StopsWaiting(f), pc' = [pc EXCEPT ![f] = to], news' = news
  PROVE  Line'
  <1>1. PICK i \in DOMAIN waiting : waiting[i] = f /\ waiting' = RemoveAt(waiting, i)
    BY DEF StopsWaiting
  <1>2. Waiters' = Waiters \ {f}
    BY DEF Waiters, Types, FiberTypes
  <1>3. /\ waiting' \in Seq(Fiber) /\ IsInjective(waiting')
        /\ ToSet(waiting') = Waiters \ {f}
    BY <1>1, LineRemoveAt DEF Line
  <1>4. ~news
    <2>1. waiting # <<>>
      BY <1>1 DEF Line
    <2> QED
      BY <2>1 DEF Line
  <1> QED
    BY <1>2, <1>3, <1>4 DEF Line

LEMMA LineStep ==
  ASSUME Inductive, [Next]_vars
  PROVE  Line'
  <1> USE DEF Inductive
  <1>1. CASE Crash \/ Recover \/ StartCheck \/ HelloAnswered \/ CheckFails \/
            EndCheck \/ Apply \/ MonitorClears \/ Decide \/ Woken \/ TimePasses
            \/ UNCHANGED vars
    <2>1. UNCHANGED <<news, waiting, pc>>
      BY <1>1 DEF Crash, Recover, StartCheck, HelloAnswered, CheckFails,
             EndCheck, Apply, MonitorClears, Decide, Woken, TimePasses, vars,
             newsVars, fiberVars
    <2> QED
      BY <2>1 DEF Line, Waiters
  <1>2. ASSUME NEW f \in Fiber,
               Begin(f) \/ Select(f) \/ Send(f) \/ GetConnection(f) \/ Take(f)
               \/ Established(f) \/ HelloFails(f) \/ Join(f) \/ Answered(f) \/
               TimesOut(f) \/ CancelCheck(f)
        PROVE  Line'
    <2>1. /\ pc[f] \notin {"asleep", "resting"} /\ UNCHANGED newsVars
          /\ \E to \in Places \ {"asleep", "resting"} : pc' = [pc EXCEPT ![f] = to]
      BY <1>2 DEF Begin, Select, Send, GetConnection, Take, Established, HelloFails,
         Join, Answered, TimesOut, CancelCheck, Goes, newsVars, Places
    <2> QED
      BY <2>1, OthersWait, LineKept DEF Types
  <1>3. CASE MonitorPublishes
    BY <1>3, LineTold DEF MonitorPublishes, Types, FiberTypes
  <1>4. ASSUME NEW f \in Fiber, GiveUp(f)
        PROVE  Line'
    <2>1. StopsWaiting(f) /\ pc' = [pc EXCEPT ![f] = "outside"] /\ news' = news
      BY <1>4 DEF GiveUp, Goes
    <2> QED
      BY <2>1, LineLeft DEF Places
  <1>5. ASSUME NEW f \in Fiber, Recheck(f)
        PROVE  Line'
    <2>1. CASE known
      <3>1. pc[f] = "recheck" /\ pc' = [pc EXCEPT ![f] = "selected"] /\ UNCHANGED newsVars
        BY <1>5, <2>1 DEF Recheck
      <3> QED
        BY <3>1, OthersWait, LineKept DEF Types, Places
    <2>2. CASE ~known
      BY <1>5, <2>2, LineJoined DEF Recheck
    <2> QED
      BY <2>1, <2>2
  <1>6. ASSUME NEW f \in Fiber, Rest(f)
        PROVE  Line'
    BY <1>6, LineJoined DEF Rest
  <1>7. ASSUME NEW f \in Fiber, RestEnds(f)
        PROVE  Line'
    <2>1. StopsWaiting(f) /\ pc' = [pc EXCEPT ![f] = "take"] /\ news' = news
      BY <1>7 DEF RestEnds, Goes
    <2> QED
      BY <2>1, LineLeft DEF Places
  <1>8. ASSUME NEW f \in Fiber, AuthenticationFails(f)
        PROVE  Line'
    <2>1. PICK clears \in BOOLEAN : ApplicationError(f, ~pool.cleared, clears)
      BY <1>8 DEF AuthenticationFails
    <2>2. (~pool.cleared) \in BOOLEAN
      BY DEF Types, FiberTypes
    <2>3. /\ pc[f] = "hello" /\ UNCHANGED newsVars
          /\ \E to \in Places \ {"asleep", "resting"} : pc' = [pc EXCEPT ![f] = to]
      BY <1>8, <2>1, <2>2, ErrorEffect DEF AuthenticationFails, newsVars,
         Places, Types
    <2> QED
      BY <2>3, OthersWait, LineKept DEF Types
  <1>9. ASSUME NEW f \in Fiber, Publish(f)
        PROVE  Line'
    <2> DEFINE now == [pc EXCEPT ![f] = "join"]
    <2>1. pc[f] = "publish" /\ Announce(now)
      BY <1>9 DEF Publish
    <2>2. /\ now \in [Fiber -> Places]
          /\ \A g \in Fiber :
               now[g] \in {"asleep", "resting"} <=> pc[g] \in {"asleep", "resting"}
      BY <2>1 DEF Types, FiberTypes, Places
    <2> QED
      BY <2>1, <2>2, LineTold
  <1>10. ASSUME NEW f \in Fiber, ConnectionFails(f)
        PROVE  Line'
    <2>1. PICK clears \in BOOLEAN : ApplicationError(f, fresh[f], clears)
      BY <1>10 DEF ConnectionFails
    <2>2. (fresh[f]) \in BOOLEAN
      BY DEF Types, FiberTypes
    <2>3. /\ pc[f] = "use" /\ UNCHANGED newsVars
          /\ \E to \in Places \ {"asleep", "resting"} : pc' = [pc EXCEPT ![f] = to]
      BY <1>10, <2>1, <2>2, ErrorEffect DEF ConnectionFails, newsVars, Places,
         Types
    <2> QED
      BY <2>3, OthersWait, LineKept DEF Types
  <1>11. ASSUME NEW f \in Fiber, StateChange(f)
        PROVE  Line'
    <2>1. PICK clears \in BOOLEAN : ApplicationError(f, fresh[f], clears)
      BY <1>11 DEF StateChange
    <2>2. (fresh[f]) \in BOOLEAN
      BY DEF Types, FiberTypes
    <2>3. /\ pc[f] = "use" /\ UNCHANGED newsVars
          /\ \E to \in Places \ {"asleep", "resting"} : pc' = [pc EXCEPT ![f] = to]
      BY <1>11, <2>1, <2>2, ErrorEffect DEF StateChange, newsVars, Places,
         Types
    <2> QED
      BY <2>3, OthersWait, LineKept DEF Types
  <1>12. ASSUME NEW f \in Fiber, Tell(f)
        PROVE  Line'
    <2> DEFINE now == [pc EXCEPT ![f] = "cancel"]
    <2>1. pc[f] = "tell" /\ Announce(now)
      BY <1>12 DEF Tell
    <2>2. /\ now \in [Fiber -> Places]
          /\ \A g \in Fiber :
               now[g] \in {"asleep", "resting"} <=> pc[g] \in {"asleep", "resting"}
      BY <2>1 DEF Types, FiberTypes, Places
    <2> QED
      BY <2>1, <2>2, LineTold
  <1> QED
    BY <1>1, <1>2, <1>3, <1>4, <1>5, <1>6, <1>7, <1>8, <1>9, <1>10, <1>11,
       <1>12
       DEF Next, Monitoring, Selecting, CheckingOut, Using

\* Who does not wait is not told.
LEMMA NotTold ==
  ASSUME Line, NEW now \in [Fiber -> Places], Announce(now),
         NEW g \in Fiber, pc[g] \notin {"asleep", "resting"}
  PROVE  pc'[g] = now[g]
  <1>1. CASE waiting = <<>>
    BY <1>1, AnnounceEffect
  <1>2. CASE waiting # <<>>
    <2>1. Head(waiting) # g
      BY <1>2, LineTail DEF Line, Waiters
    <2> QED
      BY <2>1, AnnounceEffect
  <1> QED
    BY <1>1, <1>2

LEMMA RequestsStep ==
  ASSUME Inductive, [Next]_vars
  PROVE  Requests'
  <1> USE DEF Inductive
  <1>1. CASE Crash \/ Recover \/ UNCHANGED vars
    <2>1. UNCHANGED <<monitor, token, owed>>
      BY <1>1 DEF Crash, Recover, vars, requestVars
    <2> QED
      BY <2>1 DEF Requests
  <1>2. ASSUME NEW f \in Fiber,
               Begin(f) \/ GiveUp(f) \/ Select(f) \/ Recheck(f) \/
               GetConnection(f) \/ Take(f) \/ RestEnds(f) \/ Established(f) \/
               HelloFails(f) \/ AuthenticationFails(f) \/ Publish(f) \/ Join(f)
               \/ Answered(f) \/ TimesOut(f) \/ ConnectionFails(f) \/
               StateChange(f) \/ Tell(f)
        PROVE  Requests'
    <2>1. UNCHANGED <<monitor, token, owed>>
      BY <1>2 DEF Begin, GiveUp, Select, Recheck, GetConnection, Take,
             RestEnds, Established, HelloFails, AuthenticationFails, Publish,
             Join, Answered, TimesOut, ConnectionFails, StateChange, Tell,
             requestVars
    <2> QED
      BY <2>1 DEF Requests
  <1>3. CASE StartCheck
    BY <1>3 DEF StartCheck, At, To, serverVars, topologyVars, newsVars,
       fiberVars, requestVars, Requests, Types, MonitorTypes, Monitors
  <1>4. CASE HelloAnswered
    BY <1>4 DEF HelloAnswered, At, serverVars, topologyVars, newsVars,
       fiberVars, requestVars, Requests, Types, MonitorTypes, Monitors
  <1>5. CASE CheckFails
    BY <1>5 DEF CheckFails, At, Unanswered, serverVars, topologyVars, newsVars,
       fiberVars, requestVars, Requests, Types, MonitorTypes, Monitors
  <1>6. CASE EndCheck
    BY <1>6 DEF EndCheck, At, To, serverVars, topologyVars, newsVars,
       fiberVars, requestVars, Requests, Types, MonitorTypes, Monitors
  <1>7. CASE Apply
    BY <1>7 DEF Apply, At, serverVars, topologyVars, newsVars, fiberVars,
       requestVars, Requests, Types, MonitorTypes, Monitors
  <1>8. CASE MonitorPublishes
    BY <1>8 DEF MonitorPublishes, At, Ready, serverVars, topologyVars,
       newsVars, fiberVars, requestVars, Requests, Types, MonitorTypes,
       Monitors
  <1>9. CASE MonitorClears
    BY <1>9 DEF MonitorClears, At, Cleared, Stale, serverVars, topologyVars,
       newsVars, fiberVars, requestVars, Requests, Types, MonitorTypes,
       Monitors
  <1>10. CASE Decide
    BY <1>10 DEF Decide, At, To, Cools, serverVars, topologyVars, newsVars,
       fiberVars, requestVars, Requests, Types, MonitorTypes, Monitors
  <1>11. CASE Woken
    BY <1>11 DEF Woken, At, To, Cools, serverVars, topologyVars, newsVars,
       fiberVars, requestVars, Requests, Types, MonitorTypes, Monitors
  <1>12. CASE TimePasses
    BY <1>12 DEF TimePasses, At, To, serverVars, topologyVars, newsVars,
       fiberVars, requestVars, Requests, Types, MonitorTypes, Monitors
  <1>13. ASSUME NEW f \in Fiber, Send(f)
        PROVE  Requests'
    BY <1>13, WakeEffect DEF Send, Types, MonitorTypes, Requests
  <1>14. ASSUME NEW f \in Fiber, Rest(f)
        PROVE  Requests'
    BY <1>14, WakeEffect DEF Rest, Types, MonitorTypes, Requests
  <1>15. ASSUME NEW f \in Fiber, CancelCheck(f)
        PROVE  Requests'
    <2>1. PICK cut \in BOOLEAN : WakeMonitor([monitor EXCEPT !.cut = cut])
      BY <1>15 DEF CancelCheck, Types, MonitorTypes, Monitors
    <2>2. /\ [monitor EXCEPT !.cut = cut] \in Monitors
          /\ [monitor EXCEPT !.cut = cut].at = monitor.at
      BY <2>1 DEF Types, MonitorTypes, Monitors
    <2> QED
      BY <2>1, <2>2, WakeEffect DEF Types, Requests
  <1> QED
    BY <1>1, <1>2, <1>3, <1>4, <1>5, <1>6, <1>7, <1>8, <1>9, <1>10, <1>11,
       <1>12, <1>13, <1>14, <1>15
       DEF Next, Monitoring, Selecting, CheckingOut, Using

LEMMA FoundStep ==
  ASSUME Inductive, [Next]_vars
  PROVE  Found'
  <1> USE DEF Inductive
  <1>1. CASE Crash \/ Recover \/ UNCHANGED vars
    <2>1. UNCHANGED <<known, monitor, token, pc>>
      BY <1>1 DEF Crash, Recover, vars, topologyVars, fiberVars, requestVars
    <2> QED
      BY <2>1 DEF Found
  <1>2. CASE StartCheck
    BY <1>2 DEF StartCheck, At, To, serverVars, topologyVars, newsVars,
       fiberVars, requestVars, Found, Requests, Types, FiberTypes,
       MonitorTypes, Monitors, Places
  <1>3. CASE HelloAnswered
    BY <1>3 DEF HelloAnswered, At, serverVars, topologyVars, newsVars,
       fiberVars, requestVars, Found, Requests, Types, FiberTypes,
       MonitorTypes, Monitors, Places
  <1>4. CASE CheckFails
    BY <1>4 DEF CheckFails, At, Unanswered, serverVars, topologyVars, newsVars,
       fiberVars, requestVars, Found, Requests, Types, FiberTypes,
       MonitorTypes, Monitors, Places
  <1>5. CASE EndCheck
    BY <1>5 DEF EndCheck, At, To, serverVars, topologyVars, newsVars,
       fiberVars, requestVars, Found, Requests, Types, FiberTypes,
       MonitorTypes, Monitors, Places
  <1>6. CASE Apply
    BY <1>6, DescribeEffect DEF Apply, At, Found, Types, MonitorTypes, Monitors
  <1>7. CASE MonitorPublishes
    <2>1. /\ Announce(pc) /\ monitor.at = "publish" /\ UNCHANGED <<known, token>>
          /\ monitor'.answer = monitor.answer
      BY <1>7 DEF MonitorPublishes, At, Types, MonitorTypes, Monitors,
         topologyVars, requestVars
    <2>2. \A g \in Fiber : pc[g] \in {"tell", "cancel"} => pc'[g] = pc[g]
      BY <2>1, NotTold DEF Types, FiberTypes
    <2> QED
      BY <2>1, <2>2 DEF Found
  <1>8. CASE MonitorClears
    BY <1>8 DEF MonitorClears, At, Cleared, Stale, serverVars, topologyVars,
       newsVars, fiberVars, requestVars, Found, Requests, Types, FiberTypes,
       MonitorTypes, Monitors, Places
  <1>9. CASE Decide
    BY <1>9 DEF Decide, At, To, Cools, serverVars, topologyVars, newsVars,
       fiberVars, requestVars, Found, Requests, Types, FiberTypes,
       MonitorTypes, Monitors, Places
  <1>10. CASE Woken
    BY <1>10 DEF Woken, At, To, Cools, serverVars, topologyVars, newsVars,
       fiberVars, requestVars, Found, Requests, Types, FiberTypes,
       MonitorTypes, Monitors, Places
  <1>11. CASE TimePasses
    BY <1>11 DEF TimePasses, At, To, serverVars, topologyVars, newsVars,
       fiberVars, requestVars, Found, Requests, Types, FiberTypes,
       MonitorTypes, Monitors, Places
  <1>12. ASSUME NEW f \in Fiber, Begin(f)
        PROVE  Found'
    BY <1>12 DEF Begin, Goes, serverVars, topologyVars, newsVars, fiberVars,
       requestVars, Found, Requests, Types, FiberTypes, MonitorTypes, Monitors,
       Places
  <1>13. ASSUME NEW f \in Fiber, GiveUp(f)
        PROVE  Found'
    BY <1>13 DEF GiveUp, StopsWaiting, serverVars, topologyVars, newsVars,
       fiberVars, requestVars, Found, Requests, Types, FiberTypes,
       MonitorTypes, Monitors, Places
  <1>14. ASSUME NEW f \in Fiber, Select(f)
        PROVE  Found'
    BY <1>14 DEF Select, Goes, serverVars, topologyVars, newsVars, fiberVars,
       requestVars, Found, Requests, Types, FiberTypes, MonitorTypes, Monitors,
       Places
  <1>15. ASSUME NEW f \in Fiber, Send(f)
        PROVE  Found'
    BY <1>15, WakeEffect DEF Send, Goes, topologyVars, Found, Types,
       MonitorTypes, FiberTypes
  <1>16. ASSUME NEW f \in Fiber, Recheck(f)
        PROVE  Found'
    <2>1. pc[f] = "recheck" /\ \E to \in Places : pc' = [pc EXCEPT ![f] = to]
      BY <1>16, WaitEffect DEF Recheck, LooksAgain, Places
    <2> QED
      BY <1>16, <2>1 DEF Recheck, topologyVars, requestVars, Found, Types,
         FiberTypes
  <1>17. ASSUME NEW f \in Fiber, GetConnection(f)
        PROVE  Found'
    BY <1>17 DEF GetConnection, Goes, Ready, serverVars, topologyVars,
       newsVars, fiberVars, requestVars, Found, Requests, Types, FiberTypes,
       MonitorTypes, Monitors, Places
  <1>18. ASSUME NEW f \in Fiber, Take(f)
        PROVE  Found'
    BY <1>18 DEF Take, serverVars, topologyVars, newsVars, fiberVars,
       requestVars, Found, Requests, Types, FiberTypes, MonitorTypes, Monitors,
       Places
  <1>19. ASSUME NEW f \in Fiber, Rest(f)
        PROVE  Found'
    <2>1. pc' = [pc EXCEPT ![f] = IF news THEN LooksAgain("resting") ELSE "resting"]
      BY <1>19, WaitEffect DEF Rest
    <2> QED
      BY <1>19, <2>1, WakeEffect DEF Rest, topologyVars, Found, Types,
         MonitorTypes, FiberTypes
  <1>20. ASSUME NEW f \in Fiber, RestEnds(f)
        PROVE  Found'
    BY <1>20 DEF RestEnds, Goes, StopsWaiting, serverVars, topologyVars,
       newsVars, fiberVars, requestVars, Found, Requests, Types, FiberTypes,
       MonitorTypes, Monitors, Places
  <1>21. ASSUME NEW f \in Fiber, Established(f)
        PROVE  Found'
    BY <1>21, DescribeEffect DEF Established, Found
  <1>22. ASSUME NEW f \in Fiber, HelloFails(f)
        PROVE  Found'
    BY <1>22 DEF HelloFails, Goes, Unanswered, serverVars, topologyVars,
       newsVars, fiberVars, requestVars, Found, Requests, Types, FiberTypes,
       MonitorTypes, Monitors, Places
  <1>23. ASSUME NEW f \in Fiber, AuthenticationFails(f)
        PROVE  Found'
    <2>1. PICK clears \in BOOLEAN : ApplicationError(f, ~pool.cleared, clears)
      BY <1>23 DEF AuthenticationFails
    <2>2. (~pool.cleared) \in BOOLEAN /\ pc \in [Fiber -> Places]
      BY DEF Types, FiberTypes
    <2>3. /\ pc' = [pc EXCEPT ![f] = IF ~pool.cleared THEN "tell" ELSE "outside"]
          /\ ~(~pool.cleared) => known' = known
      BY <2>1, <2>2, ErrorEffect DEF Types
    <2>4. pc[f] \notin {"tell", "cancel"} /\ monitor' = monitor /\ token' = token
      BY <1>23 DEF AuthenticationFails, requestVars
    <2> QED
      BY <2>2, <2>3, <2>4 DEF Found
  <1>24. ASSUME NEW f \in Fiber, Publish(f)
        PROVE  Found'
    <2> DEFINE now == [pc EXCEPT ![f] = "join"]
    <2>1. /\ pc[f] = "publish" /\ Announce(now) /\ now \in [Fiber -> Places]
          /\ UNCHANGED <<known, monitor, token>>
      BY <1>24 DEF Publish, Types, FiberTypes, Places, topologyVars,
         requestVars
    <2>2. \A g \in Fiber : pc[g] \in {"tell", "cancel"} => pc'[g] = now[g]
      BY <2>1, NotTold
    <2>3. \A g \in Fiber : pc[g] \in {"tell", "cancel"} => now[g] \in {"tell", "cancel"}
      BY <2>1 DEF Types, FiberTypes
    <2> HIDE DEF now
    <2> QED
      BY <2>1, <2>2, <2>3 DEF Found
  <1>25. ASSUME NEW f \in Fiber, Join(f)
        PROVE  Found'
    BY <1>25 DEF Join, Goes, serverVars, topologyVars, newsVars, fiberVars,
       requestVars, Found, Requests, Types, FiberTypes, MonitorTypes, Monitors,
       Places
  <1>26. ASSUME NEW f \in Fiber, Answered(f)
        PROVE  Found'
    BY <1>26 DEF Answered, Goes, CheckedIn, serverVars, topologyVars, newsVars,
       fiberVars, requestVars, Found, Requests, Types, FiberTypes,
       MonitorTypes, Monitors, Places
  <1>27. ASSUME NEW f \in Fiber, TimesOut(f)
        PROVE  Found'
    BY <1>27 DEF TimesOut, Goes, serverVars, topologyVars, newsVars, fiberVars,
       requestVars, Found, Requests, Types, FiberTypes, MonitorTypes, Monitors,
       Places
  <1>28. ASSUME NEW f \in Fiber, ConnectionFails(f)
        PROVE  Found'
    <2>1. PICK clears \in BOOLEAN : ApplicationError(f, fresh[f], clears)
      BY <1>28 DEF ConnectionFails
    <2>2. (fresh[f]) \in BOOLEAN /\ pc \in [Fiber -> Places]
      BY DEF Types, FiberTypes
    <2>3. /\ pc' = [pc EXCEPT ![f] = IF fresh[f] THEN "tell" ELSE "outside"]
          /\ ~(fresh[f]) => known' = known
      BY <2>1, <2>2, ErrorEffect DEF Types
    <2>4. pc[f] \notin {"tell", "cancel"} /\ monitor' = monitor /\ token' = token
      BY <1>28 DEF ConnectionFails, requestVars
    <2> QED
      BY <2>2, <2>3, <2>4 DEF Found
  <1>29. ASSUME NEW f \in Fiber, StateChange(f)
        PROVE  Found'
    <2>1. PICK clears \in BOOLEAN : ApplicationError(f, fresh[f], clears)
      BY <1>29 DEF StateChange
    <2>2. (fresh[f]) \in BOOLEAN /\ pc \in [Fiber -> Places]
      BY DEF Types, FiberTypes
    <2>3. /\ pc' = [pc EXCEPT ![f] = IF fresh[f] THEN "tell" ELSE "outside"]
          /\ ~(fresh[f]) => known' = known
      BY <2>1, <2>2, ErrorEffect DEF Types
    <2>4. pc[f] \notin {"tell", "cancel"} /\ monitor' = monitor /\ token' = token
      BY <1>29 DEF StateChange, requestVars
    <2> QED
      BY <2>2, <2>3, <2>4 DEF Found
  <1>30. ASSUME NEW f \in Fiber, Tell(f)
        PROVE  Found'
    <2> DEFINE now == [pc EXCEPT ![f] = "cancel"]
    <2>1. /\ pc[f] = "tell" /\ Announce(now) /\ now \in [Fiber -> Places]
          /\ UNCHANGED <<known, monitor, token>>
      BY <1>30 DEF Tell, Types, FiberTypes, Places, topologyVars, requestVars
    <2>2. \A g \in Fiber : pc[g] \in {"tell", "cancel"} => pc'[g] = now[g]
      BY <2>1, NotTold
    <2>3. \A g \in Fiber : pc[g] \in {"tell", "cancel"} => now[g] \in {"tell", "cancel"}
      BY <2>1 DEF Types, FiberTypes
    <2> HIDE DEF now
    <2> QED
      BY <2>1, <2>2, <2>3 DEF Found
  <1>31. ASSUME NEW f \in Fiber, CancelCheck(f)
        PROVE  Found'
    <2>1. PICK cut \in BOOLEAN : WakeMonitor([monitor EXCEPT !.cut = cut])
      BY <1>31 DEF CancelCheck, Types, MonitorTypes, Monitors
    <2>2. [monitor EXCEPT !.cut = cut] \in Monitors
      BY <2>1 DEF Types, MonitorTypes, Monitors
    <2>3. token' \/ monitor'.answer = FALSE
      BY <2>1, <2>2, WakeEffect DEF Types
    <2> QED
      BY <2>3 DEF Found
  <1> QED
    BY <1>1, <1>2, <1>3, <1>4, <1>5, <1>6, <1>7, <1>8, <1>9, <1>10, <1>11,
       <1>12, <1>13, <1>14, <1>15, <1>16, <1>17, <1>18, <1>19, <1>20, <1>21,
       <1>22, <1>23, <1>24, <1>25, <1>26, <1>27, <1>28, <1>29, <1>30, <1>31
       DEF Next, Monitoring, Selecting, CheckingOut, Using

\* How the idle connections and those who hold one may change.
LEMMA Counted ==
  ASSUME Types, Connections,
         \/ pool'.idle = 0
         \/ pool'.idle = pool.idle /\ Holders' \subseteq Holders
         \/ pool'.idle = pool.idle - 1 /\ \E f \in Fiber : Holders' \subseteq Holders \cup {f}
         \/ pool'.idle = pool.idle + 1 /\ \E f \in Holders : Holders' \subseteq Holders \ {f}
  PROVE  pool'.idle + Cardinality(Holders') <= Cardinality(Fiber)
  <1> DEFINE H == Holders
             K == Holders'
             n == pool.idle
             m == pool'.idle
  <1>1. H \subseteq Fiber /\ K \subseteq Fiber /\ n \in Nat
        /\ n + Cardinality(H) <= Cardinality(Fiber)
    BY DEF Holders, Connections, Types, FiberTypes
  <1>2. /\ IsFiniteSet(H) /\ IsFiniteSet(K) /\ Cardinality(Fiber) \in Nat
        /\ Cardinality(K) <= Cardinality(Fiber)
        /\ Cardinality(H) \in Nat /\ Cardinality(K) \in Nat
    BY <1>1, FiberAssumption, FS_Subset, FS_CardinalityType
  <1>3. \/ m = 0
        \/ m = n /\ K \subseteq H
        \/ m = n - 1 /\ \E f \in Fiber : K \subseteq H \cup {f}
        \/ m = n + 1 /\ \E f \in H : K \subseteq H \ {f}
    OBVIOUS
  <1> SUFFICES m + Cardinality(K) <= Cardinality(Fiber)
    OBVIOUS
  <1> HIDE DEF H, K, n, m
  <1>4. CASE m = 0
    BY <1>2, <1>4
  <1>5. CASE m = n /\ K \subseteq H
    <2>1. Cardinality(K) <= Cardinality(H)
      BY <1>2, <1>5, FS_Subset
    <2> QED
      BY <1>1, <1>2, <1>5, <2>1
  <1>6. ASSUME m = n - 1, NEW f \in Fiber, K \subseteq H \cup {f}
        PROVE  m + Cardinality(K) <= Cardinality(Fiber)
    <2>1. /\ IsFiniteSet(H \cup {f})
          /\ Cardinality(H \cup {f}) \in {Cardinality(H), Cardinality(H) + 1}
      BY <1>2, FS_AddElement
    <2>2. Cardinality(K) <= Cardinality(H \cup {f})
      BY <1>6, <2>1, FS_Subset
    <2> QED
      BY <1>1, <1>2, <1>6, <2>1, <2>2
  <1>7. ASSUME m = n + 1, NEW f \in H, K \subseteq H \ {f}
        PROVE  m + Cardinality(K) <= Cardinality(Fiber)
    <2>1. IsFiniteSet(H \ {f}) /\ Cardinality(H \ {f}) = Cardinality(H) - 1
      BY <1>2, FS_RemoveElement
    <2>2. Cardinality(K) <= Cardinality(H \ {f})
      BY <1>7, <2>1, FS_Subset
    <2> QED
      BY <1>1, <1>2, <1>7, <2>1, <2>2
  <1> QED
    BY <1>3, <1>4, <1>5, <1>6, <1>7

LEMMA ErrorCounted ==
  ASSUME Types, Connections, NEW f \in Fiber, pc[f] \in {"hello", "use"},
         NEW current \in BOOLEAN, NEW clears \in BOOLEAN,
         ApplicationError(f, current, clears)
  PROVE  Connections'
  <1>1. pc' = [pc EXCEPT ![f] = IF current THEN "tell" ELSE "outside"]
    BY ErrorEffect DEF Types
  <1>2. CASE pool'.idle = 0 /\ fresh' = Stale
    BY <1>2, Counted DEF Stale, Connections
  <1>3. CASE current /\ pool' = pool /\ fresh' = fresh
    <2>1. Holders' \subseteq Holders
      BY <1>1, <1>3 DEF Holders, Types, FiberTypes
    <2>2. \A g \in Fiber : fresh'[g] => pc'[g] \in {"use", "tell", "cancel"}
      BY <1>1, <1>3 DEF Connections, Types, FiberTypes
    <2> QED
      BY <1>3, <2>1, <2>2, Counted DEF Connections
  <1>4. CASE ~current /\ pool' = pool /\ fresh' = [fresh EXCEPT ![f] = FALSE]
    <2>1. Holders' \subseteq Holders
      BY <1>1, <1>4 DEF Holders, Types, FiberTypes
    <2>2. \A g \in Fiber : fresh'[g] => pc'[g] \in {"use", "tell", "cancel"}
      BY <1>1, <1>4 DEF Connections, Types, FiberTypes
    <2> QED
      BY <1>4, <2>1, <2>2, Counted DEF Connections
  <1> QED
    BY <1>2, <1>3, <1>4, ErrorEffect DEF Types

LEMMA ConnectionsStep ==
  ASSUME Inductive, [Next]_vars
  PROVE  Connections'
  <1> USE DEF Inductive
  <1>1. CASE Crash \/ Recover \/ StartCheck \/ HelloAnswered \/ CheckFails \/
            EndCheck \/ Apply \/ Decide \/ Woken \/ TimePasses \/ UNCHANGED
            vars
    <2>1. UNCHANGED <<pool, pc, fresh>>
      BY <1>1 DEF Crash, Recover, StartCheck, HelloAnswered, CheckFails,
             EndCheck, Apply, Decide, Woken, TimePasses, vars, fiberVars
    <2> QED
      BY <2>1 DEF Connections, Holders
  <1>2. ASSUME NEW f \in Fiber,
               Begin(f) \/ GiveUp(f) \/ Select(f) \/ Send(f) \/ Recheck(f) \/
               GetConnection(f) \/ Rest(f) \/ RestEnds(f)
        PROVE  Connections'
    <2>1. /\ \E to \in {"select", "asked", "recheck", "selected", "take", "asleep",
                     "resting", "outside"} : pc' = [pc EXCEPT ![f] = to]
          /\ pc[f] \notin {"use", "tell", "cancel"} /\ fresh' = fresh
          /\ pool'.idle = pool.idle
      BY <1>2, WaitEffect
         DEF Begin, GiveUp, Select, Send, Recheck, GetConnection, Rest, RestEnds, Goes,
             Ready, LooksAgain, Types, FiberTypes
    <2>2. Holders' \subseteq Holders
      BY <2>1 DEF Holders, Types, FiberTypes
    <2>3. \A g \in Fiber : fresh'[g] => pc'[g] \in {"use", "tell", "cancel"}
      BY <2>1 DEF Connections, Types, FiberTypes
    <2> QED
      BY <2>1, <2>2, <2>3, Counted DEF Connections
  <1>3. CASE MonitorPublishes
    <2> DEFINE now == pc
    <2>1. Announce(now) /\ now \in [Fiber -> Places]
      BY <1>3 DEF MonitorPublishes, Types, FiberTypes
    <2>2. \A g \in Fiber :
            \/ pc'[g] = now[g]
            \/ pc[g] \in {"asleep", "resting"} /\ pc'[g] \in {"select", "take"}
      BY <2>1, AnnounceEffect, NotTold DEF LooksAgain
    <2>3. pool'.idle = pool.idle /\ fresh' = fresh
      BY <1>3 DEF MonitorPublishes, Ready, Types, FiberTypes
    <2>4. Holders' \subseteq Holders
      BY <2>1, <2>2, <2>3 DEF Holders, Types, FiberTypes
    <2>5. \A g \in Fiber : fresh'[g] => pc'[g] \in {"use", "tell", "cancel"}
      BY <2>1, <2>2, <2>3 DEF Connections, Types, FiberTypes
    <2> QED
      BY <2>3, <2>4, <2>5, Counted DEF Connections
  <1>4. CASE MonitorClears
    <2>1. pool'.idle = 0 /\ \A g \in Fiber : ~fresh'[g]
      BY <1>4 DEF MonitorClears, Cleared, Stale
    <2> QED
      BY <2>1, Counted DEF Connections
  <1>5. ASSUME NEW f \in Fiber, Take(f)
        PROVE  Connections'
    <2>1. pc[f] = "take" /\ ~fresh[f]
      BY <1>5 DEF Take, Connections
    <2>2. CASE pool.ready /\ pool.idle > 0
      <3>1. pc' = [pc EXCEPT ![f] = "use"] /\ fresh' = [fresh EXCEPT ![f] = TRUE]
            /\ pool'.idle = pool.idle - 1
        BY <1>5, <2>2 DEF Take, Types, FiberTypes
      <3>2. Holders' \subseteq Holders \cup {f}
        BY <2>1, <3>1 DEF Holders, Types, FiberTypes
      <3>3. \A g \in Fiber : fresh'[g] => pc'[g] \in {"use", "tell", "cancel"}
        BY <2>1, <3>1 DEF Connections, Types, FiberTypes
      <3> QED
        BY <3>1, <3>2, <3>3, Counted DEF Connections
    <2>3. CASE ~(pool.ready /\ pool.idle > 0)
      <3>1. /\ pc' = [pc EXCEPT ![f] = IF ~pool.ready THEN "nudged" ELSE "hello"]
            /\ fresh' = [fresh EXCEPT ![f] = FALSE] /\ pool' = pool
        BY <1>5, <2>3 DEF Take
      <3>2. \A g \in Fiber : fresh'[g] => pc'[g] \in {"use", "tell", "cancel"}
        BY <2>1, <3>1 DEF Connections, Types, FiberTypes
      <3>3. CASE pool.ready
        <4>1. pool'.idle = 0
          BY <2>3, <3>1, <3>3 DEF Types, FiberTypes
        <4> QED
          BY <3>2, <4>1, Counted DEF Connections
      <3>4. CASE ~pool.ready
        <4>1. Holders' \subseteq Holders
          BY <2>1, <3>1, <3>4 DEF Holders, Types, FiberTypes
        <4> QED
          BY <3>1, <3>2, <4>1, Counted DEF Connections
      <3> QED
        BY <3>3, <3>4
    <2> QED
      BY <2>2, <2>3
  <1>6. ASSUME NEW f \in Fiber, Established(f)
        PROVE  Connections'
    <2>1. pc[f] = "hello" /\ pc' = [pc EXCEPT ![f] = "publish"]
      BY <1>6 DEF Established, Goes
    <2>2. pool'.idle = pool.idle /\ Holders' \subseteq Holders
      BY <1>6, <2>1 DEF Established, Ready, Holders, Types, FiberTypes
    <2>3. \A g \in Fiber : fresh'[g] => pc'[g] \in {"use", "tell", "cancel"}
      BY <1>6, <2>1 DEF Established, Connections, Types, FiberTypes
    <2> QED
      BY <2>2, <2>3, Counted DEF Connections
  <1>7. ASSUME NEW f \in Fiber, HelloFails(f)
        PROVE  Connections'
    <2>1. pc[f] = "hello" /\ (pc' = [pc EXCEPT ![f] = "outside"] \/ pc' = [pc EXCEPT ![f] = "take"])
      BY <1>7 DEF HelloFails, Goes
    <2>2. pool'.idle = pool.idle /\ Holders' \subseteq Holders
      BY <1>7, <2>1 DEF HelloFails, Ready, Holders, Types, FiberTypes
    <2>3. \A g \in Fiber : fresh'[g] => pc'[g] \in {"use", "tell", "cancel"}
      BY <1>7, <2>1 DEF HelloFails, Connections, Types, FiberTypes
    <2> QED
      BY <2>2, <2>3, Counted DEF Connections
  <1>8. ASSUME NEW f \in Fiber, AuthenticationFails(f)
        PROVE  Connections'
    <2>1. PICK clears \in BOOLEAN : ApplicationError(f, ~pool.cleared, clears)
      BY <1>8 DEF AuthenticationFails
    <2>2. (~pool.cleared) \in BOOLEAN /\ pc[f] = "hello"
      BY <1>8 DEF AuthenticationFails, Types, FiberTypes
    <2> QED
      BY <2>1, <2>2, ErrorCounted
  <1>9. ASSUME NEW f \in Fiber, Publish(f)
        PROVE  Connections'
    <2> DEFINE now == [pc EXCEPT ![f] = "join"]
    <2>1. pc[f] = "publish" /\ Announce(now) /\ now \in [Fiber -> Places]
      BY <1>9 DEF Publish, Types, FiberTypes, Places
    <2>2. \A g \in Fiber :
            \/ pc'[g] = now[g]
            \/ pc[g] \in {"asleep", "resting"} /\ pc'[g] \in {"select", "take"}
      BY <2>1, AnnounceEffect, NotTold DEF LooksAgain
    <2>3. pool'.idle = pool.idle /\ fresh' = fresh
      BY <1>9 DEF Publish, Ready, Types, FiberTypes
    <2>4. Holders' \subseteq Holders
      BY <2>1, <2>2, <2>3 DEF Holders, Types, FiberTypes
    <2>5. \A g \in Fiber : fresh'[g] => pc'[g] \in {"use", "tell", "cancel"}
      BY <2>1, <2>2, <2>3 DEF Connections, Types, FiberTypes
    <2> QED
      BY <2>3, <2>4, <2>5, Counted DEF Connections
  <1>10. ASSUME NEW f \in Fiber, Join(f)
        PROVE  Connections'
    <2>1. /\ pc[f] = "join" /\ pc' = [pc EXCEPT ![f] = IF pool.ready THEN "use" ELSE "nudged"]
          /\ fresh' = [fresh EXCEPT ![f] = pool.ready] /\ pool' = pool
      BY <1>10 DEF Join, Goes
    <2>2. Holders' \subseteq Holders
      BY <2>1 DEF Holders, Types, FiberTypes
    <2>3. \A g \in Fiber : fresh'[g] => pc'[g] \in {"use", "tell", "cancel"}
      BY <2>1 DEF Connections, Types, FiberTypes
    <2> QED
      BY <2>1, <2>2, <2>3, Counted DEF Connections
  <1>11. ASSUME NEW f \in Fiber, Answered(f)
        PROVE  Connections'
    <2>1. /\ pc[f] = "use" /\ pc' = [pc EXCEPT ![f] = "outside"]
          /\ fresh' = [fresh EXCEPT ![f] = FALSE] /\ pool' = CheckedIn(f)
      BY <1>11 DEF Answered, Goes
    <2>2. \A g \in Fiber : fresh'[g] => pc'[g] \in {"use", "tell", "cancel"}
      BY <2>1 DEF Connections, Types, FiberTypes
    <2>3. Holders' \subseteq Holders \ {f}
      BY <2>1 DEF Holders, Types, FiberTypes
    <2>4. CASE fresh[f]
      <3>1. pool'.idle = pool.idle + 1 /\ f \in Holders
        BY <2>1, <2>4 DEF CheckedIn, Holders, Types, FiberTypes
      <3> QED
        BY <2>2, <2>3, <3>1, Counted DEF Connections
    <2>5. CASE ~fresh[f]
      <3>1. pool'.idle = pool.idle
        BY <2>1, <2>5 DEF CheckedIn
      <3> QED
        BY <2>2, <2>3, <3>1, Counted DEF Connections
    <2> QED
      BY <2>4, <2>5
  <1>12. ASSUME NEW f \in Fiber, TimesOut(f)
        PROVE  Connections'
    <2>1. pc[f] = "use" /\ pc' = [pc EXCEPT ![f] = "outside"]
      BY <1>12 DEF TimesOut, Goes
    <2>2. pool'.idle = pool.idle /\ Holders' \subseteq Holders
      BY <1>12, <2>1 DEF TimesOut, Ready, Holders, Types, FiberTypes
    <2>3. \A g \in Fiber : fresh'[g] => pc'[g] \in {"use", "tell", "cancel"}
      BY <1>12, <2>1 DEF TimesOut, Goes, Connections, Types, FiberTypes
    <2> QED
      BY <2>2, <2>3, Counted DEF Connections
  <1>13. ASSUME NEW f \in Fiber, ConnectionFails(f)
        PROVE  Connections'
    <2>1. PICK clears \in BOOLEAN : ApplicationError(f, fresh[f], clears)
      BY <1>13 DEF ConnectionFails
    <2>2. (fresh[f]) \in BOOLEAN /\ pc[f] = "use"
      BY <1>13 DEF ConnectionFails, Types, FiberTypes
    <2> QED
      BY <2>1, <2>2, ErrorCounted
  <1>14. ASSUME NEW f \in Fiber, StateChange(f)
        PROVE  Connections'
    <2>1. PICK clears \in BOOLEAN : ApplicationError(f, fresh[f], clears)
      BY <1>14 DEF StateChange
    <2>2. (fresh[f]) \in BOOLEAN /\ pc[f] = "use"
      BY <1>14 DEF StateChange, Types, FiberTypes
    <2> QED
      BY <2>1, <2>2, ErrorCounted
  <1>15. ASSUME NEW f \in Fiber, Tell(f)
        PROVE  Connections'
    <2> DEFINE now == [pc EXCEPT ![f] = "cancel"]
    <2>1. pc[f] = "tell" /\ Announce(now) /\ now \in [Fiber -> Places]
      BY <1>15 DEF Tell, Types, FiberTypes, Places
    <2>2. \A g \in Fiber :
            \/ pc'[g] = now[g]
            \/ pc[g] \in {"asleep", "resting"} /\ pc'[g] \in {"select", "take"}
      BY <2>1, AnnounceEffect, NotTold DEF LooksAgain
    <2>3. pool'.idle = pool.idle /\ fresh' = fresh
      BY <1>15 DEF Tell, Ready, Types, FiberTypes
    <2>4. Holders' \subseteq Holders
      BY <2>1, <2>2, <2>3 DEF Holders, Types, FiberTypes
    <2>5. \A g \in Fiber : fresh'[g] => pc'[g] \in {"use", "tell", "cancel"}
      BY <2>1, <2>2, <2>3 DEF Connections, Types, FiberTypes
    <2> QED
      BY <2>3, <2>4, <2>5, Counted DEF Connections
  <1>16. ASSUME NEW f \in Fiber, CancelCheck(f)
        PROVE  Connections'
    <2>1. /\ pc[f] = "cancel" /\ pc' = [pc EXCEPT ![f] = "outside"]
          /\ fresh' = [fresh EXCEPT ![f] = FALSE] /\ pool' = CheckedIn(f)
      BY <1>16 DEF CancelCheck, Goes
    <2>2. \A g \in Fiber : fresh'[g] => pc'[g] \in {"use", "tell", "cancel"}
      BY <2>1 DEF Connections, Types, FiberTypes
    <2>3. Holders' \subseteq Holders \ {f}
      BY <2>1 DEF Holders, Types, FiberTypes
    <2>4. CASE fresh[f]
      <3>1. pool'.idle = pool.idle + 1 /\ f \in Holders
        BY <2>1, <2>4 DEF CheckedIn, Holders, Types, FiberTypes
      <3> QED
        BY <2>2, <2>3, <3>1, Counted DEF Connections
    <2>5. CASE ~fresh[f]
      <3>1. pool'.idle = pool.idle
        BY <2>1, <2>5 DEF CheckedIn
      <3> QED
        BY <2>2, <2>3, <3>1, Counted DEF Connections
    <2> QED
      BY <2>4, <2>5
  <1> QED
    BY <1>1, <1>2, <1>3, <1>4, <1>5, <1>6, <1>7, <1>8, <1>9, <1>10, <1>11,
       <1>12, <1>13, <1>14, <1>15, <1>16
       DEF Next, Monitoring, Selecting, CheckingOut, Using

-----------------------------------------------------------------------------
(* The invariant, and what follows from it *)

LEMMA InitInductive == Init => Inductive
  <1> SUFFICES ASSUME Init PROVE Inductive
    OBVIOUS
  <1>1. ServerTypes
    <2>1. faults \in 0 .. MaxFaults /\ up \in BOOLEAN
      BY MaxFaultsAssumption DEF Init
    <2>2. known = FALSE /\ replaced = FALSE /\ news = FALSE
      BY DEF Init
    <2> QED
      BY <2>1, <2>2 DEF ServerTypes
  <1>2. FiberTypes
    BY DEF Init, FiberTypes, Places
  <1>3. MonitorTypes
    BY ToType DEF Init, MonitorTypes
  <1>4. Line
    <2>1. waiting = <<>> /\ waiting \in Seq(Fiber) /\ DOMAIN waiting = {}
      BY DEF Init
    <2>2. IsInjective(waiting) /\ ToSet(waiting) = {}
      BY <2>1 DEF IsInjective, ToSet
    <2>3. Waiters = {}
      BY DEF Init, Waiters
    <2> QED
      BY <2>1, <2>2, <2>3 DEF Line
  <1>5. Connections
    <2>1. Holders = {} /\ \A f \in Fiber : ~fresh[f]
      BY DEF Init, Holders
    <2>2. pool.idle = 0 /\ Cardinality({}) = 0 /\ Cardinality(Fiber) \in Nat
      BY FiberAssumption, FS_EmptySet, FS_CardinalityType DEF Init
    <2>3. Cardinality(Fiber) >= 0
      BY <2>2
    <2> QED
      BY <2>1, <2>2, <2>3 DEF Connections
  <1>6. Requests /\ Found
    BY ToType DEF Init, Requests, Found
  <1> QED
    BY <1>1, <1>2, <1>3, <1>4, <1>5, <1>6 DEF Inductive, Types

\* In every reachable state the line is right, connections are held by those
\* who count, and a request is where the monitor will meet it.
THEOREM MonitoringInvariant == Spec => []Inductive
  <1>1. Inductive /\ [Next]_vars => Inductive'
    BY ServerTypesStep, FiberTypesStep, MonitorTypesStep, LineStep, RequestsStep,
       FoundStep, ConnectionsStep
       DEF Inductive, Types
  <1> QED
    BY InitInductive, <1>1, PTL DEF Spec

\* Every variable holds a value of its kind; whoever waits on @topology_update is
\* in line once; only fibers with a connection hold a fresh one.
THEOREM MonitoringTypes == Spec => []TypeOK
  <1>1. ASSUME Inductive
        PROVE  TypeOK
    <2>1. pool \in [ready: BOOLEAN, cleared: BOOLEAN, idle: 0 .. Cardinality(Fiber)]
      <3>1. Holders \subseteq Fiber
        BY DEF Holders
      <3>2. Cardinality(Holders) \in Nat /\ Cardinality(Fiber) \in Nat
        BY <3>1, FiberAssumption, FS_Subset, FS_CardinalityType
      <3>3. pool.idle \in 0 .. Cardinality(Fiber)
        BY <1>1, <3>2 DEF Inductive, Types, FiberTypes, Connections
      <3> QED
        BY <1>1, <3>3 DEF Inductive, Types, FiberTypes
    <2>2. /\ waiting \in Seq(Fiber) /\ IsInjective(waiting)
          /\ ToSet(waiting) = {f \in Fiber : pc[f] \in {"asleep", "resting"}}
          /\ news => waiting = <<>>
      BY <1>1 DEF Inductive, Line, Waiters
    <2>3. ServerTypes /\ pc \in [Fiber -> Places] /\ MonitorTypes
      BY <1>1 DEF Inductive, Types, FiberTypes
    <2>4. /\ \A f \in Fiber : fresh[f] => pc[f] \in {"use", "tell", "cancel"}
          /\ token => monitor.at \notin {"asleep", "cooling"}
      BY <1>1 DEF Inductive, Connections, Requests
    <2> QED
      BY <2>1, <2>2, <2>3, <2>4 DEF TypeOK, ServerTypes, MonitorTypes, Monitors
  <1> QED
    BY MonitoringInvariant, <1>1, PTL

\* Monitor#scan does not sleep for a heartbeat on a scan that was asked for.
THEOREM MonitoringRequests == Spec => []RequestNotLost
  <1>1. Inductive => RequestNotLost
    BY DEF Inductive, Requests, RequestNotLost
  <1> QED
    BY MonitoringInvariant, <1>1, PTL

\* A server that handle_application_error marked Unknown is not left to the next
\* heartbeat.
THEOREM MonitoringUnknown == Spec => []UnknownIsRechecked
  <1>1. Inductive => UnknownIsRechecked
    BY DEF Inductive, Requests, Found, UnknownIsRechecked
  <1> QED
    BY MonitoringInvariant, <1>1, PTL
=============================================================================
