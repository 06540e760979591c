--------------------------- MODULE TopologyProofs ---------------------------
(***************************************************************************)
(* What holds of the client's view of its deployment for every scenario,   *)
(* every set of addresses and any number of monitor fibers: however the    *)
(* updates of monitors, connections, errors, the SRV poller and close are  *)
(* interleaved, each one meets a sound topology and leaves a sound one.    *)
(***************************************************************************)
EXTENDS Topology, TopologyUpdateProofs, FiniteSetTheorems

Fibre == [phase: {"none", "idle", "checking", "ending"},
          reply: Descriptions, stop: BOOLEAN]

EnvOK ==
  /\ scenario \in DOMAIN Scenarios /\ era \in 1 .. Len(Given.eras)
  /\ faults \in 0 .. Given.faults
  /\ handshakes \in 0 .. Given.handshakes

\* Monitors are added only to addresses that have none.
OneEach == \A p, q \in listed : p[1] = q[1] => p = q

Checking == {m \in Fibers : fiber[m].phase = "checking"}

\* Whatever a fiber is about to apply was made of a hello, or of none.
MonitorsOK ==
  /\ fiber \in [Fibers -> Fibre]
  /\ \A m \in Fibers : FromHello(fiber[m].reply)
  /\ listed \subseteq Fibers /\ \A m \in listed : fiber[m].phase # "none"
  /\ outdated \subseteq Checking
  /\ notify \in BOOLEAN
  /\ OneEach

AnswersOK == \A h \in answers : h \in Address \X Descriptions /\ FromHello(h[2])

\* The poller runs only if there is something to poll, and never while the
\* topology is load-balanced, whose servers have no description to start from.
PollOK ==
  /\ poll \in [phase: {"idle", "asked", "removing", "adding"},
               remove: SUBSET Address, add: SUBSET Address]
  /\ poll.phase # "idle" => Given.polls # <<>> /\ topology.type # "LoadBalanced"

CloseOK == closing \in {"no", "stopping", "closed"} /\ toStop \subseteq Fibers

IInv == Sound(topology) /\ EnvOK /\ MonitorsOK /\ AnswersOK /\ PollOK /\ CloseOK

-----------------------------------------------------------------------------
(* What never goes backwards *)

\* The versions of the servers and the elections of the primaries.
Forward(t, r) ==
  /\ Sound(r)
  /\ r.type = "LoadBalanced" => t.type = "LoadBalanced"
  /\ \A x \in Known(t) \cap Known(r) :
       LET before == t.servers[x].version
           after  == r.servers[x].version
       IN  before.process # 0 /\ before.process = after.process =>
             after.counter >= before.counter
  /\ \A x \in Known(r) :
       LET d == r.servers[x]
       IN  d.type = "RSPrimary" /\ t.type # "Single" /\ Modern(d) =>
             \/ d.electionId > t.maxElectionId
             \/ /\ d.electionId = t.maxElectionId
                /\ d.setVersion >= t.maxSetVersion

LEMMA SoundTypes ==
  ASSUME NEW t, Sound(t)
  PROVE  /\ Known(t) \subseteq Address
         /\ t.maxElectionId \in Nat /\ t.maxSetVersion \in Nat
         /\ \A x \in Known(t) :
              /\ t.servers[x] \in Descriptions
              /\ t.servers[x].electionId \in Nat /\ t.servers[x].setVersion \in Nat
              /\ t.servers[x].version.process \in Nat
              /\ t.servers[x].version.counter \in Nat
  <1>1. IsTopology(t)
    BY SoundAll
  <1>2. t.servers \in [Known(t) -> Descriptions]
    BY <1>1 DEF IsTopology, Known
  <1>3. \A d \in Descriptions :
          /\ d.electionId \in Nat /\ d.setVersion \in Nat
          /\ d.version.process \in Nat /\ d.version.counter \in Nat
    BY DEF Descriptions, Versions
  <1> QED
    BY <1>1, <1>2, <1>3 DEF IsTopology, Known

\* The primary there was is the last one elected.
LEMMA PrimaryStays ==
  ASSUME NEW t, Sound(t), t.type # "Single", NEW x \in Known(t),
         t.servers[x].type = "RSPrimary", Modern(t.servers[x])
  PROVE  /\ t.servers[x].electionId = t.maxElectionId
         /\ t.servers[x].setVersion = t.maxSetVersion
  <1>1. Fits(t, t.servers[x])
    BY SoundAll
  <1> QED
    BY <1>1 DEF Fits, WonLast

LEMMA SameForward ==
  ASSUME NEW t, Sound(t)
  PROVE  Forward(t, t)
  BY SoundTypes, PrimaryStays DEF Forward

LEMMA InheritsForward ==
  ASSUME NEW t, NEW r, Sound(t), Sound(r), r.type = t.type, Inherits(t, r)
  PROVE  Forward(t, r)
  <1>1. ASSUME NEW x \in Known(t) \cap Known(r),
               t.servers[x].version.process # 0,
               t.servers[x].version.process = r.servers[x].version.process
        PROVE  r.servers[x].version.counter >= t.servers[x].version.counter
    <2>1. r.servers[x].version = t.servers[x].version
      BY <1>1 DEF Inherits, NoVersion
    <2> QED
      BY <2>1, SoundTypes
  <1>2. ASSUME NEW x \in Known(r), r.servers[x].type = "RSPrimary",
               t.type # "Single", Modern(r.servers[x])
        PROVE  /\ r.servers[x].electionId = t.maxElectionId
               /\ r.servers[x].setVersion >= t.maxSetVersion
    <2>1. x \in Known(t) /\ r.servers[x] = t.servers[x]
      BY <1>2 DEF Inherits
    <2> QED
      BY <1>2, <2>1, PrimaryStays, SoundTypes
  <1> QED
    BY <1>1, <1>2 DEF Forward

LEMMA FollowsForward ==
  ASSUME NEW t, NEW r, NEW a, NEW d, Sound(t), FromHello(d), Follows(t, r, a, d),
         a \in Known(t) => Compare(t.servers[a].version, d.version) >= 0
  PROVE  Forward(t, r)
  <1>1. ASSUME NEW x \in Known(t) \cap Known(r),
               t.servers[x].version.process # 0,
               t.servers[x].version.process = r.servers[x].version.process
        PROVE  r.servers[x].version.counter >= t.servers[x].version.counter
    <2>1. CASE r.servers[x].version = NoVersion
      BY <1>1, <2>1 DEF NoVersion
    <2>2. CASE r.servers[x].version = t.servers[x].version
      BY <2>2, SoundTypes
    <2>3. CASE x = a /\ r.servers[x].version = d.version
      <3>1. d.version.counter \in Nat /\ t.servers[a].version.counter \in Nat
        BY <2>3, SoundTypes DEF FromHello, Descriptions, Versions
      <3>2. Compare(t.servers[a].version, d.version) >= 0
        BY <1>1, <2>3
      <3>3. Compare(t.servers[a].version, d.version)
              = d.version.counter - t.servers[a].version.counter
        BY <1>1, <2>3 DEF Compare
      <3> QED
        BY <2>3, <3>1, <3>2, <3>3
    <2> QED
      BY <2>1, <2>2, <2>3 DEF Follows
  <1>2. ASSUME NEW x \in Known(r), r.servers[x].type = "RSPrimary",
               t.type # "Single", Modern(r.servers[x])
        PROVE  \/ r.servers[x].electionId > t.maxElectionId
               \/ /\ r.servers[x].electionId = t.maxElectionId
                  /\ r.servers[x].setVersion >= t.maxSetVersion
    <2>1. CASE x \in Known(t) /\ r.servers[x] = t.servers[x]
      BY <1>2, <2>1, PrimaryStays, SoundTypes
    <2>2. CASE r.servers[x] = d /\ ~StalePrimary(t, d)
      <3>1. d.electionId \in Nat /\ d.setVersion \in Nat
        BY DEF FromHello, Descriptions
      <3>2. t.maxElectionId \in Nat /\ t.maxSetVersion \in Nat
        BY SoundTypes
      <3> QED
        BY <1>2, <2>2, <3>1, <3>2 DEF StalePrimary
    <2> QED
      BY <1>2, <2>1, <2>2 DEF Follows
  <1> QED
    BY <1>1, <1>2 DEF Forward, Follows

LEMMA CloseForward ==
  ASSUME NEW t, Sound(t)
  PROVE  Forward(t, CloseToUnknown(t))
  <1>1. PICK r : r = CloseToUnknown(t)
    OBVIOUS
  <1>2. /\ Sound(r) /\ r.type = "Unknown" /\ Known(r) = Known(t)
        /\ \A x \in Known(r) : /\ r.servers[x].type = "Unknown"
                               /\ \/ r.servers[x].version = NoVersion
                                  \/ r.servers[x] = t.servers[x]
    BY <1>1, CloseSound
  <1>3. Forward(t, r)
    BY <1>2, SoundTypes DEF Forward, NoVersion
  <1> QED
    BY <1>1, <1>3

-----------------------------------------------------------------------------
(* The first state *)

\* Nothing is known of the seeds.
LEMMA NewServerFits ==
  ASSUME NEW t, NEW s, t.lstm = 0, s.type \in Kinds(t.type),
         s.type \in {"Unknown", "LoadBalancer"}
  PROVE  Fits(t, s)
  BY DEF Fits, Members

LEMMA FirstSound ==
  ASSUME scenario \in DOMAIN Scenarios
  PROVE  Sound(FirstTopology) /\ FirstTopology.type = Given.type
  <1>1. Given \in ScenarioType
    BY ScenariosAssumption DEF Given
  <1>2. PICK s : s = IF LoadBalanced THEN [UnknownServer EXCEPT !.type = "LoadBalancer"]
                                     ELSE UnknownServer
    OBVIOUS
  <1>3. /\ s \in Descriptions
        /\ s.type = IF LoadBalanced THEN "LoadBalancer" ELSE "Unknown"
    BY <1>2, UnknownIsDescription DEF Descriptions, ServerTypes
  <1>4. PICK f : f = [a \in Given.seeds |-> s]
    OBVIOUS
  <1>5. PICK t : t = FirstTopology
    OBVIOUS
  <1>6. t = [type |-> Given.type, setName |-> Given.setName, maxSetVersion |-> 0,
             maxElectionId |-> 0, compatible |-> TRUE, lstm |-> 0, servers |-> f]
    BY <1>2, <1>4, <1>5 DEF FirstTopology
  <1>7. /\ Given.type \in TopologyTypes /\ Given.setName \in SetName \cup {None}
        /\ Given.seeds \subseteq Address
    BY <1>1 DEF ScenarioType
  <1>8. /\ f \in [Given.seeds -> Descriptions] /\ DOMAIN f = Given.seeds
        /\ \A a \in Given.seeds : f[a] = s
    BY <1>3, <1>4
  <1>9. t.type = Given.type /\ t.servers = f /\ t.lstm = 0 /\ Known(t) = Given.seeds
    BY <1>6, <1>8 DEF Known
  <1>10. IsTopology(t)
    BY <1>6, <1>7, <1>8 DEF IsTopology
  <1>11. s.type \in Kinds(t.type) /\ s.type \in {"Unknown", "LoadBalancer"}
    BY <1>3, <1>7, <1>9
       DEF LoadBalanced, Kinds, ReplicaSet, TopologyTypes, ServerTypes
  <1>12. Fits(t, s) /\ s.type # "RSPrimary"
    BY <1>9, <1>11, NewServerFits
  <1>13. Sound(t)
    BY <1>8, <1>9, <1>10, <1>12, SoundThen
  <1> QED
    BY <1>5, <1>9, <1>13

LEMMA IdleFibers ==
  /\ NoFiber \in Fibre /\ Scanning \in Fibre
  /\ FromHello(NoFiber.reply) /\ FromHello(Scanning.reply)
  /\ NoFiber.phase = "none" /\ Scanning.phase = "idle"
  BY UnknownIsDescription DEF NoFiber, Scanning, Fibre, FromHello, Members

LEMMA InitInv == Init => IInv
  <1> SUFFICES ASSUME Init PROVE IInv
    OBVIOUS
  <1>1. Given \in ScenarioType /\ Given.eras # <<>>
    BY ScenariosAssumption DEF Init, Given
  <1>2. Sound(topology)
    BY FirstSound DEF Init
  <1>3. EnvOK
    <2>1. Given.faults \in Nat /\ Given.handshakes \in Nat /\ Len(Given.eras) \in Nat \ {0}
      BY <1>1 DEF ScenarioType
    <2> QED
      BY <2>1 DEF Init, EnvOK
  <1>4. MonitorsOK
    <2>1. Given.seeds \X {1} \subseteq Fibers
      BY <1>1, SlotsAssumption DEF ScenarioType, Fibers
    <2>2. listed \subseteq Fibers /\ OneEach
      BY <2>1 DEF Init, OneEach
    <2>3. /\ fiber \in [Fibers -> Fibre]
          /\ \A m \in Fibers : FromHello(fiber[m].reply)
          /\ \A m \in listed : fiber[m].phase # "none"
      BY <2>2, IdleFibers DEF Init
    <2> QED
      BY <2>2, <2>3 DEF Init, MonitorsOK
  <1>5. AnswersOK /\ PollOK /\ CloseOK
    BY DEF Init, AnswersOK, PollOK, NoPoll, CloseOK
  <1> QED
    BY <1>2, <1>3, <1>4, <1>5 DEF IInv

-----------------------------------------------------------------------------
(* What a step leaves alone stays as it should be *)

LEMMA Frames ==
  ASSUME IInv
  PROVE  /\ UNCHANGED <<envVars, boundVars>> => EnvOK'
         /\ UNCHANGED topology => Sound(topology')
         /\ UNCHANGED monitorVars => MonitorsOK'
         /\ UNCHANGED answers => AnswersOK'
         /\ UNCHANGED closeVars => CloseOK'
  BY DEF IInv, EnvOK, envVars, boundVars, Given, MonitorsOK, monitorVars, OneEach,
         Checking, AnswersOK, CloseOK, closeVars

LEMMA PollFrame ==
  ASSUME IInv, UNCHANGED <<scenario, poll>>, Forward(topology, topology')
  PROVE  PollOK'
  BY DEF IInv, PollOK, Given, Forward

LEMMA ForwardFrame ==
  ASSUME IInv, UNCHANGED topology
  PROVE  Forward(topology, topology')
  BY SameForward DEF IInv

\* One fiber moves on.
LEMMA FiberMoved ==
  ASSUME MonitorsOK, NEW m \in Fibers, NEW new \in Fibre, FromHello(new.reply),
         fiber' = [fiber EXCEPT ![m] = new],
         listed' \subseteq listed, new.phase = "none" => m \notin listed',
         outdated' \subseteq outdated \cup Checking,
         new.phase # "checking" => m \notin outdated', notify' \in BOOLEAN
  PROVE  MonitorsOK'
  <1>1. /\ fiber' \in [Fibers -> Fibre] /\ fiber'[m] = new
        /\ \A p \in Fibers \ {m} : fiber'[p] = fiber[p]
    BY DEF MonitorsOK
  <1>2. \A p \in Fibers : FromHello(fiber'[p].reply)
    BY <1>1 DEF MonitorsOK
  <1>3. \A p \in listed' : p \in Fibers /\ fiber'[p].phase # "none"
    BY <1>1 DEF MonitorsOK
  <1>4. outdated' \subseteq Checking'
    BY <1>1 DEF MonitorsOK, Checking
  <1>5. OneEach'
    BY DEF MonitorsOK, OneEach
  <1> QED
    BY <1>1, <1>2, <1>3, <1>4, <1>5 DEF MonitorsOK

\* Servers are described anew, monitors are taken off the list.
LEMMA MonitorsNoted ==
  ASSUME MonitorsOK, UNCHANGED fiber, listed' \subseteq listed,
         outdated' \subseteq outdated \cup Checking, notify' \in BOOLEAN
  PROVE  MonitorsOK'
  BY DEF MonitorsOK, Checking, OneEach

LEMMA OutdatedChecks ==
  ASSUME NEW a
  PROVE  Outdated(a) \subseteq Checking
  BY DEF Outdated, Checking

LEMMA Environment ==
  ASSUME EnvOK, NEW a \in Address
  PROVE  /\ FromHello(Describes(a))
         /\ \A v \in ErrorVersions(a) : v \in Versions
  <1>1. \A e \in 1 .. Len(Given.eras) : FromHello(Given.eras[e][a])
    BY ScenariosAssumption DEF EnvOK, Given, ScenarioType
  <1>2. era \in 1 .. Len(Given.eras) /\ Len(Given.eras) \in Nat
    BY ScenariosAssumption DEF EnvOK, Given, ScenarioType
  <1>3. \A e \in 1 .. era : Given.eras[e][a].version \in Versions
    BY <1>1, <1>2 DEF FromHello, Descriptions
  <1>4. NoVersion \in Versions
    BY DEF NoVersion, Versions
  <1> QED
    BY <1>1, <1>2, <1>3, <1>4 DEF Describes, ErrorVersions

\* A description meets the topology: the heart of every step that brings one.
LEMMA UpdateMoves ==
  ASSUME IInv, NEW a \in Address, NEW d, FromHello(d), NEW caller, Update(a, d, caller)
  PROVE  /\ Forward(topology, topology')
         /\ outdated' \subseteq (outdated \cup Checking) \ caller
         /\ notify' \in BOOLEAN
         /\ a \notin Known(topology) => /\ topology'.servers = topology.servers
                                       /\ SameElection(topology, topology')
  <1>1. Sound(topology) /\ notify \in BOOLEAN
    BY DEF IInv, MonitorsOK
  <1>2. CASE Applies(topology, a, d)
    <2>1. /\ topology' = ApplyDescription(topology, a, d)
          /\ outdated' = (outdated \cup Outdated(a)) \ caller /\ notify' = TRUE
      BY <1>2 DEF Update
    <2>2. Follows(topology, topology', a, d)
      BY <1>1, <2>1, ApplyKeepsSound
    <2>3. Forward(topology, topology')
      BY <1>1, <1>2, <2>2, FollowsForward DEF Applies
    <2> QED
      BY <2>1, <2>2, <2>3, OutdatedChecks DEF Follows
  <1>3. CASE ~Applies(topology, a, d)
    <2>1. topology' = topology /\ outdated' = outdated \ caller /\ notify' = notify
      BY <1>3 DEF Update
    <2> QED
      BY <1>1, <2>1, SameForward DEF SameElection
  <1> QED
    BY <1>2, <1>3

-----------------------------------------------------------------------------
(* One lemma for each action *)

\* What every step does: it keeps the invariant, and nothing goes backwards.
Steps == IInv' /\ Forward(topology, topology')

LEMMA StepsThen ==
  ASSUME IInv, Forward(topology, topology'), UNCHANGED <<scenario, poll>>,
         EnvOK', MonitorsOK', AnswersOK', CloseOK'
  PROVE  Steps
  <1>1. Sound(topology') /\ PollOK'
    BY PollFrame DEF Forward
  <1> QED
    BY <1>1 DEF Steps, IInv

LEMMA NextEraSteps == ASSUME IInv, NextEra PROVE Steps
  <1>1. EnvOK'
    BY DEF IInv, EnvOK, NextEra, boundVars, Given
  <1>2. MonitorsOK' /\ AnswersOK' /\ CloseOK'
    BY Frames DEF NextEra
  <1>3. Forward(topology, topology') /\ UNCHANGED <<scenario, poll>>
    BY ForwardFrame DEF NextEra
  <1> QED
    BY <1>1, <1>2, <1>3, StepsThen

LEMMA WatchServersSteps == ASSUME IInv, WatchServers PROVE Steps
  <1>1. EnvOK' /\ AnswersOK' /\ CloseOK'
    BY Frames DEF WatchServers
  <1>2. Forward(topology, topology') /\ UNCHANGED <<scenario, poll>>
    BY ForwardFrame DEF WatchServers, envVars
  <1>3. MonitorsOK
    BY DEF IInv
  <1>4. CASE LoadBalanced
    <2>1. MonitorsOK'
      BY <1>3, <1>4, MonitorsNoted DEF WatchServers
    <2> QED
      BY <1>1, <1>2, <2>1, StepsThen
  <1>5. CASE ~LoadBalanced
    <2>1. PICK added : added = {<<a, Min(FreeSlots(a))>> : a \in Unwatched}
      OBVIOUS
    <2>2. /\ \A a \in Unwatched : FreeSlots(a) # {}
          /\ listed' = listed \cup added
          /\ fiber' = [m \in Fibers |-> IF m \in added THEN Scanning ELSE fiber[m]]
          /\ outdated' = outdated /\ notify' \in BOOLEAN
      BY <1>5, <2>1 DEF WatchServers
    <2>3. Unwatched \subseteq Address
      BY SoundTypes DEF IInv, Unwatched
    <2>4. \A a \in Unwatched : Min(FreeSlots(a)) \in FreeSlots(a)
      <3>1. \A a \in Unwatched : FreeSlots(a) \subseteq Nat
        BY SlotsAssumption DEF FreeSlots
      <3> QED
        BY <2>2, <3>1, LeastOf
    <2>5. \A p \in added : /\ p \in Fibers /\ fiber[p].phase = "none"
                           /\ p[1] \in Unwatched /\ p[2] \in 1 .. Slots
                           /\ p = <<p[1], Min(FreeSlots(p[1]))>>
      <3>1. ASSUME NEW p \in added
            PROVE  /\ p \in Fibers /\ fiber[p].phase = "none"
                   /\ p[1] \in Unwatched /\ p[2] \in 1 .. Slots
                   /\ p = <<p[1], Min(FreeSlots(p[1]))>>
        <4>1. PICK a \in Unwatched : p = <<a, Min(FreeSlots(a))>>
          BY <2>1
        <4>2. PICK i : i = Min(FreeSlots(a))
          OBVIOUS
        <4>3. p = <<a, i>> /\ i \in 1 .. Slots /\ fiber[<<a, i>>].phase = "none"
          BY <2>4, <4>1, <4>2 DEF FreeSlots
        <4> QED
          BY <2>3, <4>2, <4>3 DEF Fibers
      <3> QED
        BY <3>1
    <2>6. /\ fiber' \in [Fibers -> Fibre]
          /\ \A m \in Fibers \ added : fiber'[m] = fiber[m]
          /\ \A m \in added : fiber'[m] = Scanning
      BY <1>3, <2>2, <2>5, IdleFibers DEF MonitorsOK
    <2>7. \A m \in Fibers : FromHello(fiber'[m].reply)
      BY <1>3, <2>6, IdleFibers DEF MonitorsOK
    <2>8. listed' \subseteq Fibers /\ \A m \in listed' : fiber'[m].phase # "none"
      BY <1>3, <2>2, <2>5, <2>6, IdleFibers DEF MonitorsOK
    <2>9. outdated' \subseteq Checking'
      BY <1>3, <2>2, <2>5, <2>6 DEF MonitorsOK, Checking
    <2>10. OneEach'
      <3>1. \A p \in listed, q \in added : p[1] # q[1]
        BY <1>3, <2>5 DEF Unwatched, MonitorsOK, Fibers
      <3> QED
        BY <1>3, <2>2, <2>5, <3>1 DEF MonitorsOK, OneEach
    <2>11. MonitorsOK'
      BY <2>2, <2>6, <2>7, <2>8, <2>9, <2>10 DEF MonitorsOK
    <2> QED
      BY <1>1, <1>2, <2>11, StepsThen
  <1> QED
    BY <1>4, <1>5

LEMMA StartCheckSteps ==
  ASSUME IInv, NEW m \in Fibers, StartCheck(m)
  PROVE  Steps
  <1>1. EnvOK'
    <2>1. /\ faults' \in 0 .. Given.faults
          /\ UNCHANGED <<scenario, era, handshakes>>
      BY ScenariosAssumption
         DEF IInv, EnvOK, StartCheck, envVars, boundVars, Given, ScenarioType
    <2> QED
      BY <2>1 DEF IInv, EnvOK, Given
  <1>2. AnswersOK' /\ CloseOK'
    BY Frames DEF StartCheck
  <1>3. Forward(topology, topology') /\ UNCHANGED <<scenario, poll>>
    BY ForwardFrame DEF StartCheck, envVars
  <1>4. MonitorsOK'
    <2>1. MonitorsOK /\ fiber[m] \in Fibre /\ FromHello(fiber[m].reply)
      BY DEF IInv, MonitorsOK
    <2>2. m[1] \in Address
      BY DEF Fibers
    <2>3. FromHello(Describes(m[1])) /\ Describes(m[1]) \in Descriptions
      BY <2>2, Environment DEF IInv, FromHello
    <2>4. PICK new : /\ new \in {[fiber[m] EXCEPT !.phase = "checking",
                                                  !.reply = Describes(m[1])],
                                 [fiber[m] EXCEPT !.phase = "checking"]}
                     /\ fiber' = [fiber EXCEPT ![m] = new]
      BY DEF StartCheck
    <2>5. new \in Fibre /\ FromHello(new.reply) /\ new.phase = "checking"
      BY <2>1, <2>3, <2>4 DEF Fibre
    <2>6. listed' = listed /\ outdated' = outdated /\ notify' \in BOOLEAN
      BY <2>1 DEF StartCheck, MonitorsOK
    <2> QED
      BY <2>1, <2>4, <2>5, <2>6, FiberMoved
  <1> QED
    BY <1>1, <1>2, <1>3, <1>4, StepsThen

\* A check ends; what it brought may already be old.
LEMMA EndCheckBrings ==
  ASSUME IInv, NEW m \in Fibers, EndCheck(m)
  PROVE  /\ Forward(topology, topology')
         /\ outdated' \subseteq (outdated \cup Checking) \ {m}
         /\ notify' \in BOOLEAN
         /\ m[1] \notin Known(topology) => /\ topology'.servers = topology.servers
                                          /\ SameElection(topology, topology')
  <1>1. m[1] \in Address /\ FromHello(fiber[m].reply) /\ notify \in BOOLEAN
    BY DEF IInv, MonitorsOK, Fibers
  <1>2. CASE fiber[m].stop \/ AlreadyUnknown(m)
    <2>1. topology' = topology /\ outdated' = outdated \ {m} /\ notify' = notify
      BY <1>2 DEF EndCheck
    <2> QED
      BY <1>1, <2>1, SameForward DEF IInv, SameElection
  <1>3. CASE ~(fiber[m].stop \/ AlreadyUnknown(m))
    <2>1. PICK caller : caller = {m}
      OBVIOUS
    <2>2. Update(m[1], fiber[m].reply, caller)
      BY <1>3, <2>1 DEF EndCheck
    <2> QED
      BY <1>1, <2>1, <2>2, UpdateMoves
  <1> QED
    BY <1>2, <1>3

LEMMA EndCheckSteps ==
  ASSUME IInv, NEW m \in Fibers, EndCheck(m)
  PROVE  Steps
  <1>1. EnvOK' /\ AnswersOK' /\ CloseOK'
    BY Frames DEF EndCheck
  <1>2. Forward(topology, topology') /\ UNCHANGED <<scenario, poll>>
    BY EndCheckBrings DEF EndCheck, envVars
  <1>3. MonitorsOK'
    <2>1. MonitorsOK /\ fiber[m] \in Fibre
      BY DEF IInv, MonitorsOK
    <2>2. PICK new : /\ new = [Scanning EXCEPT !.stop = fiber[m].stop]
                     /\ fiber' = [fiber EXCEPT ![m] = new]
      BY DEF EndCheck, CheckEnds
    <2>3. new \in Fibre /\ FromHello(new.reply) /\ new.phase = "idle"
      BY <2>1, <2>2, IdleFibers DEF Fibre
    <2>4. /\ listed' = listed /\ outdated' \subseteq outdated \cup Checking
          /\ m \notin outdated' /\ notify' \in BOOLEAN
      BY EndCheckBrings DEF EndCheck
    <2> QED
      BY <2>1, <2>2, <2>3, <2>4, FiberMoved
  <1> QED
    BY <1>1, <1>2, <1>3, StepsThen

LEMMA EndScanSteps ==
  ASSUME IInv, NEW m \in Fibers, EndScan(m)
  PROVE  Steps
  <1>1. EnvOK' /\ AnswersOK' /\ CloseOK'
    BY Frames DEF EndScan
  <1>2. Forward(topology, topology') /\ UNCHANGED <<scenario, poll>>
    BY ForwardFrame DEF EndScan, envVars
  <1>3. MonitorsOK'
    <2>1. PICK new : /\ new = [NoFiber EXCEPT !.phase = "ending"]
                     /\ fiber' = [fiber EXCEPT ![m] = new]
      BY DEF EndScan
    <2>2. new \in Fibre /\ FromHello(new.reply) /\ new.phase = "ending"
      BY <2>1, IdleFibers DEF Fibre
    <2>3. MonitorsOK /\ m \notin outdated
      BY DEF IInv, MonitorsOK, Checking, EndScan
    <2>4. listed' = listed /\ outdated' = outdated /\ notify' \in BOOLEAN
      BY <2>3 DEF EndScan, MonitorsOK
    <2> QED
      BY <2>1, <2>2, <2>3, <2>4, FiberMoved
  <1> QED
    BY <1>1, <1>2, <1>3, StepsThen

LEMMA StopMonitoringSteps ==
  ASSUME IInv, NEW m \in Fibers, StopMonitoring(m)
  PROVE  Steps
  <1>1. EnvOK' /\ AnswersOK'
    BY Frames DEF StopMonitoring
  <1>2. Forward(topology, topology') /\ UNCHANGED <<scenario, poll>>
    BY ForwardFrame DEF StopMonitoring, envVars
  <1>3. CloseOK'
    BY DEF IInv, CloseOK, StopMonitoring
  <1>4. MonitorsOK'
    <2>1. MonitorsOK /\ m \notin outdated
      BY DEF IInv, MonitorsOK, Checking, StopMonitoring
    <2>2. fiber' = [fiber EXCEPT ![m] = NoFiber]
      BY DEF StopMonitoring
    <2>3. listed' \subseteq listed /\ m \notin listed'
      BY DEF StopMonitoring, Unlisted, Fibers
    <2>4. outdated' = outdated /\ notify' \in BOOLEAN
      BY <2>1 DEF StopMonitoring, MonitorsOK
    <2> QED
      BY <2>1, <2>2, <2>3, <2>4, IdleFibers, FiberMoved
  <1> QED
    BY <1>1, <1>2, <1>3, <1>4, StepsThen

LEMMA StopFiberSteps ==
  ASSUME IInv, NEW m \in Fibers, StopFiber(m)
  PROVE  Steps
  <1>1. EnvOK' /\ AnswersOK' /\ CloseOK'
    BY Frames DEF StopFiber
  <1>2. Forward(topology, topology') /\ UNCHANGED <<scenario, poll>>
    BY ForwardFrame DEF StopFiber, envVars
  <1>3. MonitorsOK'
    <2>1. MonitorsOK /\ fiber[m] \in Fibre /\ FromHello(fiber[m].reply)
      BY DEF IInv, MonitorsOK
    <2>2. PICK new : /\ new = [fiber[m] EXCEPT !.stop = TRUE]
                     /\ fiber' = [fiber EXCEPT ![m] = new]
      BY DEF StopFiber
    <2>3. new \in Fibre /\ FromHello(new.reply) /\ new.phase = fiber[m].phase
      BY <2>1, <2>2 DEF Fibre
    <2>4. listed' = listed /\ outdated' = outdated /\ notify' \in BOOLEAN
      BY <2>1 DEF StopFiber, MonitorsOK
    <2>5. new.phase = "none" => m \notin listed'
      BY <2>1, <2>3, <2>4 DEF MonitorsOK
    <2>6. new.phase # "checking" => m \notin outdated'
      BY <2>1, <2>3, <2>4 DEF MonitorsOK, Checking
    <2> QED
      BY <2>1, <2>2, <2>3, <2>4, <2>5, <2>6, FiberMoved
  <1> QED
    BY <1>1, <1>2, <1>3, StepsThen

-----------------------------------------------------------------------------
LEMMA StartHandshakeSteps ==
  ASSUME IInv, NEW a \in Address, StartHandshake(a)
  PROVE  Steps
  <1>1. EnvOK'
    <2>1. /\ handshakes' \in 0 .. Given.handshakes
          /\ UNCHANGED <<scenario, era, faults>>
      BY ScenariosAssumption
         DEF IInv, EnvOK, StartHandshake, envVars, boundVars, Given, ScenarioType
    <2> QED
      BY <2>1 DEF IInv, EnvOK, Given
  <1>2. MonitorsOK' /\ CloseOK'
    BY Frames DEF StartHandshake
  <1>3. Forward(topology, topology') /\ UNCHANGED <<scenario, poll>>
    BY ForwardFrame DEF StartHandshake, envVars
  <1>4. AnswersOK'
    <2>1. FromHello(Describes(a)) /\ Describes(a) \in Descriptions
      BY Environment DEF IInv, FromHello
    <2> QED
      BY <2>1 DEF IInv, AnswersOK, StartHandshake
  <1> QED
    BY <1>1, <1>2, <1>3, <1>4, StepsThen

LEMMA EndHandshakeBrings ==
  ASSUME IInv, NEW h \in answers, EndHandshake(h)
  PROVE  /\ Forward(topology, topology')
         /\ outdated' \subseteq outdated \cup Checking
         /\ notify' \in BOOLEAN
         /\ h[1] \notin Known(topology) => /\ topology'.servers = topology.servers
                                          /\ SameElection(topology, topology')
  <1>1. h[1] \in Address /\ FromHello(h[2])
    BY DEF IInv, AnswersOK
  <1>2. PICK caller : caller = {}
    OBVIOUS
  <1>3. Update(h[1], h[2], caller)
    BY <1>2 DEF EndHandshake
  <1> QED
    BY <1>1, <1>3, UpdateMoves

LEMMA EndHandshakeSteps ==
  ASSUME IInv, NEW h \in answers, EndHandshake(h)
  PROVE  Steps
  <1>1. EnvOK' /\ CloseOK'
    BY Frames DEF EndHandshake
  <1>2. Forward(topology, topology') /\ UNCHANGED <<scenario, poll>>
    BY EndHandshakeBrings DEF EndHandshake, envVars
  <1>3. AnswersOK'
    BY DEF IInv, AnswersOK, EndHandshake
  <1>4. MonitorsOK'
    BY EndHandshakeBrings, MonitorsNoted DEF IInv, EndHandshake
  <1> QED
    BY <1>1, <1>2, <1>3, <1>4, StepsThen

\* An error makes its server Unknown and may cut short the hello under way.
LEMMA ApplicationErrorSteps ==
  ASSUME IInv, NEW a \in Address, NEW v \in ErrorVersions(a), ApplicationError(a, v)
  PROVE  Steps
  <1>1. EnvOK'
    <2>1. /\ faults' \in 0 .. Given.faults
          /\ UNCHANGED <<scenario, era, handshakes>>
      BY ScenariosAssumption
         DEF IInv, EnvOK, ApplicationError, envVars, boundVars, Given, ScenarioType
    <2> QED
      BY <2>1 DEF IInv, EnvOK, Given
  <1>2. AnswersOK' /\ CloseOK'
    BY Frames DEF ApplicationError
  <1>3. UNCHANGED <<scenario, poll>>
    BY DEF ApplicationError, envVars
  <1>4. Forward(topology, topology')
    <2>1. PICK d : d = [UnknownServer EXCEPT !.version = v]
      OBVIOUS
    <2>2. v \in Versions
      BY Environment DEF IInv
    <2>3. FromHello(d) /\ d.version = v
      BY <2>1, <2>2, UnknownIsDescription DEF FromHello, Descriptions, Members
    <2>4. topology' = ApplyDescription(topology, a, d)
      BY <2>1 DEF ApplicationError
    <2>5. Follows(topology, topology', a, d)
      BY <2>3, <2>4, ApplyKeepsSound DEF IInv
    <2>6. Compare(topology.servers[a].version, v) >= 0
      <3>1. PICK n : n = Compare(topology.servers[a].version, v)
        OBVIOUS
      <3>2. n \in Int
        <4>1. a \in Known(topology)
          BY DEF ApplicationError
        <4>2. /\ topology.servers[a].version.counter \in Nat
              /\ v.counter \in Nat
          BY <2>2, <4>1, SoundTypes DEF IInv, Versions
        <4> QED
          BY <3>1, <4>2 DEF Compare
      <3>3. ~(n < 0)
        BY <3>1 DEF ApplicationError, ErrorStale
      <3> QED
        BY <3>1, <3>2, <3>3
    <2> QED
      BY <2>3, <2>5, <2>6, FollowsForward DEF IInv
  <1>5. MonitorsOK'
    <2>1. PICK cut \in SUBSET {m \in listed : m[1] = a /\ fiber[m].phase = "checking"} :
            /\ fiber' = [m \in Fibers |-> IF m \in cut
                                          THEN [fiber[m] EXCEPT !.reply = UnknownServer]
                                          ELSE fiber[m]]
            /\ outdated' = outdated \cup Outdated(a) \cup cut
      BY DEF ApplicationError
    <2>2. MonitorsOK /\ listed' = listed /\ notify' = TRUE
      BY DEF IInv, ApplicationError
    <2>3. FromHello(UnknownServer)
      BY IdleFibers, UnknownIsDescription DEF FromHello, Members
    <2>4. ASSUME NEW m \in Fibers
          PROVE  /\ fiber'[m] \in Fibre /\ FromHello(fiber'[m].reply)
                 /\ fiber'[m].phase = fiber[m].phase
      <3>1. fiber[m] \in Fibre /\ FromHello(fiber[m].reply)
        BY <2>2 DEF MonitorsOK
      <3>2. CASE m \in cut
        <4>1. PICK new : new = [fiber[m] EXCEPT !.reply = UnknownServer]
          OBVIOUS
        <4>2. /\ new \in Fibre /\ new.reply = UnknownServer
              /\ new.phase = fiber[m].phase
          BY <3>1, <4>1, UnknownIsDescription DEF Fibre
        <4> QED
          BY <2>1, <2>3, <3>2, <4>1, <4>2
      <3>3. CASE m \notin cut
        BY <2>1, <3>1, <3>3
      <3> QED
        BY <3>2, <3>3
    <2>5. fiber' \in [Fibers -> Fibre]
      BY <2>1, <2>4
    <2>6. \A m \in listed' : m \in Fibers /\ fiber'[m].phase # "none"
      BY <2>2, <2>4 DEF MonitorsOK
    <2>7. outdated' \subseteq Checking'
      BY <2>1, <2>2, <2>4, OutdatedChecks DEF MonitorsOK, Checking
    <2> QED
      BY <2>2, <2>4, <2>5, <2>6, <2>7 DEF MonitorsOK, OneEach
  <1> QED
    BY <1>1, <1>2, <1>3, <1>4, <1>5, StepsThen

-----------------------------------------------------------------------------
\* A step of the poller leaves the environment, the answers and Client#close.
LEMMA PollSteps ==
  ASSUME IInv, Polling, PollOK', Forward(topology, topology'), MonitorsOK'
  PROVE  Steps
  <1>1. EnvOK' /\ AnswersOK' /\ CloseOK'
    BY Frames DEF Polling, PollBegins, PollAnswers, PollLimits, PollEnds,
                  PollRemoves, PollAdds
  <1> QED
    BY <1>1 DEF Steps, IInv, Forward

LEMMA PollTalks ==
  ASSUME IInv, PollBegins \/ PollAnswers \/ PollLimits \/ PollEnds
  PROVE  Steps
  <1>1. UNCHANGED <<scenario, era, topology>> /\ Forward(topology, topology') /\ MonitorsOK'
    BY ForwardFrame, Frames
       DEF PollBegins, PollAnswers, PollLimits, PollEnds, envVars
  <1>2. Known(topology) \subseteq Address /\ PollOK
    BY SoundTypes DEF IInv
  <1>3. ASSUME PollBegins PROVE PollOK'
    BY <1>1, <1>2, <1>3 DEF PollOK, PollBegins, Given
  <1>4. ASSUME PollAnswers PROVE PollOK'
    <2>1. Given.polls[era] \subseteq Address
      <3>1. Given.polls # <<>>
        BY <1>2, <1>4 DEF PollOK, PollAnswers
      <3>2. /\ Given.polls \in Seq(SUBSET Address)
            /\ era \in 1 .. Len(Given.polls)
        BY <3>1, ScenariosAssumption DEF IInv, EnvOK, Given, ScenarioType
      <3> QED
        BY <3>2
    <2> QED
      BY <1>1, <1>2, <1>4, <2>1 DEF PollOK, PollAnswers, Given
  <1>5. ASSUME PollLimits PROVE PollOK'
    <2>1. PICK chosen \in kSubset(Room, poll.add) :
            poll' = [poll EXCEPT !.phase = "adding", !.add = chosen]
      BY <1>5 DEF PollLimits
    <2>2. chosen \subseteq Address
      BY <1>2, <2>1 DEF kSubset, PollOK
    <2> QED
      BY <1>1, <1>2, <1>5, <2>1, <2>2 DEF PollOK, PollLimits, Given
  <1>6. ASSUME PollEnds PROVE PollOK'
    BY <1>1, <1>2, <1>6 DEF PollOK, PollEnds, NoPoll, Given
  <1>7. PollOK'
    BY <1>3, <1>4, <1>5, <1>6
  <1> QED
    BY <1>1, <1>7, PollSteps DEF Polling

LEMMA PollRemovesSteps ==
  ASSUME IInv, NEW a \in Address, PollRemoves(a)
  PROVE  Steps
  <1>1. Forward(topology, topology')
    <2>1. CASE a \in Known(topology)
      <3>1. topology' = Remove(topology, a)
        BY <2>1 DEF PollRemoves
      <3>2. SoundBut(topology, None) /\ None \in {a, None}
        BY DEF IInv, Sound
      <3>3. /\ Sound(topology') /\ topology'.type = topology.type
            /\ Inherits(topology, topology')
        BY <3>1, <3>2, RemoveEffect
      <3> QED
        BY <3>3, InheritsForward DEF IInv
    <2>2. CASE a \notin Known(topology)
      BY <2>2, ForwardFrame DEF PollRemoves
    <2> QED
      BY <2>1, <2>2
  <1>2. MonitorsOK'
    BY OutdatedChecks, MonitorsNoted
       DEF IInv, MonitorsOK, PollRemoves, Unlisted
  <1>3. PollOK'
    <2>1. poll' = [poll EXCEPT !.remove = @ \ {a}] /\ scenario' = scenario
      BY DEF PollRemoves, envVars
    <2> QED
      BY <1>1, <2>1 DEF IInv, PollOK, Given, Forward
  <1> QED
    BY <1>1, <1>2, <1>3, PollSteps DEF Polling

LEMMA PollAddsSteps ==
  ASSUME IInv, NEW a \in Address, PollAdds(a)
  PROVE  Steps
  <1>1. Forward(topology, topology')
    <2>1. CASE a \notin Known(topology)
      <3>1. PICK hosts : hosts = {a}
        OBVIOUS
      <3>2. topology' = AddHosts(topology, hosts)
        BY <2>1, <3>1 DEF PollAdds
      <3>3. /\ SoundBut(topology, None) /\ topology.type # "LoadBalanced"
            /\ hosts \in SUBSET Address
        BY <3>1 DEF IInv, Sound, PollOK, PollAdds
      <3>4. /\ SoundBut(topology', None) /\ topology'.type = topology.type
            /\ Inherits(topology, topology')
        BY <3>2, <3>3, AddEffect
      <3> QED
        BY <3>4, InheritsForward DEF IInv, Sound
    <2>2. CASE a \in Known(topology)
      BY <2>2, ForwardFrame DEF PollAdds
    <2> QED
      BY <2>1, <2>2
  <1>2. MonitorsOK'
    BY OutdatedChecks, MonitorsNoted DEF IInv, MonitorsOK, PollAdds
  <1>3. PollOK'
    <2>1. poll' = [poll EXCEPT !.add = @ \ {a}] /\ scenario' = scenario
      BY DEF PollAdds, envVars
    <2> QED
      BY <1>1, <2>1 DEF IInv, PollOK, Given, Forward
  <1> QED
    BY <1>1, <1>2, <1>3, PollSteps DEF Polling

-----------------------------------------------------------------------------
LEMMA CloseBeginsSteps == ASSUME IInv, CloseBegins PROVE Steps
  <1>1. EnvOK' /\ MonitorsOK' /\ AnswersOK'
    BY Frames DEF CloseBegins
  <1>2. Forward(topology, topology') /\ UNCHANGED <<scenario, poll>>
    BY ForwardFrame DEF CloseBegins, envVars
  <1>3. CloseOK'
    BY DEF IInv, MonitorsOK, CloseOK, CloseBegins
  <1> QED
    BY <1>1, <1>2, <1>3, StepsThen

LEMMA CloseEndsSteps == ASSUME IInv, CloseEnds PROVE Steps
  <1>1. EnvOK' /\ AnswersOK'
    BY Frames DEF CloseEnds
  <1>2. Forward(topology, topology') /\ UNCHANGED <<scenario, poll>>
    BY CloseForward DEF IInv, CloseEnds, envVars
  <1>3. CloseOK'
    BY DEF IInv, CloseOK, CloseEnds
  <1>4. MonitorsOK'
    <2>1. outdated' \subseteq outdated \cup Checking
      BY OutdatedChecks DEF CloseEnds
    <2> QED
      BY <2>1, MonitorsNoted DEF IInv, MonitorsOK, CloseEnds
  <1> QED
    BY <1>1, <1>2, <1>3, <1>4, StepsThen

LEMMA StutterSteps == ASSUME IInv, UNCHANGED vars PROVE Steps
  <1>1. EnvOK' /\ MonitorsOK' /\ AnswersOK' /\ CloseOK'
    BY Frames DEF vars
  <1>2. Forward(topology, topology') /\ UNCHANGED <<scenario, poll>>
    BY ForwardFrame DEF vars, envVars
  <1> QED
    BY <1>1, <1>2, StepsThen

-----------------------------------------------------------------------------
(* The theorems *)

LEMMA NextSteps == ASSUME IInv, Next PROVE Steps
  <1>1. CASE NextEra
    BY <1>1, NextEraSteps
  <1>2. CASE \E m \in Fibers : Monitoring(m) \/ StopFiber(m)
    <2>1. PICK m \in Fibers : Monitoring(m) \/ StopFiber(m)
      BY <1>2
    <2> QED
      BY <2>1, StartCheckSteps, EndCheckSteps, EndScanSteps, StopMonitoringSteps,
         StopFiberSteps DEF Monitoring
  <1>3. CASE WatchServers
    BY <1>3, WatchServersSteps
  <1>4. CASE \E a \in Address : StartHandshake(a)
    BY <1>4, StartHandshakeSteps
  <1>5. CASE \E h \in answers : EndHandshake(h)
    BY <1>5, EndHandshakeSteps
  <1>6. CASE \E a \in Address : \E v \in ErrorVersions(a) : ApplicationError(a, v)
    BY <1>6, ApplicationErrorSteps
  <1>7. CASE Polling
    BY <1>7, PollTalks, PollRemovesSteps, PollAddsSteps DEF Polling
  <1>8. CASE CloseBegins \/ CloseEnds
    BY <1>8, CloseBeginsSteps, CloseEndsSteps
  <1> QED
    BY <1>1, <1>2, <1>3, <1>4, <1>5, <1>6, <1>7, <1>8 DEF Next

\* The invariant the other theorems are read off from, however the answers of
\* monitors and connections, errors, polls and close are interleaved.
THEOREM TopologyInvariant == Spec => []IInv
  <1>1. IInv /\ [Next]_vars => IInv'
    BY NextSteps, StutterSteps DEF Steps
  <1> QED
    BY <1>1, InitInv, PTL DEF Spec

\* Every variable of the client's view holds a value of its kind.
THEOREM TopologyTypeCorrect == Spec => []TypeOK
  <1>1. IInv => TypeOK
    <2>1. IInv => IsTopology(topology)
      BY SoundAll DEF IInv
    <2>2. IInv => answers \subseteq Address \X Descriptions
      BY DEF IInv, AnswersOK
    <2> QED
      BY <2>1, <2>2 DEF IInv, TypeOK, EnvOK, MonitorsOK, Fibre, Checking, PollOK, CloseOK
  <1> QED
    BY <1>1, TopologyInvariant, PTL

\* Two things that are one can be counted.
LEMMA OneAtMost ==
  ASSUME NEW S, \A x, y \in S : x = y
  PROVE  Cardinality(S) <= 1
  <1>1. CASE S = {}
    BY <1>1, FS_EmptySet
  <1>2. CASE S # {}
    <2>1. PICK x \in S : TRUE
      BY <1>2
    <2>2. S = {x}
      BY <2>1
    <2> QED
      BY <2>2, FS_Singleton
  <1> QED
    BY <1>1, <1>2

\* At most one primary, and the topology's type shows it.
THEOREM TopologyOnePrimary == Spec => []OnePrimary
  <1>1. ASSUME Sound(topology), topology.type # "Single"
        PROVE  /\ Cardinality(Primaries) <= 1
               /\ Primaries # {} => topology.type = "ReplicaSetWithPrimary"
    <2>1. \A x, y \in Primaries : x = y
      BY <1>1, NoneUnknown DEF Sound, SoundBut, Primaries
    <2>2. Primaries # {} => topology.type = "ReplicaSetWithPrimary"
      BY <1>1, SoundAll DEF Primaries, Fits
    <2> QED
      BY <2>1, <2>2, OneAtMost
  <1>2. IInv => OnePrimary
    BY <1>1 DEF IInv, OnePrimary
  <1> QED
    BY <1>2, TopologyInvariant, PTL

\* The primary is who won the last election recorded (update_rs_from_primary).
THEOREM TopologyPrimaryIsNewest == Spec => []PrimaryIsNewest
  <1>1. IInv => PrimaryIsNewest
    BY SoundAll DEF IInv, PrimaryIsNewest, Primaries, Fits, WonLast
  <1> QED
    BY <1>1, TopologyInvariant, PTL

\* No data-bearing server hides behind the session timeout recorded.
THEOREM TopologySessionTimeout == Spec => []SessionTimeoutSafe
  <1>1. IInv => SessionTimeoutSafe
    BY SoundAll DEF IInv, SessionTimeoutSafe, Fits
  <1> QED
    BY <1>1, TopologyInvariant, PTL

\* No server of another kind of deployment, or of another set, stays.
THEOREM TopologyServersBelong == Spec => []ServersBelong
  <1>1. ASSUME Sound(topology), NEW a \in Known(topology)
        PROVE  /\ topology.servers[a].type \in Kinds(topology.type)
               /\ topology.type # "Unknown" /\ topology.servers[a].type \in Members
                  /\ topology.setName # None =>
                    topology.servers[a].setName = topology.setName
    <2>1. Fits(topology, topology.servers[a]) /\ topology.type \in TopologyTypes
      BY <1>1, SoundAll DEF IsTopology
    <2> QED
      BY <2>1 DEF Fits, Kinds, ReplicaSet, TopologyTypes, Members
  <1>2. Sound(topology) => ServersBelong
    BY <1>1 DEF ServersBelong, Kinds, ReplicaSet
  <1> QED
    BY <1>2, TopologyInvariant, PTL DEF IInv

\* Monitors are added only where there is none (on_topology_update).
THEOREM TopologyOneMonitorListed == Spec => []OneMonitorListed
  <1>1. ASSUME OneEach, NEW a
        PROVE  Cardinality({i \in 1 .. Slots : <<a, i>> \in listed}) <= 1
    <2>1. PICK S : S = {i \in 1 .. Slots : <<a, i>> \in listed}
      OBVIOUS
    <2>2. \A i, j \in S : i = j
      <3>1. \A i, j \in S : <<a, i>> = <<a, j>>
        BY <1>1, <2>1 DEF OneEach
      <3> QED
        BY <3>1
    <2> QED
      BY <2>1, <2>2, OneAtMost
  <1>2. IInv => OneMonitorListed
    BY <1>1 DEF IInv, MonitorsOK, OneMonitorListed
  <1> QED
    BY <1>2, TopologyInvariant, PTL

\* Nothing older of the same process replaces what a server said later.
THEOREM TopologyVersions == Spec => VersionNeverBack
  <1>1. IInv /\ [Next]_vars =>
          [\A a \in Known(topology) \cap Known(topology') :
             LET before == topology.servers[a].version
                 after  == topology'.servers[a].version
             IN  before.process # 0 /\ before.process = after.process =>
                   after.counter >= before.counter]_vars
    BY NextSteps DEF Steps, Forward
  <1> QED
    BY <1>1, TopologyInvariant, PTL DEF Spec, VersionNeverBack

\* No primary of 6.0 or later is taken over a later election than its own.
THEOREM TopologyElections == Spec => ElectionNeverBack
  <1>1. IInv /\ [Next]_vars =>
          [\A a \in Primaries' :
             LET d == topology'.servers[a]
             IN  topology.type # "Single" /\ Modern(d) =>
                   \/ d.electionId > topology.maxElectionId
                   \/ /\ d.electionId = topology.maxElectionId
                      /\ d.setVersion >= topology.maxSetVersion]_vars
    BY NextSteps DEF Steps, Forward, Primaries
  <1> QED
    BY <1>1, TopologyInvariant, PTL DEF Spec, ElectionNeverBack

\* What a removed server answers too late changes nothing but the type.
THEOREM TopologyRemovedServer == Spec => RemovedServerSilent
  <1>1. IInv =>
          \A a \in Address \ Known(topology) :
            (\/ \E m \in Fibers : m[1] = a /\ EndCheck(m)
             \/ \E h \in answers : h[1] = a /\ EndHandshake(h)) =>
              /\ topology'.servers = topology.servers
              /\ topology'.setName = topology.setName
              /\ topology'.maxElectionId = topology.maxElectionId
              /\ topology'.maxSetVersion = topology.maxSetVersion
    BY EndCheckBrings, EndHandshakeBrings DEF SameElection
  <1> QED
    BY <1>1, TopologyInvariant, PTL DEF RemovedServerSilent
=============================================================================
