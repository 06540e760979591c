------------------------------ MODULE Topology ------------------------------
(***************************************************************************)
(* The topology of one client while its deployment changes under it: one   *)
(* monitor fiber per server, connections being set up for commands,        *)
(* application errors, the SRV poller and Client#close. All of them take   *)
(* the topology lock for one TopologyUpdate at a time, but what they bring *)
(* was read before: an answer may be older than what the topology knows,   *)
(* or come from a server that is no longer in it.                          *)
(*                                                                         *)
(* The servers are the environment. A scenario fixes how each of them      *)
(* would describe itself in successive eras, and how many faults and       *)
(* connection handshakes a behaviour may contain.                          *)
(***************************************************************************)
EXTENDS TopologyUpdate, Sequences

CONSTANTS
  Scenarios,  \* a function from their names to their records (ScenarioType)
  Slots       \* monitor fibers that may exist at a time for one address

ScenarioType ==
  [type: TopologyTypes, setName: SetName \cup {None}, \* from the options
   seeds: SUBSET Address,
   eras: Seq([Address -> Descriptions]), \* UnknownServer: unreachable
   polls: Seq(SUBSET Address),           \* what DNS answers; <<>>: no SRV
   maxHosts: Nat,                        \* srvMaxHosts
   faults: Nat, handshakes: Nat,         \* bounds of the behaviour
   closes: BOOLEAN,                      \* whether the client may close
   goalType: TopologyTypes,              \* what the last era amounts to
   goalServers: SUBSET Address]

ASSUME SlotsAssumption == Slots \in Nat \ {0}
ASSUME ScenariosAssumption ==
  \A name \in DOMAIN Scenarios :
    LET given == Scenarios[name]
    IN  /\ given \in ScenarioType
        /\ given.eras # <<>>
        /\ given.polls = <<>> \/ Len(given.polls) >= Len(given.eras)
        /\ \A e \in DOMAIN given.eras : \A a \in Address :
             FromHello(given.eras[e][a])

Fibers == Address \X (1 .. Slots)

VARIABLES
  scenario, era,       \* the environment
  faults, handshakes,  \* what is left of the scenario's bounds
  topology,
  fiber,     \* Monitor#scan, per address and slot
  listed,    \* Client@monitors
  outdated,  \* fibers whose server was described anew during their check
  notify,    \* an on_topology_update is due
  answers,   \* hellos of connections being set up, not yet applied
  poll,      \* SrvPoller#rescan
  closing, toStop  \* Client#close

envVars == <<scenario, era>>
boundVars == <<faults, handshakes>>
monitorVars == <<fiber, outdated, listed, notify>>
closeVars == <<closing, toStop>>
vars == <<envVars, boundVars, topology, monitorVars, answers, poll, closeVars>>

NoFiber == [phase |-> "none", reply |-> UnknownServer, stop |-> FALSE]
Scanning == [NoFiber EXCEPT !.phase = "idle"]
NoPoll == [phase |-> "idle", remove |-> {}, add |-> {}]

\* What the environment is given in this behaviour.
Given == Scenarios[scenario]

LoadBalanced == Given.type = "LoadBalanced"

FirstTopology ==
  [type |-> Given.type, setName |-> Given.setName, maxSetVersion |-> 0,
   maxElectionId |-> 0, compatible |-> TRUE, lstm |-> 0,
   servers |-> [a \in Given.seeds |->
                  IF LoadBalanced
                  THEN [UnknownServer EXCEPT !.type = "LoadBalancer"]
                  ELSE UnknownServer]]

Init ==
  /\ scenario \in DOMAIN Scenarios
  /\ era = 1
  /\ faults = Given.faults
  /\ handshakes = Given.handshakes
  /\ topology = FirstTopology
  /\ listed = IF LoadBalanced THEN {} ELSE Given.seeds \X {1}
  /\ fiber = [m \in Fibers |-> IF m \in listed THEN Scanning ELSE NoFiber]
  /\ outdated = {}
  /\ notify = FALSE
  /\ answers = {}
  /\ poll = NoPoll
  /\ closing = "no"
  /\ toStop = {}

-----------------------------------------------------------------------------
(* The environment *)

Describes(a) == Given.eras[era][a]

NextEra ==
  /\ era < Len(Given.eras)
  /\ era' = era + 1
  /\ UNCHANGED <<scenario, boundVars, topology, monitorVars, answers, poll,
                 closeVars>>

-----------------------------------------------------------------------------
(* A description meets the topology *)

\* The description of b is another object after a's was replaced; a possible
\* primary is the same object with another type.
OtherObject(b, a) ==
  \/ b = a
  \/ b \notin Known(topology) \cap Known(topology')
  \/ /\ topology.servers[b] # topology'.servers[b]
     /\ topology'.servers[b].type # "PossiblePrimary"

\* Fibers that will notice it, since they bring that the server is Unknown.
Outdated(a) ==
  {m \in Fibers : /\ fiber[m].phase = "checking"
                  /\ fiber[m].reply.type = "Unknown"
                  /\ OtherObject(m[1], a)}

\* TopologyDescription#update; whoever calls it is not one of the fibers that
\* notice later.
Update(a, d, caller) ==
  IF Applies(topology, a, d)
  THEN /\ topology' = ApplyDescription(topology, a, d)
       /\ outdated' = (outdated \cup Outdated(a)) \ caller
       /\ notify' = TRUE
  ELSE outdated' = outdated \ caller /\ UNCHANGED <<topology, notify>>

Unwatched_Ever == Known(topology)

\* Client#on_topology_update: every server gets a monitor, closed client or not.
Unwatched == {a \in Known(topology) : \A i \in 1 .. Slots : <<a, i>> \notin listed}
FreeSlots(a) == {i \in 1 .. Slots : fiber[<<a, i>>].phase = "none"}

WatchServers ==
  /\ notify
  /\ notify' = FALSE
  /\ IF LoadBalanced THEN UNCHANGED <<fiber, listed>>
     ELSE LET added == {<<a, Min(FreeSlots(a))>> : a \in Unwatched}
          IN  /\ \A a \in Unwatched : FreeSlots(a) # {}  \* bound: Slots
              /\ listed' = listed \cup added
              /\ fiber' = [m \in Fibers |->
                             IF m \in added THEN Scanning ELSE fiber[m]]
  /\ UNCHANGED <<envVars, boundVars, topology, outdated, answers, poll,
                 closeVars>>

-----------------------------------------------------------------------------
(* Monitor#scan *)

\* The hello is answered, or the network fails.
StartCheck(m) ==
  /\ fiber[m].phase = "idle" /\ ~fiber[m].stop
  /\ m[1] \in Known(topology)
  /\ \/ /\ fiber' = [fiber EXCEPT ![m] = [@ EXCEPT !.phase = "checking",
                                                 !.reply = Describes(m[1])]]
        /\ UNCHANGED faults
     \/ /\ faults > 0
        /\ faults' = faults - 1
        /\ fiber' = [fiber EXCEPT ![m] = [@ EXCEPT !.phase = "checking"]]
  /\ UNCHANGED <<envVars, handshakes, topology, outdated, listed, notify,
                 answers, poll, closeVars>>

\* An error found the server Unknown first: it is not told twice.
AlreadyUnknown(m) ==
  /\ m[1] \in Known(topology)
  /\ topology.servers[m[1]].type = "Unknown"
  /\ fiber[m].reply.type = "Unknown"
  /\ m \in outdated

CheckEnds(m) ==
  /\ fiber[m].phase = "checking"
  /\ fiber' = [fiber EXCEPT ![m] = [Scanning EXCEPT !.stop = fiber[m].stop]]

EndCheck(m) ==
  /\ CheckEnds(m)
  /\ IF fiber[m].stop \/ AlreadyUnknown(m)
     THEN outdated' = outdated \ {m} /\ UNCHANGED <<topology, notify>>
     ELSE Update(m[1], fiber[m].reply, {m})
  /\ UNCHANGED <<envVars, boundVars, listed, answers, poll, closeVars>>

\* Told to stop, or the server is gone: leave the loop.
EndScan(m) ==
  /\ fiber[m].phase = "idle"
  /\ fiber[m].stop \/ m[1] \notin Known(topology)
  /\ fiber' = [fiber EXCEPT ![m] = [NoFiber EXCEPT !.phase = "ending"]]
  /\ UNCHANGED <<envVars, boundVars, topology, outdated, listed, notify,
                 answers, poll, closeVars>>

StopMonitoring_StaysListed(m) ==
  /\ fiber[m].phase = "ending"
  /\ fiber' = [fiber EXCEPT ![m] = NoFiber]
  /\ toStop' = toStop \ {m}
  /\ UNCHANGED <<envVars, boundVars, topology, outdated, listed, notify, answers,
                 poll, closing>>

\* Client#stop_monitoring takes whatever monitor the address has by now.
Unlisted(a) == listed \ ({a} \X (1 .. Slots))

StopMonitoring(m) ==
  /\ fiber[m].phase = "ending"
  /\ fiber' = [fiber EXCEPT ![m] = NoFiber]
  /\ listed' = Unlisted(m[1])
  /\ toStop' = toStop \ {m}
  /\ UNCHANGED <<envVars, boundVars, topology, outdated, notify, answers, poll,
                 closing>>

-----------------------------------------------------------------------------
(* Connections and commands *)

\* A connection to a selected server says hello before it authenticates.
StartHandshake(a) ==
  /\ handshakes > 0 /\ closing = "no"
  /\ a \in Known(topology)
  /\ topology.type = "Single" \/ DataBearing(topology.servers[a])
  /\ Describes(a).type # "Unknown"
  /\ handshakes' = handshakes - 1
  /\ answers' = answers \cup {<<a, Describes(a)>>}
  /\ UNCHANGED <<envVars, faults, topology, monitorVars, poll, closeVars>>

EndHandshake(h) ==
  /\ Update(h[1], h[2], {})
  /\ answers' = answers \ {h}
  /\ UNCHANGED <<envVars, boundVars, fiber, listed, poll, closeVars>>

\* What a not-writable-primary or shutdown error of this server may carry;
\* a network error carries nothing.
ErrorVersions(a) ==
  {NoVersion} \cup {Given.eras[e][a].version : e \in 1 .. era}

\* Client#handle_application_error. The monitor's hello may be cut short.
ApplicationError(a, v) ==
  /\ faults > 0 /\ ~LoadBalanced
  /\ a \in Known(topology)
  /\ ~ErrorStale(topology.servers[a], v)
  /\ faults' = faults - 1
  /\ topology' = ApplyDescription(topology, a, [UnknownServer EXCEPT !.version = v])
  /\ notify' = TRUE
  /\ \E cut \in SUBSET {m \in listed : m[1] = a /\ fiber[m].phase = "checking"} :
       /\ fiber' = [m \in Fibers |-> IF m \in cut
                                     THEN [fiber[m] EXCEPT !.reply = UnknownServer]
                                     ELSE fiber[m]]
       /\ outdated' = outdated \cup Outdated(a) \cup cut
  /\ UNCHANGED <<envVars, handshakes, listed, answers, poll, closeVars>>

-----------------------------------------------------------------------------
(* SrvPoller#rescan and Client#apply_srv_hosts *)

\* The type is looked at before DNS is asked, not after it answered.
PollBegins ==
  /\ Given.polls # <<>> /\ closing = "no"
  /\ poll.phase = "idle"
  /\ topology.type \in {"Sharded", "Unknown"}
  /\ poll' = [poll EXCEPT !.phase = "asked"]
  /\ UNCHANGED <<envVars, boundVars, topology, monitorVars, answers, closeVars>>

PollAnswers ==
  /\ poll.phase = "asked"
  /\ LET hosts == Given.polls[era]
     IN  poll' = [phase |-> "removing", remove |-> Known(topology) \ hosts,
                  add |-> hosts \ Known(topology)]
  /\ UNCHANGED <<envVars, boundVars, topology, monitorVars, answers, closeVars>>

PollRemoves(a) ==
  /\ poll.phase = "removing" /\ a \in poll.remove
  /\ poll' = [poll EXCEPT !.remove = @ \ {a}]
  /\ IF a \in Known(topology)
     THEN /\ topology' = Remove(topology, a)
          /\ outdated' = outdated \cup Outdated(a)
          /\ listed' = Unlisted(a)
     ELSE UNCHANGED <<topology, listed, outdated>>
  /\ UNCHANGED <<envVars, boundVars, fiber, notify, answers, closeVars>>

Room ==
  IF Given.maxHosts = 0 THEN Cardinality(poll.add)
  ELSE Min({Cardinality(poll.add),
            Max({0, Given.maxHosts - Cardinality(Known(topology))})})

PollLimits ==
  /\ poll.phase = "removing" /\ poll.remove = {}
  /\ poll' \in {[poll EXCEPT !.phase = "adding", !.add = chosen] :
                 chosen \in kSubset(Room, poll.add)}
  /\ UNCHANGED <<envVars, boundVars, topology, monitorVars, answers, closeVars>>

PollAdds(a) ==
  /\ poll.phase = "adding" /\ a \in poll.add
  /\ poll' = [poll EXCEPT !.add = @ \ {a}]
  /\ IF a \in Known(topology) THEN UNCHANGED <<topology, outdated, notify>>
     ELSE /\ topology' = AddHosts(topology, {a})
          /\ outdated' = outdated \cup Outdated(a)
          /\ notify' = TRUE
  /\ UNCHANGED <<envVars, boundVars, fiber, listed, answers, closeVars>>

PollEnds ==
  /\ poll.phase = "adding" /\ poll.add = {}
  /\ poll' = NoPoll
  /\ UNCHANGED <<envVars, boundVars, topology, monitorVars, answers, closeVars>>

-----------------------------------------------------------------------------
(* Client#close *)

CloseBegins ==
  /\ Given.closes /\ closing = "no"
  /\ closing' = "stopping"
  /\ toStop' = listed
  /\ UNCHANGED <<envVars, boundVars, topology, monitorVars, answers, poll>>

\* Monitor#close of one of the monitors there were.
StopFiber(m) ==
  /\ m \in toStop /\ ~fiber[m].stop
  /\ fiber' = [fiber EXCEPT ![m] = [@ EXCEPT !.stop = TRUE]]
  /\ UNCHANGED <<envVars, boundVars, topology, outdated, listed, notify,
                 answers, poll, closeVars>>

CloseEnds ==
  /\ closing = "stopping" /\ toStop = {}
  /\ closing' = "closed"
  /\ topology' = CloseToUnknown(topology)
  /\ outdated' = IF topology' = topology THEN outdated
                 ELSE outdated \cup UNION {Outdated(a) : a \in Known(topology)}
  /\ UNCHANGED <<envVars, boundVars, fiber, listed, notify, answers, poll, toStop>>

-----------------------------------------------------------------------------
Monitoring(m) ==
  StartCheck(m) \/ EndCheck(m) \/ EndScan(m) \/ StopMonitoring(m)

\* The monitor fiber moves; what EndCheck does besides is no matter of fairness.
FiberMoves(m) ==
  StartCheck(m) \/ CheckEnds(m) \/ EndScan(m) \/ StopMonitoring(m)

Polling ==
  \/ PollBegins \/ PollAnswers \/ PollLimits \/ PollEnds
  \/ \E a \in Address : PollRemoves(a) \/ PollAdds(a)

Next ==
  \/ NextEra
  \/ \E m \in Fibers : Monitoring(m) \/ StopFiber(m)
  \/ WatchServers
  \/ \E a \in Address : StartHandshake(a)
  \/ \E h \in answers : EndHandshake(h)
  \/ \E a \in Address : \E v \in ErrorVersions(a) : ApplicationError(a, v)
  \/ Polling
  \/ CloseBegins \/ CloseEnds

Spec == Init /\ [][Next]_vars

\* Every fiber that can go on does: hellos are answered or time out, the
\* heartbeat ends, spawned fibers are scheduled. Nothing is assumed of the
\* environment, of commands or of whoever closes the client.
FairSpec ==
  /\ Spec
  /\ \A m \in Fibers : WF_fiber(FiberMoves(m))
  /\ WF_vars(WatchServers)
  /\ WF_vars(\E h \in answers : EndHandshake(h))
  /\ WF_vars(Polling)
  /\ WF_vars(CloseEnds)

-----------------------------------------------------------------------------
(* Properties *)

\* Every variable holds a value of its kind, and a listed monitor has a fiber.
TypeOK ==
  /\ scenario \in DOMAIN Scenarios /\ era \in 1 .. Len(Given.eras)
  /\ faults \in 0 .. Given.faults
  /\ handshakes \in 0 .. Given.handshakes
  /\ IsTopology(topology)
  /\ fiber \in [Fibers -> [phase: {"none", "idle", "checking", "ending"},
                          reply: Descriptions, stop: BOOLEAN]]
  /\ listed \subseteq {m \in Fibers : fiber[m].phase # "none"}
  /\ outdated \subseteq {m \in Fibers : fiber[m].phase = "checking"}
  /\ notify \in BOOLEAN
  /\ answers \subseteq Address \X Descriptions
  /\ poll \in [phase: {"idle", "asked", "removing", "adding"},
              remove: SUBSET Address, add: SUBSET Address]
  /\ closing \in {"no", "stopping", "closed"} /\ toStop \subseteq Fibers

Primaries == {a \in Known(topology) : topology.servers[a].type = "RSPrimary"}

\* However answers of old and new primaries are interleaved, a replica set has
\* at most one primary here, and one it has shows in the topology's type, which
\* server selection reads before it looks for the primary.
OnePrimary ==
  topology.type # "Single" =>
    /\ Cardinality(Primaries) <= 1
    /\ Primaries # {} => topology.type = "ReplicaSetWithPrimary"

\* Whoever is primary here won the last election recorded, so that its own next
\* answer is not taken for a deposed primary's.
PrimaryIsNewest ==
  \A a \in Primaries :
    LET d == topology.servers[a]
    IN  topology.type # "Single" =>
          /\ Modern(d) => /\ d.electionId = topology.maxElectionId
                          /\ d.setVersion = topology.maxSetVersion
          /\ 0 \notin {d.electionId, d.setVersion} =>
               /\ d.electionId = topology.maxElectionId
               /\ d.setVersion <= topology.maxSetVersion

\* Sessions are sent only to servers that keep them at least as long as the
\* client thinks: servers come and go, but no data-bearing one that keeps
\* them shorter, or not at all, hides behind the recorded timeout.
SessionTimeoutSafe ==
  topology.lstm # 0 =>
    \A a \in Known(topology) :
      DataBearing(topology.servers[a]) =>
        topology.servers[a].lstm >= topology.lstm

\* No server of another kind of deployment, or of another replica set, stays
\* in the topology, whichever answered first.
ServersBelong ==
  LET kinds(allowed) ==
        \A a \in Known(topology) : topology.servers[a].type \in allowed
      strangers == {"Unknown", "PossiblePrimary", "RSGhost"}
  IN  /\ topology.type = "Unknown" => kinds({"Unknown", "RSGhost"})
      /\ topology.type = "Sharded" => kinds({"Mongos", "Unknown", "RSGhost"})
      /\ topology.type = "LoadBalanced" => kinds({"LoadBalancer"})
      /\ topology.type \in {"ReplicaSetNoPrimary", "ReplicaSetWithPrimary"} =>
           kinds(Members \cup strangers)
      /\ topology.type # "Unknown" =>
           \A a \in Known(topology) :
             topology.servers[a].type \in Members /\ topology.setName # None =>
               topology.servers[a].setName = topology.setName

\* A primary of 6.0 or later is never taken over an election that came after
\* its own, whatever became in the meantime of the server that won that one.
ElectionNeverBack ==
  [][\A a \in Primaries' :
       LET d == topology'.servers[a]
       IN  topology.type # "Single" /\ Modern(d) =>
             \/ d.electionId > topology.maxElectionId
             \/ /\ d.electionId = topology.maxElectionId
                /\ d.setVersion >= topology.maxSetVersion]_vars

\* An address has at most one monitor in the client's list, though monitors
\* are added by whichever fiber last changed the topology.
OneMonitorListed ==
  \A a \in Address : Cardinality({i \in 1 .. Slots : <<a, i>> \in listed}) <= 1

\* What a server process said later is never replaced by what it said before:
\* hellos of the monitor and of connections, and errors, overtake each other.
VersionNeverBack ==
  [][\A a \in Known(topology) \cap Known(topology') :
       LET before == topology.servers[a].version
           after  == topology'.servers[a].version
       IN  before.process # 0 /\ before.process = after.process =>
             after.counter >= before.counter]_vars

\* A server that left the topology while it was being asked cannot bring
\* itself or its hosts back, name the set, or take part in an election.
RemovedServerSilent ==
  [][\A a \in Address \ Known(topology) :
       (\/ \E m \in Fibers : m[1] = a /\ EndCheck(m)
        \/ \E h \in answers : h[1] = a /\ EndHandshake(h)) =>
         /\ topology'.servers = topology.servers
         /\ topology'.setName = topology.setName
         /\ topology'.maxElectionId = topology.maxElectionId
         /\ topology'.maxSetVersion = topology.maxSetVersion]_vars

\* Once the deployment stays as it is, the client comes to see it as it is:
\* its type, exactly its members, each as it describes itself, each watched
\* (a load balancer is neither asked nor watched).
Settled ==
  /\ topology.type = Given.goalType
  /\ Known(topology) = Given.goalServers
  /\ LoadBalanced \/ \A a \in Given.goalServers :
       /\ \/ topology.servers[a] = Describes(a)
          \/ /\ Describes(a).type = "Unknown"
             /\ topology.servers[a].type \in {"Unknown", "PossiblePrimary"}
       /\ \E i \in 1 .. Slots : /\ <<a, i>> \in listed
                               /\ fiber[<<a, i>>].phase \in {"idle", "checking"}

Converges ==
  <>[](era = Len(Given.eras) /\ closing = "no") => <>[]Settled

\* False if any server's wire protocol version range is incompatible with the
\* client's (topology_description.cr:38).
CompatibleMeansAll ==
  topology.compatible =>
    \A a \in Known(topology) :
      LET d == topology.servers[a]
      IN  d.type \notin {"Unknown", "PossiblePrimary"} =>
            d.minWire <= MaxWireVersion /\ d.maxWire >= MinWireVersion

\* "Frees all the resources associated with a client" (client.cr:200): when
\* close has returned, no monitor is left.
ClosedClientUnwatched == closing = "closed" => listed = {}
=============================================================================
