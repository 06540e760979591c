----------------------------- MODULE MCTopology -----------------------------
(***************************************************************************)
(* Deployments for the Topology module, on three addresses.                *)
(***************************************************************************)
EXTENDS Topology, TLC

CONSTANTS A, B, C, Main, Other

Base == [UnknownServer EXCEPT !.minWire = 8, !.maxWire = 21, !.lstm = 30]

Member(type, hosts, election, set, counter) ==
  [Base EXCEPT !.type = type, !.setName = Main, !.hosts = hosts,
               !.electionId = IF type = "RSPrimary" THEN election ELSE 0,
               !.setVersion = set,
               !.version = [process |-> 1, counter |-> counter]]
Primary(hosts, election, set, counter) ==
  Member("RSPrimary", hosts, election, set, counter)
Secondary(hosts, set, counter) == Member("RSSecondary", hosts, 0, set, counter)
Hinting(d, a) == [d EXCEPT !.primary = a]
Named(d, a) == [d EXCEPT !.me = a]
Plain(type) == [Base EXCEPT !.type = type]
Versionless(d) == [d EXCEPT !.version = NoVersion]
Old(d) == [Versionless(d) EXCEPT !.maxWire = 13]
Down == UnknownServer

Deployed(a, b, c) == A :> a @@ B :> b @@ C :> c
ABC == {A, B, C}

Scenario ==
  [type |-> "Unknown", setName |-> None, seeds |-> {A, B}, eras |-> <<>>,
   polls |-> <<>>, maxHosts |-> 0, faults |-> 0, handshakes |-> 0,
   closes |-> FALSE, goalType |-> "ReplicaSetWithPrimary", goalServers |-> {A, B}]

\* A is deposed by B and does not know it yet; then it does.
Failover ==
  [Scenario EXCEPT !.handshakes = 1, !.eras =
    <<Deployed(Primary({A, B}, 1, 2, 1), Secondary({A, B}, 2, 1), Down),
      Deployed(Primary({A, B}, 1, 2, 1), Primary({A, B}, 2, 1, 2), Down),
      Deployed(Secondary({A, B}, 1, 2), Primary({A, B}, 2, 1, 2), Down)>>]

\* The same on servers older than 6.0, without topologyVersions.
OldFailover ==
  [Scenario EXCEPT !.handshakes = 1, !.setName = Main,
    !.type = "ReplicaSetNoPrimary", !.eras =
    <<Deployed(Old(Primary({A, B}, 1, 1, 1)), Old(Secondary({A, B}, 1, 1)), Down),
      Deployed(Old(Primary({A, B}, 1, 1, 1)), Old(Primary({A, B}, 2, 1, 2)), Down),
      Deployed(Old(Secondary({A, B}, 1, 2)), Old(Primary({A, B}, 2, 1, 2)), Down)>>]

\* A stops; B takes over and drops it from the set for C, which A had not.
Reconfiguration ==
  [Scenario EXCEPT !.faults = 1, !.goalServers = {B, C},
    !.setName = Main, !.type = "ReplicaSetNoPrimary", !.eras =
    <<Deployed(Primary({A, B}, 1, 1, 1), Hinting(Secondary({A, B}, 1, 1), A), Down),
      Deployed(Down, Primary({B, C}, 2, 2, 2), Secondary({B, C}, 2, 1))>>]

\* C is no member: it serves another set, and was named by mistake.
Strangers ==
  [Scenario EXCEPT !.seeds = ABC, !.faults = 1,
    !.setName = Main, !.type = "ReplicaSetNoPrimary", !.eras =
    <<Deployed(Primary(ABC, 1, 1, 1), [Secondary(ABC, 1, 1) EXCEPT !.lstm = 0],
               [Secondary({C}, 1, 1) EXCEPT !.setName = Other]),
      Deployed(Primary({A, B}, 1, 2, 2), Secondary({A, B}, 2, 2), Plain("Standalone"))>>]

\* One server, restarted.
Lone ==
  [Scenario EXCEPT !.seeds = {A}, !.faults = 2, !.handshakes = 1,
    !.goalType = "Single", !.goalServers = {A}, !.eras =
    <<Deployed([Plain("Standalone") EXCEPT !.version = [process |-> 1, counter |-> 1]], Down, Down),
      Deployed([Plain("Standalone") EXCEPT !.version = [process |-> 1, counter |-> 2]], Down, Down),
      Deployed([Plain("Standalone") EXCEPT !.version = [process |-> 2, counter |-> 1]], Down, Down)>>]

\* A direct connection to a member of a set, first to one of another set.
Direct ==
  [Scenario EXCEPT !.type = "Single", !.setName = Main, !.seeds = {A}, !.faults = 1,
    !.handshakes = 1, !.goalType = "Single", !.goalServers = {A}, !.eras =
    <<Deployed([Secondary({A}, 1, 1) EXCEPT !.setName = Other], Down, Down),
      Deployed(Secondary({A, B}, 1, 2), Down, Down)>>]

\* The seed is an alias: the server it reaches calls itself B.
Alias ==
  [Scenario EXCEPT !.seeds = {A}, !.faults = 1, !.goalServers = {B, C}, !.eras =
    <<Deployed(Named(Hinting(Secondary({B, C}, 1, 1), C), B),
               Named(Hinting(Secondary({B, C}, 1, 1), C), B),
               Named(Primary({B, C}, 1, 1, 1), C))>>]

\* Members are upgraded from before 6.0, the primary last.
Upgrade ==
  [Scenario EXCEPT !.handshakes = 1, !.eras =
    <<Deployed(Old(Primary({A, B}, 1, 2, 1)), Old(Secondary({A, B}, 2, 1)), Down),
      Deployed(Old(Primary({A, B}, 1, 2, 1)), Primary({A, B}, 2, 2, 1), Down),
      Deployed(Secondary({A, B}, 2, 1), Primary({A, B}, 2, 2, 1), Down)>>]

\* mongos routers behind DNS: C replaces A, which becomes a standalone, and at most two are used.
Routers ==
  [Scenario EXCEPT !.polls = <<ABC, {B, C}>>, !.maxHosts = 2, !.closes = TRUE,
    !.goalType = "Sharded", !.goalServers = {B, C}, !.eras =
    <<Deployed(Plain("Mongos"), Plain("Mongos"), Plain("Mongos")),
      Deployed(Plain("Standalone"), Plain("Mongos"), Plain("Mongos"))>>]

\* A replica set behind DNS, which has heard of C before it replaces B.
Listed ==
  [Scenario EXCEPT !.polls = <<ABC, ABC>>, !.faults = 1, !.goalServers = {A, C}, !.eras =
    <<Deployed(Primary({A, B}, 1, 1, 1), Secondary({A, B}, 1, 1), Down),
      Deployed(Primary({A, C}, 1, 2, 2), Down, Secondary({A, C}, 2, 1))>>]

\* The client is closed while a connection to the primary is being set up.
Closing ==
  [Scenario EXCEPT !.handshakes = 1, !.closes = TRUE, !.eras =
    <<Deployed(Primary({A, B}, 1, 1, 1), Secondary({A, B}, 1, 1), Down)>>]

Balanced ==
  [Scenario EXCEPT !.type = "LoadBalanced", !.seeds = {A}, !.handshakes = 2,
    !.closes = TRUE, !.goalType = "LoadBalanced", !.goalServers = {A}, !.eras =
    <<Deployed(Plain("Mongos"), Down, Down)>>]

\* B is older than any server this client supports.
Incompatibles ==
  [incompatible |->
    [Scenario EXCEPT !.eras =
      <<Deployed(Primary({A, B}, 1, 1, 1),
                 [Secondary({A, B}, 1, 1) EXCEPT !.minWire = 0, !.maxWire = 5], Down)>>]]

Closed == [closing |-> Closing]

MCScenarios ==
  [failover |-> Failover, oldFailover |-> OldFailover, upgrade |-> Upgrade,
   reconfiguration |-> Reconfiguration, strangers |-> Strangers, lone |-> Lone,
   direct |-> Direct, alias |-> Alias, routers |-> Routers, listed |-> Listed, closing |-> Closing,
   balanced |-> Balanced]
=============================================================================
