--------------------------- MODULE TopologyUpdate ---------------------------
(***************************************************************************)
(* How one answer of one server changes what the client believes about the *)
(* whole deployment: the pure part of SDAM::TopologyDescription, every     *)
(* function of which runs with the topology lock held.                     *)
(*                                                                         *)
(* A topology is a record; its servers are a function from the addresses   *)
(* it knows to their descriptions (the code's array, whose order nothing   *)
(* here depends on). A number that the code may leave nil is 0 when nil, a *)
(* name that may be nil is None, and electionIds, ordered byte strings in  *)
(* the code, are ordered numbers. hosts, passives and arbiters, which the  *)
(* code always walks together, are one set. Spelling (case, default port)  *)
(* and the texts of errors and events are left out.                        *)
(***************************************************************************)
EXTENDS Integers, FiniteSets, FiniteSetsExt, Functions

CONSTANTS
  Address,          \* "host:port" strings a seed list or a hello may name
  SetName,          \* names of replica sets
  None,             \* a name or an address that is nil
  MinWireVersion,   \* Client::MIN_WIRE_VERSION
  MaxWireVersion    \* Client::MAX_WIRE_VERSION

ASSUME NoneAssumption == None \notin Address /\ None \notin SetName
ASSUME WireAssumption ==
  /\ MinWireVersion \in Nat
  /\ MaxWireVersion \in Nat
  /\ MinWireVersion <= MaxWireVersion

-----------------------------------------------------------------------------
(* Descriptions *)

ServerTypes == {"Standalone", "Mongos", "PossiblePrimary", "RSPrimary",
                "RSSecondary", "RSArbiter", "RSOther", "RSGhost",
                "LoadBalancer", "Unknown"}

TopologyTypes == {"Single", "ReplicaSetNoPrimary", "ReplicaSetWithPrimary",
                  "Sharded", "LoadBalanced", "Unknown"}

\* A topologyVersion: the process that wrote it and its counter. Process 0
\* stands for a description that carries none.
Versions == [process: Nat, counter: Nat]
NoVersion == [process |-> 0, counter |-> 0]

Descriptions ==
  [type: ServerTypes, setName: SetName \cup {None}, hosts: SUBSET Address,
   primary: Address \cup {None}, me: Address \cup {None},
   setVersion: Nat, electionId: Nat, minWire: Nat, maxWire: Nat,
   lstm: Nat, version: Versions]

\* ServerDescription.new(address): what is known of a server nobody reached.
UnknownServer ==
  [type |-> "Unknown", setName |-> None, hosts |-> {}, primary |-> None,
   me |-> None, setVersion |-> 0, electionId |-> 0, minWire |-> 0,
   maxWire |-> 0, lstm |-> 0, version |-> NoVersion]

DataBearing(d) ==
  d.type \in {"Mongos", "RSPrimary", "RSSecondary", "Standalone",
              "LoadBalancer"}

Members == {"RSPrimary", "RSSecondary", "RSArbiter", "RSOther"}

\* What ServerDescription#initialize makes of a hello, or of none: a member of
\* a replica set names it, and no server knows itself for a possible primary.
FromHello(d) ==
  /\ d \in Descriptions
  /\ d.type \notin {"PossiblePrimary", "LoadBalancer"}
  /\ d.type \in Members => d.setName # None

IsTopology(t) ==
  /\ t \in [type: TopologyTypes, setName: SetName \cup {None},
            maxSetVersion: Nat, maxElectionId: Nat, compatible: BOOLEAN,
            lstm: Nat, servers: {t.servers}]
  /\ DOMAIN t.servers \subseteq Address
  /\ t.servers \in [DOMAIN t.servers -> Descriptions]

\* Positive: the incoming version is newer; 0: the same; negative: older.
\* Without both versions, or between two processes, the incoming one wins.
Compare(current, incoming) ==
  IF \/ current.process = 0
     \/ incoming.process = 0
     \/ current.process # incoming.process
  THEN 1
  ELSE incoming.counter - current.counter

\* An application error says nothing new about this server.
ErrorStale(current, version) ==
  \/ Compare(current.version, version) < 0
  \/ /\ Compare(current.version, version) = 0
     /\ current.type \notin {"RSPrimary", "Standalone", "PossiblePrimary"}

-----------------------------------------------------------------------------
(* Building blocks *)

Known(t) == DOMAIN t.servers

HasPrimary(t) == \E a \in Known(t) : t.servers[a].type = "RSPrimary"

CheckIfHasPrimary(t) ==
  [t EXCEPT !.type = IF HasPrimary(t) THEN "ReplicaSetWithPrimary"
                                      ELSE "ReplicaSetNoPrimary"]

Remove(t, a) == [t EXCEPT !.servers = Restrict(@, Known(t) \ {a})]

SessionTimeout_IgnoresNil(servers) ==
  LET reported == {servers[a].lstm : a \in {x \in DOMAIN servers :
                                              DataBearing(servers[x])}} \ {0}
  IN  IF reported = {} THEN 0 ELSE Min(reported)

\* The least timeout of the data-bearing servers; none if one reports none.
SessionTimeout(servers) ==
  LET reported == {servers[a].lstm : a \in {x \in DOMAIN servers :
                                              DataBearing(servers[x])}}
  IN  IF reported = {} THEN 0 ELSE Min(reported)

\* The servers' descriptions change; the session timeout follows them.
Describe(t, servers) ==
  [t EXCEPT !.servers = servers, !.lstm = SessionTimeout(servers)]

\* Nothing of a server that is no longer known is recorded, but the session
\* timeout is worked out all the same. A load balancer keeps its type.
ReplaceDescription(t, a, d) ==
  LET new == IF t.type = "LoadBalanced"
             THEN [d EXCEPT !.type = "LoadBalancer"] ELSE d
  IN  Describe(t, [x \in Known(t) |-> IF x = a THEN new ELSE t.servers[x]])

AddHosts(t, hosts) ==
  [t EXCEPT !.servers = [x \in Known(t) \cup hosts |->
                           IF x \in Known(t) THEN t.servers[x]
                                             ELSE UnknownServer]]

\* A secondary's opinion of who the primary is.
UpdatePossiblePrimary(t, a) ==
  IF a \in Known(t) /\ t.servers[a].type = "Unknown"
  THEN [t EXCEPT !.servers[a].type = "PossiblePrimary"]
  ELSE t

AdoptSetName(t, d) ==
  [t EXCEPT !.setName = IF @ = None THEN d.setName ELSE @]

\* The server answers under a name other than the one it was asked by.
Misnamed(a, d) == d.me # None /\ d.me # a

-----------------------------------------------------------------------------
(* The topology's own rules, one operator per kind of answer *)

\* A later description decides: nobody asks the other servers again.
CheckWireVersions(t, d) ==
  IF d.type = "Unknown" \/ t.type = "LoadBalanced" THEN t
  ELSE [t EXCEPT !.compatible = /\ d.minWire <= MaxWireVersion
                                /\ d.maxWire >= MinWireVersion]

UpdateUnknownWithStandalone(t, a) ==
  IF a \notin Known(t) THEN t
  ELSE IF Known(t) = {a} THEN [t EXCEPT !.type = "Single"]
  ELSE Remove(t, a)

UpdateRSWithoutPrimary_AnyServer(t, a, d) ==
  LET named  == AdoptSetName(t, d)
      joined == UpdatePossiblePrimary(AddHosts(named, d.hosts), d.primary)
  IN  IF named.setName # d.setName THEN Remove(named, a)
      ELSE IF Misnamed(a, d) THEN Remove(joined, a)
      ELSE joined

UpdateRSWithoutPrimary(t, a, d) ==
  LET named  == AdoptSetName(t, d)
      joined == UpdatePossiblePrimary(AddHosts(named, d.hosts), d.primary)
  IN  IF a \notin Known(t) THEN t
      ELSE IF named.setName # d.setName THEN Remove(named, a)
      ELSE IF Misnamed(a, d) THEN Remove(joined, a)
      ELSE joined

UpdateRSWithPrimaryFromMember_AnySet(t, a, d) ==
  IF a \notin Known(t) THEN t
  ELSE IF Misnamed(a, d) THEN CheckIfHasPrimary(Remove(t, a))
  ELSE IF HasPrimary(t) THEN t
  ELSE UpdatePossiblePrimary([t EXCEPT !.type = "ReplicaSetNoPrimary"],
                             d.primary)

UpdateRSWithPrimaryFromMember(t, a, d) ==
  IF a \notin Known(t) THEN t
  ELSE IF t.setName # d.setName \/ Misnamed(a, d)
       THEN CheckIfHasPrimary(Remove(t, a))
  ELSE IF HasPrimary(t) THEN t
  ELSE UpdatePossiblePrimary([t EXCEPT !.type = "ReplicaSetNoPrimary"],
                             d.primary)

\* MongoDB 6.0 elects by electionId, then setVersion; older servers compare
\* setVersion first, and only when both are reported on both sides.
Modern(d) == d.maxWire >= 17

StalePrimary_Equal(t, d) ==
  IF Modern(d)
  THEN \/ d.electionId < t.maxElectionId
       \/ d.electionId = t.maxElectionId /\ d.setVersion <= t.maxSetVersion
  ELSE /\ 0 \notin {d.setVersion, d.electionId, t.maxSetVersion, t.maxElectionId}
       /\ \/ d.setVersion < t.maxSetVersion
          \/ /\ d.setVersion = t.maxSetVersion
             /\ d.electionId <= t.maxElectionId

StalePrimary_SetVersionFirst(t, d) ==
  /\ 0 \notin {d.setVersion, d.electionId, t.maxSetVersion, t.maxElectionId}
  /\ \/ d.setVersion < t.maxSetVersion
     \/ /\ d.setVersion = t.maxSetVersion
        /\ d.electionId < t.maxElectionId

StalePrimary(t, d) ==
  IF Modern(d)
  THEN \/ d.electionId < t.maxElectionId
       \/ d.electionId = t.maxElectionId /\ d.setVersion < t.maxSetVersion
  ELSE /\ 0 \notin {d.setVersion, d.electionId, t.maxSetVersion, t.maxElectionId}
       /\ \/ d.setVersion < t.maxSetVersion
          \/ /\ d.setVersion = t.maxSetVersion
             /\ d.electionId < t.maxElectionId

RecordElection_OnlyUp(t, d) ==
  [t EXCEPT !.maxElectionId = Max({@, d.electionId}),
            !.maxSetVersion = Max({@, d.setVersion})]

RecordElection(t, d) ==
  IF Modern(d)
  THEN [t EXCEPT !.maxElectionId = d.electionId,
                 !.maxSetVersion = d.setVersion]
  ELSE [t EXCEPT !.maxElectionId = IF 0 \in {d.setVersion, d.electionId}
                                   THEN @ ELSE d.electionId,
                 !.maxSetVersion = Max({@, d.setVersion})]

DemoteOthers_Forgotten(t, a) == t

\* Every other primary is one of an earlier election.
DemoteOthers(t, a) ==
  Describe(t, [x \in Known(t) |->
                 IF x # a /\ t.servers[x].type = "RSPrimary"
                 THEN UnknownServer ELSE t.servers[x]])

\* The primary's own list of members replaces the client's.
UpdateRSFromPrimary(t, a, d) ==
  LET named   == AdoptSetName(t, d)
      elected == DemoteOthers(RecordElection(named, d), a)
      members == [elected EXCEPT !.servers =
                    Restrict(AddHosts(elected, d.hosts).servers, d.hosts)]
  IN  IF a \notin Known(t) THEN t
      ELSE IF named.setName # d.setName THEN CheckIfHasPrimary(Remove(named, a))
      ELSE IF StalePrimary(named, d)
           THEN CheckIfHasPrimary(ReplaceDescription(named, a, UnknownServer))
      ELSE CheckIfHasPrimary(members)

OnUnknown(t) ==
  IF t.type = "ReplicaSetWithPrimary" THEN CheckIfHasPrimary(t) ELSE t

OnStandalone(t, a) ==
  CASE t.type = "Unknown" -> UpdateUnknownWithStandalone(t, a)
    [] t.type = "ReplicaSetWithPrimary" -> CheckIfHasPrimary(Remove(t, a))
    [] OTHER -> Remove(t, a)

OnMongos(t, a) ==
  CASE t.type = "Unknown" -> [t EXCEPT !.type = "Sharded"]
    [] t.type = "ReplicaSetNoPrimary" -> Remove(t, a)
    [] t.type = "ReplicaSetWithPrimary" -> CheckIfHasPrimary(Remove(t, a))
    [] OTHER -> t

\* ReplicaSetNoPrimary becomes ReplicaSetWithPrimary before anything about the
\* answer is looked at; it stays so when the server is no longer known.
OnPrimary(t, a, d) ==
  CASE t.type = "Sharded" -> Remove(t, a)
    [] t.type = "ReplicaSetNoPrimary" ->
         UpdateRSFromPrimary([t EXCEPT !.type = "ReplicaSetWithPrimary"], a, d)
    [] OTHER -> UpdateRSFromPrimary(t, a, d)

OnMember(t, a, d) ==
  CASE t.type = "Sharded" -> Remove(t, a)
    [] t.type = "ReplicaSetWithPrimary" -> UpdateRSWithPrimaryFromMember(t, a, d)
    [] OTHER -> UpdateRSWithoutPrimary([t EXCEPT !.type = "ReplicaSetNoPrimary"],
                                       a, d)

OnGhost(t, a) ==
  CASE t.type = "Sharded" -> Remove(t, a)
    [] t.type = "ReplicaSetWithPrimary" -> CheckIfHasPrimary(t)
    [] OTHER -> t

Dispatch(t, a, d) ==
  IF t.type \in {"Single", "LoadBalanced"} THEN t
  ELSE CASE d.type = "Standalone" -> OnStandalone(t, a)
         [] d.type = "Mongos" -> OnMongos(t, a)
         [] d.type = "RSPrimary" -> OnPrimary(t, a, d)
         [] d.type \in {"RSSecondary", "RSArbiter", "RSOther"} -> OnMember(t, a, d)
         [] d.type = "RSGhost" -> OnGhost(t, a)
         [] OTHER -> OnUnknown(t)

Applies_Always(t, a, d) == TRUE

\* An older topologyVersion of the same process says nothing.
Applies(t, a, d) ==
  a \in Known(t) => Compare(t.servers[a].version, d.version) >= 0

ApplyDescription(t, a, d) ==
  IF t.type = "Single" /\ t.setName # None /\ d.setName # t.setName
  THEN ReplaceDescription(t, a, UnknownServer)
  ELSE Dispatch(CheckWireVersions(ReplaceDescription(t, a, d), d), a, d)

\* Client#close, once its monitors have ended.
CloseToUnknown(t) ==
  IF t.type = "Unknown" /\ \A a \in Known(t) : t.servers[a].type = "Unknown"
  THEN t
  ELSE [t EXCEPT !.type = "Unknown", !.setName = None, !.maxSetVersion = 0,
                 !.maxElectionId = 0, !.lstm = 0,
                 !.servers = [a \in Known(t) |-> UnknownServer]]
=============================================================================
