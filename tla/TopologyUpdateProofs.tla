------------------------ MODULE TopologyUpdateProofs ------------------------
(***************************************************************************)
(* What one description does to a topology, for every topology that is     *)
(* sound and every description a hello or an error may bring. A topology   *)
(* is sound when each of its servers fits it and no two are primary. An    *)
(* update starts by storing the description, which may not fit; every case *)
(* of TopologyDescription#apply_description then removes the server,       *)
(* forgets what it said, or makes the topology fit.                        *)
(***************************************************************************)
EXTENDS TopologyUpdate, WellFoundedInduction, TLAPS

ReplicaSet == {"ReplicaSetNoPrimary", "ReplicaSetWithPrimary"}

\* What kinds of servers a topology may have; a single one may be of any kind.
Kinds(type) ==
  CASE type = "Unknown" -> {"Unknown", "RSGhost"}
    [] type = "Sharded" -> {"Mongos", "Unknown", "RSGhost"}
    [] type = "LoadBalanced" -> {"LoadBalancer"}
    [] type \in ReplicaSet -> Members \cup {"Unknown", "PossiblePrimary", "RSGhost"}
    [] OTHER -> ServerTypes

\* No later election than this primary's is on record.
WonLast(t, s) ==
  /\ Modern(s) => /\ s.electionId = t.maxElectionId
                  /\ s.setVersion = t.maxSetVersion
  /\ 0 \notin {s.electionId, s.setVersion} => /\ s.electionId = t.maxElectionId
                                              /\ s.setVersion <= t.maxSetVersion

Fits(t, s) ==
  /\ s.type \in Kinds(t.type)
  /\ s.type \in Members =>
       /\ s.setName # None
       /\ t.type \in ReplicaSet => s.setName = t.setName
       /\ t.type = "Single" => t.setName \in {None, s.setName}
  /\ t.type # "Single" /\ s.type = "RSPrimary" =>
       t.type = "ReplicaSetWithPrimary" /\ WonLast(t, s)
  /\ t.lstm # 0 /\ DataBearing(s) => s.lstm >= t.lstm

\* All the servers of a topology but the one at b; None stands for no address.
SoundBut(t, b) ==
  /\ IsTopology(t)
  /\ \A x \in Known(t) \ {b} : Fits(t, t.servers[x])
  /\ t.type # "Single" =>
       \A x, y \in Known(t) \ {b} :
         t.servers[x].type = "RSPrimary" /\ t.servers[y].type = "RSPrimary" => x = y

Sound(t) == SoundBut(t, None)

\* What r has of its servers it has from t, or it is nothing that a server said.
Inherits(t, r) ==
  \A x \in Known(r) :
    LET s == r.servers[x]
    IN  \/ s.type # "RSPrimary" /\ s.version = NoVersion
        \/ /\ x \in Known(t) /\ s.version = t.servers[x].version
           /\ s.type = "RSPrimary" => s = t.servers[x]

\* r says of the set and of its elections what t says.
SameElection(t, r) ==
  /\ r.setName = t.setName
  /\ r.maxElectionId = t.maxElectionId /\ r.maxSetVersion = t.maxSetVersion

SameRest(t, r) ==
  SameElection(t, r) /\ r.lstm = t.lstm /\ r.compatible = t.compatible

-----------------------------------------------------------------------------
(* Building blocks *)

\* A set of natural numbers has a least one.
LEMMA LeastOf ==
  ASSUME NEW S \in SUBSET Nat, S # {}
  PROVE  Min(S) \in S /\ \A x \in S : Min(S) <= x
  <1>1. PICK x \in S : \A y \in S : ~(<<y, x>> \in OpToRel(<, Nat))
    BY NatLessThanWellFounded, WFMin
  <1>2. \A y \in S : x <= y
    <2>1. ASSUME NEW y \in S, y < x
          PROVE  FALSE
      <3>1. <<y, x>> \in OpToRel(<, Nat)
        BY <2>1 DEF OpToRel
      <3> QED
        BY <1>1, <3>1
    <2> QED
      BY <2>1
  <1> QED
    BY <1>2 DEF Min

LEMMA GreaterOf ==
  ASSUME NEW m \in Nat, NEW n \in Nat
  PROVE  Max({m, n}) \in {m, n} /\ Max({m, n}) >= m /\ Max({m, n}) >= n
  <1>1. \E x \in {m, n} : \A y \in {m, n} : x >= y
    OBVIOUS
  <1> QED
    BY <1>1 DEF Max

LEMMA NoneUnknown ==
  ASSUME NEW t, IsTopology(t)
  PROVE  None \notin Known(t) /\ Known(t) \ {None} = Known(t)
  BY NoneAssumption DEF IsTopology, Known

\* Everything that is sound but for a server that is not there is sound.
LEMMA SoundThen ==
  ASSUME NEW t, NEW b, IsTopology(t),
         \A x \in Known(t) : Fits(t, t.servers[x]),
         t.type # "Single" =>
           \A x, y \in Known(t) :
             t.servers[x].type = "RSPrimary" /\ t.servers[y].type = "RSPrimary" => x = y
  PROVE  Sound(t)
  BY NoneUnknown DEF Sound, SoundBut

LEMMA UnknownIsDescription ==
  /\ UnknownServer \in Descriptions /\ UnknownServer.type = "Unknown"
  /\ UnknownServer.version = NoVersion
  BY DEF UnknownServer, Descriptions, ServerTypes, NoVersion, Versions

\* A description that bears no data fits wherever its kind does.
LEMMA UnknownFits ==
  ASSUME NEW t, NEW s, s.type \in {"Unknown", "PossiblePrimary", "RSGhost"},
         s.type \in Kinds(t.type)
  PROVE  Fits(t, s)
  BY DEF Fits, Members, DataBearing

LEMMA ServersSet ==
  ASSUME NEW t, IsTopology(t), NEW S \in SUBSET Address, NEW f \in [S -> Descriptions]
  PROVE  LET r == [t EXCEPT !.servers = f]
         IN  /\ IsTopology(r) /\ r.servers = f /\ r.type = t.type /\ SameRest(t, r)
             /\ Known(r) = S
  BY DEF IsTopology, Known, SameRest, SameElection

LEMMA TypeSet ==
  ASSUME NEW t, IsTopology(t), NEW type \in TopologyTypes
  PROVE  LET r == [t EXCEPT !.type = type]
         IN  /\ IsTopology(r) /\ r.type = type /\ r.servers = t.servers
             /\ SameRest(t, r) /\ Known(r) = Known(t)
  BY DEF IsTopology, Known, SameRest, SameElection

\* Servers that fit stay so while nothing is recorded about the topology.
LEMMA FitsAlike ==
  ASSUME NEW t, NEW r, NEW s, r.type = t.type, SameRest(t, r), Fits(t, s)
  PROVE  Fits(r, s)
  BY DEF SameRest, SameElection, Fits, WonLast

LEMMA RemoveEffect ==
  ASSUME NEW t, NEW a, NEW b, SoundBut(t, b), b \in {a, None}
  PROVE  LET r == Remove(t, a)
         IN  /\ Sound(r) /\ r.type = t.type /\ SameRest(t, r)
             /\ Known(r) = Known(t) \ {a} /\ Inherits(t, r)
             /\ \A x \in Known(r) : r.servers[x] = t.servers[x]
             /\ a \notin Known(t) => r.servers = t.servers
  <1> DEFINE f == Restrict(t.servers, Known(t) \ {a})
             r == Remove(t, a)
  <1>1. Known(t) \subseteq Address /\ t.servers \in [Known(t) -> Descriptions]
    BY DEF SoundBut, IsTopology, Known
  <1>2. f \in [Known(t) \ {a} -> Descriptions] /\ \A x \in Known(t) \ {a} : f[x] = t.servers[x]
    BY <1>1 DEF Restrict
  <1>3. ASSUME a \notin Known(t)
        PROVE  f = t.servers
    <2>1. Known(t) \ {a} = Known(t)
      BY <1>3
    <2> QED
      BY <1>1, <2>1 DEF Restrict
  <1>4. r = [t EXCEPT !.servers = f] /\ IsTopology(t)
    BY DEF Remove, SoundBut
  <1> HIDE DEF f, r
  <1>5. /\ IsTopology(r) /\ r.servers = f /\ r.type = t.type /\ SameRest(t, r)
        /\ Known(r) = Known(t) \ {a}
    BY <1>1, <1>2, <1>4, ServersSet
  <1>6. \A x \in Known(r) : x \in Known(t) \ {b} /\ r.servers[x] = t.servers[x]
    BY <1>2, <1>4, <1>5, NoneUnknown
  <1>7. \A x \in Known(r) : Fits(r, r.servers[x])
    BY <1>5, <1>6, FitsAlike DEF SoundBut
  <1>8. Sound(r)
    BY <1>5, <1>6, <1>7 DEF Sound, SoundBut
  <1>9. Inherits(t, r)
    BY <1>6 DEF Inherits
  <1> QED
    BY <1>3, <1>5, <1>6, <1>8, <1>9 DEF r

\* What fits a topology that may be a replica set's fits one with a primary.
WithPrimary(t) == [t EXCEPT !.type = "ReplicaSetWithPrimary"]

LEMMA WithPrimaryFits ==
  ASSUME NEW t, IsTopology(t), t.type \in ReplicaSet \cup {"Unknown"}, NEW s, Fits(t, s)
  PROVE  Fits(WithPrimary(t), s)
  <1> DEFINE w == WithPrimary(t)
  <1>1. w.type = "ReplicaSetWithPrimary" /\ SameRest(t, w)
    BY TypeSet DEF TopologyTypes, WithPrimary
  <1> HIDE DEF w
  <1>2. Fits(w, s)
    BY <1>1 DEF Fits, WonLast, Kinds, ReplicaSet, SameRest, SameElection, Members
  <1> QED
    BY <1>2 DEF w

\* A replica set's type says whether it has a primary.
LEMMA CheckEffect ==
  ASSUME NEW t, IsTopology(t), \A x \in Known(t) : Fits(WithPrimary(t), t.servers[x]),
         \A x, y \in Known(t) :
           t.servers[x].type = "RSPrimary" /\ t.servers[y].type = "RSPrimary" => x = y
  PROVE  LET r == CheckIfHasPrimary(t)
         IN  /\ Sound(r) /\ r.type \in ReplicaSet /\ SameRest(t, r)
             /\ Known(r) = Known(t) /\ r.servers = t.servers
  <1> DEFINE type == IF HasPrimary(t) THEN "ReplicaSetWithPrimary"
                                      ELSE "ReplicaSetNoPrimary"
             r == CheckIfHasPrimary(t)
             w == WithPrimary(t)
  <1>1. type \in ReplicaSet /\ type \in TopologyTypes /\ r = [t EXCEPT !.type = type]
    BY DEF ReplicaSet, TopologyTypes, CheckIfHasPrimary
  <1>2. w.type = "ReplicaSetWithPrimary" /\ SameRest(t, w)
    BY TypeSet DEF TopologyTypes, WithPrimary
  <1>3. \A x \in Known(t) : t.servers[x].type = "RSPrimary" => type = "ReplicaSetWithPrimary"
    BY DEF HasPrimary
  <1>4. \A x \in Known(t) : Fits(w, t.servers[x])
    OBVIOUS
  <1> HIDE DEF type, r, w
  <1>5. /\ IsTopology(r) /\ r.type = type /\ r.servers = t.servers
        /\ SameRest(t, r) /\ Known(r) = Known(t)
    BY <1>1, TypeSet
  <1>6. ASSUME NEW x \in Known(t)
        PROVE  Fits(r, t.servers[x])
    BY <1>1, <1>2, <1>3, <1>4, <1>5
       DEF Fits, WonLast, Kinds, ReplicaSet, SameRest, SameElection
  <1>7. Sound(r)
    BY <1>5, <1>6 DEF Sound, SoundBut
  <1> QED
    BY <1>1, <1>5, <1>7 DEF r

LEMMA CheckSound ==
  ASSUME NEW t, Sound(t), t.type \in ReplicaSet \cup {"Unknown"}
  PROVE  LET r == CheckIfHasPrimary(t)
         IN  /\ Sound(r) /\ r.type \in ReplicaSet /\ SameRest(t, r)
             /\ Known(r) = Known(t) /\ r.servers = t.servers
  <1>1. IsTopology(t) /\ \A x \in Known(t) : Fits(WithPrimary(t), t.servers[x])
    BY WithPrimaryFits, NoneUnknown DEF Sound, SoundBut
  <1>2. \A x, y \in Known(t) :
          t.servers[x].type = "RSPrimary" /\ t.servers[y].type = "RSPrimary" => x = y
    BY <1>1, NoneUnknown DEF Sound, SoundBut, ReplicaSet
  <1> QED
    BY <1>1, <1>2, CheckEffect

\* New servers are Unknown.
LEMMA AddEffect ==
  ASSUME NEW t, NEW b, SoundBut(t, b), t.type # "LoadBalanced",
         NEW hosts \in SUBSET Address
  PROVE  LET r == AddHosts(t, hosts)
         IN  /\ SoundBut(r, b) /\ r.type = t.type /\ SameRest(t, r)
             /\ Known(r) = Known(t) \cup hosts /\ Inherits(t, r)
             /\ \A x \in Known(t) : r.servers[x] = t.servers[x]
             /\ \A x \in hosts \ Known(t) : r.servers[x] = UnknownServer
  <1> DEFINE f == [x \in Known(t) \cup hosts |->
                     IF x \in Known(t) THEN t.servers[x] ELSE UnknownServer]
             r == AddHosts(t, hosts)
  <1>1. Known(t) \subseteq Address /\ t.servers \in [Known(t) -> Descriptions]
    BY DEF SoundBut, IsTopology, Known
  <1>2. /\ f \in [Known(t) \cup hosts -> Descriptions]
        /\ \A x \in Known(t) : f[x] = t.servers[x]
        /\ \A x \in hosts \ Known(t) : f[x] = UnknownServer
    BY <1>1, UnknownIsDescription
  <1>3. r = [t EXCEPT !.servers = f] /\ IsTopology(t)
    BY DEF AddHosts, SoundBut
  <1> HIDE DEF f, r
  <1>4. /\ IsTopology(r) /\ r.servers = f /\ r.type = t.type /\ SameRest(t, r)
        /\ Known(r) = Known(t) \cup hosts
    BY <1>1, <1>2, <1>3, ServersSet
  <1>5. "Unknown" \in Kinds(t.type)
    BY <1>3 DEF IsTopology, TopologyTypes, Kinds, ReplicaSet, ServerTypes
  <1>6. Fits(r, UnknownServer)
    BY <1>4, <1>5, UnknownFits, UnknownIsDescription
  <1>7. \A x \in Known(t) \ {b} : Fits(r, t.servers[x])
    BY <1>4, FitsAlike DEF SoundBut
  <1>8. SoundBut(r, b)
    BY <1>2, <1>4, <1>6, <1>7, UnknownIsDescription DEF SoundBut
  <1>9. Inherits(t, r)
    BY <1>2, <1>4, UnknownIsDescription DEF Inherits
  <1> QED
    BY <1>2, <1>4, <1>8, <1>9 DEF r

\* A possible primary has said nothing yet.
LEMMA PossibleEffect ==
  ASSUME NEW t, NEW b, SoundBut(t, b), t.type \in ReplicaSet, NEW a
  PROVE  LET r == UpdatePossiblePrimary(t, a)
         IN  /\ SoundBut(r, b) /\ r.type = t.type /\ SameRest(t, r)
             /\ Known(r) = Known(t) /\ Inherits(t, r)
             /\ \A x \in Known(t) : t.servers[x].type # "Unknown" =>
                                     r.servers[x] = t.servers[x]
  <1>1. CASE a \in Known(t) /\ t.servers[a].type = "Unknown"
    <2> DEFINE s == [t.servers[a] EXCEPT !.type = "PossiblePrimary"]
               f == [t.servers EXCEPT ![a] = s]
               r == [t EXCEPT !.servers = f]
    <2>1. Known(t) \in SUBSET Address /\ t.servers \in [Known(t) -> Descriptions]
      BY DEF SoundBut, IsTopology, Known
    <2>2. /\ s \in Descriptions /\ s.type = "PossiblePrimary"
          /\ s.version = t.servers[a].version
      BY <1>1, <2>1 DEF Descriptions, ServerTypes
    <2>3. UpdatePossiblePrimary(t, a) = r
      BY <1>1 DEF UpdatePossiblePrimary
    <2> HIDE DEF s
    <2>4. /\ f \in [Known(t) -> Descriptions] /\ f[a] = s
          /\ \A x \in Known(t) \ {a} : f[x] = t.servers[x]
      BY <1>1, <2>1, <2>2
    <2> HIDE DEF f
    <2>5. /\ IsTopology(r) /\ r.servers = f /\ r.type = t.type /\ SameRest(t, r)
          /\ Known(r) = Known(t)
      BY <2>1, <2>4, ServersSet DEF SoundBut
    <2> HIDE DEF r
    <2>6. Fits(r, s)
      BY <2>2, <2>5, UnknownFits DEF Kinds, ReplicaSet
    <2>7. \A x \in Known(t) \ {b} : Fits(r, t.servers[x])
      BY <2>5, FitsAlike DEF SoundBut
    <2>8. SoundBut(r, b)
      BY <2>2, <2>4, <2>5, <2>6, <2>7 DEF SoundBut
    <2>9. Inherits(t, r)
      BY <1>1, <2>2, <2>4, <2>5 DEF Inherits
    <2> QED
      BY <1>1, <2>2, <2>3, <2>4, <2>5, <2>8, <2>9
  <1>2. CASE ~(a \in Known(t) /\ t.servers[a].type = "Unknown")
    BY <1>2 DEF UpdatePossiblePrimary, SameRest, SameElection, Inherits
  <1> QED
    BY <1>1, <1>2

\* The session timeout is no longer than that of any server that bears data.
LEMMA DescribeEffect ==
  ASSUME NEW t, IsTopology(t), NEW f \in [Known(t) -> Descriptions]
  PROVE  LET r == Describe(t, f)
         IN  /\ IsTopology(r) /\ r.servers = f /\ r.type = t.type
             /\ SameElection(t, r) /\ r.compatible = t.compatible
             /\ Known(r) = Known(t)
             /\ \A x \in Known(t) : r.lstm # 0 /\ DataBearing(f[x]) => f[x].lstm >= r.lstm
  <1> DEFINE reported == {f[a].lstm : a \in {x \in Known(t) : DataBearing(f[x])}}
             r == Describe(t, f)
  <1>1. reported \in SUBSET Nat
    BY DEF Descriptions
  <1>2. DOMAIN f = Known(t)
    OBVIOUS
  <1>3. SessionTimeout(f) = IF reported = {} THEN 0 ELSE Min(reported)
    BY <1>2 DEF SessionTimeout
  <1>4. \A x \in Known(t) : DataBearing(f[x]) => f[x].lstm \in reported
    OBVIOUS
  <1> HIDE DEF reported
  <1>5. SessionTimeout(f) \in Nat /\ \A n \in reported : SessionTimeout(f) <= n
    <2>1. CASE reported = {}
      BY <1>3, <2>1
    <2>2. CASE reported # {}
      <3>1. Min(reported) \in reported /\ \A n \in reported : Min(reported) <= n
        BY <1>1, <2>2, LeastOf
      <3> QED
        BY <1>1, <1>3, <2>2, <3>1
    <2> QED
      BY <2>1, <2>2
  <1>6. r = [t EXCEPT !.servers = f, !.lstm = SessionTimeout(f)]
    BY DEF Describe
  <1> HIDE DEF r
  <1>7. /\ IsTopology(r) /\ r.servers = f /\ r.type = t.type
        /\ SameElection(t, r) /\ r.compatible = t.compatible
        /\ Known(r) = Known(t) /\ r.lstm = SessionTimeout(f)
    BY <1>2, <1>5, <1>6 DEF IsTopology, Known, SameElection
  <1>8. \A x \in Known(t) : DataBearing(f[x]) => f[x].lstm \in Nat /\ f[x].lstm >= r.lstm
    BY <1>1, <1>4, <1>5, <1>7
  <1> QED
    BY <1>7, <1>8 DEF r

\* Fitting is, but for the timeout, a matter of the type and the election.
LEMMA FitsAgain ==
  ASSUME NEW t, NEW r, NEW s, r.type = t.type, SameElection(t, r), Fits(t, s),
         r.lstm # 0 /\ DataBearing(s) => s.lstm >= r.lstm
  PROVE  Fits(r, s)
  BY DEF SameElection, Fits, WonLast

LEMMA ReplaceEffect ==
  ASSUME NEW t, NEW a, SoundBut(t, a), NEW d, FromHello(d)
  PROVE  LET r == ReplaceDescription(t, a, d)
         IN  /\ IsTopology(r) /\ r.type = t.type /\ SameElection(t, r)
             /\ Known(r) = Known(t)
             /\ \A x \in Known(t) \ {a} : /\ r.servers[x] = t.servers[x]
                                         /\ Fits(r, r.servers[x])
             /\ a \in Known(t) =>
                  /\ r.servers[a].version = d.version
                  /\ t.type # "LoadBalanced" => r.servers[a] = d
                  /\ t.type = "LoadBalanced" => Sound(r)
                  /\ r.lstm # 0 /\ DataBearing(d) => d.lstm >= r.lstm
             /\ a \notin Known(t) => Sound(r) /\ r.servers = t.servers
  <1> DEFINE new == IF t.type = "LoadBalanced"
                    THEN [d EXCEPT !.type = "LoadBalancer"] ELSE d
             f == [x \in Known(t) |-> IF x = a THEN new ELSE t.servers[x]]
             r == ReplaceDescription(t, a, d)
  <1>1. Known(t) \subseteq Address /\ t.servers \in [Known(t) -> Descriptions] /\ IsTopology(t)
    BY DEF Sound, SoundBut, IsTopology, Known
  <1>2. /\ new \in Descriptions
        /\ t.type # "LoadBalanced" => new = d
        /\ t.type = "LoadBalanced" => new.type = "LoadBalancer" /\ new.lstm = d.lstm
        /\ new.version = d.version
    BY DEF FromHello, Descriptions, ServerTypes
  <1>3. r = Describe(t, f)
    BY DEF ReplaceDescription
  <1> HIDE DEF new
  <1>5. /\ f \in [Known(t) -> Descriptions]
        /\ a \in Known(t) => f[a] = new
        /\ \A x \in Known(t) \ {a} : f[x] = t.servers[x]
    BY <1>1, <1>2
  <1>6. ASSUME a \notin Known(t)
        PROVE  f = t.servers
    BY <1>1, <1>6
  <1> HIDE DEF f, r
  <1>7. /\ IsTopology(r) /\ r.servers = f /\ r.type = t.type
        /\ SameElection(t, r) /\ Known(r) = Known(t)
        /\ \A x \in Known(t) : r.lstm # 0 /\ DataBearing(f[x]) => f[x].lstm >= r.lstm
    BY <1>1, <1>3, <1>5, DescribeEffect
  <1>8. \A x \in Known(t) \ {a} : Fits(r, f[x])
    BY <1>5, <1>7, FitsAgain DEF Sound, SoundBut
  <1>9. SoundBut(r, a)
    BY <1>5, <1>7, <1>8 DEF Sound, SoundBut
  <1>10. ASSUME a \notin Known(t)
         PROVE  Sound(r)
    BY <1>7, <1>9, <1>10 DEF Sound, SoundBut
  <1>11. ASSUME a \in Known(t), t.type = "LoadBalanced"
         PROVE  Sound(r)
    <2>1. /\ new.type = "LoadBalancer"
          /\ r.lstm # 0 /\ DataBearing(new) => new.lstm >= r.lstm
      BY <1>2, <1>5, <1>7, <1>11
    <2>2. Fits(r, new)
      BY <1>7, <1>11, <2>1 DEF Fits, Kinds, ReplicaSet, Members
    <2>3. \A x \in Known(r) : r.servers[x].type = "LoadBalancer"
      BY <1>5, <1>7, <1>8, <1>11, <2>1 DEF Fits, Kinds, ReplicaSet
    <2> QED
      BY <1>5, <1>7, <1>8, <2>2, <2>3 DEF Sound, SoundBut
  <1>12. ASSUME a \in Known(t)
         PROVE  r.lstm # 0 /\ DataBearing(d) => d.lstm >= r.lstm
    <2>1. CASE t.type = "LoadBalanced"
      <3>1. DataBearing(f[a]) /\ f[a].lstm = d.lstm
        BY <1>2, <1>5, <1>12, <2>1 DEF DataBearing
      <3> QED
        BY <1>7, <1>12, <3>1
    <2>2. CASE t.type # "LoadBalanced"
      BY <1>2, <1>5, <1>7, <1>12, <2>2
    <2> QED
      BY <2>1, <2>2
  <1>13. \A x \in Known(t) \ {a} : r.servers[x] = t.servers[x] /\ Fits(r, r.servers[x])
    BY <1>5, <1>7, <1>8
  <1> QED
    BY <1>2, <1>5, <1>6, <1>7, <1>10, <1>11, <1>12, <1>13 DEF r

LEMMA AdoptEffect ==
  ASSUME NEW t, IsTopology(t), NEW d \in Descriptions
  PROVE  LET r == AdoptSetName(t, d)
         IN  /\ IsTopology(r) /\ r.type = t.type /\ r.servers = t.servers
             /\ r.setName = IF t.setName = None THEN d.setName ELSE t.setName
             /\ r.maxElectionId = t.maxElectionId /\ r.maxSetVersion = t.maxSetVersion
             /\ r.lstm = t.lstm /\ Known(r) = Known(t)
  BY DEF AdoptSetName, IsTopology, Descriptions, Known

LEMMA WireEffect ==
  ASSUME NEW t, IsTopology(t), NEW d
  PROVE  LET r == CheckWireVersions(t, d)
         IN  /\ IsTopology(r) /\ r.type = t.type /\ r.servers = t.servers
             /\ SameElection(t, r) /\ r.lstm = t.lstm /\ Known(r) = Known(t)
  BY DEF CheckWireVersions, IsTopology, SameElection, Known

LEMMA RecordEffect ==
  ASSUME NEW t, IsTopology(t), NEW d, d \in Descriptions
  PROVE  LET r == RecordElection(t, d)
         IN  /\ IsTopology(r) /\ r.type = t.type /\ r.servers = t.servers
             /\ r.setName = t.setName /\ r.lstm = t.lstm /\ Known(r) = Known(t)
             /\ WonLast(r, d)
  <1> DEFINE r == RecordElection(t, d)
  <1>1. /\ d.setVersion \in Nat /\ d.electionId \in Nat
        /\ t.maxSetVersion \in Nat /\ t.maxElectionId \in Nat
    BY DEF Descriptions, IsTopology
  <1>2. CASE Modern(d)
    <2>1. r = [t EXCEPT !.maxElectionId = d.electionId, !.maxSetVersion = d.setVersion]
      BY <1>2 DEF RecordElection
    <2>2. r.maxElectionId = d.electionId /\ r.maxSetVersion = d.setVersion
      BY <2>1 DEF IsTopology
    <2>3. WonLast(r, d)
      BY <1>1, <2>2 DEF WonLast
    <2>4. /\ IsTopology(r) /\ r.type = t.type /\ r.servers = t.servers
          /\ r.setName = t.setName /\ r.lstm = t.lstm /\ Known(r) = Known(t)
      BY <1>1, <2>1 DEF IsTopology, Known
    <2> QED
      BY <2>3, <2>4
  <1>3. CASE ~Modern(d)
    <2> DEFINE election == IF 0 \in {d.setVersion, d.electionId}
                           THEN t.maxElectionId ELSE d.electionId
               version == Max({t.maxSetVersion, d.setVersion})
    <2>1. r = [t EXCEPT !.maxElectionId = election, !.maxSetVersion = version]
      BY <1>3 DEF RecordElection
    <2>2. election \in Nat /\ version \in Nat /\ version >= d.setVersion
      BY <1>1, GreaterOf
    <2>3. 0 \notin {d.electionId, d.setVersion} => election = d.electionId
      OBVIOUS
    <2> HIDE DEF election, version
    <2>4. r.maxElectionId = election /\ r.maxSetVersion = version
      BY <2>1 DEF IsTopology
    <2> QED
      BY <1>1, <1>3, <2>1, <2>2, <2>3, <2>4 DEF IsTopology, Known, WonLast
  <1> QED
    BY <1>2, <1>3

LEMMA InheritsAll ==
  ASSUME NEW t, NEW r, NEW q, Inherits(t, r), Inherits(r, q)
  PROVE  Inherits(t, q)
  BY DEF Inherits

LEMMA InheritsSame ==
  ASSUME NEW t, NEW r, \A x \in Known(r) : x \in Known(t) /\ r.servers[x] = t.servers[x]
  PROVE  Inherits(t, r)
  BY DEF Inherits

\* A set without a name has no members yet.
LEMMA AdoptSound ==
  ASSUME NEW t, NEW b, SoundBut(t, b), t.type \in ReplicaSet \cup {"Unknown"},
         NEW d \in Descriptions
  PROVE  SoundBut(AdoptSetName(t, d), b)
  <1> DEFINE r == AdoptSetName(t, d)
  <1>1. /\ IsTopology(r) /\ r.type = t.type /\ r.servers = t.servers
        /\ r.setName = IF t.setName = None THEN d.setName ELSE t.setName
        /\ r.maxElectionId = t.maxElectionId /\ r.maxSetVersion = t.maxSetVersion
        /\ r.lstm = t.lstm /\ Known(r) = Known(t)
    BY AdoptEffect DEF SoundBut
  <1> HIDE DEF r
  <1>2. ASSUME NEW x \in Known(t) \ {b}
        PROVE  Fits(r, t.servers[x])
    <2>1. Fits(t, t.servers[x])
      BY DEF SoundBut
    <2>2. t.servers[x].type \in Members => r.setName = t.setName
      BY <1>1, <2>1 DEF Fits, Kinds, ReplicaSet, Members
    <2> QED
      BY <1>1, <2>1, <2>2 DEF Fits, Kinds, ReplicaSet, WonLast
  <1>3. SoundBut(r, b)
    BY <1>1, <1>2 DEF SoundBut
  <1> QED
    BY <1>3 DEF r

-----------------------------------------------------------------------------
(* The answer of a primary *)

\* An election that is recorded is no matter to those who are not primary.
LEMMA FitsNoPrimary ==
  ASSUME NEW t, NEW r, NEW s, r.type = t.type, r.setName = t.setName, Fits(t, s),
         s.type # "RSPrimary", r.lstm # 0 /\ DataBearing(s) => s.lstm >= r.lstm
  PROVE  Fits(r, s)
  BY DEF Fits

LEMMA DemoteEffect ==
  ASSUME NEW t, NEW a, SoundBut(t, a), t.type \in ReplicaSet \cup {"Unknown"},
         NEW d \in Descriptions, a \in Known(t), t.servers[a] = d, ~StalePrimary(t, d)
  PROVE  LET r == DemoteOthers(RecordElection(t, d), a)
         IN  /\ SoundBut(r, a) /\ r.type = t.type /\ r.setName = t.setName
             /\ Known(r) = Known(t) /\ WonLast(r, d) /\ Inherits(t, r)
             /\ r.servers[a] = d
             /\ r.lstm # 0 /\ DataBearing(d) => d.lstm >= r.lstm
             /\ \A x \in Known(r) \ {a} : r.servers[x].type # "RSPrimary"
  <1> DEFINE q == RecordElection(t, d)
             f == [x \in Known(q) |-> IF x # a /\ q.servers[x].type = "RSPrimary"
                                      THEN UnknownServer ELSE q.servers[x]]
             r == DemoteOthers(q, a)
  <1>1. /\ IsTopology(q) /\ q.type = t.type /\ q.servers = t.servers
        /\ q.setName = t.setName /\ q.lstm = t.lstm /\ Known(q) = Known(t)
        /\ WonLast(q, d)
    BY RecordEffect DEF SoundBut
  <1>2. t.servers \in [Known(t) -> Descriptions]
    BY DEF SoundBut, IsTopology, Known
  <1>3. r = Describe(q, f)
    BY DEF DemoteOthers
  <1> HIDE DEF q
  <1>4. /\ f \in [Known(q) -> Descriptions] /\ f[a] = d
        /\ \A x \in Known(t) \ {a} :
             f[x] = IF t.servers[x].type = "RSPrimary" THEN UnknownServer ELSE t.servers[x]
    BY <1>1, <1>2, UnknownIsDescription
  <1> HIDE DEF f, r
  <1>5. /\ IsTopology(r) /\ r.servers = f /\ r.type = t.type /\ Known(r) = Known(t)
        /\ SameElection(q, r)
        /\ \A x \in Known(t) : r.lstm # 0 /\ DataBearing(f[x]) => f[x].lstm >= r.lstm
    BY <1>1, <1>3, <1>4, DescribeEffect
  <1>6. r.setName = t.setName /\ WonLast(r, d)
    BY <1>1, <1>5 DEF SameElection, WonLast
  <1>7. ASSUME NEW x \in Known(t) \ {a}
        PROVE  Fits(r, f[x]) /\ f[x].type # "RSPrimary"
    <2>1. Fits(t, t.servers[x])
      BY DEF SoundBut
    <2>2. CASE t.servers[x].type = "RSPrimary"
      BY <1>4, <1>5, <2>2, UnknownFits, UnknownIsDescription DEF Kinds, ReplicaSet
    <2>3. CASE t.servers[x].type # "RSPrimary"
      BY <1>4, <1>5, <1>6, <2>1, <2>3, FitsNoPrimary
    <2> QED
      BY <2>2, <2>3
  <1>8. SoundBut(r, a)
    BY <1>5, <1>7 DEF SoundBut
  <1>9. Inherits(t, r)
    <2>1. ASSUME NEW x \in Known(r)
          PROVE  f[x] \in {UnknownServer, t.servers[x]}
      BY <1>4, <1>5
    <2> QED
      BY <1>5, <2>1, UnknownIsDescription DEF Inherits
  <1> QED
    BY <1>4, <1>5, <1>6, <1>7, <1>8, <1>9 DEF q, r

\* Only the hosts that the primary names stay.
LEMMA MembersEffect ==
  ASSUME NEW t, NEW a, SoundBut(t, a), t.type \in ReplicaSet \cup {"Unknown"},
         NEW hosts \in SUBSET Address
  PROVE  LET r == [t EXCEPT !.servers = Restrict(AddHosts(t, hosts).servers, hosts)]
         IN  /\ IsTopology(r) /\ r.type = t.type /\ SameRest(t, r)
             /\ Known(r) = hosts /\ Inherits(t, r)
             /\ \A x \in hosts \ {a} : Fits(r, r.servers[x])
             /\ \A x \in hosts \cap Known(t) : r.servers[x] = t.servers[x]
             /\ \A x \in hosts \ Known(t) : r.servers[x] = UnknownServer
  <1> DEFINE q == AddHosts(t, hosts)
             f == Restrict(q.servers, hosts)
             r == [t EXCEPT !.servers = f]
  <1>1. /\ SoundBut(q, a) /\ q.type = t.type /\ SameRest(t, q)
        /\ Known(q) = Known(t) \cup hosts /\ Inherits(t, q)
        /\ \A x \in Known(t) : q.servers[x] = t.servers[x]
        /\ \A x \in hosts \ Known(t) : q.servers[x] = UnknownServer
    BY AddEffect DEF ReplicaSet
  <1>2. q.servers \in [Known(q) -> Descriptions]
    BY <1>1 DEF SoundBut, IsTopology, Known
  <1> HIDE DEF q
  <1>3. f \in [hosts -> Descriptions] /\ \A x \in hosts : f[x] = q.servers[x]
    BY <1>1, <1>2 DEF Restrict
  <1> HIDE DEF f
  <1>4. /\ IsTopology(r) /\ r.servers = f /\ r.type = t.type /\ SameRest(t, r)
        /\ Known(r) = hosts
    BY <1>3, ServersSet DEF SoundBut
  <1> HIDE DEF r
  <1>5. r.type = q.type /\ SameRest(q, r)
    BY <1>1, <1>4 DEF SameRest, SameElection
  <1>6. \A x \in hosts \ {a} : Fits(r, f[x])
    BY <1>1, <1>3, <1>5, FitsAlike DEF SoundBut
  <1>8. Inherits(t, r)
    <2>1. Inherits(q, r)
      BY <1>1, <1>3, <1>4, InheritsSame
    <2> QED
      BY <1>1, <2>1, InheritsAll
  <1> QED
    BY <1>1, <1>3, <1>4, <1>6, <1>8 DEF f, q, r

\* A server that is primary afterwards was not taken over a later election.
LEMMA FromPrimary ==
  ASSUME NEW t, NEW a, SoundBut(t, a), t.type \in ReplicaSet \cup {"Unknown"},
         NEW d, FromHello(d), d.type = "RSPrimary",
         a \in Known(t) => /\ t.servers[a] = d
                           /\ t.lstm # 0 => d.lstm >= t.lstm
  PROVE  LET r == UpdateRSFromPrimary(t, a, d)
         IN  /\ Sound(r) /\ Inherits(t, r)
             /\ a \in Known(r) /\ r.servers[a].type = "RSPrimary" => ~StalePrimary(t, d)
             /\ a \notin Known(t) => r = t
             /\ r.type # "LoadBalanced"
  <1>10. PICK named : named = AdoptSetName(t, d)
    OBVIOUS
  <1>11. PICK elected : elected = DemoteOthers(RecordElection(named, d), a)
    OBVIOUS
  <1>12. PICK members :
           members = [elected EXCEPT !.servers =
                        Restrict(AddHosts(elected, d.hosts).servers, d.hosts)]
    OBVIOUS
  <1>13. PICK update : update = UpdateRSFromPrimary(t, a, d)
    OBVIOUS
  <1>1. /\ IsTopology(named) /\ named.type = t.type /\ named.servers = t.servers
        /\ named.setName = IF t.setName = None THEN d.setName ELSE t.setName
        /\ named.maxElectionId = t.maxElectionId /\ named.maxSetVersion = t.maxSetVersion
        /\ named.lstm = t.lstm /\ Known(named) = Known(t)
    BY <1>10, AdoptEffect DEF SoundBut, FromHello
  <1>2. d \in Descriptions /\ d.hosts \in SUBSET Address /\ d.setName # None
    BY DEF FromHello, Descriptions, Members
  <1>3. SoundBut(named, a) /\ Inherits(t, named)
    BY <1>1, <1>2, <1>10, AdoptSound, InheritsSame
  <1>4. StalePrimary(named, d) = StalePrimary(t, d)
    BY <1>1 DEF StalePrimary
  <1>9. update = IF a \notin Known(t) THEN t
                 ELSE IF named.setName # d.setName
                      THEN CheckIfHasPrimary(Remove(named, a))
                 ELSE IF StalePrimary(named, d)
                      THEN CheckIfHasPrimary(ReplaceDescription(named, a, UnknownServer))
                 ELSE CheckIfHasPrimary(members)
    BY <1>10, <1>11, <1>12, <1>13 DEF UpdateRSFromPrimary
  <1>14. \A type \in ReplicaSet \cup {"Unknown"} : type # "LoadBalanced"
    BY DEF ReplicaSet
  <1>5. CASE a \notin Known(t)
    <2>1. Sound(t)
      BY <1>5 DEF Sound, SoundBut
    <2> QED
      BY <1>13, <1>14, <1>5, <1>9, <2>1, InheritsSame
  <1>6. CASE a \in Known(t) /\ named.setName # d.setName
    <2>4. PICK rest : rest = Remove(named, a)
      OBVIOUS
    <2>1. update = CheckIfHasPrimary(rest)
      BY <1>6, <1>9, <2>4
    <2>2. /\ Sound(rest) /\ rest.type = t.type /\ Known(rest) = Known(t) \ {a}
          /\ Inherits(named, rest)
      BY <1>1, <1>3, <2>4, RemoveEffect
    <2>3. LET r == CheckIfHasPrimary(rest)
          IN  Sound(r) /\ r.type \in ReplicaSet /\ Known(r) = Known(rest) /\ r.servers = rest.servers
      BY <2>2, CheckSound
    <2> QED
      BY <1>13, <1>14, <1>3, <1>6, <2>1, <2>2, <2>3, InheritsSame, InheritsAll
  <1>7. CASE a \in Known(t) /\ named.setName = d.setName /\ StalePrimary(named, d)
    <2>9. PICK demoted : demoted = ReplaceDescription(named, a, UnknownServer)
      OBVIOUS
    <2>1. update = CheckIfHasPrimary(demoted)
      BY <1>7, <1>9, <2>9
    <2>2. FromHello(UnknownServer)
      BY UnknownIsDescription DEF FromHello, Members
    <2>3. /\ IsTopology(demoted) /\ demoted.type = t.type /\ Known(demoted) = Known(t)
          /\ \A x \in Known(t) \ {a} : /\ demoted.servers[x] = t.servers[x]
                                      /\ Fits(demoted, demoted.servers[x])
          /\ demoted.servers[a] = UnknownServer
      <3>1. a \in Known(named) /\ named.type # "LoadBalanced"
        BY <1>1, <1>7 DEF ReplicaSet
      <3>2. /\ IsTopology(demoted) /\ demoted.type = named.type
            /\ Known(demoted) = Known(named)
            /\ \A x \in Known(named) \ {a} : /\ demoted.servers[x] = named.servers[x]
                                            /\ Fits(demoted, demoted.servers[x])
        BY <1>3, <2>2, <2>9, ReplaceEffect
      <3>3. demoted.servers[a] = UnknownServer
        BY <1>3, <2>2, <2>9, <3>1, ReplaceEffect
      <3> QED
        BY <1>1, <3>2, <3>3
    <2>4. Fits(demoted, UnknownServer)
      BY <2>3, UnknownFits, UnknownIsDescription DEF Kinds, ReplicaSet
    <2>5. Sound(demoted)
      BY <2>3, <2>4, UnknownIsDescription DEF Sound, SoundBut
    <2>6. Inherits(t, demoted)
      BY <2>3, UnknownIsDescription DEF Inherits
    <2>7. LET r == CheckIfHasPrimary(demoted)
          IN  Sound(r) /\ r.type \in ReplicaSet /\ Known(r) = Known(demoted) /\ r.servers = demoted.servers
      BY <2>3, <2>5, CheckSound
    <2> QED
      BY <1>13, <1>14, <1>7, <2>1, <2>3, <2>6, <2>7, UnknownIsDescription, InheritsSame, InheritsAll
  <1>8. CASE a \in Known(t) /\ named.setName = d.setName /\ ~StalePrimary(named, d)
    <2>1. update = CheckIfHasPrimary(members)
      BY <1>8, <1>9
    <2>2. /\ SoundBut(elected, a) /\ elected.type = t.type
          /\ elected.setName = named.setName
          /\ Known(elected) = Known(t) /\ WonLast(elected, d) /\ Inherits(named, elected)
          /\ elected.servers[a] = d
          /\ elected.lstm # 0 /\ DataBearing(d) => d.lstm >= elected.lstm
          /\ \A x \in Known(elected) \ {a} : elected.servers[x].type # "RSPrimary"
      <3>1. /\ SoundBut(named, a) /\ named.type \in ReplicaSet \cup {"Unknown"}
            /\ a \in Known(named) /\ named.servers[a] = d
        BY <1>1, <1>3, <1>8
      <3> QED
        BY <1>1, <1>2, <1>8, <1>11, <3>1, DemoteEffect
    <2>3. /\ IsTopology(members) /\ members.type = t.type /\ SameRest(elected, members)
          /\ Known(members) = d.hosts /\ Inherits(elected, members)
          /\ \A x \in d.hosts \cap Known(t) : members.servers[x] = elected.servers[x]
          /\ \A x \in d.hosts \ Known(t) : members.servers[x] = UnknownServer
          /\ \A x \in d.hosts \ {a} : Fits(members, members.servers[x])
      <3>1. elected.type \in ReplicaSet \cup {"Unknown"}
        BY <2>2
      <3> QED
        BY <1>2, <2>2, <3>1, <1>12, MembersEffect
    <2>4. /\ IsTopology(members)
          /\ \A x \in Known(members) \ {a} : /\ members.servers[x].type # "RSPrimary"
                                             /\ Fits(members, members.servers[x])
      BY <2>2, <2>3, UnknownIsDescription
    <2>5. a \in Known(members) => members.servers[a] = d
      BY <1>8, <2>2, <2>3
    <2>6. Fits(WithPrimary(members), d)
      <3> DEFINE w == WithPrimary(members)
      <3>1. w.type = "ReplicaSetWithPrimary" /\ SameRest(members, w)
        BY <2>4, TypeSet DEF TopologyTypes, WithPrimary
      <3> HIDE DEF w
      <3>2. /\ w.setName = d.setName /\ w.lstm = elected.lstm /\ WonLast(w, d)
        BY <1>8, <2>2, <2>3, <3>1 DEF SameRest, SameElection, WonLast
      <3>3. Fits(w, d)
        BY <1>2, <2>2, <3>1, <3>2 DEF Fits, Kinds, ReplicaSet, Members
      <3> QED
        BY <3>3 DEF w
    <2>7. \A x \in Known(members) : Fits(WithPrimary(members), members.servers[x])
      BY <2>3, <2>4, <2>5, <2>6, WithPrimaryFits
    <2>8. LET r == CheckIfHasPrimary(members)
          IN  Sound(r) /\ r.type \in ReplicaSet /\ Known(r) = Known(members) /\ r.servers = members.servers
      BY <2>4, <2>7, CheckEffect
    <2>9. Inherits(t, members)
      BY <1>3, <2>2, <2>3, InheritsAll
    <2> QED
      BY <1>13, <1>14, <1>4, <1>8, <2>1, <2>8, <2>9, InheritsSame, InheritsAll
  <1> QED
    BY <1>5, <1>6, <1>7, <1>8, <1>13

-----------------------------------------------------------------------------
(* Answers of other servers *)

\* d is stored as what a says, whether or not it fits.
Answered(t, a, d) ==
  /\ SoundBut(t, a) /\ FromHello(d)
  /\ t.type \in ReplicaSet \cup {"Sharded", "Unknown"}
  /\ a \in Known(t) => /\ t.servers[a] = d
                       /\ t.lstm # 0 /\ DataBearing(d) => d.lstm >= t.lstm

\* What came of it: a server that is no longer known changed nothing.
Settles(t, r, a) ==
  /\ Sound(r) /\ Inherits(t, r) /\ r.type # "LoadBalanced"
  /\ a \notin Known(t) => r.servers = t.servers /\ SameElection(t, r)

LEMMA SettlesThen ==
  ASSUME NEW t, NEW r, NEW q, NEW a, Sound(q), Inherits(t, r), q.type # "LoadBalanced",
         q.servers = r.servers,
         a \notin Known(t) => r.servers = t.servers /\ SameElection(t, q)
  PROVE  Settles(t, q, a)
  BY DEF Settles, Inherits, Known

LEMMA AnsweredFits ==
  ASSUME NEW t, NEW a, NEW d, Answered(t, a, d), d.type # "RSPrimary",
         a \in Known(t) => Fits(t, d)
  PROVE  Settles(t, t, a)
  <1>1. IsTopology(t) /\ \A x \in Known(t) : Fits(t, t.servers[x])
    BY DEF Answered, SoundBut
  <1>2. \A x, y \in Known(t) :
          t.servers[x].type = "RSPrimary" /\ t.servers[y].type = "RSPrimary" =>
            x \in Known(t) \ {a} /\ y \in Known(t) \ {a}
    BY DEF Answered
  <1>3. t.type # "Single" /\ t.type # "LoadBalanced"
    BY DEF Answered, ReplicaSet
  <1>4. Sound(t)
    BY <1>1, <1>2, <1>3, SoundThen DEF Answered, SoundBut
  <1> QED
    BY <1>3, <1>4 DEF Settles, Inherits, SameElection

LEMMA AnsweredRemoved ==
  ASSUME NEW t, NEW a, NEW d, Answered(t, a, d)
  PROVE  LET r == Remove(t, a)
         IN  Settles(t, r, a) /\ r.type = t.type /\ a \notin Known(r)
  <1>1. SoundBut(t, a) /\ t.type # "LoadBalanced"
    BY DEF Answered, ReplicaSet
  <1> QED
    BY <1>1, RemoveEffect DEF Settles, SameRest

\* A replica set that lost the server may have lost its primary.
LEMMA SettlesChecked ==
  ASSUME NEW t, NEW r, NEW a, Settles(t, r, a), r.type \in ReplicaSet
  PROVE  LET q == CheckIfHasPrimary(r)
         IN  Settles(t, q, a) /\ Known(q) = Known(r)
  <1>1. PICK q : q = CheckIfHasPrimary(r)
    OBVIOUS
  <1>2. /\ Sound(q) /\ q.type # "LoadBalanced" /\ SameRest(r, q)
        /\ Known(q) = Known(r) /\ q.servers = r.servers
    BY <1>1, CheckSound DEF Settles, ReplicaSet
  <1>3. Inherits(t, r) /\ (a \notin Known(t) => r.servers = t.servers /\ SameElection(t, r))
    BY DEF Settles
  <1>4. a \notin Known(t) => SameElection(t, q)
    BY <1>2, <1>3 DEF SameRest, SameElection
  <1>5. Settles(t, q, a)
    BY <1>2, <1>3, <1>4, SettlesThen
  <1> QED
    BY <1>1, <1>2, <1>5

LEMMA OfUnknown ==
  ASSUME NEW t, NEW a, NEW d, Answered(t, a, d), d.type \in {"Unknown", "RSGhost"}
  PROVE  Settles(t, OnUnknown(t), a) /\ Settles(t, OnGhost(t, a), a)
  <1>1. d.type \in Kinds(t.type)
    BY DEF Answered, Kinds, ReplicaSet
  <1>2. Settles(t, t, a)
    BY <1>1, UnknownFits, AnsweredFits
  <1>3. t.type = "ReplicaSetWithPrimary" => Settles(t, CheckIfHasPrimary(t), a)
    BY <1>2, SettlesChecked DEF ReplicaSet
  <1>4. Settles(t, Remove(t, a), a)
    BY AnsweredRemoved
  <1>5. Settles(t, OnUnknown(t), a)
    BY <1>2, <1>3 DEF OnUnknown
  <1>6. CASE t.type = "Sharded"
    BY <1>4, <1>5, <1>6 DEF OnGhost
  <1>7. CASE t.type = "ReplicaSetWithPrimary"
    BY <1>3, <1>5, <1>7 DEF OnGhost
  <1>8. CASE t.type \notin {"Sharded", "ReplicaSetWithPrimary"}
    BY <1>2, <1>5, <1>8 DEF OnGhost
  <1> QED
    BY <1>6, <1>7, <1>8

LEMMA CheckRemoved ==
  ASSUME NEW t, NEW a, NEW d, Answered(t, a, d), t.type \in ReplicaSet
  PROVE  Settles(t, CheckIfHasPrimary(Remove(t, a)), a)
  <1>1. PICK r : r = Remove(t, a)
    OBVIOUS
  <1>2. Settles(t, r, a) /\ r.type \in ReplicaSet
    BY <1>1, AnsweredRemoved
  <1>3. Settles(t, CheckIfHasPrimary(r), a)
    BY <1>2, SettlesChecked
  <1> QED
    BY <1>1, <1>3

\* A topology nobody has answered for yet takes the type of its first server.
LEMMA FirstAnswer ==
  ASSUME NEW t, NEW a, NEW d, Answered(t, a, d), t.type = "Unknown",
         NEW type \in {"Single", "Sharded"},
         type = "Single" => Known(t) = {a} /\ d.type = "Standalone",
         type = "Sharded" => d.type = "Mongos"
  PROVE  Settles(t, [t EXCEPT !.type = type], a)
  <1>1. PICK r : r = [t EXCEPT !.type = type]
    OBVIOUS
  <1>2. /\ IsTopology(r) /\ r.type = type /\ r.servers = t.servers
        /\ SameRest(t, r) /\ Known(r) = Known(t)
    <2>1. IsTopology(t) /\ type \in TopologyTypes
      BY DEF Answered, SoundBut, TopologyTypes
    <2> QED
      BY <1>1, <2>1, TypeSet
  <1>3. ASSUME NEW x \in Known(t) \ {a}
        PROVE  Fits(r, t.servers[x]) /\ t.servers[x].type # "RSPrimary"
    <2>1. t.servers[x].type \in {"Unknown", "RSGhost"}
      BY DEF Answered, SoundBut, Fits, Kinds, ReplicaSet
    <2>2. t.servers[x].type \in Kinds(type)
      BY <2>1 DEF Kinds, ReplicaSet, ServerTypes
    <2> QED
      BY <1>2, <2>1, <2>2, UnknownFits
  <1>4. a \in Known(t) => Fits(r, t.servers[a]) /\ t.servers[a].type # "RSPrimary"
    BY <1>2 DEF Answered, Fits, Kinds, ReplicaSet, ServerTypes, Members,
                SameRest
  <1>5. \A x \in Known(r) : Fits(r, r.servers[x]) /\ r.servers[x].type # "RSPrimary"
    BY <1>2, <1>3, <1>4
  <1>6. Sound(r)
    BY <1>2, <1>5, SoundThen
  <1>7. Settles(t, r, a)
    BY <1>2, <1>6 DEF Settles, Inherits, SameRest
  <1> QED
    BY <1>1, <1>7

LEMMA OfStandalone ==
  ASSUME NEW t, NEW a, NEW d, Answered(t, a, d), d.type = "Standalone"
  PROVE  Settles(t, OnStandalone(t, a), a)
  <1>1. Settles(t, Remove(t, a), a)
    BY AnsweredRemoved
  <1>2. CASE t.type = "Unknown"
    <2>1. CASE a \notin Known(t)
      <3>1. Settles(t, t, a)
        BY <2>1, AnsweredFits
      <3> QED
        BY <1>2, <2>1, <3>1 DEF OnStandalone, UpdateUnknownWithStandalone
    <2>2. CASE Known(t) = {a}
      <3>1. Settles(t, [t EXCEPT !.type = "Single"], a)
        BY <1>2, <2>2, FirstAnswer
      <3>2. OnStandalone(t, a) = [t EXCEPT !.type = "Single"]
        BY <1>2, <2>2 DEF OnStandalone, UpdateUnknownWithStandalone
      <3> QED
        BY <3>1, <3>2
    <2>3. CASE a \in Known(t) /\ Known(t) # {a}
      BY <1>1, <1>2, <2>3 DEF OnStandalone, UpdateUnknownWithStandalone
    <2> QED
      BY <2>1, <2>2, <2>3
  <1>3. CASE t.type = "ReplicaSetWithPrimary"
    <2>1. Settles(t, CheckIfHasPrimary(Remove(t, a)), a)
      BY <1>3, CheckRemoved DEF ReplicaSet
    <2> QED
      BY <1>3, <2>1 DEF OnStandalone
  <1>4. CASE t.type \notin {"Unknown", "ReplicaSetWithPrimary"}
    BY <1>1, <1>4 DEF OnStandalone
  <1> QED
    BY <1>2, <1>3, <1>4

LEMMA OfMongos ==
  ASSUME NEW t, NEW a, NEW d, Answered(t, a, d), d.type = "Mongos"
  PROVE  Settles(t, OnMongos(t, a), a)
  <1>1. CASE t.type = "Unknown"
    <2>1. Settles(t, [t EXCEPT !.type = "Sharded"], a)
      BY <1>1, FirstAnswer
    <2> QED
      BY <1>1, <2>1 DEF OnMongos
  <1>2. CASE t.type = "ReplicaSetNoPrimary"
    <2>1. Settles(t, Remove(t, a), a)
      BY AnsweredRemoved
    <2> QED
      BY <1>2, <2>1 DEF OnMongos
  <1>3. CASE t.type = "ReplicaSetWithPrimary"
    <2>1. Settles(t, CheckIfHasPrimary(Remove(t, a)), a)
      BY <1>3, CheckRemoved DEF ReplicaSet
    <2> QED
      BY <1>3, <2>1 DEF OnMongos
  <1>4. CASE t.type = "Sharded"
    <2>1. a \in Known(t) => Fits(t, d)
      BY <1>4 DEF Answered, Fits, Kinds, ReplicaSet, Members
    <2>2. Settles(t, t, a)
      BY <2>1, AnsweredFits
    <2> QED
      BY <1>4, <2>2 DEF OnMongos
  <1> QED
    BY <1>1, <1>2, <1>3, <1>4 DEF Answered, ReplicaSet

\* The type of a replica set is no matter to those who are not primary.
LEMMA SetType ==
  ASSUME NEW t, NEW a, SoundBut(t, a), t.type \in {"Unknown", "ReplicaSetNoPrimary"},
         NEW type \in ReplicaSet
  PROVE  LET r == [t EXCEPT !.type = type]
         IN  /\ SoundBut(r, a) /\ r.type = type /\ r.servers = t.servers
             /\ SameRest(t, r) /\ Known(r) = Known(t)
             /\ \A x \in Known(t) \ {a} : t.servers[x].type # "RSPrimary"
  <1>1. PICK r : r = [t EXCEPT !.type = type]
    OBVIOUS
  <1>2. /\ IsTopology(r) /\ r.type = type /\ r.servers = t.servers
        /\ SameRest(t, r) /\ Known(r) = Known(t)
    <2>1. IsTopology(t) /\ type \in TopologyTypes
      BY DEF SoundBut, TopologyTypes, ReplicaSet
    <2> QED
      BY <1>1, <2>1, TypeSet
  <1>3. ASSUME NEW x \in Known(t) \ {a}
        PROVE  Fits(r, t.servers[x]) /\ t.servers[x].type # "RSPrimary"
    <2>1. Fits(t, t.servers[x])
      BY DEF SoundBut
    <2>2. t.servers[x].type # "RSPrimary" /\ t.servers[x].type \in Kinds(type)
      BY <2>1 DEF Fits, Kinds, ReplicaSet
    <2>3. t.type = "Unknown" => t.servers[x].type \notin Members
      BY <2>1 DEF Fits, Kinds, ReplicaSet, Members
    <2> QED
      BY <1>2, <2>1, <2>2, <2>3 DEF Fits, ReplicaSet, SameRest, SameElection
  <1>4. SoundBut(r, a)
    BY <1>2, <1>3 DEF SoundBut
  <1> QED
    BY <1>1, <1>2, <1>3, <1>4

LEMMA OfPrimary ==
  ASSUME NEW t, NEW a, NEW d, Answered(t, a, d), d.type = "RSPrimary"
  PROVE  LET r == OnPrimary(t, a, d)
         IN  /\ Settles(t, r, a)
             /\ a \in Known(r) /\ r.servers[a].type = "RSPrimary" => ~StalePrimary(t, d)
  <1>1. CASE t.type = "Sharded"
    <2>1. Settles(t, Remove(t, a), a) /\ a \notin Known(Remove(t, a))
      BY AnsweredRemoved
    <2> QED
      BY <1>1, <2>1 DEF OnPrimary
  <1>2. CASE t.type # "Sharded"
    <2>1. PICK q : q = IF t.type = "ReplicaSetNoPrimary"
                       THEN [t EXCEPT !.type = "ReplicaSetWithPrimary"] ELSE t
      OBVIOUS
    <2>2. PICK r : r = OnPrimary(t, a, d)
      OBVIOUS
    <2>3. r = UpdateRSFromPrimary(q, a, d)
      <3>1. CASE t.type = "ReplicaSetNoPrimary"
        BY <2>1, <2>2, <3>1 DEF OnPrimary
      <3>2. CASE t.type # "ReplicaSetNoPrimary"
        BY <1>2, <2>1, <2>2, <3>2 DEF OnPrimary
      <3> QED
        BY <3>1, <3>2
    <2>4. /\ SoundBut(q, a) /\ q.type \in ReplicaSet \cup {"Unknown"}
          /\ q.servers = t.servers /\ SameRest(t, q) /\ Known(q) = Known(t)
      <3>1. CASE t.type = "ReplicaSetNoPrimary"
        BY <2>1, <3>1, SetType DEF Answered, ReplicaSet
      <3>2. CASE t.type # "ReplicaSetNoPrimary"
        BY <1>2, <2>1, <3>2 DEF Answered, SameRest, SameElection
      <3> QED
        BY <3>1, <3>2
    <2>5. a \in Known(q) => /\ q.servers[a] = d
                            /\ q.lstm # 0 => d.lstm >= q.lstm
      BY <2>4 DEF Answered, SameRest, DataBearing
    <2>6. /\ Sound(r) /\ Inherits(q, r) /\ r.type # "LoadBalanced"
          /\ a \in Known(r) /\ r.servers[a].type = "RSPrimary" => ~StalePrimary(q, d)
          /\ a \notin Known(q) => r = q
      BY <2>3, <2>4, <2>5, FromPrimary DEF Answered
    <2>7. Inherits(t, r) /\ StalePrimary(q, d) = StalePrimary(t, d)
      BY <2>4, <2>6 DEF Inherits, StalePrimary, SameRest, SameElection
    <2>8. Settles(t, r, a)
      BY <2>4, <2>6, <2>7 DEF Settles, SameRest
    <2> QED
      BY <2>2, <2>6, <2>7, <2>8
  <1> QED
    BY <1>1, <1>2

LEMMA MemberFits ==
  ASSUME NEW t, NEW d, FromHello(d), d.type \in Members, d.type # "RSPrimary",
         t.type \in ReplicaSet, t.setName = d.setName,
         t.lstm # 0 /\ DataBearing(d) => d.lstm >= t.lstm
  PROVE  Fits(t, d)
  BY DEF FromHello, Fits, Kinds, ReplicaSet

\* A member of a set whose primary is not known.
LEMMA OfFirstMember ==
  ASSUME NEW t, NEW a, SoundBut(t, a), t.type = "ReplicaSetNoPrimary",
         NEW d, FromHello(d), d.type \in Members \ {"RSPrimary"},
         a \in Known(t) => /\ t.servers[a] = d
                           /\ t.lstm # 0 /\ DataBearing(d) => d.lstm >= t.lstm
  PROVE  LET r == UpdateRSWithoutPrimary(t, a, d)
         IN  /\ Sound(r) /\ Inherits(t, r) /\ r.type # "LoadBalanced"
             /\ a \notin Known(t) => r = t
  <1>1. PICK named : named = AdoptSetName(t, d)
    OBVIOUS
  <1>2. PICK added : added = AddHosts(named, d.hosts)
    OBVIOUS
  <1>3. PICK joined : joined = UpdatePossiblePrimary(added, d.primary)
    OBVIOUS
  <1>4. PICK r : r = UpdateRSWithoutPrimary(t, a, d)
    OBVIOUS
  <1>5. r = IF a \notin Known(t) THEN t
            ELSE IF named.setName # d.setName THEN Remove(named, a)
            ELSE IF Misnamed(a, d) THEN Remove(joined, a)
            ELSE joined
    BY <1>1, <1>2, <1>3, <1>4 DEF UpdateRSWithoutPrimary
  <1>6. d \in Descriptions /\ d.hosts \in SUBSET Address
    BY DEF FromHello, Descriptions
  <1>7. /\ SoundBut(named, a) /\ named.type = "ReplicaSetNoPrimary"
        /\ named.servers = t.servers /\ Known(named) = Known(t) /\ named.lstm = t.lstm
    <2>1. /\ named.type = t.type /\ named.servers = t.servers
          /\ Known(named) = Known(t) /\ named.lstm = t.lstm
      BY <1>1, <1>6, AdoptEffect DEF SoundBut
    <2> QED
      BY <1>1, <1>6, <2>1, AdoptSound DEF ReplicaSet
  <1>8. /\ SoundBut(added, a) /\ added.type = named.type /\ SameRest(named, added)
        /\ Known(added) = Known(named) \cup d.hosts /\ Inherits(named, added)
        /\ \A x \in Known(named) : added.servers[x] = named.servers[x]
    BY <1>2, <1>6, <1>7, AddEffect
  <1>9. /\ SoundBut(joined, a) /\ joined.type = added.type /\ SameRest(added, joined)
        /\ Known(joined) = Known(added) /\ Inherits(added, joined)
        /\ \A x \in Known(added) : added.servers[x].type # "Unknown" =>
                                    joined.servers[x] = added.servers[x]
    <2>1. added.type \in ReplicaSet
      BY <1>7, <1>8 DEF ReplicaSet
    <2> QED
      BY <1>3, <1>8, <2>1, PossibleEffect
  <1>10. Inherits(t, named)
    BY <1>7, InheritsSame
  <1>11. Inherits(t, joined)
    BY <1>8, <1>9, <1>10, InheritsAll
  <1>12. CASE a \notin Known(t)
    <2>1. Sound(t)
      BY <1>12 DEF Sound, SoundBut
    <2> QED
      BY <1>4, <1>5, <1>12, <2>1 DEF Inherits
  <1>13. CASE a \in Known(t) /\ named.setName # d.setName
    <2>1. r = Remove(named, a)
      BY <1>5, <1>13
    <2>2. Sound(r) /\ r.type = named.type /\ Inherits(named, r)
      BY <1>7, <2>1, RemoveEffect
    <2> QED
      BY <1>4, <1>7, <1>10, <1>13, <2>2, InheritsAll
  <1>14. CASE a \in Known(t) /\ named.setName = d.setName /\ Misnamed(a, d)
    <2>1. r = Remove(joined, a)
      BY <1>5, <1>14
    <2>2. Sound(r) /\ r.type = joined.type /\ Inherits(joined, r)
      BY <1>9, <2>1, RemoveEffect
    <2> QED
      BY <1>4, <1>7, <1>8, <1>9, <1>11, <1>14, <2>2, InheritsAll
  <1>15. CASE a \in Known(t) /\ named.setName = d.setName /\ ~Misnamed(a, d)
    <2>1. r = joined
      BY <1>5, <1>15
    <2>2. joined.servers[a] = d
      BY <1>7, <1>8, <1>9, <1>15 DEF Members
    <2>3. Fits(joined, d)
      <3>1. joined.type \in ReplicaSet
        BY <1>7, <1>8, <1>9 DEF ReplicaSet
      <3>2. joined.setName = d.setName /\ joined.lstm = t.lstm
        BY <1>7, <1>8, <1>9, <1>15 DEF SameRest, SameElection
      <3> QED
        BY <1>15, <3>1, <3>2, MemberFits
    <2>4. Sound(joined)
      BY <1>9, <2>2, <2>3 DEF Sound, SoundBut
    <2> QED
      BY <1>4, <1>7, <1>8, <1>9, <1>11, <1>15, <2>1, <2>4
  <1> QED
    BY <1>4, <1>12, <1>13, <1>14, <1>15

\* A member of a set whose primary was known.
LEMMA OfOtherMember ==
  ASSUME NEW t, NEW a, NEW d, Answered(t, a, d), d.type \in Members \ {"RSPrimary"},
         t.type = "ReplicaSetWithPrimary"
  PROVE  Settles(t, UpdateRSWithPrimaryFromMember(t, a, d), a)
  <1>1. PICK r : r = UpdateRSWithPrimaryFromMember(t, a, d)
    OBVIOUS
  <1>2. CASE a \notin Known(t)
    <2>1. r = t
      BY <1>1, <1>2 DEF UpdateRSWithPrimaryFromMember
    <2>2. Settles(t, t, a)
      BY <1>2, AnsweredFits
    <2> QED
      BY <1>1, <2>1, <2>2
  <1>3. CASE a \in Known(t) /\ (t.setName # d.setName \/ Misnamed(a, d))
    <2>1. r = CheckIfHasPrimary(Remove(t, a))
      BY <1>1, <1>3 DEF UpdateRSWithPrimaryFromMember
    <2> QED
      BY <1>1, <2>1, CheckRemoved DEF ReplicaSet
  <1>4. CASE a \in Known(t) /\ t.setName = d.setName /\ ~Misnamed(a, d)
    <2>1. Fits(t, d)
      BY <1>4, MemberFits DEF Answered, ReplicaSet
    <2>2. Settles(t, t, a)
      BY <2>1, AnsweredFits
    <2>3. CASE HasPrimary(t)
      <3>1. r = t
        BY <1>1, <1>4, <2>3 DEF UpdateRSWithPrimaryFromMember
      <3> QED
        BY <1>1, <2>2, <3>1
    <2>4. CASE ~HasPrimary(t)
      <3>1. PICK q : q = [t EXCEPT !.type = "ReplicaSetNoPrimary"]
        OBVIOUS
      <3>2. r = UpdatePossiblePrimary(q, d.primary)
        BY <1>1, <1>4, <2>4, <3>1 DEF UpdateRSWithPrimaryFromMember
      <3>3. /\ IsTopology(t) /\ \A x \in Known(t) : Fits(t, t.servers[x])
        BY <2>2, NoneUnknown DEF Settles, Sound, SoundBut
      <3>4. /\ IsTopology(q) /\ q.type = "ReplicaSetNoPrimary" /\ q.servers = t.servers
            /\ SameRest(t, q) /\ Known(q) = Known(t)
        BY <3>1, <3>3, TypeSet DEF TopologyTypes
      <3>5. \A x \in Known(t) : Fits(q, t.servers[x]) /\ t.servers[x].type # "RSPrimary"
        BY <2>4, <3>3, <3>4
           DEF HasPrimary, Fits, Kinds, ReplicaSet, SameRest, SameElection
      <3>6. SoundBut(q, None) /\ q.type \in ReplicaSet
        BY <3>4, <3>5 DEF SoundBut, ReplicaSet
      <3>7. SoundBut(r, None) /\ r.type = q.type /\ Inherits(q, r)
        BY <3>2, <3>6, PossibleEffect
      <3>8. Inherits(t, r)
        BY <3>4, <3>7 DEF Inherits
      <3> QED
        BY <1>1, <1>4, <3>4, <3>7, <3>8 DEF Settles, Sound
    <2> QED
      BY <2>3, <2>4
  <1> QED
    BY <1>2, <1>3, <1>4

LEMMA OfMember ==
  ASSUME NEW t, NEW a, NEW d, Answered(t, a, d),
         d.type \in {"RSSecondary", "RSArbiter", "RSOther"}
  PROVE  Settles(t, OnMember(t, a, d), a)
  <1>1. d.type \in Members \ {"RSPrimary"}
    BY DEF Members
  <1>2. CASE t.type = "Sharded"
    <2>1. Settles(t, Remove(t, a), a)
      BY AnsweredRemoved
    <2> QED
      BY <1>2, <2>1 DEF OnMember
  <1>3. CASE t.type = "ReplicaSetWithPrimary"
    BY <1>1, <1>3, OfOtherMember DEF OnMember
  <1>4. CASE t.type \in {"Unknown", "ReplicaSetNoPrimary"}
    <2>1. PICK q : q = [t EXCEPT !.type = "ReplicaSetNoPrimary"]
      OBVIOUS
    <2>2. PICK r : r = OnMember(t, a, d)
      OBVIOUS
    <2>3. r = UpdateRSWithoutPrimary(q, a, d)
      BY <1>4, <2>1, <2>2 DEF OnMember
    <2>4. /\ SoundBut(q, a) /\ q.type = "ReplicaSetNoPrimary"
          /\ q.servers = t.servers /\ SameRest(t, q) /\ Known(q) = Known(t)
      BY <1>4, <2>1, SetType DEF Answered, ReplicaSet
    <2>5. a \in Known(q) => /\ q.servers[a] = d
                            /\ q.lstm # 0 /\ DataBearing(d) => d.lstm >= q.lstm
      BY <2>4 DEF Answered, SameRest
    <2>6. /\ Sound(r) /\ Inherits(q, r) /\ r.type # "LoadBalanced"
          /\ a \notin Known(q) => r = q
      BY <1>1, <2>3, <2>4, <2>5, OfFirstMember DEF Answered
    <2>7. Inherits(t, r)
      BY <2>4, <2>6 DEF Inherits
    <2> QED
      BY <2>2, <2>4, <2>6, <2>7 DEF Settles, SameRest
  <1> QED
    BY <1>2, <1>3, <1>4 DEF Answered, ReplicaSet

-----------------------------------------------------------------------------
(* TopologyDescription#apply_description *)

LEMMA OfAnswer ==
  ASSUME NEW t, NEW a, NEW d, Answered(t, a, d)
  PROVE  LET r == Dispatch(t, a, d)
         IN  /\ Settles(t, r, a)
             /\ a \in Known(r) /\ r.servers[a].type = "RSPrimary" =>
                  a \in Known(t) /\ r.servers[a] = d /\ ~StalePrimary(t, d)
  <1>1. PICK r : r = Dispatch(t, a, d)
    OBVIOUS
  <1>2. t.type \notin {"Single", "LoadBalanced"}
    BY DEF Answered, ReplicaSet
  <1>3. /\ Settles(t, r, a)
        /\ d.type = "RSPrimary" /\ a \in Known(r) /\ r.servers[a].type = "RSPrimary" =>
             ~StalePrimary(t, d)
    <2>1. CASE d.type = "Standalone"
      BY <1>1, <1>2, <2>1, OfStandalone DEF Dispatch
    <2>2. CASE d.type = "Mongos"
      BY <1>1, <1>2, <2>2, OfMongos DEF Dispatch
    <2>3. CASE d.type = "RSPrimary"
      BY <1>1, <1>2, <2>3, OfPrimary DEF Dispatch
    <2>4. CASE d.type \in {"RSSecondary", "RSArbiter", "RSOther"}
      BY <1>1, <1>2, <2>4, OfMember DEF Dispatch
    <2>5. CASE d.type = "RSGhost"
      BY <1>1, <1>2, <2>5, OfUnknown DEF Dispatch
    <2>6. CASE d.type = "Unknown"
      BY <1>1, <1>2, <2>6, OfUnknown DEF Dispatch
    <2> QED
      BY <2>1, <2>2, <2>3, <2>4, <2>5, <2>6
         DEF Answered, FromHello, Descriptions, ServerTypes
  <1>4. ASSUME a \in Known(r), r.servers[a].type = "RSPrimary"
        PROVE  a \in Known(t) /\ r.servers[a] = d /\ d.type = "RSPrimary"
    BY <1>3, <1>4 DEF Settles, Inherits, Answered
  <1> QED
    BY <1>1, <1>3, <1>4

LEMMA WireSound ==
  ASSUME NEW t, NEW b, SoundBut(t, b), NEW d
  PROVE  SoundBut(CheckWireVersions(t, d), b)
  <1>1. PICK r : r = CheckWireVersions(t, d)
    OBVIOUS
  <1>2. /\ IsTopology(r) /\ r.type = t.type /\ r.servers = t.servers
        /\ SameElection(t, r) /\ r.lstm = t.lstm /\ Known(r) = Known(t)
    BY <1>1, WireEffect DEF SoundBut
  <1>3. \A x \in Known(t) \ {b} : Fits(r, t.servers[x])
    BY <1>2 DEF SoundBut, SameElection, Fits, WonLast
  <1>4. SoundBut(r, b)
    BY <1>2, <1>3 DEF SoundBut
  <1> QED
    BY <1>1, <1>4

\* What an update may leave of a topology: each server as it was, or forgotten,
\* or as it now says it is, but a primary only if no later election is known.
Follows(t, r, a, d) ==
  /\ Sound(r)
  /\ r.type = "LoadBalanced" => t.type = "LoadBalanced"
  /\ \A x \in Known(r) :
       LET s == r.servers[x]
       IN  \/ s.type # "RSPrimary" /\ s.version = NoVersion
           \/ /\ x \in Known(t) /\ s.version = t.servers[x].version
              /\ s.type = "RSPrimary" => s = t.servers[x]
           \/ /\ x = a /\ a \in Known(t) /\ s.version = d.version
              /\ s.type = "RSPrimary" /\ t.type # "Single" =>
                   s = d /\ ~StalePrimary(t, d)
  /\ a \notin Known(t) => r.servers = t.servers /\ SameElection(t, r)

LEMMA SoundAll ==
  ASSUME NEW t, NEW a, Sound(t)
  PROVE  /\ SoundBut(t, a) /\ IsTopology(t)
         /\ \A x \in Known(t) : Fits(t, t.servers[x])
  BY NoneUnknown DEF Sound, SoundBut

\* Whatever a server that is asked alone is, nobody else is asked.
LEMMA SingleSound ==
  ASSUME NEW t, IsTopology(t), t.type = "Single", NEW a,
         \A x \in Known(t) \ {a} : Fits(t, t.servers[x]),
         a \in Known(t) => Fits(t, t.servers[a])
  PROVE  Sound(t)
  BY DEF Sound, SoundBut

\* Every update of a sound topology leaves a sound one (apply_description).
THEOREM ApplyKeepsSound ==
  ASSUME NEW t, NEW a, NEW d, Sound(t), FromHello(d), a \in Address
  PROVE  Follows(t, ApplyDescription(t, a, d), a, d)
  <1>1. PICK r : r = ApplyDescription(t, a, d)
    OBVIOUS
  <1>2. /\ SoundBut(t, a) /\ IsTopology(t)
        /\ \A x \in Known(t) : Fits(t, t.servers[x])
    BY SoundAll
  <1>3. CASE t.type = "Single" /\ t.setName # None /\ d.setName # t.setName
    <2>1. r = ReplaceDescription(t, a, UnknownServer)
      BY <1>1, <1>3 DEF ApplyDescription
    <2>2. FromHello(UnknownServer)
      BY UnknownIsDescription DEF FromHello, Members
    <2>3. /\ IsTopology(r) /\ r.type = "Single" /\ SameElection(t, r)
          /\ Known(r) = Known(t)
          /\ \A x \in Known(t) \ {a} : /\ r.servers[x] = t.servers[x]
                                      /\ Fits(r, r.servers[x])
          /\ a \in Known(t) => r.servers[a] = UnknownServer
          /\ a \notin Known(t) => r.servers = t.servers
      BY <1>2, <1>3, <2>1, <2>2, ReplaceEffect
    <2>4. Fits(r, UnknownServer)
      BY <2>3, UnknownFits, UnknownIsDescription DEF Kinds, ReplicaSet, ServerTypes
    <2>5. Sound(r)
      BY <2>3, <2>4, SingleSound
    <2> QED
      BY <1>1, <1>3, <2>3, <2>5, UnknownIsDescription DEF Follows
  <1>4. CASE ~(t.type = "Single" /\ t.setName # None /\ d.setName # t.setName)
    <2>1. PICK p : p = ReplaceDescription(t, a, d)
      OBVIOUS
    <2>2. PICK q : q = CheckWireVersions(p, d)
      OBVIOUS
    <2>3. r = Dispatch(q, a, d)
      BY <1>1, <1>4, <2>1, <2>2 DEF ApplyDescription
    <2>4. /\ IsTopology(p) /\ p.type = t.type /\ SameElection(t, p)
          /\ Known(p) = Known(t)
          /\ \A x \in Known(t) \ {a} : /\ p.servers[x] = t.servers[x]
                                      /\ Fits(p, p.servers[x])
          /\ a \in Known(t) =>
               /\ p.servers[a].version = d.version
               /\ t.type # "LoadBalanced" => p.servers[a] = d
               /\ t.type = "LoadBalanced" => Sound(p)
               /\ p.lstm # 0 /\ DataBearing(d) => d.lstm >= p.lstm
          /\ a \notin Known(t) => Sound(p) /\ p.servers = t.servers
      BY <1>2, <2>1, ReplaceEffect
    <2>5. /\ IsTopology(q) /\ q.type = p.type /\ q.servers = p.servers
          /\ SameElection(p, q) /\ q.lstm = p.lstm /\ Known(q) = Known(p)
      BY <2>2, <2>4, WireEffect
    <2>6. SameElection(t, q)
      BY <2>4, <2>5 DEF SameElection
    <2>7. Sound(p) => Sound(q)
      BY <2>2, WireSound DEF Sound
    <2>8. CASE t.type = "Single"
      <3>1. r = q
        BY <2>3, <2>4, <2>5, <2>8 DEF Dispatch
      <3>2. a \in Known(p) => Fits(p, d)
        BY <1>4, <2>4, <2>8
           DEF FromHello, Descriptions, Fits, Kinds, ReplicaSet, SameElection
      <3>3. Sound(q)
        BY <2>4, <2>7, <2>8, <3>2, SingleSound
      <3> QED
        BY <1>1, <2>4, <2>5, <2>6, <2>8, <3>1, <3>3 DEF Follows
    <2>9. CASE t.type = "LoadBalanced"
      <3>1. r = q
        BY <2>3, <2>4, <2>5, <2>9 DEF Dispatch
      <3>2. Sound(q)
        BY <2>4, <2>7, <2>9
      <3>3. \A x \in Known(q) : q.servers[x].type # "RSPrimary"
        BY <2>4, <2>5, <2>9, <3>2, SoundAll DEF Fits, Kinds, ReplicaSet
      <3> QED
        BY <1>1, <2>4, <2>5, <2>6, <2>9, <3>1, <3>2, <3>3 DEF Follows
    <2>10. CASE t.type \notin {"Single", "LoadBalanced"}
      <3>1. SoundBut(p, a)
        <4>1. \A x, y \in Known(p) \ {a} :
                p.servers[x].type = "RSPrimary" /\ p.servers[y].type = "RSPrimary"
                  => x = y
          BY <1>2, <2>4, <2>10 DEF SoundBut
        <4> QED
          BY <2>4, <4>1 DEF SoundBut
      <3>2. SoundBut(q, a)
        BY <2>2, <3>1, WireSound
      <3>3. q.type \in ReplicaSet \cup {"Sharded", "Unknown"}
        BY <1>2, <2>4, <2>5, <2>10 DEF IsTopology, TopologyTypes, ReplicaSet
      <3>4. Answered(q, a, d)
        BY <2>4, <2>5, <2>10, <3>2, <3>3 DEF Answered
      <3>5. /\ Settles(q, r, a)
            /\ a \in Known(r) /\ r.servers[a].type = "RSPrimary" =>
                 a \in Known(q) /\ r.servers[a] = d /\ ~StalePrimary(q, d)
        BY <2>3, <3>4, OfAnswer
      <3>6. StalePrimary(q, d) = StalePrimary(t, d)
        BY <2>6 DEF StalePrimary, SameElection
      <3>7. a \notin Known(t) => r.servers = t.servers /\ SameElection(t, r)
        BY <2>4, <2>5, <2>6, <3>5 DEF Settles, SameElection
      <3>8. \A x \in Known(r) \ {a} :
              \/ r.servers[x].type # "RSPrimary" /\ r.servers[x].version = NoVersion
              \/ /\ x \in Known(t) /\ r.servers[x].version = t.servers[x].version
                 /\ r.servers[x].type = "RSPrimary" => r.servers[x] = t.servers[x]
        BY <2>4, <2>5, <3>5 DEF Settles, Inherits
      <3>9. a \in Known(r) =>
              \/ r.servers[a].type # "RSPrimary" /\ r.servers[a].version = NoVersion
              \/ /\ a \in Known(t) /\ r.servers[a].version = d.version
                 /\ r.servers[a].type = "RSPrimary" =>
                      r.servers[a] = d /\ ~StalePrimary(t, d)
        BY <2>4, <2>5, <2>10, <3>5, <3>6 DEF Settles, Inherits
      <3> QED
        BY <1>1, <3>5, <3>7, <3>8, <3>9 DEF Follows, Settles
    <2> QED
      BY <2>8, <2>9, <2>10
  <1> QED
    BY <1>3, <1>4

\* Nothing is left of what was known when the client closes (close_to_unknown).
LEMMA CloseSound ==
  ASSUME NEW t, Sound(t)
  PROVE  LET r == CloseToUnknown(t)
         IN  /\ Sound(r) /\ r.type = "Unknown" /\ Known(r) = Known(t)
             /\ \A x \in Known(r) : /\ r.servers[x].type = "Unknown"
                                    /\ \/ r.servers[x].version = NoVersion
                                       \/ r.servers[x] = t.servers[x]
  <1>1. CASE t.type = "Unknown" /\ \A a \in Known(t) : t.servers[a].type = "Unknown"
    BY <1>1 DEF CloseToUnknown
  <1>2. CASE ~(t.type = "Unknown" /\ \A a \in Known(t) : t.servers[a].type = "Unknown")
    <2>1. PICK f : f = [a \in Known(t) |-> UnknownServer]
      OBVIOUS
    <2>2. PICK r : r = CloseToUnknown(t)
      OBVIOUS
    <2>3. r = [t EXCEPT !.type = "Unknown", !.setName = None, !.maxSetVersion = 0,
                        !.maxElectionId = 0, !.lstm = 0, !.servers = f]
      BY <1>2, <2>1, <2>2 DEF CloseToUnknown
    <2>4. IsTopology(t)
      BY SoundAll
    <2>5. /\ f \in [Known(t) -> Descriptions]
          /\ \A x \in Known(t) : f[x] = UnknownServer
      BY <2>1, UnknownIsDescription
    <2>6. /\ IsTopology(r) /\ r.type = "Unknown" /\ r.servers = f /\ Known(r) = Known(t)
      BY <2>3, <2>4, <2>5 DEF IsTopology, Known, TopologyTypes
    <2>7. Fits(r, UnknownServer)
      BY <2>6, UnknownFits, UnknownIsDescription DEF Kinds, ReplicaSet
    <2>8. Sound(r)
      BY <2>5, <2>6, <2>7, SoundThen, UnknownIsDescription
    <2> QED
      BY <2>2, <2>5, <2>6, <2>8, UnknownIsDescription
  <1> QED
    BY <1>1, <1>2
=============================================================================
