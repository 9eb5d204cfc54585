---------------------------- MODULE TopologyProofs ----------------------------
(* The ids a Router finds, and those run_diagnostics probes with, are what the  *)
(* router has reported: for all firmware, and any number of callers' queries,   *)
(* timeouts, lost connections and switches of the profile.                      *)
EXTENDS Diagnostics, QueueLemmas, FiniteSetTheorems

-----------------------------------------------------------------------------
(* Lemmas about what the model is built from *)

(* parse_id_list gives a list, whatever it is given. *)
LEMMA IdListIsSeq ==
    ASSUME NEW S, NEW s \in Seq(S)
    PROVE  \E U : parse_id_list(s) \in Seq(U)
<1> DEFINE numbers == {i \in DOMAIN s : s[i] # Junk}
           nth(k) == CHOOSE i \in numbers : Cardinality({j \in numbers : j <= i}) = k
           n == Cardinality(numbers)
<1>1. n \in Nat
  <2>1. DOMAIN s = 1..Len(s) /\ Len(s) \in Nat
    OBVIOUS
  <2>2. IsFiniteSet(1..Len(s)) /\ numbers \subseteq 1..Len(s)
    BY <2>1, FS_Interval
  <2>3. IsFiniteSet(numbers)
    BY <2>2, FS_Subset
  <2> QED
    BY <2>3, FS_CardinalityType
<1>2. parse_id_list(s) = [k \in 1..n |-> s[nth(k)]]
    BY DEF parse_id_list
<1> HIDE DEF n
<1> DEFINE U == {s[nth(k)] : k \in 1..n}
<1>3. parse_id_list(s) \in [1..n -> U]
    BY <1>2
<1> HIDE DEF U, numbers, nth
<1>4. [1..n -> U] \subseteq Seq(U)
    BY <1>1, SeqDef
<1>5. parse_id_list(s) \in Seq(U)
    BY <1>3, <1>4
<1> QED
    BY <1>5

(* Where a waiting query finds its reply. *)
LEMMA OldestMatches ==
    ASSUME NEW S, received \in Seq(S), NEW q, Arrived(q)
    PROVE  Oldest(q) \in Matches(q) /\ Oldest(q) \in 1..Len(received)
<1>1. Matches(q) \subseteq Nat /\ Matches(q) \subseteq 1..Len(received)
    BY DEF Matches
<1>2. \E i \in Matches(q) : \A j \in Matches(q) : i <= j
    BY <1>1, LeastOf DEF Arrived
<1> QED
    BY <1>1, <1>2 DEF Oldest

-----------------------------------------------------------------------------
(* The inductive invariant *)

(* A cluster the router has named, and a list of routers it has given for c. *)
Named(c) == \E p \in inForce : c \in Range(parse_id_list(Firmware[p].clusters))
Routed(c, routers) ==
    \E p \in inForce :
        /\ c \in DOMAIN Firmware[p].routers
        /\ routers = parse_id_list(Firmware[p].routers[c])

(* A reply that is no error has the ids of a profile that has been in force. *)
Truthful(r) ==
    r.type # "ERROR" =>
        /\ r.id = "clusters" => \E p \in inForce : r.result = Firmware[p].clusters
        /\ r.id = "routers" =>
            \E p \in inForce :
                /\ r.address[1] \in DOMAIN Firmware[p].routers
                /\ r.result = Firmware[p].routers[r.address[1]]

(* What a caller of discover_router_ids has gathered is a topology of named
   clusters, each with routers that were given for it. *)
Gathered(cs, rs) ==
    /\ \E S : cs \in Seq(S)
    /\ \A c \in Range(cs) : Named(c)
    /\ \A c \in DOMAIN rs : c \in Range(cs) /\ Routed(c, rs[c])

(* A query of run_diagnostics for the routers of a named cluster. *)
AsksNamed(q) == \E c : q = RoutersQuery(c) /\ Named(c)

ProfilesOK == profile \in inForce /\ inForce \subseteq Profiles
RepliesOK == \E S : received \in Seq(S) /\ \A r \in S : Truthful(r)
CallersOK ==
    /\ DOMAIN pc = Callers /\ DOMAIN found = Callers
    /\ \A t \in Callers :
        /\ Gathered(found[t].clusters, found[t].routers)
        /\ pc[t] = "routers" => found[t].at \in DOMAIN found[t].clusters

(* The first queries end with that for the clusters; those of the routers are
   for named ones. *)
Planned(stage, queries) ==
    \E S : /\ queries \in Seq(S) \ {<<>>}
           /\ stage = "probes" => queries[Len(queries)] = ClustersQuery
           /\ stage = "routers" => \A q \in S : AsksNamed(q)
ProbesOK == phase \in Probing => Planned(phase, toProbe)

TopologyInv == /\ ProfilesOK /\ RepliesOK /\ CallersOK
               /\ TopologyMatchesIds /\ IdsReported
IInv == TopologyInv /\ ProbesOK /\ ProbedPairReported

(* As more profiles come to be in force, all of this stays true. *)
LEMMA Keeps ==
    ASSUME inForce \subseteq inForce'
    PROVE  /\ \A c : Named(c) => Named(c)'
           /\ \A c, routers : Routed(c, routers) => Routed(c, routers)'
           /\ \A r : Truthful(r) => Truthful(r)'
           /\ \A cs, rs : Gathered(cs, rs) => Gathered(cs, rs)'
           /\ \A stage, queries : Planned(stage, queries) => Planned(stage, queries)'
           /\ \A pair : IsReported(pair) => IsReported(pair)'
<1>1. \A c : Named(c) => Named(c)'
    BY DEF Named
<1>2. \A c, routers : Routed(c, routers) => Routed(c, routers)'
    BY DEF Routed
<1>3. \A r : Truthful(r) => Truthful(r)'
    BY DEF Truthful
<1>4. \A cs, rs : Gathered(cs, rs) => Gathered(cs, rs)'
    BY <1>1, <1>2 DEF Gathered
<1>5. \A q : AsksNamed(q) => AsksNamed(q)'
    BY <1>1 DEF AsksNamed
<1>6. \A stage, queries : Planned(stage, queries) => Planned(stage, queries)'
    BY <1>5 DEF Planned
<1>7. \A pair : IsReported(pair) => IsReported(pair)'
    BY DEF IsReported
<1> QED
    BY <1>1, <1>2, <1>3, <1>4, <1>6, <1>7

(* Every response is truthful: an error code is only in an ERROR. *)
LEMMA ResponseTruthful ==
    ASSUME NEW p \in inForce, NEW q
    PROVE  Truthful(build_response(Firmware[p], q))
<1> DEFINE f == Firmware[p]
<1>1. CASE q.id \in f.unsupported_commands
    BY <1>1 DEF build_response, ErrorResponse, Response, Truthful
<1>2. CASE q.id \notin f.unsupported_commands
  <2>1. build_response(f, q) = Resolved(f, q)
    BY <1>2 DEF build_response
  <2>2. CASE q.id = "routers" /\ q.address = <<>>
    BY <2>1, <2>2 DEF Resolved, ErrorResponse, Response, Truthful
  <2>3. CASE q.id = "routers" /\ q.address # <<>>
    BY <2>1, <2>3 DEF Resolved, ErrorResponse, Response, Truthful
  <2>4. CASE q.id = "clusters"
    BY <2>1, <2>4 DEF Resolved, Response, Truthful
  <2>5. CASE q.id \notin {"routers", "clusters"}
    BY <2>1, <2>5 DEF Resolved, Response, Truthful
  <2> QED
    BY <2>2, <2>3, <2>4, <2>5
<1> QED
    BY <1>1, <1>2

(* The reply a query takes is truthful and answers this query. *)
LEMMA ReplyTaken ==
    ASSUME RepliesOK, inForce' = inForce, NEW q, Arrived(q), Takes(q)
    PROVE  /\ Truthful(ReplyTo(q))
           /\ ReplyTo(q).id = q.id /\ ReplyTo(q).address = q.address
           /\ RepliesOK'
<1>1. PICK S : received \in Seq(S) /\ \A r \in S : Truthful(r)
    BY DEF RepliesOK
<1>2. Oldest(q) \in Matches(q) /\ Oldest(q) \in 1..Len(received)
    BY <1>1, OldestMatches
<1>3. received[Oldest(q)] \in S
    BY <1>1, <1>2, ElementOfSeq
<1>4. received' \in Seq(S)
    BY <1>1, <1>2, QueueRemoveAt DEF Takes
<1>5. \A r \in S : Truthful(r)'
    BY <1>1, Keeps
<1> QED
    BY <1>1, <1>2, <1>3, <1>4, <1>5 DEF ReplyTo, Matches, RepliesOK

(* The clusters and the routers a reply that is no error has. *)
LEMMA ClustersTold ==
    ASSUME ProfilesOK, NEW r, Truthful(r), r.id = "clusters", r.type # "ERROR"
    PROVE  /\ \E S : parse_id_list(r.result) \in Seq(S)
           /\ \A c \in Range(parse_id_list(r.result)) : Named(c)
<1>1. PICK p \in inForce : r.result = Firmware[p].clusters
    BY DEF Truthful
<1>2. r.result \in Seq(Nat \union {Junk})
    BY <1>1, FirmwareAssumption DEF ProfilesOK
<1> QED
    BY <1>1, <1>2, IdListIsSeq DEF Named

LEMMA RoutersTold ==
    ASSUME NEW r, Truthful(r), NEW c, r.id = "routers", r.address = <<c>>, r.type # "ERROR"
    PROVE  Routed(c, parse_id_list(r.result))
BY DEF Truthful, Routed

(* The first pair of what was gathered has been reported. *)
LEMMA FirstPairReported ==
    ASSUME NEW cs, NEW rs, Gathered(cs, rs), DOMAIN rs # {}
    PROVE  IsReported(FirstPair(cs, rs))
<1> DEFINE T == {i \in DOMAIN cs : cs[i] \in DOMAIN rs}
           IsFirst(i) == cs[i] \in DOMAIN rs /\ \A j \in 1..i - 1 : cs[j] \notin DOMAIN rs
           first == CHOOSE i \in DOMAIN cs : IsFirst(i)
<1>1. PICK S : cs \in Seq(S)
    BY DEF Gathered
<1>2. DOMAIN cs = 1..Len(cs) /\ Len(cs) \in Nat
    BY <1>1
<1>3. T # {} /\ T \subseteq Nat
    BY <1>2 DEF Gathered, Range
<1>4. PICK x \in T : \A y \in T : x <= y
    BY <1>3, LeastOf
<1>5. IsFirst(x)
    BY <1>2, <1>4
<1>6. first \in DOMAIN cs /\ cs[first] \in DOMAIN rs
    BY <1>4, <1>5
<1>7. FirstPair(cs, rs) = <<cs[first], Head(rs[cs[first]])>>
    BY DEF FirstPair
<1> HIDE DEF first, T
<1>8. Named(cs[first]) /\ Routed(cs[first], rs[cs[first]])
    BY <1>6 DEF Gathered
<1> QED
    BY <1>7, <1>8 DEF IsReported, Named, Routed

-----------------------------------------------------------------------------
(* Each step keeps the invariant *)

(* The loop over the clusters, from what the caller has gathered. *)
LEMMA LoopKeeps ==
    ASSUME CallersOK, TopologyMatchesIds, IdsReported, inForce' = inForce,
           NEW t \in Callers, NEW cs, NEW rs, NEW at,
           Gathered(cs, rs), Loop(t, cs, rs, at)
    PROVE  CallersOK' /\ TopologyMatchesIds' /\ IdsReported'
<1>1. /\ \A c2, r2 : Gathered(c2, r2) => Gathered(c2, r2)'
      /\ \A pair : IsReported(pair) => IsReported(pair)'
    BY Keeps
<1>2. CASE /\ at \in DOMAIN cs /\ cs[at] \in ClusterIds
           /\ found' = [found EXCEPT ![t] = [clusters |-> cs, at |-> at, routers |-> rs]]
           /\ Sends(RoutersQuery(cs[at])) /\ Goes(t, "routers")
           /\ UNCHANGED <<ids, clusters, cluster_routers, ids_discovered>>
  <2>1. CallersOK'
    BY <1>1, <1>2 DEF CallersOK, Goes
  <2>2. TopologyMatchesIds' /\ IdsReported'
    BY <1>1, <1>2 DEF TopologyMatchesIds, IdsReported
  <2> QED
    BY <2>1, <2>2
<1>3. CASE /\ at \in DOMAIN cs /\ cs[at] \notin ClusterIds
           /\ Goes(t, "failed")
           /\ UNCHANGED <<wire, found, ids, clusters, cluster_routers, ids_discovered>>
  <2>1. CallersOK'
    BY <1>1, <1>3 DEF CallersOK, Goes
  <2>2. TopologyMatchesIds' /\ IdsReported'
    BY <1>1, <1>3 DEF TopologyMatchesIds, IdsReported
  <2> QED
    BY <2>1, <2>2
<1>4. CASE at \notin DOMAIN cs /\ Conclude(t, cs, rs)
  <2>1. CallersOK'
    BY <1>1, <1>4 DEF CallersOK, Conclude, Goes
  <2>2. CASE DOMAIN rs = {}
    BY <1>1, <1>4, <2>1, <2>2 DEF Conclude, TopologyMatchesIds, IdsReported
  <2>3. CASE DOMAIN rs # {}
    <3>1. /\ ids' = FirstPair(cs, rs) /\ ids_discovered'
          /\ clusters' = cs /\ cluster_routers' = rs
      BY <1>4, <2>3 DEF Conclude
    <3>2. IsReported(FirstPair(cs, rs))'
      BY <1>1, <2>3, FirstPairReported
    <3>3. TopologyMatchesIds'
      BY <3>1 DEF TopologyMatchesIds
    <3>4. IdsReported'
      BY <3>1, <3>2 DEF IdsReported, IsReported
    <3> QED
      BY <2>1, <3>3, <3>4
  <2> QED
    BY <2>1, <2>2, <2>3
<1> QED
    BY <1>2, <1>3, <1>4 DEF Loop

(* discover_router_ids up to its first query, in either caller. *)
LEMMA DiscoverKeeps ==
    ASSUME CallersOK, inForce' = inForce, NEW t \in Callers, Discover(t), found' = found
    PROVE  CallersOK'
<1>1. pc' = [pc EXCEPT ![t] = "done"] \/ pc' = [pc EXCEPT ![t] = "clusters"]
    BY DEF Discover, Goes
<1>2. \A cs, rs : Gathered(cs, rs) => Gathered(cs, rs)'
    BY Keeps
<1> QED
    BY <1>1, <1>2 DEF CallersOK

(* What does not touch a part of the state leaves its invariant alone. *)
LEMMA Unchanged ==
    ASSUME inForce' = inForce
    PROVE  /\ ProfilesOK /\ UNCHANGED profile => ProfilesOK'
           /\ RepliesOK /\ UNCHANGED received => RepliesOK'
           /\ CallersOK /\ UNCHANGED <<pc, found>> => CallersOK'
           /\ TopologyMatchesIds /\ IdsReported /\ UNCHANGED Outcome
                => TopologyMatchesIds' /\ IdsReported'
           /\ ProbesOK /\ UNCHANGED <<phase, toProbe>> => ProbesOK'
           /\ ProbedPairReported /\ UNCHANGED first_pair => ProbedPairReported'
<1>1. ProfilesOK /\ UNCHANGED profile => ProfilesOK'
    BY DEF ProfilesOK, Profiles
<1>2. RepliesOK /\ UNCHANGED received => RepliesOK'
    BY Keeps DEF RepliesOK
<1>3. CallersOK /\ UNCHANGED <<pc, found>> => CallersOK'
    BY Keeps DEF CallersOK
<1>4. TopologyMatchesIds /\ IdsReported /\ UNCHANGED Outcome
        => TopologyMatchesIds' /\ IdsReported'
    BY DEF TopologyMatchesIds, IdsReported, IsReported, Outcome
<1>5. ProbesOK /\ UNCHANGED <<phase, toProbe>> => ProbesOK'
    BY Keeps DEF ProbesOK
<1>6. ProbedPairReported /\ UNCHANGED first_pair => ProbedPairReported'
    BY DEF ProbedPairReported, IsReported
<1> QED
    BY <1>1, <1>2, <1>3, <1>4, <1>5, <1>6

(* The ids a caller takes from its reply, or from none. *)
LEMMA AnsweredKeeps ==
    ASSUME TopologyInv, NEW t \in Callers, Answered(t)
    PROVE  TopologyInv' /\ inForce' = inForce
<1> USE DEF TopologyInv
<1>1. CASE GotWorkgroup(t)
  <2>1. UNCHANGED <<Fixed, Outcome, found>> /\ Discover(t) /\ Arrived(Asked(t)) /\ Takes(Asked(t))
    BY <1>1 DEF GotWorkgroup
  <2>2. inForce' = inForce /\ profile' = profile
    BY <2>1 DEF Fixed
  <2> QED
    BY <2>1, <2>2, DiscoverKeeps, ReplyTaken, Unchanged
<1>2. CASE GotClusters(t)
  <2> DEFINE q == Asked(t)
  <2>1. /\ inForce' = inForce /\ profile' = profile /\ Arrived(q) /\ Takes(q)
        /\ Loop(t, IdsIn(ReplyTo(q)), <<>>, 1)
    BY <1>2 DEF GotClusters, Fixed
  <2>2. q.id = "clusters"
    BY <1>2 DEF GotClusters, Asked, ClustersQuery, Query
  <2>3. Truthful(ReplyTo(q)) /\ ReplyTo(q).id = "clusters" /\ RepliesOK'
    BY <2>1, <2>2, ReplyTaken
  <2>4. Gathered(IdsIn(ReplyTo(q)), <<>>)
    <3>1. CASE ReplyTo(q).type = "ERROR"
      <4>1. IdsIn(ReplyTo(q)) = <<>>
        BY <3>1 DEF IdsIn
      <4> QED
        BY <4>1 DEF Gathered, Range
    <3>2. CASE ReplyTo(q).type # "ERROR"
      <4>1. IdsIn(ReplyTo(q)) = parse_id_list(ReplyTo(q).result)
        BY <3>2 DEF IdsIn
      <4> QED
        BY <2>3, <3>2, <4>1, ClustersTold DEF Gathered
    <3> QED
      BY <3>1, <3>2
  <2> QED
    BY <2>1, <2>3, <2>4, LoopKeeps, Unchanged
<1>3. CASE GotRouters(t)
  <2> DEFINE q == Asked(t)
             my == found[t]
             c == my.clusters[my.at]
             routers == IdsIn(ReplyTo(q))
             rs == WithRouters(my.routers, c, routers)
  <2>1. /\ inForce' = inForce /\ profile' = profile /\ Arrived(q) /\ Takes(q)
        /\ Loop(t, my.clusters, rs, my.at + 1)
    BY <1>3 DEF GotRouters, Fixed
  <2>2. q.id = "routers" /\ q.address = <<c>> /\ my.at \in DOMAIN my.clusters
    BY <1>3 DEF GotRouters, Asked, RoutersQuery, Query, CallersOK
  <2>3. /\ Truthful(ReplyTo(q)) /\ RepliesOK'
        /\ ReplyTo(q).id = "routers" /\ ReplyTo(q).address = <<c>>
    BY <2>1, <2>2, ReplyTaken
  <2>4. Gathered(my.clusters, my.routers) /\ c \in Range(my.clusters)
    BY <2>2 DEF CallersOK, Range
  <2>5. Gathered(my.clusters, rs)
    <3>1. CASE routers = <<>>
      BY <2>4, <3>1 DEF WithRouters
    <3>2. CASE routers # <<>>
      <4>1. ReplyTo(q).type # "ERROR" /\ routers = parse_id_list(ReplyTo(q).result)
        BY <3>2 DEF IdsIn
      <4>2. Routed(c, routers)
        BY <2>3, <4>1, RoutersTold
      <4>3. rs = [x \in DOMAIN my.routers \union {c} |-> IF x = c THEN routers ELSE my.routers[x]]
        BY <3>2 DEF WithRouters
      <4> HIDE DEF rs, routers, c, my
      <4> QED
        BY <2>4, <4>2, <4>3 DEF Gathered
    <3> QED
      BY <3>1, <3>2
  <2> QED
    BY <2>1, <2>3, <2>5, LoopKeeps, Unchanged
<1> QED
    BY <1>1, <1>2, <1>3 DEF Answered

(* A query that is not answered is worth an empty list. *)
LEMMA UnansweredKeeps ==
    ASSUME TopologyInv, NEW t \in Callers, Unanswered(t)
    PROVE  TopologyInv' /\ inForce' = inForce
<1> USE DEF TopologyInv
<1>1. UNCHANGED <<inForce, profile, received>> /\ TimedOut(t)
    BY DEF Unanswered, Fixed
<1>2. ProfilesOK' /\ RepliesOK'
    BY <1>1, Unchanged
<1>3. CASE pc[t] = "workgroup" /\ Goes(t, "failed") /\ UNCHANGED <<Outcome, wire, found>>
  <2>1. CallersOK'
    BY <1>1, <1>3, Keeps DEF CallersOK, Goes
  <2> QED
    BY <1>1, <1>2, <1>3, <2>1, Unchanged
<1>4. CASE pc[t] = "clusters" /\ Loop(t, <<>>, <<>>, 1)
  <2>1. Gathered(<<>>, <<>>)
    BY DEF Gathered, Range
  <2> QED
    BY <1>1, <1>2, <1>4, <2>1, LoopKeeps
<1>5. CASE pc[t] = "routers" /\ Loop(t, found[t].clusters, found[t].routers, found[t].at + 1)
  <2>1. Gathered(found[t].clusters, found[t].routers)
    BY DEF CallersOK
  <2> QED
    BY <1>1, <1>2, <1>5, <2>1, LoopKeeps
<1> QED
    BY <1>1, <1>3, <1>4, <1>5 DEF TimedOut

(* connect() and initialize(), disconnect(), and what the router and the
   connection do. *)
LEMMA NextKeeps ==
    ASSUME TopologyInv, Next
    PROVE  TopologyInv' /\ inForce \subseteq inForce'
<1> USE DEF TopologyInv
<1>1. CASE Connect
  <2>1. /\ UNCHANGED <<inForce, profile, received, found, Outcome>>
        /\ pc' = [pc EXCEPT !["connect"] = "workgroup"]
    BY <1>1 DEF Connect, Fixed, Goes
  <2>2. CallersOK'
    BY <2>1, Keeps DEF CallersOK
  <2> QED
    BY <2>1, <2>2, Unchanged
<1>2. CASE Initialize
  <2>1. /\ UNCHANGED <<inForce, profile, received, found, Outcome>>
        /\ Discover("initialize")
    BY <1>2 DEF Initialize, Fixed
  <2>2. CallersOK'
    BY <2>1, DiscoverKeeps DEF Callers
  <2> QED
    BY <2>1, <2>2, Unchanged
<1>3. CASE Disconnect
  <2>1. /\ UNCHANGED <<inForce, profile, received, found, Outcome>>
        /\ CancelReconnect \/ UNCHANGED pc
    BY <1>3 DEF Disconnect, Fixed
  <2>2. CallersOK'
    BY <2>1, Keeps DEF CallersOK, CancelReconnect
  <2> QED
    BY <2>1, <2>2, Unchanged
<1>4. CASE Discovering
    BY <1>4, AnsweredKeeps, UnansweredKeeps DEF Discovering
<1>5. CASE SetProfile /\ UNCHANGED topologyVars
  <2>1. /\ inForce' = inForce \union {profile'} /\ received' = received
        /\ profile' = (profile % Len(Firmware)) + 1
        /\ UNCHANGED <<pc, found, Outcome>>
    BY <1>5 DEF SetProfile, topologyVars, Outcome
  <2>2. Firmware \in Seq(Range(Firmware)) /\ Firmware # <<>>
    BY FirmwareAssumption
  <2>3. Profiles = 1..Len(Firmware) /\ Len(Firmware) \in Nat \ {0}
    BY <2>2, EmptySeq, LenProperties DEF Profiles
  <2>4. profile' \in Profiles
    BY <2>1, <2>3 DEF ProfilesOK
  <2>5. ProfilesOK'
    BY <2>1, <2>4 DEF ProfilesOK, Profiles
  <2>6. RepliesOK'
    BY <2>1, Keeps DEF RepliesOK
  <2>7. CallersOK'
    BY <2>1, Keeps DEF CallersOK
  <2>8. TopologyMatchesIds' /\ IdsReported'
    BY <2>1, Keeps DEF TopologyMatchesIds, IdsReported, Outcome
  <2> QED
    BY <2>1, <2>5, <2>6, <2>7, <2>8
<1>6. CASE Handle /\ UNCHANGED topologyVars
  <2>1. UNCHANGED <<inForce, profile, pc, found, Outcome>>
    BY <1>6 DEF Handle, topologyVars, Outcome
  <2>2. RepliesOK'
    <3>1. CASE received' = received
      BY <2>1, <3>1, Unchanged
    <3>2. CASE received' = Append(received, build_response(Firmware[profile], Head(wire)))
      <4> DEFINE r == build_response(Firmware[profile], Head(wire))
      <4>1. Truthful(r)
        BY ResponseTruthful DEF ProfilesOK
      <4> HIDE DEF r
      <4>2. PICK S : received \in Seq(S) /\ \A x \in S : Truthful(x)
        BY DEF RepliesOK
      <4>3. received \in Seq(S \union {r})
        BY <4>2
      <4>4. received' \in Seq(S \union {r})
        BY <3>2, <4>3 DEF r
      <4>5. \A x \in S \union {r} : Truthful(x)'
        BY <2>1, <4>1, <4>2, Keeps
      <4> QED
        BY <4>4, <4>5 DEF RepliesOK
    <3> QED
      BY <1>6, <3>1, <3>2 DEF Handle
  <2> QED
    BY <2>1, <2>2, Unchanged
<1>7. CASE /\ Lose /\ Trouble
           /\ UNCHANGED <<owner, use_specified_ids, Outcome, attempted, pc, found, starts>>
  <2>1. UNCHANGED <<inForce, profile, received>>
    BY <1>7 DEF Lose
  <2> QED
    BY <1>7, <2>1, Unchanged
<1> QED
    BY <1>1, <1>2, <1>3, <1>4, <1>5, <1>6, <1>7 DEF Next, RouterStep

-----------------------------------------------------------------------------
(* The steps of run_diagnostics *)

(* The next queries are planned as they should be. *)
LEMMA AsksKeeps ==
    ASSUME NEW stage \in Probing, NEW queries, Planned(stage, queries),
           Asks(stage, queries), inForce' = inForce
    PROVE  ProbesOK'
<1>1. CASE phase' = stage /\ toProbe' = queries
    BY <1>1, Keeps DEF ProbesOK
<1>2. CASE phase' = "raising"
    BY <1>2 DEF ProbesOK, Probing
<1> QED
    BY <1>1, <1>2 DEF Asks

(* The clusters whose routers are asked for. *)
LEMMA RoutersPlanned ==
    ASSUME NEW S, NEW cs \in Seq(S), cs # <<>>, \A c \in Range(cs) : Named(c)
    PROVE  Planned("routers", [i \in DOMAIN cs |-> RoutersQuery(cs[i])])
<1> DEFINE U == {RoutersQuery(c) : c \in Range(cs)}
           qs == [i \in DOMAIN cs |-> RoutersQuery(cs[i])]
<1>1. DOMAIN cs = 1..Len(cs) /\ Len(cs) \in Nat \ {0}
    BY EmptySeq, LenProperties
<1>2. qs \in [1..Len(cs) -> U]
    BY <1>1 DEF Range
<1>3. \A q \in U : AsksNamed(q)
    BY DEF AsksNamed
<1> HIDE DEF U, qs
<1>4. qs \in Seq(U) /\ Len(qs) = Len(cs)
    BY <1>1, <1>2, SeqDef
<1>5. qs # <<>>
    BY <1>1, <1>4, EmptySeq
<1>6. Planned("routers", qs)
    BY <1>3, <1>4, <1>5 DEF Planned
<1> QED
    BY <1>6 DEF qs

(* What the end of a probe leads to, if its result is one the router gave. *)
LEMMA ReportKeeps ==
    ASSUME ProbesOK, ProbedPairReported, inForce' = inForce,
           phase \in Probing, NEW probe, Report(probe),
           probe.status = "OK" /\ Head(toProbe).id = "clusters" =>
                /\ \E S : parse_id_list(probe.result) \in Seq(S)
                /\ \A c \in Range(parse_id_list(probe.result)) : Named(c),
           probe.address = Head(toProbe).address,
           probe.status = "OK" /\ Head(toProbe).id = "routers" =>
                Routed(Head(toProbe).address[1], parse_id_list(probe.result))
    PROVE  ProbesOK' /\ ProbedPairReported'
<1> DEFINE rest == Tail(toProbe)
           cs == IF probe.status = "OK" THEN parse_id_list(probe.result) ELSE <<>>
<1>1. PICK S : /\ toProbe \in Seq(S) \ {<<>>}
               /\ phase = "probes" => toProbe[Len(toProbe)] = ClustersQuery
               /\ phase = "routers" => \A q \in S : AsksNamed(q)
    BY DEF ProbesOK, Planned
<1>2. /\ Head(toProbe) = toProbe[1] /\ Head(toProbe) \in S
      /\ rest \in Seq(S) /\ Len(rest) = Len(toProbe) - 1
      /\ \A i \in 1..Len(rest) : rest[i] = toProbe[i + 1]
      /\ Len(toProbe) \in Nat \ {0}
    BY <1>1, HeadTailProperties, EmptySeq, LenProperties
<1>3. ProbesOK'
  <2>1. CASE rest # <<>>
    <3>1. Len(rest) \in Nat \ {0}
      BY <1>2, <2>1, EmptySeq, LenProperties
    <3>2. rest[Len(rest)] = toProbe[Len(toProbe)]
      BY <1>2, <3>1
    <3>3. Planned(phase, rest)
      BY <1>1, <1>2, <2>1, <3>2 DEF Planned
    <3>4. Asks(phase, rest)
      BY <2>1 DEF Report
    <3> QED
      BY <3>3, <3>4, AsksKeeps
  <2>2. CASE rest = <<>> /\ phase = "probes" /\ cs # <<>>
    <3>1. Asks("routers", [i \in DOMAIN cs |-> RoutersQuery(cs[i])])
      BY <2>2 DEF Report
    <3>2. Head(toProbe).id = "clusters"
      BY <1>1, <1>2, <2>2, EmptySeq DEF ClustersQuery, Query
    <3>3. probe.status = "OK" /\ cs = parse_id_list(probe.result)
      BY <2>2
    <3>4. Planned("routers", [i \in DOMAIN cs |-> RoutersQuery(cs[i])])
      BY <2>2, <3>2, <3>3, RoutersPlanned
    <3> QED
      BY <3>1, <3>4, AsksKeeps DEF Probing
  <2>3. CASE rest = <<>> /\ (phase = "routers" \/ (phase = "probes" /\ cs = <<>>))
    <3>1. Asks("last", LastProbes(first_pair'))
      BY <2>3 DEF Report
    <3>2. \A x, y : <<x, y>> \in Seq({x, y}) \ {<<>>}
      OBVIOUS
    <3>3. Planned("last", LastProbes(first_pair'))
      BY <3>2 DEF Planned, LastProbes
    <3> QED
      BY <3>1, <3>3, AsksKeeps DEF Probing
  <2>4. CASE rest = <<>> /\ phase = "last"
    <3>1. phase' = "closing"
      BY <2>4 DEF Report
    <3> QED
      BY <3>1 DEF ProbesOK, Probing
  <2> QED
    BY <2>1, <2>2, <2>3, <2>4 DEF Probing
<1>4. ProbedPairReported'
  <2>1. CASE first_pair' = first_pair
    BY <2>1, Unchanged
  <2>2. CASE first_pair' # first_pair
    <3>1. /\ phase = "routers" /\ probe.status = "OK"
          /\ first_pair' = <<probe.address[1], Head(parse_id_list(probe.result))>>
      BY <2>2 DEF Report, FirstPairAfter
    <3>2. PICK c : Head(toProbe) = RoutersQuery(c) /\ Named(c)
      BY <1>1, <1>2, <3>1 DEF AsksNamed
    <3>3. probe.address[1] = c /\ Routed(c, parse_id_list(probe.result))
      BY <3>1, <3>2 DEF RoutersQuery, Query
    <3>4. IsReported(first_pair')
      BY <3>1, <3>2, <3>3 DEF IsReported, Named, Routed
    <3> QED
      BY <3>4 DEF ProbedPairReported, IsReported
  <2> QED
    BY <2>1, <2>2
<1> QED
    BY <1>3, <1>4

LEMMA DiagnosticsKeeps ==
    ASSUME IInv, DiagnosticsStep
    PROVE  IInv'
<1> USE DEF IInv, TopologyInv
<1>1. CASE OpenFails
  <2>1. UNCHANGED vars /\ phase' = "unreachable" /\ first_pair' = first_pair
    BY <1>1 DEF OpenFails
  <2>2. UNCHANGED <<inForce, profile, received, pc, found, Outcome>>
    BY <2>1 DEF vars, routerVars, topologyVars, Outcome
  <2>3. ProbesOK'
    BY <2>1 DEF ProbesOK, Probing
  <2> QED
    BY <2>1, <2>2, <2>3, Unchanged
<1>2. CASE Opens
  <2>1. /\ UNCHANGED <<inForce, profile, received, pc, found, Outcome, first_pair>>
        /\ Asks("probes", PROBE_PLAN)
    BY <1>2 DEF Opens, Untouched, Fixed
  <2>2. \A w, x, y, z : /\ <<w, x, y, z>> \in Seq({w, x, y, z}) \ {<<>>}
                        /\ <<w, x, y, z>>[Len(<<w, x, y, z>>)] = z
    OBVIOUS
  <2>3. Planned("probes", PROBE_PLAN)
    BY <2>2 DEF Planned, PROBE_PLAN
  <2> QED
    BY <2>1, <2>3, AsksKeeps, Unchanged DEF Probing
<1>3. CASE ProbeAnswered
  <2> DEFINE q == Head(toProbe)
             r == ReplyTo(q)
             probe == ProbeOf(q, r)
  <2>1. /\ UNCHANGED <<inForce, profile, pc, found, Outcome>>
        /\ phase \in Probing /\ Arrived(q) /\ Takes(q) /\ Report(probe)
    BY <1>3 DEF ProbeAnswered, Untouched, Fixed
  <2>2. Truthful(r) /\ r.id = q.id /\ r.address = q.address /\ RepliesOK'
    BY <2>1, ReplyTaken
  <2>3. /\ probe.address = q.address
        /\ probe.status = "OK" => r.type # "ERROR" /\ probe.result = r.result
    BY DEF ProbeOf, Probe
  <2>4. probe.status = "OK" /\ q.id = "clusters" =>
            /\ \E S : parse_id_list(probe.result) \in Seq(S)
            /\ \A c \in Range(parse_id_list(probe.result)) : Named(c)
    BY <2>2, <2>3, ClustersTold
  <2>5. probe.status = "OK" /\ q.id = "routers" =>
            Routed(q.address[1], parse_id_list(probe.result))
    BY <2>2, <2>3 DEF Truthful, Routed
  <2> HIDE DEF probe, r, q
  <2>6. ProbesOK' /\ ProbedPairReported'
    BY <2>1, <2>3, <2>4, <2>5, ReportKeeps DEF q
  <2> QED
    BY <2>1, <2>2, <2>6, Unchanged
<1>4. CASE ProbeUnanswered
  <2> DEFINE probe == NoReply(Head(toProbe))
  <2>1. /\ UNCHANGED <<inForce, profile, received, pc, found, Outcome>>
        /\ phase \in Probing /\ Report(probe)
    BY <1>4 DEF ProbeUnanswered, Untouched, Fixed
  <2>2. probe.address = Head(toProbe).address /\ probe.status # "OK"
    BY DEF NoReply, Probe
  <2> HIDE DEF probe
  <2>3. ProbesOK' /\ ProbedPairReported'
    BY <2>1, <2>2, ReportKeeps
  <2> QED
    BY <2>1, <2>3, Unchanged
<1>5. CASE Disconnects
  <2>1. /\ UNCHANGED <<inForce, profile, received, found, Outcome, first_pair>>
        /\ phase' \in {"returned", "raised"} /\ CancelReconnect
    BY <1>5 DEF Disconnects, Untouched, Fixed
  <2>2. CallersOK'
    BY <2>1, Keeps DEF CallersOK, CancelReconnect
  <2>3. ProbesOK'
    BY <2>1 DEF ProbesOK, Probing
  <2> QED
    BY <2>1, <2>2, <2>3, Unchanged
<1> QED
    BY <1>1, <1>2, <1>3, <1>4, <1>5 DEF DiagnosticsStep

LEMMA InitEstablishes ==
    ASSUME DInit
    PROVE  IInv
<1>1. /\ profile \in inForce /\ inForce \subseteq Profiles /\ received = <<>>
      /\ cluster_routers = <<>> /\ ids_discovered = FALSE
      /\ pc = [t \in Callers |-> "idle"] /\ found = [t \in Callers |-> Nothing]
    BY DEF DInit, Init, RouterInit
<1>2. phase \notin Probing /\ first_pair = None
    BY DEF DInit, Probing
<1>3. RepliesOK
  <2>1. received \in Seq({})
    BY <1>1
  <2> QED
    BY <2>1 DEF RepliesOK
<1>4. CallersOK
  <2>1. Gathered(<<>>, <<>>)
    BY DEF Gathered, Range
  <2> QED
    BY <1>1, <2>1 DEF CallersOK, Nothing
<1> QED
    BY <1>1, <1>2, <1>3, <1>4 DEF IInv, TopologyInv, ProfilesOK, ProbesOK,
        TopologyMatchesIds, IdsReported, ProbedPairReported

LEMMA StepKeeps ==
    ASSUME IInv, [DNext]_allVars
    PROVE  IInv'
<1>1. CASE DiagnosticsStep
    BY <1>1, DiagnosticsKeeps
<1>2. CASE Next /\ UNCHANGED diagVars
  <2>1. TopologyInv' /\ inForce \subseteq inForce'
    BY <1>2, NextKeeps DEF IInv
  <2>2. ProbesOK' /\ ProbedPairReported'
    BY <1>2, <2>1, Keeps DEF IInv, ProbesOK, ProbedPairReported, diagVars
  <2> QED
    BY <2>1, <2>2 DEF IInv
<1>3. CASE UNCHANGED allVars
  <2>1. UNCHANGED <<inForce, profile, received, pc, found, Outcome, phase, toProbe, first_pair>>
    BY <1>3 DEF allVars, vars, routerVars, topologyVars, diagVars, Outcome
  <2> QED
    BY <2>1, Unchanged DEF IInv, TopologyInv
<1> QED
    BY <1>1, <1>2, <1>3 DEF DNext

(* The invariant holds of every run. *)
THEOREM Invariance == DSpec => []IInv
<1>1. DInit => IInv
    BY InitEstablishes
<1>2. IInv /\ [DNext]_allVars => IInv'
    BY StepKeeps
<1> QED
    BY <1>1, <1>2, PTL DEF DSpec

-----------------------------------------------------------------------------
(* What it is for *)

(* The ids a Router takes for its own are never made up: a cluster the router
   has named with the first router it gave for that cluster. *)
THEOREM IdsAreReported == DSpec => []IdsReported
<1>1. IInv => IdsReported
    BY DEF IInv, TopologyInv
<1> QED
    BY <1>1, Invariance, PTL

(* clusters, cluster_routers and the ids are of one discovery, wherever two of
   them interleave or one is cut off. *)
THEOREM TopologyAndIdsAgree == DSpec => []TopologyMatchesIds
<1>1. IInv => TopologyMatchesIds
    BY DEF IInv, TopologyInv
<1> QED
    BY <1>1, Invariance, PTL

(* The devices run_diagnostics probes are those of a pair the router gave. *)
THEOREM ProbedPairIsReported == DSpec => []ProbedPairReported
<1>1. IInv => ProbedPairReported
    BY DEF IInv
<1> QED
    BY <1>1, Invariance, PTL

-----------------------------------------------------------------------------
(* What the report says is supported *)

(* A firmware that has been in force answers queries of this command, and says
   of them what a reply does: an error of code, or none. *)
Answers(command, isError, code) ==
    \E p \in inForce :
        /\ command \notin Firmware[p].silent_commands
        /\ IF command \in Firmware[p].unsupported_commands
             THEN isError /\ code = Firmware[p].error_code
             ELSE isError => code \notin UNSUPPORTED_COMMAND_CODES

(* Every reply, and every probe that was answered, is some firmware's word. *)
Genuine(r) == Answers(r.id, r.type = "ERROR", r.result[1])
ProbeGenuine(probe) ==
    /\ probe.status = "OK" => Answers(probe.command, FALSE, None)
    /\ probe.status = "ERROR" /\ timeout < COMMAND_RESPONSE_TIMEOUT =>
            Answers(probe.command, TRUE, probe.error_code)

RepliesGenuine == \E S : received \in Seq(S) /\ \A r \in S : Genuine(r)
ProbesGenuine == \E S : probes \in Seq(S) /\ \A probe \in S : ProbeGenuine(probe)

(* As more profiles come to be in force, all of this stays true. *)
LEMMA GenuineKeeps ==
    ASSUME inForce \subseteq inForce'
    PROVE  /\ RepliesGenuine /\ UNCHANGED received => RepliesGenuine'
           /\ \A r : Genuine(r) => Genuine(r)'
           /\ ProbesGenuine /\ UNCHANGED <<probes, timeout>> => ProbesGenuine'
           /\ \A probe : ProbeGenuine(probe) /\ UNCHANGED timeout => ProbeGenuine(probe)'
<1>1. \A command, isError, code :
        Answers(command, isError, code) => Answers(command, isError, code)'
    BY DEF Answers
<1>2. \A r : Genuine(r) => Genuine(r)'
    BY <1>1 DEF Genuine
<1>3. \A probe : ProbeGenuine(probe) /\ UNCHANGED timeout => ProbeGenuine(probe)'
    BY <1>1 DEF ProbeGenuine
<1>4. RepliesGenuine /\ UNCHANGED received => RepliesGenuine'
    BY <1>2 DEF RepliesGenuine
<1>5. ProbesGenuine /\ UNCHANGED <<probes, timeout>> => ProbesGenuine'
    BY <1>3 DEF ProbesGenuine
<1> QED
    BY <1>2, <1>3, <1>4, <1>5

(* What the router answers is the word of the firmware it has. *)
LEMMA ResponseGenuine ==
    ASSUME NEW p \in inForce, NEW q, q.id \notin Firmware[p].silent_commands
    PROVE  Genuine(build_response(Firmware[p], q))
<1> DEFINE f == Firmware[p]
           r == build_response(f, q)
<1>1. CASE q.id \in f.unsupported_commands
  <2>1. r.id = q.id /\ r.type = "ERROR" /\ r.result[1] = f.error_code
    BY <1>1 DEF build_response, ErrorResponse, Response
  <2> HIDE DEF r
  <2>2. Genuine(r)
    BY <1>1, <2>1 DEF Genuine, Answers
  <2> QED
    BY <2>2 DEF r
<1>2. CASE q.id \notin f.unsupported_commands
  <2>1. r = Resolved(f, q)
    BY <1>2 DEF build_response
  <2>2. r.id = q.id /\ (r.type = "ERROR" => r.result[1] \in {9, 17})
    <3>1. CASE q.id = "routers" /\ q.address = <<>>
      BY <2>1, <3>1 DEF Resolved, ErrorResponse, Response, MISSING_PARAMETER
    <3>2. CASE q.id = "routers" /\ q.address # <<>>
      BY <2>1, <3>2 DEF Resolved, ErrorResponse, Response, CLUSTER_DOES_NOT_EXIST
    <3>3. CASE q.id = "clusters"
      BY <2>1, <3>3 DEF Resolved, Response
    <3>4. CASE q.id \notin {"routers", "clusters"}
      BY <2>1, <3>4 DEF Resolved, Response
    <3> QED
      BY <3>1, <3>2, <3>3, <3>4
  <2> HIDE DEF r
  <2>3. Genuine(r)
    BY <1>2, <2>2 DEF Genuine, Answers, UNSUPPORTED_COMMAND_CODES
  <2> QED
    BY <2>3 DEF r
<1> QED
    BY <1>1, <1>2

(* The reply a query takes, and what it leaves. *)
LEMMA GenuineTaken ==
    ASSUME RepliesGenuine, inForce' = inForce, NEW q, Arrived(q), Takes(q)
    PROVE  /\ Genuine(ReplyTo(q)) /\ ReplyTo(q).id = q.id
           /\ RepliesGenuine'
<1>1. PICK S : received \in Seq(S) /\ \A r \in S : Genuine(r)
    BY DEF RepliesGenuine
<1>2. Oldest(q) \in Matches(q) /\ Oldest(q) \in 1..Len(received)
    BY <1>1, OldestMatches
<1>3. received[Oldest(q)] \in S
    BY <1>1, <1>2, ElementOfSeq
<1>4. received' \in Seq(S)
    BY <1>1, <1>2, QueueRemoveAt DEF Takes
<1>5. \A r \in S : Genuine(r)'
    BY <1>1, GenuineKeeps
<1> QED
    BY <1>1, <1>2, <1>3, <1>4, <1>5 DEF ReplyTo, Matches, RepliesGenuine

(* A probe joins the report, and one that was skipped with it at most. *)
LEMMA ReportGenuine ==
    ASSUME ProbesGenuine, inForce' = inForce, timeout' = timeout,
           NEW probe, ProbeGenuine(probe), Report(probe)
    PROVE  ProbesGenuine'
<1> DEFINE none == Probe(Query("routers", <<>>), "SKIPPED", <<>>, None)
<1>1. PICK S : probes \in Seq(S) /\ \A x \in S : ProbeGenuine(x)
    BY DEF ProbesGenuine
<1>2. ProbeGenuine(none)
    BY DEF ProbeGenuine, Probe
<1> DEFINE U == S \union {probe, none}
<1>3. probes' = Append(probes, probe) \o <<none>> \/ probes' = Append(probes, probe) \o <<>>
    BY DEF Report
<1> HIDE DEF none
<1>4. Append(probes, probe) \in Seq(U) /\ <<none>> \in Seq(U) /\ <<>> \in Seq(U)
    BY <1>1
<1>5. probes' \in Seq(U)
  <2> HIDE DEF U
  <2> QED
    BY <1>3, <1>4, ConcatProperties
<1>6. \A x \in U : ProbeGenuine(x)'
    BY <1>1, <1>2, GenuineKeeps
<1> QED
    BY <1>5, <1>6 DEF ProbesGenuine

(* What the router, the connection and the callers of discover_router_ids do. *)
LEMMA NextGenuine ==
    ASSUME RepliesGenuine, ProfilesOK, Next
    PROVE  RepliesGenuine' /\ inForce \subseteq inForce'
<1>1. CASE Connect \/ Initialize \/ Disconnect
  <2>1. UNCHANGED <<inForce, received>>
    BY <1>1 DEF Connect, Initialize, Disconnect, Fixed
  <2> QED
    BY <2>1, GenuineKeeps
<1>2. CASE Discovering
  <2>1. PICK t \in Callers : Answered(t) \/ Unanswered(t)
    BY <1>2 DEF Discovering
  <2>2. CASE Answered(t)
    <3>1. inForce' = inForce /\ Arrived(Asked(t)) /\ Takes(Asked(t))
      BY <2>2 DEF Answered, GotWorkgroup, GotClusters, GotRouters, Fixed
    <3> QED
      BY <3>1, GenuineTaken
  <2>3. CASE Unanswered(t)
    <3>1. UNCHANGED <<inForce, received>>
      BY <2>3 DEF Unanswered, Fixed
    <3> QED
      BY <3>1, GenuineKeeps
  <2> QED
    BY <2>1, <2>2, <2>3
<1>3. CASE SetProfile
  <2>1. inForce \subseteq inForce' /\ received' = received
    BY <1>3 DEF SetProfile
  <2> QED
    BY <2>1, GenuineKeeps
<1>4. CASE Handle
  <2>1. UNCHANGED <<inForce, profile>>
    BY <1>4 DEF Handle
  <2>2. CASE received' = received
    BY <2>1, <2>2, GenuineKeeps
  <2>3. CASE received' # received
    <3> DEFINE r == build_response(Firmware[profile], Head(wire))
    <3>1. /\ Head(wire).id \notin Firmware[profile].silent_commands
          /\ received' = Append(received, r)
      BY <1>4, <2>3 DEF Handle
    <3>2. Genuine(r)
      BY <3>1, ResponseGenuine DEF ProfilesOK
    <3> HIDE DEF r
    <3>3. PICK S : received \in Seq(S) /\ \A x \in S : Genuine(x)
      BY DEF RepliesGenuine
    <3>4. received' \in Seq(S \union {r})
      BY <3>1, <3>3
    <3>5. \A x \in S \union {r} : Genuine(x)'
      BY <2>1, <3>2, <3>3, GenuineKeeps
    <3> QED
      BY <2>1, <3>4, <3>5 DEF RepliesGenuine
  <2> QED
    BY <2>2, <2>3
<1>5. CASE Lose
  <2>1. UNCHANGED <<inForce, received>>
    BY <1>5 DEF Lose
  <2> QED
    BY <2>1, GenuineKeeps
<1> QED
    BY <1>1, <1>2, <1>3, <1>4, <1>5 DEF Next, RouterStep

(* A step of run_diagnostics. *)
LEMMA DiagnosticsGenuine ==
    ASSUME RepliesGenuine, ProbesGenuine, DiagnosticsStep
    PROVE  RepliesGenuine' /\ ProbesGenuine'
<1>1. CASE Opens \/ OpenFails \/ Disconnects
  <2>1. UNCHANGED <<inForce, received, probes, timeout>>
    BY <1>1 DEF Opens, OpenFails, Disconnects, Untouched, Fixed, vars, routerVars
  <2> QED
    BY <2>1, GenuineKeeps
<1>2. CASE ProbeAnswered
  <2> DEFINE q == Head(toProbe)
             r == ReplyTo(q)
             probe == ProbeOf(q, r)
  <2>1. /\ UNCHANGED <<inForce, timeout>> /\ Arrived(q) /\ Takes(q) /\ Report(probe)
    BY <1>2 DEF ProbeAnswered, Untouched, Fixed
  <2>2. Genuine(r) /\ r.id = q.id /\ RepliesGenuine'
    BY <2>1, GenuineTaken
  <2>3. ProbeGenuine(probe)
    <3>1. CASE r.type = "ERROR"
      <4>1. probe = Probe(q, "ERROR", <<>>, r.result[1])
        BY <3>1 DEF ProbeOf
      <4>2. Answers(q.id, TRUE, r.result[1])
        BY <2>2, <3>1 DEF Genuine, Answers
      <4> HIDE DEF probe, q, r
      <4> QED
        BY <4>1, <4>2 DEF Probe, ProbeGenuine
    <3>2. CASE r.type # "ERROR"
      <4>1. probe = Probe(q, "OK", r.result, None)
        BY <3>2 DEF ProbeOf
      <4>2. Answers(q.id, FALSE, None)
        BY <2>2, <3>2 DEF Genuine, Answers
      <4> HIDE DEF probe, q, r
      <4> QED
        BY <4>1, <4>2 DEF Probe, ProbeGenuine
    <3> QED
      BY <3>1, <3>2
  <2> HIDE DEF probe
  <2> QED
    BY <2>1, <2>2, <2>3, ReportGenuine
<1>3. CASE ProbeUnanswered
  <2> DEFINE probe == NoReply(Head(toProbe))
  <2>1. UNCHANGED <<inForce, timeout, received>> /\ Report(probe)
    BY <1>3 DEF ProbeUnanswered, Untouched, Fixed
  <2>2. ProbeGenuine(probe)
    BY DEF NoReply, Probe, ProbeGenuine
  <2> HIDE DEF probe
  <2> QED
    BY <2>1, <2>2, ReportGenuine, GenuineKeeps
<1> QED
    BY <1>1, <1>2, <1>3 DEF DiagnosticsStep

(* The probe that get() finds, if there is one, is a probe of this command. *)
LEMMA GetFinds ==
    ASSUME NEW S, probes \in Seq(S), NEW command, HasProbe(command)
    PROVE  get(command) \in S /\ get(command).command = command
<1> DEFINE T == {i \in DOMAIN probes : probes[i].command = command}
           IsFirst(i) == /\ probes[i].command = command
                         /\ \A j \in 1..i - 1 : probes[j].command # command
           first == CHOOSE i \in DOMAIN probes : IsFirst(i)
<1>1. DOMAIN probes = 1..Len(probes) /\ Len(probes) \in Nat
    OBVIOUS
<1>2. T # {} /\ T \subseteq Nat
    BY <1>1 DEF HasProbe
<1>3. PICK x \in T : \A y \in T : x <= y
    BY <1>2, LeastOf
<1>4. IsFirst(x)
    BY <1>1, <1>3
<1>5. first \in DOMAIN probes /\ IsFirst(first)
    BY <1>3, <1>4
<1>6. get(command) = probes[first]
    BY DEF get
<1> HIDE DEF first
<1> QED
    BY <1>1, <1>5, <1>6, ElementOfSeq

(* What a report of such probes says. *)
LEMMA GenuineIsTrue ==
    ASSUME ProbesGenuine
    PROVE  SupportsIsTrue
<1>1. PICK S : probes \in Seq(S) /\ \A probe \in S : ProbeGenuine(probe)
    BY DEF ProbesGenuine
<1>2. ASSUME timeout < COMMAND_RESPONSE_TIMEOUT, NEW command, supports(command) = "yes"
      PROVE  \E p \in inForce :
                /\ command \notin Firmware[p].silent_commands
                /\ command \in Firmware[p].unsupported_commands =>
                        Firmware[p].error_code \notin UNSUPPORTED_COMMAND_CODES
  <2>1. HasProbe(command)
    BY <1>2 DEF supports
  <2> DEFINE probe == get(command)
  <2>2. ProbeGenuine(probe) /\ probe.command = command
    BY <1>1, <2>1, GetFinds
  <2>3. \/ probe.status = "OK"
        \/ probe.status = "ERROR" /\ ~is_unsupported_command(probe.error_code)
    BY <1>2, <2>1 DEF supports
  <2> HIDE DEF probe
  <2> QED
    BY <1>2, <2>2, <2>3 DEF ProbeGenuine, Answers, is_unsupported_command
<1>3. ASSUME timeout < COMMAND_RESPONSE_TIMEOUT, NEW command, supports(command) = "no"
      PROVE  \E p \in inForce :
                /\ command \in Firmware[p].unsupported_commands
                /\ Firmware[p].error_code \in UNSUPPORTED_COMMAND_CODES
  <2>1. HasProbe(command)
    BY <1>3 DEF supports
  <2> DEFINE probe == get(command)
  <2>2. ProbeGenuine(probe) /\ probe.command = command
    BY <1>1, <2>1, GetFinds
  <2>3. probe.status = "ERROR" /\ is_unsupported_command(probe.error_code)
    BY <1>3, <2>1 DEF supports
  <2> HIDE DEF probe
  <2> QED
    BY <1>3, <2>2, <2>3 DEF ProbeGenuine, Answers, is_unsupported_command
<1>4. ASSUME verdict = "ok"
      PROVE  \E p \in inForce : "device discovery" \notin
                Firmware[p].unsupported_commands \union Firmware[p].silent_commands
  <2> DEFINE probe == get("device discovery")
  <2>1. supports("device discovery") = "yes" /\ probe.status = "OK"
    BY <1>4 DEF verdict
  <2>2. HasProbe("device discovery")
    BY <2>1 DEF supports
  <2>3. ProbeGenuine(probe) /\ probe.command = "device discovery"
    BY <1>1, <2>2, GetFinds
  <2> HIDE DEF probe
  <2> QED
    BY <2>1, <2>3 DEF ProbeGenuine, Answers
<1> QED
    BY <1>2, <1>3, <1>4 DEF SupportsIsTrue

(* All through a run. *)
LEMMA AlwaysGenuine == DSpec => [](RepliesGenuine /\ ProbesGenuine)
<1>1. DInit => RepliesGenuine /\ ProbesGenuine
  <2>1. DInit => received \in Seq({}) /\ probes \in Seq({})
    BY DEF DInit, Init, RouterInit
  <2> QED
    BY <2>1 DEF RepliesGenuine, ProbesGenuine
<1>2. IInv /\ RepliesGenuine /\ ProbesGenuine /\ [DNext]_allVars
        => (RepliesGenuine /\ ProbesGenuine)'
  <2> SUFFICES ASSUME IInv, RepliesGenuine, ProbesGenuine, [DNext]_allVars
               PROVE  (RepliesGenuine /\ ProbesGenuine)'
    OBVIOUS
  <2>1. CASE DiagnosticsStep
    BY <2>1, DiagnosticsGenuine
  <2>2. CASE Next /\ UNCHANGED diagVars
    <3>1. RepliesGenuine' /\ inForce \subseteq inForce'
      BY <2>2, NextGenuine DEF IInv, TopologyInv
    <3> QED
      BY <2>2, <3>1, GenuineKeeps DEF diagVars
  <2>3. CASE UNCHANGED allVars
    <3>1. UNCHANGED <<inForce, received, probes, timeout>>
      BY <2>3 DEF allVars, vars, routerVars, diagVars
    <3> QED
      BY <3>1, GenuineKeeps
  <2> QED
    BY <2>1, <2>2, <2>3 DEF DNext
<1> QED
    BY <1>1, <1>2, Invariance, PTL DEF DSpec

(* Neither a late reply to an earlier probe, nor the queries of a reconnect,
   make the report call supported what no firmware has answered, or
   unsupported what none has rejected. *)
THEOREM SupportIsNotMadeUp == DSpec => []SupportsIsTrue
<1>1. RepliesGenuine /\ ProbesGenuine => SupportsIsTrue
    BY GenuineIsTrue
<1> QED
    BY <1>1, AlwaysGenuine, PTL

-----------------------------------------------------------------------------
(* The whole topology *)

(* What the firmware p lists as clusters, and the routers of those that have
   any and come before place n of the list. *)
Listed(p) == parse_id_list(Firmware[p].clusters)
ReportedBefore(p, n) ==
    [c \in {x \in Reported(Firmware[p]) : \E i \in DOMAIN Listed(p) : i < n /\ Listed(p)[i] = x} |->
        parse_id_list(Firmware[p].routers[c])]

(* There has been no firmware but p, which knows the queries, and no trouble. *)
Settled(p) ==
    /\ inForce = {p} /\ trouble = 0
    /\ {"clusters", "routers"} \intersect Firmware[p].unsupported_commands = {}

(* The reply r says what p has it say. *)
SaidBy(p, r) ==
    /\ r.id = "clusters" => r.type # "ERROR" /\ r.result = Firmware[p].clusters
    /\ r.id = "routers" /\ r.address # <<>> =>
         /\ r.type = "ERROR" <=> r.address[1] \notin DOMAIN Firmware[p].routers
         /\ r.type # "ERROR" => r.result = Firmware[p].routers[r.address[1]]

RepliesSaidBy(p) == \A i \in DOMAIN received : SaidBy(p, received[i])

(* A caller has all the routers up to the cluster it asks for now; and the
   first to end leaves all there are. *)
CallerOnWay(p, t) ==
    pc[t] = "routers" =>
        /\ found[t].clusters = Listed(p) /\ found[t].at \in DOMAIN Listed(p)
        /\ found[t].routers = ReportedBefore(p, found[t].at)
TopologyLeft(p) ==
    ~use_specified_ids /\ (\E t \in Callers : pc[t] = "done") =>
        clusters = Listed(p) /\ cluster_routers = ReportedBefore(p, Len(Listed(p)) + 1)
CallersOnWay(p) == (\A t \in Callers : CallerOnWay(p, t)) /\ TopologyLeft(p)

SettledInv ==
    /\ trouble \in Nat
    /\ \A p \in Profiles : Settled(p) => RepliesSaidBy(p) /\ CallersOnWay(p)

(* What has been settled so far, if it is after a step without trouble. *)
LEMMA SettledBefore ==
    ASSUME ProfilesOK, inForce \subseteq inForce', trouble' = trouble, NEW p, Settled(p)'
    PROVE  Settled(p) /\ inForce' = inForce
BY DEF ProfilesOK, Settled

(* The clusters of a firmware are a list. *)
LEMMA ListedIsSeq ==
    ASSUME NEW p \in Profiles
    PROVE  /\ \E U : Listed(p) \in Seq(U)
           /\ DOMAIN Listed(p) = 1..Len(Listed(p)) /\ Len(Listed(p)) \in Nat
<1>1. Firmware[p].clusters \in Seq(Nat \union {Junk})
    BY FirmwareAssumption
<1>2. PICK U : Listed(p) \in Seq(U)
    BY <1>1, IdListIsSeq DEF Listed
<1> QED
    BY <1>2, LenProperties

(* What the router answers while p is all there is. *)
LEMMA ResponseSaidBy ==
    ASSUME NEW p, Settled(p), NEW q
    PROVE  SaidBy(p, build_response(Firmware[p], q))
<1> DEFINE f == Firmware[p]
           r == build_response(f, q)
<1>1. CASE q.id \in f.unsupported_commands
  <2>1. r.id = q.id
    BY <1>1 DEF build_response, ErrorResponse, Response
  <2>2. q.id \notin {"clusters", "routers"}
    BY <1>1 DEF Settled
  <2> HIDE DEF r
  <2>3. SaidBy(p, r)
    BY <2>1, <2>2 DEF SaidBy
  <2> QED
    BY <2>3 DEF r
<1>2. CASE q.id \notin f.unsupported_commands
  <2>1. r = Resolved(f, q)
    BY <1>2 DEF build_response
  <2>2. CASE q.id = "routers" /\ q.address = <<>>
    <3>1. r.id = "routers" /\ r.address = <<>>
      BY <2>1, <2>2 DEF Resolved, ErrorResponse, Response
    <3> HIDE DEF r
    <3>2. SaidBy(p, r)
      BY <3>1 DEF SaidBy
    <3> QED
      BY <3>2 DEF r
  <2>3. CASE q.id = "routers" /\ q.address # <<>> /\ q.address[1] \in DOMAIN f.routers
    BY <2>1, <2>3 DEF Resolved, Response, SaidBy
  <2>4. CASE q.id = "routers" /\ q.address # <<>> /\ q.address[1] \notin DOMAIN f.routers
    <3>1. r.id = "routers" /\ r.type = "ERROR" /\ r.address \in {q.address, <<>>}
      BY <2>1, <2>4 DEF Resolved, ErrorResponse, Response
    <3> HIDE DEF r
    <3>2. SaidBy(p, r)
      BY <2>4, <3>1 DEF SaidBy
    <3> QED
      BY <3>2 DEF r
  <2>5. CASE q.id = "clusters"
    BY <2>1, <2>5 DEF Resolved, Response, SaidBy
  <2>6. CASE q.id \notin {"routers", "clusters"}
    BY <2>1, <2>6 DEF Resolved, Response, SaidBy
  <2> QED
    BY <2>2, <2>3, <2>4, <2>5, <2>6
<1> QED
    BY <1>1, <1>2

(* The reply a query takes, and those it leaves. *)
LEMMA TakenSaidBy ==
    ASSUME RepliesOK, NEW p, RepliesSaidBy(p), NEW q, Arrived(q), Takes(q)
    PROVE  /\ SaidBy(p, ReplyTo(q)) /\ ReplyTo(q).id = q.id /\ ReplyTo(q).address = q.address
           /\ RepliesSaidBy(p)'
<1>1. PICK S : received \in Seq(S)
    BY DEF RepliesOK
<1>2. Oldest(q) \in Matches(q) /\ Oldest(q) \in 1..Len(received)
    BY <1>1, OldestMatches
<1>3. SaidBy(p, ReplyTo(q)) /\ ReplyTo(q).id = q.id /\ ReplyTo(q).address = q.address
    BY <1>1, <1>2 DEF ReplyTo, Matches, RepliesSaidBy
<1>4. RepliesSaidBy(p)'
  <2> DEFINE k == Oldest(q)
             left == RemoveAt(received, k)
  <2>1. received' = left
    BY DEF Takes
  <2>2. /\ left \in Seq(S) /\ Len(left) = Len(received) - 1
        /\ \A j \in 1..Len(received) - 1 :
                left[j] = IF j < k THEN received[j] ELSE received[j + 1]
    BY <1>1, <1>2, RemoveAtProperties
  <2> HIDE DEF left, k
  <2>3. \A j \in DOMAIN left : \E i \in DOMAIN received : left[j] = received[i]
    <3>1. Len(received) \in Nat /\ DOMAIN received = 1..Len(received) /\ k \in 1..Len(received)
      BY <1>1, <1>2, LenProperties DEF k
    <3>2. DOMAIN left = 1..Len(received) - 1
      BY <2>2, <3>1
    <3> QED
      BY <2>2, <3>1, <3>2
  <2> QED
    BY <2>1, <2>3 DEF RepliesSaidBy, SaidBy
<1> QED
    BY <1>3, <1>4

(* The routers of one more cluster. *)
LEMMA OneMoreCluster ==
    ASSUME NEW p \in Profiles, NEW at \in DOMAIN Listed(p), NEW r, SaidBy(p, r),
           r.id = "routers", r.address = <<Listed(p)[at]>>
    PROVE  WithRouters(ReportedBefore(p, at), Listed(p)[at], IdsIn(r)) = ReportedBefore(p, at + 1)
<1> DEFINE c == Listed(p)[at]
           f == Firmware[p]
           L == Listed(p)
<1>1. DOMAIN L = 1..Len(L) /\ Len(L) \in Nat
    BY ListedIsSeq
<1>2. \A x : (\E i \in DOMAIN L : i < at + 1 /\ L[i] = x)
                <=> x = c \/ \E i \in DOMAIN L : i < at /\ L[i] = x
  <2>1. \A i \in DOMAIN L : i < at + 1 <=> i < at \/ i = at
    BY <1>1
  <2>2. at < at + 1
    BY <1>1
  <2> QED
    BY <2>1, <2>2
<1>3. r.type = "ERROR" <=> c \notin DOMAIN f.routers
    BY DEF SaidBy
<1>4. r.type # "ERROR" => IdsIn(r) = parse_id_list(f.routers[c])
    BY DEF SaidBy, IdsIn
<1>5. r.type = "ERROR" => IdsIn(r) = <<>>
    BY DEF IdsIn
<1>6. c \in Reported(f) <=> IdsIn(r) # <<>>
    BY <1>3, <1>4, <1>5 DEF Reported, Listed, Range
<1> DEFINE D(n) == {x \in Reported(f) : \E i \in DOMAIN L : i < n /\ L[i] = x}
<1>7. /\ ReportedBefore(p, at) = [x \in D(at) |-> parse_id_list(f.routers[x])]
      /\ ReportedBefore(p, at + 1) = [x \in D(at + 1) |-> parse_id_list(f.routers[x])]
    BY DEF ReportedBefore
<1>8. CASE IdsIn(r) = <<>>
  <2>1. D(at + 1) = D(at)
    BY <1>2, <1>6, <1>8
  <2> HIDE DEF D
  <2> QED
    BY <1>7, <1>8, <2>1 DEF WithRouters
<1>9. CASE IdsIn(r) # <<>>
  <2>1. D(at + 1) = D(at) \union {c}
    BY <1>2, <1>6, <1>9
  <2>2. IdsIn(r) = parse_id_list(f.routers[c])
    BY <1>4, <1>5, <1>9
  <2> HIDE DEF D, c, f
  <2>3. WithRouters(ReportedBefore(p, at), c, IdsIn(r))
            = [x \in D(at) \union {c} |-> IF x = c THEN IdsIn(r) ELSE ReportedBefore(p, at)[x]]
    BY <1>7, <1>9 DEF WithRouters
  <2>4. \A x \in D(at) \union {c} :
            (IF x = c THEN IdsIn(r) ELSE ReportedBefore(p, at)[x]) = parse_id_list(f.routers[x])
    BY <1>7, <2>2
  <2> QED
    BY <1>7, <2>1, <2>3, <2>4 DEF c
<1> QED
    BY <1>8, <1>9

(* The loop goes on with what it has, or leaves the whole topology. *)
LEMMA LoopOnWay ==
    ASSUME NEW p \in Profiles, CallersOnWay(p), DOMAIN pc = Callers, DOMAIN found = Callers,
           use_specified_ids' = use_specified_ids,
           NEW t \in Callers, NEW at \in 1..Len(Listed(p)) + 1,
           Loop(t, Listed(p), ReportedBefore(p, at), at)
    PROVE  CallersOnWay(p)'
<1> DEFINE L == Listed(p)
           rs == ReportedBefore(p, at)
<1>1. DOMAIN L = 1..Len(L) /\ Len(L) \in Nat
    BY ListedIsSeq
<1>2. CASE /\ at \in DOMAIN L /\ L[at] \in ClusterIds
           /\ found' = [found EXCEPT ![t] = [clusters |-> L, at |-> at, routers |-> rs]]
           /\ Goes(t, "routers")
           /\ UNCHANGED <<clusters, cluster_routers>>
  <2>1. pc' = [pc EXCEPT ![t] = "routers"]
    BY <1>2 DEF Goes
  <2>2. ASSUME NEW u \in Callers
        PROVE  CallerOnWay(p, u)'
    <3>1. CASE u = t
      <4>1. found'[u] = [clusters |-> L, at |-> at, routers |-> rs]
        BY <1>2, <3>1
      <4> QED
        BY <1>2, <4>1 DEF CallerOnWay
    <3>2. CASE u # t
      <4>1. found'[u] = found[u] /\ pc'[u] = pc[u]
        BY <1>2, <2>1, <3>2
      <4> QED
        BY <4>1 DEF CallerOnWay, CallersOnWay
    <3> QED
      BY <3>1, <3>2
  <2>3. \A u \in Callers : pc'[u] = "done" => pc[u] = "done"
    BY <2>1
  <2>4. TopologyLeft(p)'
    BY <1>2, <2>3 DEF TopologyLeft, CallersOnWay
  <2> QED
    BY <2>2, <2>4 DEF CallersOnWay
<1>3. CASE /\ Goes(t, "failed") /\ UNCHANGED <<found, clusters, cluster_routers>>
  <2>1. pc' = [pc EXCEPT ![t] = "failed"]
    BY <1>3 DEF Goes
  <2>2. \A u \in Callers : pc'[u] \in {"routers", "done"} => pc[u] = pc'[u]
    BY <2>1
  <2> QED
    BY <1>3, <2>2 DEF CallersOnWay, CallerOnWay, TopologyLeft
<1>4. CASE at \notin DOMAIN L /\ Conclude(t, L, rs)
  <2>1. /\ pc' = [pc EXCEPT ![t] = "done"] /\ found' = found
        /\ clusters' = L /\ cluster_routers' = rs
    BY <1>4 DEF Conclude, Goes
  <2>2. at = Len(L) + 1
    BY <1>1, <1>4
  <2>3. \A u \in Callers : pc'[u] = "routers" => pc[u] = "routers"
    BY <2>1
  <2> QED
    BY <2>1, <2>2, <2>3 DEF CallersOnWay, CallerOnWay, TopologyLeft
<1> QED
    BY <1>2, <1>3, <1>4 DEF Loop

(* Steps that take no caller to its routers or its end, and leave the topology. *)
LEMMA OnWayAside ==
    ASSUME NEW p, CallersOnWay(p), UNCHANGED <<found, use_specified_ids, clusters, cluster_routers>>,
           \A t \in Callers : pc'[t] = "routers" => pc[t] = "routers",
           ~use_specified_ids => \A t \in Callers : pc'[t] = "done" => pc[t] = "done"
    PROVE  CallersOnWay(p)'
BY DEF CallersOnWay, CallerOnWay, TopologyLeft

(* discover_router_ids up to its first query. *)
LEMMA DiscoverOnWay ==
    ASSUME NEW p, CallersOnWay(p), DOMAIN pc = Callers, NEW t \in Callers, Discover(t),
           UNCHANGED <<found, use_specified_ids, clusters, cluster_routers>>
    PROVE  CallersOnWay(p)'
<1>1. /\ pc' = [pc EXCEPT ![t] = "done"] \/ pc' = [pc EXCEPT ![t] = "clusters"]
      /\ ~use_specified_ids => pc' = [pc EXCEPT ![t] = "clusters"]
    BY DEF Discover, Goes
<1> QED
    BY <1>1, OnWayAside

(* A caller gets a reply. *)
LEMMA AnsweredOnWay ==
    ASSUME RepliesOK, CallersOK, NEW p \in Profiles, RepliesSaidBy(p), CallersOnWay(p),
           NEW t \in Callers, Answered(t)
    PROVE  RepliesSaidBy(p)' /\ CallersOnWay(p)'
<1>1. DOMAIN pc = Callers /\ DOMAIN found = Callers
    BY DEF CallersOK
<1>2. CASE GotWorkgroup(t)
  <2>1. /\ Arrived(Asked(t)) /\ Takes(Asked(t)) /\ Discover(t)
        /\ UNCHANGED <<found, use_specified_ids, clusters, cluster_routers>>
    BY <1>2 DEF GotWorkgroup, Fixed, Outcome
  <2> QED
    BY <1>1, <2>1, TakenSaidBy, DiscoverOnWay
<1>3. CASE GotClusters(t)
  <2> DEFINE q == Asked(t)
             r == ReplyTo(q)
  <2>1. /\ Arrived(q) /\ Takes(q) /\ Loop(t, IdsIn(r), <<>>, 1)
        /\ use_specified_ids' = use_specified_ids
    BY <1>3 DEF GotClusters, Fixed
  <2>2. q.id = "clusters"
    BY <1>3 DEF GotClusters, Asked, ClustersQuery, Query
  <2>3. SaidBy(p, r) /\ r.id = "clusters" /\ RepliesSaidBy(p)'
    BY <2>1, <2>2, TakenSaidBy
  <2>4. IdsIn(r) = Listed(p)
    BY <2>3 DEF SaidBy, IdsIn, Listed
  <2>5. ReportedBefore(p, 1) = <<>>
    <3>1. {x \in Reported(Firmware[p]) : \E i \in DOMAIN Listed(p) : i < 1 /\ Listed(p)[i] = x} = {}
      BY ListedIsSeq
    <3> QED
      BY <3>1 DEF ReportedBefore
  <2>6. 1 \in 1..Len(Listed(p)) + 1
    BY ListedIsSeq
  <2> HIDE DEF r, q
  <2> QED
    BY <1>1, <2>1, <2>3, <2>4, <2>5, <2>6, LoopOnWay
<1>4. CASE GotRouters(t)
  <2> DEFINE q == Asked(t)
             r == ReplyTo(q)
             at == found[t].at
  <2>1. /\ Arrived(q) /\ Takes(q)
        /\ Loop(t, found[t].clusters,
                WithRouters(found[t].routers, found[t].clusters[at], IdsIn(r)), at + 1)
        /\ use_specified_ids' = use_specified_ids /\ pc[t] = "routers"
    BY <1>4 DEF GotRouters, Fixed
  <2>2. /\ found[t].clusters = Listed(p) /\ at \in DOMAIN Listed(p)
        /\ found[t].routers = ReportedBefore(p, at)
    BY <2>1 DEF CallersOnWay, CallerOnWay
  <2>3. q.id = "routers" /\ q.address = <<Listed(p)[at]>>
    BY <2>1, <2>2 DEF Asked, RoutersQuery, Query
  <2>4. SaidBy(p, r) /\ r.id = "routers" /\ r.address = <<Listed(p)[at]>> /\ RepliesSaidBy(p)'
    BY <2>1, <2>3, TakenSaidBy
  <2> HIDE DEF r, q, at
  <2>5. WithRouters(ReportedBefore(p, at), Listed(p)[at], IdsIn(r)) = ReportedBefore(p, at + 1)
    BY <2>2, <2>4, OneMoreCluster
  <2>6. at + 1 \in 1..Len(Listed(p)) + 1
    BY <2>2, ListedIsSeq
  <2> QED
    BY <1>1, <2>1, <2>2, <2>4, <2>5, <2>6, LoopOnWay
<1> QED
    BY <1>2, <1>3, <1>4 DEF Answered

(* A query that times out is trouble. *)
LEMMA TimesOutIsTrouble ==
    ASSUME trouble \in Nat, NEW q, TimesOut(q)
    PROVE  trouble' \in Nat \ {0}
BY DEF TimesOut, Trouble

(* What callers, the router and the connection do. *)
LEMMA NextOnWay ==
    ASSUME ProfilesOK, RepliesOK, CallersOK, SettledInv, Next, inForce \subseteq inForce'
    PROVE  SettledInv'
<1>1. DOMAIN pc = Callers
    BY DEF CallersOK
<1>2. ASSUME trouble' \in Nat \ {0}
      PROVE  SettledInv'
    BY <1>2 DEF SettledInv, Settled
<1>3. ASSUME trouble' = trouble,
             \A p \in Profiles : Settled(p) /\ inForce' = inForce
                /\ RepliesSaidBy(p) /\ CallersOnWay(p)
                => RepliesSaidBy(p)' /\ CallersOnWay(p)'
      PROVE  SettledInv'
  <2>1. ASSUME NEW p \in Profiles, Settled(p)'
        PROVE  RepliesSaidBy(p)' /\ CallersOnWay(p)'
    <3>1. Settled(p) /\ inForce' = inForce
      BY <1>3, <2>1, SettledBefore
    <3> QED
      BY <1>3, <3>1 DEF SettledInv
  <2>2. trouble' \in Nat
    BY <1>3 DEF SettledInv
  <2> QED
    BY <2>1, <2>2 DEF SettledInv
<1>4. CASE Connect
  <2>1. /\ pc' = [pc EXCEPT !["connect"] = "workgroup"] /\ trouble' = trouble
        /\ UNCHANGED <<received, found, use_specified_ids, clusters, cluster_routers>>
    BY <1>4 DEF Connect, Goes, Fixed, Outcome
  <2>2. ASSUME NEW p \in Profiles, CallersOnWay(p)
        PROVE  CallersOnWay(p)'
    BY <1>1, <2>1, <2>2, OnWayAside
  <2>3. ASSUME NEW p, RepliesSaidBy(p)
        PROVE  RepliesSaidBy(p)'
    BY <2>1, <2>3 DEF RepliesSaidBy, SaidBy
  <2> QED
    BY <1>3, <2>1, <2>2, <2>3
<1>5. CASE Initialize
  <2>1. /\ Discover("initialize") /\ "initialize" \in Callers /\ trouble' = trouble
        /\ UNCHANGED <<received, found, use_specified_ids, clusters, cluster_routers>>
    BY <1>5 DEF Initialize, Fixed, Outcome, Callers
  <2>2. ASSUME NEW p \in Profiles, CallersOnWay(p)
        PROVE  CallersOnWay(p)'
    BY <1>1, <2>1, <2>2, DiscoverOnWay
  <2>3. ASSUME NEW p, RepliesSaidBy(p)
        PROVE  RepliesSaidBy(p)'
    BY <2>1, <2>3 DEF RepliesSaidBy, SaidBy
  <2> QED
    BY <1>3, <2>1, <2>2, <2>3
<1>6. CASE Disconnect
    BY <1>2, <1>6 DEF Disconnect, Trouble, SettledInv
<1>7. CASE Discovering
  <2>1. PICK t \in Callers : Answered(t) \/ Unanswered(t)
    BY <1>7 DEF Discovering
  <2>2. CASE Answered(t)
    <3>1. trouble' = trouble
      BY <2>2 DEF Answered, GotWorkgroup, GotClusters, GotRouters
    <3> QED
      BY <1>3, <2>2, <3>1, AnsweredOnWay
  <2>3. CASE Unanswered(t)
    <3>1. TimesOut(Asked(t))
      BY <2>3 DEF Unanswered
    <3> QED
      BY <1>2, <3>1, TimesOutIsTrouble DEF SettledInv
  <2> QED
    BY <2>1, <2>2, <2>3
<1>8. CASE (SetProfile \/ Handle) /\ UNCHANGED topologyVars
  <2>1. UNCHANGED <<trouble, pc, found, use_specified_ids, clusters, cluster_routers>>
    BY <1>8 DEF topologyVars
  <2>2. ASSUME NEW p \in Profiles, CallersOnWay(p)
        PROVE  CallersOnWay(p)'
    BY <2>1, <2>2, OnWayAside
  <2>3. ASSUME NEW p \in Profiles, Settled(p), RepliesSaidBy(p)
        PROVE  RepliesSaidBy(p)'
    <3>1. CASE received' = received
      BY <2>3, <3>1 DEF RepliesSaidBy, SaidBy
    <3>2. CASE received' # received
      <4> DEFINE r == build_response(Firmware[p], Head(wire))
      <4>1. profile = p
        BY <2>3 DEF ProfilesOK, Settled
      <4>2. received' = Append(received, r)
        BY <1>8, <3>2, <4>1 DEF Handle, SetProfile
      <4>3. SaidBy(p, r)
        BY <2>3, ResponseSaidBy
      <4> HIDE DEF r
      <4>4. PICK S : received \in Seq(S)
        BY DEF RepliesOK
      <4>5. /\ Len(received') = Len(received) + 1 /\ Len(received) \in Nat
            /\ DOMAIN received = 1..Len(received) /\ DOMAIN received' = 1..Len(received')
            /\ \A i \in 1..Len(received) : received'[i] = received[i]
            /\ received'[Len(received) + 1] = r
        <5>1. received \in Seq(S \union {r})
          BY <4>4
        <5> QED
          BY <4>2, <5>1, AppendProperties, LenProperties
      <4>6. \A i \in DOMAIN received' : i \in DOMAIN received \/ i = Len(received) + 1
        BY <4>5
      <4>7. \A i \in DOMAIN received' : SaidBy(p, received'[i])
        BY <2>3, <4>3, <4>5, <4>6 DEF RepliesSaidBy
      <4> QED
        BY <4>7 DEF RepliesSaidBy, SaidBy
    <3> QED
      BY <3>1, <3>2
  <2> QED
    BY <1>3, <2>1, <2>2, <2>3
<1>9. CASE Lose /\ Trouble
    BY <1>2, <1>9 DEF Trouble, SettledInv
<1> QED
    BY <1>4, <1>5, <1>6, <1>7, <1>8, <1>9 DEF Next, RouterStep

(* run_diagnostics leaves the callers alone, but for those it cancels. *)
LEMMA DiagnosticsOnWay ==
    ASSUME ProfilesOK, RepliesOK, CallersOK, SettledInv, DiagnosticsStep
    PROVE  SettledInv'
<1>1. DOMAIN pc = Callers
    BY DEF CallersOK
<1>2. UNCHANGED <<inForce, found, use_specified_ids, clusters, cluster_routers>>
    BY DEF DiagnosticsStep, OpenFails, Opens, ProbeAnswered, ProbeUnanswered, Disconnects,
        Untouched, Fixed, Outcome, vars, routerVars, topologyVars
<1>3. CASE ProbeUnanswered
    BY <1>3, TimesOutIsTrouble DEF ProbeUnanswered, SettledInv, Settled
<1>4. CASE ~ProbeUnanswered
  <2>1. /\ trouble' = trouble
        /\ pc' = pc \/ CancelReconnect
        /\ received' = received \/ (Arrived(Head(toProbe)) /\ Takes(Head(toProbe)))
    BY <1>4 DEF DiagnosticsStep, OpenFails, Opens, ProbeAnswered, Disconnects,
        Untouched, vars, routerVars, topologyVars
  <2>2. \A t \in Callers : pc'[t] \in {"routers", "done"} => pc[t] = pc'[t]
    BY <1>1, <2>1 DEF CancelReconnect
  <2>3. ASSUME NEW p \in Profiles, Settled(p)'
        PROVE  RepliesSaidBy(p)' /\ CallersOnWay(p)'
    <3>1. Settled(p)
      BY <1>2, <2>1, <2>3, SettledBefore
    <3>2. RepliesSaidBy(p) /\ CallersOnWay(p)
      BY <3>1 DEF SettledInv
    <3>3. CallersOnWay(p)'
      BY <1>2, <2>2, <3>2, OnWayAside
    <3>4. CASE received' = received
      BY <3>2, <3>3, <3>4 DEF RepliesSaidBy, SaidBy
    <3> QED
      BY <2>1, <3>2, <3>3, <3>4, TakenSaidBy
  <2>4. trouble' \in Nat
    BY <2>1 DEF SettledInv
  <2> QED
    BY <2>3, <2>4 DEF SettledInv
<1> QED
    BY <1>3, <1>4

(* Any step. *)
LEMMA StepOnWay ==
    ASSUME IInv, SettledInv, [DNext]_allVars
    PROVE  SettledInv'
<1>1. ProfilesOK /\ RepliesOK /\ CallersOK
    BY DEF IInv, TopologyInv
<1>2. CASE DiagnosticsStep
    BY <1>1, <1>2, DiagnosticsOnWay
<1>3. CASE Next /\ UNCHANGED diagVars
    BY <1>1, <1>3, NextKeeps, NextOnWay DEF IInv
<1>4. CASE UNCHANGED allVars
  <2>1. UNCHANGED <<inForce, trouble, received, pc, found, use_specified_ids, clusters, cluster_routers>>
    BY <1>4 DEF allVars, vars, routerVars, topologyVars
  <2>2. \A p : Settled(p)' => Settled(p)
    BY <2>1 DEF Settled
  <2>3. \A p : RepliesSaidBy(p) => RepliesSaidBy(p)'
    BY <2>1 DEF RepliesSaidBy, SaidBy
  <2>4. \A p : CallersOnWay(p) => CallersOnWay(p)'
    BY <2>1, OnWayAside
  <2> QED
    BY <2>1, <2>2, <2>3, <2>4 DEF SettledInv
<1> QED
    BY <1>2, <1>3, <1>4 DEF DNext

(* All through a run. *)
LEMMA AlwaysSettled == DSpec => []SettledInv
<1>1. DInit => SettledInv
  <2> SUFFICES ASSUME DInit PROVE SettledInv
    OBVIOUS
  <2>1. trouble = 0 /\ received = <<>> /\ pc = [t \in Callers |-> "idle"]
    BY DEF DInit, Init, RouterInit
  <2>2. DOMAIN received = {}
    BY <2>1
  <2> QED
    BY <2>1, <2>2 DEF SettledInv, RepliesSaidBy, CallersOnWay, CallerOnWay, TopologyLeft
<1>2. IInv /\ SettledInv /\ [DNext]_allVars => SettledInv'
    BY StepOnWay
<1> QED
    BY <1>1, <1>2, Invariance, PTL DEF DSpec

(* With one firmware that answers, the first caller of discover_router_ids to
   end leaves the whole topology, and no other spoils it. *)
THEOREM TopologyIsComplete == DSpec => []DiscoveryComplete
<1>1. SettledInv => DiscoveryComplete
  <2> SUFFICES ASSUME SettledInv, NEW p \in Profiles, Settled(p), ~use_specified_ids,
                      \E t \in Callers : pc[t] = "done"
               PROVE  /\ clusters = Listed(p)
                      /\ cluster_routers = [c \in Reported(Firmware[p]) |->
                                                parse_id_list(Firmware[p].routers[c])]
    BY DEF DiscoveryComplete, Settled, Listed
  <2>1. clusters = Listed(p) /\ cluster_routers = ReportedBefore(p, Len(Listed(p)) + 1)
    BY DEF SettledInv, CallersOnWay, TopologyLeft
  <2>2. {x \in Reported(Firmware[p]) :
            \E i \in DOMAIN Listed(p) : i < Len(Listed(p)) + 1 /\ Listed(p)[i] = x}
                = Reported(Firmware[p])
    <3>1. \A i \in DOMAIN Listed(p) : i < Len(Listed(p)) + 1
      BY ListedIsSeq
    <3> QED
      BY <3>1 DEF Reported, Listed, Range
  <2> QED
    BY <2>1, <2>2 DEF ReportedBefore
<1> QED
    BY <1>1, AlwaysSettled, PTL

-----------------------------------------------------------------------------
(* The address that is probed *)

(* Some numbers up to m: one more at each of them. *)
UpTo(T, m) == {j \in T : j <= m}

LEMMA CountUpTo ==
    ASSUME NEW n \in Nat, NEW T, T \subseteq 1..n, NEW m \in 1..n
    PROVE  /\ Cardinality(UpTo(T, m)) \in Nat /\ Cardinality(UpTo(T, m - 1)) \in Nat
           /\ m \in T => Cardinality(UpTo(T, m)) = Cardinality(UpTo(T, m - 1)) + 1
           /\ m \notin T => Cardinality(UpTo(T, m)) = Cardinality(UpTo(T, m - 1))
<1> DEFINE A == UpTo(T, m - 1)
           B == UpTo(T, m)
<1>1. IsFiniteSet(1..n)
    BY FS_Interval
<1>2. A \subseteq 1..n /\ B \subseteq 1..n
    BY DEF UpTo
<1>3. IsFiniteSet(A) /\ IsFiniteSet(B)
    BY <1>1, <1>2, FS_Subset
<1>4. \A j \in T : j \in Nat /\ (j <= m <=> j <= m - 1 \/ j = m)
    OBVIOUS
<1>5. m \notin A
    BY DEF UpTo
<1>6. m \in T => B = A \union {m}
    BY <1>4 DEF UpTo
<1>7. m \notin T => B = A
    BY <1>4 DEF UpTo
<1> HIDE DEF A, B
<1>8. Cardinality(A) \in Nat /\ Cardinality(B) \in Nat
    BY <1>3, FS_CardinalityType
<1>9. Cardinality(A \union {m}) = Cardinality(A) + 1
    BY <1>3, <1>5, FS_AddElement
<1> QED
    BY <1>6, <1>7, <1>8, <1>9 DEF A, B

(* There is a k-th of them, for every k up to their number. *)
LEMMA KthOf ==
    ASSUME NEW n \in Nat, NEW T, T \subseteq 1..n, NEW k \in 1..Cardinality(T)
    PROVE  \E i \in T : Cardinality(UpTo(T, i)) = k
<1> DEFINE count(m) == Cardinality(UpTo(T, m))
           U == {m \in 0..n : k <= count(m)}
<1>1. IsFiniteSet(1..n)
    BY FS_Interval
<1>2. Cardinality(T) \in Nat
    BY <1>1, FS_Subset, FS_CardinalityType
<1>3. UpTo(T, n) = T
  <2>1. \A j \in T : j <= n
    OBVIOUS
  <2> QED
    BY <2>1 DEF UpTo
<1>4. n \in U
    BY <1>2, <1>3
<1>5. U \subseteq Nat
    OBVIOUS
<1>6. PICK m \in U : \A x \in U : m <= x
    BY <1>4, <1>5, LeastOf
<1>7. count(0) = 0
  <2>1. \A j \in T : ~(j <= 0)
    OBVIOUS
  <2>2. UpTo(T, 0) = {}
    BY <2>1 DEF UpTo
  <2> QED
    BY <2>2, FS_EmptySet
<1>8. k \in Nat \ {0} /\ m \in 0..n /\ k <= count(m)
    BY <1>2, <1>6
<1>9. m # 0
    BY <1>7, <1>8
<1>10. m \in 1..n
    BY <1>8, <1>9
<1>11. /\ count(m) \in Nat /\ count(m - 1) \in Nat
       /\ m \in T => count(m) = count(m - 1) + 1
       /\ m \notin T => count(m) = count(m - 1)
    BY <1>10, CountUpTo
<1>12. ~(k <= count(m - 1))
  <2>1. m - 1 \in 0..n /\ ~(m <= m - 1)
    BY <1>10
  <2> QED
    BY <1>6, <2>1
<1> HIDE DEF count
<1>13. m \in T /\ count(m) = k
    BY <1>8, <1>11, <1>12
<1> QED
    BY <1>13 DEF count

(* parse_id_list gives numbers. *)
LEMMA IdListIsNumbers ==
    ASSUME NEW s \in Seq(Nat \union {Junk})
    PROVE  parse_id_list(s) \in Seq(Nat)
<1> DEFINE numbers == {i \in DOMAIN s : s[i] # Junk}
           nth(k) == CHOOSE i \in numbers : Cardinality({j \in numbers : j <= i}) = k
           n == Cardinality(numbers)
<1>1. DOMAIN s = 1..Len(s) /\ Len(s) \in Nat
    OBVIOUS
<1>2. IsFiniteSet(1..Len(s))
    BY <1>1, FS_Interval
<1>3. numbers \subseteq 1..Len(s)
    BY <1>1
<1>4. n \in Nat
    BY <1>2, <1>3, FS_Subset, FS_CardinalityType
<1>5. parse_id_list(s) = [k \in 1..n |-> s[nth(k)]]
    BY DEF parse_id_list
<1>6. \A i \in numbers : s[i] \in Nat
    BY <1>1
<1> HIDE DEF numbers
<1>7. \A k \in 1..n : \E i \in numbers : Cardinality({j \in numbers : j <= i}) = k
    BY <1>1, <1>3, KthOf DEF UpTo
<1>8. \A k \in 1..n : nth(k) \in numbers
    BY <1>7
<1> HIDE DEF n, nth
<1>9. parse_id_list(s) \in [1..n -> Nat]
    BY <1>5, <1>6, <1>8
<1> QED
    BY <1>4, <1>9, SeqDef

(* The first of the clusters before place n that has routers, with the first
   of them. *)
PairBefore(p, n) ==
    IF DOMAIN ReportedBefore(p, n) = {} THEN None ELSE FirstPair(Listed(p), ReportedBefore(p, n))
PairOf(p, i) == <<Listed(p)[i], Head(parse_id_list(Firmware[p].routers[Listed(p)[i]]))>>

(* There is none before the first that has routers. *)
LEMMA PairIsNone ==
    ASSUME NEW p \in Profiles, NEW n \in Nat,
           \A i \in DOMAIN Listed(p) : i < n => Listed(p)[i] \notin Reported(Firmware[p])
    PROVE  PairBefore(p, n) = None
<1>1. DOMAIN ReportedBefore(p, n) = {}
    BY DEF ReportedBefore
<1> QED
    BY <1>1 DEF PairBefore

(* From there on it is that pair. *)
LEMMA PairIs ==
    ASSUME NEW p \in Profiles, NEW n \in Nat, NEW i \in DOMAIN Listed(p), i < n,
           Listed(p)[i] \in Reported(Firmware[p]),
           \A j \in 1..i - 1 : Listed(p)[j] \notin Reported(Firmware[p])
    PROVE  PairBefore(p, n) = PairOf(p, i) /\ PairBefore(p, n) # None
<1> DEFINE f == Firmware[p]
           L == Listed(p)
           rs == ReportedBefore(p, n)
           IsFirst(k) == L[k] \in DOMAIN rs /\ \A j \in 1..k - 1 : L[j] \notin DOMAIN rs
           first == CHOOSE k \in DOMAIN L : IsFirst(k)
<1>1. DOMAIN L = 1..Len(L) /\ Len(L) \in Nat
    BY ListedIsSeq
<1>2. DOMAIN rs = {x \in Reported(f) : \E k \in DOMAIN L : k < n /\ L[k] = x}
    BY DEF ReportedBefore
<1>3. L[i] \in DOMAIN rs /\ rs[L[i]] = parse_id_list(f.routers[L[i]])
    BY <1>2 DEF ReportedBefore
<1>4. IsFirst(i)
    BY <1>2, <1>3
<1>5. ASSUME NEW k \in DOMAIN L, IsFirst(k)
      PROVE  k = i
  <2>1. ~(i < k)
    <3>1. i < k => i \in 1..k - 1
      BY <1>1
    <3> QED
      BY <1>3, <1>5, <3>1
  <2>2. ~(k < i)
    <3>1. k < i => k \in 1..i - 1
      BY <1>1
    <3> QED
      BY <1>2, <1>5, <3>1
  <2> QED
    BY <1>1, <2>1, <2>2
<1>6. first = i
    BY <1>4, <1>5
<1>7. FirstPair(L, rs) = <<L[first], Head(rs[L[first]])>>
    BY DEF FirstPair
<1> HIDE DEF first
<1>8. PairBefore(p, n) = PairOf(p, i)
  <2>1. PairBefore(p, n) = FirstPair(L, rs)
    BY <1>3 DEF PairBefore
  <2> QED
    BY <1>3, <1>6, <1>7, <2>1 DEF PairOf
<1>9. PairOf(p, i) \in Nat \X Nat
  <2>1. L \in Seq(Nat)
    BY FirmwareAssumption, IdListIsNumbers DEF Listed
  <2>2. L[i] \in Nat
    BY <2>1, ElementOfSeq
  <2>3. L[i] \in DOMAIN f.routers /\ parse_id_list(f.routers[L[i]]) # <<>>
    BY DEF Reported
  <2>4. parse_id_list(f.routers[L[i]]) \in Seq(Nat)
    BY <2>3, FirmwareAssumption, IdListIsNumbers
  <2>5. Head(parse_id_list(f.routers[L[i]])) \in Nat
    BY <2>3, <2>4, HeadTailProperties
  <2> QED
    BY <2>2, <2>5 DEF PairOf
<1> QED
    BY <1>8, <1>9, DiagnosticsAssumption

(* One more cluster, as the loop of the probes has it. *)
LEMMA PairAfter ==
    ASSUME NEW p \in Profiles, NEW n \in DOMAIN Listed(p)
    PROVE  PairBefore(p, n + 1) =
            IF PairBefore(p, n) # None \/ Listed(p)[n] \notin Reported(Firmware[p])
              THEN PairBefore(p, n) ELSE PairOf(p, n)
<1> DEFINE L == Listed(p)
           T == {i \in DOMAIN L : i < n /\ L[i] \in Reported(Firmware[p])}
<1>1. DOMAIN L = 1..Len(L) /\ Len(L) \in Nat /\ n \in Nat /\ n + 1 \in Nat /\ n < n + 1
    BY ListedIsSeq
<1>2. T \subseteq Nat
    BY <1>1
<1>3. CASE T # {}
  <2>1. PICK i \in T : \A j \in T : i <= j
    BY <1>2, <1>3, LeastOf
  <2>2. \A j \in 1..i - 1 : L[j] \notin Reported(Firmware[p])
    BY <1>1, <2>1
  <2>3. i < n /\ i < n + 1 /\ i \in DOMAIN L /\ L[i] \in Reported(Firmware[p])
    BY <1>1, <2>1
  <2> HIDE DEF T, L
  <2>4. PairBefore(p, n) = PairOf(p, i) /\ PairBefore(p, n) # None
    BY <1>1, <2>2, <2>3, PairIs DEF L
  <2>5. PairBefore(p, n + 1) = PairOf(p, i)
    BY <1>1, <2>2, <2>3, PairIs DEF L
  <2> QED
    BY <2>4, <2>5
<1>4. CASE T = {}
  <2>1. \A i \in DOMAIN L : i < n => L[i] \notin Reported(Firmware[p])
    BY <1>4
  <2>2. PairBefore(p, n) = None
    BY <1>1, <2>1, PairIsNone
  <2>3. CASE L[n] \notin Reported(Firmware[p])
    <3>1. \A i \in DOMAIN L : i < n + 1 => L[i] \notin Reported(Firmware[p])
      <4>1. \A i \in DOMAIN L : i < n + 1 => i < n \/ i = n
        BY <1>1
      <4> QED
        BY <2>1, <2>3, <4>1
    <3>2. PairBefore(p, n + 1) = None
      BY <1>1, <3>1, PairIsNone
    <3> QED
      BY <2>2, <2>3, <3>2
  <2>4. CASE L[n] \in Reported(Firmware[p])
    <3>1. \A j \in 1..n - 1 : L[j] \notin Reported(Firmware[p])
      BY <1>1, <2>1
    <3>2. PairBefore(p, n + 1) = PairOf(p, n)
      BY <1>1, <2>4, <3>1, PairIs
    <3> QED
      BY <2>2, <2>4, <3>2
  <2> QED
    BY <2>3, <2>4
<1> QED
    BY <1>3, <1>4

(* Nobody else has this Router while it is probed; only a lost connection makes
   it discover the topology again. *)
Alone ==
    phase # "unused" =>
        /\ owner = "diagnostics"
        /\ phase = "called" => probes = <<>> /\ first_pair = None
        /\ trouble = 0 => /\ \A t \in Callers : pc[t] = "idle"
                          /\ phase \in Probing \union Closing => link

(* The queries for the routers of the clusters from place n on. *)
RoutersFrom(p, n) == [i \in 1..Len(Listed(p)) - n + 1 |-> RoutersQuery(Listed(p)[n + i - 1])]

(* The probes there are, the last of them, and those to come while the firmware
   is p. *)
DEVICES == "device discovery"
NoDevices == \A i \in DOMAIN probes : probes[i].command # DEVICES
DevicesLast ==
    /\ probes # <<>>
    /\ \A i \in 1..Len(probes) - 1 : probes[i].command # DEVICES
    /\ probes[Len(probes)].command = DEVICES
    /\ probes[Len(probes)].address = LastProbes(first_pair)[2].address
ProbedSoFar(p) ==
    /\ phase \in Probing => NoDevices
    /\ phase = "probes" => first_pair = None /\ \A i \in DOMAIN toProbe : toProbe[i].id # DEVICES
    /\ phase = "routers" => \E n \in DOMAIN Listed(p) :
            toProbe = RoutersFrom(p, n) /\ first_pair = PairBefore(p, n)
    /\ phase = "last" => toProbe \in {LastProbes(first_pair), Tail(LastProbes(first_pair))}
    /\ phase \in {"last", "closing", "returned"} => first_pair = PairBefore(p, Len(Listed(p)) + 1)
    /\ phase \in {"closing", "returned"} => DevicesLast

ProbedInv == Alone /\ \A p \in Profiles : Settled(p) /\ phase # "unused" => ProbedSoFar(p)

(* The places of the routers' queries. *)
LEMMA RoutersFromIs ==
    ASSUME NEW p \in Profiles, NEW n \in DOMAIN Listed(p)
    PROVE  /\ \E S : RoutersFrom(p, n) \in Seq(S)
           /\ RoutersFrom(p, n) # <<>> /\ Head(RoutersFrom(p, n)) = RoutersQuery(Listed(p)[n])
           /\ n < Len(Listed(p)) =>
                n + 1 \in DOMAIN Listed(p) /\ Tail(RoutersFrom(p, n)) = RoutersFrom(p, n + 1)
           /\ n = Len(Listed(p)) \/ n < Len(Listed(p))
           /\ n = Len(Listed(p)) => Tail(RoutersFrom(p, n)) = <<>>
<1> DEFINE L == Listed(p)
           qs == RoutersFrom(p, n)
           S == {RoutersQuery(L[i]) : i \in DOMAIN L}
<1>1. DOMAIN L = 1..Len(L) /\ Len(L) \in Nat
    BY ListedIsSeq
<1>2. qs = [i \in 1..Len(L) - n + 1 |-> RoutersQuery(L[n + i - 1])]
    BY DEF RoutersFrom
<1>3. \A i \in 1..Len(L) - n + 1 : n + i - 1 \in DOMAIN L
    BY <1>1
<1>4. Len(L) - n + 1 \in Nat \ {0}
    BY <1>1
<1> HIDE DEF qs
<1>5. qs \in [1..Len(L) - n + 1 -> S]
    BY <1>2, <1>3
<1> HIDE DEF S, L
<1>6. qs \in Seq(S) /\ Len(qs) = Len(L) - n + 1
    BY <1>4, <1>5, SeqDef
<1>7. qs # <<>>
    BY <1>4, <1>6, EmptySeq
<1>8. Head(qs) = RoutersQuery(L[n])
  <2>1. qs[1] = RoutersQuery(L[n + 1 - 1])
    BY <1>2, <1>4
  <2>2. Head(qs) = qs[1] /\ n + 1 - 1 = n
    BY <1>1, <1>6, <1>7
  <2> QED
    BY <2>1, <2>2
<1>9. /\ Tail(qs) \in Seq(S) /\ Len(Tail(qs)) = Len(L) - n
      /\ \A i \in 1..Len(L) - n : Tail(qs)[i] = qs[i + 1]
  <2>1. /\ Tail(qs) \in Seq(S) /\ Len(Tail(qs)) = Len(qs) - 1
        /\ \A i \in 1..Len(Tail(qs)) : Tail(qs)[i] = qs[i + 1]
    BY <1>6, <1>7, HeadTailProperties
  <2>2. Len(qs) - 1 = Len(L) - n
    BY <1>1, <1>6
  <2> QED
    BY <2>1, <2>2
<1>10. ASSUME n < Len(L)
       PROVE  n + 1 \in DOMAIN L /\ Tail(qs) = RoutersFrom(p, n + 1)
  <2>1. n + 1 \in DOMAIN L /\ Len(L) - (n + 1) + 1 = Len(L) - n
    BY <1>1, <1>10
  <2>2. RoutersFrom(p, n + 1) = [i \in 1..Len(L) - n |-> RoutersQuery(L[(n + 1) + i - 1])]
    BY <2>1 DEF RoutersFrom, L
  <2>3. \A i \in 1..Len(L) - n : Tail(qs)[i] = RoutersQuery(L[(n + 1) + i - 1])
    <3>1. \A i \in 1..Len(L) - n : i + 1 \in 1..Len(L) - n + 1 /\ n + (i + 1) - 1 = (n + 1) + i - 1
      BY <1>1
    <3>2. \A i \in 1..Len(L) - n : qs[i + 1] = RoutersQuery(L[n + (i + 1) - 1])
      BY <1>2, <3>1
    <3> QED
      BY <1>9, <3>1, <3>2
  <2>4. DOMAIN Tail(qs) = 1..Len(L) - n /\ Tail(qs) = [i \in DOMAIN Tail(qs) |-> Tail(qs)[i]]
    BY <1>9, LenProperties
  <2>5. Tail(qs) = [i \in 1..Len(L) - n |-> RoutersQuery(L[(n + 1) + i - 1])]
    BY <2>3, <2>4, Zenon
  <2> QED
    BY <2>1, <2>2, <2>5
<1>11. ASSUME n = Len(L)
       PROVE  Tail(qs) = <<>>
  <2>1. Len(Tail(qs)) = 0
    BY <1>1, <1>9, <1>11
  <2> QED
    BY <1>9, <2>1, EmptySeq
<1>12. n = Len(L) \/ n < Len(L)
    BY <1>1 DEF L
<1> QED
    BY <1>6, <1>7, <1>8, <1>10, <1>11, <1>12 DEF qs, L

(* The last queries, in a step that leaves the ids alone. *)
LEMMA LastProbesAre ==
    /\ ids' = ids => LastProbes(first_pair)' = LastProbes(first_pair')
    /\ \A pair : /\ LastProbes(pair) # <<>>
                 /\ Head(LastProbes(pair)).id = "groups" /\ LastProbes(pair)[1].address = <<>>
                 /\ Tail(LastProbes(pair)) = <<LastProbes(pair)[2]>>
                 /\ LastProbes(pair)[2].id = DEVICES
<1>1. ids' = ids => LastProbes(first_pair)' = LastProbes(first_pair')
    BY DEF LastProbes, discovery_address
<1>2. \A pair : \E x : LastProbes(pair) = <<Query("groups", <<>>), Query(DEVICES, x)>>
    BY DEF LastProbes, DEVICES
<1>3. ASSUME NEW pair
      PROVE  /\ LastProbes(pair) # <<>>
             /\ Head(LastProbes(pair)).id = "groups" /\ LastProbes(pair)[1].address = <<>>
             /\ Tail(LastProbes(pair)) = <<LastProbes(pair)[2]>>
             /\ LastProbes(pair)[2].id = DEVICES
  <2>1. PICK x : LastProbes(pair) = <<Query("groups", <<>>), Query(DEVICES, x)>>
    BY <1>2
  <2>2. \A a, b : /\ <<a, b>> # <<>> /\ Head(<<a, b>>) = a /\ <<a, b>>[1] = a
                  /\ <<a, b>>[2] = b /\ Tail(<<a, b>>) = <<b>>
    OBVIOUS
  <2> QED
    BY <2>1, <2>2 DEF Query
<1> QED
    BY <1>1, <1>3

(* The report after one more probe. *)
LEMMA OneMoreProbe ==
    ASSUME NEW S, probes \in Seq(S), NEW probe, NoDevices
    PROVE  /\ probes' = Append(probes, probe) /\ probe.command # DEVICES => NoDevices'
           /\ probes' = Append(probes, probe) /\ probe.command = DEVICES =>
                /\ probes' # <<>> /\ probes'[Len(probes')] = probe
                /\ \A i \in 1..Len(probes') - 1 : probes'[i].command # DEVICES
           /\ \A x : probes' = Append(probes, probe) \o <<x>>
                        /\ probe.command # DEVICES /\ x.command # DEVICES => NoDevices'
<1> DEFINE U == S \union {probe}
           more == Append(probes, probe)
<1>1. probes \in Seq(U) /\ probe \in U
    OBVIOUS
<1> HIDE DEF U
<1>2. /\ more \in Seq(U) /\ Len(more) = Len(probes) + 1
      /\ \A i \in 1..Len(probes) : more[i] = probes[i]
      /\ more[Len(probes) + 1] = probe
      /\ Len(probes) \in Nat /\ DOMAIN probes = 1..Len(probes) /\ DOMAIN more = 1..Len(more)
    BY <1>1, AppendProperties, LenProperties
<1> HIDE DEF more
<1>3. \A i \in DOMAIN more : more[i] = probe \/ (i \in DOMAIN probes /\ more[i] = probes[i])
  <2>1. \A i \in DOMAIN more : i \in 1..Len(probes) \/ i = Len(probes) + 1
    BY <1>2
  <2> QED
    BY <1>2, <2>1
<1>4. ASSUME probes' = more, probe.command # DEVICES
      PROVE  NoDevices'
    BY <1>3, <1>4 DEF NoDevices
<1>5. ASSUME probes' = more, probe.command = DEVICES
      PROVE  /\ probes' # <<>> /\ probes'[Len(probes')] = probe
             /\ \A i \in 1..Len(probes') - 1 : probes'[i].command # DEVICES
  <2>1. Len(more) \in Nat \ {0} /\ Len(more) - 1 = Len(probes)
    BY <1>2
  <2>2. more # <<>>
    BY <1>2, <2>1, EmptySeq
  <2>3. \A i \in 1..Len(more) - 1 : more[i].command # DEVICES
    BY <1>2, <2>1 DEF NoDevices
  <2> QED
    BY <1>2, <1>5, <2>2, <2>3
<1>6. ASSUME NEW x, probes' = more \o <<x>>, probe.command # DEVICES, x.command # DEVICES
      PROVE  NoDevices'
  <2> DEFINE V == U \union {x}
             one == <<x>>
  <2>1. more \in Seq(V) /\ one \in Seq(V) /\ Len(one) = 1 /\ one[1] = x
    BY <1>2
  <2> HIDE DEF V, one
  <2>2. /\ probes' \in Seq(V) /\ Len(probes') = Len(more) + 1
        /\ \A i \in 1..Len(more) + 1 :
                probes'[i] = IF i <= Len(more) THEN more[i] ELSE one[i - Len(more)]
    BY <1>6, <2>1, ConcatProperties DEF one
  <2>3. DOMAIN probes' = 1..Len(more) + 1
    BY <2>2, LenProperties
  <2>4. \A i \in DOMAIN probes' : probes'[i] = x \/ (i \in DOMAIN more /\ probes'[i] = more[i])
    <3>1. Len(more) \in Nat
      BY <1>2
    <3>2. \A i \in DOMAIN probes' : (i <= Len(more) /\ i \in 1..Len(more)) \/ i - Len(more) = 1
      BY <2>3, <3>1
    <3>3. \A i \in DOMAIN probes' : i <= Len(more) \/ ~(i <= Len(more))
      OBVIOUS
    <3>4. \A i \in DOMAIN probes' : i - Len(more) = 1 => ~(i <= Len(more))
      BY <2>3, <3>1
    <3> QED
      BY <1>2, <2>1, <2>2, <2>3, <3>2, <3>4
  <2> QED
    BY <1>3, <1>6, <2>4 DEF NoDevices
<1> QED
    BY <1>4, <1>5, <1>6 DEF more

(* What the end of a probe leads to, with the firmware that all have been of. *)
LEMMA ReportProbed ==
    ASSUME ProbesOK, ProbesGenuine, NEW p \in Profiles, Settled(p), ProbedSoFar(p),
           phase \in Probing, ids' = ids,
           NEW r, SaidBy(p, r), r.id = Head(toProbe).id, r.address = Head(toProbe).address,
           Report(ProbeOf(Head(toProbe), r))
    PROVE  ProbedSoFar(p)'
<1> DEFINE q == Head(toProbe)
           probe == ProbeOf(q, r)
           rest == Tail(toProbe)
           L == Listed(p)
           none == Probe(Query("routers", <<>>), "SKIPPED", <<>>, None)
<1>1. /\ probe.command = q.id /\ probe.address = q.address
      /\ r.type = "ERROR" => probe.status = "ERROR"
      /\ r.type # "ERROR" => probe.status = "OK" /\ probe.result = r.result
    BY DEF ProbeOf, Probe
<1>2. PICK S : /\ toProbe \in Seq(S) \ {<<>>}
               /\ phase = "probes" => toProbe[Len(toProbe)] = ClustersQuery
    BY DEF ProbesOK, Planned
<1>3. PICK P : probes \in Seq(P)
    BY DEF ProbesGenuine
<1>4. NoDevices
    BY DEF ProbedSoFar
<1>5. none.command # DEVICES
    BY DEF Probe, Query, DEVICES
<1>6. Report(probe)
    OBVIOUS
<1>7. \A stage, queries : Asks(stage, queries) =>
            (phase' = stage /\ toProbe' = queries) \/ phase' = "raising"
    BY DEF Asks
<1>8. phase' = "raising" => ProbedSoFar(p)'
    BY DEF ProbedSoFar, Probing
<1> HIDE DEF probe, none, q
<1>9. LastProbes(first_pair)' = LastProbes(first_pair')
    BY LastProbesAre
<1>10. ASSUME Asks("last", LastProbes(first_pair')), NoDevices', first_pair' = PairBefore(p, Len(L) + 1)
       PROVE  ProbedSoFar(p)'
  <2>1. CASE phase' = "last" /\ toProbe' = LastProbes(first_pair')
    BY <1>9, <1>10, <2>1 DEF ProbedSoFar
  <2> QED
    BY <1>7, <1>8, <1>10, <2>1
<1>11. CASE phase = "probes" /\ rest # <<>>
  <2>1. /\ Asks("probes", rest) /\ first_pair' = first_pair
        /\ probes' = Append(probes, probe) \o <<>>
    BY <1>6, <1>11 DEF Report
  <2>2. /\ first_pair = None /\ q.id # DEVICES
        /\ \A i \in DOMAIN rest : rest[i].id # DEVICES
    <3>1. /\ DOMAIN toProbe = 1..Len(toProbe) /\ Len(toProbe) \in Nat \ {0} /\ q = toProbe[1]
          /\ DOMAIN rest = 1..Len(toProbe) - 1 /\ \A i \in DOMAIN rest : rest[i] = toProbe[i + 1]
      BY <1>2, EmptySeq, LenProperties, HeadTailProperties DEF q
    <3>2. \A i \in DOMAIN toProbe : toProbe[i].id # DEVICES
      BY <1>11 DEF ProbedSoFar
    <3> QED
      BY <1>11, <3>1, <3>2 DEF ProbedSoFar
  <2>3. NoDevices'
    <3>1. probes' = Append(probes, probe)
      BY <1>3, <2>1
    <3> QED
      BY <1>1, <1>3, <1>4, <2>2, <3>1, OneMoreProbe
  <2>4. CASE phase' = "probes" /\ toProbe' = rest
    BY <2>1, <2>2, <2>3, <2>4 DEF ProbedSoFar
  <2> QED
    BY <1>7, <1>8, <2>1, <2>4
<1>12. CASE phase = "probes" /\ rest = <<>>
  <2>1. q = ClustersQuery
    <3>1. q = toProbe[1] /\ Len(toProbe) \in Nat \ {0} /\ Len(rest) = Len(toProbe) - 1
      BY <1>2, HeadTailProperties, EmptySeq DEF q
    <3>2. Len(rest) = 0
      <4>1. Len(<<>>) = 0
        OBVIOUS
      <4> QED
        BY <1>12, <4>1
    <3>3. Len(toProbe) = 1
      <4> HIDE DEF rest
      <4> QED
        BY <3>1, <3>2
    <3> QED
      BY <1>2, <1>12, <3>1, <3>3
  <2>2. /\ q.id = "clusters" /\ q.id # DEVICES
        /\ probe.status = "OK" /\ parse_id_list(probe.result) = L
    <3>1. q.id = "clusters" /\ q.id # DEVICES
      BY <2>1 DEF ClustersQuery, Query, DEVICES
    <3>2. r.type # "ERROR" /\ r.result = Firmware[p].clusters
      BY <3>1 DEF SaidBy, q
    <3> QED
      BY <1>1, <3>1, <3>2 DEF Listed
  <2>3. first_pair' = None
    BY <1>6, <1>12 DEF Report, ProbedSoFar
  <2>4. DOMAIN L = 1..Len(L) /\ Len(L) \in Nat /\ \E U : L \in Seq(U)
    BY ListedIsSeq
  <2>5. CASE L = <<>>
    <3>1. /\ Asks("last", LastProbes(first_pair'))
          /\ probes' = Append(probes, probe) \o <<none>>
      BY <1>6, <1>12, <2>2, <2>5 DEF Report, none
    <3>2. NoDevices'
      BY <1>1, <1>3, <1>4, <1>5, <2>2, <3>1, OneMoreProbe
    <3>3. PairBefore(p, Len(L) + 1) = None
      <4>1. DOMAIN L = {} /\ Len(L) + 1 \in Nat
        BY <2>4, <2>5
      <4> QED
        BY <4>1, PairIsNone
    <3> QED
      BY <1>10, <2>3, <3>1, <3>2, <3>3
  <2>6. CASE L # <<>>
    <3> DEFINE qs == [i \in DOMAIN L |-> RoutersQuery(L[i])]
    <3>1. /\ Asks("routers", qs)
          /\ probes' = Append(probes, probe) \o <<>>
      BY <1>6, <1>12, <2>2, <2>6 DEF Report
    <3>2. NoDevices'
      <4>1. probes' = Append(probes, probe)
        BY <1>3, <3>1
      <4> QED
        BY <1>1, <1>3, <1>4, <2>2, <4>1, OneMoreProbe
    <3>3. 1 \in DOMAIN L
      BY <2>4, <2>6, EmptySeq
    <3>4. qs = RoutersFrom(p, 1)
      <4>1. 1..Len(L) - 1 + 1 = DOMAIN L /\ \A i \in DOMAIN L : 1 + i - 1 = i
        BY <2>4
      <4> HIDE DEF L
      <4> QED
        BY <4>1 DEF RoutersFrom, L
    <3>5. PairBefore(p, 1) = None
      <4>1. \A i \in DOMAIN L : ~(i < 1)
        BY <2>4
      <4> QED
        BY <4>1, PairIsNone
    <3> HIDE DEF qs, L
    <3>6. CASE phase' = "routers" /\ toProbe' = qs
      BY <2>3, <3>2, <3>3, <3>4, <3>5, <3>6 DEF ProbedSoFar, L
    <3> QED
      BY <1>7, <1>8, <3>1, <3>6
  <2> QED
    BY <2>5, <2>6
<1>13. CASE phase = "routers"
  <2>1. PICK n \in DOMAIN L : toProbe = RoutersFrom(p, n) /\ first_pair = PairBefore(p, n)
    BY <1>13 DEF ProbedSoFar
  <2>2. q = RoutersQuery(L[n]) /\ n \in Nat
    BY <2>1, RoutersFromIs, ListedIsSeq DEF q
  <2>3. /\ q.id = "routers" /\ q.address = <<L[n]>> /\ q.id # DEVICES
    BY <2>2 DEF RoutersQuery, Query, DEVICES
  <2>4. first_pair' = PairBefore(p, n + 1)
    <3> DEFINE f == Firmware[p]
    <3>1. /\ r.type = "ERROR" <=> L[n] \notin DOMAIN f.routers
          /\ r.type # "ERROR" => r.result = f.routers[L[n]]
      BY <2>3 DEF SaidBy, q
    <3>2. L[n] \in Reported(f) <=> probe.status = "OK" /\ parse_id_list(probe.result) # <<>>
      BY <1>1, <3>1 DEF Reported, Listed, Range
    <3>3. probe.status = "OK" => parse_id_list(probe.result) = parse_id_list(f.routers[L[n]])
      BY <1>1, <3>1
    <3>4. first_pair' = FirstPairAfter(probe)
      BY <1>6, <1>13 DEF Report
    <3>5. probe.address[1] = L[n]
      BY <1>1, <2>3
    <3> HIDE DEF f, L
    <3>6. first_pair' = IF PairBefore(p, n) # None \/ L[n] \notin Reported(f)
                          THEN PairBefore(p, n) ELSE PairOf(p, n)
      BY <2>1, <3>2, <3>3, <3>4, <3>5 DEF FirstPairAfter, PairOf, f, L
    <3> QED
      BY <2>1, <3>6, PairAfter DEF f, L
  <2>5. probes' = Append(probes, probe)
    <3>1. probes' = Append(probes, probe) \o <<>>
      BY <1>6, <1>13 DEF Report
    <3> QED
      BY <1>3, <3>1
  <2>6. NoDevices'
    BY <1>1, <1>3, <1>4, <2>3, <2>5, OneMoreProbe
  <2>7. CASE n < Len(L)
    <3>1. n + 1 \in DOMAIN L /\ rest = RoutersFrom(p, n + 1)
      BY <2>1, <2>7, RoutersFromIs
    <3>2. rest # <<>>
      BY <3>1, RoutersFromIs
    <3>3. Asks("routers", rest)
      BY <1>6, <1>13, <3>2 DEF Report
    <3>4. CASE phase' = "routers" /\ toProbe' = rest
      BY <2>4, <2>6, <3>1, <3>4 DEF ProbedSoFar
    <3> QED
      BY <1>7, <1>8, <3>3, <3>4
  <2>8. CASE n = Len(L)
    <3>1. rest = <<>>
      BY <2>1, <2>8, RoutersFromIs
    <3>2. Asks("last", LastProbes(first_pair'))
      BY <1>6, <1>13, <3>1 DEF Report
    <3> QED
      BY <1>10, <2>4, <2>6, <2>8, <3>2
  <2> QED
    BY <2>7, <2>8, RoutersFromIs
<1>14. CASE phase = "last"
  <2>1. first_pair' = first_pair /\ first_pair = PairBefore(p, Len(L) + 1)
    BY <1>6, <1>14 DEF Report, ProbedSoFar
  <2>2. probes' = Append(probes, probe)
    <3>1. probes' = Append(probes, probe) \o <<>>
      BY <1>6, <1>14 DEF Report
    <3> QED
      BY <1>3, <3>1
  <2>3. CASE toProbe = LastProbes(first_pair)
    <3>1. q.id = "groups" /\ rest = <<LastProbes(first_pair)[2]>>
      BY <2>3, LastProbesAre DEF q
    <3>2. rest # <<>>
      BY <3>1
    <3>3. Asks("last", rest)
      BY <1>6, <1>14, <3>2 DEF Report
    <3>4. NoDevices'
      BY <1>1, <1>3, <1>4, <2>2, <3>1, OneMoreProbe DEF DEVICES
    <3>5. CASE phase' = "last" /\ toProbe' = rest
      BY <1>9, <2>1, <2>3, <3>4, <3>5 DEF ProbedSoFar
    <3> QED
      BY <1>7, <1>8, <3>3, <3>5
  <2>4. CASE toProbe = Tail(LastProbes(first_pair))
    <3>1. toProbe = <<LastProbes(first_pair)[2]>>
      BY <2>4, LastProbesAre
    <3>2. q = LastProbes(first_pair)[2] /\ rest = <<>> /\ q.id = DEVICES
      BY <3>1, LastProbesAre DEF q
    <3>3. phase' = "closing"
      BY <1>6, <1>14, <3>2 DEF Report
    <3>4. /\ probes' # <<>> /\ probes'[Len(probes')] = probe
          /\ \A i \in 1..Len(probes') - 1 : probes'[i].command # DEVICES
      BY <1>1, <1>3, <1>4, <2>2, <3>2, OneMoreProbe
    <3>5. LastProbes(first_pair)'[2].address = probe.address
      BY <1>1, <1>9, <2>1, <3>2
    <3>6. DevicesLast'
      BY <1>1, <3>2, <3>4, <3>5 DEF DevicesLast
    <3> QED
      BY <2>1, <3>3, <3>6 DEF ProbedSoFar, Probing
  <2> QED
    BY <1>14, <2>3, <2>4 DEF ProbedSoFar
<1> QED
    BY <1>11, <1>12, <1>13, <1>14 DEF Probing

(* A step that leaves the probes and the ids alone. *)
LEMMA ProbedAside ==
    ASSUME NEW p, ProbedSoFar(p), UNCHANGED <<phase, toProbe, probes, first_pair, ids>>
    PROVE  ProbedSoFar(p)'
<1>1. LastProbes(first_pair)' = LastProbes(first_pair)
    BY LastProbesAre
<1> QED
    BY <1>1 DEF ProbedSoFar, NoDevices, DevicesLast

(* A step of run_diagnostics. *)
LEMMA DiagnosticsProbed ==
    ASSUME IInv, ProbesGenuine, SettledInv, ProbedInv, DiagnosticsStep
    PROVE  ProbedInv'
<1>1. /\ ProfilesOK /\ RepliesOK /\ ProbesOK /\ DOMAIN pc = Callers
      /\ UNCHANGED <<inForce, ids, owner>>
    BY DEF IInv, TopologyInv, CallersOK, DiagnosticsStep, OpenFails, Opens, ProbeAnswered,
        ProbeUnanswered, Disconnects, Untouched, Fixed, Outcome, vars, routerVars, topologyVars
<1>2. CASE OpenFails
  <2>1. phase = "called" /\ phase' = "unreachable" /\ UNCHANGED <<owner, pc, trouble>>
    BY <1>2 DEF OpenFails, vars, topologyVars
  <2> QED
    BY <2>1 DEF ProbedInv, Alone, ProbedSoFar, Probing, Closing
<1>3. CASE Opens
  <2>1. /\ phase = "called" /\ link' = TRUE /\ UNCHANGED <<pc, trouble, probes, first_pair>>
        /\ phase' = "probes" /\ toProbe' = PROBE_PLAN
    BY <1>3 DEF Opens, Asks, PROBE_PLAN, WorkgroupQuery, Query
  <2>2. probes' = <<>> /\ first_pair' = None
    BY <2>1 DEF ProbedInv, Alone
  <2>3. Alone'
    BY <1>1, <2>1 DEF ProbedInv, Alone
  <2>4. \A i \in DOMAIN PROBE_PLAN : PROBE_PLAN[i].id # DEVICES
    <3>1. \A a, b, c, d, i : i \in DOMAIN <<a, b, c, d>> => <<a, b, c, d>>[i] \in {a, b, c, d}
      OBVIOUS
    <3>2. \A i \in DOMAIN PROBE_PLAN : PROBE_PLAN[i] \in
            {WorkgroupQuery, Query("router version", <<>>), Query("helvarnet version", <<>>), ClustersQuery}
      BY <3>1 DEF PROBE_PLAN
    <3>3. \A x \in {WorkgroupQuery, Query("router version", <<>>), Query("helvarnet version", <<>>),
                    ClustersQuery} : x.id # DEVICES
      <4>1. \A id, address : Query(id, address).id = id
        BY DEF Query
      <4>2. /\ WorkgroupQuery.id = "workgroup" /\ ClustersQuery.id = "clusters"
            /\ DEVICES \notin {"workgroup", "clusters", "router version", "helvarnet version"}
        BY <4>1 DEF WorkgroupQuery, ClustersQuery, DEVICES
      <4> QED
        BY <4>1, <4>2
    <3> QED
      BY <3>2, <3>3
  <2>5. \A p \in Profiles : ProbedSoFar(p)'
    BY <2>1, <2>2, <2>4 DEF ProbedSoFar, NoDevices, Probing
  <2> QED
    BY <2>3, <2>5 DEF ProbedInv
<1>4. CASE ProbeAnswered
  <2> DEFINE q == Head(toProbe)
             r == ReplyTo(q)
  <2>1. /\ phase \in Probing /\ Arrived(q) /\ Takes(q) /\ Report(ProbeOf(q, r))
        /\ UNCHANGED <<link, pc, trouble>>
    BY <1>4 DEF ProbeAnswered
  <2>2. phase' \in Probing \union {"raising", "closing"}
    BY <2>1 DEF Report, Asks, Probing
  <2>3. Alone'
    BY <1>1, <2>1, <2>2 DEF ProbedInv, Alone, Probing, Closing
  <2>4. ASSUME NEW p \in Profiles, Settled(p)'
        PROVE  ProbedSoFar(p)'
    <3>1. Settled(p)
      BY <1>1, <2>1, <2>4, SettledBefore
    <3>2. RepliesSaidBy(p) /\ ProbedSoFar(p)
      BY <2>1, <3>1 DEF SettledInv, ProbedInv, Probing
    <3>3. SaidBy(p, r) /\ r.id = q.id /\ r.address = q.address
      BY <1>1, <2>1, <3>2, TakenSaidBy
    <3> HIDE DEF r
    <3> QED
      BY <1>1, <2>1, <3>1, <3>2, <3>3, ReportProbed DEF r
  <2> QED
    BY <2>3, <2>4 DEF ProbedInv
<1>5. CASE ProbeUnanswered
  <2>1. /\ phase \in Probing /\ TimesOut(Head(toProbe)) /\ Report(NoReply(Head(toProbe)))
    BY <1>5 DEF ProbeUnanswered
  <2>2. trouble' # 0
    BY <2>1, TimesOutIsTrouble DEF SettledInv
  <2>3. phase' \in Probing \union {"raising", "closing"}
    BY <2>1 DEF Report, Asks, Probing
  <2> QED
    BY <1>1, <2>1, <2>2, <2>3 DEF ProbedInv, Alone, Probing, Settled
<1>6. CASE Disconnects
  <2>1. /\ phase \in Closing
        /\ phase' = IF phase = "closing" THEN "returned" ELSE "raised"
        /\ CancelReconnect /\ UNCHANGED <<trouble, toProbe, probes, first_pair>>
    BY <1>6 DEF Disconnects
  <2>2. Alone'
    <3>1. \A t \in Callers : pc[t] = "idle" => pc'[t] = "idle"
      BY <1>1, <2>1 DEF CancelReconnect, Waiting
    <3> QED
      BY <1>1, <2>1, <3>1 DEF ProbedInv, Alone, Probing, Closing
  <2>3. ASSUME NEW p \in Profiles, Settled(p)'
        PROVE  ProbedSoFar(p)'
    <3>1. Settled(p)
      BY <1>1, <2>1, <2>3, SettledBefore
    <3>2. ProbedSoFar(p)
      BY <2>1, <3>1 DEF ProbedInv, Closing
    <3>3. LastProbes(first_pair)' = LastProbes(first_pair)
      BY <1>1, <2>1, LastProbesAre
    <3>4. phase = "closing" => DevicesLast /\ DevicesLast'
      BY <2>1, <3>2, <3>3 DEF ProbedSoFar, DevicesLast
    <3> QED
      BY <2>1, <3>2, <3>4 DEF ProbedSoFar, Probing
  <2> QED
    BY <2>2, <2>3 DEF ProbedInv
<1> QED
    BY <1>2, <1>3, <1>4, <1>5, <1>6 DEF DiagnosticsStep

(* Without trouble nobody discovers the topology while it is probed. *)
LEMMA NextProbed ==
    ASSUME IInv, SettledInv, ProbedInv, Next, UNCHANGED diagVars,
           phase \in {"unused"} \union Probing \union Closing, inForce \subseteq inForce'
    PROVE  ProbedInv'
<1>1. UNCHANGED <<phase, toProbe, probes, first_pair, owner>>
    BY DEF diagVars, Next, RouterStep, topologyVars, Connect, Initialize, Disconnect, Fixed,
        Discovering, Answered, GotWorkgroup, GotClusters, GotRouters, Unanswered
<1>2. CASE phase = "unused"
    BY <1>1, <1>2 DEF ProbedInv, Alone
<1>3. CASE phase # "unused" /\ trouble' = 0
  <2>1. owner = "diagnostics"
    BY <1>3 DEF ProbedInv, Alone
  <2>2. trouble = 0
    <3>1. trouble' = trouble \/ trouble' # 0
      <4>1. ASSUME NEW t \in Callers, Unanswered(t)
            PROVE  trouble' # 0
        BY <4>1, TimesOutIsTrouble DEF Unanswered, SettledInv
      <4> QED
        BY <4>1 DEF Next, RouterStep, topologyVars, Connect, Initialize, Disconnect, Trouble,
            Discovering, Answered, GotWorkgroup, GotClusters, GotRouters, SettledInv
    <3> QED
      BY <1>3, <3>1
  <2>3. (\A t \in Callers : pc[t] = "idle") /\ link
    BY <1>3, <2>2 DEF ProbedInv, Alone
  <2>4. ~Connect /\ ~Initialize /\ ~Disconnect /\ ~(Lose /\ Trouble)
    BY <1>3, <2>1, <2>3 DEF Connect, Initialize, Disconnect, Trouble, SettledInv
  <2>5. ~Discovering
    BY <2>3 DEF Discovering, Answered, GotWorkgroup, GotClusters, GotRouters, Unanswered, Waiting
  <2>6. (SetProfile \/ Handle) /\ UNCHANGED topologyVars
    BY <2>4, <2>5 DEF Next, RouterStep
  <2>7. UNCHANGED <<link, pc, ids, trouble>>
    BY <2>6 DEF SetProfile, Handle, topologyVars
  <2>8. ASSUME NEW p \in Profiles, Settled(p)'
        PROVE  ProbedSoFar(p)'
    <3>1. Settled(p)
      BY <2>7, <2>8, SettledBefore DEF IInv, TopologyInv
    <3> QED
      BY <1>1, <1>3, <2>7, <3>1, ProbedAside DEF ProbedInv
  <2>9. Alone'
    BY <1>1, <2>7 DEF ProbedInv, Alone
  <2> QED
    BY <2>8, <2>9 DEF ProbedInv
<1>4. CASE phase # "unused" /\ trouble' # 0
    BY <1>1, <1>4 DEF ProbedInv, Alone, Settled
<1> QED
    BY <1>2, <1>3, <1>4

(* All through a run. *)
LEMMA AlwaysProbed == DSpec => []ProbedInv
<1>1. DInit => ProbedInv
  <2> SUFFICES ASSUME DInit PROVE ProbedInv
    OBVIOUS
  <2>1. /\ phase = IF owner = "diagnostics" THEN "called" ELSE "unused"
        /\ probes = <<>> /\ first_pair = None /\ pc = [t \in Callers |-> "idle"]
    BY DEF DInit, Init
  <2> QED
    BY <2>1 DEF ProbedInv, Alone, ProbedSoFar, Probing, Closing
<1>2. IInv /\ ProbesGenuine /\ SettledInv /\ ProbedInv /\ IInv' /\ [DNext]_allVars => ProbedInv'
  <2> SUFFICES ASSUME IInv, ProbesGenuine, SettledInv, ProbedInv, [DNext]_allVars
               PROVE  ProbedInv'
    OBVIOUS
  <2>1. CASE DiagnosticsStep
    BY <2>1, DiagnosticsProbed
  <2>2. CASE Next /\ phase \in {"unused"} \union Probing \union Closing /\ UNCHANGED diagVars
    BY <2>2, NextKeeps, NextProbed DEF IInv
  <2>3. CASE UNCHANGED allVars
    <3>1. UNCHANGED <<inForce, trouble, owner, pc, link, ids, phase, toProbe, probes, first_pair>>
      BY <2>3 DEF allVars, vars, routerVars, topologyVars, diagVars
    <3>2. Alone' /\ \A p : Settled(p)' => Settled(p)
      BY <3>1 DEF ProbedInv, Alone, Settled
    <3> QED
      BY <3>1, <3>2, ProbedAside DEF ProbedInv
  <2> QED
    BY <2>1, <2>2, <2>3 DEF DNext
<1> QED
    BY <1>1, <1>2, Invariance, AlwaysGenuine, AlwaysSettled, PTL DEF DSpec

(* The address whose devices are probed is the one discover_router_ids would
   have given a Router of the same firmware, though run_diagnostics finds it in a
   loop of its own. *)
THEOREM ProbedAddressAgrees == DSpec => []AddressAgrees
<1>1. ProbesGenuine /\ ProbedInv => AddressAgrees
  <2> SUFFICES ASSUME ProbesGenuine, ProbedInv, NEW p \in Profiles, phase = "returned", Settled(p)
               PROVE  LET cs == parse_id_list(Firmware[p].clusters)
                          rs == [c \in Reported(Firmware[p]) |-> parse_id_list(Firmware[p].routers[c])] IN
                      get(DEVICES).address =
                        discovery_address(IF DOMAIN rs = {} THEN ids ELSE FirstPair(cs, rs))
    BY DEF AddressAgrees, Settled, DEVICES
  <2> DEFINE L == Listed(p)
             rs == [c \in Reported(Firmware[p]) |-> parse_id_list(Firmware[p].routers[c])]
             pair == PairBefore(p, Len(L) + 1)
  <2>1. DevicesLast /\ first_pair = pair
    BY DEF ProbedInv, ProbedSoFar
  <2>2. PICK S : probes \in Seq(S)
    BY DEF ProbesGenuine
  <2>3. get(DEVICES) = probes[Len(probes)]
    <3> DEFINE IsFirst(i) == /\ probes[i].command = DEVICES
                             /\ \A j \in 1..i - 1 : probes[j].command # DEVICES
    <3>1. DOMAIN probes = 1..Len(probes) /\ Len(probes) \in Nat \ {0}
      BY <2>1, <2>2, EmptySeq, LenProperties DEF DevicesLast
    <3>2. IsFirst(Len(probes)) /\ Len(probes) \in DOMAIN probes
      BY <2>1, <3>1 DEF DevicesLast
    <3>3. ASSUME NEW i \in DOMAIN probes, IsFirst(i)
          PROVE  i = Len(probes)
      <4>1. i \in 1..Len(probes) - 1 \/ i = Len(probes)
        BY <3>1
      <4> QED
        BY <2>1, <3>3, <4>1 DEF DevicesLast
    <3>4. (CHOOSE i \in DOMAIN probes : IsFirst(i)) = Len(probes)
      BY <3>2, <3>3
    <3> QED
      BY <3>4 DEF get
  <2>4. get(DEVICES).address = discovery_address(IF pair = None THEN ids ELSE pair)
    <3>1. \A a, b : <<a, b>>[2] = b
      OBVIOUS
    <3> QED
      BY <2>1, <2>3, <3>1 DEF DevicesLast, LastProbes, Query
  <2>5. ReportedBefore(p, Len(L) + 1) = rs
    <3>1. \A i \in DOMAIN L : i < Len(L) + 1
      BY ListedIsSeq
    <3>2. {x \in Reported(Firmware[p]) : \E i \in DOMAIN L : i < Len(L) + 1 /\ L[i] = x}
            = Reported(Firmware[p])
      BY <3>1 DEF Reported, Listed, Range
    <3> QED
      BY <3>2 DEF ReportedBefore
  <2>6. CASE DOMAIN rs = {}
    <3>1. pair = None
      BY <2>5, <2>6 DEF PairBefore
    <3> QED
      BY <2>4, <2>6, <3>1
  <2>7. CASE DOMAIN rs # {}
    <3>1. pair = FirstPair(L, rs)
      BY <2>5, <2>7 DEF PairBefore
    <3>2. pair # None
      <4> DEFINE T == {i \in DOMAIN L : L[i] \in Reported(Firmware[p])}
      <4>1. DOMAIN L = 1..Len(L) /\ Len(L) \in Nat
        BY ListedIsSeq
      <4>2. T \subseteq Nat /\ T # {}
        BY <2>7, <4>1 DEF Reported, Listed, Range
      <4>3. PICK i \in T : \A j \in T : i <= j
        BY <4>2, LeastOf
      <4>4. i < Len(L) + 1 /\ \A j \in 1..i - 1 : L[j] \notin Reported(Firmware[p])
        BY <4>1, <4>3
      <4> QED
        BY <4>1, <4>3, <4>4, PairIs
    <3> QED
      BY <2>4, <2>7, <3>1, <3>2 DEF Listed
  <2> QED
    BY <2>6, <2>7
<1> QED
    BY <1>1, AlwaysGenuine, AlwaysProbed, PTL
=============================================================================
