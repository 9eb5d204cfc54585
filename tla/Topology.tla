------------------------------- MODULE Topology -------------------------------
(***************************************************************************)
(* Router.discover_router_ids: which clusters and routers there are, and    *)
(* which pair of ids this Router has.  connect() runs it, also in a         *)
(* reconnect, and initialize() does when it finds it has not been           *)
(* attempted, which may be while connect() awaits the workgroup name: both  *)
(* then run it at once, and each may take the other's replies.              *)
(*                                                                         *)
(* The Router is the application's, or one run_diagnostics made for itself  *)
(* (module Diagnostics): that one calls open(), and connect() is only       *)
(* called by a reconnect.                                                   *)
(***************************************************************************)
EXTENDS MockRouter

CONSTANTS
    Hosts,     \* hosts: the octets of an IPv4 address, <<>> for any other
    Defaults,  \* the cluster_id and router_id a Router is made with
    MaxStarts, \* bound: calls of connect() and initialize()
    MaxTrouble \* bound: lost connections and timeouts of queries the router answers

ASSUME TopologyAssumption ==
    /\ Hosts \subseteq {<<>>} \union [1..4 -> 0..255]
    /\ Defaults \subseteq Nat \X Nat
    /\ MaxStarts \in Nat /\ MaxTrouble \in Nat \ {0}

VARIABLES
    owner,            \* whose Router it is
    use_specified_ids,
    ids,              \* cluster_id and router_id
    clusters, cluster_routers, ids_discovered,
    attempted,        \* _discovery_attempted
    pc,               \* where each caller of discover_router_ids is
    found,            \* its local variables: clusters, the next one, cluster_routers
    starts,
    trouble           \* history: lost connections and timeouts of queries under way;
                      \* 1 at least once a query was ignored

topologyVars == <<owner, use_specified_ids, ids, clusters, cluster_routers,
                  ids_discovered, attempted, pc, found, starts,
                  trouble>>
vars == <<routerVars, topologyVars>>

Callers == {"connect", "initialize"}
Waiting == {"workgroup", "clusters", "routers"}
Ended == {"done", "failed"}

(* The values HelvarAddress takes for a cluster. *)
ClusterIds == 0..253

WorkgroupQuery == Query("workgroup", <<>>)
ClustersQuery == Query("clusters", <<>>)
RoutersQuery(c) == Query("routers", <<c>>)

(* What caller t waits for. *)
Asked(t) == CASE pc[t] = "workgroup" -> WorkgroupQuery
              [] pc[t] = "clusters" -> ClustersQuery
              [] pc[t] = "routers" -> RoutersQuery(found[t].clusters[found[t].at])

Nothing == [clusters |-> <<>>, at |-> 1, routers |-> <<>>]

(* The first cluster that has routers, with the first of them. *)
FirstPair(cs, rs) ==
    LET i == CHOOSE i \in DOMAIN cs :
                cs[i] \in DOMAIN rs /\ \A j \in 1..i - 1 : cs[j] \notin DOMAIN rs
    IN <<cs[i], Head(rs[cs[i]])>>

(* _ids_from_host: third and fourth octet of an IPv4 address *)
ids_from_host(host, default) == IF host = <<>> THEN default ELSE <<host[3], host[4]>>

Init ==
    /\ RouterInit
    /\ owner \in {"application", "diagnostics"}
    /\ use_specified_ids \in IF owner = "application" THEN BOOLEAN ELSE {FALSE}
    /\ \E h \in Hosts, d \in Defaults :
        ids = IF use_specified_ids THEN d ELSE ids_from_host(h, d)
    /\ clusters = <<>> /\ cluster_routers = <<>> /\ ids_discovered = FALSE
    /\ attempted = FALSE
    /\ pc = [t \in Callers |-> "idle"] /\ found = [t \in Callers |-> Nothing]
    /\ starts = 0 /\ trouble = 0

-----------------------------------------------------------------------------
Trouble == trouble < MaxTrouble /\ trouble' = trouble + 1

(* Query q times out, though its reply is under way, or because none is. *)
TimesOut(q) ==
    IF Arrived(q) \/ (link /\ Contains(wire, q)) THEN Trouble
    ELSE trouble' = IF trouble = 0 THEN 1 ELSE trouble

Goes(t, to) == pc' = [pc EXCEPT ![t] = to]

(* Mutant: ids that were discovered once are kept. *)
ConcludeKeepingIds(t, cs, rs) ==
    /\ clusters' = cs /\ cluster_routers' = rs
    /\ IF DOMAIN rs = {} \/ ids_discovered THEN UNCHANGED <<ids, ids_discovered>>
       ELSE ids' = FirstPair(cs, rs) /\ ids_discovered' = TRUE
    /\ Goes(t, "done") /\ UNCHANGED <<wire, found>>

(* The topology is kept, and its first pair becomes this Router's ids. *)
Conclude(t, cs, rs) ==
    /\ clusters' = cs /\ cluster_routers' = rs
    /\ IF DOMAIN rs = {} THEN UNCHANGED <<ids, ids_discovered>>
       ELSE ids' = FirstPair(cs, rs) /\ ids_discovered' = TRUE
    /\ Goes(t, "done") /\ UNCHANGED <<wire, found>>

(* The loop over the clusters: the next is asked for its routers, an id that
   is no cluster's raises TypeError in HelvarAddress, or the loop is over. *)
Loop(t, cs, rs, at) ==
    \/ /\ at \in DOMAIN cs /\ cs[at] \in ClusterIds
       /\ found' = [found EXCEPT ![t] = [clusters |-> cs, at |-> at, routers |-> rs]]
       /\ Sends(RoutersQuery(cs[at])) /\ Goes(t, "routers")
       /\ UNCHANGED <<ids, clusters, cluster_routers, ids_discovered>>
    \/ /\ at \in DOMAIN cs /\ cs[at] \notin ClusterIds
       /\ Goes(t, "failed")
       /\ UNCHANGED <<wire, found, ids, clusters, cluster_routers, ids_discovered>>
    \/ at \notin DOMAIN cs /\ Conclude(t, cs, rs)

(* discover_router_ids, up to its first query *)
Discover(t) ==
    /\ attempted' = TRUE
    /\ IF use_specified_ids
         THEN Goes(t, "done") /\ UNCHANGED wire
         ELSE Goes(t, "clusters") /\ Sends(ClustersQuery)

Idle(t) == pc[t] \in {"idle"} \union Ended /\ starts < MaxStarts /\ starts' = starts + 1

(* Left alone by whatever a caller does; and what discovery is for. *)
Fixed == <<profile, inForce, switches, owner, use_specified_ids>>
Outcome == <<ids, clusters, cluster_routers, ids_discovered>>

(* connect(), by the application or a reconnect, up to the workgroup name *)
Connect ==
    /\ Idle("connect")
    /\ ~link /\ link' = TRUE
    /\ Sends(WorkgroupQuery) /\ Goes("connect", "workgroup")
    /\ UNCHANGED <<Fixed, Outcome, received, attempted, found, trouble>>

(* initialize() on a connected Router *)
Initialize ==
    /\ owner = "application" /\ link /\ ~attempted
    /\ Idle("initialize")
    /\ Discover("initialize")
    /\ UNCHANGED <<Fixed, Outcome, link, received, found, trouble>>

GotWorkgroup(t) ==
    /\ pc[t] = "workgroup" /\ Arrived(Asked(t)) /\ Takes(Asked(t))
    /\ Discover(t)
    /\ UNCHANGED <<Fixed, Outcome, link, found, starts, trouble>>

(* Mutant: error replies are not told from others. *)
IdsOfAnyReply(r) == parse_id_list(r.result)

(* _discover_clusters, _discover_routers_in_cluster: no ids from an error. *)
IdsIn(r) == IF r.type = "ERROR" THEN <<>> ELSE parse_id_list(r.result)

(* Mutant: a dictionary of its own for every cluster. *)
OnlyWithRouters(rs, c, routers) == IF routers = <<>> THEN rs ELSE [x \in {c} |-> routers]

(* Clusters without routers are not in cluster_routers. *)
WithRouters(rs, c, routers) ==
    IF routers = <<>> THEN rs
    ELSE [x \in DOMAIN rs \union {c} |-> IF x = c THEN routers ELSE rs[x]]

GotClusters(t) ==
    /\ pc[t] = "clusters" /\ Arrived(Asked(t)) /\ Takes(Asked(t))
    /\ Loop(t, IdsIn(ReplyTo(Asked(t))), <<>>, 1)
    /\ UNCHANGED <<Fixed, link, attempted, starts, trouble>>

GotRouters(t) ==
    /\ pc[t] = "routers" /\ Arrived(Asked(t)) /\ Takes(Asked(t))
    /\ LET my == found[t] IN
        Loop(t, my.clusters,
             WithRouters(my.routers, my.clusters[my.at], IdsIn(ReplyTo(Asked(t)))), my.at + 1)
    /\ UNCHANGED <<Fixed, link, attempted, starts, trouble>>

(* A query is not answered in time: DISCOVERY_TIMEOUT, but for the workgroup
   name, whose CommandResponseTimeout leaves connect(). *)
TimedOut(t) ==
    \/ pc[t] = "workgroup" /\ Goes(t, "failed") /\ UNCHANGED <<Outcome, wire, found>>
    \/ pc[t] = "clusters" /\ Loop(t, <<>>, <<>>, 1)
    \/ pc[t] = "routers" /\ Loop(t, found[t].clusters, found[t].routers, found[t].at + 1)

Unanswered(t) ==
    /\ pc[t] \in Waiting
    /\ TimedOut(t) /\ TimesOut(Asked(t))
    /\ UNCHANGED <<Fixed, link, received, attempted, starts>>

(* disconnect() cancels connect() if a reconnect has called it. *)
CancelReconnect ==
    pc' = [pc EXCEPT !["connect"] = IF @ \in Waiting THEN "failed" ELSE @]

Disconnect ==
    /\ owner = "application" /\ link
    /\ link' = FALSE
    /\ CancelReconnect \/ UNCHANGED pc
    /\ Trouble
    /\ UNCHANGED <<Fixed, Outcome, wire, received, attempted, found, starts>>

Answered(t) == GotWorkgroup(t) \/ GotClusters(t) \/ GotRouters(t)
Discovering == \E t \in Callers : Answered(t) \/ Unanswered(t)
RouterStep ==
    \/ (SetProfile \/ Handle) /\ UNCHANGED topologyVars
    \/ /\ Lose /\ Trouble
       /\ UNCHANGED <<owner, use_specified_ids, Outcome, attempted, pc, found, starts>>

Next == RouterStep \/ Connect \/ Initialize \/ Disconnect \/ Discovering

-----------------------------------------------------------------------------
(* The ids firmware f would have this Router find. *)
Reported(f) ==
    {c \in Range(parse_id_list(f.clusters)) \intersect DOMAIN f.routers :
        parse_id_list(f.routers[c]) # <<>>}

(* A cluster the router has named, with the first router it named for it. *)
IsReported(pair) ==
    \E p, q \in inForce :
        /\ pair[1] \in Range(parse_id_list(Firmware[p].clusters))
        /\ pair[1] \in DOMAIN Firmware[q].routers
        /\ pair[2] = Head(parse_id_list(Firmware[q].routers[pair[1]]))

(* The ids a Router has discovered are what its router reported: never an error
   code, and never the routers of another cluster, whoever's reply it was that
   came late. *)
IdsReported == ids_discovered => IsReported(ids)

(* Whenever there is a topology the ids are its first pair, however often and
   by whom discovery is run, and wherever a run is cut off. *)
TopologyMatchesIds ==
    DOMAIN cluster_routers # {} => ids_discovered /\ ids = FirstPair(clusters, cluster_routers)

(* Two callers at once do not spoil each other's discovery: with a firmware that
   stays the same and answers, the first to end leaves its whole topology. *)
DiscoveryComplete ==
    \A p \in Profiles :
        /\ inForce = {p} /\ trouble = 0 /\ ~use_specified_ids
        /\ \E t \in Callers : pc[t] = "done"
        /\ {"clusters", "routers"} \intersect Firmware[p].unsupported_commands = {}
        => /\ clusters = parse_id_list(Firmware[p].clusters)
           /\ cluster_routers = [c \in Reported(Firmware[p]) |->
                                    parse_id_list(Firmware[p].routers[c])]
=============================================================================
