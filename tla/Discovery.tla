------------------------------- MODULE Discovery -------------------------------
(***************************************************************************)
(* Router.initialize after the connection is up: the groups, the devices    *)
(* and the scene names are queried, and what comes back fills the           *)
(* registries.  QUERY_GROUPS and the scene names are awaited in turn; every *)
(* other query runs in a task of its own that is still under way when       *)
(* initialize returns.  Any query may be answered, be answered with an      *)
(* error, or time out (CommandEngine has its way there).  Meanwhile the      *)
(* application may subscribe to what has been registered; its subscribers   *)
(* return at once here (SceneTracking has what happens when they do not).   *)
(*                                                                         *)
(* The router's database is a constant.  The code of an error reply is the  *)
(* model value ErrorCode where the code keeps the result as it came, the    *)
(* group ErrorGroup where it becomes a group, and a number elsewhere.       *)
(***************************************************************************)
EXTENDS Integers, FiniteSets, Sequences, Functions, Addresses

CONSTANTS
    RouterGroups,    \* the groups of the router
    DeviceIds,       \* the devices of its groups and subnets
    ErrorCode,       \* the result of an error reply
    ErrorGroup,      \* the same as a group
    ErrorNumber,     \* the same as a number
    None,
    SubnetOf,        \* the subnet of each device, 0 on another router
    Loads,           \* the devices whose type makes them loads
    RouterMembers,   \* what the router answers to QUERY_GROUP
    RouterLastScene, \* the last scene of each group, <<>> if it has none
    RouterNames,     \* the scenes of each group that have names
    RouterLevel,     \* what it answers to QUERY_DEVICE_LOAD_LEVEL
    TableLevel,      \* the scene table of each device: a level or Ignore at each place
    Watched,         \* bound: the groups and devices the application subscribes to
    MaxSubscribed,   \* bound: of how many at a time
    MaxLeft,         \* bound: queries under way when initialize is called again
    MaxEvents        \* bound: calls of initialize, and queries answered with an
                     \* error or not at all, together

Ignore == -1
GroupIds == RouterGroups \union {ErrorGroup}
Subnets == 1..4
Scenes == (Blocks \X SceneNumbers) \union {<<>>}

ASSUME DiscoveryAssumption ==
    /\ IsFiniteSet(RouterGroups) /\ ErrorGroup \notin RouterGroups \union Subnets
    /\ None \notin GroupIds
    /\ ErrorNumber \in Nat
    /\ SubnetOf \in [DeviceIds -> {0} \union Subnets]
    /\ Loads \subseteq DeviceIds
    /\ RouterMembers \in [RouterGroups -> Seq(DeviceIds)]
    /\ RouterLastScene \in [RouterGroups -> Scenes]
    /\ \A g \in RouterGroups : RouterNames[g] \subseteq (1..253) \X SceneNumbers
    /\ RouterLevel \in [Loads -> 0..100]
    /\ TableLevel \in [Loads -> [0..TableLength - 1 -> (0..100) \union {Ignore}]]
    /\ GroupIds \intersect DeviceIds = {} /\ Watched \subseteq GroupIds \union DeviceIds
    /\ MaxSubscribed \in Nat /\ MaxLeft \in Nat /\ MaxEvents \in Nat

VARIABLES
    phase,   \* where initialize is
    toName,  \* the groups whose scene names it has yet to query
    names,   \* the groups whose scene names it has collected
    named,   \* the groups whose scenes have their names
    groups,  \* router.groups.groups
    devices, \* router.devices.devices
    queries, \* the queries under way in tasks of their own
    subscribed, \* the objects of the registries with a subscriber
    told,       \* what the subscriber of each read when it was last called
    unheard,    \* history: groups whose last scene was set by a callback that raised
    inits, faults

subscribing == <<subscribed, told, unheard>>
vars == <<phase, toName, names, named, groups, devices, queries, subscribing, inits, faults>>

(* A query is what it asks, of which group, subnet or device, and in which call
   of initialize.  A device's name and state are queried and kept in the same
   way, by two tasks: "state" stands for both. *)
Kinds == {"name", "members", "last scene", "subnet",
          "state", "load level", "scene table"}
Query(kind, of) == <<kind, of, inits>>

NewGroup == [name |-> None, devices |-> <<>>, last_scene_address |-> <<>>]
NewDevice == [state |-> None, load_level |-> 0, levels |-> FALSE]

IsGroup(g) ==
    /\ g.name \in {None, "name"}
    /\ \A i \in DOMAIN g.devices : g.devices[i] \in DeviceIds
    /\ g.last_scene_address \in Scenes

IsDevice(d) ==
    /\ d.state \in {None, "state", ErrorCode}
    /\ d.load_level \in (0..100) \union {ErrorCode}
    /\ d.levels \in BOOLEAN

(* An error reply never becomes the name, a member or the last scene of a
   group, nor a scene table: only what devices keep as it comes can be one. *)
TypeOK ==
    /\ phase \in {"idle", "groups", "names", "done", "failed"}
    /\ toName \subseteq GroupIds \union {None}
    /\ names \subseteq GroupIds
    /\ named \subseteq GroupIds
    /\ DOMAIN groups \subseteq GroupIds /\ \A g \in DOMAIN groups : IsGroup(groups[g])
    /\ DOMAIN devices \subseteq DeviceIds /\ \A d \in DOMAIN devices : IsDevice(devices[d])
    /\ subscribed \subseteq (DOMAIN groups \union DOMAIN devices) \intersect Watched
    /\ \A q \in queries : q[1] \in Kinds /\ q[3] \in 1..inits
    /\ inits \in Nat /\ faults \in Nat /\ inits + faults <= MaxEvents

Init ==
    /\ phase = "idle"
    /\ toName = {} /\ names = {} /\ named = {}
    /\ groups = <<>> /\ devices = <<>>
    /\ queries = {}
    /\ subscribed = {} /\ unheard = {}
    /\ told = [x \in Watched |-> None]
    /\ inits = 0 /\ faults = 0

-----------------------------------------------------------------------------
(* What a subscriber reads of a group or a device of these registries *)
Shown(gs, ds, x) ==
    IF x \in GroupIds THEN gs[x].last_scene_address ELSE <<ds[x].state, ds[x].load_level>>

(* update_subscribers of objs, once the registries have their new values *)
Notified(objs) ==
    [x \in Watched |->
        IF x \in objs \intersect subscribed THEN Shown(groups', devices', x) ELSE told[x]]

(* New objects take the place of those of objs, and nobody subscribes to them. *)
Replaced(objs) ==
    /\ subscribed' = subscribed \ objs
    /\ told' = [x \in Watched |-> IF x \in objs THEN None ELSE told[x]]
    /\ unheard' = unheard \ objs

(* Some queries are answered with an error, or not at all. *)
Fault == inits + faults < MaxEvents /\ faults' = faults + 1

(* The reply of a query is a result, or an error. *)
Outcome(o) == \/ o = "reply" /\ UNCHANGED faults
              \/ o = "error" /\ Fault

(* Mutant: range(1, 4) *)
ThreeSubnets == 1..3

(* get_devices: range(1, 5) *)
QueriedSubnets == 1..4

(* Mutant: only groups that are not known yet are queried. *)
RegisterKnownUnqueried(ids) ==
    LET all == ids \union DOMAIN groups IN
    /\ groups' = [g \in all |-> IF g \in ids THEN NewGroup ELSE groups[g]]
    /\ queries' = queries
            \union {Query(p[1], p[2]) :
                        p \in {"name", "members", "last scene"} \X (ids \ DOMAIN groups)}
            \union {Query("subnet", n) : n \in QueriedSubnets}
    /\ toName' = all \union {None}
    /\ names' = {}
    /\ named' = named \ all
    /\ phase' = "names"
    /\ Replaced(ids)
    /\ UNCHANGED <<devices, inits>>

(* get_groups registers new Group objects, get_devices starts a query of each
   subnet, and get_scenes registers the scenes of every group, unnamed, before
   it awaits its first query. *)
Register(ids) ==
    LET all == ids \union DOMAIN groups IN
    /\ groups' = [g \in all |-> IF g \in ids THEN NewGroup ELSE groups[g]]
    /\ queries' = queries
            \union {Query(p[1], p[2]) : p \in {"name", "members", "last scene"} \X ids}
            \union {Query("subnet", n) : n \in QueriedSubnets}
    /\ toName' = all \union {None}
    /\ names' = {}
    /\ named' = named \ all
    /\ phase' = "names"
    /\ Replaced(ids)
    /\ UNCHANGED <<devices, inits>>

(* initialize, up to QUERY_GROUPS *)
Initialize ==
    /\ phase \in {"idle", "done", "failed"}
    /\ inits + faults < MaxEvents /\ Cardinality(queries) <= MaxLeft
    /\ phase' = "groups"
    /\ inits' = inits + 1
    /\ UNCHANGED <<toName, names, named, groups, devices, queries, subscribing, faults>>

(* get_groups does not look at the type of the reply: an error code is a list
   of one group. *)
GroupsAnswered(o) ==
    /\ phase = "groups"
    /\ Outcome(o)
    /\ Register(IF o = "reply" THEN RouterGroups ELSE {ErrorGroup})

(* CommandResponseTimeout leaves get_groups and initialize. *)
GroupsUnanswered ==
    /\ phase = "groups"
    /\ Fault
    /\ phase' = "failed"
    /\ UNCHANGED <<toName, names, named, groups, devices, queries, subscribing, inits>>

(* _query_scene_names without a group, whose reply has the names of some groups
   at most, then group by group. *)
NamesAnswered(g) ==
    /\ phase = "names" /\ g \in toName /\ (None \in toName => g = None)
    /\ \E more \in IF g = None THEN SUBSET RouterGroups ELSE {{g} \intersect RouterGroups} :
        names' = names \union more
    /\ toName' = toName \ {g}
    /\ UNCHANGED <<phase, named, groups, devices, queries, subscribing, inits, faults>>

(* Mutant: the timeout of a scene-name query leaves get_scenes. *)
NamesUnansweredRaising(g) ==
    /\ phase = "names" /\ g \in toName /\ (None \in toName => g = None)
    /\ Fault
    /\ toName' = {}
    /\ phase' = "failed"
    /\ UNCHANGED <<names, named, groups, devices, queries, subscribing, inits>>

(* _query_scene_names: an error reply or CommandResponseTimeout gives no names *)
NamesUnanswered(g) ==
    /\ phase = "names" /\ g \in toName /\ (None \in toName => g = None)
    /\ Fault
    /\ toName' = toName \ {g}
    /\ UNCHANGED <<phase, names, named, groups, devices, queries, subscribing, inits>>

(* get_scenes names the scenes it registered, force_update_groups calls the
   subscribers of all groups, and initialize ends. *)
NamesDone ==
    /\ phase = "names" /\ toName = {}
    /\ named' = named \union (names \intersect DOMAIN groups)
    /\ phase' = "done"
    /\ names' = {}
    /\ UNCHANGED <<toName, groups, devices, queries, subscribed, inits, faults>>
    /\ told' = Notified(DOMAIN groups)
    /\ unheard' = {}

-----------------------------------------------------------------------------
(* A query of a task of its own, about a group, ends with outcome o. *)
Ends(q, kind, o) ==
    /\ q \in queries /\ q[1] = kind
    /\ q[2] # ErrorGroup /\ Outcome(o)
    /\ UNCHANGED <<phase, toName, names, named, inits>>

(* The query times out: guarded() logs it.  So does a query about a group the
   router does not have, if it is not answered with an error. *)
Unanswered(q) ==
    /\ q \in queries
    /\ IF q[2] = ErrorGroup THEN UNCHANGED faults ELSE Fault
    /\ queries' = queries \ {q}
    /\ UNCHANGED <<phase, toName, names, named, groups, devices, subscribing, inits>>

(* update_name *)
GroupNamed(q, o) ==
    /\ Ends(q, "name", o)
    /\ groups' = IF o = "reply" THEN [groups EXCEPT ![q[2]].name = "name"] ELSE groups
    /\ queries' = queries \ {q}
    /\ UNCHANGED <<devices, subscribing>>

(* update_group_devices *)
MembersKnown(q, o) ==
    /\ Ends(q, "members", o)
    /\ groups' = IF o = "reply" THEN [groups EXCEPT ![q[2]].devices = RouterMembers[q[2]]]
                 ELSE groups
    /\ queries' = queries \ {q}
    /\ UNCHANGED <<devices, subscribing>>

(* A member whose levels have not come yet: get_level raises at it, and the
   members after it are not reached. *)
Stops(g, i) ==
    LET d == groups[g].devices[i] IN d \in DOMAIN devices \intersect Loads /\ ~devices[d].levels
Raises(g) == \E i \in DOMAIN groups[g].devices : Stops(g, i)

(* The members the scene brings to a level *)
Brought(g, place) ==
    LET m == groups[g].devices
        reached == {m[i] : i \in {j \in DOMAIN m : \A k \in 1..j : ~Stops(g, k)}}
    IN {d \in reached \intersect DOMAIN devices \intersect Loads : TableLevel[d][place] # Ignore}

(* handle_scene_callback for the last scene: the members it gets to get the
   level their table has for it, and their subscribers are called; a load
   without a table raises IndexError, which guarded() logs, and neither the
   members after it nor the group's subscribers are reached. *)
SetLastScene(g, reply) ==
    LET scene == blockscene_to_block_and_scene(reply)
        place == to_device_int(scene[1], scene[2])
    IN IF scene = <<>> THEN UNCHANGED <<groups, devices, subscribing>>
       ELSE /\ groups' = [groups EXCEPT ![g].last_scene_address = scene]
            /\ devices' = [d \in DOMAIN devices |->
                    IF d \in Brought(g, place)
                      THEN [devices[d] EXCEPT !.load_level = TableLevel[d][place]]
                      ELSE devices[d]]
            /\ told' = Notified(Brought(g, place) \union IF Raises(g) THEN {} ELSE {g})
            /\ unheard' = IF Raises(g) /\ g \in subscribed THEN unheard \union {g}
                                                         ELSE unheard \ {g}
            /\ UNCHANGED subscribed

RouterReply(g) == IF RouterLastScene[g] = <<>> THEN LAST_SCENE_NONE_SENTINEL
                  ELSE LastSceneReply(RouterLastScene[g][1], RouterLastScene[g][2])

(* Mutant: without the test of the reply's type. *)
LastSceneKnownUnchecked(q, o) ==
    /\ Ends(q, "last scene", o)
    /\ SetLastScene(q[2], IF o = "reply" THEN RouterReply(q[2]) ELSE ErrorNumber)
    /\ queries' = queries \ {q}

(* update_group_last_scene *)
LastSceneKnown(q, o) ==
    /\ Ends(q, "last scene", o)
    /\ IF o = "reply" THEN SetLastScene(q[2], RouterReply(q[2]))
                      ELSE UNCHANGED <<groups, devices, subscribing>>
    /\ queries' = queries \ {q}

(* receive_and_register_devices: new Device objects, and update_device starts
   the queries of each *)
SubnetKnown(q, o) ==
    /\ Ends(q, "subnet", o)
    /\ LET found == IF o = "reply" THEN {d \in DeviceIds : SubnetOf[d] = q[2]} ELSE {} IN
        /\ devices' = [d \in DOMAIN devices \union found |->
                        IF d \in found THEN NewDevice ELSE devices[d]]
        /\ queries' = (queries \ {q})
                \union {<<"state", d, q[3]>> : d \in found}
                \union {<<p[1], p[2], q[3]>> :
                            p \in {"load level", "scene table"} \X (found \intersect Loads)}
        /\ Replaced(found)
    /\ UNCHANGED groups

(* Mutant: _update_device_param calls the subscribers before it sets the value. *)
DeviceKnownTooLate(q, o) ==
    /\ Ends(q, "load level", o)
    /\ devices' = [devices EXCEPT ![q[2]].load_level =
                        IF o = "reply" THEN RouterLevel[q[2]] ELSE ErrorCode]
    /\ queries' = queries \ {q}
    /\ UNCHANGED <<groups, subscribing>>

(* update_device keeps the result of any reply as name, state or load level,
   and what is not a list of 136 levels raises ParserError.  The subscribers
   are called, but for a scene table. *)
DeviceKnown(q, o) ==
    /\ \E kind \in {"state", "load level", "scene table"} :
        /\ Ends(q, kind, o)
        /\ devices' =
             CASE kind = "state" ->
                    [devices EXCEPT ![q[2]].state = IF o = "reply" THEN "state" ELSE ErrorCode]
               [] kind = "load level" ->
                    [devices EXCEPT ![q[2]].load_level =
                        IF o = "reply" THEN RouterLevel[q[2]] ELSE ErrorCode]
               [] OTHER -> IF o = "reply" THEN [devices EXCEPT ![q[2]].levels = TRUE]
                           ELSE devices
        /\ told' = IF kind = "scene table" THEN told ELSE Notified({q[2]})
    /\ queries' = queries \ {q}
    /\ UNCHANGED <<groups, subscribed, unheard>>

-----------------------------------------------------------------------------
(* register_subscription, of what is registered: it returns False else.  The
   application reads the object as it subscribes. *)
register_subscription(x) ==
    /\ x \in (DOMAIN groups \union DOMAIN devices) \ subscribed
    /\ Cardinality(subscribed) < MaxSubscribed
    /\ subscribed' = subscribed \union {x}
    /\ told' = [told EXCEPT ![x] = Shown(groups, devices, x)]
    /\ unheard' = unheard \ {x}
    /\ UNCHANGED <<phase, toName, names, named, groups, devices, queries, inits, faults>>

unregister_subscription(x) ==
    /\ x \in subscribed
    /\ subscribed' = subscribed \ {x}
    /\ told' = [told EXCEPT ![x] = None]
    /\ UNCHANGED <<phase, toName, names, named, groups, devices, queries, unheard, inits, faults>>

Answered(q) ==
    \E o \in {"reply", "error"} :
        \/ GroupNamed(q, o)
        \/ MembersKnown(q, o)
        \/ LastSceneKnown(q, o)
        \/ SubnetKnown(q, o)
        \/ DeviceKnown(q, o)

(* A step of initialize that waits for nothing but an answer or its timeout. *)
Proceed ==
    \/ \E o \in {"reply", "error"} : GroupsAnswered(o)
    \/ GroupsUnanswered
    \/ \E g \in toName : NamesAnswered(g) \/ NamesUnanswered(g)
    \/ NamesDone

Next ==
    \/ Initialize
    \/ Proceed
    \/ \E q \in queries : Answered(q) \/ Unanswered(q)
    \/ \E x \in Watched : register_subscription(x) \/ unregister_subscription(x)

(* CommandEngine!EveryCommandEnds: every query is answered or times out. *)
Fairness ==
    /\ WF_vars(Proceed)
    /\ WF_vars(\E q \in queries : Answered(q) \/ Unanswered(q))

Spec == Init /\ [][Next]_vars /\ Fairness

-----------------------------------------------------------------------------
(* The scene the router reports for group g gives device d this level. *)
SceneLevel(g, d) ==
    IF RouterLastScene[g] = <<>> THEN Ignore
    ELSE TableLevel[d][to_device_int(RouterLastScene[g][1], RouterLastScene[g][2])]

(* _scene_is_in_use: some member of its group has a level for it.  Tables end
   before the scenes do that get_scenes registers. *)
_scene_is_in_use(g, scene) ==
    /\ g \in DOMAIN groups
    /\ \E i \in DOMAIN groups[g].devices :
        LET d == groups[g].devices[i]
            place == to_device_int(scene[1], scene[2]) IN
        /\ d \in DOMAIN devices \intersect Loads /\ devices[d].levels
        /\ place < TableLength /\ TableLevel[d][place] # Ignore

get_selectable_scenes_for_group(g) ==
    {scene \in (1..253) \X SceneNumbers :
        (g \in named /\ scene \in RouterNames[g]) \/ _scene_is_in_use(g, scene)}

(* The scenes that have a place in the tables: those of the eight blocks, and
   the first seven of block 9. *)
TableScenes ==
    {scene \in (1..253) \X SceneNumbers : to_device_int(scene[1], scene[2]) < TableLength}

(* In whatever order the answers arrive, and whatever an earlier initialize
   still has under way, discovery that met no fault ends with the router's
   database in the registries: all groups with their members and last scenes,
   all devices, all tables and all scene names, and offers the scenes that have
   a name or a level.  The level of a load is the one the router reported, or
   the one that the last scene of a group it is in brings it to. *)
CompleteDiscovery ==
    phase = "done" /\ queries = {} /\ faults = 0 =>
        /\ DOMAIN groups = RouterGroups
        /\ named = RouterGroups
        /\ \A g \in RouterGroups :
            groups[g] = [name |-> "name", devices |-> RouterMembers[g],
                         last_scene_address |-> RouterLastScene[g]]
        /\ DOMAIN devices = {d \in DeviceIds : SubnetOf[d] \in Subnets}
        /\ \A d \in DOMAIN devices : devices[d].state = "state"
        /\ \A d \in DOMAIN devices \intersect Loads :
            /\ devices[d].levels
            /\ devices[d].load_level \in
                {RouterLevel[d]} \union
                    {SceneLevel(g, d) : g \in {h \in RouterGroups : d \in Range(RouterMembers[h])}}
        /\ \A g \in RouterGroups :
            get_selectable_scenes_for_group(g) = RouterNames[g] \union
                {scene \in TableScenes :
                    \E d \in Range(RouterMembers[g]) \intersect Loads :
                        /\ SubnetOf[d] \in Subnets
                        /\ TableLevel[d][to_device_int(scene[1], scene[2])] # Ignore}

(* test_robustness.py:185 - "The error code must not leak into the group state".
   Whichever queries fail, a group of the router has the router's members and
   last scene, or none yet. *)
GroupStateIsReal ==
    \A g \in DOMAIN groups \intersect RouterGroups :
        /\ groups[g].devices \in {<<>>, RouterMembers[g]}
        /\ groups[g].last_scene_address \in {<<>>, RouterLastScene[g]}

(* A new object is in the place of x, and all there is to know of it is queried. *)
Renewed(x) ==
    IF x \in GroupIds
      THEN /\ groups'[x] = NewGroup
           /\ \A kind \in {"name", "members", "last scene"} : Query(kind, x) \in queries'
      ELSE /\ devices'[x] = NewDevice
           /\ \E n \in 1..inits :
                \A kind \in IF x \in Loads THEN {"state", "load level", "scene table"}
                                           ELSE {"state"} :
                    <<kind, x, n>> \in queries'

(* get_groups and receive_and_register_devices put new objects, without
   subscribers, into the registries.  During the first initialize a subscription
   that was accepted holds until it is taken back, however much of the discovery
   is still under way; once initialize was called again it ends in one other way
   only, with its object replaced by a new one, and never with the new object
   left without a query that fills it. *)
SubscriptionsKept ==
    [][\A x \in subscribed \ subscribed' :
        unregister_subscription(x) \/ (inits > 1 /\ Renewed(x))]_vars

(* The subscriber of a device has seen its present state and level, and that of
   a group its last scene, unless a load whose table was not there yet made the
   callback for the last scene raise: whatever changes a value tells of it. *)
SubscribersTold ==
    \A x \in subscribed \ unheard : told[x] = Shown(groups, devices, x)

(* scenes.py:203 - "scene-name collection can never stall or abort the router
   initialisation": once the groups are known, initialize returns whichever of
   the other queries are answered. *)
NamesNeverAbort == phase = "names" ~> phase = "done"

(* test_robustness.py:185, of all the registries: no error code becomes a
   group, or what is known of a device.  It does: get_groups and update_device
   do not look at the type of the reply. *)
ErrorsAreNotData ==
    /\ ErrorGroup \notin DOMAIN groups
    /\ \A d \in DOMAIN devices :
        ErrorCode \notin {devices[d].state, devices[d].load_level}
=============================================================================
