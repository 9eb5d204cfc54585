---------------------------- MODULE DiscoveryProofs ----------------------------
(* Facts about discovery that hold for every router: any groups, devices,      *)
(* members, tables and names, and whatever queries are answered, and when.     *)
EXTENDS Discovery, SequenceTheorems, TLAPS

-----------------------------------------------------------------------------
(* Numbers of scenes *)

(* What groups.py decodes is what the router encoded, for every scene of the
   eight blocks that have a place in the scene tables. *)
THEOREM DecodeEncode ==
    ASSUME NEW block \in Blocks, NEW scene \in SceneNumbers
    PROVE  blockscene_to_block_and_scene(LastSceneReply(block, scene)) = <<block, scene>>
<1> DEFINE n == LastSceneReply(block, scene)
<1>1. n \in 1..128
  BY DEF LastSceneReply, Blocks, SceneNumbers
<1>2. n - 1 = 16 * (block - 1) + (scene - 1) /\ scene - 1 \in 0..15
  BY DEF LastSceneReply, Blocks, SceneNumbers
<1>3. (n - 1) \div 16 = block - 1 /\ (n - 1) % 16 = scene - 1
  BY <1>1, <1>2 DEF Blocks, SceneNumbers
<1>4. ((n - 1) \div 16) + 1 = block /\ ((n - 1) % 16) + 1 = scene
  BY <1>3 DEF Blocks, SceneNumbers
<1>5. ~(n < 1 \/ n >= LAST_SCENE_NONE_SENTINEL)
  BY <1>1 DEF LAST_SCENE_NONE_SENTINEL
<1> HIDE DEF n
<1>6. blockscene_to_block_and_scene(n) = <<block, scene>>
  BY <1>4, <1>5 DEF blockscene_to_block_and_scene
<1> QED
  BY <1>6 DEF n

(* A scene of those blocks has a place in a table of 136 levels, and no other
   scene has the same: set_scene_level reads the level of the scene it means. *)
THEOREM TablePlaces ==
    ASSUME NEW b1 \in Blocks, NEW s1 \in SceneNumbers,
           NEW b2 \in Blocks, NEW s2 \in SceneNumbers
    PROVE  /\ to_device_int(b1, s1) \in 0..TableLength - 1
           /\ to_device_int(b1, s1) = to_device_int(b2, s2) => b1 = b2 /\ s1 = s2
  BY DEF to_device_int, TableLength, Blocks, SceneNumbers

-----------------------------------------------------------------------------
(* The inductive invariant, in parts *)

GroupObject == [name : {None, "name"}, devices : Seq(DeviceIds), last_scene_address : Scenes]
DeviceObject == [state : {None, "state", ErrorCode},
                 load_level : (0..100) \union {ErrorCode}, levels : BOOLEAN]

ControlOK ==
    /\ phase \in {"idle", "groups", "names", "done", "failed"}
    /\ phase # "idle" => inits > 0
    /\ toName \subseteq GroupIds \union {None}
    /\ names \subseteq GroupIds /\ named \subseteq GroupIds
    /\ inits \in Nat /\ faults \in Nat /\ inits + faults <= MaxEvents

RegistriesOK ==
    /\ DOMAIN groups \subseteq GroupIds /\ \A g \in DOMAIN groups : groups[g] \in GroupObject
    /\ DOMAIN devices \subseteq DeviceIds /\ \A d \in DOMAIN devices : devices[d] \in DeviceObject

(* Queries in tasks of their own are about what is registered. *)
QueryOK(q) ==
    /\ q = <<q[1], q[2], q[3]>> /\ q[1] \in Kinds /\ q[3] \in 1..inits
    /\ q[1] \in {"name", "members", "last scene"} => q[2] \in DOMAIN groups
    /\ q[1] = "subnet" => q[2] \in Subnets
    /\ q[1] = "state" => q[2] \in DOMAIN devices
    /\ q[1] \in {"load level", "scene table"} => q[2] \in DOMAIN devices \intersect Loads

QueriesOK == \A q \in queries : QueryOK(q)

SubscribersOK ==
    /\ subscribed \subseteq (DOMAIN groups \union DOMAIN devices) \intersect Watched
    /\ unheard \subseteq GroupIds
    /\ DOMAIN told = Watched

IInv == /\ ControlOK /\ RegistriesOK /\ QueriesOK /\ SubscribersOK
        /\ GroupStateIsReal /\ SubscribersTold

(* The constants, as the proofs use them. *)
LEMMA Router ==
    /\ ErrorGroup \notin RouterGroups /\ ErrorNumber \in Nat
    /\ GroupIds = RouterGroups \union {ErrorGroup}
    /\ GroupIds \intersect DeviceIds = {} /\ Loads \subseteq DeviceIds
    /\ \A g \in RouterGroups : RouterMembers[g] \in Seq(DeviceIds) /\ RouterLastScene[g] \in Scenes
    /\ \A d \in Loads : RouterLevel[d] \in 0..100
    /\ MaxEvents \in Nat
<1>1. RouterMembers \in [RouterGroups -> Seq(DeviceIds)]
      /\ RouterLastScene \in [RouterGroups -> Scenes] /\ RouterLevel \in [Loads -> 0..100]
    BY DiscoveryAssumption
<1>2. /\ ErrorGroup \notin RouterGroups /\ ErrorNumber \in Nat
      /\ GroupIds \intersect DeviceIds = {} /\ Loads \subseteq DeviceIds
      /\ MaxEvents \in Nat
    BY DiscoveryAssumption
<1> QED
    BY <1>1, <1>2 DEF GroupIds

(* A level a scene table has for a scene that a router can report. *)
LEMMA TableLevels ==
    ASSUME NEW d \in Loads, NEW block \in Blocks, NEW scene \in SceneNumbers
    PROVE  TableLevel[d][to_device_int(block, scene)] \in (0..100) \union {Ignore}
<1>1. TableLevel \in [Loads -> [0..TableLength - 1 -> (0..100) \union {Ignore}]]
    BY DiscoveryAssumption
<1>2. to_device_int(block, scene) \in 0..TableLength - 1
    BY TablePlaces
<1> QED
    BY <1>1, <1>2

-----------------------------------------------------------------------------
(* Queries only end, and registries only grow. *)
LEMMA QueriesEnd ==
    ASSUME QueriesOK, queries' \subseteq queries, inits' = inits,
           DOMAIN groups \subseteq DOMAIN groups', DOMAIN devices \subseteq DOMAIN devices'
    PROVE  QueriesOK'
BY DEF QueriesOK, QueryOK

(* Nothing is said to or heard of who is not concerned. *)
LEMMA Untouched ==
    ASSUME IInv, UNCHANGED <<groups, devices, subscribing>>
    PROVE  /\ SubscribersOK' /\ SubscribersTold' /\ GroupStateIsReal' /\ RegistriesOK'
BY DEF IInv, SubscribersOK, SubscribersTold, Shown, GroupStateIsReal, RegistriesOK, subscribing

LEMMA FaultBound ==
    ASSUME ControlOK, NEW o, Outcome(o)
    PROVE  faults' \in Nat /\ inits + faults' <= MaxEvents
BY Router DEF Outcome, Fault, ControlOK

LEMMA InitEstablishes ==
    ASSUME Init
    PROVE  IInv
<1> USE DEF Init
<1>1. DOMAIN groups = {} /\ DOMAIN devices = {}
    OBVIOUS
<1>2. ControlOK
    BY Router DEF ControlOK
<1>3. RegistriesOK /\ QueriesOK /\ GroupStateIsReal
    BY <1>1 DEF RegistriesOK, QueriesOK, GroupStateIsReal
<1>4. SubscribersOK /\ SubscribersTold
    BY <1>1 DEF SubscribersOK, SubscribersTold
<1> QED
    BY <1>2, <1>3, <1>4 DEF IInv

-----------------------------------------------------------------------------
(* initialize *)
LEMMA InitializeKeeps ==
    ASSUME IInv, Initialize
    PROVE  IInv'
<1>1. ControlOK'
    BY Router DEF Initialize, IInv, ControlOK
<1>2. ASSUME NEW q \in queries
      PROVE  QueryOK(q)'
  <2>1. inits \in Nat /\ inits' = inits + 1 /\ UNCHANGED <<groups, devices>>
    BY DEF Initialize, IInv, ControlOK
  <2>2. q[3] \in 1..inits => q[3] \in 1..inits'
    BY <2>1
  <2> QED
    BY <2>1, <2>2 DEF IInv, QueriesOK, QueryOK
<1>3. UNCHANGED <<groups, devices, subscribing>> /\ queries' = queries
    BY DEF Initialize
<1> QED
    BY <1>1, <1>2, <1>3, Untouched DEF IInv, QueriesOK

LEMMA GroupsKeeps ==
    ASSUME IInv, NEW o \in {"reply", "error"}, GroupsAnswered(o)
    PROVE  IInv'
<1> DEFINE ids == IF o = "reply" THEN RouterGroups ELSE {ErrorGroup}
           all == ids \union DOMAIN groups
<1>1. phase = "groups" /\ Outcome(o) /\ Register(ids)
    BY DEF GroupsAnswered
<1>2. ids \subseteq GroupIds /\ all \subseteq GroupIds
    BY Router DEF IInv, RegistriesOK
<1> HIDE DEF ids
<1>3. /\ groups' = [g \in all |-> IF g \in ids THEN NewGroup ELSE groups[g]]
      /\ toName' = all \union {None} /\ names' = {} /\ named' = named \ all
      /\ phase' = "names" /\ Replaced(ids) /\ devices' = devices /\ inits' = inits
    BY <1>1 DEF Register
<1>4. queries' = queries
            \union {Query(p[1], p[2]) : p \in {"name", "members", "last scene"} \X ids}
            \union {Query("subnet", n) : n \in QueriedSubnets}
    BY <1>1 DEF Register
<1>5. ControlOK'
    BY <1>1, <1>2, <1>3, FaultBound DEF IInv, ControlOK
<1>6. RegistriesOK'
  <2>1. NewGroup \in GroupObject
    <3>1. <<>> \in Seq(DeviceIds) /\ <<>> \in Scenes
      BY DEF Scenes
    <3> QED
      BY <3>1 DEF NewGroup, GroupObject
  <2>2. DOMAIN groups' = all /\ \A g \in all : groups'[g] \in GroupObject
    BY <1>3, <2>1 DEF IInv, RegistriesOK
  <2> QED
    BY <1>2, <1>3, <2>2 DEF IInv, RegistriesOK
<1>7. ASSUME NEW q \in queries'
      PROVE  QueryOK(q)'
  <2>1. inits \in Nat \ {0} /\ inits \in 1..inits
    BY <1>1 DEF IInv, ControlOK
  <2>2. inits' = inits /\ DOMAIN devices' = DOMAIN devices /\ DOMAIN groups' = all
    BY <1>3
  <2>3. CASE q \in queries
    BY <2>2, <2>3 DEF IInv, QueriesOK, QueryOK
  <2>4. ASSUME NEW p \in {"name", "members", "last scene"} \X ids, q = Query(p[1], p[2])
        PROVE  QueryOK(q)'
    <3>1. /\ q = <<p[1], p[2], inits>> /\ q[1] = p[1] /\ q[2] = p[2] /\ q[3] = inits
          /\ p[1] \in {"name", "members", "last scene"} /\ p[2] \in all
      BY <2>4 DEF Query
    <3> QED
      BY <2>1, <2>2, <3>1 DEF QueryOK, Kinds
  <2>5. ASSUME NEW n \in QueriedSubnets, q = Query("subnet", n)
        PROVE  QueryOK(q)'
    <3>1. q = <<"subnet", n, inits>> /\ q[1] = "subnet" /\ q[2] = n /\ q[3] = inits
      BY <2>5 DEF Query
    <3> QED
      BY <2>1, <2>2, <3>1 DEF QueryOK, Kinds, QueriedSubnets, Subnets
  <2> QED
    BY <1>4, <2>3, <2>4, <2>5
<1>8. /\ subscribed' = subscribed \ ids /\ unheard' = unheard \ ids
      /\ told' = [x \in Watched |-> IF x \in ids THEN None ELSE told[x]]
    BY <1>3 DEF Replaced
<1>9. SubscribersOK'
    BY <1>3, <1>8 DEF IInv, SubscribersOK
<1>10. SubscribersTold'
  <2>1. SUFFICES ASSUME NEW x \in subscribed' \ unheard'
                 PROVE  told'[x] = Shown(groups', devices', x)
    BY DEF SubscribersTold
  <2>2. x \in subscribed \ unheard /\ x \notin ids /\ x \in Watched
        /\ (x \in GroupIds => x \in DOMAIN groups)
    BY <1>8, Router DEF IInv, SubscribersOK, RegistriesOK
  <2> QED
    BY <1>3, <1>8, <2>2 DEF IInv, SubscribersTold, Shown
<1>11. GroupStateIsReal'
    BY <1>3 DEF IInv, GroupStateIsReal, NewGroup
<1> QED
    BY <1>5, <1>6, <1>7, <1>9, <1>10, <1>11 DEF IInv, QueriesOK

(* The steps of initialize that leave the registries alone *)
LEMMA NamesKeep ==
    ASSUME IInv, GroupsUnanswered \/ \E g \in toName : NamesAnswered(g) \/ NamesUnanswered(g)
    PROVE  IInv'
<1>1. UNCHANGED <<groups, devices, queries, subscribing, inits>>
    BY DEF GroupsUnanswered, NamesAnswered, NamesUnanswered
<1>2. ControlOK'
  <2>1. CASE GroupsUnanswered
    BY <2>1, Router DEF GroupsUnanswered, Fault, IInv, ControlOK
  <2>2. ASSUME NEW g \in toName, NamesAnswered(g)
        PROVE  ControlOK'
    <3>1. names' \subseteq GroupIds
      BY <2>2, Router DEF NamesAnswered, IInv, ControlOK
    <3>2. toName' \subseteq toName /\ UNCHANGED <<phase, named, inits, faults>>
      BY <2>2 DEF NamesAnswered
    <3> QED
      BY <3>1, <3>2 DEF IInv, ControlOK
  <2>3. ASSUME NEW g \in toName, NamesUnanswered(g)
        PROVE  ControlOK'
    BY <2>3, Router DEF NamesUnanswered, Fault, IInv, ControlOK
  <2> QED
    BY <2>1, <2>2, <2>3
<1>3. QueriesOK'
    BY <1>1, QueriesEnd DEF IInv
<1> QED
    BY <1>1, <1>2, <1>3, Untouched DEF IInv

LEMMA NamesDoneKeeps ==
    ASSUME IInv, NamesDone
    PROVE  IInv'
<1>1. UNCHANGED <<groups, devices, queries, subscribed, inits, faults>>
    BY DEF NamesDone
<1>2. ControlOK'
    BY DEF NamesDone, IInv, ControlOK
<1>3. QueriesOK'
    BY <1>1, QueriesEnd DEF IInv
<1>4. RegistriesOK' /\ GroupStateIsReal'
    BY <1>1 DEF IInv, RegistriesOK, GroupStateIsReal
<1>5. /\ unheard' = {}
      /\ told' = [x \in Watched |->
                    IF x \in DOMAIN groups \intersect subscribed
                      THEN Shown(groups', devices', x) ELSE told[x]]
    BY DEF NamesDone, Notified
<1>6. SubscribersOK'
    BY <1>1, <1>5 DEF IInv, SubscribersOK
<1>7. SubscribersTold'
  <2>1. SUFFICES ASSUME NEW x \in subscribed
                 PROVE  told'[x] = Shown(groups', devices', x)
    BY <1>1 DEF SubscribersTold
  <2>2. x \in Watched /\ (x \in DOMAIN groups \/ x \notin unheard)
    BY Router DEF IInv, SubscribersOK, RegistriesOK
  <2> QED
    BY <1>1, <1>5, <2>1, <2>2 DEF IInv, SubscribersTold, Shown
<1> QED
    BY <1>2, <1>3, <1>4, <1>6, <1>7 DEF IInv

-----------------------------------------------------------------------------
(* Queries in tasks of their own *)
LEMMA UnansweredKeeps ==
    ASSUME IInv, NEW q \in queries, Unanswered(q)
    PROVE  IInv'
<1>1. UNCHANGED <<groups, devices, subscribing, inits, phase, toName, names, named>>
      /\ queries' \subseteq queries
    BY DEF Unanswered
<1>2. ControlOK'
    BY <1>1, Router DEF Unanswered, Fault, IInv, ControlOK
<1>3. QueriesOK'
    BY <1>1, QueriesEnd DEF IInv
<1> QED
    BY <1>1, <1>2, <1>3, Untouched DEF IInv

(* The query that ends is about something registered, and the router knows the
   group it is about. *)
LEMMA EndsKeeps ==
    ASSUME IInv, NEW q \in queries, NEW kind, NEW o \in {"reply", "error"}, Ends(q, kind, o)
    PROVE  /\ ControlOK' /\ QueryOK(q) /\ q[1] = kind /\ inits' = inits
           /\ kind \in {"name", "members", "last scene"} =>
                q[2] \in DOMAIN groups /\ q[2] \in RouterGroups
<1>1. ControlOK'
    BY FaultBound DEF Ends, IInv, ControlOK
<1>2. QueryOK(q) /\ q[1] = kind /\ inits' = inits
    BY DEF Ends, IInv, QueriesOK
<1>3. ASSUME kind \in {"name", "members", "last scene"}
      PROVE  q[2] \in DOMAIN groups /\ q[2] \in RouterGroups
    BY <1>2, <1>3, Router DEF Ends, QueryOK, IInv, RegistriesOK
<1> QED
    BY <1>1, <1>2, <1>3

(* A group's name and members *)
LEMMA GroupKeeps ==
    ASSUME IInv, NEW q \in queries, NEW o \in {"reply", "error"},
           GroupNamed(q, o) \/ MembersKnown(q, o)
    PROVE  IInv'
<1> DEFINE g == q[2]
<1>1. /\ ControlOK' /\ g \in DOMAIN groups /\ g \in RouterGroups /\ inits' = inits
    BY EndsKeeps DEF GroupNamed, MembersKnown
<1>2. \/ groups' = groups
      \/ groups' = [groups EXCEPT ![g].name = "name"]
      \/ groups' = [groups EXCEPT ![g].devices = RouterMembers[g]]
    BY DEF GroupNamed, MembersKnown
<1>3. UNCHANGED <<devices, subscribed, told, unheard>> /\ queries' \subseteq queries
    BY DEF GroupNamed, MembersKnown, subscribing
<1>4. /\ DOMAIN groups' = DOMAIN groups
      /\ \A h \in DOMAIN groups \ {g} : groups'[h] = groups[h]
      /\ \/ groups'[g] = groups[g]
         \/ groups'[g] = [groups[g] EXCEPT !.name = "name"]
         \/ groups'[g] = [groups[g] EXCEPT !.devices = RouterMembers[g]]
    BY <1>1, <1>2
<1>5. groups[g] \in GroupObject
    BY <1>1 DEF IInv, RegistriesOK
<1>6. /\ groups'[g] \in GroupObject
      /\ groups'[g].last_scene_address = groups[g].last_scene_address
      /\ groups'[g].devices \in {groups[g].devices, RouterMembers[g]}
    BY <1>1, <1>4, <1>5, Router DEF GroupObject
<1>7. RegistriesOK'
    BY <1>1, <1>3, <1>4, <1>6 DEF IInv, RegistriesOK
<1>8. GroupStateIsReal'
    BY <1>1, <1>4, <1>6 DEF IInv, GroupStateIsReal
<1>9. \A x \in DOMAIN groups : groups'[x].last_scene_address = groups[x].last_scene_address
    BY <1>4, <1>6
<1>10. SubscribersOK'
    BY <1>3, <1>4 DEF IInv, SubscribersOK
<1>11. SubscribersTold'
  <2>1. SUFFICES ASSUME NEW x \in subscribed \ unheard
                 PROVE  told[x] = Shown(groups', devices, x)
    BY <1>3 DEF SubscribersTold
  <2>2. x \in GroupIds => x \in DOMAIN groups
    BY Router DEF IInv, SubscribersOK, RegistriesOK
  <2> QED
    BY <1>9, <2>1, <2>2 DEF IInv, SubscribersTold, Shown
<1>12. QueriesOK'
    BY <1>1, <1>3, <1>4, QueriesEnd DEF IInv
<1> QED
    BY <1>1, <1>7, <1>8, <1>10, <1>11, <1>12 DEF IInv

(* What the router says of a group's last scene is what the code decodes. *)
LEMMA ReplyDecoded ==
    ASSUME NEW g \in RouterGroups
    PROVE  blockscene_to_block_and_scene(RouterReply(g)) = RouterLastScene[g]
<1>1. CASE RouterLastScene[g] = <<>>
    BY <1>1 DEF RouterReply, blockscene_to_block_and_scene, LAST_SCENE_NONE_SENTINEL
<1>2. CASE RouterLastScene[g] # <<>>
  <2>1. PICK block \in Blocks, scene \in SceneNumbers : RouterLastScene[g] = <<block, scene>>
    BY <1>2, Router DEF Scenes
  <2>2. RouterReply(g) = LastSceneReply(block, scene)
    BY <1>2, <2>1 DEF RouterReply
  <2> QED
    BY <2>1, <2>2, DecodeEncode
<1> QED
    BY <1>1, <1>2

(* A group's last scene *)
LEMMA LastSceneKeeps ==
    ASSUME IInv, NEW q \in queries, NEW o \in {"reply", "error"}, LastSceneKnown(q, o)
    PROVE  IInv'
<1> DEFINE g == q[2]
           scene == RouterLastScene[g]
           place == to_device_int(scene[1], scene[2])
<1>1. /\ ControlOK' /\ g \in DOMAIN groups /\ g \in RouterGroups /\ inits' = inits
    BY EndsKeeps DEF LastSceneKnown
<1>2. queries' \subseteq queries
    BY DEF LastSceneKnown
<1>3. \/ UNCHANGED <<groups, devices, subscribing>>
      \/ SetLastScene(g, RouterReply(g))
    BY DEF LastSceneKnown
<1>4. CASE UNCHANGED <<groups, devices, subscribing>>
  <2>1. QueriesOK'
    BY <1>1, <1>2, <1>4, QueriesEnd DEF IInv
  <2> QED
    BY <1>1, <1>4, <2>1, Untouched DEF IInv
<1>5. CASE ~UNCHANGED <<groups, devices, subscribing>>
  <2>1. blockscene_to_block_and_scene(RouterReply(g)) = scene
    BY <1>1, ReplyDecoded
  <2> DEFINE brought == Brought(g, place)
             raises == Raises(g)
  <2>2. /\ \A d \in brought : d \in DOMAIN devices \intersect Loads
                                /\ TableLevel[d][place] # Ignore
        /\ scene # <<>>
        /\ groups' = [groups EXCEPT ![g].last_scene_address = scene]
        /\ devices' = [d \in DOMAIN devices |->
                IF d \in brought THEN [devices[d] EXCEPT !.load_level = TableLevel[d][place]]
                                 ELSE devices[d]]
        /\ told' = Notified(brought \union IF raises THEN {} ELSE {g})
        /\ unheard' = IF raises /\ g \in subscribed THEN unheard \union {g} ELSE unheard \ {g}
        /\ subscribed' = subscribed
    <3>1. \A d \in brought : d \in DOMAIN devices \intersect Loads
                                /\ TableLevel[d][place] # Ignore
      BY DEF Brought
    <3> QED
      BY <1>3, <1>5, <2>1, <3>1 DEF SetLastScene, subscribing
  <2> HIDE DEF brought, raises
  <2>3. PICK block \in Blocks, number \in SceneNumbers : scene = <<block, number>>
    BY <1>1, <2>2, Router DEF Scenes
  <2>4. /\ DOMAIN groups' = DOMAIN groups
        /\ \A h \in DOMAIN groups \ {g} : groups'[h] = groups[h]
        /\ groups'[g] = [groups[g] EXCEPT !.last_scene_address = scene]
    BY <1>1, <2>2
  <2>5. groups[g] \in GroupObject /\ scene \in Scenes
    BY <1>1, Router DEF IInv, RegistriesOK
  <2>6. /\ groups'[g] \in GroupObject /\ groups'[g].devices = groups[g].devices
        /\ groups'[g].last_scene_address = scene
    BY <2>4, <2>5 DEF GroupObject
  <2>7. ASSUME NEW d \in DOMAIN devices
        PROVE  /\ devices'[d] \in DeviceObject
               /\ d \notin brought => devices'[d] = devices[d]
    <3>1. devices[d] \in DeviceObject
      BY DEF IInv, RegistriesOK
    <3>2. CASE d \in brought
      <4>1. d \in Loads /\ TableLevel[d][place] \in 0..100
        BY <2>2, <2>3, <3>2, TableLevels
      <4>2. devices'[d] = [devices[d] EXCEPT !.load_level = TableLevel[d][place]]
        BY <2>2, <3>2
      <4> HIDE DEF place
      <4> QED
        BY <3>1, <3>2, <4>1, <4>2 DEF DeviceObject
    <3>3. CASE d \notin brought
      BY <2>2, <3>1, <3>3
    <3> QED
      BY <3>2, <3>3
  <2>8. DOMAIN devices' = DOMAIN devices
    BY <2>2
  <2>9. RegistriesOK'
    BY <1>1, <2>4, <2>6, <2>7, <2>8 DEF IInv, RegistriesOK
  <2>10. GroupStateIsReal'
    BY <1>1, <2>4, <2>6 DEF IInv, GroupStateIsReal
  <2>11. QueriesOK'
    BY <1>1, <1>2, <2>4, <2>8, QueriesEnd DEF IInv
  <2>12. /\ DOMAIN told' = Watched
         /\ \A x \in Watched : told'[x] =
                IF x \in (brought \union IF raises THEN {} ELSE {g}) \intersect subscribed
                  THEN Shown(groups', devices', x) ELSE told[x]
    BY <2>2 DEF Notified
  <2>13. SubscribersOK'
    BY <1>1, <2>2, <2>4, <2>8, <2>12, Router DEF IInv, SubscribersOK
  <2>14. SubscribersTold'
    <3>1. SUFFICES ASSUME NEW x \in subscribed, x \notin unheard'
                   PROVE  told'[x] = Shown(groups', devices', x)
      BY <2>2 DEF SubscribersTold
    <3>2. x \in Watched /\ (x \in GroupIds => x \in DOMAIN groups)
          /\ (x \notin GroupIds => x \in DOMAIN devices)
      BY Router DEF IInv, SubscribersOK, RegistriesOK
    <3>3. CASE x = g
      <4>1. ~raises
        BY <2>2, <3>1, <3>3
      <4> QED
        BY <2>12, <3>2, <3>3, <4>1
    <3>4. CASE x # g
      <4>1. x \notin unheard
        BY <2>2, <3>1, <3>4
      <4>2. told[x] = Shown(groups, devices, x)
        BY <4>1 DEF IInv, SubscribersTold
      <4>3. x \notin brought => Shown(groups', devices', x) = Shown(groups, devices, x)
        BY <2>4, <2>7, <3>2, <3>4 DEF Shown
      <4> QED
        BY <2>12, <3>2, <3>4, <4>2, <4>3
    <3> QED
      BY <3>3, <3>4
  <2> QED
    BY <1>1, <2>9, <2>10, <2>11, <2>13, <2>14 DEF IInv
<1> QED
    BY <1>4, <1>5

(* The devices of a subnet *)
LEMMA SubnetKeeps ==
    ASSUME IInv, NEW q \in queries, NEW o \in {"reply", "error"}, SubnetKnown(q, o)
    PROVE  IInv'
<1> DEFINE found == IF o = "reply" THEN {d \in DeviceIds : SubnetOf[d] = q[2]} ELSE {}
<1>1. ControlOK' /\ inits' = inits /\ QueryOK(q)
    BY EndsKeeps DEF SubnetKnown
<1>2. found \subseteq DeviceIds
    OBVIOUS
<1>3. /\ devices' = [d \in DOMAIN devices \union found |->
                        IF d \in found THEN NewDevice ELSE devices[d]]
      /\ groups' = groups /\ Replaced(found)
    BY DEF SubnetKnown
<1>4. queries' = (queries \ {q})
                \union {<<"state", d, q[3]>> : d \in found}
                \union {<<p[1], p[2], q[3]>> :
                            p \in {"load level", "scene table"} \X (found \intersect Loads)}
    BY DEF SubnetKnown
<1> HIDE DEF found
<1>5. /\ DOMAIN devices' = DOMAIN devices \union found
      /\ \A d \in DOMAIN devices' : devices'[d] = IF d \in found THEN NewDevice ELSE devices[d]
    BY <1>3
<1>6. RegistriesOK'
  <2>1. NewDevice \in DeviceObject
    BY DEF NewDevice, DeviceObject
  <2> QED
    BY <1>2, <1>3, <1>5, <2>1 DEF IInv, RegistriesOK
<1>7. ASSUME NEW r \in queries'
      PROVE  QueryOK(r)'
  <2>1. q[3] \in 1..inits'
    BY <1>1 DEF QueryOK
  <2>2. CASE r \in queries
    BY <1>1, <1>3, <1>5, <2>2 DEF IInv, QueriesOK, QueryOK
  <2>3. ASSUME NEW d \in found, r = <<"state", d, q[3]>>
        PROVE  QueryOK(r)'
    <3>1. r[1] = "state" /\ r[2] = d /\ r[3] = q[3] /\ d \in DOMAIN devices'
      BY <1>5, <2>3
    <3> QED
      BY <2>1, <2>3, <3>1 DEF QueryOK, Kinds
  <2>4. ASSUME NEW p \in {"load level", "scene table"} \X (found \intersect Loads),
               r = <<p[1], p[2], q[3]>>
        PROVE  QueryOK(r)'
    <3>1. /\ r[1] = p[1] /\ r[2] = p[2] /\ r[3] = q[3]
          /\ p[1] \in {"load level", "scene table"} /\ p[2] \in DOMAIN devices' \intersect Loads
      BY <1>5, <2>4
    <3> QED
      BY <2>1, <2>4, <3>1 DEF QueryOK, Kinds
  <2> QED
    BY <1>4, <2>2, <2>3, <2>4
<1>8. /\ subscribed' = subscribed \ found /\ unheard' = unheard \ found
      /\ DOMAIN told' = Watched
      /\ \A x \in Watched : told'[x] = IF x \in found THEN None ELSE told[x]
    BY <1>3 DEF Replaced
<1>9. SubscribersOK'
    BY <1>3, <1>5, <1>8 DEF IInv, SubscribersOK
<1>10. SubscribersTold'
  <2>1. SUFFICES ASSUME NEW x \in subscribed' \ unheard'
                 PROVE  told'[x] = Shown(groups', devices', x)
    BY DEF SubscribersTold
  <2>2. x \in subscribed /\ x \notin unheard /\ x \notin found /\ x \in Watched
        /\ (x \notin GroupIds => x \in DOMAIN devices)
    BY <1>2, <1>8, Router, <2>1 DEF IInv, SubscribersOK, RegistriesOK
  <2>3. x \notin GroupIds => devices'[x] = devices[x]
    BY <1>5, <2>2
  <2>4. Shown(groups', devices', x) = Shown(groups, devices, x)
    BY <1>3, <2>3 DEF Shown
  <2>5. told'[x] = told[x]
    BY <1>8, <2>2
  <2> QED
    BY <2>2, <2>4, <2>5 DEF IInv, SubscribersTold
<1>11. GroupStateIsReal'
    BY <1>3 DEF IInv, GroupStateIsReal
<1> QED
    BY <1>1, <1>6, <1>7, <1>9, <1>10, <1>11 DEF IInv, QueriesOK

(* What is queried of a device *)
LEMMA DeviceKeeps ==
    ASSUME IInv, NEW q \in queries, NEW o \in {"reply", "error"}, DeviceKnown(q, o)
    PROVE  IInv'
<1> DEFINE d == q[2]
<1>1. PICK kind \in {"state", "load level", "scene table"} :
        /\ Ends(q, kind, o)
        /\ devices' =
             CASE kind = "state" ->
                    [devices EXCEPT ![d].state = IF o = "reply" THEN "state" ELSE ErrorCode]
               [] kind = "load level" ->
                    [devices EXCEPT ![d].load_level =
                        IF o = "reply" THEN RouterLevel[d] ELSE ErrorCode]
               [] OTHER -> IF o = "reply" THEN [devices EXCEPT ![d].levels = TRUE]
                           ELSE devices
        /\ told' = IF kind = "scene table" THEN told ELSE Notified({d})
    BY DEF DeviceKnown
<1>2. queries' \subseteq queries /\ UNCHANGED <<groups, subscribed, unheard>>
    BY DEF DeviceKnown
<1>3. ControlOK' /\ inits' = inits /\ QueryOK(q) /\ q[1] = kind
    BY <1>1, EndsKeeps
<1>4. d \in DOMAIN devices /\ (kind \in {"load level", "scene table"} => d \in Loads)
    BY <1>3 DEF QueryOK
<1>5. devices[d] \in DeviceObject
    BY <1>4 DEF IInv, RegistriesOK
<1>6. /\ DOMAIN devices' = DOMAIN devices
      /\ \A x \in DOMAIN devices \ {d} : devices'[x] = devices[x]
      /\ devices'[d] \in DeviceObject
      /\ kind = "scene table" => /\ devices'[d].state = devices[d].state
                                 /\ devices'[d].load_level = devices[d].load_level
  <2>1. CASE kind = "state"
    <3>1. devices' = [devices EXCEPT ![d].state = IF o = "reply" THEN "state" ELSE ErrorCode]
      BY <1>1, <2>1
    <3> QED
      BY <1>4, <1>5, <2>1, <3>1 DEF DeviceObject
  <2>2. CASE kind = "load level"
    <3>1. devices' = [devices EXCEPT ![d].load_level =
                        IF o = "reply" THEN RouterLevel[d] ELSE ErrorCode]
      BY <1>1, <2>2
    <3>2. RouterLevel[d] \in 0..100
      BY <1>4, <2>2, Router
    <3> QED
      BY <1>4, <1>5, <2>2, <3>1, <3>2 DEF DeviceObject
  <2>3. CASE kind = "scene table"
    <3>1. devices' = [devices EXCEPT ![d].levels = TRUE] \/ devices' = devices
      BY <1>1, <2>3
    <3> QED
      BY <1>4, <1>5, <2>3, <3>1 DEF DeviceObject
  <2> QED
    BY <2>1, <2>2, <2>3
<1>7. RegistriesOK' /\ GroupStateIsReal'
    BY <1>2, <1>4, <1>6 DEF IInv, RegistriesOK, GroupStateIsReal
<1>8. QueriesOK'
    BY <1>2, <1>3, <1>6, QueriesEnd DEF IInv
<1>9. /\ DOMAIN told' = Watched
      /\ \A x \in Watched : told'[x] =
            IF x \in {d} \intersect subscribed /\ kind # "scene table"
              THEN Shown(groups', devices', x) ELSE told[x]
    BY <1>1 DEF Notified, IInv, SubscribersOK
<1>10. SubscribersOK'
    BY <1>2, <1>6, <1>9 DEF IInv, SubscribersOK
<1>11. SubscribersTold'
  <2>1. SUFFICES ASSUME NEW x \in subscribed \ unheard
                 PROVE  told'[x] = Shown(groups', devices', x)
    BY <1>2 DEF SubscribersTold
  <2>2. x \in Watched /\ (x \notin GroupIds => x \in DOMAIN devices)
        /\ told[x] = Shown(groups, devices, x)
    BY Router DEF IInv, SubscribersOK, RegistriesOK, SubscribersTold
  <2>3. \/ x = d /\ kind # "scene table"
        \/ Shown(groups', devices', x) = Shown(groups, devices, x)
    BY <1>2, <1>6, <2>2 DEF Shown
  <2> QED
    BY <1>9, <2>2, <2>3
<1> QED
    BY <1>3, <1>7, <1>8, <1>10, <1>11 DEF IInv

-----------------------------------------------------------------------------
(* The application *)
LEMMA SubscriptionKeeps ==
    ASSUME IInv, NEW x \in Watched, register_subscription(x) \/ unregister_subscription(x)
    PROVE  IInv'
<1>1. UNCHANGED <<phase, toName, names, named, groups, devices, queries, inits, faults>>
    BY DEF register_subscription, unregister_subscription
<1>2. ControlOK' /\ RegistriesOK' /\ GroupStateIsReal'
    BY <1>1 DEF IInv, ControlOK, RegistriesOK, GroupStateIsReal
<1>3. QueriesOK'
    BY <1>1, QueriesEnd DEF IInv
<1>4. CASE register_subscription(x)
  <2>1. /\ x \in DOMAIN groups \union DOMAIN devices
        /\ subscribed' = subscribed \union {x} /\ unheard' = unheard \ {x}
        /\ told' = [told EXCEPT ![x] = Shown(groups, devices, x)]
    BY <1>4 DEF register_subscription
  <2>2. SubscribersOK' /\ SubscribersTold'
    BY <1>1, <2>1 DEF IInv, SubscribersOK, SubscribersTold
  <2> QED
    BY <1>2, <1>3, <2>2 DEF IInv
<1>5. CASE unregister_subscription(x)
  <2>1. /\ subscribed' = subscribed \ {x} /\ unheard' = unheard
        /\ told' = [told EXCEPT ![x] = None]
    BY <1>5 DEF unregister_subscription
  <2>2. SubscribersOK' /\ SubscribersTold'
    BY <1>1, <2>1 DEF IInv, SubscribersOK, SubscribersTold
  <2> QED
    BY <1>2, <1>3, <2>2 DEF IInv
<1> QED
    BY <1>4, <1>5

LEMMA NextKeeps == IInv /\ [Next]_vars => IInv'
<1> SUFFICES ASSUME IInv, [Next]_vars PROVE IInv'
    OBVIOUS
<1>1. ASSUME Proceed PROVE IInv'
    BY <1>1, GroupsKeeps, NamesKeep, NamesDoneKeeps DEF Proceed
<1>2. ASSUME NEW q \in queries, Answered(q) \/ Unanswered(q) PROVE IInv'
    BY <1>2, GroupKeeps, LastSceneKeeps, SubnetKeeps, DeviceKeeps, UnansweredKeeps DEF Answered
<1>3. CASE UNCHANGED vars
  <2>1. /\ UNCHANGED <<groups, devices, subscribing>> /\ queries' = queries
        /\ UNCHANGED <<phase, toName, names, named, inits, faults>>
    BY <1>3 DEF vars
  <2>2. ControlOK'
    BY <2>1 DEF IInv, ControlOK
  <2>3. QueriesOK'
    BY <2>1, QueriesEnd DEF IInv
  <2> QED
    BY <2>1, <2>2, <2>3, Untouched DEF IInv
<1> QED
    BY <1>1, <1>2, <1>3, InitializeKeeps, SubscriptionKeeps DEF Next

THEOREM Invariance == Spec => []IInv
<1> QED
    BY InitEstablishes, NextKeeps, PTL DEF Spec

-----------------------------------------------------------------------------
(* No error reply becomes the name, a member or the last scene of a group, nor
   a scene table, and the queries under way are of a call of initialize. *)
THEOREM TypeCorrect == Spec => []TypeOK
<1>1. IInv => TypeOK
  <2> SUFFICES ASSUME IInv PROVE TypeOK
    OBVIOUS
  <2>1. ASSUME NEW g \in DOMAIN groups PROVE IsGroup(groups[g])
    <3>1. groups[g] \in GroupObject
      BY DEF IInv, RegistriesOK
    <3> QED
      BY <3>1, ElementOfSeq DEF GroupObject, IsGroup
  <2>2. ASSUME NEW d \in DOMAIN devices PROVE IsDevice(devices[d])
    BY DEF IInv, RegistriesOK, DeviceObject, IsDevice
  <2> QED
    BY <2>1, <2>2 DEF IInv, ControlOK, RegistriesOK, QueriesOK, QueryOK, SubscribersOK, TypeOK
<1> QED
    BY <1>1, Invariance, PTL

(* Whichever queries fail, whenever their replies come and however often
   initialize is called, a group of the router has the router's members and last
   scene, or none yet. *)
THEOREM GroupStateReal == Spec => []GroupStateIsReal
<1>1. IInv => GroupStateIsReal
    BY DEF IInv
<1> QED
    BY <1>1, Invariance, PTL

(* In whatever order replies and subscriptions come, the subscriber of an object
   has seen what it shows, unless the callback for a last scene raised. *)
THEOREM NobodyIsMissed == Spec => []SubscribersTold
<1>1. IInv => SubscribersTold
    BY DEF IInv
<1> QED
    BY <1>1, Invariance, PTL

-----------------------------------------------------------------------------
(* What only the first call of initialize can rely on: it begins with empty
   registries, and each subnet is registered once. *)
FirstCall ==
    inits <= 1 =>
        /\ inits = 0 \/ phase = "groups" =>
                DOMAIN groups = {} /\ DOMAIN devices = {} /\ queries = {}
        /\ \A q \in queries : q[1] = "subnet" => \A d \in DOMAIN devices : SubnetOf[d] # q[2]

(* A subnet that becomes known has no device that is registered. *)
LEMMA SubnetIsNew ==
    ASSUME IInv, FirstCall, inits <= 1, NEW q \in queries, NEW o \in {"reply", "error"},
           SubnetKnown(q, o)
    PROVE  /\ \E found \in SUBSET DeviceIds :
                /\ \A d \in found : SubnetOf[d] = q[2] /\ d \notin DOMAIN devices
                /\ DOMAIN devices' = DOMAIN devices \union found
                /\ subscribed' = subscribed \ found
           /\ \A r \in queries' : r[1] = "subnet" => r \in queries /\ r # q
           /\ q[1] = "subnet" /\ UNCHANGED <<phase, inits, groups>>
<1> DEFINE found == IF o = "reply" THEN {d \in DeviceIds : SubnetOf[d] = q[2]} ELSE {}
<1>1. /\ DOMAIN devices' = DOMAIN devices \union found
      /\ subscribed' = subscribed \ found
    BY DEF SubnetKnown, Replaced
<1>2. queries' = (queries \ {q})
                \union {<<"state", d, q[3]>> : d \in found}
                \union {<<p[1], p[2], q[3]>> :
                            p \in {"load level", "scene table"} \X (found \intersect Loads)}
    BY DEF SubnetKnown
<1>3. q[1] = "subnet" /\ UNCHANGED <<phase, inits, groups>>
    BY DEF SubnetKnown, Ends
<1>4. found \in SUBSET DeviceIds /\ \A d \in found : SubnetOf[d] = q[2]
    OBVIOUS
<1>5. \A d \in DOMAIN devices : SubnetOf[d] # q[2]
    BY <1>3 DEF FirstCall
<1> HIDE DEF found
<1>6. \A r \in queries' : r[1] = "subnet" => r \in queries /\ r # q
  <2>1. \A d \in found : <<"state", d, q[3]>>[1] # "subnet"
    OBVIOUS
  <2>2. \A p \in {"load level", "scene table"} \X (found \intersect Loads) :
            <<p[1], p[2], q[3]>>[1] # "subnet"
    OBVIOUS
  <2> QED
    BY <1>2, <2>1, <2>2
<1> QED
    BY <1>1, <1>3, <1>4, <1>5, <1>6

LEMMA FirstCallKeeps ==
    ASSUME IInv, FirstCall, [Next]_vars
    PROVE  FirstCall'
<1> SUFFICES ASSUME inits' <= 1 PROVE FirstCall'
    BY DEF FirstCall
<1>1. inits \in Nat /\ (phase # "idle" => inits > 0)
    BY DEF IInv, ControlOK
<1>2. CASE Initialize
    BY <1>1, <1>2 DEF Initialize, FirstCall
<1>3. ASSUME NEW o \in {"reply", "error"}, GroupsAnswered(o)
      PROVE  FirstCall'
  <2>1. phase = "groups" /\ phase' = "names" /\ UNCHANGED <<devices, inits>>
    BY <1>3 DEF GroupsAnswered, Register
  <2> QED
    BY <1>1, <2>1 DEF FirstCall
<1>4. CASE GroupsUnanswered \/ NamesDone \/ \E g \in toName : NamesAnswered(g) \/ NamesUnanswered(g)
  <2>1. /\ UNCHANGED <<groups, devices, queries, inits>>
        /\ phase # "idle" /\ phase' # "groups"
    BY <1>4 DEF GroupsUnanswered, NamesDone, NamesAnswered, NamesUnanswered
  <2> QED
    BY <1>1, <2>1 DEF FirstCall
<1>5. ASSUME NEW q \in queries, NEW o \in {"reply", "error"}, SubnetKnown(q, o)
      PROVE  FirstCall'
  <2>1. UNCHANGED <<phase, inits, groups>> /\ q[1] = "subnet"
    BY <1>5 DEF SubnetKnown, Ends
  <2>2. PICK found \in SUBSET DeviceIds :
            /\ \A d \in found : SubnetOf[d] = q[2] /\ d \notin DOMAIN devices
            /\ DOMAIN devices' = DOMAIN devices \union found
    BY <1>5, <2>1, SubnetIsNew
  <2>3. \A r \in queries' : r[1] = "subnet" => r \in queries /\ r # q
    BY <1>5, <2>1, SubnetIsNew
  <2>4. ASSUME NEW r \in queries, r[1] = "subnet", r # q
        PROVE  r[2] # q[2]
    <3>1. /\ r = <<r[1], r[2], r[3]>> /\ r[3] \in 1..inits
          /\ q = <<q[1], q[2], q[3]>> /\ q[3] \in 1..inits
      BY DEF IInv, QueriesOK, QueryOK
    <3>2. r[3] = q[3]
      BY <1>1, <2>1, <3>1
    <3> QED
      BY <2>1, <2>4, <3>1, <3>2
  <2>5. ~(inits = 0 \/ phase = "groups")
    BY <2>1 DEF FirstCall
  <2>6. ASSUME NEW r \in queries', r[1] = "subnet", NEW d \in DOMAIN devices'
        PROVE  SubnetOf[d] # r[2]
    <3>1. r \in queries /\ r[2] # q[2]
      BY <2>3, <2>4, <2>6
    <3>2. CASE d \in DOMAIN devices
      BY <2>1, <2>6, <3>1, <3>2 DEF FirstCall
    <3>3. CASE d \in found
      BY <2>2, <3>1, <3>3
    <3> QED
      BY <2>2, <2>6, <3>2, <3>3
  <2> QED
    BY <2>1, <2>5, <2>6 DEF FirstCall
<1>6. ASSUME NEW q \in queries, NEW o \in {"reply", "error"},
             \/ GroupNamed(q, o) \/ MembersKnown(q, o) \/ LastSceneKnown(q, o)
             \/ DeviceKnown(q, o) \/ Unanswered(q)
      PROVE  FirstCall'
  <2>1. UNCHANGED <<phase, inits>> /\ queries' \subseteq queries
    BY <1>6 DEF GroupNamed, MembersKnown, LastSceneKnown, DeviceKnown, Unanswered, Ends
  <2>2. DOMAIN devices' = DOMAIN devices
    <3>1. CASE GroupNamed(q, o) \/ MembersKnown(q, o) \/ Unanswered(q)
      BY <3>1 DEF GroupNamed, MembersKnown, Unanswered
    <3>2. CASE LastSceneKnown(q, o)
      BY <3>2 DEF LastSceneKnown, SetLastScene
    <3>3. CASE DeviceKnown(q, o)
      BY <3>3 DEF DeviceKnown
    <3> QED
      BY <1>6, <3>1, <3>2, <3>3
  <2>3. ~(inits = 0 \/ phase = "groups")
    BY <2>1 DEF FirstCall
  <2> QED
    BY <2>1, <2>2, <2>3 DEF FirstCall
<1>7. CASE UNCHANGED vars \/ \E x \in Watched : register_subscription(x) \/ unregister_subscription(x)
  <2>1. UNCHANGED <<phase, inits, groups, devices, queries>>
    BY <1>7 DEF vars, register_subscription, unregister_subscription
  <2> QED
    BY <2>1 DEF FirstCall
<1> QED
    BY <1>2, <1>3, <1>4, <1>5, <1>6, <1>7 DEF Next, Proceed, Answered

(* The groups of the reply are new objects, each with its queries. *)
LEMMA GroupsRenewed ==
    ASSUME NEW o \in {"reply", "error"}, GroupsAnswered(o), NEW x \in subscribed \ subscribed'
    PROVE  Renewed(x)
<1> DEFINE ids == IF o = "reply" THEN RouterGroups ELSE {ErrorGroup}
<1>1. Register(ids)
    BY DEF GroupsAnswered
<1>2. ids \subseteq GroupIds
    BY DEF GroupIds
<1> HIDE DEF ids
<1>3. x \in ids
    BY <1>1 DEF Register, Replaced
<1>4. groups'[x] = NewGroup
    BY <1>1, <1>3 DEF Register
<1>5. ASSUME NEW kind \in {"name", "members", "last scene"}
      PROVE  Query(kind, x) \in queries'
  <2> DEFINE p == <<kind, x>>
  <2>1. p \in {"name", "members", "last scene"} \X ids /\ p[1] = kind /\ p[2] = x
    BY <1>3
  <2>2. Query(p[1], p[2]) \in queries'
    BY <1>1, <2>1 DEF Register
  <2> QED
    BY <2>1, <2>2
<1> QED
    BY <1>2, <1>3, <1>4, <1>5 DEF Renewed

(* The devices of a subnet are new objects, each with its queries. *)
LEMMA DevicesRenewed ==
    ASSUME IInv, NEW q \in queries, NEW o \in {"reply", "error"}, SubnetKnown(q, o),
           NEW x \in subscribed \ subscribed'
    PROVE  Renewed(x)
<1> DEFINE found == IF o = "reply" THEN {d \in DeviceIds : SubnetOf[d] = q[2]} ELSE {}
           kinds == IF x \in Loads THEN {"state", "load level", "scene table"} ELSE {"state"}
<1>1. /\ devices' = [d \in DOMAIN devices \union found |->
                        IF d \in found THEN NewDevice ELSE devices[d]]
      /\ queries' = (queries \ {q})
                \union {<<"state", d, q[3]>> : d \in found}
                \union {<<p[1], p[2], q[3]>> :
                            p \in {"load level", "scene table"} \X (found \intersect Loads)}
      /\ subscribed' = subscribed \ found
    BY DEF SubnetKnown, Replaced
<1>2. found \subseteq DeviceIds
    OBVIOUS
<1> HIDE DEF found
<1>3. x \in found /\ x \notin GroupIds
    BY <1>1, <1>2, Router
<1>4. devices'[x] = NewDevice
    BY <1>1, <1>3
<1>5. q[3] \in 1..inits
    BY DEF IInv, QueriesOK, QueryOK
<1>6. <<"state", x, q[3]>> \in queries'
    BY <1>1, <1>3
<1>7. ASSUME x \in Loads, NEW kind \in {"load level", "scene table"}
      PROVE  <<kind, x, q[3]>> \in queries'
  <2> DEFINE p == <<kind, x>>
  <2>1. /\ p \in {"load level", "scene table"} \X (found \intersect Loads)
        /\ p[1] = kind /\ p[2] = x
    BY <1>3, <1>7
  <2>2. <<p[1], p[2], q[3]>> \in queries'
    BY <1>1, <2>1
  <2> QED
    BY <2>1, <2>2
<1>8. \A kind \in kinds : <<kind, x, q[3]>> \in queries'
    BY <1>6, <1>7
<1> QED
    BY <1>3, <1>4, <1>5, <1>8 DEF Renewed

LEMMA OnlyUnsubscribed ==
    ASSUME IInv, FirstCall, [Next]_vars, NEW x \in subscribed \ subscribed'
    PROVE  unregister_subscription(x) \/ (inits > 1 /\ Renewed(x))
<1>1. /\ x \in DOMAIN groups \union DOMAIN devices /\ DOMAIN groups \subseteq GroupIds
      /\ inits \in Nat
    BY DEF IInv, SubscribersOK, RegistriesOK, ControlOK
<1>2. ASSUME NEW o \in {"reply", "error"}, GroupsAnswered(o)
      PROVE  inits > 1 /\ Renewed(x)
  <2>1. phase = "groups"
    BY <1>2 DEF GroupsAnswered
  <2>2. inits > 1
    BY <1>1, <2>1 DEF FirstCall
  <2> QED
    BY <1>2, <2>2, GroupsRenewed
<1>3. ASSUME NEW q \in queries, NEW o \in {"reply", "error"}, SubnetKnown(q, o)
      PROVE  inits > 1 /\ Renewed(x)
  <2>1. ASSUME inits <= 1 PROVE FALSE
    <3>1. PICK found \in SUBSET DeviceIds :
            /\ \A d \in found : SubnetOf[d] = q[2] /\ d \notin DOMAIN devices
            /\ subscribed' = subscribed \ found
      BY <1>3, <2>1, SubnetIsNew
    <3> QED
      BY <1>1, <3>1, Router
  <2>2. inits > 1
    BY <1>1, <2>1
  <2> QED
    BY <1>3, <2>2, DevicesRenewed
<1>4. CASE Initialize \/ GroupsUnanswered \/ NamesDone
           \/ \E g \in toName : NamesAnswered(g) \/ NamesUnanswered(g)
    BY <1>4 DEF Initialize, GroupsUnanswered, NamesDone, NamesAnswered, NamesUnanswered, subscribing
<1>5. ASSUME NEW q \in queries, NEW o \in {"reply", "error"},
             GroupNamed(q, o) \/ MembersKnown(q, o) \/ DeviceKnown(q, o) \/ Unanswered(q)
      PROVE  FALSE
    BY <1>5 DEF GroupNamed, MembersKnown, DeviceKnown, Unanswered, subscribing
<1>6. ASSUME NEW q \in queries, NEW o \in {"reply", "error"}, LastSceneKnown(q, o)
      PROVE  FALSE
    BY <1>6 DEF LastSceneKnown, SetLastScene, subscribing
<1>7. ASSUME NEW y \in Watched, register_subscription(y) \/ unregister_subscription(y)
      PROVE  unregister_subscription(x)
    BY <1>7 DEF register_subscription, unregister_subscription
<1>8. CASE UNCHANGED vars
    BY <1>8 DEF vars, subscribing
<1> QED
    BY <1>2, <1>3, <1>4, <1>5, <1>6, <1>7, <1>8 DEF Next, Proceed, Answered

(* During the first initialize nothing but the application ends a subscription,
   however late a group or a subnet becomes known; a later one ends it only by
   putting a new object in place of the old, whose queries are all under way. *)
THEOREM NoSubscriptionLost == Spec => SubscriptionsKept
<1>1. Init => FirstCall
    BY DEF Init, FirstCall
<1>2. IInv /\ FirstCall /\ [Next]_vars => FirstCall'
    BY FirstCallKeeps
<1>3. IInv /\ FirstCall /\ [Next]_vars =>
        [\A x \in subscribed \ subscribed' :
            unregister_subscription(x) \/ (inits > 1 /\ Renewed(x))]_vars
    BY OnlyUnsubscribed
<1> QED
    BY <1>1, <1>2, <1>3, Invariance, PTL DEF Spec, SubscriptionsKept

-----------------------------------------------------------------------------
(* What is missing is on its way, as long as nothing has failed: a value that
   is not in the registries yet has a query under way that brings it, of this
   or of an earlier call of initialize. *)
Pending(kind, x) == \E q \in queries : q[1] = kind /\ q[2] = x

GroupComing(g) ==
    /\ groups[g].name = "name" \/ Pending("name", g)
    /\ groups[g].devices = RouterMembers[g] \/ Pending("members", g)
    /\ groups[g].last_scene_address = RouterLastScene[g] \/ Pending("last scene", g)

(* The levels that the router's reply or a last scene can give a load *)
LevelsOf(d) == {RouterLevel[d]} \union
    {SceneLevel(g, d) : g \in {h \in RouterGroups : d \in Range(RouterMembers[h])}}

DeviceComing(d) ==
    /\ SubnetOf[d] \in Subnets
    /\ devices[d].state = "state" \/ Pending("state", d)
    /\ d \in Loads => /\ devices[d].levels \/ Pending("scene table", d)
                      /\ devices[d].load_level \in LevelsOf(d) \/ Pending("load level", d)

(* The groups initialize has registered, and the scene names it collects *)
NamesComing ==
    /\ phase # "failed" /\ named \subseteq RouterGroups
    /\ DOMAIN groups \subseteq RouterGroups
    /\ phase \in {"names", "done"} => DOMAIN groups = RouterGroups
    /\ phase = "names" => toName \subseteq RouterGroups \union {None}
                          /\ RouterGroups \subseteq names \union toName
    /\ phase = "done" => named = RouterGroups

SubnetsComing ==
    phase \in {"names", "done"} =>
        \A d \in DeviceIds : SubnetOf[d] \in Subnets =>
            d \in DOMAIN devices \/ Pending("subnet", SubnetOf[d])

Coming ==
    faults = 0 => /\ NamesComing /\ SubnetsComing
                  /\ \A g \in DOMAIN groups : GroupComing(g)
                  /\ \A d \in DOMAIN devices : DeviceComing(d)

(* A query that has not ended still brings what it is about. *)
LEMMA StillPending ==
    ASSUME NEW q, queries \ {q} \subseteq queries',
           NEW kind, NEW x, Pending(kind, x), ~(q[1] = kind /\ q[2] = x)
    PROVE  Pending(kind, x)'
BY DEF Pending

LEMMA PendingKept ==
    ASSUME queries \subseteq queries', NEW kind, NEW x, Pending(kind, x)
    PROVE  Pending(kind, x)'
BY DEF Pending

LEMMA NoFault ==
    ASSUME IInv, faults' = 0, NEW o, Outcome(o)
    PROVE  o = "reply" /\ faults = 0 /\ faults' = faults
BY DEF IInv, ControlOK, Outcome, Fault

LEMMA AFault ==
    ASSUME IInv, Fault
    PROVE  faults' # 0
BY DEF IInv, ControlOK, Fault

-----------------------------------------------------------------------------
(* Groups and devices that stay as they are *)
LEMMA GroupStays ==
    ASSUME NEW g, GroupComing(g), groups'[g] = groups[g], NEW q, queries \ {q} \subseteq queries',
           q[2] # g \/ q[1] \notin {"name", "members", "last scene"}
    PROVE  GroupComing(g)'
<1>1. \A kind \in {"name", "members", "last scene"} : Pending(kind, g) => Pending(kind, g)'
    BY StillPending
<1> QED
    BY <1>1 DEF GroupComing

LEMMA DeviceStays ==
    ASSUME NEW d, DeviceComing(d), devices'[d] = devices[d], NEW q, queries \ {q} \subseteq queries',
           q[2] # d \/ q[1] \notin {"state", "load level", "scene table"}
    PROVE  DeviceComing(d)'
<1>1. \A kind \in {"state", "load level", "scene table"} : Pending(kind, d) => Pending(kind, d)'
    BY StillPending
<1> QED
    BY <1>1 DEF DeviceComing, LevelsOf, SceneLevel

LEMMA SubnetsStay ==
    ASSUME SubnetsComing, phase' = phase, DOMAIN devices \subseteq DOMAIN devices',
           NEW q, queries \ {q} \subseteq queries', q[1] # "subnet"
    PROVE  SubnetsComing'
<1>1. \A n : Pending("subnet", n) => Pending("subnet", n)'
    BY StillPending
<1> QED
    BY <1>1 DEF SubnetsComing

(* Steps that leave the registries and the queries alone *)
LEMMA RegistriesStay ==
    ASSUME UNCHANGED <<groups, devices, queries>>
    PROVE  /\ \A g : GroupComing(g) => GroupComing(g)'
           /\ \A d : DeviceComing(d) => DeviceComing(d)'
           /\ SubnetsComing /\ phase' = phase => SubnetsComing'
BY DEF GroupComing, DeviceComing, SubnetsComing, Pending, LevelsOf, SceneLevel

LEMMA ComingStays ==
    ASSUME Coming, UNCHANGED <<groups, devices, queries, faults, phase, toName, names, named>>
    PROVE  Coming'
<1>1. NamesComing => NamesComing'
    BY DEF NamesComing
<1> QED
    BY <1>1, RegistriesStay DEF Coming

-----------------------------------------------------------------------------
(* What initialize itself does *)
LEMMA InitializeComing ==
    ASSUME IInv, Coming, Initialize
    PROVE  Coming'
<1>1. UNCHANGED <<groups, devices, queries, faults, named>> /\ phase' = "groups"
    BY DEF Initialize
<1>2. NamesComing => NamesComing'
    BY <1>1 DEF NamesComing
<1>3. SubnetsComing'
    BY <1>1 DEF SubnetsComing
<1> QED
    BY <1>1, <1>2, <1>3, RegistriesStay DEF Coming

LEMMA GroupsComing ==
    ASSUME IInv, Coming, NEW o \in {"reply", "error"}, GroupsAnswered(o)
    PROVE  Coming'
<1> SUFFICES ASSUME faults' = 0
             PROVE  /\ NamesComing' /\ SubnetsComing'
                    /\ \A g \in DOMAIN groups' : GroupComing(g)'
                    /\ \A d \in DOMAIN devices' : DeviceComing(d)'
    BY DEF Coming
<1>1. faults = 0 /\ o = "reply" /\ phase = "groups" /\ Register(RouterGroups)
    BY NoFault DEF GroupsAnswered
<1>2. /\ NamesComing /\ SubnetsComing
      /\ \A g \in DOMAIN groups : GroupComing(g)
      /\ \A d \in DOMAIN devices : DeviceComing(d)
    BY <1>1 DEF Coming
<1>3. RouterGroups \union DOMAIN groups = RouterGroups
    BY <1>2 DEF NamesComing
<1>4. /\ groups' = [g \in RouterGroups |-> NewGroup]
      /\ toName' = RouterGroups \union {None} /\ named' = named \ RouterGroups
      /\ phase' = "names" /\ devices' = devices
    BY <1>1, <1>3 DEF Register
<1>5. queries' = queries
            \union {Query(p[1], p[2]) : p \in {"name", "members", "last scene"} \X RouterGroups}
            \union {Query("subnet", n) : n \in QueriedSubnets}
    BY <1>1 DEF Register
<1>6. \A kind \in {"name", "members", "last scene"}, g \in RouterGroups : Pending(kind, g)'
  <2>1. SUFFICES ASSUME NEW kind \in {"name", "members", "last scene"}, NEW g \in RouterGroups
                 PROVE  Pending(kind, g)'
    OBVIOUS
  <2>2. PICK p \in {"name", "members", "last scene"} \X RouterGroups : p[1] = kind /\ p[2] = g
    <3>1. <<kind, g>> \in {"name", "members", "last scene"} \X RouterGroups
      OBVIOUS
    <3> QED
      BY <3>1
  <2>3. Query(p[1], p[2]) \in queries'
    BY <1>5
  <2>4. Query(p[1], p[2])[1] = kind /\ Query(p[1], p[2])[2] = g
    BY <2>2 DEF Query
  <2> QED
    BY <2>2, <2>3, <2>4 DEF Pending
<1>7. \A n \in Subnets : Pending("subnet", n)'
  <2>1. SUFFICES ASSUME NEW n \in Subnets PROVE Pending("subnet", n)'
    OBVIOUS
  <2>2. Query("subnet", n) \in queries'
    BY <1>5 DEF QueriedSubnets, Subnets
  <2>3. Query("subnet", n)[1] = "subnet" /\ Query("subnet", n)[2] = n
    BY DEF Query
  <2> QED
    BY <2>2, <2>3 DEF Pending
<1>8. NamesComing'
    BY <1>2, <1>4 DEF NamesComing
<1>9. SubnetsComing'
    BY <1>4, <1>7 DEF SubnetsComing
<1>10. \A g \in DOMAIN groups' : GroupComing(g)'
    BY <1>4, <1>6 DEF GroupComing
<1>11. ASSUME NEW d \in DOMAIN devices' PROVE DeviceComing(d)'
  <2>1. \A kind : Pending(kind, d) => Pending(kind, d)'
    BY <1>5, PendingKept
  <2> QED
    BY <1>2, <1>4, <2>1 DEF DeviceComing, LevelsOf, SceneLevel
<1> QED
    BY <1>8, <1>9, <1>10, <1>11

LEMMA NamesAreComing ==
    ASSUME IInv, Coming,
           GroupsUnanswered \/ NamesDone \/ \E g \in toName : NamesAnswered(g) \/ NamesUnanswered(g)
    PROVE  Coming'
<1> SUFFICES ASSUME faults' = 0
             PROVE  /\ NamesComing' /\ SubnetsComing'
                    /\ \A g \in DOMAIN groups' : GroupComing(g)'
                    /\ \A d \in DOMAIN devices' : DeviceComing(d)'
    BY DEF Coming
<1>1. UNCHANGED <<groups, devices, queries>>
    BY DEF GroupsUnanswered, NamesDone, NamesAnswered, NamesUnanswered
<1>2. ~GroupsUnanswered /\ \A g \in toName : ~NamesUnanswered(g)
    BY AFault DEF GroupsUnanswered, NamesUnanswered
<1>3. faults = 0 /\ phase = "names"
    BY <1>2 DEF NamesDone, NamesAnswered
<1>4. /\ NamesComing /\ SubnetsComing
      /\ \A g \in DOMAIN groups : GroupComing(g)
      /\ \A d \in DOMAIN devices : DeviceComing(d)
    BY <1>3 DEF Coming
<1>5. NamesComing' /\ SubnetsComing'
  <2>1. CASE NamesDone
    <3>1. named' = RouterGroups /\ phase' = "done"
      BY <1>3, <1>4, <2>1 DEF NamesDone, NamesComing
    <3>2. SubnetsComing'
      BY <1>1, <1>3, <1>4, <3>1 DEF SubnetsComing, Pending
    <3> QED
      BY <1>1, <1>3, <1>4, <3>1, <3>2 DEF NamesComing
  <2>2. ASSUME NEW g \in toName, NamesAnswered(g)
        PROVE  NamesComing' /\ SubnetsComing'
    <3>1. UNCHANGED <<phase, named>> /\ toName' = toName \ {g}
      BY <2>2 DEF NamesAnswered
    <3>2. names \subseteq names' /\ (g \in RouterGroups => g \in names')
      <4>1. PICK more \in IF g = None THEN SUBSET RouterGroups ELSE {{g} \intersect RouterGroups} :
                names' = names \union more
        BY <2>2 DEF NamesAnswered
      <4>2. g \in RouterGroups => g # None
        BY DiscoveryAssumption DEF GroupIds
      <4> QED
        BY <4>1, <4>2
    <3>3. NamesComing'
      BY <1>1, <1>3, <1>4, <3>1, <3>2 DEF NamesComing
    <3> QED
      BY <1>1, <1>4, <3>1, <3>3, RegistriesStay
  <2> QED
    BY <1>2, <2>1, <2>2
<1> QED
    BY <1>1, <1>4, <1>5, RegistriesStay

(* With nothing failed, no query is about a group the router does not have. *)
LEMMA NoUnanswered ==
    ASSUME IInv, Coming, NEW q \in queries, Unanswered(q)
    PROVE  faults' # 0
<1> SUFFICES ASSUME faults' = 0 PROVE FALSE
    OBVIOUS
<1>1. q[2] = ErrorGroup /\ faults = 0
    BY AFault DEF Unanswered
<1>2. QueryOK(q) /\ DOMAIN groups \subseteq RouterGroups
    BY <1>1 DEF IInv, QueriesOK, Coming, NamesComing
<1>3. DOMAIN devices \subseteq DeviceIds
    BY DEF IInv, RegistriesOK
<1>4. ErrorGroup \notin RouterGroups /\ ErrorGroup \notin Subnets /\ ErrorGroup \notin DeviceIds
    BY Router, DiscoveryAssumption
<1> QED
    BY <1>1, <1>2, <1>3, <1>4 DEF QueryOK, Kinds

-----------------------------------------------------------------------------
(* A query of a task of its own brings what it is about. *)
LEMMA GroupIsComing ==
    ASSUME IInv, Coming, NEW q \in queries, NEW o \in {"reply", "error"},
           GroupNamed(q, o) \/ MembersKnown(q, o)
    PROVE  Coming'
<1> DEFINE g == q[2]
<1> SUFFICES ASSUME faults' = 0
             PROVE  /\ NamesComing' /\ SubnetsComing'
                    /\ \A h \in DOMAIN groups' : GroupComing(h)'
                    /\ \A d \in DOMAIN devices' : DeviceComing(d)'
    BY DEF Coming
<1>1. PICK kind \in {"name", "members"} :
        /\ Ends(q, kind, o)
        /\ o = "reply" => groups' = IF kind = "name" THEN [groups EXCEPT ![g].name = "name"]
                                    ELSE [groups EXCEPT ![g].devices = RouterMembers[g]]
    BY DEF GroupNamed, MembersKnown
<1>2. devices' = devices /\ queries' = queries \ {q}
    BY DEF GroupNamed, MembersKnown
<1>3. Outcome(o) /\ UNCHANGED <<phase, toName, names, named>> /\ q[1] = kind
      /\ g \in DOMAIN groups
    BY <1>1, EndsKeeps DEF Ends
<1>4. o = "reply" /\ faults = 0
    BY <1>3, NoFault
<1>5. /\ NamesComing /\ SubnetsComing
      /\ \A h \in DOMAIN groups : GroupComing(h)
      /\ \A d \in DOMAIN devices : DeviceComing(d)
    BY <1>4 DEF Coming
<1>6. groups[g] \in GroupObject
    BY <1>3 DEF IInv, RegistriesOK
<1>7. /\ DOMAIN groups' = DOMAIN groups
      /\ \A h \in DOMAIN groups \ {g} : groups'[h] = groups[h]
      /\ groups'[g].name = IF kind = "name" THEN "name" ELSE groups[g].name
      /\ groups'[g].devices = IF kind = "members" THEN RouterMembers[g] ELSE groups[g].devices
      /\ groups'[g].last_scene_address = groups[g].last_scene_address
  <2>1. CASE kind = "name"
    <3>1. groups' = [groups EXCEPT ![g].name = "name"]
      BY <1>1, <1>4, <2>1
    <3> QED
      BY <1>3, <1>6, <2>1, <3>1 DEF GroupObject
  <2>2. CASE kind = "members"
    <3>1. groups' = [groups EXCEPT ![g].devices = RouterMembers[g]]
      BY <1>1, <1>4, <2>2
    <3> QED
      BY <1>3, <1>6, <2>2, <3>1 DEF GroupObject
  <2> QED
    BY <2>1, <2>2
<1>8. NamesComing'
    BY <1>3, <1>5, <1>7 DEF NamesComing
<1>9. SubnetsComing'
    BY <1>2, <1>3, <1>5, SubnetsStay
<1>10. ASSUME NEW h \in DOMAIN groups' PROVE GroupComing(h)'
  <2>1. CASE h # g
    BY <1>2, <1>5, <1>7, <2>1, GroupStays
  <2>2. CASE h = g
    <3>1. \A k \in {"name", "members", "last scene"} \ {kind} : Pending(k, g) => Pending(k, g)'
      BY <1>2, <1>3, StillPending
    <3> QED
      BY <1>3, <1>5, <1>7, <2>2, <3>1 DEF GroupComing
  <2> QED
    BY <2>1, <2>2
<1>11. ASSUME NEW d \in DOMAIN devices' PROVE DeviceComing(d)'
    BY <1>2, <1>3, <1>5, DeviceStays
<1> QED
    BY <1>8, <1>9, <1>10, <1>11

LEMMA LastSceneIsComing ==
    ASSUME IInv, Coming, NEW q \in queries, NEW o \in {"reply", "error"}, LastSceneKnown(q, o)
    PROVE  Coming'
<1> DEFINE g == q[2]
           scene == RouterLastScene[g]
           place == to_device_int(scene[1], scene[2])
           brought == Brought(g, place)
<1> SUFFICES ASSUME faults' = 0
             PROVE  /\ NamesComing' /\ SubnetsComing'
                    /\ \A h \in DOMAIN groups' : GroupComing(h)'
                    /\ \A d \in DOMAIN devices' : DeviceComing(d)'
    BY DEF Coming
<1>1. Ends(q, "last scene", o) /\ queries' = queries \ {q}
      /\ (o = "reply" => SetLastScene(g, RouterReply(g)))
    BY DEF LastSceneKnown
<1>2. Outcome(o) /\ UNCHANGED <<phase, toName, names, named>> /\ q[1] = "last scene"
      /\ g \in DOMAIN groups /\ g \in RouterGroups
    BY <1>1, EndsKeeps DEF Ends
<1>3. faults = 0 /\ SetLastScene(g, RouterReply(g))
    BY <1>1, <1>2, NoFault
<1>4. /\ NamesComing /\ SubnetsComing
      /\ \A h \in DOMAIN groups : GroupComing(h)
      /\ \A d \in DOMAIN devices : DeviceComing(d)
    BY <1>3 DEF Coming
<1>5. blockscene_to_block_and_scene(RouterReply(g)) = scene
    BY <1>2, ReplyDecoded
<1>6. \/ scene = <<>> /\ UNCHANGED <<groups, devices>>
      \/ /\ scene # <<>>
         /\ groups' = [groups EXCEPT ![g].last_scene_address = scene]
         /\ devices' = [d \in DOMAIN devices |->
                IF d \in brought THEN [devices[d] EXCEPT !.load_level = TableLevel[d][place]]
                                 ELSE devices[d]]
    BY <1>3, <1>5 DEF SetLastScene
<1>7. groups[g] \in GroupObject /\ groups[g].last_scene_address \in {<<>>, scene}
      /\ groups[g].devices \in {<<>>, RouterMembers[g]}
    BY <1>2 DEF IInv, RegistriesOK, GroupStateIsReal
<1>8. /\ DOMAIN groups' = DOMAIN groups /\ DOMAIN devices' = DOMAIN devices
      /\ \A h \in DOMAIN groups \ {g} : groups'[h] = groups[h]
      /\ groups'[g].name = groups[g].name /\ groups'[g].devices = groups[g].devices
      /\ groups'[g].last_scene_address = scene
    BY <1>2, <1>6, <1>7 DEF GroupObject
<1>9. NamesComing'
    BY <1>2, <1>4, <1>8 DEF NamesComing
<1>10. SubnetsComing'
    BY <1>1, <1>2, <1>4, <1>8, SubnetsStay
<1>11. ASSUME NEW h \in DOMAIN groups' PROVE GroupComing(h)'
  <2>1. CASE h # g
    BY <1>1, <1>4, <1>8, <2>1, GroupStays
  <2>2. CASE h = g
    <3>1. \A k \in {"name", "members"} : Pending(k, g) => Pending(k, g)'
      BY <1>1, <1>2, StillPending
    <3> QED
      BY <1>2, <1>4, <1>8, <2>2, <3>1 DEF GroupComing
  <2> QED
    BY <2>1, <2>2
<1>12. \A d \in brought : scene # <<>> =>
            d \in Range(RouterMembers[g]) /\ TableLevel[d][place] \in LevelsOf(d)
  <2>1. SUFFICES ASSUME NEW d \in brought, scene # <<>>
                 PROVE  d \in Range(RouterMembers[g]) /\ TableLevel[d][place] \in LevelsOf(d)
    OBVIOUS
  <2>2. PICK i \in DOMAIN groups[g].devices : d = groups[g].devices[i]
    BY DEF Brought
  <2>3. d \in Range(RouterMembers[g])
    BY <1>7, <2>2 DEF Range
  <2>4. SceneLevel(g, d) = TableLevel[d][place]
    BY <2>1 DEF SceneLevel
  <2> QED
    BY <1>2, <2>3, <2>4 DEF LevelsOf
<1>13. ASSUME NEW d \in DOMAIN devices' PROVE DeviceComing(d)'
  <2>1. DeviceComing(d) /\ \A k : Pending(k, d) /\ k # "last scene" => Pending(k, d)'
    BY <1>1, <1>2, <1>4, <1>8, StillPending
  <2>2. CASE devices'[d] = devices[d]
    BY <1>1, <1>2, <2>1, <2>2, DeviceStays
  <2>3. CASE devices'[d] # devices[d]
    <3>1. scene # <<>> /\ d \in brought
          /\ devices'[d] = [devices[d] EXCEPT !.load_level = TableLevel[d][place]]
      BY <1>6, <1>8, <2>3
    <3>2. devices[d] \in DeviceObject
      BY <1>8 DEF IInv, RegistriesOK
    <3>3. /\ devices'[d].state = devices[d].state /\ devices'[d].levels = devices[d].levels
          /\ devices'[d].load_level = TableLevel[d][place]
      BY <3>1, <3>2 DEF DeviceObject
    <3>4. TableLevel[d][place] \in LevelsOf(d)
      BY <1>12, <3>1
    <3> HIDE DEF place, brought
    <3> QED
      BY <2>1, <3>3, <3>4 DEF DeviceComing, LevelsOf, SceneLevel
  <2> QED
    BY <2>2, <2>3
<1> QED
    BY <1>9, <1>10, <1>11, <1>13

LEMMA SubnetIsComing ==
    ASSUME IInv, Coming, NEW q \in queries, NEW o \in {"reply", "error"}, SubnetKnown(q, o)
    PROVE  Coming'
<1> DEFINE found == {d \in DeviceIds : SubnetOf[d] = q[2]}
<1> SUFFICES ASSUME faults' = 0
             PROVE  /\ NamesComing' /\ SubnetsComing'
                    /\ \A h \in DOMAIN groups' : GroupComing(h)'
                    /\ \A d \in DOMAIN devices' : DeviceComing(d)'
    BY DEF Coming
<1>1. Ends(q, "subnet", o) /\ groups' = groups
    BY DEF SubnetKnown
<1>2. Outcome(o) /\ UNCHANGED <<phase, toName, names, named>> /\ q[1] = "subnet" /\ QueryOK(q)
    BY <1>1, EndsKeeps DEF Ends
<1>3. o = "reply" /\ faults = 0 /\ q[2] \in Subnets
    BY <1>2, NoFault DEF QueryOK
<1>4. /\ NamesComing /\ SubnetsComing
      /\ \A h \in DOMAIN groups : GroupComing(h)
      /\ \A d \in DOMAIN devices : DeviceComing(d)
    BY <1>3 DEF Coming
<1>5. /\ devices' = [d \in DOMAIN devices \union found |->
                        IF d \in found THEN NewDevice ELSE devices[d]]
      /\ queries' = (queries \ {q})
                \union {<<"state", d, q[3]>> : d \in found}
                \union {<<p[1], p[2], q[3]>> :
                            p \in {"load level", "scene table"} \X (found \intersect Loads)}
    BY <1>3 DEF SubnetKnown
<1>6. \A d \in found : d \in DeviceIds /\ SubnetOf[d] = q[2]
    OBVIOUS
<1>7. \A d \in DeviceIds : d \notin found => SubnetOf[d] # q[2]
    OBVIOUS
<1> HIDE DEF found
<1>8. queries \ {q} \subseteq queries'
    BY <1>5
<1>9. \A d \in found : Pending("state", d)'
  <2>1. SUFFICES ASSUME NEW d \in found PROVE Pending("state", d)'
    OBVIOUS
  <2>2. <<"state", d, q[3]>> \in queries'
    BY <1>5
  <2> QED
    BY <2>2 DEF Pending
<1>10. \A d \in found \intersect Loads, kind \in {"load level", "scene table"} : Pending(kind, d)'
  <2>1. SUFFICES ASSUME NEW d \in found \intersect Loads, NEW kind \in {"load level", "scene table"}
                 PROVE  Pending(kind, d)'
    OBVIOUS
  <2>2. PICK p \in {"load level", "scene table"} \X (found \intersect Loads) :
            p[1] = kind /\ p[2] = d
    <3>1. <<kind, d>> \in {"load level", "scene table"} \X (found \intersect Loads)
      OBVIOUS
    <3> QED
      BY <3>1
  <2>3. <<p[1], p[2], q[3]>> \in queries'
    BY <1>5
  <2> QED
    BY <2>2, <2>3 DEF Pending
<1>11. NamesComing'
    BY <1>1, <1>2, <1>4 DEF NamesComing
<1>12. SubnetsComing'
  <2>1. SUFFICES ASSUME phase \in {"names", "done"}, NEW d \in DeviceIds, SubnetOf[d] \in Subnets,
                        d \notin DOMAIN devices'
                 PROVE  Pending("subnet", SubnetOf[d])'
    BY <1>2 DEF SubnetsComing
  <2>2. d \notin DOMAIN devices /\ SubnetOf[d] # q[2]
    BY <1>5, <1>7, <2>1
  <2>3. Pending("subnet", SubnetOf[d])
    BY <1>4, <2>1, <2>2 DEF SubnetsComing
  <2> QED
    BY <1>8, <2>2, <2>3, StillPending
<1>13. ASSUME NEW h \in DOMAIN groups' PROVE GroupComing(h)'
    BY <1>1, <1>2, <1>4, <1>8, GroupStays
<1>14. ASSUME NEW d \in DOMAIN devices' PROVE DeviceComing(d)'
  <2>1. CASE d \in found
    <3>1. SubnetOf[d] \in Subnets
      BY <1>3, <1>6, <2>1
    <3> QED
      BY <1>9, <1>10, <2>1, <3>1 DEF DeviceComing
  <2>2. CASE d \notin found
    <3>1. d \in DOMAIN devices /\ devices'[d] = devices[d]
      BY <1>5, <2>2
    <3> QED
      BY <1>2, <1>4, <1>8, <3>1, DeviceStays
  <2> QED
    BY <2>1, <2>2
<1> QED
    BY <1>11, <1>12, <1>13, <1>14

LEMMA DeviceIsComing ==
    ASSUME IInv, Coming, NEW q \in queries, NEW o \in {"reply", "error"}, DeviceKnown(q, o)
    PROVE  Coming'
<1> DEFINE d == q[2]
<1> SUFFICES ASSUME faults' = 0
             PROVE  /\ NamesComing' /\ SubnetsComing'
                    /\ \A h \in DOMAIN groups' : GroupComing(h)'
                    /\ \A e \in DOMAIN devices' : DeviceComing(e)'
    BY DEF Coming
<1>1. PICK kind \in {"state", "load level", "scene table"} :
        /\ Ends(q, kind, o)
        /\ devices' =
             CASE kind = "state" ->
                    [devices EXCEPT ![d].state = IF o = "reply" THEN "state" ELSE ErrorCode]
               [] kind = "load level" ->
                    [devices EXCEPT ![d].load_level =
                        IF o = "reply" THEN RouterLevel[d] ELSE ErrorCode]
               [] OTHER -> IF o = "reply" THEN [devices EXCEPT ![d].levels = TRUE]
                           ELSE devices
    BY DEF DeviceKnown
<1>2. queries' = queries \ {q} /\ groups' = groups
    BY DEF DeviceKnown
<1>3. Outcome(o) /\ UNCHANGED <<phase, toName, names, named>> /\ q[1] = kind /\ QueryOK(q)
    BY <1>1, EndsKeeps DEF Ends
<1>4. o = "reply" /\ faults = 0 /\ d \in DOMAIN devices
    BY <1>3, NoFault DEF QueryOK
<1>5. /\ NamesComing /\ SubnetsComing
      /\ \A h \in DOMAIN groups : GroupComing(h)
      /\ \A e \in DOMAIN devices : DeviceComing(e)
    BY <1>4 DEF Coming
<1>6. devices[d] \in DeviceObject
    BY <1>4 DEF IInv, RegistriesOK
<1>7. /\ DOMAIN devices' = DOMAIN devices
      /\ \A e \in DOMAIN devices \ {d} : devices'[e] = devices[e]
      /\ devices'[d].state = IF kind = "state" THEN "state" ELSE devices[d].state
      /\ devices'[d].load_level = IF kind = "load level" THEN RouterLevel[d]
                                                        ELSE devices[d].load_level
      /\ devices'[d].levels = (kind = "scene table" \/ devices[d].levels)
  <2>1. CASE kind = "state"
    <3>1. devices' = [devices EXCEPT ![d].state = "state"]
      BY <1>1, <1>4, <2>1
    <3> QED
      BY <1>4, <1>6, <2>1, <3>1 DEF DeviceObject
  <2>2. CASE kind = "load level"
    <3>1. devices' = [devices EXCEPT ![d].load_level = RouterLevel[d]]
      BY <1>1, <1>4, <2>2
    <3> QED
      BY <1>4, <1>6, <2>2, <3>1 DEF DeviceObject
  <2>3. CASE kind = "scene table"
    <3>1. devices' = [devices EXCEPT ![d].levels = TRUE]
      BY <1>1, <1>4, <2>3
    <3> QED
      BY <1>4, <1>6, <2>3, <3>1 DEF DeviceObject
  <2> QED
    BY <2>1, <2>2, <2>3
<1>8. NamesComing'
    BY <1>2, <1>3, <1>5 DEF NamesComing
<1>9. SubnetsComing'
    BY <1>2, <1>3, <1>5, <1>7, SubnetsStay
<1>10. ASSUME NEW h \in DOMAIN groups' PROVE GroupComing(h)'
    BY <1>2, <1>3, <1>5, GroupStays
<1>11. ASSUME NEW e \in DOMAIN devices' PROVE DeviceComing(e)'
  <2>1. CASE e # d
    BY <1>2, <1>5, <1>7, <2>1, DeviceStays
  <2>2. CASE e = d
    <3>1. \A k \in {"state", "load level", "scene table"} \ {kind} : Pending(k, d) => Pending(k, d)'
      BY <1>2, <1>3, StillPending
    <3>2. DeviceComing(d)
      BY <1>4, <1>5
    <3>3. devices'[d].state = "state" \/ Pending("state", d)'
      BY <1>7, <3>1, <3>2 DEF DeviceComing
    <3>4. ASSUME d \in Loads
          PROVE  /\ devices'[d].levels \/ Pending("scene table", d)'
                 /\ devices'[d].load_level \in LevelsOf(d) \/ Pending("load level", d)'
      <4>1. RouterLevel[d] \in LevelsOf(d)
        BY DEF LevelsOf
      <4>2. devices'[d].levels \/ Pending("scene table", d)'
        BY <1>7, <3>1, <3>2, <3>4 DEF DeviceComing
      <4> QED
        BY <1>7, <3>1, <3>2, <3>4, <4>1, <4>2 DEF DeviceComing
    <3> QED
      BY <2>2, <3>2, <3>3, <3>4 DEF DeviceComing, LevelsOf, SceneLevel
  <2> QED
    BY <2>1, <2>2
<1> QED
    BY <1>8, <1>9, <1>10, <1>11

LEMMA ComingKept ==
    ASSUME IInv, Coming, [Next]_vars
    PROVE  Coming'
<1>1. CASE Proceed
    BY <1>1, GroupsComing, NamesAreComing DEF Proceed
<1>2. ASSUME NEW q \in queries, Answered(q)
      PROVE  Coming'
    BY <1>2, GroupIsComing, LastSceneIsComing, SubnetIsComing, DeviceIsComing DEF Answered
<1>3. ASSUME NEW q \in queries, Unanswered(q)
      PROVE  Coming'
    BY <1>3, NoUnanswered DEF Coming
<1>4. CASE UNCHANGED vars \/ \E x \in Watched : register_subscription(x) \/ unregister_subscription(x)
  <2>1. UNCHANGED <<groups, devices, queries, faults, phase, toName, names, named>>
    BY <1>4 DEF vars, register_subscription, unregister_subscription
  <2> QED
    BY <2>1, ComingStays
<1> QED
    BY <1>1, <1>2, <1>3, <1>4, InitializeComing DEF Next

(* The scenes a group offers once nothing is missing *)
LEMMA ScenesOffered ==
    ASSUME NEW g \in RouterGroups, g \in DOMAIN groups, g \in named,
           groups[g].devices = RouterMembers[g],
           DOMAIN devices = {d \in DeviceIds : SubnetOf[d] \in Subnets},
           \A d \in DOMAIN devices \intersect Loads : devices[d].levels
    PROVE  get_selectable_scenes_for_group(g) = RouterNames[g] \union
                {scene \in TableScenes :
                    \E d \in Range(RouterMembers[g]) \intersect Loads :
                        /\ SubnetOf[d] \in Subnets
                        /\ TableLevel[d][to_device_int(scene[1], scene[2])] # Ignore}
<1>1. RouterMembers[g] \in Seq(DeviceIds) /\ RouterNames[g] \subseteq (1..253) \X SceneNumbers
    BY Router, DiscoveryAssumption
<1>2. \A d : d \in Range(RouterMembers[g]) <=>
                \E i \in DOMAIN RouterMembers[g] : d = RouterMembers[g][i]
    BY DEF Range
<1>3. \A d \in Range(RouterMembers[g]) : d \in DeviceIds
    BY <1>1, <1>2, ElementOfSeq
<1>4. ASSUME NEW scene \in (1..253) \X SceneNumbers
      PROVE  _scene_is_in_use(g, scene) <=>
                /\ scene \in TableScenes
                /\ \E d \in Range(RouterMembers[g]) \intersect Loads :
                        /\ SubnetOf[d] \in Subnets
                        /\ TableLevel[d][to_device_int(scene[1], scene[2])] # Ignore
  <2> DEFINE place == to_device_int(scene[1], scene[2])
  <2>1. scene \in TableScenes <=> place < TableLength
    BY DEF TableScenes
  <2>2. _scene_is_in_use(g, scene) <=>
            \E d \in Range(RouterMembers[g]) :
                /\ d \in DOMAIN devices \intersect Loads /\ devices[d].levels
                /\ place < TableLength /\ TableLevel[d][place] # Ignore
    BY <1>2 DEF _scene_is_in_use
  <2> HIDE DEF place
  <2>3. _scene_is_in_use(g, scene) <=>
            /\ place < TableLength
            /\ \E d \in Range(RouterMembers[g]) \intersect Loads :
                SubnetOf[d] \in Subnets /\ TableLevel[d][place] # Ignore
    BY <1>3, <2>2
  <2> QED
    BY <2>1, <2>3 DEF place
<1>5. \A scene \in TableScenes : scene \in (1..253) \X SceneNumbers
    BY DEF TableScenes
<1> QED
    BY <1>1, <1>4, <1>5 DEF get_selectable_scenes_for_group

(* In whatever order replies come, with queries of an earlier call of initialize
   still under way or not, discovery that met no fault leaves nothing out and
   nothing half known, for any router. *)
THEOREM DiscoveryIsComplete == Spec => []CompleteDiscovery
<1>1. Init => Coming
  <2>1. ASSUME Init PROVE DOMAIN groups = {} /\ DOMAIN devices = {} /\ phase = "idle" /\ named = {}
    BY <2>1 DEF Init
  <2> QED
    BY <2>1 DEF Coming, NamesComing, SubnetsComing
<1>2. IInv /\ Coming /\ [Next]_vars => Coming'
    BY ComingKept
<1>3. IInv /\ Coming => CompleteDiscovery
  <2> SUFFICES ASSUME IInv, Coming, phase = "done", queries = {}, faults = 0
               PROVE  CompleteDiscovery
    BY DEF CompleteDiscovery
  <2>1. \A kind, x : ~Pending(kind, x)
    BY DEF Pending
  <2>2. DOMAIN groups = RouterGroups /\ named = RouterGroups
    BY DEF Coming, NamesComing
  <2>3. ASSUME NEW g \in RouterGroups
        PROVE  groups[g] = [name |-> "name", devices |-> RouterMembers[g],
                            last_scene_address |-> RouterLastScene[g]]
    <3>1. GroupComing(g) /\ groups[g] \in GroupObject
      BY <2>2 DEF Coming, IInv, RegistriesOK
    <3> QED
      BY <2>1, <3>1 DEF GroupComing, GroupObject
  <2>4. \A d \in DOMAIN devices : /\ SubnetOf[d] \in Subnets /\ devices[d].state = "state"
                                  /\ d \in Loads => /\ devices[d].levels
                                                    /\ devices[d].load_level \in LevelsOf(d)
    BY <2>1 DEF Coming, DeviceComing
  <2>5. DOMAIN devices = {d \in DeviceIds : SubnetOf[d] \in Subnets}
    <3>1. \A d \in DeviceIds : SubnetOf[d] \in Subnets => d \in DOMAIN devices
      BY <2>1 DEF Coming, SubnetsComing
    <3>2. DOMAIN devices \subseteq DeviceIds
      BY DEF IInv, RegistriesOK
    <3> QED
      BY <2>4, <3>1, <3>2
  <2>6. ASSUME NEW g \in RouterGroups
        PROVE  get_selectable_scenes_for_group(g) = RouterNames[g] \union
                {scene \in TableScenes :
                    \E d \in Range(RouterMembers[g]) \intersect Loads :
                        /\ SubnetOf[d] \in Subnets
                        /\ TableLevel[d][to_device_int(scene[1], scene[2])] # Ignore}
    <3>1. groups[g] = [name |-> "name", devices |-> RouterMembers[g],
                       last_scene_address |-> RouterLastScene[g]]
      BY <2>3
    <3>2. groups[g].devices = RouterMembers[g]
      BY <3>1
    <3>3. \A d \in DOMAIN devices \intersect Loads : devices[d].levels
      BY <2>4
    <3> QED
      BY <2>2, <2>5, <3>3, <3>2, ScenesOffered
  <2> QED
    BY <2>2, <2>3, <2>4, <2>5, <2>6 DEF CompleteDiscovery, LevelsOf
<1> QED
    BY <1>1, <1>2, <1>3, Invariance, PTL DEF Spec
=============================================================================
