----------------------------- MODULE SceneTracking -----------------------------
(***************************************************************************)
(* How the levels of devices and the last scenes of groups follow the       *)
(* router.  Every RECALL line starts a task of its own, and so does every   *)
(* query or direct level that ends in update_device_load_level.  A task     *)
(* suspends only while it awaits a subscriber, which takes as long as the   *)
(* application likes; in between, asyncio runs the tasks that can go on in  *)
(* the order they became ready.  Subscribers come and go at any time: code  *)
(* that adds or removes one does not suspend, and a task reads the list of  *)
(* an object at most once before it suspends, so that adding one between    *)
(* two steps of a task amounts to adding it before or after both.           *)
(*                                                                         *)
(* Levels are integers, a scene stands for its whole address, and the       *)
(* registries, group members and scene tables are those of a finished       *)
(* discovery: they do not change here.                                      *)
(***************************************************************************)
EXTENDS Integers, Queues

CONSTANTS
    GroupIds, DeviceIds, Scenes,
    GroupOf,     \* the group of each scene; NoGroup for one never registered
    NoGroup, NoScene, NoFunc,
    Members,     \* group.devices of each group
    Registered,  \* the devices of router.devices
    Loads,       \* those with is_load
    Entry,       \* the scene-table entry of each device for each scene
    Subscribers, \* the subscribers each device and group has at first
    Fickle,      \* bound: pairs of an object and a subscriber that comes and goes
    MaxChanges,  \* bound: how often one does
    Raising,     \* devices and groups with a subscriber that may raise
    Levels,      \* bound: the load levels of scene tables
    Sent,        \* bound: the levels sent to or queried of devices, as pairs
    MaxTasks     \* bound: tasks alive at one time

(* Scene-table entries other than a level: "*" or no number at all, "L", and
   no entry, because the table was never read or the block is beyond it. *)
Ignore == -1
LastLevel == -2
Missing == -3

Objects == GroupIds \union DeviceIds
Tasks == 1..MaxTasks
Funcs == (UNION {Range(Subscribers[x]) : x \in Objects}) \union {p[2] : p \in Fickle}

ASSUME SceneTrackingAssumption ==
    /\ GroupIds \intersect DeviceIds = {}
    /\ NoGroup \notin GroupIds
    /\ NoScene \notin Scenes /\ NoFunc \notin Funcs
    /\ GroupOf \in [Scenes -> GroupIds \union {NoGroup}]
    /\ Members \in [GroupIds -> Seq(DeviceIds)]
    /\ \A g \in GroupIds : Distinct(Members[g])
    /\ Registered \subseteq DeviceIds
    /\ Loads \subseteq DeviceIds
    /\ Levels \subseteq 0..100
    /\ Sent \subseteq DeviceIds \X (0..100)
    /\ Entry \in [DeviceIds -> [Scenes -> Levels \union {Ignore, LastLevel, Missing}]]
    /\ Subscribers \in [Objects -> Seq(Funcs)]
    /\ \A p \in Fickle : p = <<p[1], p[2]>> /\ p[1] \in Objects
    /\ MaxChanges \in Nat
    /\ Raising \subseteq Objects
    /\ MaxTasks \in Nat \ {0}

VARIABLES
    device,   \* load_level, last_load_level and last_scene of each device
    last_scene_address, \* of each group
    ready,    \* asyncio's queue of tasks that can go on; its head is running
    pc,       \* where each task is
    job,      \* the scene or the level it brings
    path,     \* the devices, then the group, it has yet to bring it to
    sub,      \* the place in the list of subscribers it is at
    callee,   \* the subscriber it awaits
    subscriptions, \* of each object
    changes,  \* subscriptions and unsubscriptions so far
    told,     \* what each subscriber read when it was last called
    missed,   \* history: the subscribers of each object that joined after, or
              \* were skipped in, a round of calls and have not been called since
    latest,   \* history: the scene of each group's last RECALL
    serial    \* history: device, had each task run in one go when it started

subscribing == <<subscriptions, changes>>
vars == <<device, last_scene_address, ready, pc, job, path, sub, callee, subscribing,
          told, missed, latest, serial>>
history == <<latest, serial>>

PCs == {"none", "recall", "level", "visit", "notify", "called", "busy"}

DeviceState == [load_level : 0..100, last_load_level : 0..100,
                last_scene : Scenes \union {NoScene}]

TypeOK ==
    /\ device \in [DeviceIds -> DeviceState]
    /\ last_scene_address \in [GroupIds -> Scenes \union {NoScene}]
    /\ ready \in Seq(Tasks) /\ Distinct(ready)
    /\ pc \in [Tasks -> PCs]
    /\ \A t \in Tasks :
        /\ pc[t] \in {"none", "busy"} <=> \A i \in 1..Len(ready) : ready[i] # t
        /\ path[t] \in Seq(Objects)
        /\ sub[t] \in Nat
        /\ pc[t] \in {"called", "busy"} <=> callee[t] \in Funcs
        /\ pc[t] \in {"notify", "called", "busy"} => path[t] # <<>> /\ sub[t] > 0
    /\ subscriptions \in [Objects -> Seq(Funcs)]
    /\ missed \in [Objects -> SUBSET Funcs]
    /\ serial \in [DeviceIds -> DeviceState]

(* What a subscriber reads of the device or group it is called with. *)
Shown(x) ==
    IF x \in GroupIds THEN <<"scene", last_scene_address[x]>>
                      ELSE <<"level", device[x].load_level>>

Init ==
    /\ device = [d \in DeviceIds |->
                    [load_level |-> 0, last_load_level |-> 0, last_scene |-> NoScene]]
    /\ last_scene_address = [g \in GroupIds |-> NoScene]
    /\ ready = <<>>
    /\ pc = [t \in Tasks |-> "none"]
    /\ job = [t \in Tasks |-> NoScene]
    /\ path = [t \in Tasks |-> <<>>]
    /\ sub = [t \in Tasks |-> 0]
    /\ callee = [t \in Tasks |-> NoFunc]
    /\ subscriptions = Subscribers /\ changes = 0
    /\ told = [x \in Objects |-> [f \in Funcs |-> Shown(x)]]
    /\ missed = [x \in Objects |-> {}]
    /\ latest = last_scene_address
    /\ serial = device

(* Mutant: the last level is overwritten by every recall of a scene at 0. *)
SetLevelForgetful(dev, level) ==
    [dev EXCEPT !.last_load_level = IF level = 0 THEN dev.load_level ELSE @,
                !.load_level = level]

-----------------------------------------------------------------------------
(* Device._set_level for a load; entries are within 0..100 *)
SetLevel(dev, level) ==
    [dev EXCEPT !.last_load_level = IF level = 0 /\ dev.load_level > 0
                                      THEN dev.load_level ELSE @,
                !.load_level = level]

(* Mutant: without the early return for an entry that is no level. *)
SetSceneLevelOfAnyEntry(dev, s, entry) ==
    SetLevel([dev EXCEPT !.last_scene = s],
             IF entry = LastLevel THEN dev.last_load_level ELSE entry)

(* Device.set_scene_level, up to its call of update_subscribers *)
SetSceneLevel(dev, s, entry) ==
    LET at == [dev EXCEPT !.last_scene = s] IN
    IF entry = Ignore THEN at
    ELSE SetLevel(at, IF entry = LastLevel THEN at.last_load_level ELSE entry)

-----------------------------------------------------------------------------
(* A new task, ready to run. *)
Spawn(kind, what, to) ==
    \E t \in Tasks :
        /\ pc[t] = "none" /\ \A r \in 1..t - 1 : pc[r] # "none"
        /\ pc' = [pc EXCEPT ![t] = kind]
        /\ job' = [job EXCEPT ![t] = what]
        /\ path' = [path EXCEPT ![t] = to]
        /\ ready' = Append(ready, t)
        /\ UNCHANGED <<device, last_scene_address, sub, callee, subscribing, told, missed, serial>>

(* _stream_reader reads a RECALL: create_task(handle_scene_recall) *)
ReadRecall(s) ==
    /\ Spawn("recall", s, <<>>)
    /\ latest' = IF GroupOf[s] = NoGroup THEN latest ELSE [latest EXCEPT ![GroupOf[s]] = s]

(* A level was sent (set_device_load_level) or queried (update_device). *)
LevelSent(d, level) ==
    /\ Spawn("level", level, <<d>>)
    /\ UNCHANGED latest

(* The task at the head of the queue is the one that runs. *)
Running(t) == ready # <<>> /\ t = Head(ready)

(* Task t ends: its coroutine returned or raised. *)
Ends(t) ==
    /\ pc' = [pc EXCEPT ![t] = "none"]
    /\ job' = [job EXCEPT ![t] = NoScene]
    /\ path' = [path EXCEPT ![t] = <<>>]
    /\ sub' = [sub EXCEPT ![t] = 0]
    /\ callee' = [callee EXCEPT ![t] = NoFunc]
    /\ ready' = Without(ready, t)

(* Task t goes on to update_subscribers of the object it is at. *)
Notifies(t) ==
    /\ pc' = [pc EXCEPT ![t] = "notify"]
    /\ sub' = [sub EXCEPT ![t] = 1]
    /\ UNCHANGED <<ready, job, path, callee>>

(* Task t leaves the object it is at. *)
Leaves(t) ==
    /\ pc' = [pc EXCEPT ![t] = "visit"]
    /\ path' = [path EXCEPT ![t] = Tail(@)]
    /\ sub' = [sub EXCEPT ![t] = 0]
    /\ UNCHANGED <<ready, job, callee>>

(* What running the task in one go, here and now, would do to the devices. *)
SerialRecall(s) ==
    LET reached == {Members[GroupOf[s]][i] : i \in DOMAIN Members[GroupOf[s]]} IN
    [d \in DeviceIds |->
        LET e == Entry[d][s]
            was == serial[d]
            level == IF e = LastLevel THEN was.last_load_level ELSE e IN
        IF d \notin reached \intersect Registered \intersect Loads \/ e = Missing THEN was
        ELSE IF e = Ignore THEN [was EXCEPT !.last_scene = s]
        ELSE [load_level |-> level,
              last_load_level |-> IF was.load_level > 0 /\ level = 0
                                    THEN was.load_level ELSE was.last_load_level,
              last_scene |-> s]]

(* handle_scene_recall, and handle_scene_callback up to its loop *)
StartRecall(t) ==
    /\ Running(t) /\ pc[t] = "recall"
    /\ LET g == GroupOf[job[t]] IN
        IF g = NoGroup
          THEN Ends(t) /\ UNCHANGED <<last_scene_address, serial>>
          ELSE /\ last_scene_address' = [last_scene_address EXCEPT ![g] = job[t]]
               /\ pc' = [pc EXCEPT ![t] = "visit"]
               /\ path' = [path EXCEPT ![t] = Append(Members[g], g)]
               /\ serial' = SerialRecall(job[t])
               /\ UNCHANGED <<ready, job, sub, callee>>
    /\ UNCHANGED <<device, subscribing, told, missed, latest>>

(* Mutant: a member that was not discovered ends the recall. *)
SkipDeviceRaising(t) ==
    /\ Running(t) /\ pc[t] = "visit"
    /\ path[t] # <<>> /\ Head(path[t]) \in DeviceIds \ (Registered \intersect Loads)
    /\ IF Head(path[t]) \in Registered THEN Leaves(t) ELSE Ends(t)
    /\ UNCHANGED <<device, last_scene_address, subscribing, told, missed, history>>

(* handle_scene_callback: the next device is unknown, or no load *)
SkipDevice(t) ==
    /\ Running(t) /\ pc[t] = "visit"
    /\ path[t] # <<>> /\ Head(path[t]) \in DeviceIds \ (Registered \intersect Loads)
    /\ Leaves(t)
    /\ UNCHANGED <<device, last_scene_address, subscribing, told, missed, history>>

(* handle_scene_callback: the next device is a load; without an entry for the
   scene get_level_for_scene raises IndexError *)
VisitDevice(t) ==
    /\ Running(t) /\ pc[t] = "visit"
    /\ path[t] # <<>> /\ Head(path[t]) \in Registered \intersect Loads
    /\ LET d == Head(path[t])
           e == Entry[d][job[t]] IN
        /\ device' = IF e = Missing THEN device
                     ELSE [device EXCEPT ![d] = SetSceneLevel(@, job[t], e)]
        /\ CASE e = Missing -> Ends(t)
             [] e = Ignore  -> Leaves(t)
             [] OTHER       -> Notifies(t)
    /\ UNCHANGED <<last_scene_address, subscribing, told, missed, history>>

(* Mutant: the group's last scene is set once its devices are. *)
VisitGroupSettingScene(t) ==
    /\ Running(t) /\ pc[t] = "visit"
    /\ path[t] # <<>> /\ Head(path[t]) \in GroupIds
    /\ Notifies(t)
    /\ last_scene_address' = [last_scene_address EXCEPT ![Head(path[t])] = job[t]]
    /\ UNCHANGED <<device, subscribing, told, missed, history>>

(* handle_scene_callback: after the devices, the group *)
VisitGroup(t) ==
    /\ Running(t) /\ pc[t] = "visit"
    /\ path[t] # <<>> /\ Head(path[t]) \in GroupIds
    /\ Notifies(t)
    /\ UNCHANGED <<device, last_scene_address, subscribing, told, missed, history>>

(* Nothing is left to visit. *)
Finish(t) ==
    /\ Running(t) /\ pc[t] = "visit" /\ path[t] = <<>>
    /\ Ends(t)
    /\ UNCHANGED <<device, last_scene_address, subscribing, told, missed, history>>

(* Mutant: the subscribers are not told of a level that was sent or queried. *)
ApplyLevelSilently(t) ==
    /\ Running(t) /\ pc[t] = "level"
    /\ LET d == Head(path[t]) IN
        IF d \in Registered
          THEN /\ device' = [device EXCEPT ![d].load_level = job[t]]
               /\ serial' = [serial EXCEPT ![d].load_level = job[t]]
               /\ Leaves(t)
          ELSE Ends(t) /\ UNCHANGED <<device, serial>>
    /\ UNCHANGED <<last_scene_address, subscribing, told, missed, latest>>

(* _update_device_param: a device that is not registered raises KeyError *)
ApplyLevel(t) ==
    /\ Running(t) /\ pc[t] = "level"
    /\ LET d == Head(path[t]) IN
        IF d \in Registered
          THEN /\ device' = [device EXCEPT ![d].load_level = job[t]]
               /\ serial' = [serial EXCEPT ![d].load_level = job[t]]
               /\ Notifies(t)
          ELSE Ends(t) /\ UNCHANGED <<device, serial>>
    /\ UNCHANGED <<last_scene_address, subscribing, told, missed, latest>>

(* update_subscribers: create a task for the next subscriber of the list, as it
   is by now, and await it *)
CallSubscriber(t) ==
    /\ Running(t) /\ pc[t] = "notify"
    /\ LET subs == subscriptions[Head(path[t])] IN
        IF sub[t] <= Len(subs)
          THEN /\ pc' = [pc EXCEPT ![t] = "called"]
               /\ callee' = [callee EXCEPT ![t] = subs[sub[t]]]
               /\ ready' = Append(Tail(ready), t)
               /\ UNCHANGED <<job, path, sub>>
          ELSE Leaves(t)
    /\ UNCHANGED <<device, last_scene_address, subscribing, told, missed, history>>

(* The subscriber's task begins and reads what it was called with. *)
SubscriberStarts(t) ==
    /\ Running(t) /\ pc[t] = "called"
    /\ told' = [told EXCEPT ![Head(path[t])][callee[t]] = Shown(Head(path[t]))]
    /\ missed' = [missed EXCEPT ![Head(path[t])] = @ \ {callee[t]}]
    /\ pc' = [pc EXCEPT ![t] = "busy"]
    /\ ready' = Tail(ready)
    /\ UNCHANGED <<device, last_scene_address, job, path, sub, callee, subscribing, history>>

(* The subscriber's task returns: the one that awaits it can go on. *)
SubscriberReturns(t) ==
    /\ pc[t] = "busy"
    /\ pc' = [pc EXCEPT ![t] = "notify"]
    /\ sub' = [sub EXCEPT ![t] = @ + 1]
    /\ callee' = [callee EXCEPT ![t] = NoFunc]
    /\ ready' = Append(ready, t)
    /\ UNCHANGED <<device, last_scene_address, job, path, subscribing, told, missed, history>>

(* The subscriber raises, and with it every caller up to the task. *)
SubscriberRaises(t) ==
    /\ pc[t] = "busy" /\ Head(path[t]) \in Raising
    /\ Ends(t)
    /\ UNCHANGED <<device, last_scene_address, subscribing, told, missed, history>>

Changes ==
    /\ changes < MaxChanges /\ changes' = changes + 1
    /\ UNCHANGED <<device, last_scene_address, ready, pc, job, path, sub, callee, told, history>>

(* add_subscriber appends, also what is there already. *)
Subscribe(x, f) ==
    /\ Changes
    /\ subscriptions' = [subscriptions EXCEPT ![x] = Append(@, f)]
    /\ missed' = [missed EXCEPT ![x] = @ \union {f}]

(* The place of the subscriber of x that task t calls next; 0 for none *)
NextCall(t, x) ==
    IF path[t] = <<>> \/ Head(path[t]) # x THEN 0
    ELSE CASE pc[t] = "notify" -> sub[t]
           [] pc[t] \in {"called", "busy"} -> sub[t] + 1
           [] OTHER -> 0

(* remove_subscriber removes the first of its kind.  A task that is past it
   skips the one it would have called next. *)
Unsubscribe(x, f) ==
    LET subs == subscriptions[x]
        at == CHOOSE i \in DOMAIN subs : subs[i] = f /\ \A j \in 1..i - 1 : subs[j] # f
        skips(t) == at < NextCall(t, x) /\ NextCall(t, x) <= Len(subs) IN
    /\ Changes
    /\ Contains(subs, f)
    /\ subscriptions' = [subscriptions EXCEPT ![x] = RemoveAt(@, at)]
    /\ missed' = [missed EXCEPT ![x] =
            @ \union {subs[NextCall(t, x)] : t \in {r \in Tasks : skips(r)}}]

(* What the event loop does with the task whose turn it is. *)
Run(t) ==
    \/ StartRecall(t)
    \/ SkipDevice(t)
    \/ VisitDevice(t)
    \/ VisitGroup(t)
    \/ Finish(t)
    \/ ApplyLevel(t)
    \/ CallSubscriber(t)
    \/ SubscriberStarts(t)

Next ==
    \/ \E s \in Scenes : ReadRecall(s)
    \/ \E p \in Sent : LevelSent(p[1], p[2])
    \/ \E t \in Tasks : Run(t) \/ SubscriberReturns(t) \/ SubscriberRaises(t)
    \/ \E p \in Fickle : Subscribe(p[1], p[2]) \/ Unsubscribe(p[1], p[2])

(* The event loop goes on, and no subscriber runs for ever. *)
Fairness ==
    \A t \in Tasks : WF_vars(Run(t)) /\ WF_vars(SubscriberReturns(t))

Spec == Init /\ [][Next]_vars /\ Fairness
-----------------------------------------------------------------------------
(* Device d is still ahead of task t. *)
Ahead(t, d) == \E i \in DOMAIN path[t] : path[t][i] = d /\ (i > 1 \/ pc[t] = "visit")

(* A recall never gets suspended or ends early before it reaches d. *)
MayStopAt(d, g) ==
    /\ d \in Registered \intersect Loads
    /\ \/ Subscribers[d] # <<>> \/ \E p \in Fickle : p[1] = d
       \/ \E s \in Scenes : GroupOf[s] = g /\ Entry[d][s] = Missing

Undisturbed(d) ==
    \A g \in GroupIds : \A i \in DOMAIN Members[g] :
        Members[g][i] = d => \A j \in 1..i - 1 : ~MayStopAt(Members[g][j], g)

(* Whatever recalls, queries and direct levels overlap, and whatever the
   subscribers do meanwhile, a device is where running them one after the
   other, in the order they were started, would have put it - its level, the
   level to restore and its last scene.  It holds of the devices a recall
   reaches without having awaited a subscriber. *)
SerialEffect ==
    \A d \in DeviceIds :
        Undisturbed(d) /\ (\A t \in Tasks : ~Ahead(t, d)) => device[d] = serial[d]

(* Once each RECALL line read for a group has had its first turn, the group's
   last scene is that of the line read last, however long earlier recalls are
   still busy with their devices and subscribers. *)
GroupRemembersLatest ==
    \A g \in GroupIds :
        (\A t \in Tasks : pc[t] = "recall" => GroupOf[job[t]] # g)
            => last_scene_address[g] = latest[g]

(* The recalls of group g reach its subscribers: no member and no subscriber
   of a member makes them raise. *)
Sound(g) ==
    /\ g \notin Raising
    /\ \A i \in DOMAIN Members[g] :
        LET d == Members[g][i] IN
        d \in Registered \intersect Loads =>
            d \notin Raising /\ \A s \in Scenes : GroupOf[s] = g => Entry[d][s] # Missing

(* When no task is on its way to a device or group, all its subscribers have
   seen its present level or last scene, for a group and for a device whose
   subscribers do not raise: no update is lost to an overlapping one, and an
   unsubscription during the calls costs the one next in the list its call, but
   nobody else. *)
SubscribersUpToDate ==
    \A x \in Objects :
        /\ IF x \in GroupIds THEN Sound(x) ELSE x \notin Raising
        /\ \A t \in Tasks : \A i \in DOMAIN path[t] : path[t][i] # x
        /\ \A t \in Tasks : pc[t] = "recall" => GroupOf[job[t]] # x
        => \A f \in Range(subscriptions[x]) \ missed[x] : told[x][f] = Shown(x)

(* Every subscriber of a sound group gets to see the group's last scene, unless
   it was skipped for one that unsubscribed: a recall is not stopped by members
   that were not discovered or are no loads, nor by another recall. *)
GroupHears ==
    \A g \in {h \in GroupIds : Sound(h)} : \A f \in Range(Subscribers[g]) :
        told[g][f] # Shown(g) ~>
            told[g][f] = Shown(g) \/ f \in missed[g] \/ ~Contains(subscriptions[g], f)

(* README.md:141 - "We receive notifications when group scenes change, and
   since we know device levels for every scene, we can update devices levels
   without polling devices."  Once all is quiet the loads of a group are at the
   group's last scene.  They are not: a recall that awaits a subscriber of one
   device is overtaken by the next and finishes the later devices after it. *)
FollowsLastScene ==
    (\A t \in Tasks : pc[t] = "none") =>
        \A g \in {h \in GroupIds : Sound(h)} : \A i \in DOMAIN Members[g] :
            Members[g][i] \in Registered \intersect Loads =>
                device[Members[g][i]].last_scene = last_scene_address[g]

(* devices.py:139 - "Last level before device was powered off."  Whatever puts
   a device that was on to 0 leaves the level it had as the last level.  A
   direct level or a query result of 0 does not. *)
LastLevelIsBeforeOff ==
    [][\A d \in DeviceIds :
        device[d].load_level > 0 /\ device'[d].load_level = 0
            => device'[d].last_load_level = device[d].load_level]_vars
=============================================================================
