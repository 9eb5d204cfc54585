-------------------------- MODULE SceneTrackingProofs --------------------------
(* Facts about recalls, levels and subscribers that hold for every set of      *)
(* groups, devices, scenes and subscribers, and any number of tasks.           *)
EXTENDS SceneTracking, QueueLemmas

-----------------------------------------------------------------------------
(* The inductive invariant, in parts *)

(* A task with a way to go beyond one object brings a scene; so does one that
   visits anything. *)
TaskOK(p, j, way, s, f) ==
    /\ p \in PCs /\ way \in Seq(Objects) /\ s \in Nat
    /\ p \in {"called", "busy"} <=> f \in Funcs
    /\ p \in {"notify", "called", "busy"} => way # <<>> /\ s > 0
    /\ p = "recall" \/ (p = "visit" /\ way # <<>>) \/ Len(way) > 1 => j \in Scenes
    /\ p = "level" => way # <<>> /\ Len(way) = 1 /\ Head(way) \in DeviceIds /\ j \in 0..100

TasksOK ==
    /\ DOMAIN pc = Tasks /\ DOMAIN job = Tasks /\ DOMAIN path = Tasks
    /\ DOMAIN sub = Tasks /\ DOMAIN callee = Tasks
    /\ \A t \in Tasks : TaskOK(pc[t], job[t], path[t], sub[t], callee[t])

(* A task is in the queue unless there is none, or it awaits a subscriber. *)
ReadyOK ==
    /\ ready \in Seq(Tasks) /\ Distinct(ready)
    /\ \A t \in Tasks : pc[t] \in {"none", "busy"} <=> ~Contains(ready, t)

DevicesOK ==
    /\ device \in [DeviceIds -> DeviceState] /\ serial \in [DeviceIds -> DeviceState]
    /\ last_scene_address \in [GroupIds -> Scenes \union {NoScene}]

SubscribersOK ==
    /\ subscriptions \in [Objects -> Seq(Funcs)]
    /\ missed \in [Objects -> SUBSET Funcs]

(* A recall of group g that has yet to have its first turn. *)
Pending(t, g) == pc[t] = "recall" /\ GroupOf[job[t]] = g

(* The last of those in the queue has the group's latest scene; without any the
   group has it. *)
LatestOK ==
    /\ latest \in [GroupIds -> Scenes \union {NoScene}]
    /\ \A g \in GroupIds :
        \/ last_scene_address[g] = latest[g] /\ \A t \in Tasks : ~Pending(t, g)
        \/ \E t \in Tasks :
            /\ Pending(t, g) /\ job[t] = latest[g]
            /\ \A r \in Tasks \ {t} : Pending(r, g) => Before(ready, r, t)

IInv == TasksOK /\ ReadyOK /\ DevicesOK /\ SubscribersOK /\ LatestOK

(* The constants, as the proofs use them. *)
LEMMA Constants ==
    /\ GroupOf \in [Scenes -> GroupIds \union {NoGroup}] /\ NoGroup \notin GroupIds
    /\ \A g \in GroupIds : Members[g] \in Seq(DeviceIds)
    /\ \A d \in DeviceIds : \A s \in Scenes :
        Entry[d][s] \in (0..100) \union {Ignore, LastLevel, Missing}
    /\ NoFunc \notin Funcs
    /\ \A p \in Sent : p[1] \in DeviceIds /\ p[2] \in 0..100
    /\ \A p \in Fickle : p[1] \in Objects /\ p[2] \in Funcs
    /\ Subscribers \in [Objects -> Seq(Funcs)]
    /\ Objects = GroupIds \union DeviceIds
    /\ GroupIds \intersect DeviceIds = {}
<1>1. /\ GroupOf \in [Scenes -> GroupIds \union {NoGroup}] /\ NoGroup \notin GroupIds
      /\ \A g \in GroupIds : Members[g] \in Seq(DeviceIds)
      /\ NoFunc \notin Funcs
      /\ Subscribers \in [Objects -> Seq(Funcs)]
      /\ GroupIds \intersect DeviceIds = {}
    BY SceneTrackingAssumption
<1>2. \A d \in DeviceIds : \A s \in Scenes :
        Entry[d][s] \in (0..100) \union {Ignore, LastLevel, Missing}
  <2>1. Entry \in [DeviceIds -> [Scenes -> Levels \union {Ignore, LastLevel, Missing}]]
        /\ Levels \subseteq 0..100
    BY SceneTrackingAssumption
  <2> QED
    BY <2>1
<1>3. \A p \in Sent : p[1] \in DeviceIds /\ p[2] \in 0..100
  <2>1. Sent \subseteq DeviceIds \X (0..100)
    BY SceneTrackingAssumption
  <2> QED
    BY <2>1
<1>4. \A p \in Fickle : p[1] \in Objects /\ p[2] \in Funcs
  <2>1. \A p \in Fickle : p[1] \in Objects
    BY SceneTrackingAssumption
  <2>2. \A p \in Fickle : p[2] \in {q[2] : q \in Fickle}
    OBVIOUS
  <2>3. {q[2] : q \in Fickle} \subseteq Funcs
    BY DEF Funcs
  <2> QED
    BY <2>1, <2>2, <2>3
<1> QED
    BY <1>1, <1>2, <1>3, <1>4 DEF Objects

-----------------------------------------------------------------------------
(* The parts of the state one task's step can change *)

(* Recalls that have yet to have their first turn stay as they are and in their
   order: so does what a group is to remember. *)
LEMMA LatestKept ==
    ASSUME LatestOK, UNCHANGED <<last_scene_address, latest>>,
           \A t \in Tasks : /\ pc[t] = "recall" <=> pc'[t] = "recall"
                            /\ pc[t] = "recall" => job'[t] = job[t],
           \A r, t \in Tasks :
                /\ pc[r] = "recall" /\ pc[t] = "recall" /\ Before(ready, r, t)
                => Before(ready', r, t)
    PROVE  LatestOK'
<1>1. \A t \in Tasks : \A g : /\ Pending(t, g) <=> Pending(t, g)'
                              /\ Pending(t, g) => pc[t] = "recall" /\ job'[t] = job[t]
    BY DEF Pending
<1>2. ASSUME NEW g \in GroupIds
      PROVE  \/ last_scene_address'[g] = latest'[g] /\ \A t \in Tasks : ~Pending(t, g)'
             \/ \E t \in Tasks :
                 /\ Pending(t, g)' /\ job'[t] = latest'[g]
                 /\ \A r \in Tasks \ {t} : Pending(r, g)' => Before(ready', r, t)
  <2>1. CASE last_scene_address[g] = latest[g] /\ \A t \in Tasks : ~Pending(t, g)
    BY <1>1, <2>1
  <2>2. CASE \E t \in Tasks :
                /\ Pending(t, g) /\ job[t] = latest[g]
                /\ \A r \in Tasks \ {t} : Pending(r, g) => Before(ready, r, t)
    BY <1>1, <2>2
  <2> QED
    BY <2>1, <2>2 DEF LatestOK
<1> QED
    BY <1>2 DEF LatestOK

(* A task that is no recall in its first turn, before or after, moves in the
   queue or stays. *)
LEMMA OtherTaskMoves ==
    ASSUME TasksOK, ReadyOK, LatestOK, UNCHANGED <<last_scene_address, latest>>,
           NEW t \in Tasks, pc[t] # "recall", pc'[t] # "recall",
           \A u \in Tasks \ {t} : pc'[u] = pc[u] /\ job'[u] = job[u],
           \/ ready' = ready \/ ready' = Append(ready, t) \/ ready' = Without(ready, t)
           \/ ready # <<>> /\ ready' = Tail(ready)
           \/ ready # <<>> /\ ready' = Append(Tail(ready), t)
    PROVE  LatestOK'
<1>1. ASSUME NEW r \in Tasks, NEW u \in Tasks, pc[r] = "recall", Before(ready, r, u)
      PROVE  Before(ready', r, u)
  <2>1. ready \in Seq(Tasks) /\ r # t
    BY <1>1 DEF ReadyOK
  <2>2. ready # <<>> => Tail(ready) \in Seq(Tasks) /\ Before(Tail(ready), r, u)
    BY <1>1, <2>1, QueueTail, BeforeTail
  <2> QED
    BY <1>1, <2>1, <2>2, BeforeAppend, BeforeWithout
<1> QED
    BY <1>1, LatestKept

(* Only task t changes. *)
LEMMA OneTask ==
    ASSUME TasksOK, NEW t \in Tasks,
           UNCHANGED <<DOMAIN pc, DOMAIN job, DOMAIN path, DOMAIN sub, DOMAIN callee>>,
           \A u \in Tasks \ {t} : /\ pc'[u] = pc[u] /\ job'[u] = job[u] /\ path'[u] = path[u]
                                  /\ sub'[u] = sub[u] /\ callee'[u] = callee[u],
           TaskOK(pc'[t], job'[t], path'[t], sub'[t], callee'[t])
    PROVE  TasksOK'
BY DEF TasksOK, TaskOK

(* A task that runs ends, or goes on without giving up its turn. *)
LEMMA EndsKeeps ==
    ASSUME TasksOK, ReadyOK, NEW t \in Tasks, Ends(t)
    PROVE  TasksOK' /\ ReadyOK'
<1>1. TaskOK(pc'[t], job'[t], path'[t], sub'[t], callee'[t])
    BY Constants DEF Ends, TasksOK, TaskOK, PCs
<1>2. TasksOK'
    BY <1>1, OneTask DEF Ends, TasksOK
<1>3. ready \in Seq(Tasks) /\ ready' = Without(ready, t)
    BY DEF Ends, ReadyOK
<1>4. /\ ready' \in Seq(Tasks) /\ Distinct(ready') /\ ~Contains(ready', t)
      /\ \A u : Contains(ready', u) => Contains(ready, u)
      /\ \A u : u # t /\ Contains(ready, u) => Contains(ready', u)
    BY <1>3, QueueWithout, QueueWithoutKeeps DEF ReadyOK
<1>5. pc'[t] = "none" /\ \A u \in Tasks \ {t} : pc'[u] = pc[u]
    BY DEF Ends, TasksOK
<1> QED
    BY <1>2, <1>4, <1>5 DEF ReadyOK

LEMMA NotifiesKeeps ==
    ASSUME TasksOK, ReadyOK, NEW t \in Tasks, Notifies(t),
           pc[t] \in {"visit", "level"}, path[t] # <<>>
    PROVE  TasksOK' /\ ReadyOK'
<1>1. TaskOK(pc'[t], job'[t], path'[t], sub'[t], callee'[t])
    BY DEF Notifies, TasksOK, TaskOK, PCs
<1> QED
    BY <1>1, OneTask DEF Notifies, TasksOK, ReadyOK

LEMMA LeavesKeeps ==
    ASSUME TasksOK, ReadyOK, NEW t \in Tasks, Leaves(t),
           pc[t] \in {"visit", "notify"}, path[t] # <<>>
    PROVE  TasksOK' /\ ReadyOK'
<1>1. path[t] \in Seq(Objects)
    BY DEF TasksOK, TaskOK
<1>2. /\ path'[t] = Tail(path[t]) /\ path'[t] \in Seq(Objects)
      /\ Len(path'[t]) = Len(path[t]) - 1 /\ Len(path[t]) \in Nat
      /\ path'[t] # <<>> => Len(path[t]) > 1
    BY <1>1, HeadTailProperties, EmptySeq, LenProperties DEF Leaves, TasksOK
<1>3. TaskOK(pc'[t], job'[t], path'[t], sub'[t], callee'[t])
    BY <1>2 DEF Leaves, TasksOK, TaskOK, PCs
<1>4. TasksOK'
    BY <1>3, OneTask DEF Leaves, TasksOK
<1> QED
    BY <1>4 DEF Leaves, TasksOK, ReadyOK

-----------------------------------------------------------------------------
(* What a recall or a level does to a device stays within 0..100. *)
LEMMA SetSceneLevelTyped ==
    ASSUME NEW dev \in DeviceState, NEW s \in Scenes,
           NEW e \in (0..100) \union {Ignore, LastLevel}
    PROVE  SetSceneLevel(dev, s, e) \in DeviceState
<1> DEFINE at == [dev EXCEPT !.last_scene = s]
<1>1. at \in DeviceState
    BY DEF DeviceState
<1>2. \A level \in 0..100 : SetLevel(at, level) \in DeviceState
    BY <1>1 DEF DeviceState, SetLevel
<1>3. at.last_load_level \in 0..100
    BY <1>1 DEF DeviceState
<1> QED
    BY <1>1, <1>2, <1>3 DEF SetSceneLevel, Ignore, LastLevel

LEMMA SerialRecallTyped ==
    ASSUME DevicesOK, NEW s \in Scenes
    PROVE  SerialRecall(s) \in [DeviceIds -> DeviceState]
<1>1. ASSUME NEW d \in DeviceIds
      PROVE  SerialRecall(s)[d] \in DeviceState
  <2>1. Entry[d][s] \in (0..100) \union {Ignore, LastLevel, Missing}
    BY Constants
  <2>2. serial[d] \in DeviceState
    BY DEF DevicesOK
  <2> QED
    BY <2>1, <2>2 DEF SerialRecall, DeviceState, Ignore, LastLevel, Missing
<1>2. SerialRecall(s) = [d \in DeviceIds |-> SerialRecall(s)[d]]
    BY DEF SerialRecall
<1> QED
    BY <1>1, <1>2

-----------------------------------------------------------------------------
(* Each action keeps the invariant. *)

(* What a task with nothing to do with first turns of recalls does. *)
LEMMA SpawnKeeps ==
    ASSUME IInv, NEW kind \in {"recall", "level"}, NEW what, NEW to, Spawn(kind, what, to),
           kind = "recall" => what \in Scenes /\ to = <<>>,
           kind = "level" => what \in 0..100 /\ \E d \in DeviceIds : to = <<d>>
    PROVE  /\ TasksOK' /\ ReadyOK' /\ DevicesOK' /\ SubscribersOK'
           /\ \E t \in Tasks : /\ pc[t] = "none" /\ ~Contains(ready, t)
                               /\ pc'[t] = kind /\ job'[t] = what
                               /\ ready' = Append(ready, t)
                               /\ \A u \in Tasks \ {t} : pc'[u] = pc[u] /\ job'[u] = job[u]
           /\ UNCHANGED last_scene_address
<1> USE DEF IInv
<1>1. PICK t \in Tasks :
        /\ pc[t] = "none"
        /\ pc' = [pc EXCEPT ![t] = kind]
        /\ job' = [job EXCEPT ![t] = what]
        /\ path' = [path EXCEPT ![t] = to]
        /\ ready' = Append(ready, t)
        /\ UNCHANGED <<device, last_scene_address, sub, callee, subscribing, told, missed, serial>>
    BY DEF Spawn
<1>2. /\ pc'[t] = kind /\ job'[t] = what /\ path'[t] = to
      /\ sub'[t] = sub[t] /\ callee'[t] = callee[t]
      /\ sub[t] \in Nat /\ callee[t] \notin Funcs
    BY <1>1 DEF TasksOK, TaskOK
<1>3. TaskOK(kind, what, to, sub[t], callee[t])
  <2>1. CASE kind = "recall"
    <3>1. <<>> \in Seq(Objects) /\ Len(<<>>) = 0
      OBVIOUS
    <3> QED
      BY <1>2, <2>1, <3>1 DEF TaskOK, PCs
  <2>2. CASE kind = "level"
    <3>1. PICK d \in DeviceIds : to = <<d>>
      BY <2>2
    <3>2. d \in Objects
      BY DEF Objects
    <3>3. <<d>> \in Seq(Objects) /\ <<d>> # <<>> /\ Len(<<d>>) = 1 /\ Head(<<d>>) = d
      BY <3>2
    <3> QED
      BY <1>2, <2>2, <3>1, <3>3 DEF TaskOK, PCs
  <2> QED
    BY <2>1, <2>2
<1>4. TasksOK'
    BY <1>1, <1>2, <1>3, OneTask DEF TasksOK
<1>5. ~Contains(ready, t) /\ ready \in Seq(Tasks)
    BY <1>1 DEF ReadyOK
<1>6. /\ ready' \in Seq(Tasks) /\ Distinct(ready')
      /\ \A x : Contains(ready', x) <=> Contains(ready, x) \/ x = t
    BY <1>1, <1>5, QueueAppend DEF ReadyOK
<1>7. pc'[t] = kind /\ job'[t] = what /\ \A u \in Tasks \ {t} : pc'[u] = pc[u] /\ job'[u] = job[u]
    BY <1>1 DEF TasksOK
<1>8. ReadyOK'
    BY <1>6, <1>7 DEF ReadyOK
<1>9. DevicesOK' /\ SubscribersOK'
    BY <1>1 DEF DevicesOK, SubscribersOK, subscribing
<1> QED
    BY <1>1, <1>4, <1>5, <1>7, <1>8, <1>9

LEMMA ReadRecallKeeps ==
    ASSUME IInv, NEW s \in Scenes, ReadRecall(s)
    PROVE  IInv'
<1>1. Spawn("recall", s, <<>>)
    BY DEF ReadRecall
<1>2. /\ TasksOK' /\ ReadyOK' /\ DevicesOK' /\ SubscribersOK'
      /\ UNCHANGED last_scene_address
    BY <1>1, SpawnKeeps
<1>3. PICK t \in Tasks : /\ pc[t] = "none" /\ ~Contains(ready, t)
                         /\ pc'[t] = "recall" /\ job'[t] = s
                         /\ ready' = Append(ready, t)
                         /\ \A u \in Tasks \ {t} : pc'[u] = pc[u] /\ job'[u] = job[u]
    BY <1>1, SpawnKeeps
<1>4. /\ \A r, u \in Tasks : r # t /\ Before(ready, r, u) => Before(ready', r, u)
      /\ \A r \in Tasks : r # t => Before(ready', r, t)
    BY <1>3, BeforeAppend DEF IInv, ReadyOK
<1>5. GroupOf[s] \in GroupIds \union {NoGroup} /\ NoGroup \notin GroupIds
    BY Constants
<1>6. /\ latest \in [GroupIds -> Scenes \union {NoScene}]
      /\ latest' = IF GroupOf[s] = NoGroup THEN latest ELSE [latest EXCEPT ![GroupOf[s]] = s]
    BY DEF ReadRecall, IInv, LatestOK
<1>7. /\ latest' \in [GroupIds -> Scenes \union {NoScene}]
      /\ \A g \in GroupIds : latest'[g] = IF g = GroupOf[s] THEN s ELSE latest[g]
    BY <1>5, <1>6
<1>8. \A u \in Tasks, g \in GroupIds :
        Pending(u, g)' <=> IF u = t THEN g = GroupOf[s] ELSE Pending(u, g)
    BY <1>3 DEF Pending
<1>9. ASSUME NEW g \in GroupIds
      PROVE  \/ last_scene_address'[g] = latest'[g] /\ \A u \in Tasks : ~Pending(u, g)'
             \/ \E u \in Tasks :
                 /\ Pending(u, g)' /\ job'[u] = latest'[g]
                 /\ \A r \in Tasks \ {u} : Pending(r, g)' => Before(ready', r, u)
  <2>1. CASE g = GroupOf[s]
    BY <1>3, <1>4, <1>7, <1>8, <2>1
  <2>2. CASE g # GroupOf[s]
    <3>1. CASE last_scene_address[g] = latest[g] /\ \A u \in Tasks : ~Pending(u, g)
      BY <1>2, <1>7, <1>8, <2>2, <3>1
    <3>2. CASE \E u \in Tasks :
                /\ Pending(u, g) /\ job[u] = latest[g]
                /\ \A r \in Tasks \ {u} : Pending(r, g) => Before(ready, r, u)
      <4>1. PICK u \in Tasks :
                /\ Pending(u, g) /\ job[u] = latest[g]
                /\ \A r \in Tasks \ {u} : Pending(r, g) => Before(ready, r, u)
        BY <3>2
      <4>2. u # t
        BY <1>3, <4>1 DEF Pending
      <4>3. Pending(u, g)' /\ job'[u] = latest'[g]
        BY <1>3, <1>7, <1>8, <2>2, <4>1, <4>2
      <4>4. \A r \in Tasks \ {u} : Pending(r, g)' => Before(ready', r, u)
        BY <1>4, <1>8, <2>2, <4>1
      <4> QED
        BY <4>3, <4>4
    <3> QED
      BY <3>1, <3>2 DEF IInv, LatestOK
  <2> QED
    BY <2>1, <2>2
<1>10. LatestOK'
    BY <1>7, <1>9 DEF LatestOK
<1> QED
    BY <1>2, <1>10 DEF IInv

LEMMA LevelSentKeeps ==
    ASSUME IInv, NEW d \in DeviceIds, NEW level \in 0..100, LevelSent(d, level)
    PROVE  IInv'
<1>1. Spawn("level", level, <<d>>) /\ latest' = latest
    BY DEF LevelSent
<1>2. /\ TasksOK' /\ ReadyOK' /\ DevicesOK' /\ SubscribersOK'
      /\ UNCHANGED last_scene_address
    BY <1>1, SpawnKeeps
<1>3. PICK t \in Tasks : /\ pc[t] = "none" /\ ~Contains(ready, t)
                         /\ pc'[t] = "level" /\ job'[t] = level
                         /\ ready' = Append(ready, t)
                         /\ \A u \in Tasks \ {t} : pc'[u] = pc[u] /\ job'[u] = job[u]
    BY <1>1, SpawnKeeps
<1>4. LatestOK'
    BY <1>1, <1>2, <1>3, OtherTaskMoves DEF IInv
<1> QED
    BY <1>2, <1>4 DEF IInv

(* The task that runs is the first of the queue. *)
LEMMA RunningIsFirst ==
    ASSUME ReadyOK, NEW t \in Tasks, Running(t)
    PROVE  /\ ready \in Seq(Tasks) /\ ready # <<>> /\ Contains(ready, t)
           /\ t = Head(ready)
BY QueueTail DEF ReadyOK, Running

(* A recall begins: its group, if there is one, has its scene, and the recall is
   the group's last only if no other is waiting. *)
LEMMA StartRecallKeeps ==
    ASSUME IInv, NEW t \in Tasks, StartRecall(t)
    PROVE  IInv'
<1> USE DEF IInv
<1> DEFINE g == GroupOf[job[t]]
<1>1. /\ ready \in Seq(Tasks) /\ ready # <<>> /\ t = Head(ready) /\ Contains(ready, t)
      /\ pc[t] = "recall" /\ job[t] \in Scenes
    BY RunningIsFirst DEF StartRecall, TasksOK, TaskOK
<1>2. g \in GroupIds \union {NoGroup} /\ NoGroup \notin GroupIds
    BY <1>1, Constants
<1>3. UNCHANGED <<device, subscribing, missed, latest>>
    BY DEF StartRecall
<1>4. SubscribersOK'
    BY <1>3 DEF SubscribersOK, subscribing
<1>5. CASE g = NoGroup
  <2>1. Ends(t) /\ UNCHANGED <<last_scene_address, serial>>
    BY <1>5 DEF StartRecall
  <2>2. TasksOK' /\ ReadyOK'
    BY <2>1, EndsKeeps
  <2>3. DevicesOK'
    BY <1>3, <2>1 DEF DevicesOK
  <2>4. /\ pc'[t] = "none" /\ ready' = Without(ready, t)
        /\ \A u \in Tasks \ {t} : pc'[u] = pc[u] /\ job'[u] = job[u]
    BY <2>1 DEF Ends, TasksOK
  <2>5. \A r, u \in Tasks : Before(ready, r, u) => Before(ready', r, u)
    BY <1>1, <2>4, BeforeWithout
  <2>6. \A u \in Tasks, h \in GroupIds : /\ Pending(u, h)' <=> Pending(u, h)
                                         /\ Pending(u, h) => u # t
    BY <1>2, <1>5, <2>4 DEF Pending
  <2>7. LatestOK'
    <3>1. ASSUME NEW h \in GroupIds
          PROVE  \/ last_scene_address'[h] = latest'[h] /\ \A u \in Tasks : ~Pending(u, h)'
                 \/ \E u \in Tasks :
                     /\ Pending(u, h)' /\ job'[u] = latest'[h]
                     /\ \A r \in Tasks \ {u} : Pending(r, h)' => Before(ready', r, u)
      <4>1. CASE last_scene_address[h] = latest[h] /\ \A u \in Tasks : ~Pending(u, h)
        BY <1>3, <2>1, <2>6, <4>1
      <4>2. CASE \E u \in Tasks :
                    /\ Pending(u, h) /\ job[u] = latest[h]
                    /\ \A r \in Tasks \ {u} : Pending(r, h) => Before(ready, r, u)
        BY <1>3, <2>4, <2>5, <2>6, <4>2
      <4> QED
        BY <4>1, <4>2 DEF LatestOK
    <3> QED
      BY <1>3, <3>1 DEF LatestOK
  <2> QED
    BY <1>4, <2>2, <2>3, <2>7
<1>6. CASE g \in GroupIds
  <2>1. /\ last_scene_address' = [last_scene_address EXCEPT ![g] = job[t]]
        /\ pc' = [pc EXCEPT ![t] = "visit"]
        /\ path' = [path EXCEPT ![t] = Append(Members[g], g)]
        /\ serial' = SerialRecall(job[t])
        /\ UNCHANGED <<ready, job, sub, callee>>
    BY <1>2, <1>6 DEF StartRecall
  <2>2. Append(Members[g], g) \in Seq(Objects)
    <3>1. Members[g] \in Seq(Objects) /\ g \in Objects
      BY <1>6, Constants
    <3> QED
      BY <3>1, AppendProperties
  <2>3. TaskOK(pc'[t], job'[t], path'[t], sub'[t], callee'[t])
    BY <1>1, <2>1, <2>2 DEF TasksOK, TaskOK, PCs
  <2>4. TasksOK'
    BY <2>1, <2>3, OneTask DEF TasksOK
  <2>5. /\ pc'[t] = "visit" /\ \A u \in Tasks \ {t} : pc'[u] = pc[u] /\ job'[u] = job[u]
    BY <2>1 DEF TasksOK
  <2>6. ReadyOK'
    BY <1>1, <2>1, <2>5 DEF ReadyOK
  <2>7. DevicesOK'
    BY <1>1, <1>3, <1>6, <2>1, SerialRecallTyped DEF DevicesOK
  <2>8. \A u \in Tasks, h \in GroupIds : Pending(u, h)' <=> u # t /\ Pending(u, h)
    BY <2>5 DEF Pending
  <2>9. \A h \in GroupIds : /\ Pending(t, h) <=> h = g
                            /\ last_scene_address'[h] = IF h = g THEN job[t] ELSE last_scene_address[h]
    BY <1>1, <2>1 DEF Pending, DevicesOK
  <2>10. ASSUME NEW h \in GroupIds
         PROVE  \/ last_scene_address'[h] = latest'[h] /\ \A u \in Tasks : ~Pending(u, h)'
                \/ \E u \in Tasks :
                    /\ Pending(u, h)' /\ job'[u] = latest'[h]
                    /\ \A r \in Tasks \ {u} : Pending(r, h)' => Before(ready', r, u)
    <3>1. CASE last_scene_address[h] = latest[h] /\ \A u \in Tasks : ~Pending(u, h)
      BY <1>3, <2>8, <2>9, <3>1
    <3>2. CASE \E u \in Tasks :
                  /\ Pending(u, h) /\ job[u] = latest[h]
                  /\ \A r \in Tasks \ {u} : Pending(r, h) => Before(ready, r, u)
      <4>1. PICK u \in Tasks :
                  /\ Pending(u, h) /\ job[u] = latest[h]
                  /\ \A r \in Tasks \ {u} : Pending(r, h) => Before(ready, r, u)
        BY <3>2
      <4>2. CASE u = t
        <5>1. \A r \in Tasks \ {t} : ~Pending(r, h)
          <6>1. ASSUME NEW r \in Tasks \ {t}, Pending(r, h)
                PROVE  FALSE
            <7>1. Before(ready, r, t) /\ Contains(ready, r)
              BY <4>1, <4>2, <6>1 DEF ReadyOK, Pending
            <7> QED
              BY <1>1, <7>1, BeforeHead
          <6> QED
            BY <6>1
        <5> QED
          BY <1>3, <2>8, <2>9, <4>1, <4>2, <5>1
      <4>3. CASE u # t
        BY <1>3, <2>1, <2>5, <2>8, <4>1, <4>3
      <4> QED
        BY <4>2, <4>3
    <3> QED
      BY <3>1, <3>2 DEF LatestOK
  <2>11. LatestOK'
    BY <1>3, <2>10 DEF LatestOK
  <2> QED
    BY <1>4, <2>4, <2>6, <2>7, <2>11
<1> QED
    BY <1>2, <1>5, <1>6

(* A task that runs, not for the first time, and then ends, leaves its object or
   calls the object's subscribers. *)
LEMMA RunKeeps ==
    ASSUME IInv, NEW t \in Tasks, Running(t),
           \/ Ends(t) /\ pc[t] # "recall"
           \/ Notifies(t) /\ pc[t] \in {"visit", "level"} /\ path[t] # <<>>
           \/ Leaves(t) /\ pc[t] \in {"visit", "notify"} /\ path[t] # <<>>,
           UNCHANGED <<last_scene_address, latest>>
    PROVE  TasksOK' /\ ReadyOK' /\ LatestOK'
<1> USE DEF IInv
<1>1. TasksOK' /\ ReadyOK'
    BY EndsKeeps, NotifiesKeeps, LeavesKeeps
<1>2. /\ pc[t] # "recall" /\ pc'[t] # "recall"
      /\ \A u \in Tasks \ {t} : pc'[u] = pc[u] /\ job'[u] = job[u]
      /\ ready' = ready \/ ready' = Without(ready, t)
    BY DEF Ends, Notifies, Leaves, TasksOK
<1>3. LatestOK'
    BY <1>2, OtherTaskMoves
<1> QED
    BY <1>1, <1>3

LEMMA VisitKeeps ==
    ASSUME IInv, NEW t \in Tasks, SkipDevice(t) \/ VisitDevice(t) \/ VisitGroup(t) \/ Finish(t)
    PROVE  IInv'
<1> USE DEF IInv
<1>1. CASE SkipDevice(t) \/ VisitGroup(t) \/ Finish(t)
  <2>1. TasksOK' /\ ReadyOK' /\ LatestOK'
    BY <1>1, RunKeeps DEF SkipDevice, VisitGroup, Finish, history
  <2>2. DevicesOK' /\ SubscribersOK'
    BY <1>1 DEF SkipDevice, VisitGroup, Finish, history, subscribing, DevicesOK, SubscribersOK
  <2> QED
    BY <2>1, <2>2
<1>2. CASE VisitDevice(t)
  <2> DEFINE d == Head(path[t])
             e == Entry[d][job[t]]
  <2>1. /\ Running(t) /\ pc[t] = "visit" /\ path[t] # <<>> /\ d \in Registered \intersect Loads
        /\ UNCHANGED <<last_scene_address, subscribing, missed, latest, serial>>
        /\ device' = IF e = Missing THEN device
                     ELSE [device EXCEPT ![d] = SetSceneLevel(@, job[t], e)]
    BY <1>2 DEF VisitDevice, history
  <2>2. Ends(t) \/ Leaves(t) \/ Notifies(t)
    BY <1>2 DEF VisitDevice
  <2>3. TasksOK' /\ ReadyOK' /\ LatestOK'
    BY <2>1, <2>2, RunKeeps
  <2>4. job[t] \in Scenes /\ d \in DeviceIds
    BY <2>1, SceneTrackingAssumption DEF TasksOK, TaskOK
  <2>5. e \in (0..100) \union {Ignore, LastLevel, Missing} /\ device[d] \in DeviceState
    BY <2>4, Constants DEF DevicesOK
  <2>6. e # Missing => SetSceneLevel(device[d], job[t], e) \in DeviceState
    BY <2>4, <2>5, SetSceneLevelTyped
  <2>7. DevicesOK' /\ SubscribersOK'
    BY <2>1, <2>4, <2>6 DEF DevicesOK, SubscribersOK, subscribing
  <2> QED
    BY <2>3, <2>7
<1> QED
    BY <1>1, <1>2

LEMMA ApplyLevelKeeps ==
    ASSUME IInv, NEW t \in Tasks, ApplyLevel(t)
    PROVE  IInv'
<1> USE DEF IInv
<1> DEFINE d == Head(path[t])
<1>1. /\ Running(t) /\ pc[t] = "level" /\ path[t] # <<>>
      /\ d \in DeviceIds /\ job[t] \in 0..100
      /\ UNCHANGED <<last_scene_address, subscribing, missed, latest>>
      /\ Notifies(t) \/ Ends(t)
    BY DEF ApplyLevel, TasksOK, TaskOK
<1>2. TasksOK' /\ ReadyOK' /\ LatestOK'
    BY <1>1, RunKeeps
<1>3. \/ UNCHANGED <<device, serial>>
      \/ /\ device' = [device EXCEPT ![d].load_level = job[t]]
         /\ serial' = [serial EXCEPT ![d].load_level = job[t]]
    BY DEF ApplyLevel
<1>4. \A dev \in DeviceState : [dev EXCEPT !.load_level = job[t]] \in DeviceState
    BY <1>1 DEF DeviceState
<1>5. DevicesOK'
  <2>1. device[d] \in DeviceState /\ serial[d] \in DeviceState
    BY <1>1 DEF DevicesOK
  <2>2. /\ [device[d] EXCEPT !.load_level = job[t]] \in DeviceState
        /\ [serial[d] EXCEPT !.load_level = job[t]] \in DeviceState
    BY <1>4, <2>1
  <2> QED
    BY <1>1, <1>3, <2>2 DEF DevicesOK
<1>6. SubscribersOK'
    BY <1>1 DEF SubscribersOK, subscribing
<1> QED
    BY <1>2, <1>5, <1>6

(* The calls of subscribers: a task gives up its turn and gets one again. *)
LEMMA CallKeeps ==
    ASSUME IInv, NEW t \in Tasks,
           CallSubscriber(t) \/ SubscriberStarts(t) \/ SubscriberReturns(t) \/ SubscriberRaises(t)
    PROVE  IInv'
<1> USE DEF IInv
<1>1. UNCHANGED <<device, serial, last_scene_address, latest, subscribing>>
    BY DEF CallSubscriber, SubscriberStarts, SubscriberReturns, SubscriberRaises, history
<1>2. DevicesOK'
    BY <1>1 DEF DevicesOK
<1>3. SubscribersOK'
  <2>1. UNCHANGED missed \/ SubscriberStarts(t)
    BY DEF CallSubscriber, SubscriberReturns, SubscriberRaises
  <2>2. CASE SubscriberStarts(t)
    <3>1. missed' = [missed EXCEPT ![Head(path[t])] = @ \ {callee[t]}]
      BY <2>2 DEF SubscriberStarts
    <3> QED
      BY <1>1, <3>1 DEF SubscribersOK, subscribing
  <2> QED
    BY <1>1, <2>1, <2>2 DEF SubscribersOK, subscribing
<1>4. CASE CallSubscriber(t)
  <2> DEFINE subs == subscriptions[Head(path[t])]
  <2>1. Running(t) /\ pc[t] = "notify" /\ path[t] # <<>> /\ sub[t] > 0 /\ sub[t] \in Nat
    BY <1>4 DEF CallSubscriber, TasksOK, TaskOK
  <2>2. CASE sub[t] <= Len(subs)
    <3>1. /\ pc' = [pc EXCEPT ![t] = "called"]
          /\ callee' = [callee EXCEPT ![t] = subs[sub[t]]]
          /\ ready' = Append(Tail(ready), t)
          /\ UNCHANGED <<job, path, sub>>
      BY <1>4, <2>2 DEF CallSubscriber
    <3>2. Head(path[t]) \in Objects
      BY <2>1, HeadTailProperties DEF TasksOK, TaskOK
    <3>3. subs \in Seq(Funcs)
      BY <3>2 DEF SubscribersOK
    <3>4. subs[sub[t]] \in Funcs
      BY <2>1, <2>2, <3>3, ElementOfSeq, LenProperties
    <3>5. TaskOK(pc'[t], job'[t], path'[t], sub'[t], callee'[t])
      BY <2>1, <3>1, <3>4 DEF TasksOK, TaskOK, PCs
    <3>6. TasksOK'
      BY <3>1, <3>5, OneTask DEF TasksOK
    <3>7. pc'[t] = "called" /\ \A u \in Tasks \ {t} : pc'[u] = pc[u] /\ job'[u] = job[u]
      BY <3>1 DEF TasksOK
    <3>8. ready \in Seq(Tasks) /\ ready # <<>> /\ t = Head(ready)
      BY <2>1, RunningIsFirst
    <3>9. /\ Tail(ready) \in Seq(Tasks) /\ Distinct(Tail(ready)) /\ ~Contains(Tail(ready), t)
          /\ \A u : Contains(Tail(ready), u) => Contains(ready, u)
          /\ \A u : u # t /\ Contains(ready, u) => Contains(Tail(ready), u)
      BY <3>8, QueueTail, QueueTailKeeps DEF ReadyOK
    <3>10. /\ ready' \in Seq(Tasks) /\ Distinct(ready')
           /\ \A u : Contains(ready', u) <=> Contains(Tail(ready), u) \/ u = t
      BY <3>1, <3>9, QueueAppend
    <3>11. ReadyOK'
      BY <3>7, <3>9, <3>10 DEF ReadyOK
    <3>12. LatestOK'
      BY <1>1, <2>1, <3>1, <3>7, <3>8, OtherTaskMoves
    <3> QED
      BY <1>2, <1>3, <3>6, <3>11, <3>12
  <2>3. CASE ~(sub[t] <= Len(subs))
    <3>1. Leaves(t)
      BY <1>4, <2>3 DEF CallSubscriber
    <3> QED
      BY <1>1, <1>2, <1>3, <2>1, <3>1, RunKeeps
  <2> QED
    BY <2>2, <2>3
<1>5. CASE SubscriberStarts(t)
  <2>1. /\ Running(t) /\ pc[t] = "called"
        /\ pc' = [pc EXCEPT ![t] = "busy"] /\ ready' = Tail(ready)
        /\ UNCHANGED <<job, path, sub, callee>>
    BY <1>5 DEF SubscriberStarts
  <2>2. TaskOK(pc'[t], job'[t], path'[t], sub'[t], callee'[t])
    BY <2>1 DEF TasksOK, TaskOK, PCs
  <2>3. TasksOK'
    BY <2>1, <2>2, OneTask DEF TasksOK
  <2>4. pc'[t] = "busy" /\ \A u \in Tasks \ {t} : pc'[u] = pc[u] /\ job'[u] = job[u]
    BY <2>1 DEF TasksOK
  <2>5. ready \in Seq(Tasks) /\ ready # <<>> /\ t = Head(ready)
    BY <2>1, RunningIsFirst
  <2>6. /\ ready' \in Seq(Tasks) /\ Distinct(ready') /\ ~Contains(ready', t)
        /\ \A u : Contains(ready', u) => Contains(ready, u)
        /\ \A u : u # t /\ Contains(ready, u) => Contains(ready', u)
    BY <2>1, <2>5, QueueTail, QueueTailKeeps DEF ReadyOK
  <2>7. ReadyOK'
    BY <2>4, <2>6 DEF ReadyOK
  <2>8. LatestOK'
    BY <1>1, <2>1, <2>4, <2>5, OtherTaskMoves
  <2> QED
    BY <1>2, <1>3, <2>3, <2>7, <2>8
<1>6. CASE SubscriberReturns(t)
  <2>1. /\ pc[t] = "busy"
        /\ pc' = [pc EXCEPT ![t] = "notify"] /\ sub' = [sub EXCEPT ![t] = @ + 1]
        /\ callee' = [callee EXCEPT ![t] = NoFunc] /\ ready' = Append(ready, t)
        /\ UNCHANGED <<job, path>>
    BY <1>6 DEF SubscriberReturns
  <2>2. TaskOK(pc'[t], job'[t], path'[t], sub'[t], callee'[t])
    BY <2>1, Constants DEF TasksOK, TaskOK, PCs
  <2>3. TasksOK'
    BY <2>1, <2>2, OneTask DEF TasksOK
  <2>4. pc'[t] = "notify" /\ \A u \in Tasks \ {t} : pc'[u] = pc[u] /\ job'[u] = job[u]
    BY <2>1 DEF TasksOK
  <2>5. ready \in Seq(Tasks) /\ ~Contains(ready, t)
    BY <2>1 DEF ReadyOK
  <2>6. /\ ready' \in Seq(Tasks) /\ Distinct(ready')
        /\ \A u : Contains(ready', u) <=> Contains(ready, u) \/ u = t
    BY <2>1, <2>5, QueueAppend DEF ReadyOK
  <2>7. ReadyOK'
    BY <2>4, <2>6 DEF ReadyOK
  <2>8. LatestOK'
    BY <1>1, <2>1, <2>4, OtherTaskMoves
  <2> QED
    BY <1>2, <1>3, <2>3, <2>7, <2>8
<1>7. CASE SubscriberRaises(t)
  <2>1. pc[t] = "busy" /\ Ends(t)
    BY <1>7 DEF SubscriberRaises
  <2>2. TasksOK' /\ ReadyOK'
    BY <2>1, EndsKeeps
  <2>3. /\ pc'[t] = "none" /\ ready' = Without(ready, t)
        /\ \A u \in Tasks \ {t} : pc'[u] = pc[u] /\ job'[u] = job[u]
    BY <2>1 DEF Ends, TasksOK
  <2>4. LatestOK'
    BY <1>1, <2>1, <2>3, OtherTaskMoves
  <2> QED
    BY <1>2, <1>3, <2>2, <2>4
<1> QED
    BY <1>4, <1>5, <1>6, <1>7

(* Subscriptions come and go. *)
LEMMA SubscriptionKeeps ==
    ASSUME IInv, NEW x \in Objects, NEW f \in Funcs, Subscribe(x, f) \/ Unsubscribe(x, f)
    PROVE  IInv'
<1> USE DEF IInv
<1>1. UNCHANGED <<device, last_scene_address, ready, pc, job, path, sub, callee, latest, serial>>
    BY DEF Subscribe, Unsubscribe, Changes, history
<1>2. TasksOK' /\ ReadyOK' /\ DevicesOK'
    BY <1>1 DEF TasksOK, ReadyOK, DevicesOK
<1>3. LatestOK'
    BY <1>1, LatestKept
<1>4. SubscribersOK'
  <2>1. subscriptions[x] \in Seq(Funcs) /\ missed[x] \subseteq Funcs
    BY DEF SubscribersOK
  <2>2. CASE Subscribe(x, f)
    <3>1. Append(subscriptions[x], f) \in Seq(Funcs)
      BY <2>1, AppendProperties
    <3> QED
      BY <2>1, <2>2, <3>1 DEF Subscribe, SubscribersOK
  <2>3. CASE Unsubscribe(x, f)
    <3> DEFINE subs == subscriptions[x]
               IsFirst(i) == subs[i] = f /\ \A j \in 1..i - 1 : subs[j] # f
               at == CHOOSE i \in DOMAIN subs : IsFirst(i)
               skips(t) == at < NextCall(t, x) /\ NextCall(t, x) <= Len(subs)
               skipped == {subs[NextCall(t, x)] : t \in {r \in Tasks : skips(r)}}
    <3>1. /\ Contains(subs, f)
          /\ subscriptions' = [subscriptions EXCEPT ![x] = RemoveAt(@, at)]
          /\ missed' = [missed EXCEPT ![x] = @ \union skipped]
      BY <2>3 DEF Unsubscribe
    <3>2. at \in 1..Len(subs)
      <4> DEFINE T == {i \in 1..Len(subs) : subs[i] = f}
      <4>1. T # {} /\ T \subseteq Nat
        BY <3>1 DEF Contains
      <4>2. PICK m \in T : \A k \in T : m <= k
        BY <4>1, LeastOf
      <4>3. DOMAIN subs = 1..Len(subs) /\ Len(subs) \in Nat
        BY <2>1
      <4>4. m \in DOMAIN subs /\ IsFirst(m)
        BY <4>2, <4>3
      <4> QED
        BY <4>3, <4>4
    <3> HIDE DEF at
    <3>3. RemoveAt(subs, at) \in Seq(Funcs)
      BY <2>1, <3>2, RemoveAtProperties
    <3>4. skipped \subseteq Funcs
      <4>1. ASSUME NEW t \in Tasks, skips(t)
            PROVE  subs[NextCall(t, x)] \in Funcs
        <5>1. NextCall(t, x) \in Nat
          BY DEF NextCall, TasksOK, TaskOK
        <5>2. NextCall(t, x) \in 1..Len(subs)
          BY <2>1, <3>2, <4>1, <5>1
        <5> QED
          BY <2>1, <5>2, ElementOfSeq
      <4> QED
        BY <4>1
    <3> HIDE DEF skipped
    <3> QED
      BY <2>1, <3>1, <3>3, <3>4 DEF SubscribersOK
  <2> QED
    BY <2>2, <2>3
<1> QED
    BY <1>2, <1>3, <1>4

(* pc stays a function: every action sets it for one task or leaves it. *)
LEMMA PCsKept ==
    ASSUME pc \in [Tasks -> PCs], [Next]_vars
    PROVE  pc' \in [Tasks -> PCs]
<1> DEFINE Set(t) == \E v \in PCs : pc' = [pc EXCEPT ![t] = v]
<1>1. ASSUME NEW t \in Tasks, Ends(t) \/ Notifies(t) \/ Leaves(t)
      PROVE  Set(t)
    BY <1>1 DEF Ends, Notifies, Leaves, PCs
<1>2. ASSUME NEW t \in Tasks, Run(t)
      PROVE  Set(t)
    BY <1>1, <1>2 DEF Run, StartRecall, SkipDevice, VisitDevice, VisitGroup, Finish, ApplyLevel,
        CallSubscriber, SubscriberStarts, PCs
<1>3. ASSUME NEW t \in Tasks, SubscriberReturns(t) \/ SubscriberRaises(t)
      PROVE  Set(t)
    BY <1>1, <1>3 DEF SubscriberReturns, SubscriberRaises, PCs
<1>4. ASSUME NEW kind \in {"recall", "level"}, NEW what, NEW to, Spawn(kind, what, to)
      PROVE  \E t \in Tasks : Set(t)
    BY <1>4 DEF Spawn, PCs
<1>5. ASSUME NEW x, NEW f, Subscribe(x, f) \/ Unsubscribe(x, f)
      PROVE  pc' = pc
    BY <1>5 DEF Subscribe, Unsubscribe, Changes
<1>6. (\E t \in Tasks : Set(t)) \/ pc' = pc
    BY <1>2, <1>3, <1>4, <1>5 DEF Next, ReadRecall, LevelSent, vars
<1> QED
    BY <1>6

LEMMA InitEstablishes ==
    ASSUME Init
    PROVE  IInv
<1> USE DEF Init
<1>1. TasksOK
  <2>1. <<>> \in Seq(Objects) /\ Len(<<>>) = 0
    OBVIOUS
  <2> QED
    BY <2>1, Constants DEF TasksOK, TaskOK, PCs
<1>2. ReadyOK
  <2>1. <<>> \in Seq(Tasks) /\ Len(<<>>) = 0
    OBVIOUS
  <2> QED
    BY <2>1 DEF ReadyOK, Distinct, Contains
<1>3. DevicesOK
    BY DEF DevicesOK, DeviceState
<1>4. SubscribersOK
    BY Constants DEF SubscribersOK
<1>5. LatestOK
    BY DEF LatestOK, Pending
<1> QED
    BY <1>1, <1>2, <1>3, <1>4, <1>5 DEF IInv

LEMMA StepKeeps ==
    ASSUME IInv, [Next]_vars
    PROVE  IInv'
<1>1. ASSUME NEW s \in Scenes, ReadRecall(s)
      PROVE  IInv'
    BY <1>1, ReadRecallKeeps
<1>2. ASSUME NEW p \in Sent, LevelSent(p[1], p[2])
      PROVE  IInv'
    BY <1>2, Constants, LevelSentKeeps
<1>3. ASSUME NEW t \in Tasks, Run(t) \/ SubscriberReturns(t) \/ SubscriberRaises(t)
      PROVE  IInv'
    BY <1>3, StartRecallKeeps, VisitKeeps, ApplyLevelKeeps, CallKeeps DEF Run
<1>4. ASSUME NEW p \in Fickle, Subscribe(p[1], p[2]) \/ Unsubscribe(p[1], p[2])
      PROVE  IInv'
    BY <1>4, Constants, SubscriptionKeeps
<1>5. CASE UNCHANGED vars
  <2>1. UNCHANGED <<device, last_scene_address, ready, pc, job, path, sub, callee,
                    subscriptions, missed, latest, serial>>
    BY <1>5 DEF vars, subscribing
  <2>2. TasksOK' /\ ReadyOK' /\ DevicesOK' /\ SubscribersOK'
    BY <2>1 DEF IInv, TasksOK, ReadyOK, DevicesOK, SubscribersOK
  <2>3. LatestOK'
    BY <2>1, LatestKept DEF IInv
  <2> QED
    BY <2>2, <2>3 DEF IInv
<1> QED
    BY <1>1, <1>2, <1>3, <1>4, <1>5 DEF Next

THEOREM Invariance == Spec => [](IInv /\ pc \in [Tasks -> PCs])
<1>1. Init => IInv /\ pc \in [Tasks -> PCs]
    BY InitEstablishes DEF Init, PCs
<1>2. IInv /\ pc \in [Tasks -> PCs] /\ [Next]_vars => (IInv /\ pc \in [Tasks -> PCs])'
    BY StepKeeps, PCsKept
<1> QED
    BY <1>1, <1>2, PTL DEF Spec

(* Devices, groups, tasks and subscriptions are what they should be: levels are
   within 0..100 and a task is queued unless it is over or awaits a subscriber. *)
THEOREM TypeCorrect == Spec => []TypeOK
<1>1. IInv /\ pc \in [Tasks -> PCs] => TypeOK
  <2> SUFFICES ASSUME IInv, pc \in [Tasks -> PCs]
               PROVE  TypeOK
    OBVIOUS
  <2> USE DEF IInv
  <2>1. \A t \in Tasks : TaskOK(pc[t], job[t], path[t], sub[t], callee[t])
    BY DEF TasksOK
  <2>2. \A t \in Tasks : pc[t] \in {"none", "busy"} <=> \A i \in 1..Len(ready) : ready[i] # t
    BY DEF ReadyOK, Contains
  <2> QED
    BY <2>1, <2>2 DEF TypeOK, DevicesOK, SubscribersOK, ReadyOK, TaskOK
<1> QED
    BY <1>1, Invariance, PTL

(* However many recalls overlap, and whatever they and their subscribers do, a
   group ends up with the scene of the RECALL line that was read last. *)
THEOREM LatestRemembered == Spec => []GroupRemembersLatest
<1>1. IInv => GroupRemembersLatest
  <2> SUFFICES ASSUME IInv, NEW g \in GroupIds,
                      \A t \in Tasks : pc[t] = "recall" => GroupOf[job[t]] # g
               PROVE  last_scene_address[g] = latest[g]
    BY DEF GroupRemembersLatest
  <2>1. \A t \in Tasks : ~Pending(t, g)
    BY DEF Pending
  <2> QED
    BY <2>1 DEF IInv, LatestOK
<1> QED
    BY <1>1, Invariance, PTL

-----------------------------------------------------------------------------
(* The effect of overlapping tasks on a device *)

(* The way of a recall: the members of the group, then the group. *)
Way(g) == Append(Members[g], g)

(* What is left of a task's way is the end of the way of its group. *)
OnWay(w, g) ==
    /\ Len(w) <= Len(Way(g))
    /\ \A i \in 1..Len(w) : w[i] = Way(g)[Len(Way(g)) - Len(w) + i]

WaysOK ==
    \A t \in Tasks :
        /\ (pc[t] = "visit" /\ path[t] # <<>>) \/ Len(path[t]) > 1 =>
                GroupOf[job[t]] \in GroupIds /\ OnWay(path[t], GroupOf[job[t]])
        /\ pc[t] \in {"notify", "called", "busy"} /\ Len(path[t]) > 1 =>
                Head(path[t]) \in Registered \intersect Loads

(* An object no one ever subscribes to has no subscriber. *)
SubscriptionsOK ==
    \A x \in Objects :
        Subscribers[x] = <<>> /\ (\A p \in Fickle : p[1] # x) => subscriptions[x] = <<>>

(* What the recall of scene s does to member d. *)
Effect(d, was, s) ==
    LET e == Entry[d][s]
        level == IF e = LastLevel THEN was.last_load_level ELSE e IN
    IF d \notin Registered \intersect Loads \/ e = Missing THEN was
    ELSE IF e = Ignore THEN [was EXCEPT !.last_scene = s]
    ELSE [load_level |-> level,
          last_load_level |-> IF was.load_level > 0 /\ level = 0
                                THEN was.load_level ELSE was.last_load_level,
          last_scene |-> s]

(* Only the task that runs has an undisturbed device ahead, and what it will do
   to it is all that the device lacks. *)
SerialOK ==
    \A d \in DeviceIds : Undisturbed(d) =>
        /\ \A t \in Tasks : Ahead(t, d) =>
                /\ Running(t) /\ pc[t] \in {"visit", "notify"}
                /\ serial[d] = Effect(d, device[d], job[t])
        /\ (\A t \in Tasks : ~Ahead(t, d)) => device[d] = serial[d]

SerialInv == WaysOK /\ SubscriptionsOK /\ SerialOK

(* The way has every object once. *)
LEMMA WayOnce ==
    ASSUME NEW g \in GroupIds
    PROVE  /\ Way(g) \in Seq(Objects) /\ Len(Way(g)) \in Nat
           /\ Len(Way(g)) = Len(Members[g]) + 1
           /\ \A i \in 1..Len(Members[g]) : Way(g)[i] = Members[g][i] /\ Way(g)[i] \in DeviceIds
           /\ Way(g)[Len(Way(g))] = g
           /\ \A i, j \in 1..Len(Way(g)) : Way(g)[i] = Way(g)[j] => i = j
<1>1. Members[g] \in Seq(DeviceIds) /\ Distinct(Members[g])
    BY SceneTrackingAssumption
<1>2. Len(Members[g]) \in Nat /\ \A i \in 1..Len(Members[g]) : Members[g][i] \in DeviceIds
    BY <1>1, ElementOfSeq, LenProperties
<1>3. g \notin DeviceIds /\ g \in Objects /\ Members[g] \in Seq(Objects)
    BY <1>1, Constants
<1>4. /\ Way(g) \in Seq(Objects) /\ Len(Way(g)) = Len(Members[g]) + 1
      /\ \A i \in 1..Len(Members[g]) : Way(g)[i] = Members[g][i]
      /\ Way(g)[Len(Members[g]) + 1] = g
    BY <1>3, AppendProperties DEF Way
<1>5. \A i, j \in 1..Len(Way(g)) : Way(g)[i] = Way(g)[j] => i = j
    BY <1>1, <1>2, <1>3, <1>4 DEF Distinct
<1> QED
    BY <1>2, <1>4, <1>5

(* Who joins a queue leaves its first in place. *)
LEMMA HeadOfAppend ==
    ASSUME NEW S, NEW q \in Seq(S), q # <<>>, NEW x
    PROVE  Append(q, x) # <<>> /\ Head(Append(q, x)) = Head(q)
<1>1. q \in Seq(S \union {x}) /\ x \in S \union {x}
    OBVIOUS
<1>2. /\ Append(q, x) \in Seq(S \union {x}) /\ Len(Append(q, x)) = Len(q) + 1
      /\ \A i \in 1..Len(q) : Append(q, x)[i] = q[i]
    BY <1>1, AppendProperties
<1>3. Len(q) \in Nat \ {0}
    BY EmptySeq, LenProperties
<1>4. Append(q, x) # <<>>
    BY <1>2, <1>3, EmptySeq
<1> QED
    BY <1>2, <1>3, <1>4

(* The place of the rest of a way. *)
LEMMA RestPlace ==
    ASSUME NEW g \in GroupIds, NEW w \in Seq(Objects), OnWay(w, g), w # <<>>
    PROVE  \E n \in Nat :
            /\ n = Len(Way(g)) - Len(w)
            /\ Len(w) \in Nat \ {0} /\ n + Len(w) = Len(Members[g]) + 1
            /\ Len(Members[g]) \in Nat /\ Len(Way(g)) = Len(Members[g]) + 1
            /\ Head(w) = w[1] /\ \A k \in 1..Len(w) : w[k] = Way(g)[n + k]
<1>1. Len(w) \in Nat \ {0} /\ Head(w) = w[1]
    BY HeadTailProperties, EmptySeq, LenProperties
<1>2. Len(Members[g]) \in Nat /\ Len(Way(g)) = Len(Members[g]) + 1
    BY Constants, LenProperties, WayOnce
<1> DEFINE m == Len(Way(g)) - Len(w)
<1>3. m \in Nat /\ m + Len(w) = Len(Members[g]) + 1
    BY <1>1, <1>2 DEF OnWay
<1>4. \A k \in 1..Len(w) : w[k] = Way(g)[m + k]
    BY DEF OnWay
<1> USE <1>3
<1> WITNESS m \in Nat
<1> HIDE DEF m
<1> QED
    BY <1>1, <1>2, <1>3, <1>4 DEF m

LEMMA TailOnWay ==
    ASSUME NEW g \in GroupIds, NEW w \in Seq(Objects), OnWay(w, g), w # <<>>
    PROVE  OnWay(Tail(w), g)
<1>1. PICK n \in Nat :
        /\ n = Len(Way(g)) - Len(w)
        /\ Len(w) \in Nat \ {0} /\ n + Len(w) = Len(Members[g]) + 1
        /\ Len(Members[g]) \in Nat /\ Len(Way(g)) = Len(Members[g]) + 1
        /\ Head(w) = w[1] /\ \A k \in 1..Len(w) : w[k] = Way(g)[n + k]
    BY RestPlace
<1>3. Len(Tail(w)) = Len(w) - 1 /\ \A i \in 1..Len(w) - 1 : Tail(w)[i] = w[i + 1]
    BY HeadTailProperties
<1>4. Len(Way(g)) - Len(Tail(w)) = n + 1
    BY <1>1, <1>3
<1>5. ASSUME NEW i \in 1..Len(w) - 1
      PROVE  Tail(w)[i] = Way(g)[n + 1 + i]
  <2>1. i + 1 \in 1..Len(w) /\ n + (i + 1) = n + 1 + i
    <3>1. Len(w) \in Nat
      BY <1>1
    <3> QED
      BY <3>1
  <2> QED
    BY <1>1, <1>3, <2>1
<1>6. Len(Tail(w)) <= Len(Way(g))
    BY <1>1, <1>3
<1> QED
    BY <1>3, <1>4, <1>5, <1>6 DEF OnWay

LEMMA HeadOnWay ==
    ASSUME NEW g \in GroupIds, NEW w \in Seq(Objects), OnWay(w, g), Len(w) > 1
    PROVE  Head(w) \in DeviceIds
<1>1. w # <<>>
    BY EmptySeq
<1>2. PICK n \in Nat :
        /\ n = Len(Way(g)) - Len(w)
        /\ Len(w) \in Nat \ {0} /\ n + Len(w) = Len(Members[g]) + 1
        /\ Len(Members[g]) \in Nat /\ Len(Way(g)) = Len(Members[g]) + 1
        /\ Head(w) = w[1] /\ \A k \in 1..Len(w) : w[k] = Way(g)[n + k]
    BY <1>1, RestPlace
<1>3. n + 1 \in 1..Len(Members[g]) /\ Head(w) = Way(g)[n + 1]
    BY <1>2
<1> QED
    BY <1>3, WayOnce

(* A device that comes up on the rest of a way is a member, each once, and none
   of those that come before it is one at which a recall may stop. *)
LEMMA RestOfWay ==
    ASSUME NEW g \in GroupIds, NEW w \in Seq(Objects), OnWay(w, g), w # <<>>,
           NEW d \in DeviceIds, NEW i \in 2..Len(w), w[i] = d
    PROVE  /\ Head(w) # d
           /\ Undisturbed(d) => ~MayStopAt(Head(w), g)
<1>1. PICK n \in Nat :
        /\ n = Len(Way(g)) - Len(w)
        /\ Len(w) \in Nat \ {0} /\ n + Len(w) = Len(Members[g]) + 1
        /\ Len(Members[g]) \in Nat /\ Len(Way(g)) = Len(Members[g]) + 1
        /\ Head(w) = w[1] /\ \A k \in 1..Len(w) : w[k] = Way(g)[n + k]
    BY RestPlace
<1>3. /\ n + i \in 1..Len(Way(g)) /\ n + 1 \in 1..Len(Members[g]) /\ n + 1 \in 1..Len(Way(g))
      /\ n + i # n + 1 /\ n + 1 \in 1..(n + i) - 1
      /\ n + i # Len(Way(g)) => n + i \in 1..Len(Members[g])
      /\ Head(w) = Way(g)[n + 1] /\ Way(g)[n + i] = d
    BY <1>1
<1>4. Head(w) # d
    BY <1>3, WayOnce
<1>5. d # g
    BY Constants
<1>6. n + i \in 1..Len(Members[g]) /\ Members[g][n + i] = d /\ Members[g][n + 1] = Head(w)
    BY <1>3, <1>5, WayOnce
<1>7. DOMAIN Members[g] = 1..Len(Members[g])
    BY Constants
<1>8. Undisturbed(d) => ~MayStopAt(Head(w), g)
    BY <1>3, <1>6, <1>7 DEF Undisturbed
<1> QED
    BY <1>4, <1>8

(* A visit does what the recall in one go would have done. *)
LEMMA EffectOfVisit ==
    ASSUME NEW d \in Registered \intersect Loads, d \in DeviceIds, NEW s \in Scenes,
           NEW was \in DeviceState, Entry[d][s] # Missing
    PROVE  SetSceneLevel(was, s, Entry[d][s]) = Effect(d, was, s)
<1> DEFINE e == Entry[d][s]
<1>1. e \in (0..100) \union {Ignore, LastLevel}
    BY Constants
<1>2. CASE e = Ignore
    BY <1>2 DEF SetSceneLevel, Effect
<1>3. CASE e # Ignore
  <2> DEFINE at == [was EXCEPT !.last_scene = s]
             level == IF e = LastLevel THEN was.last_load_level ELSE e
             kept == IF was.load_level > 0 /\ level = 0
                       THEN was.load_level ELSE was.last_load_level
  <2>1. /\ at = [load_level |-> was.load_level, last_load_level |-> was.last_load_level,
                 last_scene |-> s]
    BY DEF DeviceState
  <2>2. SetSceneLevel(was, s, e) = SetLevel(at, level)
    BY <1>3, <2>1 DEF SetSceneLevel
  <2>3. SetLevel(at, level) =
            [load_level |-> level, last_load_level |-> kept, last_scene |-> s]
    <3> HIDE DEF level
    <3> DEFINE half == [at EXCEPT !.last_load_level = kept]
    <3>1. at.load_level = was.load_level /\ at.last_load_level = was.last_load_level
      BY <2>1
    <3>2. SetLevel(at, level) = [half EXCEPT !.load_level = level]
      BY <3>1 DEF SetLevel
    <3> HIDE DEF at, kept
    <3>3. half = [load_level |-> was.load_level, last_load_level |-> kept, last_scene |-> s]
      BY <2>1
    <3> HIDE DEF half
    <3>4. [half EXCEPT !.load_level = level] =
            [load_level |-> level, last_load_level |-> kept, last_scene |-> s]
      BY <3>3
    <3> QED
      BY <3>2, <3>4
  <2>4. Effect(d, was, s) =
            [load_level |-> level, last_load_level |-> kept, last_scene |-> s]
    BY <1>3 DEF Effect
  <2> QED
    BY <2>2, <2>3, <2>4
<1> QED
    BY <1>2, <1>3

LEMMA EffectOfRecall ==
    ASSUME NEW s \in Scenes, GroupOf[s] \in GroupIds, NEW d \in DeviceIds
    PROVE  SerialRecall(s)[d] =
            IF \E i \in DOMAIN Members[GroupOf[s]] : Members[GroupOf[s]][i] = d
              THEN Effect(d, serial[d], s) ELSE serial[d]
BY DEF SerialRecall, Effect

(* What is ahead of task t, in terms of its way. *)
LEMMA AheadOnWay ==
    ASSUME NEW t \in Tasks, path[t] \in Seq(Objects), NEW d
    PROVE  Ahead(t, d) <=> \/ pc[t] = "visit" /\ path[t] # <<>> /\ Head(path[t]) = d
                           \/ \E i \in 2..Len(path[t]) : path[t][i] = d
<1>1. /\ DOMAIN path[t] = 1..Len(path[t]) /\ Len(path[t]) \in Nat
      /\ path[t] # <<>> <=> Len(path[t]) > 0
      /\ path[t] # <<>> => Head(path[t]) = path[t][1]
    BY EmptySeq, LenProperties
<1> QED
    BY <1>1 DEF Ahead

(* The devices when task t has its turn. *)
LEMMA SerialNow ==
    ASSUME SerialOK, NEW t \in Tasks, Running(t), NEW d \in DeviceIds, Undisturbed(d)
    PROVE  /\ \A u \in Tasks \ {t} : ~Ahead(u, d)
           /\ Ahead(t, d) => serial[d] = Effect(d, device[d], job[t]) /\ pc[t] \in {"visit", "notify"}
           /\ ~Ahead(t, d) => device[d] = serial[d]
BY DEF SerialOK, Running

(* A step of the task that runs. *)
LEMMA SerialRuns ==
    ASSUME SerialOK, NEW t \in Tasks, Running(t),
           \A u \in Tasks \ {t} : pc'[u] = pc[u] /\ path'[u] = path[u],
           \A d \in DeviceIds : Undisturbed(d) =>
                /\ Ahead(t, d)' => /\ Running(t)' /\ pc'[t] \in {"visit", "notify"}
                                  /\ serial'[d] = Effect(d, device'[d], job'[t])
                /\ ~Ahead(t, d)' => device'[d] = serial'[d]
    PROVE  SerialOK'
<1>1. ASSUME NEW d \in DeviceIds, Undisturbed(d), NEW u \in Tasks \ {t}
      PROVE  ~Ahead(u, d)'
    BY <1>1, SerialNow DEF Ahead
<1>2. \A d \in DeviceIds : Undisturbed(d)' <=> Undisturbed(d)
    BY DEF Undisturbed, MayStopAt
<1> QED
    BY <1>1, <1>2 DEF SerialOK

(* A step of a task that has no undisturbed device ahead, nor gets one. *)
LEMMA SerialAside ==
    ASSUME SerialOK, UNCHANGED <<device, serial>>, NEW t \in Tasks,
           \A u \in Tasks \ {t} : /\ pc'[u] = pc[u] /\ path'[u] = path[u] /\ job'[u] = job[u]
                                  /\ Running(u) => Running(u)',
           \A d \in DeviceIds : Undisturbed(d) => ~Ahead(t, d) /\ ~Ahead(t, d)'
    PROVE  SerialOK'
<1>1. \A u \in Tasks \ {t}, d \in DeviceIds : Ahead(u, d)' <=> Ahead(u, d)
    BY DEF Ahead
<1>2. \A d \in DeviceIds : Undisturbed(d)' <=> Undisturbed(d)
    BY DEF Undisturbed, MayStopAt
<1> QED
    BY <1>1, <1>2 DEF SerialOK

(* Task t's way is all that changes. *)
LEMMA WaysStep ==
    ASSUME WaysOK, NEW t \in Tasks,
           \A u \in Tasks \ {t} : pc'[u] = pc[u] /\ path'[u] = path[u] /\ job'[u] = job[u],
           (pc'[t] = "visit" /\ path'[t] # <<>>) \/ Len(path'[t]) > 1 =>
                GroupOf[job'[t]] \in GroupIds /\ OnWay(path'[t], GroupOf[job'[t]]),
           pc'[t] \in {"notify", "called", "busy"} /\ Len(path'[t]) > 1 =>
                Head(path'[t]) \in Registered \intersect Loads
    PROVE  WaysOK'
<1>1. ASSUME NEW u \in Tasks
      PROVE  /\ (pc'[u] = "visit" /\ path'[u] # <<>>) \/ Len(path'[u]) > 1 =>
                    GroupOf[job'[u]] \in GroupIds /\ OnWay(path'[u], GroupOf[job'[u]])
             /\ pc'[u] \in {"notify", "called", "busy"} /\ Len(path'[u]) > 1 =>
                    Head(path'[u]) \in Registered \intersect Loads
  <2>1. CASE u = t
    BY <2>1
  <2>2. CASE u # t
    BY <2>2 DEF WaysOK
  <2> QED
    BY <2>1, <2>2
<1> QED
    BY <1>1 DEF WaysOK

(* The step of task t takes it to the end of its way, on by one object, or to
   the subscribers of the one it is at. *)
LEMMA WayEnds ==
    ASSUME IInv, WaysOK, NEW t \in Tasks, Ends(t)
    PROVE  /\ WaysOK' /\ \A d : ~Ahead(t, d)'
           /\ \A u \in Tasks \ {t} : pc'[u] = pc[u] /\ path'[u] = path[u] /\ job'[u] = job[u]
<1>1. /\ pc'[t] = "none" /\ path'[t] = <<>>
      /\ \A u \in Tasks \ {t} : pc'[u] = pc[u] /\ path'[u] = path[u] /\ job'[u] = job[u]
    BY DEF Ends, IInv, TasksOK
<1>2. Len(<<>>) = 0 /\ DOMAIN <<>> = {}
    OBVIOUS
<1>3. WaysOK'
    BY <1>1, <1>2, WaysStep
<1>4. \A d : ~Ahead(t, d)'
    BY <1>1, <1>2 DEF Ahead
<1> QED
    BY <1>1, <1>3, <1>4

LEMMA WayLeaves ==
    ASSUME IInv, WaysOK, NEW t \in Tasks, Leaves(t), path[t] # <<>>,
           pc[t] \in {"visit", "notify"}
    PROVE  /\ WaysOK'
           /\ \A d : Ahead(t, d)' <=> \E i \in 2..Len(path[t]) : path[t][i] = d
           /\ pc'[t] = "visit" /\ job'[t] = job[t] /\ ready' = ready
           /\ \A u \in Tasks \ {t} : pc'[u] = pc[u] /\ path'[u] = path[u] /\ job'[u] = job[u]
<1>1. /\ pc'[t] = "visit" /\ path'[t] = Tail(path[t]) /\ job'[t] = job[t] /\ ready' = ready
      /\ \A u \in Tasks \ {t} : pc'[u] = pc[u] /\ path'[u] = path[u] /\ job'[u] = job[u]
    BY DEF Leaves, IInv, TasksOK
<1>2. path[t] \in Seq(Objects)
    BY DEF IInv, TasksOK, TaskOK
<1>3. /\ Len(path'[t]) = Len(path[t]) - 1 /\ Len(path[t]) \in Nat \ {0}
      /\ path'[t] \in Seq(Objects)
      /\ \A i \in 1..Len(path[t]) - 1 : path'[t][i] = path[t][i + 1]
      /\ path'[t] # <<>> => Len(path[t]) > 1
    BY <1>1, <1>2, HeadTailProperties, EmptySeq, LenProperties
<1>4. path'[t] # <<>> => GroupOf[job'[t]] \in GroupIds /\ OnWay(path'[t], GroupOf[job'[t]])
  <2>1. CASE path'[t] # <<>>
    <3>1. GroupOf[job[t]] \in GroupIds /\ OnWay(path[t], GroupOf[job[t]])
      BY <1>3, <2>1 DEF WaysOK
    <3>2. OnWay(Tail(path[t]), GroupOf[job[t]])
      BY <1>2, <3>1, TailOnWay
    <3> QED
      BY <1>1, <3>1, <3>2
  <2> QED
    BY <2>1
<1>5. Len(path'[t]) > 1 => path'[t] # <<>>
    BY <1>3, EmptySeq
<1>6. WaysOK'
    BY <1>1, <1>4, <1>5, WaysStep
<1>7. ASSUME NEW d
      PROVE  Ahead(t, d)' <=> \E i \in 2..Len(path[t]) : path[t][i] = d
  <2>1. DOMAIN path'[t] = 1..Len(path[t]) - 1
    BY <1>3
  <2>2. Ahead(t, d)' <=> \E i \in 1..Len(path[t]) - 1 : path[t][i + 1] = d
    BY <1>1, <1>3, <2>1 DEF Ahead
  <2>3. \A i \in 2..Len(path[t]) : i - 1 \in 1..Len(path[t]) - 1 /\ (i - 1) + 1 = i
    BY <1>3
  <2>4. \A i \in 1..Len(path[t]) - 1 : i + 1 \in 2..Len(path[t])
    BY <1>3
  <2> QED
    BY <2>2, <2>3, <2>4
<1> QED
    BY <1>1, <1>6, <1>7

LEMMA WayNotifies ==
    ASSUME IInv, WaysOK, NEW t \in Tasks, Notifies(t), pc[t] \in {"visit", "level"},
           Len(path[t]) > 1 => Head(path[t]) \in Registered \intersect Loads
    PROVE  /\ WaysOK'
           /\ \A d : Ahead(t, d)' <=> \E i \in 2..Len(path[t]) : path[t][i] = d
           /\ pc'[t] = "notify" /\ job'[t] = job[t] /\ ready' = ready
           /\ \A u \in Tasks \ {t} : pc'[u] = pc[u] /\ path'[u] = path[u] /\ job'[u] = job[u]
<1>1. /\ pc'[t] = "notify" /\ path' = path /\ job' = job /\ ready' = ready
      /\ \A u \in Tasks \ {t} : pc'[u] = pc[u] /\ path'[u] = path[u] /\ job'[u] = job[u]
    BY DEF Notifies, IInv, TasksOK
<1>2. Len(path[t]) > 1 => GroupOf[job[t]] \in GroupIds /\ OnWay(path[t], GroupOf[job[t]])
    BY DEF WaysOK
<1>3. WaysOK'
    BY <1>1, <1>2, WaysStep
<1>4. path[t] \in Seq(Objects)
    BY DEF IInv, TasksOK, TaskOK
<1>5. \A d : Ahead(t, d)' <=> \E i \in 2..Len(path[t]) : path[t][i] = d
  <2>1. DOMAIN path[t] = 1..Len(path[t]) /\ Len(path[t]) \in Nat
    BY <1>4
  <2> QED
    BY <1>1, <2>1 DEF Ahead
<1> QED
    BY <1>1, <1>3, <1>5

-----------------------------------------------------------------------------
(* Each action keeps what is said of undisturbed devices. *)

(* A task that is about to run a recall or a level, that waits or that has a
   subscriber running has no undisturbed device ahead; nor has one that calls. *)
LEMMA NoneAhead ==
    ASSUME SerialOK, NEW t \in Tasks, pc[t] \notin {"visit", "notify"},
           NEW d \in DeviceIds, Undisturbed(d)
    PROVE  ~Ahead(t, d)
BY DEF SerialOK

LEMMA SpawnSerial ==
    ASSUME IInv, SerialInv, NEW kind \in {"recall", "level"}, NEW what, NEW to,
           Spawn(kind, what, to), Len(to) <= 1, to \in Seq(Objects)
    PROVE  SerialInv'
<1>1. PICK t \in Tasks :
        /\ pc[t] = "none"
        /\ pc' = [pc EXCEPT ![t] = kind]
        /\ job' = [job EXCEPT ![t] = what]
        /\ path' = [path EXCEPT ![t] = to]
        /\ ready' = Append(ready, t)
        /\ UNCHANGED <<device, serial, subscriptions>>
    BY DEF Spawn, subscribing
<1>2. /\ pc'[t] = kind /\ path'[t] = to
      /\ \A u \in Tasks \ {t} : pc'[u] = pc[u] /\ path'[u] = path[u] /\ job'[u] = job[u]
    BY <1>1 DEF IInv, TasksOK
<1>3. DOMAIN to = 1..Len(to) /\ Len(to) \in Nat
    OBVIOUS
<1>4. WaysOK'
    BY <1>2, <1>3, WaysStep DEF SerialInv
<1>5. SubscriptionsOK'
    BY <1>1 DEF SerialInv, SubscriptionsOK
<1>6. \A d : ~Ahead(t, d)'
    BY <1>2, <1>3 DEF Ahead
<1>7. \A u \in Tasks : Running(u) => Running(u)'
  <2>1. ready \in Seq(Tasks)
    BY DEF IInv, ReadyOK
  <2>2. ready # <<>> => Append(ready, t) # <<>> /\ Head(Append(ready, t)) = Head(ready)
    BY <2>1, HeadOfAppend
  <2> QED
    BY <1>1, <2>2 DEF Running
<1>8. SerialOK'
    BY <1>1, <1>2, <1>6, <1>7, NoneAhead, SerialAside DEF SerialInv
<1> QED
    BY <1>4, <1>5, <1>8 DEF SerialInv

LEMMA StartRecallSerial ==
    ASSUME IInv, SerialInv, NEW t \in Tasks, StartRecall(t)
    PROVE  SerialInv'
<1> USE DEF SerialInv
<1> DEFINE s == job[t]
           g == GroupOf[s]
<1>1. Running(t) /\ pc[t] = "recall" /\ s \in Scenes
    BY DEF StartRecall, IInv, TasksOK, TaskOK
<1>2. g \in GroupIds \union {NoGroup} /\ NoGroup \notin GroupIds
    BY <1>1, Constants
<1>3. UNCHANGED <<device, subscriptions>>
    BY DEF StartRecall, subscribing
<1>4. SubscriptionsOK'
    BY <1>3 DEF SubscriptionsOK
<1>5. \A d \in DeviceIds : Undisturbed(d) => device[d] = serial[d]
    BY <1>1, NoneAhead, SerialNow
<1>6. CASE g = NoGroup
  <2>1. Ends(t) /\ UNCHANGED serial
    BY <1>6 DEF StartRecall
  <2>2. /\ WaysOK' /\ \A d : ~Ahead(t, d)'
        /\ \A u \in Tasks \ {t} : pc'[u] = pc[u] /\ path'[u] = path[u]
    BY <2>1, WayEnds
  <2>3. SerialOK'
    BY <1>1, <1>3, <1>5, <2>1, <2>2, SerialRuns
  <2> QED
    BY <1>4, <2>2, <2>3
<1>7. CASE g \in GroupIds
  <2>1. /\ pc' = [pc EXCEPT ![t] = "visit"]
        /\ path' = [path EXCEPT ![t] = Way(g)]
        /\ serial' = SerialRecall(s)
        /\ UNCHANGED <<ready, job>>
    BY <1>2, <1>7 DEF StartRecall, Way
  <2>2. /\ pc'[t] = "visit" /\ path'[t] = Way(g) /\ job'[t] = s
        /\ \A u \in Tasks \ {t} : pc'[u] = pc[u] /\ path'[u] = path[u] /\ job'[u] = job[u]
    BY <2>1 DEF IInv, TasksOK
  <2>3. Way(g) \in Seq(Objects) /\ Len(Way(g)) \in Nat
    BY <1>7, WayOnce
  <2>4. OnWay(Way(g), g)
    <3>1. \A i \in 1..Len(Way(g)) : Len(Way(g)) - Len(Way(g)) + i = i
      BY <2>3
    <3> QED
      BY <2>3, <3>1 DEF OnWay
  <2>5. WaysOK'
    BY <1>7, <2>2, <2>4, WaysStep
  <2>6. ASSUME NEW d \in DeviceIds
        PROVE  Ahead(t, d)' <=> \E i \in DOMAIN Members[g] : Members[g][i] = d
    <3>1. /\ DOMAIN Members[g] = 1..Len(Members[g]) /\ Len(Members[g]) \in Nat
          /\ d # g
      BY <1>7, Constants
    <3>2. /\ Len(Way(g)) = Len(Members[g]) + 1 /\ Way(g)[Len(Way(g))] = g
          /\ \A i \in 1..Len(Members[g]) : Way(g)[i] = Members[g][i]
      BY <1>7, WayOnce
    <3>3. DOMAIN Way(g) = 1..Len(Members[g]) + 1
      BY <2>3, <3>2
    <3>4. Ahead(t, d)' <=> \E i \in DOMAIN Way(g) : Way(g)[i] = d
      BY <2>2 DEF Ahead
    <3>5. \A i \in DOMAIN Way(g) : Way(g)[i] = d => i \in 1..Len(Members[g])
      BY <3>1, <3>2, <3>3
    <3> QED
      BY <3>1, <3>2, <3>3, <3>4, <3>5
  <2>7. Running(t)'
    BY <1>1, <2>1 DEF Running
  <2>8. ASSUME NEW d \in DeviceIds, Undisturbed(d)
        PROVE  /\ Ahead(t, d)' => serial'[d] = Effect(d, device'[d], s)
               /\ ~Ahead(t, d)' => device'[d] = serial'[d]
    BY <1>1, <1>3, <1>5, <1>7, <2>1, <2>6, <2>8, EffectOfRecall
  <2>9. SerialOK'
    BY <1>1, <2>2, <2>7, <2>8, SerialRuns
  <2> QED
    BY <1>4, <2>5, <2>9
<1> QED
    BY <1>2, <1>6, <1>7

(* A task on its way leaves an object that is no load, or that ignores the
   scene, or it visits a load or the group. *)
LEMMA SkipSerial ==
    ASSUME IInv, SerialInv, NEW t \in Tasks, SkipDevice(t)
    PROVE  SerialInv'
<1> USE DEF SerialInv
<1> DEFINE d1 == Head(path[t])
<1>1. /\ Running(t) /\ pc[t] = "visit" /\ path[t] # <<>> /\ d1 \notin Registered \intersect Loads
      /\ Leaves(t) /\ UNCHANGED <<device, serial, subscriptions>>
    BY DEF SkipDevice, history, subscribing
<1>2. /\ WaysOK'
      /\ \A d : Ahead(t, d)' <=> \E i \in 2..Len(path[t]) : path[t][i] = d
      /\ pc'[t] = "visit" /\ job'[t] = job[t] /\ ready' = ready
      /\ \A u \in Tasks \ {t} : pc'[u] = pc[u] /\ path'[u] = path[u]
    BY <1>1, WayLeaves
<1>3. path[t] \in Seq(Objects)
    BY DEF IInv, TasksOK, TaskOK
<1>4. ASSUME NEW d \in DeviceIds, Undisturbed(d)
      PROVE  /\ Ahead(t, d)' => serial[d] = Effect(d, device[d], job[t])
             /\ ~Ahead(t, d)' => device[d] = serial[d]
  <2>1. Ahead(t, d) <=> d1 = d \/ Ahead(t, d)'
    BY <1>1, <1>2, <1>3, AheadOnWay
  <2>2. d1 = d => Effect(d, device[d], job[t]) = device[d]
    BY <1>1 DEF Effect
  <2> QED
    BY <1>1, <1>4, <2>1, <2>2, SerialNow
<1>5. SerialOK'
    BY <1>1, <1>2, <1>4, SerialRuns DEF Running
<1>6. SubscriptionsOK'
    BY <1>1 DEF SubscriptionsOK
<1> QED
    BY <1>2, <1>5, <1>6

LEMMA VisitDeviceSerial ==
    ASSUME IInv, SerialInv, NEW t \in Tasks, VisitDevice(t)
    PROVE  SerialInv'
<1> USE DEF SerialInv
<1> DEFINE d1 == Head(path[t])
           s == job[t]
           g == GroupOf[s]
           e == Entry[d1][s]
<1>1. /\ Running(t) /\ pc[t] = "visit" /\ path[t] # <<>>
      /\ d1 \in Registered \intersect Loads /\ UNCHANGED <<serial, subscriptions>>
      /\ device' = IF e = Missing THEN device
                   ELSE [device EXCEPT ![d1] = SetSceneLevel(@, s, e)]
    BY DEF VisitDevice, history, subscribing
<1>2. /\ path[t] \in Seq(Objects) /\ s \in Scenes /\ g \in GroupIds /\ OnWay(path[t], g)
      /\ d1 \in DeviceIds
    BY <1>1, SceneTrackingAssumption DEF IInv, TasksOK, TaskOK, WaysOK
<1>3. device[d1] \in DeviceState /\ DOMAIN device = DeviceIds
    BY <1>2 DEF IInv, DevicesOK
<1>4. /\ \A d \in DeviceIds \ {d1} : device'[d] = device[d]
      /\ device'[d1] = Effect(d1, device[d1], s)
  <2>1. CASE e = Missing
    BY <1>1, <2>1 DEF Effect
  <2>2. CASE e # Missing
    <3>1. SetSceneLevel(device[d1], s, e) = Effect(d1, device[d1], s)
      BY <1>1, <1>2, <1>3, <2>2, EffectOfVisit
    <3> QED
      BY <1>1, <1>2, <1>3, <2>2, <3>1
  <2> QED
    BY <2>1, <2>2
<1>5. \A d : Ahead(t, d) <=> d1 = d \/ \E i \in 2..Len(path[t]) : path[t][i] = d
    BY <1>1, <1>2, AheadOnWay
<1>6. \A i \in 2..Len(path[t]) : path[t][i] # d1
    BY <1>1, <1>2, RestOfWay
<1>7. ASSUME NEW d \in DeviceIds, Undisturbed(d)
      PROVE  /\ (\E i \in 2..Len(path[t]) : path[t][i] = d)
                    => serial'[d] = Effect(d, device'[d], s)
             /\ ~(\E i \in 2..Len(path[t]) : path[t][i] = d) => device'[d] = serial'[d]
  <2>1. CASE d = d1
    BY <1>1, <1>4, <1>5, <1>6, <1>7, <2>1, SerialNow
  <2>2. CASE d # d1
    BY <1>1, <1>4, <1>5, <1>7, <2>2, SerialNow
  <2> QED
    BY <2>1, <2>2
<1>8. CASE e = Missing
  <2>1. Ends(t)
    BY <1>8 DEF VisitDevice, Ignore, Missing
  <2>2. /\ WaysOK' /\ \A d : ~Ahead(t, d)'
        /\ \A u \in Tasks \ {t} : pc'[u] = pc[u] /\ path'[u] = path[u]
    BY <2>1, WayEnds
  <2>3. MayStopAt(d1, g)
    BY <1>1, <1>2, <1>8 DEF MayStopAt
  <2>4. \A d \in DeviceIds : Undisturbed(d) => \A i \in 2..Len(path[t]) : path[t][i] # d
    BY <1>1, <1>2, <2>3, RestOfWay
  <2>5. SerialOK'
    BY <1>1, <1>7, <2>2, <2>4, SerialRuns
  <2> QED
    BY <1>1, <2>2, <2>5 DEF SubscriptionsOK
<1>9. CASE e # Missing
  <2>1. Leaves(t) \/ Notifies(t)
    BY <1>9 DEF VisitDevice
  <2>2. /\ WaysOK'
        /\ \A d : Ahead(t, d)' <=> \E i \in 2..Len(path[t]) : path[t][i] = d
        /\ pc'[t] \in {"visit", "notify"} /\ job'[t] = job[t] /\ ready' = ready
        /\ \A u \in Tasks \ {t} : pc'[u] = pc[u] /\ path'[u] = path[u]
    BY <1>1, <2>1, WayLeaves, WayNotifies
  <2>3. SerialOK'
    BY <1>1, <1>7, <2>2, SerialRuns DEF Running
  <2> QED
    BY <1>1, <2>2, <2>3 DEF SubscriptionsOK
<1> QED
    BY <1>8, <1>9

LEMMA VisitGroupSerial ==
    ASSUME IInv, SerialInv, NEW t \in Tasks, VisitGroup(t) \/ Finish(t)
    PROVE  SerialInv'
<1> USE DEF SerialInv
<1>1. /\ Running(t) /\ pc[t] = "visit"
      /\ UNCHANGED <<device, serial, subscriptions>>
    BY DEF VisitGroup, Finish, history, subscribing
<1>2. path[t] \in Seq(Objects)
    BY DEF IInv, TasksOK, TaskOK
<1>3. CASE VisitGroup(t)
  <2>1. path[t] # <<>> /\ Head(path[t]) \in GroupIds /\ Notifies(t)
    BY <1>3 DEF VisitGroup
  <2>2. GroupOf[job[t]] \in GroupIds /\ OnWay(path[t], GroupOf[job[t]])
    BY <1>1, <2>1 DEF WaysOK
  <2>3. ~(Len(path[t]) > 1)
    BY <1>2, <2>1, <2>2, HeadOnWay, Constants
  <2>4. /\ WaysOK'
        /\ \A d : Ahead(t, d)' <=> \E i \in 2..Len(path[t]) : path[t][i] = d
        /\ \A u \in Tasks \ {t} : pc'[u] = pc[u] /\ path'[u] = path[u]
    BY <1>1, <2>1, <2>3, WayNotifies
  <2>5. \A d \in DeviceIds : ~Ahead(t, d) /\ ~Ahead(t, d)'
    <3>1. Len(path[t]) \in Nat
      BY <1>2
    <3>2. \A d : ~\E i \in 2..Len(path[t]) : path[t][i] = d
      BY <2>3, <3>1
    <3>3. \A d \in DeviceIds : d # Head(path[t])
      BY <2>1, Constants
    <3> QED
      BY <1>2, <2>4, <3>2, <3>3, AheadOnWay
  <2>6. SerialOK'
    BY <1>1, <2>4, <2>5, SerialNow, SerialRuns
  <2> QED
    BY <1>1, <2>4, <2>6 DEF SubscriptionsOK
<1>4. CASE Finish(t)
  <2>1. path[t] = <<>> /\ Ends(t)
    BY <1>4 DEF Finish
  <2>2. /\ WaysOK' /\ \A d : ~Ahead(t, d)'
        /\ \A u \in Tasks \ {t} : pc'[u] = pc[u] /\ path'[u] = path[u]
    BY <2>1, WayEnds
  <2>3. \A d : ~Ahead(t, d)
    BY <2>1 DEF Ahead
  <2>4. SerialOK'
    BY <1>1, <2>2, <2>3, SerialNow, SerialRuns
  <2> QED
    BY <1>1, <2>2, <2>4 DEF SubscriptionsOK
<1> QED
    BY <1>3, <1>4

LEMMA ApplyLevelSerial ==
    ASSUME IInv, SerialInv, NEW t \in Tasks, ApplyLevel(t)
    PROVE  SerialInv'
<1> USE DEF SerialInv
<1> DEFINE d1 == Head(path[t])
<1>1. /\ Running(t) /\ pc[t] = "level" /\ path[t] # <<>> /\ Len(path[t]) = 1
      /\ d1 \in DeviceIds /\ UNCHANGED subscriptions
    BY DEF ApplyLevel, subscribing, IInv, TasksOK, TaskOK
<1>2. \A d \in DeviceIds : Undisturbed(d) => device[d] = serial[d]
    BY <1>1, NoneAhead, SerialNow
<1>3. \/ Ends(t) /\ UNCHANGED <<device, serial>>
      \/ /\ Notifies(t)
         /\ device' = [device EXCEPT ![d1].load_level = job[t]]
         /\ serial' = [serial EXCEPT ![d1].load_level = job[t]]
    BY DEF ApplyLevel
<1>4. DOMAIN device = DeviceIds /\ DOMAIN serial = DeviceIds
    BY DEF IInv, DevicesOK
<1>5. \A d \in DeviceIds : Undisturbed(d) => device'[d] = serial'[d]
    BY <1>1, <1>2, <1>3, <1>4
<1>6. /\ WaysOK' /\ \A d : ~Ahead(t, d)'
      /\ \A u \in Tasks \ {t} : pc'[u] = pc[u] /\ path'[u] = path[u]
  <2>1. CASE Ends(t)
    BY <2>1, WayEnds
  <2>2. CASE Notifies(t)
    <3>1. ~(Len(path[t]) > 1)
      BY <1>1
    <3>2. /\ WaysOK' /\ \A d : Ahead(t, d)' <=> \E i \in 2..Len(path[t]) : path[t][i] = d
          /\ \A u \in Tasks \ {t} : pc'[u] = pc[u] /\ path'[u] = path[u]
      BY <1>1, <2>2, <3>1, WayNotifies
    <3> QED
      BY <1>1, <3>2
  <2> QED
    BY <1>3, <2>1, <2>2
<1>7. SerialOK'
    BY <1>1, <1>5, <1>6, SerialRuns
<1> QED
    BY <1>1, <1>6, <1>7 DEF SubscriptionsOK

(* A task whose only change is that it goes to a place in the calls of the
   object it is at keeps its way and what is ahead of it. *)
LEMMA WayAtCalls ==
    ASSUME WaysOK, NEW t \in Tasks, UNCHANGED <<path, job>>,
           pc[t] \in {"notify", "called", "busy"}, pc'[t] \in {"notify", "called", "busy"},
           \A u \in Tasks \ {t} : pc'[u] = pc[u]
    PROVE  /\ WaysOK' /\ \A d : Ahead(t, d)' <=> Ahead(t, d)
           /\ \A u \in Tasks \ {t} : pc'[u] = pc[u] /\ path'[u] = path[u] /\ job'[u] = job[u]
<1>1. \A u \in Tasks \ {t} : pc'[u] = pc[u] /\ path'[u] = path[u] /\ job'[u] = job[u]
    OBVIOUS
<1>2. /\ Len(path'[t]) > 1 => GroupOf[job'[t]] \in GroupIds /\ OnWay(path'[t], GroupOf[job'[t]])
      /\ Len(path'[t]) > 1 => Head(path'[t]) \in Registered \intersect Loads
    BY DEF WaysOK
<1>3. WaysOK'
    BY <1>1, <1>2, WaysStep
<1>4. \A d : Ahead(t, d)' <=> Ahead(t, d)
    BY DEF Ahead
<1> QED
    BY <1>1, <1>3, <1>4

(* A recall that calls a subscriber of a member has none ahead that is
   undisturbed. *)
LEMMA CallSerial ==
    ASSUME IInv, SerialInv, NEW t \in Tasks, CallSubscriber(t)
    PROVE  SerialInv'
<1> USE DEF SerialInv
<1> DEFINE x == Head(path[t])
           subs == subscriptions[x]
<1>1. /\ Running(t) /\ pc[t] = "notify" /\ path[t] # <<>> /\ sub[t] \in Nat /\ sub[t] > 0
      /\ path[t] \in Seq(Objects) /\ UNCHANGED <<device, serial, subscriptions>>
    BY DEF CallSubscriber, history, subscribing, IInv, TasksOK, TaskOK
<1>2. x \in Objects /\ Len(path[t]) \in Nat
    BY <1>1, HeadTailProperties
<1>3. SubscriptionsOK'
    BY <1>1 DEF SubscriptionsOK
<1>4. \A d : Ahead(t, d) <=> \E i \in 2..Len(path[t]) : path[t][i] = d
    BY <1>1, AheadOnWay
<1>5. CASE sub[t] <= Len(subs)
  <2>1. /\ pc' = [pc EXCEPT ![t] = "called"] /\ UNCHANGED <<job, path>>
    BY <1>5 DEF CallSubscriber
  <2>2. pc'[t] = "called" /\ \A u \in Tasks \ {t} : pc'[u] = pc[u]
    BY <2>1 DEF IInv, TasksOK
  <2>3. /\ WaysOK' /\ \A d : Ahead(t, d)' <=> Ahead(t, d)
        /\ \A u \in Tasks \ {t} : pc'[u] = pc[u] /\ path'[u] = path[u]
    BY <1>1, <2>1, <2>2, WayAtCalls
  <2>4. subs # <<>>
    <3>1. Len(<<>>) = 0
      OBVIOUS
    <3> QED
      BY <1>1, <1>5, <3>1
  <2>5. Subscribers[x] # <<>> \/ \E p \in Fickle : p[1] = x
    BY <1>2, <2>4 DEF SubscriptionsOK
  <2>6. ASSUME NEW d \in DeviceIds, Undisturbed(d)
        PROVE  ~Ahead(t, d)
    <3>1. SUFFICES ASSUME NEW i \in 2..Len(path[t]), path[t][i] = d
                   PROVE  FALSE
      BY <1>4
    <3>2. Len(path[t]) > 1
      BY <1>2
    <3>3. /\ GroupOf[job[t]] \in GroupIds /\ OnWay(path[t], GroupOf[job[t]])
          /\ x \in Registered \intersect Loads
      BY <1>1, <3>2 DEF WaysOK
    <3>4. MayStopAt(x, GroupOf[job[t]])
      BY <2>5, <3>3 DEF MayStopAt
    <3> QED
      BY <1>1, <2>6, <3>1, <3>3, <3>4, RestOfWay
  <2>7. SerialOK'
    BY <1>1, <2>3, <2>6, SerialNow, SerialRuns
  <2> QED
    BY <1>3, <2>3, <2>7
<1>6. CASE ~(sub[t] <= Len(subs))
  <2>1. Leaves(t)
    BY <1>6 DEF CallSubscriber
  <2>2. /\ WaysOK' /\ \A d : Ahead(t, d)' <=> Ahead(t, d)
        /\ pc'[t] = "visit" /\ job'[t] = job[t] /\ ready' = ready
        /\ \A u \in Tasks \ {t} : pc'[u] = pc[u] /\ path'[u] = path[u]
    BY <1>1, <1>4, <2>1, WayLeaves
  <2>3. Running(t)'
    BY <1>1, <2>2 DEF Running
  <2>4. SerialOK'
    BY <1>1, <2>2, <2>3, SerialNow, SerialRuns
  <2> QED
    BY <1>3, <2>2, <2>4
<1> QED
    BY <1>5, <1>6

LEMMA StartsSerial ==
    ASSUME IInv, SerialInv, NEW t \in Tasks, SubscriberStarts(t)
    PROVE  SerialInv'
<1> USE DEF SerialInv
<1>1. /\ Running(t) /\ pc[t] = "called" /\ pc' = [pc EXCEPT ![t] = "busy"]
      /\ UNCHANGED <<device, serial, subscriptions, path, job>>
    BY DEF SubscriberStarts, history, subscribing
<1>2. pc'[t] = "busy" /\ \A u \in Tasks \ {t} : pc'[u] = pc[u]
    BY <1>1 DEF IInv, TasksOK
<1>3. /\ WaysOK' /\ \A d : Ahead(t, d)' <=> Ahead(t, d)
      /\ \A u \in Tasks \ {t} : pc'[u] = pc[u] /\ path'[u] = path[u]
    BY <1>1, <1>2, WayAtCalls
<1>4. \A d \in DeviceIds : Undisturbed(d) => ~Ahead(t, d)
    BY <1>1, NoneAhead
<1>5. SerialOK'
    BY <1>1, <1>3, <1>4, SerialNow, SerialRuns
<1> QED
    BY <1>1, <1>3, <1>5 DEF SubscriptionsOK

(* A task that awaits a subscriber is not in the queue: when the subscriber
   ends, who is first in it stays so. *)
LEMMA EndOfCallSerial ==
    ASSUME IInv, SerialInv, NEW t \in Tasks, SubscriberReturns(t) \/ SubscriberRaises(t)
    PROVE  SerialInv'
<1> USE DEF SerialInv
<1>1. /\ pc[t] = "busy" /\ UNCHANGED <<device, serial, subscriptions>>
    BY DEF SubscriberReturns, SubscriberRaises, history, subscribing
<1>2. ready \in Seq(Tasks) /\ ~Contains(ready, t)
    BY <1>1 DEF IInv, ReadyOK
<1>3. \A d \in DeviceIds : Undisturbed(d) => ~Ahead(t, d)
    BY <1>1, NoneAhead
<1>4. CASE SubscriberReturns(t)
  <2>1. /\ pc' = [pc EXCEPT ![t] = "notify"] /\ ready' = Append(ready, t)
        /\ UNCHANGED <<path, job>>
    BY <1>4 DEF SubscriberReturns
  <2>2. pc'[t] = "notify" /\ \A u \in Tasks \ {t} : pc'[u] = pc[u]
    BY <2>1 DEF IInv, TasksOK
  <2>3. /\ WaysOK' /\ \A d : Ahead(t, d)' <=> Ahead(t, d)
        /\ \A u \in Tasks \ {t} : pc'[u] = pc[u] /\ path'[u] = path[u] /\ job'[u] = job[u]
    BY <1>1, <2>1, <2>2, WayAtCalls
  <2>4. ready # <<>> => Append(ready, t) # <<>> /\ Head(Append(ready, t)) = Head(ready)
    BY <1>2, HeadOfAppend
  <2>5. \A u \in Tasks : Running(u) => Running(u)'
    BY <2>1, <2>4 DEF Running
  <2>6. SerialOK'
    BY <1>1, <1>3, <2>3, <2>5, SerialAside
  <2> QED
    BY <1>1, <2>3, <2>6 DEF SubscriptionsOK
<1>5. CASE SubscriberRaises(t)
  <2>1. Ends(t)
    BY <1>5 DEF SubscriberRaises
  <2>2. ready' = ready
    BY <1>2, <2>1 DEF Ends, Without
  <2>3. /\ WaysOK' /\ \A d : ~Ahead(t, d)'
        /\ \A u \in Tasks \ {t} : pc'[u] = pc[u] /\ path'[u] = path[u] /\ job'[u] = job[u]
    BY <2>1, WayEnds
  <2>4. \A u \in Tasks : Running(u) => Running(u)'
    BY <2>2 DEF Running
  <2>5. SerialOK'
    BY <1>1, <1>3, <2>3, <2>4, SerialAside
  <2> QED
    BY <1>1, <2>3, <2>5 DEF SubscriptionsOK
<1> QED
    BY <1>4, <1>5

(* Nothing said of undisturbed devices is about subscriptions. *)
LEMMA StandsStill ==
    ASSUME SerialInv, UNCHANGED <<device, serial, ready, pc, job, path>>
    PROVE  WaysOK' /\ SerialOK'
<1>1. WaysOK'
    BY DEF SerialInv, WaysOK
<1>2. \A d : Undisturbed(d)' <=> Undisturbed(d)
    BY DEF Undisturbed, MayStopAt
<1>3. \A t \in Tasks : (Running(t)' <=> Running(t)) /\ \A d : Ahead(t, d)' <=> Ahead(t, d)
    BY DEF Ahead, Running
<1>4. SerialOK'
    BY <1>2, <1>3 DEF SerialInv, SerialOK
<1> QED
    BY <1>1, <1>4

LEMMA SubscriptionSerial ==
    ASSUME SerialInv, NEW p \in Fickle, Subscribe(p[1], p[2]) \/ Unsubscribe(p[1], p[2])
    PROVE  SerialInv'
<1>1. /\ UNCHANGED <<device, serial, ready, pc, job, path>>
    BY DEF Subscribe, Unsubscribe, Changes, history
<1>2. WaysOK' /\ SerialOK'
    BY <1>1, StandsStill
<1>3. \E v : subscriptions' = [subscriptions EXCEPT ![p[1]] = v]
    BY DEF Subscribe, Unsubscribe
<1>4. \A y \in Objects : y # p[1] => subscriptions'[y] = subscriptions[y]
    BY <1>3
<1>5. SubscriptionsOK'
    BY <1>4 DEF SerialInv, SubscriptionsOK
<1> QED
    BY <1>2, <1>5 DEF SerialInv

-----------------------------------------------------------------------------
LEMMA InitSerial ==
    ASSUME Init
    PROVE  SerialInv
<1>1. /\ subscriptions = Subscribers /\ serial = device
      /\ pc = [t \in Tasks |-> "none"] /\ path = [t \in Tasks |-> <<>>]
    BY DEF Init
<1>2. Len(<<>>) = 0 /\ DOMAIN <<>> = {}
    OBVIOUS
<1>3. WaysOK
    BY <1>1, <1>2 DEF WaysOK
<1>4. SubscriptionsOK
    BY <1>1 DEF SubscriptionsOK
<1>5. \A t \in Tasks : \A d : ~Ahead(t, d)
    BY <1>1, <1>2 DEF Ahead
<1>6. SerialOK
    BY <1>1, <1>5 DEF SerialOK
<1> QED
    BY <1>3, <1>4, <1>6 DEF SerialInv

LEMMA StepSerial ==
    ASSUME IInv, SerialInv, [Next]_vars
    PROVE  SerialInv'
<1>1. ASSUME NEW s \in Scenes, ReadRecall(s)
      PROVE  SerialInv'
  <2>1. Spawn("recall", s, <<>>) /\ Len(<<>>) <= 1 /\ <<>> \in Seq(Objects)
    BY <1>1 DEF ReadRecall
  <2> QED
    BY <2>1, SpawnSerial
<1>2. ASSUME NEW p \in Sent, LevelSent(p[1], p[2])
      PROVE  SerialInv'
  <2>1. Spawn("level", p[2], <<p[1]>>) /\ Len(<<p[1]>>) <= 1
    BY <1>2 DEF LevelSent
  <2>2. p[1] \in Objects
    BY Constants
  <2>3. <<p[1]>> \in Seq(Objects)
    BY <2>2
  <2> QED
    BY <2>1, <2>3, SpawnSerial
<1>3. ASSUME NEW t \in Tasks, Run(t) \/ SubscriberReturns(t) \/ SubscriberRaises(t)
      PROVE  SerialInv'
    BY <1>3, StartRecallSerial, SkipSerial, VisitDeviceSerial, VisitGroupSerial,
       ApplyLevelSerial, CallSerial, StartsSerial, EndOfCallSerial DEF Run
<1>4. ASSUME NEW p \in Fickle, Subscribe(p[1], p[2]) \/ Unsubscribe(p[1], p[2])
      PROVE  SerialInv'
    BY <1>4, SubscriptionSerial
<1>5. CASE UNCHANGED vars
  <2>1. UNCHANGED <<device, serial, ready, pc, job, path, subscriptions>>
    BY <1>5 DEF vars, subscribing
  <2>2. SubscriptionsOK'
    BY <2>1 DEF SerialInv, SubscriptionsOK
  <2> QED
    BY <2>1, <2>2, StandsStill DEF SerialInv
<1> QED
    BY <1>1, <1>2, <1>3, <1>4, <1>5 DEF Next

(* However recalls, levels and subscribers overlap, a device that recalls reach
   without having awaited a subscriber is where running the tasks one after the
   other would have put it. *)
THEOREM SerialEffectHolds == Spec => []SerialEffect
<1>1. Init => IInv /\ SerialInv
    BY InitEstablishes, InitSerial
<1>2. IInv /\ SerialInv /\ [Next]_vars => (IInv /\ SerialInv)'
    BY StepKeeps, StepSerial
<1>3. SerialInv => SerialEffect
    BY DEF SerialInv, SerialOK, SerialEffect
<1> QED
    BY <1>1, <1>2, <1>3, PTL DEF Spec

-----------------------------------------------------------------------------
(* What the subscribers of an object have seen of it *)

(* The calls for x all come through. *)
Heard(x) == IF x \in GroupIds THEN Sound(x) ELSE x \notin Raising

(* Task t has yet to call f for x: x is a group on its way, or f is at a place
   of the list of x that t has not passed, or about to run. *)
Owes(t, x, f) ==
    \/ x \in GroupIds /\ Ahead(t, x)
    \/ pc[t] = "called" /\ Head(path[t]) = x /\ callee[t] = f
    \/ /\ NextCall(t, x) > 0
       /\ \E i \in DOMAIN subscriptions[x] : i >= NextCall(t, x) /\ subscriptions[x][i] = f

(* Whoever has not seen what x shows, and was not missed, is yet to be called by
   some task.  A task that is over, or a recall that has yet to begin, is on no
   way. *)
ToldOK ==
    /\ DOMAIN told = Objects /\ \A x \in Objects : DOMAIN told[x] = Funcs
    /\ \A t \in Tasks : pc[t] \in {"none", "recall"} => path[t] = <<>>
    /\ \A x \in Objects : Heard(x) =>
        \A f \in Range(subscriptions[x]) \ missed[x] :
            told[x][f] = Shown(x) \/ \E t \in Tasks : Owes(t, x, f)

(* The subscribers of an object. *)
LEMMA SubscribersOf ==
    ASSUME SubscribersOK, NEW x \in Objects
    PROVE  /\ subscriptions[x] \in Seq(Funcs) /\ Len(subscriptions[x]) \in Nat
           /\ DOMAIN subscriptions[x] = 1..Len(subscriptions[x])
           /\ \A f : f \in Range(subscriptions[x]) <=>
                \E i \in 1..Len(subscriptions[x]) : subscriptions[x][i] = f
           /\ Range(subscriptions[x]) \subseteq Funcs
<1>1. subscriptions[x] \in Seq(Funcs)
    BY DEF SubscribersOK
<1>2. Len(subscriptions[x]) \in Nat /\ DOMAIN subscriptions[x] = 1..Len(subscriptions[x])
    BY <1>1
<1>3. \A i \in 1..Len(subscriptions[x]) : subscriptions[x][i] \in Funcs
    BY <1>1, ElementOfSeq
<1> QED
    BY <1>1, <1>2, <1>3 DEF Range

LEMMA PlaceUpTo ==
    ASSUME NEW n \in Nat, NEW l \in Nat, NEW m \in Nat, NEW k \in 1..l, n + l = m + 1
    PROVE  n + k \in 1..m \/ n + k = m + 1
OBVIOUS

(* A recall at a device is at a member of its group, and the only group on the
   rest of its way is that one. *)
LEMMA MemberOnWay ==
    ASSUME NEW g \in GroupIds, NEW w \in Seq(Objects), OnWay(w, g), w # <<>>
    PROVE  /\ Head(w) \in DeviceIds => \E i \in DOMAIN Members[g] : Members[g][i] = Head(w)
           /\ \A i \in 1..Len(w) : w[i] \in GroupIds => w[i] = g
<1>1. PICK n \in Nat :
        /\ n = Len(Way(g)) - Len(w)
        /\ Len(w) \in Nat \ {0} /\ n + Len(w) = Len(Members[g]) + 1
        /\ Len(Members[g]) \in Nat /\ Len(Way(g)) = Len(Members[g]) + 1
        /\ Head(w) = w[1] /\ \A k \in 1..Len(w) : w[k] = Way(g)[n + k]
    BY RestPlace
<1>2. ASSUME NEW k \in 1..Len(w)
      PROVE  w[k] = g \/ \E i \in 1..Len(Members[g]) : i = n + k /\ w[k] = Members[g][i]
                                                       /\ w[k] \in DeviceIds
  <2>1. w[k] = Way(g)[n + k]
    BY <1>1
  <2>2. n + k \in 1..Len(Members[g]) \/ n + k = Len(Way(g))
    BY <1>1, PlaceUpTo
  <2>3. CASE n + k = Len(Way(g))
    BY <2>1, <2>3, WayOnce
  <2>4. CASE n + k \in 1..Len(Members[g])
    <3>1. Way(g)[n + k] = Members[g][n + k] /\ Way(g)[n + k] \in DeviceIds
      BY <2>4, WayOnce
    <3> QED
      BY <2>1, <2>4, <3>1
  <2> QED
    BY <2>2, <2>3, <2>4
<1>3. 1 \in 1..Len(w) /\ Head(w) = w[1]
    BY <1>1
<1>4. DOMAIN Members[g] = 1..Len(Members[g])
    BY Constants
<1>5. g \notin DeviceIds /\ GroupIds \intersect DeviceIds = {}
    BY Constants
<1> QED
    BY <1>2, <1>3, <1>4, <1>5

(* Task t alone moves: whoever it does not call, it tells, or owed nothing. *)
LEMMA ToldStep ==
    ASSUME ToldOK, NEW t \in Tasks, UNCHANGED subscriptions,
           \A u \in Tasks \ {t} : /\ pc'[u] = pc[u] /\ path'[u] = path[u]
                                  /\ sub'[u] = sub[u] /\ callee'[u] = callee[u],
           pc'[t] \in {"none", "recall"} => path'[t] = <<>>,
           DOMAIN told' = Objects, \A x \in Objects : DOMAIN told'[x] = Funcs,
           \A x \in Objects : Heard(x) =>
                \A f \in Range(subscriptions[x]) \ missed'[x] :
                    \/ told'[x][f] = Shown(x)'
                    \/ Owes(t, x, f)'
                    \/ /\ f \notin missed[x] /\ told'[x][f] = told[x][f]
                       /\ Shown(x)' = Shown(x) /\ ~Owes(t, x, f)
    PROVE  ToldOK'
<1>1. \A u \in Tasks : pc'[u] \in {"none", "recall"} => path'[u] = <<>>
    BY DEF ToldOK
<1>2. ASSUME NEW x \in Objects, Heard(x), NEW f \in Range(subscriptions[x]) \ missed'[x]
      PROVE  told'[x][f] = Shown(x)' \/ \E u \in Tasks : Owes(u, x, f)'
  <2>1. CASE /\ f \notin missed[x] /\ told'[x][f] = told[x][f]
             /\ Shown(x)' = Shown(x) /\ ~Owes(t, x, f)
    <3>1. told[x][f] = Shown(x) \/ \E u \in Tasks : Owes(u, x, f)
      BY <1>2, <2>1 DEF ToldOK
    <3>2. ASSUME NEW u \in Tasks, Owes(u, x, f)
          PROVE  Owes(u, x, f)'
      <4>1. /\ pc'[u] = pc[u] /\ path'[u] = path[u]
            /\ sub'[u] = sub[u] /\ callee'[u] = callee[u]
        BY <2>1, <3>2
      <4>2. NextCall(u, x)' = NextCall(u, x) /\ (Ahead(u, x)' <=> Ahead(u, x))
        BY <4>1 DEF NextCall, Ahead
      <4> QED
        BY <3>2, <4>1, <4>2 DEF Owes
    <3> QED
      BY <2>1, <3>1, <3>2
  <2> QED
    BY <1>2, <2>1
<1>3. \A x : Heard(x)' <=> Heard(x)
    BY DEF Heard, Sound
<1> QED
    BY <1>1, <1>2, <1>3 DEF ToldOK

(* The same, when t changes neither what is shown nor who has seen it. *)
LEMMA ToldAside ==
    ASSUME ToldOK, NEW t \in Tasks,
           UNCHANGED <<device, last_scene_address, told, missed, subscriptions>>,
           \A u \in Tasks \ {t} : /\ pc'[u] = pc[u] /\ path'[u] = path[u]
                                  /\ sub'[u] = sub[u] /\ callee'[u] = callee[u],
           pc'[t] \in {"none", "recall"} => path'[t] = <<>>,
           \A x \in Objects : Heard(x) =>
                \A f \in Range(subscriptions[x]) : Owes(t, x, f) => Owes(t, x, f)'
    PROVE  ToldOK'
<1>1. \A x : Shown(x)' = Shown(x)
    BY DEF Shown
<1> QED
    BY <1>1, ToldStep DEF ToldOK

(* Task t ends, leaves the object it is at, or goes on to its subscribers. *)
LEMMA OthersStay ==
    ASSUME IInv, NEW t \in Tasks, Ends(t) \/ Leaves(t) \/ Notifies(t)
    PROVE  \A u \in Tasks \ {t} : /\ pc'[u] = pc[u] /\ path'[u] = path[u]
                                  /\ sub'[u] = sub[u] /\ callee'[u] = callee[u]
BY DEF Ends, Leaves, Notifies, IInv, TasksOK

LEMMA EndsTold ==
    ASSUME IInv, ToldOK, NEW t \in Tasks, Ends(t),
           UNCHANGED <<device, last_scene_address, told, missed, subscriptions>>,
           \A x \in Objects : Heard(x) => \A f : ~Owes(t, x, f)
    PROVE  ToldOK'
<1>1. pc'[t] = "none" /\ path'[t] = <<>>
    BY DEF Ends, IInv, TasksOK
<1> QED
    BY <1>1, OthersStay, ToldAside

LEMMA LeavesTold ==
    ASSUME IInv, WaysOK, ToldOK, NEW t \in Tasks, Leaves(t),
           pc[t] \in {"visit", "notify"}, path[t] # <<>>,
           UNCHANGED <<last_scene_address, told, missed, subscriptions>>,
           \A d \in DeviceIds : device'[d].load_level = device[d].load_level,
           \A f : ~Owes(t, Head(path[t]), f)
    PROVE  ToldOK'
<1>1. /\ \A d : Ahead(t, d)' <=> \E i \in 2..Len(path[t]) : path[t][i] = d
      /\ pc'[t] = "visit"
    BY WayLeaves
<1>2. \A d : Ahead(t, d) => Head(path[t]) = d \/ Ahead(t, d)'
    BY <1>1, AheadOnWay DEF IInv, TasksOK, TaskOK
<1>3. ASSUME NEW x \in Objects, NEW f, Owes(t, x, f)
      PROVE  Owes(t, x, f)'
  <2>1. x # Head(path[t])
    BY <1>3
  <2>2. NextCall(t, x) = 0 /\ pc[t] # "called"
    BY <2>1 DEF NextCall
  <2>3. x \in GroupIds /\ Ahead(t, x)
    BY <1>3, <2>2 DEF Owes
  <2> QED
    BY <1>2, <2>1, <2>3 DEF Owes
<1>4. \A x \in Objects : Shown(x)' = Shown(x)
    BY Constants DEF Shown
<1> QED
    BY <1>1, <1>3, <1>4, OthersStay, ToldStep DEF ToldOK

LEMMA NotifiesTold ==
    ASSUME IInv, WaysOK, ToldOK, NEW t \in Tasks, Notifies(t),
           pc[t] \in {"visit", "level"}, path[t] # <<>>,
           UNCHANGED <<last_scene_address, told, missed, subscriptions>>,
           \A d \in DeviceIds \ {Head(path[t])} : device'[d] = device[d]
    PROVE  ToldOK'
<1>1. pc'[t] = "notify" /\ sub'[t] = 1 /\ path' = path
    BY DEF Notifies, IInv, TasksOK
<1>2. \A d : Ahead(t, d) => Head(path[t]) = d \/ Ahead(t, d)'
    BY <1>1 DEF Ahead, IInv, TasksOK, TaskOK
<1>3. ASSUME NEW x \in Objects, x # Head(path[t])
      PROVE  /\ Shown(x)' = Shown(x)
             /\ \A f : Owes(t, x, f) => Owes(t, x, f)'
  <2>1. Shown(x)' = Shown(x)
    BY <1>3, Constants DEF Shown
  <2>2. NextCall(t, x) = 0 /\ pc[t] # "called"
    BY <1>3 DEF NextCall
  <2> QED
    BY <1>2, <1>3, <2>1, <2>2 DEF Owes
<1>4. ASSUME NEW x \in Objects, x = Head(path[t]), NEW f \in Range(subscriptions[x])
      PROVE  Owes(t, x, f)'
  <2>1. NextCall(t, x)' = 1
    BY <1>1, <1>4 DEF NextCall
  <2>2. PICK i \in 1..Len(subscriptions[x]) : subscriptions[x][i] = f
    BY <1>4, SubscribersOf DEF IInv
  <2>3. i \in DOMAIN subscriptions[x] /\ i >= 1
    BY SubscribersOf DEF IInv
  <2> QED
    BY <2>1, <2>2, <2>3 DEF Owes
<1>5. ASSUME NEW x \in Objects, NEW f \in Range(subscriptions[x]) \ missed'[x]
      PROVE  \/ Owes(t, x, f)'
             \/ /\ f \notin missed[x] /\ told'[x][f] = told[x][f]
                /\ Shown(x)' = Shown(x) /\ ~Owes(t, x, f)
  <2>1. f \notin missed[x] /\ told'[x][f] = told[x][f]
    BY <1>5
  <2> QED
    BY <1>3, <1>4, <2>1
<1> QED
    BY <1>1, <1>5, OthersStay, ToldStep DEF ToldOK

(* A recall that a member or its subscriber stops is of no group whose
   subscribers are to hear of it. *)
LEMMA NoSoundAhead ==
    ASSUME IInv, WaysOK, NEW t \in Tasks, path[t] # <<>>, Head(path[t]) \in DeviceIds,
           pc[t] = "visit" \/ Len(path[t]) > 1, NEW g \in GroupIds, Ahead(t, g)
    PROVE  /\ g = GroupOf[job[t]]
           /\ \E i \in DOMAIN Members[g] : Members[g][i] = Head(path[t])
<1>1. path[t] \in Seq(Objects)
    BY DEF IInv, TasksOK, TaskOK
<1>2. GroupOf[job[t]] \in GroupIds /\ OnWay(path[t], GroupOf[job[t]])
    BY DEF WaysOK
<1>3. DOMAIN path[t] = 1..Len(path[t])
    BY <1>1
<1> QED
    BY <1>1, <1>2, <1>3, MemberOnWay DEF Ahead

-----------------------------------------------------------------------------
(* Each action keeps what is said of who has seen what. *)
LEMMA SpawnTold ==
    ASSUME IInv, ToldOK, NEW kind \in {"recall", "level"}, NEW what, NEW to,
           Spawn(kind, what, to), kind = "recall" => to = <<>>
    PROVE  ToldOK'
<1>1. PICK t \in Tasks :
        /\ pc[t] = "none"
        /\ pc' = [pc EXCEPT ![t] = kind]
        /\ path' = [path EXCEPT ![t] = to]
        /\ UNCHANGED <<device, last_scene_address, sub, callee, subscriptions, told, missed>>
    BY DEF Spawn, subscribing
<1>2. pc'[t] = kind /\ path'[t] = to /\ \A u \in Tasks \ {t} : pc'[u] = pc[u] /\ path'[u] = path[u]
    BY <1>1 DEF IInv, TasksOK
<1>3. path[t] = <<>> /\ DOMAIN <<>> = {}
    BY <1>1 DEF ToldOK
<1>4. \A x, f : ~Owes(t, x, f)
    BY <1>1, <1>3 DEF Owes, Ahead, NextCall
<1>5. pc'[t] \in {"none", "recall"} => path'[t] = <<>>
    BY <1>2
<1> QED
    BY <1>1, <1>2, <1>4, <1>5, ToldAside

LEMMA StartRecallTold ==
    ASSUME IInv, WaysOK, ToldOK, NEW t \in Tasks, StartRecall(t)
    PROVE  ToldOK'
<1> DEFINE g == GroupOf[job[t]]
<1>1. pc[t] = "recall" /\ job[t] \in Scenes
    BY DEF StartRecall, IInv, TasksOK, TaskOK
<1>2. UNCHANGED <<device, subscriptions, told, missed>>
    BY DEF StartRecall, subscribing
<1>3. path[t] = <<>> /\ DOMAIN <<>> = {}
    BY <1>1 DEF ToldOK
<1>4. \A x, f : ~Owes(t, x, f)
    BY <1>1, <1>3 DEF Owes, Ahead, NextCall
<1>5. CASE g = NoGroup
  <2>1. Ends(t) /\ UNCHANGED last_scene_address
    BY <1>5 DEF StartRecall
  <2> QED
    BY <1>2, <1>4, <2>1, EndsTold
<1>6. CASE g # NoGroup
  <2>1. /\ last_scene_address' = [last_scene_address EXCEPT ![g] = job[t]]
        /\ pc' = [pc EXCEPT ![t] = "visit"]
        /\ path' = [path EXCEPT ![t] = Way(g)]
        /\ UNCHANGED <<sub, callee>>
    BY <1>6 DEF StartRecall, Way
  <2>2. /\ pc'[t] = "visit" /\ path'[t] = Way(g)
        /\ \A u \in Tasks \ {t} : pc'[u] = pc[u] /\ path'[u] = path[u]
    BY <2>1 DEF IInv, TasksOK
  <2>3. g \in GroupIds
    BY <1>1, <1>6, Constants
  <2>4. Len(Way(g)) \in DOMAIN Way(g) /\ Way(g)[Len(Way(g))] = g
    <3>1. /\ Way(g) \in Seq(Objects) /\ Len(Way(g)) = Len(Members[g]) + 1
          /\ Len(Members[g]) \in Nat /\ Way(g)[Len(Way(g))] = g
      BY <2>3, Constants, LenProperties, WayOnce
    <3> QED
      BY <3>1
  <2>5. ASSUME NEW x, x = g, NEW f
        PROVE  Owes(t, x, f)'
    BY <2>2, <2>3, <2>4, <2>5 DEF Owes, Ahead
  <2>6. \A x \in Objects : x # g => Shown(x)' = Shown(x)
    BY <1>2, <2>1 DEF Shown
  <2>7. ASSUME NEW x \in Objects, NEW f \in Range(subscriptions[x]) \ missed'[x]
        PROVE  \/ Owes(t, x, f)'
               \/ /\ f \notin missed[x] /\ told'[x][f] = told[x][f]
                  /\ Shown(x)' = Shown(x) /\ ~Owes(t, x, f)
    BY <1>2, <1>4, <2>5, <2>6, <2>7
  <2> QED
    BY <1>2, <2>1, <2>2, <2>7, ToldStep DEF ToldOK
<1> QED
    BY <1>5, <1>6

LEMMA VisitTold ==
    ASSUME IInv, WaysOK, ToldOK, NEW t \in Tasks,
           SkipDevice(t) \/ VisitDevice(t) \/ VisitGroup(t) \/ Finish(t)
    PROVE  ToldOK'
<1> DEFINE x1 == Head(path[t])
<1>1. pc[t] = "visit" /\ UNCHANGED <<last_scene_address, subscriptions, told, missed>>
    BY DEF SkipDevice, VisitDevice, VisitGroup, Finish, subscribing
<1>2. \A x, f : Owes(t, x, f) => x \in GroupIds /\ Ahead(t, x)
    BY <1>1 DEF Owes, NextCall
<1>3. CASE SkipDevice(t)
  <2>1. /\ path[t] # <<>> /\ x1 \in DeviceIds /\ Leaves(t) /\ UNCHANGED device
    BY <1>3 DEF SkipDevice
  <2>2. \A f : ~Owes(t, x1, f)
    BY <1>2, <2>1, Constants
  <2> QED
    BY <1>1, <2>1, <2>2, LeavesTold
<1>4. CASE VisitGroup(t)
  <2>1. path[t] # <<>> /\ Notifies(t) /\ UNCHANGED device
    BY <1>4 DEF VisitGroup
  <2> QED
    BY <1>1, <2>1, NotifiesTold
<1>5. CASE Finish(t)
  <2>1. path[t] = <<>> /\ DOMAIN <<>> = {} /\ Ends(t) /\ UNCHANGED device
    BY <1>5 DEF Finish
  <2>2. \A x, f : ~Owes(t, x, f)
    BY <1>2, <2>1 DEF Ahead
  <2> QED
    BY <1>1, <2>1, <2>2, EndsTold
<1>6. CASE VisitDevice(t)
  <2> DEFINE e == Entry[x1][job[t]]
  <2>1. /\ path[t] # <<>> /\ x1 \in Registered \intersect Loads
        /\ device' = IF e = Missing THEN device
                     ELSE [device EXCEPT ![x1] = SetSceneLevel(@, job[t], e)]
    BY <1>6 DEF VisitDevice
  <2>2. x1 \in DeviceIds /\ job[t] \in Scenes /\ DOMAIN device = DeviceIds
    BY <1>1, <2>1, SceneTrackingAssumption DEF IInv, TasksOK, TaskOK, DevicesOK
  <2>3. CASE e = Missing
    <3>1. Ends(t)
      BY <1>6, <2>3 DEF VisitDevice, Ignore, Missing
    <3>2. ASSUME NEW x \in Objects, Heard(x), NEW f, Owes(t, x, f)
          PROVE  FALSE
      <4>1. x \in GroupIds /\ Ahead(t, x)
        BY <1>2, <3>2
      <4>2. PICK i \in DOMAIN Members[x] : Members[x][i] = x1 /\ x = GroupOf[job[t]]
        BY <1>1, <2>1, <2>2, <4>1, NoSoundAhead
      <4>3. Sound(x)
        BY <3>2, <4>1 DEF Heard
      <4> QED
        BY <2>1, <2>2, <2>3, <4>2, <4>3 DEF Sound
    <3> QED
      BY <1>1, <2>1, <2>3, <3>1, <3>2, EndsTold
  <2>4. CASE e = Ignore
    <3>1. Leaves(t)
      BY <1>6, <2>4 DEF VisitDevice, Ignore, Missing
    <3>2. \A f : ~Owes(t, x1, f)
      BY <1>2, <2>2, Constants
    <3>3. \A d \in DeviceIds : device'[d].load_level = device[d].load_level
      <4>1. device' = [device EXCEPT ![x1] = [@ EXCEPT !.last_scene = job[t]]]
        BY <2>1, <2>4 DEF SetSceneLevel, Ignore, Missing
      <4>2. device[x1] \in DeviceState
        BY <2>2 DEF IInv, DevicesOK
      <4> QED
        BY <2>2, <4>1, <4>2 DEF DeviceState
    <3> QED
      BY <1>1, <2>1, <3>1, <3>2, <3>3, LeavesTold
  <2>5. CASE e # Missing /\ e # Ignore
    <3>1. Notifies(t)
      BY <1>6, <2>5 DEF VisitDevice
    <3>2. \A d \in DeviceIds \ {x1} : device'[d] = device[d]
      BY <2>1, <2>2
    <3> QED
      BY <1>1, <2>1, <3>1, <3>2, NotifiesTold
  <2> QED
    BY <2>3, <2>4, <2>5
<1> QED
    BY <1>3, <1>4, <1>5, <1>6

LEMMA ApplyLevelTold ==
    ASSUME IInv, WaysOK, ToldOK, NEW t \in Tasks, ApplyLevel(t)
    PROVE  ToldOK'
<1> DEFINE d1 == Head(path[t])
<1>1. /\ pc[t] = "level" /\ path[t] # <<>> /\ Len(path[t]) = 1 /\ d1 \in DeviceIds
      /\ path[t] \in Seq(Objects)
      /\ UNCHANGED <<last_scene_address, subscriptions, told, missed>>
    BY DEF ApplyLevel, subscribing, IInv, TasksOK, TaskOK
<1>2. \/ Ends(t) /\ UNCHANGED device
      \/ Notifies(t) /\ device' = [device EXCEPT ![d1].load_level = job[t]]
    BY DEF ApplyLevel
<1>3. DOMAIN path[t] = {1}
    BY <1>1
<1>4. \A x, f : ~Owes(t, x, f)
    BY <1>1, <1>3 DEF Owes, Ahead, NextCall
<1>5. \A d \in DeviceIds \ {d1} : device'[d] = device[d]
    BY <1>2 DEF IInv, DevicesOK
<1> QED
    BY <1>1, <1>2, <1>4, <1>5, EndsTold, NotifiesTold

LEMMA CallTold ==
    ASSUME IInv, WaysOK, ToldOK, NEW t \in Tasks, CallSubscriber(t)
    PROVE  ToldOK'
<1> DEFINE x1 == Head(path[t])
           subs == subscriptions[x1]
<1>1. /\ pc[t] = "notify" /\ path[t] # <<>> /\ sub[t] \in Nat /\ sub[t] > 0
      /\ path[t] \in Seq(Objects)
      /\ UNCHANGED <<device, last_scene_address, subscriptions, told, missed>>
    BY DEF CallSubscriber, subscribing, IInv, TasksOK, TaskOK
<1>2. x1 \in Objects
    BY <1>1, HeadTailProperties
<1>3. Len(subs) \in Nat /\ DOMAIN subs = 1..Len(subs)
    BY <1>2, SubscribersOf DEF IInv
<1>4. CASE sub[t] <= Len(subs)
  <2>1. /\ pc' = [pc EXCEPT ![t] = "called"] /\ callee' = [callee EXCEPT ![t] = subs[sub[t]]]
        /\ UNCHANGED <<path, sub>>
    BY <1>4 DEF CallSubscriber
  <2>2. /\ pc'[t] = "called" /\ callee'[t] = subs[sub[t]]
        /\ \A u \in Tasks \ {t} : pc'[u] = pc[u] /\ callee'[u] = callee[u]
    BY <2>1 DEF IInv, TasksOK
  <2>3. ASSUME NEW x \in Objects, NEW f, Owes(t, x, f)
        PROVE  Owes(t, x, f)'
    <3>1. CASE x \in GroupIds /\ Ahead(t, x)
      BY <1>1, <2>1, <2>2, <3>1 DEF Owes, Ahead
    <3>2. CASE NextCall(t, x) > 0 /\ \E i \in DOMAIN subscriptions[x] :
                    i >= NextCall(t, x) /\ subscriptions[x][i] = f
      <4>1. x = x1 /\ NextCall(t, x) = sub[t]
        BY <1>1, <3>2 DEF NextCall
      <4>2. PICK i \in 1..Len(subs) : i >= sub[t] /\ subs[i] = f
        BY <1>3, <3>2, <4>1
      <4>3. NextCall(t, x)' = sub[t] + 1
        BY <1>1, <2>1, <2>2, <4>1 DEF NextCall
      <4>4. CASE i = sub[t]
        BY <2>1, <2>2, <4>1, <4>2, <4>4 DEF Owes
      <4>5. CASE i # sub[t]
        <5>1. i >= sub[t] + 1 /\ sub[t] + 1 > 0
          BY <1>1, <4>2, <4>5
        <5>2. i \in DOMAIN subscriptions'[x] /\ subscriptions'[x][i] = f
          BY <1>1, <1>3, <4>1, <4>2
        <5> QED
          BY <4>3, <5>1, <5>2 DEF Owes
      <4> QED
        BY <4>4, <4>5
    <3> QED
      BY <1>1, <2>3, <3>1, <3>2 DEF Owes
  <2> QED
    BY <1>1, <2>1, <2>2, <2>3, ToldAside
<1>5. CASE ~(sub[t] <= Len(subs))
  <2>1. Leaves(t)
    BY <1>5 DEF CallSubscriber
  <2>2. ASSUME NEW f, Owes(t, x1, f)
        PROVE  FALSE
    <3>1. NextCall(t, x1) = sub[t]
      BY <1>1 DEF NextCall
    <3>2. x1 \in GroupIds /\ Ahead(t, x1)
      BY <1>1, <1>3, <1>5, <2>2, <3>1 DEF Owes
    <3>3. Len(path[t]) > 1
      <4>1. DOMAIN path[t] = 1..Len(path[t]) /\ Len(path[t]) \in Nat
        BY <1>1
      <4> QED
        BY <1>1, <3>2, <4>1 DEF Ahead
    <3>4. x1 \in DeviceIds
      BY <1>1, <3>3, SceneTrackingAssumption DEF WaysOK
    <3> QED
      BY <3>2, <3>4, Constants
  <2> QED
    BY <1>1, <2>1, <2>2, LeavesTold
<1> QED
    BY <1>4, <1>5

LEMMA StartsTold ==
    ASSUME IInv, WaysOK, ToldOK, NEW t \in Tasks, SubscriberStarts(t)
    PROVE  ToldOK'
<1> DEFINE x1 == Head(path[t])
           f1 == callee[t]
<1>1. /\ pc[t] = "called" /\ path[t] # <<>> /\ path[t] \in Seq(Objects) /\ f1 \in Funcs
      /\ told' = [told EXCEPT ![x1][f1] = Shown(x1)]
      /\ missed' = [missed EXCEPT ![x1] = @ \ {f1}]
      /\ pc' = [pc EXCEPT ![t] = "busy"]
      /\ UNCHANGED <<device, last_scene_address, path, sub, callee, subscriptions>>
    BY DEF SubscriberStarts, subscribing, IInv, TasksOK, TaskOK
<1>2. pc'[t] = "busy" /\ \A u \in Tasks \ {t} : pc'[u] = pc[u]
    BY <1>1 DEF IInv, TasksOK
<1>3. x1 \in Objects /\ DOMAIN told = Objects /\ \A x \in Objects : DOMAIN told[x] = Funcs
    BY <1>1, HeadTailProperties DEF ToldOK
<1>4. DOMAIN told' = Objects /\ \A x \in Objects : DOMAIN told'[x] = Funcs
    BY <1>1, <1>3
<1>5. \A x : Shown(x)' = Shown(x)
    BY <1>1 DEF Shown
<1>6. told'[x1][f1] = Shown(x1)
    BY <1>1, <1>3
<1>7. ASSUME NEW x \in Objects, NEW f \in Funcs, ~(x = x1 /\ f = f1), f \notin missed'[x]
      PROVE  /\ told'[x][f] = told[x][f] /\ f \notin missed[x]
             /\ Owes(t, x, f) => Owes(t, x, f)'
  <2>1. told'[x][f] = told[x][f]
    BY <1>1, <1>3, <1>7
  <2>2. f \notin missed[x]
    BY <1>1, <1>7 DEF IInv, SubscribersOK
  <2>3. NextCall(t, x)' = NextCall(t, x)
    BY <1>1, <1>2 DEF NextCall
  <2>4. Ahead(t, x)' <=> Ahead(t, x)
    BY <1>1, <1>2 DEF Ahead
  <2> QED
    BY <1>1, <1>7, <2>1, <2>2, <2>3, <2>4 DEF Owes
<1>8. ASSUME NEW x \in Objects, NEW f \in Range(subscriptions[x]) \ missed'[x]
      PROVE  \/ told'[x][f] = Shown(x)'
             \/ Owes(t, x, f)'
             \/ /\ f \notin missed[x] /\ told'[x][f] = told[x][f]
                /\ Shown(x)' = Shown(x) /\ ~Owes(t, x, f)
  <2>1. f \in Funcs
    BY SubscribersOf DEF IInv
  <2>2. CASE x = x1 /\ f = f1
    BY <1>5, <1>6, <2>2
  <2>3. CASE ~(x = x1 /\ f = f1)
    BY <1>5, <1>7, <1>8, <2>1, <2>3
  <2> QED
    BY <2>2, <2>3
<1> QED
    BY <1>1, <1>2, <1>4, <1>8, ToldStep

LEMMA EndOfCallTold ==
    ASSUME IInv, WaysOK, ToldOK, NEW t \in Tasks, SubscriberReturns(t) \/ SubscriberRaises(t)
    PROVE  ToldOK'
<1> DEFINE x1 == Head(path[t])
<1>1. /\ pc[t] = "busy" /\ path[t] # <<>> /\ path[t] \in Seq(Objects) /\ sub[t] \in Nat
      /\ UNCHANGED <<device, last_scene_address, subscriptions, told, missed>>
    BY DEF SubscriberReturns, SubscriberRaises, subscribing, IInv, TasksOK, TaskOK
<1>2. CASE SubscriberReturns(t)
  <2>1. /\ pc'[t] = "notify" /\ sub'[t] = sub[t] + 1 /\ path' = path
        /\ \A u \in Tasks \ {t} : pc'[u] = pc[u] /\ sub'[u] = sub[u] /\ callee'[u] = callee[u]
    BY <1>2 DEF SubscriberReturns, IInv, TasksOK
  <2>2. \A x : NextCall(t, x)' = NextCall(t, x) /\ (Ahead(t, x)' <=> Ahead(t, x))
    BY <1>1, <2>1 DEF NextCall, Ahead
  <2>3. \A x, f : Owes(t, x, f) => Owes(t, x, f)'
    BY <1>1, <2>2 DEF Owes
  <2> QED
    BY <1>1, <2>1, <2>3, ToldAside
<1>3. CASE SubscriberRaises(t)
  <2>1. Ends(t) /\ x1 \in Raising
    BY <1>3 DEF SubscriberRaises
  <2>2. ASSUME NEW x \in Objects, Heard(x), NEW f, Owes(t, x, f)
        PROVE  FALSE
    <3>1. CASE x \in GroupIds /\ Ahead(t, x)
      <4>1. DOMAIN path[t] = 1..Len(path[t]) /\ Len(path[t]) \in Nat
        BY <1>1
      <4>2. Len(path[t]) > 1
        BY <1>1, <3>1, <4>1 DEF Ahead
      <4>3. x1 \in Registered \intersect Loads /\ x1 \in DeviceIds
        BY <1>1, <4>2, SceneTrackingAssumption DEF WaysOK
      <4>4. PICK i \in DOMAIN Members[x] : Members[x][i] = x1
        BY <1>1, <3>1, <4>2, <4>3, NoSoundAhead
      <4>5. Sound(x)
        BY <2>2, <3>1 DEF Heard
      <4> QED
        BY <2>1, <4>3, <4>4, <4>5 DEF Sound
    <3>2. CASE NextCall(t, x) > 0
      <4>1. x = x1
        BY <3>2 DEF NextCall
      <4> QED
        BY <2>1, <2>2, <4>1 DEF Heard, Sound
    <3> QED
      BY <1>1, <2>2, <3>1, <3>2 DEF Owes
  <2> QED
    BY <1>1, <2>1, <2>2, EndsTold
<1> QED
    BY <1>2, <1>3

(* A subscription at the end of a list takes no one's place in it. *)
LEMMA SubscribeTold ==
    ASSUME IInv, ToldOK, NEW x \in Objects, NEW f \in Funcs, Subscribe(x, f)
    PROVE  ToldOK'
<1>1. /\ subscriptions' = [subscriptions EXCEPT ![x] = Append(@, f)]
      /\ missed' = [missed EXCEPT ![x] = @ \union {f}]
      /\ UNCHANGED <<device, last_scene_address, pc, path, sub, callee, told>>
    BY DEF Subscribe, Changes
<1>2. DOMAIN subscriptions = Objects /\ DOMAIN missed = Objects
    BY DEF IInv, SubscribersOK
<1>3. ASSUME NEW y \in Objects
      PROVE  /\ \A i \in DOMAIN subscriptions[y] :
                    i \in DOMAIN subscriptions'[y] /\ subscriptions'[y][i] = subscriptions[y][i]
             /\ Range(subscriptions'[y]) \ missed'[y] \subseteq Range(subscriptions[y]) \ missed[y]
  <2>1. CASE y # x
    BY <1>1, <1>2, <2>1 DEF Range
  <2>2. CASE y = x
    <3>1. /\ subscriptions[x] \in Seq(Funcs) /\ Len(subscriptions[x]) \in Nat
          /\ DOMAIN subscriptions[x] = 1..Len(subscriptions[x])
      BY SubscribersOf DEF IInv
    <3>2. subscriptions'[x] = Append(subscriptions[x], f) /\ missed'[x] = missed[x] \union {f}
      BY <1>1, <1>2
    <3>3. /\ Len(Append(subscriptions[x], f)) = Len(subscriptions[x]) + 1
          /\ Append(subscriptions[x], f) \in Seq(Funcs)
          /\ \A i \in 1..Len(subscriptions[x]) :
                Append(subscriptions[x], f)[i] = subscriptions[x][i]
          /\ Append(subscriptions[x], f)[Len(subscriptions[x]) + 1] = f
      BY <3>1, AppendProperties
    <3>4. DOMAIN subscriptions'[x] = 1..Len(subscriptions[x]) + 1
      BY <3>1, <3>2, <3>3
    <3>5. \A i \in DOMAIN subscriptions'[x] :
            i \in DOMAIN subscriptions[x] \/ subscriptions'[x][i] = f
      BY <3>1, <3>2, <3>3, <3>4
    <3>6. \A i \in DOMAIN subscriptions[x] :
            i \in DOMAIN subscriptions'[x] /\ subscriptions'[x][i] = subscriptions[x][i]
      BY <3>1, <3>2, <3>3, <3>4
    <3> QED
      BY <2>2, <3>2, <3>5, <3>6 DEF Range
  <2> QED
    BY <2>1, <2>2
<1>4. ASSUME NEW t \in Tasks, NEW y \in Objects, NEW h, Owes(t, y, h)
      PROVE  Owes(t, y, h)'
  <2>1. NextCall(t, y)' = NextCall(t, y) /\ (Ahead(t, y)' <=> Ahead(t, y))
    BY <1>1 DEF NextCall, Ahead
  <2> QED
    BY <1>1, <1>3, <1>4, <2>1 DEF Owes
<1>5. \A y : (Shown(y)' = Shown(y)) /\ (Heard(y)' <=> Heard(y))
    BY <1>1 DEF Shown, Heard, Sound
<1>6. ASSUME NEW y \in Objects, Heard(y), NEW h \in Range(subscriptions'[y]) \ missed'[y]
      PROVE  told'[y][h] = Shown(y)' \/ \E t \in Tasks : Owes(t, y, h)'
  <2>1. h \in Range(subscriptions[y]) \ missed[y]
    BY <1>3, <1>6
  <2>2. told[y][h] = Shown(y) \/ \E t \in Tasks : Owes(t, y, h)
    BY <1>6, <2>1 DEF ToldOK
  <2> QED
    BY <1>1, <1>4, <1>5, <2>2
<1> QED
    BY <1>1, <1>5, <1>6 DEF ToldOK

(* The first place of f in a list. *)
LEMMA FirstPlace ==
    ASSUME NEW S, NEW subs \in Seq(S), NEW f, Contains(subs, f)
    PROVE  \E at \in 1..Len(subs) :
            /\ at = CHOOSE i \in DOMAIN subs : subs[i] = f /\ \A j \in 1..i - 1 : subs[j] # f
            /\ subs[at] = f /\ \A j \in 1..at - 1 : subs[j] # f
<1> DEFINE IsFirst(i) == subs[i] = f /\ \A j \in 1..i - 1 : subs[j] # f
           T == {i \in 1..Len(subs) : subs[i] = f}
<1>1. T # {} /\ T \subseteq Nat
    BY DEF Contains
<1>2. PICK m \in T : \A k \in T : m <= k
    BY <1>1, LeastOf
<1>3. DOMAIN subs = 1..Len(subs) /\ Len(subs) \in Nat
    OBVIOUS
<1>4. m \in DOMAIN subs /\ IsFirst(m)
    BY <1>2, <1>3
<1>5. /\ (CHOOSE i \in DOMAIN subs : IsFirst(i)) \in DOMAIN subs
      /\ IsFirst(CHOOSE i \in DOMAIN subs : IsFirst(i))
    BY <1>4
<1> QED
    BY <1>3, <1>5

(* Without one of its places a list goes on as it was: what a task had yet to
   call at place n or later it still has, but for the one that is now at the
   place before. *)
LEMMA RestOfList ==
    ASSUME NEW S, NEW subs \in Seq(S), NEW at \in 1..Len(subs),
           NEW n \in Nat, n > 0, NEW i \in 1..Len(subs), i >= n,
           \A j \in 1..at - 1 : subs[j] # subs[at],
           Contains(RemoveAt(subs, at), subs[i]),
           at < n => subs[i] # subs[n]
    PROVE  \E k \in 1..Len(subs) - 1 : k >= n /\ RemoveAt(subs, at)[k] = subs[i]
<1> DEFINE rest == RemoveAt(subs, at)
<1>1. Len(subs) \in Nat /\ at \in Nat /\ i \in Nat
    OBVIOUS
<1>2. /\ rest \in Seq(S) /\ Len(rest) = Len(subs) - 1
      /\ \A j \in 1..Len(subs) - 1 : rest[j] = IF j < at THEN subs[j] ELSE subs[j + 1]
    BY RemoveAtProperties
<1> HIDE DEF rest
<1>3. CASE i < at
    BY <1>1, <1>2, <1>3 DEF rest
<1>4. CASE i > at
  <2>1. i - 1 \in 1..Len(subs) - 1 /\ ~(i - 1 < at) /\ (i - 1) + 1 = i
    BY <1>1, <1>4
  <2>2. rest[i - 1] = subs[i]
    BY <1>2, <2>1
  <2>3. i - 1 >= n
    <3>1. i # n
      <4>1. i = n => subs[i] = subs[n] /\ at < n
        BY <1>4
      <4> QED
        BY <4>1
    <3> QED
      BY <1>1, <3>1
  <2> QED
    BY <2>1, <2>2, <2>3 DEF rest
<1>5. CASE i = at
  <2>1. PICK j \in 1..Len(subs) - 1 : rest[j] = subs[at]
    BY <1>2, <1>5 DEF Contains, rest
  <2>2. j \in Nat /\ ~(j < at)
    <3>1. j < at => j \in 1..at - 1 /\ rest[j] = subs[j]
      BY <1>1, <1>2, <2>1
    <3> QED
      BY <1>1, <2>1, <3>1
  <2>3. j >= n
    BY <1>1, <1>5, <2>2
  <2> QED
    BY <1>5, <2>1, <2>3 DEF rest
<1> QED
    BY <1>1, <1>3, <1>4, <1>5

LEMMA UnsubscribeTold ==
    ASSUME IInv, ToldOK, NEW x \in Objects, NEW f \in Funcs, Unsubscribe(x, f)
    PROVE  ToldOK'
<1> DEFINE subs == subscriptions[x]
<1>1. subs \in Seq(Funcs) /\ Contains(subs, f)
    BY SubscribersOf DEF Unsubscribe, IInv
<1>2. PICK at \in 1..Len(subs) :
            /\ at = CHOOSE i \in DOMAIN subs : subs[i] = f /\ \A j \in 1..i - 1 : subs[j] # f
            /\ subs[at] = f /\ \A j \in 1..at - 1 : subs[j] # f
    BY <1>1, FirstPlace
<1> DEFINE rest == RemoveAt(subs, at)
           skipped == {subs[NextCall(t, x)] :
                        t \in {r \in Tasks : at < NextCall(r, x) /\ NextCall(r, x) <= Len(subs)}}
<1>3. /\ subscriptions' = [subscriptions EXCEPT ![x] = rest]
      /\ missed' = [missed EXCEPT ![x] = @ \union skipped]
      /\ UNCHANGED <<device, last_scene_address, pc, path, sub, callee, told>>
    BY <1>2 DEF Unsubscribe, Changes
<1>4. DOMAIN subscriptions = Objects /\ DOMAIN missed = Objects
    BY DEF IInv, SubscribersOK
<1>5. /\ rest \in Seq(Funcs) /\ Len(rest) = Len(subs) - 1 /\ DOMAIN rest = 1..Len(subs) - 1
      /\ \A h : Contains(rest, h) => Contains(subs, h)
  <2>1. rest \in Seq(Funcs) /\ Len(rest) = Len(subs) - 1
    BY <1>1, RemoveAtProperties
  <2>2. \A h : Contains(rest, h) => Contains(subs, h)
    BY <1>1, QueueRemoveAt
  <2> HIDE DEF rest
  <2>3. DOMAIN rest = 1..Len(subs) - 1
    BY <2>1
  <2> QED
    BY <2>1, <2>2, <2>3
<1>6. /\ subscriptions'[x] = rest /\ missed'[x] = missed[x] \union skipped
      /\ \A y \in Objects \ {x} : subscriptions'[y] = subscriptions[y] /\ missed'[y] = missed[y]
    BY <1>3, <1>4
<1>7. \A t \in Tasks : NextCall(t, x) \in Nat
    BY DEF NextCall, IInv, TasksOK, TaskOK
<1>8. ASSUME NEW h \in Range(rest) \ (missed[x] \union skipped)
      PROVE  /\ Contains(rest, h) /\ h \in Range(subs) \ missed[x]
             /\ \A t \in Tasks : at < NextCall(t, x) /\ NextCall(t, x) <= Len(subs)
                    => h # subs[NextCall(t, x)]
  <2>1. Contains(rest, h)
    BY <1>5, <1>8 DEF Range, Contains
  <2>2. Contains(subs, h)
    BY <1>5, <2>1
  <2>3. h \in Range(subs)
    BY <2>2, SubscribersOf DEF Contains, IInv
  <2> QED
    BY <1>8, <2>1, <2>3
<1>9. ASSUME NEW t \in Tasks, NEW y \in Objects, NEW h \in Range(subscriptions'[y]) \ missed'[y],
             Owes(t, y, h)
      PROVE  Owes(t, y, h)'
  <2>1. NextCall(t, y)' = NextCall(t, y) /\ (Ahead(t, y)' <=> Ahead(t, y))
    BY <1>3 DEF NextCall, Ahead
  <2>2. CASE y # x \/ ~(/\ NextCall(t, y) > 0
                        /\ \E i \in DOMAIN subscriptions[y] :
                            i >= NextCall(t, y) /\ subscriptions[y][i] = h)
    BY <1>3, <1>6, <1>9, <2>1, <2>2 DEF Owes
  <2>3. CASE /\ y = x /\ NextCall(t, x) > 0
             /\ \E i \in DOMAIN subs : i >= NextCall(t, x) /\ subs[i] = h
    <3>1. DOMAIN subs = 1..Len(subs) /\ Len(subs) \in Nat
      BY <1>1
    <3>2. PICK i \in 1..Len(subs) : i >= NextCall(t, x) /\ subs[i] = h
      BY <2>3, <3>1
    <3>3. h \in Range(rest) \ (missed[x] \union skipped)
      BY <1>6, <1>9, <2>3
    <3> HIDE DEF subs, rest, skipped
    <3>4. Contains(rest, subs[i])
      BY <1>8, <3>2, <3>3
    <3>5. at < NextCall(t, x) => subs[i] # subs[NextCall(t, x)]
      <4>1. NextCall(t, x) <= Len(subs)
        BY <1>7, <3>1, <3>2
      <4> QED
        BY <1>8, <3>2, <3>3, <4>1
    <3>6. \A j \in 1..at - 1 : subs[j] # subs[at]
      BY <1>2 DEF subs
    <3>7. PICK k \in 1..Len(subs) - 1 : k >= NextCall(t, x) /\ rest[k] = h
      <4>1. \E k \in 1..Len(subs) - 1 : k >= NextCall(t, x) /\ RemoveAt(subs, at)[k] = subs[i]
        <5>1. /\ subs \in Seq(Funcs) /\ at \in 1..Len(subs) /\ i \in 1..Len(subs)
              /\ NextCall(t, x) \in Nat /\ NextCall(t, x) > 0 /\ i >= NextCall(t, x)
              /\ Contains(RemoveAt(subs, at), subs[i])
          BY <1>1, <1>2, <1>7, <2>3, <3>2, <3>4 DEF rest, subs
        <5> QED
          BY <3>5, <3>6, <5>1, RestOfList
      <4> QED
        BY <3>2, <4>1 DEF rest
    <3>8. k \in DOMAIN subscriptions'[y] /\ k >= NextCall(t, y)' /\ subscriptions'[y][k] = h
      BY <1>5, <1>6, <2>1, <2>3, <3>7
    <3>9. NextCall(t, y)' > 0
      BY <2>1, <2>3
    <3> QED
      BY <3>8, <3>9 DEF Owes
  <2> QED
    BY <2>2, <2>3
<1>10. \A y : (Shown(y)' = Shown(y)) /\ (Heard(y)' <=> Heard(y))
    BY <1>3 DEF Shown, Heard, Sound
<1>11. ASSUME NEW y \in Objects, Heard(y), NEW h \in Range(subscriptions'[y]) \ missed'[y]
      PROVE  told'[y][h] = Shown(y)' \/ \E t \in Tasks : Owes(t, y, h)'
  <2>1. h \in Range(subscriptions[y]) \ missed[y]
    BY <1>6, <1>8, <1>11
  <2>2. told[y][h] = Shown(y) \/ \E t \in Tasks : Owes(t, y, h)
    BY <1>11, <2>1 DEF ToldOK
  <2> QED
    BY <1>3, <1>9, <1>10, <1>11, <2>2
<1> QED
    BY <1>3, <1>10, <1>11 DEF ToldOK

-----------------------------------------------------------------------------
LEMMA InitTold ==
    ASSUME Init
    PROVE  ToldOK
<1>1. /\ told = [x \in Objects |-> [f \in Funcs |-> Shown(x)]]
      /\ path = [t \in Tasks |-> <<>>]
    BY DEF Init
<1>2. \A x \in Objects : Range(subscriptions[x]) \subseteq Funcs
    BY InitEstablishes, SubscribersOf DEF IInv
<1> QED
    BY <1>1, <1>2 DEF ToldOK

LEMMA StepTold ==
    ASSUME IInv, WaysOK, ToldOK, [Next]_vars
    PROVE  ToldOK'
<1>1. ASSUME NEW s \in Scenes, ReadRecall(s)
      PROVE  ToldOK'
    BY <1>1, SpawnTold DEF ReadRecall
<1>2. ASSUME NEW p \in Sent, LevelSent(p[1], p[2])
      PROVE  ToldOK'
    BY <1>2, SpawnTold DEF LevelSent
<1>3. ASSUME NEW t \in Tasks, Run(t) \/ SubscriberReturns(t) \/ SubscriberRaises(t)
      PROVE  ToldOK'
    BY <1>3, StartRecallTold, VisitTold, ApplyLevelTold, CallTold, StartsTold, EndOfCallTold
       DEF Run
<1>4. ASSUME NEW p \in Fickle, Subscribe(p[1], p[2]) \/ Unsubscribe(p[1], p[2])
      PROVE  ToldOK'
    BY <1>4, Constants, SubscribeTold, UnsubscribeTold
<1>5. CASE UNCHANGED vars
  <2>1. UNCHANGED <<device, last_scene_address, pc, path, sub, callee, subscriptions, told, missed>>
    BY <1>5 DEF vars, subscribing
  <2>2. \A t \in Tasks : \A x, f : Owes(t, x, f)' <=> Owes(t, x, f)
    BY <2>1 DEF Owes, Ahead, NextCall
  <2>3. \A x : (Shown(x)' = Shown(x)) /\ (Heard(x)' <=> Heard(x))
    BY <2>1 DEF Shown, Heard, Sound
  <2> QED
    BY <2>1, <2>2, <2>3 DEF ToldOK
<1> QED
    BY <1>1, <1>2, <1>3, <1>4, <1>5 DEF Next

(* Whatever recalls, levels and subscribers overlap, and whoever subscribes or
   unsubscribes during the calls, no update is lost: once no task is on its way
   to an object whose calls come through, its subscribers have seen what it
   shows, but for those an unsubscription made a task skip. *)
THEOREM NoUpdateLost == Spec => []SubscribersUpToDate
<1>1. Init => IInv /\ SerialInv /\ ToldOK
    BY InitEstablishes, InitSerial, InitTold
<1>2. IInv /\ SerialInv /\ ToldOK /\ [Next]_vars => (IInv /\ SerialInv /\ ToldOK)'
    BY StepKeeps, StepSerial, StepTold DEF SerialInv
<1>3. IInv /\ ToldOK => SubscribersUpToDate
  <2> SUFFICES ASSUME IInv, ToldOK, NEW x \in Objects,
                      IF x \in GroupIds THEN Sound(x) ELSE x \notin Raising,
                      \A t \in Tasks : \A i \in DOMAIN path[t] : path[t][i] # x,
                      NEW f \in Range(subscriptions[x]) \ missed[x]
               PROVE  told[x][f] = Shown(x)
    BY DEF SubscribersUpToDate
  <2>1. Heard(x)
    BY DEF Heard
  <2>2. ASSUME NEW t \in Tasks, Owes(t, x, f)
        PROVE  FALSE
    <3>1. path[t] \in Seq(Objects) /\ (pc[t] = "called" => path[t] # <<>>)
      BY DEF IInv, TasksOK, TaskOK
    <3>2. path[t] # <<>> => 1 \in DOMAIN path[t] /\ Head(path[t]) = path[t][1]
      BY <3>1, EmptySeq
    <3> QED
      BY <2>2, <3>1, <3>2 DEF Owes, Ahead, NextCall
  <2> QED
    BY <2>1, <2>2 DEF ToldOK
<1> QED
    BY <1>1, <1>2, <1>3, PTL DEF Spec
=============================================================================
