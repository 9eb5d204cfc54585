# aiohelvar in TLA+

`aiohelvar` is an asyncio client for Helvar 905/910/920 lighting routers. It
keeps one TCP connection to a router, speaks the text protocol HelvarNet over
it, and mirrors the router's groups, devices and scenes for an application
such as Home Assistant. This directory models the parts of it that run
concurrently or depend on what the router answers, checks them on small
instances, and proves every safety property it checks for every instance. Line
numbers refer to `aiohelvar/` in the repository's root.

asyncio is single-threaded, so nothing is interleaved in the middle of a line.
What is interleaved are the stretches between two awaits, and only awaits that
really suspend: `await f()` of a coroutine that never blocks runs on. Every
action below is one such stretch, with everything it changes. An unbounded
`Queue.put`, a free lock or semaphore, and a coroutine without a pending await
do not suspend.

## 1. The system

| Component | State | Operations | Talks to |
|---|---|---|---|
| **Command engine** (`router.py:411-613`, `parser/command.py`, `parser/command_type.py`) | `commands_to_send`, `commands_received`, the condition `command_received`, the semaphore `_command_slots` | `send_command`, `query`, `_send_command_task`, `_stream_writer`, `_stream_reader`, pruning by `_keep_alive` | every other component sends its queries through it |
| **Connection** (`router.py:174-409`) | `connected`, `_closing`, `_reader`, `_writer`, the reader, writer, keepalive and reconnect tasks | `open`, `connect`, `disconnect`, `reconnect`, `_start_reconnect`, `_reconnect_with_retries`, `_keep_alive` | queries through the engine; starts and cancels its tasks |
| **Scene tracking** (`groups.py:100-132`, `devices.py:38-163`, `devices.py:240-303`, `lib.py:46-65`) | `load_level`, `last_load_level`, `last_scene`, scene table of a `Device`; `last_scene_address` of a `Group`; subscribers | `handle_scene_recall`, `handle_scene_callback`, `set_scene_level`, `update_device_load_level`, `update_subscribers` | the reader starts a task per RECALL line; subscribers are the application's coroutines |
| **Discovery** (`router.py:485-517`, `groups.py:185-307`, `devices.py:305-418`, `scenes.py:172-255`) | the registries of groups, devices and scenes | `initialize`, `get_groups`, `get_devices`, `get_scenes` and the queries they start | the engine; ends in the handlers of scene tracking |
| **Cluster and router ids** (`router.py:135-165`, `router.py:219-308`, `lib.py:24-43`) | `cluster_id`, `router_id`, `clusters`, `cluster_routers`, `ids_discovered`, `_discovery_attempted` | `discover_router_ids`, `parse_id_list` | called by `connect` and by `initialize`, maybe at once |
| **Outgoing commands** (`groups.py:134-183`, `devices.py:268-303`) | - | `set_scene`, `set_group_level`, `set_device_brightness` | the engine; set levels optimistically |
| **Parser and addresses** (`parser/`) | - | `CommandParser.parse_command`, addresses, `blockscene_to_block_and_scene` | used by the reader and discovery |
| **Device types and state flags** (`static.py`) | tables | decoding of types and flags | discovery |
| **Diagnostics** (`diagnostics.py`) | the report: one `ProbeResult` per query | `run_diagnostics`, `DiagnosticsReport.supports`, `verdict` | `Router.open`, `query`, `disconnect` of a Router of its own |
| **DALI-2** (`dali2.py`) | - | one bounded query, pure parsing | `Router.query` |
| **Mock router** (`mock_router.py`) | the firmware profile in force | `build_response`, `set_profile`, `_handle_client` | stands for the router in tests, and in `MockRouter` here |
| **Errors** (`error_codes.py`, `exceptions.py`), **command line** (`__main__.py`, `config.py`, `examples/`) | - | `is_unsupported_command` | diagnostics |

What is hard in it:

* HelvarNet has no request identifiers. A reply is matched to a query by its
  type, parameters and address, so late replies answer later queries, and equal
  queries share replies.
* A query holds a slot of a semaphore and, in turns, the lock of a condition,
  with a timeout and with cancellation at every await.
* Reader, writer and keepalive each notice a lost connection and each start the
  reconnect; the application may connect and disconnect meanwhile; queries
  outlive the connection they were sent over.
* Every RECALL line starts a task that awaits the application's subscribers in
  the middle of its work. Tasks overtake one another.
* Discovery runs hundreds of queries at once, any of which may be answered with
  an error or not at all, and may be started again before they have ended; the
  application subscribes to what is there so far.
* Subscribers come and go while they are being called.
* A level is kept as soon as the command that sets it is queued, while replies to
  earlier queries are still to come.
* The firmware may not know a query, ignore it, or answer it in a way the query
  is not recognised by; it may even change while a query is under way. Ids and
  reports must be what some firmware said, in answer to that query.

What makes each part correct is listed with its module below;
`PROJECT.json` lists the hazards line by line with the properties that cover them.

## 2. Modules and plan

Written, in this order, the most important behaviour first:

| Component | Modules | Proofs |
|---|---|---|
| Command engine | `RequestReply`, the abstract promise; `CommandEngine`, which implements it; `Queues` | `QueueLemmas`, `CommandEngineProofs`, `CommandEngineRefinement` |
| Connection | `Connection` | `ConnectionProofs` |
| Recalls, levels, subscribers | `SceneTracking` | `SceneTrackingProofs` |
| Discovery of the database | `Addresses`, `Discovery` | `DiscoveryProofs` |
| The level of a device against its lamp's | `LevelTracking`, `Levels` | `LevelProofs` |
| Cluster and router ids, diagnostics, mock router | `MockRouter`, `Topology`, `Diagnostics` | `TopologyProofs` |

`MC...` modules hold the small instances TLC checks.

How they compose. `CommandEngine` takes the connection as up or down at any time,
which allows whatever becomes of one connection in `Connection`. Two that overlap are
not in the engine: there `connect()` called by the application during a reconnect
(`router.py:194-208`) leaves two writers that take from one queue and two readers,
and lines may overtake one another. One wire is thus a premise of `LevelAgrees` and
`PruneSparesAwaited`. `Connection` and `Discovery` take
a query as answered or timed out, which `CommandEngine!EveryCommandEnds`
justifies. `LevelTracking` extends `CommandEngine`: every step of it is a step of
the engine, with what it does to the level of a device and to the lamp.
`Diagnostics` extends `Topology`, which extends `MockRouter`: one Router, one
connection and one list of replies, used by `connect()`, `initialize()`, a
reconnect and the probes. `Discovery` applies a last scene in one step, and
`SceneTracking` has what can overlap it. `Discovery` extends `Addresses`.

Left of the plan:

1. A RECALL line that is the echo of the application's own `set_scene`: it would
   join `LevelTracking` and `SceneTracking`.
2. The order of the scenes that are offered, and DALI-2 readings.

## 3. What each module says

### RequestReply, CommandEngine

| State | In the code |
|---|---|
| `pc[c]` | where `_send_command_task` of command `c` is suspended |
| `age[c]` | now minus `start_time` |
| `slots`, `slotQueue` | `_command_slots` and its waiters |
| `lockQueue` | holder and waiters of the lock of `command_received` |
| `commands_to_send`, `commands_received` | the attributes |
| `wire` | what the writer wrote and the router has not answered |
| `reading` | the reply `_stream_reader` has parsed while it waits for the lock |
| `result[c]` | what the call returned |
| `link` | reader and writer run on a live connection |

`Submit`, `AcquireSlot`, `Park`, `QueueForLock`, `Recheck`, `Expire`, `Cancel`
and `GiveUp` are the stretches of a command from `send_command` to its end;
`WriterSend`, `ReaderRead`, `ReaderStore` the two stream tasks; `Prune` the
keepalive's; `LinkDown` and `LinkUp` the connection. `RouterIgnore` is a router
that does not answer. A reply is represented by the command it answers, which
the code cannot see: it compares `Key` only.

Time is coarse: `Tick` happens only when no coroutine is ready and no timer is
due. A tick stands for a large part of the 30 second timeout, while the event
loop runs what is ready within milliseconds; so a command
that comes to its first wait always has time left (`router.py:574`), and it is the timer
that ends it, or the clock when it has been notified. Writer, router, reader and
connection may nevertheless be arbitrarily slow. Locks and semaphores are FIFO,
as those of asyncio are. A wait cancelled by `wait_for` ends in cancellation:
that `wait_for` of Python up to 3.11 can lose a cancellation that
races with completion is not modelled.

`RequestReply` is what a caller may rely on: a request ends once, with a reply
that carries its key, was given by the router to a request made before, and is
given to no one else; or by timeout, or by its caller. That is weaker than "its
own reply", and the engine provides no more: a late keepalive reply answers the
next keepalive.

### Connection

`closing`, `connected`, `reconnect_task` and `conn` (the socket of `_reader`,
`_writer` and of the task attributes) are attributes of `Router`; `readers`,
`writers` and `keepalives` are the tasks that run, with or without a reference
to them; `pings` are keepalive queries in flight. The tasks are the
application's (0) and those running `_reconnect_with_retries`. `StopTasks` and
`FinishDisconnect` are `disconnect()` before and after `wait_closed`; `Open`,
`Refused`, `WorkgroupNamed`, `WorkgroupTimeout`, `Discovered` and `IdsRejected` (an
id that is no address: `connect()` raises) are `connect()`. `Lose` breaks a connection; after `Stabilise` network and router
work. The keepalive period (120 s) is longer than a query can take, so each keepalive has
at most one query in flight. Cancelling a keepalive does not cancel its query, and
overlapping connects leave keepalives that nothing refers to (`stray` pings are
theirs), so that the query of a leftover may be under way beside one of a keepalive
that is gone.

### LevelTracking, Levels

`load_level` is the attribute of one `Device`, `lamp` the level its lamp really
has, `said[c]` type and result of the router's reply to query `c`: the lamp's level,
an error with its code, or no result (`Answers`). `uncertain` and `misled` are history
variables. `LCommand` is a step of a command of the engine together with what
follows in the same turn of the event loop: `set_device_load_level` keeps the level
when its command has been queued (`devices.py:291-293`), `update_device` keeps the
result of a reply, whatever the reply's type is: the code of an error becomes the level
(`KeepsResult`, `misled`; finding 6 is the same of groups), and without a result
`float()` raises. `LRouter` and `LLinkDown` execute commands in the order of the
wire. `LevelAgrees` relates the two: `load_level` is where the lamp is `Heading`
once everything on the way is executed, unless a query was under way when the
level was set (the race `devices.py:295` mentions), a command that sets a level
was lost with a connection, or what is kept is the code of an error. That code is gone
with the next level set or kept; it leaves nothing behind. `Levels` is the arithmetic of brightness and level:
`LevelOf`, `BrightnessOf` (both ways) and `Clamped`.

### SceneTracking

`ready` is asyncio's queue of callbacks, whose head runs; a task leaves it only
to await a subscriber (`busy`), for as long as the application likes.
`ReadRecall` is the reader's `create_task(handle_scene_recall)`, `LevelSent`
every task that ends in `update_device_load_level`. `StartRecall`,
`SkipDevice`, `VisitDevice`, `VisitGroup` and `Finish` are
`handle_scene_callback`; `CallSubscriber`, `SubscriberStarts`,
`SubscriberReturns` and `SubscriberRaises` are `update_subscribers`, which goes
by its place `sub` in the list as it is by then: `Subscribe` and `Unsubscribe`
change the list under it (`lib.py:46-65`). History variables say what was read
last (`latest`), where the devices would be had each task run in one go when it
began (`serial`), and which subscribers a round of calls has passed over
(`missed`): those that joined it late, and the one behind a subscriber that was
removed. `SubscribersUpToDate` excuses those and nobody else. Levels are
integers, a scene stands for its whole address, and the registries do not change
(discovery has finished).

### Addresses, Discovery

`Addresses` is the arithmetic of scene numbers: `blockscene_to_block_and_scene`
and `to_device_int`. In `Discovery`, `queries` are those in tasks of their own,
`phase` is where `initialize()` is. `DeviceKnown` and `GroupNamed`,
`MembersKnown`, `LastSceneKnown`, `SubnetKnown` are the replies, with result or
error; `Unanswered` is the `CommandResponseTimeout` that `guarded` logs. The name
and the state of a device are queried and kept alike, by two tasks; one query
stands for both. `register_subscription` and `unregister_subscription` are the
application's, at any time, to what is registered by then; subscribers return at
once. A load whose scene table has not come yet makes the callback for a group's
last scene raise (`Stops`, `Raises`), so that the members after it and the group's
subscribers are not reached: those groups are in `unheard`.
`get_selectable_scenes_for_group` and `_scene_is_in_use` are what `scenes.py`
offers of all that: scenes with a name, and those a member's table has a level for.
The table of 136 levels has places for the eight blocks and for seven scenes more,
which the code offers like the others (`TableScenes`, `scenes.py:142-152`).

### MockRouter, Topology, Diagnostics

`MockRouter` has a router as `mock_router.py` has it: the profile in force decides
how a query is answered, with a result, an error (with or without its address) or
not at all, and `SetProfile` may switch it. The client's side is short: queries go
out in order (`wire`), replies wait in `received` for whoever asked the same.
`Takes` is what `CommandEngine!TakeReply` does; slots and locks are left out.

`Topology` has the callers of `discover_router_ids`: `connect()`, which may belong to
the application or to a reconnect, and `initialize()`. `pc` is the query each
awaits, `found` its local variables; `Loop` is the loop over the clusters,
`Conclude` its end. `Connect`, `Initialize`, `GotWorkgroup`, `GotClusters`,
`GotRouters`, `Unanswered`, `Disconnect` and `Lose` are the steps.

`Diagnostics` is `run_diagnostics` with a Router of its own: `Opens`,
`ProbeAnswered`, `ProbeUnanswered`, `Disconnects`. `toProbe` are the queries left
of the stage, `probes` the report. Beside it run the steps of `Topology`, since
that Router reconnects by itself and its `connect()` asks what the probes ask.
`get`, `supports` and `verdict` read the report.

## 4. Runs

| Run | Shows | Bounds | Distinct states |
|---|---|---|---|
| `EngineSafety` | slots are accounted for, replies are used once, no wake-up is lost, the lock is held by a task that runs, pruning spares replies that are awaited | 4 commands, two of them with one key, 2 slots, one cancellable | 1,605,000 |
| `EngineRefinement` | the engine implements `RequestReply`; every command ends; a level that is set is the lamp's | 2 queries of one key, one of them cancellable, and 2 commands that set the level, 2 slots; one query answered with an error or without a level | 1,939,000 |
| `EngineTimeout` (violated) | a command times out before it is sent | 4 commands | |
| `Connection` | one reconnect at a time, `disconnect()` sticks, no loss goes unnoticed, the connection recovers | 3 sockets, 2 reconnect tasks | 851,000 |
| `ConnectionSpurious` (violated) | an old keepalive query tears down a new connection | as above | |
| `ConnectionAvailable` (violated) | `connected` is true between two attempts of a reconnect | as above | |
| `SceneTracking` | serial effect, the group's last scene, and subscribers that end up informed | 2 groups sharing a device, 5 devices, 4 scenes, 2 tasks at a time, one change of the subscribers | 838,000 |
| `SceneOverlap` (violated) | two recalls leave a device at the first one's scene | 1 group, 2 devices | |
| `SceneLastLevel` (violated) | a direct level of 0 does not save the level to restore | as above | |
| `Discovery` | discovery is complete, errors stay out of a group's state, subscribers are told and keep their subscriptions, names never abort it | 1 group, 2 devices, two calls of `initialize`, or one and a fault; one subscription at a time | 432,000 |
| `DiscoveryErrors` (violated) | an error code becomes a group | as above | |
| `Diagnostics` | ids and the probed pair are what the router reported, the topology fits the ids, discovery is complete, the report is true and about the devices the Router will address, `run_diagnostics` returns | 5 firmware profiles, one switch, 2 calls of `connect` and `initialize`, one lost connection or early timeout, probe timeouts of 5 and 60 s | 375,000 |

Why these are enough. In the engine, replies are confused when two commands have
the same key; with two slots, a third command holds or waits for a slot beside
them, and a fourth makes someone wait whoever holds the slots. Every way out of a
command (answered at once or after a wait, not answered, timed out by the timer or
once notified, cancelled in three places, no reply expected) occurs in one of the two
runs; that the time is over before the first wait does not, since time is coarse.
Two ticks of time (start, expired) are
all the code distinguishes. Pruning is bounded by 3 replies instead of 32
(1 in `EngineRefinement`), so that it happens; 3 is twice the slots less one, the
least for which `PruneSparesAwaited` holds (`KeepsEnough`; with 2, timeouts alone make
pruning drop the reply of a waiter that has yet to run). A level can be wrong by a query on
either side of a command, by the reply to the other query, and by the order of two
commands: two of each do. An error misleads until a level follows it, from the other query or
from a command: `MaxErrors` is 1.

In `Connection`, one reconnect exists at a time (that is `OneReconnect`), so a
second task number is what a violation needs; a third socket is what two
overlapping `connect()` leave over. `MaxLeaked = 0` makes the application wait
with `connect()` until readers and keepalives of earlier connections are gone:
without it, calling `connect()` in a loop against a silent router piles up tasks
without bound. Deadlock is not checked there, since the application may stop
calling. The sockets left behind by overlapping connects *within* a
call remain possible.

In `SceneTracking` two tasks overlap in every way two can; tasks are reused,
so executions are of any length. Devices: one plain, one shared, with
two subscribers, one no load, one not discovered, one that raises and lacks an
entry. One subscriber comes or goes, once (`MaxChanges`), at any time of a round of
calls. In `Discovery`, the group has a device of another router (which is never
discovered) and one load on the last subnet, its last scene is the last of a
block, and the load's table has a level at its last place. `MaxLeft` bounds the queries still under way when `initialize()` is called
again, `MaxEvents` its calls and the faults together. Deadlock is not checked
since the application may never call `initialize()` again.

In `Diagnostics`, the profiles are a modern firmware with several clusters, the
first without routers; a legacy one; one with an entry that is no number and a
router id out of range; one without clusters; and one that ignores a query, leaves
the address out of errors and names a cluster that `HelvarAddress` rejects. One
switch makes a query and its reply belong to two of them. `MaxStarts` lets
`connect()` and `initialize()` overlap, or a reconnect follow. `MaxTrouble` counts lost
connections and queries that time out though a reply is under way; queries that are
never answered time out as often as they like. Deadlock is not checked since the
application may stop calling.

### What needs a premise

* `PruneSparesAwaited` assumes that no orphan is in the list: no reply to a cancelled
  command, to one that expects none, or to one that another reply with its key has
  answered (`Orphans`). With enough of those, pruning does drop a reply that is
  still awaited.
* `SerialEffect` is for devices that a recall reaches without awaiting a
  subscriber on its way. For the others it is false: that is `SceneOverlap`.
* `SubscribersUpToDate` and `GroupHears` are for groups whose recalls are not
  ended by an exception of a member or subscriber, and the first excuses
  subscribers in `missed`.
* `CompleteDiscovery` is for discovery that met no fault: what an error or a timeout
  leaves out stays out until the next `initialize()`.
* `SubscribersTold` excuses groups whose last scene was set by a callback that
  raised. A second `initialize()`, whether or not the first has ended, replaces the
  objects, and subscriptions go with them (`groups.py:286`): `SubscriptionsKept`
  forbids it in the first call, and later asks that a subscription ends only with an
  object for which there is a new one with all its queries under way.
* `LevelAgrees` excuses levels set while a query was under way, commands lost
  with a connection, and the code of an error as long as it is kept. Like
  `PruneSparesAwaited` it takes commands to reach the router in the order of their
  queue: one connection at a time.
* `DiscoveryComplete` and `AddressAgrees` are for a firmware that stays the same,
  knows both queries, and answers in time; `SupportsIsTrue` for probe timeouts below
  `COMMAND_RESPONSE_TIMEOUT` (see section 7).
* `Recovers` assumes that network and router work from some time on and that
  the application then stays connected.

### Fairness

* `CommandEngine`: the event loop runs ready coroutines and due timers, and time
  passes. Nothing of router, connection or callers.
* `Connection`: tasks run, waits end (a query is answered or times out), a
  broken socket is noticed by its reader, and by its writer, which the keepalive
  gives commands to write; the keepalive ticks.
* `SceneTracking`: the event loop runs, and no subscriber runs for ever.
* `Discovery`: every query is answered or times out, which is
  `EveryCommandEnds` of the engine.
* `LevelTracking`: that of the engine, nothing more.
* `Diagnostics`: a query of a probe is answered or times out, and the router gets to
  the queries it has received. The second is needed only because `MaxTrouble`
  bounds how often a query times out before the router has got to it.

All are weak fairness: asyncio's queue of callbacks is FIFO.

## 5. Proofs

`CommandEngineProofs`, for any finite set of commands, any keys, any number of
slots, any timeout:

* `TypeCorrect`: `Spec => []TypeOK`.
* `SlotsNeverLeak`: `Spec => []SlotsAccounted`; free slots and commands in
  flight add up to `MAX_CONCURRENT_COMMANDS`.
* `LockHolder`: `Spec => []LockHeldByRunningTask`.

All three follow from `Invariant`, `Spec => []IInv`, with
`IInv == TypeOK /\ SlotsAccounted /\ LockInv`. The parts need each other: that
`slots + 1` is still within `0..MaxConcurrent` needs the accounting; that
`ReaderStore` appends a command needs that a reader in the lock's queue has a
reply in hand; that it is gone from the queue afterwards needs that nobody is in
the queue twice; and that needs `QueueForLock`'s guard and that commands enter
the queue when they take their slot (`LockInv`). There is one lemma per action.
Assumed are `CommandsAssumption` and `BoundsAssumption` of the module; TLC checks
them in every run of the engine. `QueueLemmas` has what `Append`, `Tail`,
`RemoveAt`, `SubSeq` and `Without` do to the members of a queue, to their order, and
to being there once.

`CommandEngineRefinement` (same assumptions):

* `ReplyNeverShared`: `Spec => []ReplyUsedOnce`.
* `Refinement`: `Spec => KeepsPromise`; the engine implements `RequestReply`.
* `NoReplySleptOver`: `Spec => []NoLostWakeup`.
* `PruneDropsNoneAwaited`: `KeepsEnough` implies `Spec => PruneSparesAwaited`.

The first two need `PlaceInv`: a command, and then its reply, is at one place at a time -
`commands_to_send`, the wire, the reader, `commands_received`, the result of one
call - and at none before the command has a slot. So a reply that is taken is one
nobody has, and its request was made before. `ListenInv` says that only commands
that expect a reply wait, and that only a caller with a timeout cancels. With these
every step of the engine is a step of `RequestReply` on `Status` and `result`,
or changes neither.

For the third: the code looks at the list before it has the lock and not again
before it waits. `WakeInv` says why that is safe: a command that is still entering
is in the lock's queue, its reply is not in the list, and a reader that has its
reply is behind it.

The fourth is what `router.py:45-46` says of the number 32, "Far above the in-flight
limit, so replies that are just slow still get matched", with the number it takes:
`KeepsEnough`, twice the limit of 4, less one. If pruning drops the reply of a
command `c` that still waits for it, `MaxUnmatched` replies came after that one.
Without orphans they are those of commands in flight, fewer than there are slots
since `c` has one, and of commands that have timed out. But queue, wire, reader and
list keep the order in which commands took their slots, so those behind `c` took
theirs later and are no older; one that has timed out has had the whole time, so it
was in flight together with `c` when time last passed, and of these there are fewer
than slots, too (`OrderInv`, with `First` for the order and `Peers` for the commands
that have had the whole time).

`ConnectionProofs`, for any bounds on sockets and tasks (`ConnectionAssumption`):

* `TypeCorrect`: `Spec => []TypeOK`.
* `AtMostOneReconnect`: `Spec => []OneReconnect`.
* `DisconnectIsFinal`: `Spec => []DisconnectSticks`.
* `NoLossUnnoticed`: `Spec => []LossIsNoticed`.

The invariant adds to the types that a task that runs is the one `_reconnect_task`
refers to (`OnlyReconnect`: `_start_reconnect` looks at no other), that
the keepalive with a reference exists, and that from `disconnect()` to `connect()`
either `_closing` is set or nothing ever ran (`OffInv`): readers, keepalives and
queries of earlier connections may still be there, but their reports are void.

The last one needs more (`NoticedInv`): that `_closing` is only set while
the application wants to be off or a reconnect is inside `disconnect()`, and that a
Router the application relies on has a keepalive, or a reconnect that runs.

`SceneTrackingProofs`, for any groups, members, scenes, tables and subscribers, and
any number of tasks (`SceneTrackingAssumption`):

* `TypeCorrect`: `Spec => []TypeOK`.
* `LatestRemembered`: `Spec => []GroupRemembersLatest`. Recalls that have not had
  their first turn are in the queue of callbacks in the order they were read, and the
  last of a group's has its latest scene (`LatestOK`).
* `SerialEffectHolds`: `Spec => []SerialEffect`. The parts of `SerialInv`: what a task
  has yet to visit is the rest of its group's way (`WaysOK`); an object without
  subscribers stays without (`SubscriptionsOK`); and a device no recall is suspended
  in front of is ahead of no task but the one that runs, and lacks just what that one
  will do to it (`SerialOK`).
* `NoUpdateLost`: `Spec => []SubscribersUpToDate`. Whoever has not seen what an object
  shows is yet to be called by some task: it is at a place of the list that the task
  has not passed, or is being called (`Owes`, `ToldOK`). A task that changes the object
  owes the whole list; an unsubscription shifts the list and what is owed alike, but
  for the subscriber that moves to a place just passed, which is `missed`.

`DiscoveryProofs`, for any router (`DiscoveryAssumption`):

* `TypeCorrect`, `GroupStateReal` (`GroupStateIsReal`) and `NobodyIsMissed`
  (`SubscribersTold`). The invariant adds that a query in a task of its own is about
  something that is registered (`QueriesOK`): objects are replaced, never removed.
* `NoSubscriptionLost`: `Spec => SubscriptionsKept`. In the first call the registries
  are empty when the groups come, and a subnet whose query is under way has no
  device registered (`FirstCall`); so nothing is replaced. In later calls a
  subscription ends only where `get_groups` or `receive_and_register_devices` puts a
  new object, in the step that starts its queries.
* `DiscoveryIsComplete`: `Spec => []CompleteDiscovery`. As long as there was no fault,
  whatever is not in the registries has a query under way that brings it, of this or
  of an earlier call of `initialize()` (`Coming`: the groups and their names, the
  subnets, and every value of a group and of a device). A call that replaces an
  object starts its queries with it, so nothing gets lost between two calls.
* `DecodeEncode`, what a router encodes as last scene decodes to the same block and
  scene, for the eight blocks; and `TablePlaces`, every such scene has its own place
  in a table of 136 levels.

`LevelProofs`, for any commands, keys and levels (`CommandsAssumption`,
`BoundsAssumption`, and `LevelsAssumption`, that a query's key is no key of a command
that sets a level, since keys begin with the type, and that `None` is no number):

* `LevelIsHeading`: `LSpec => []LevelAgrees`, for any number of error replies with any
  code, over one connection at a time. While the level is certain, no command
  that sets it follows a query on its way from `commands_to_send` to the router, and
  once there is a reply to a query no such command is on its way at all, and the reply
  says where the lamp is, or is an error, or has no result (`Honest`, `LevelOK`). It rests on `RInv` of the engine: a query that
  is on the wire has no reply yet.
* `ReadBack`: a brightness that is set and read back is the same or one less, only 0
  reads back as 0, and no level needs clamping.

`TopologyProofs`, for any firmware, hosts, defaults, timeouts and bounds
(`FirmwareAssumption`, `TopologyAssumption`, `DiagnosticsAssumption`):

* `IdsAreReported`: `DSpec => []IdsReported`.
* `TopologyAndIdsAgree`: `DSpec => []TopologyMatchesIds`.
* `ProbedPairIsReported`: `DSpec => []ProbedPairReported`.
* `SupportIsNotMadeUp`: `DSpec => []SupportsIsTrue`.
* `TopologyIsComplete`: `DSpec => []DiscoveryComplete`.
* `ProbedAddressAgrees`: `DSpec => []AddressAgrees`.

For the first three, every reply in the list is what some profile that has been in
force says to its query (`RepliesOK`); what a caller has gathered was named so
(`CallersOK`); and the probes of routers ask for named clusters (`ProbesOK`).

For the fourth, replies and probes are also of the kind that some firmware gives to
their command (`RepliesGenuine`, `ProbesGenuine`). The report may rest on the reply to
another query of the same command, of a reconnect or of an earlier probe, and is
true nevertheless.

The last two are about a firmware that stays and answers (`Settled`). Every reply then
says what that firmware says (`RepliesSaidBy`); a caller that asks for the routers of
the cluster at some place of the list has those of all clusters before it, and the
first that ends leaves them all (`CallersOnWay`). The probes have the first pair of
the clusters before the place they ask for (`ProbedSoFar`), nobody else has that
Router (`Alone`), and the devices that are probed last are those of that pair.

The assumptions on constants say what type things have: counts are numbers, tables
have 136 levels, ids are pairs of numbers; and that values of different kinds differ:
`None` is neither a group nor a pair, and the group that the code of an error becomes
is neither a group of the router nor a subnet. The router of `DiscoveryProofs` may thus not
have a group whose id equals the code of an error it gives: the code could not tell
them apart at all (`DiscoveryErrors`). `KeepsEnough` is a hypothesis of one theorem
only.

Only model-checked is liveness (`EveryCommandEnds`, `Recovers`, `GroupHears`,
`NamesNeverAbort`, `Returns`), since the prover has no rule for fairness. All other
properties of passing runs are proved: the type invariants, the other invariants, the
action properties and the refinement.

## 6. Where code and its documentation disagree

Each is a run that TLC finds violated (`PROJECT.json`, `findings`):

1. `EngineTimeout`: `router.py:524-525` says that the timeout starts once the command
   is sent. It starts before the string is queued, `router.py:531`.
2. `ConnectionSpurious`: a keepalive query survives `disconnect()` and
   reconnects the next connection, `router.py:393`.
3. `ConnectionAvailable`: `router.py:361-362` offers `connected` as availability during a reconnect.
   It is true between attempts that failed after `open()`.
4. `SceneOverlap`: the `README.md:141` claim that levels follow scene recalls.
   A recall suspended in a subscriber is overtaken and then overwrites later
   devices with the older scene.
5. `SceneLastLevel`: `devices.py:139`, "last level before device was powered off",
   is not kept by direct levels and queries, `devices.py:251`.
6. `DiscoveryErrors`: `groups.py:187` takes an error code for a group id, and
   `update_device` for name, state and level. `test_robustness.py:185`, an error code
   "must not leak into the group state", is about the name, members and last scene of
   one group, where the code keeps to it (`GroupStateIsReal`); the run asks the same of
   all registries.

## 7. Not modelled

* The regular expression and the text of commands: formatting. A line that
  cannot be parsed is logged and skipped.
* A line longer than the limit of asyncio's stream (64 KiB), far beyond any reply of
  a router: `readuntil` raises `LimitOverrunError`, which `_stream_reader` does not
  catch (`router.py:417-425`), and the reader ends without starting a reconnect. Only
  the keepalive would notice.
* Two connections at once in the command engine: two writers on one queue, two readers
  on one list. `Connection` shows how they come about (`Open` during a reconnect).
* Device types and flags, the descriptions of error codes, exceptions: tables.
* DALI-2: one query each over the modelled engine, and a parser without state.
* Mock router: the canned results by group, and starting and stopping the server.
* Command line and examples: printing.
* How a report is printed and a version number is decoded.
* A bad device entry in the reply for a subnet, which ends the registration of the
  devices after it (`devices.py:385-396`), and a host whose third octet is no
  cluster, for which `get_devices` raises (`devices.py:408`): `Discovery` takes
  subnets whole and the address of the router as valid.

Noted while modelling, and left to their hazards:

* With a probe timeout beyond 30 seconds the engine's own `CommandResponseTimeout`
  ends the probe, and a command that was never answered counts as supported
  (`diagnostics.py:335`); `SupportsIsTrue` is stated for shorter timeouts.
* `DiagnosticsReport.supports` speaks of error 15 where the code also takes 14 and
  18 for "not supported" (`error_codes.py`).
* Once a query has been given up, its late reply answers the next query of the same
  key and so on: every later answer is one behind. `RequestReply` allows it.
