---------------------------- MODULE CommandEngine ----------------------------
(***************************************************************************)
(* The command engine of aiohelvar.router.Router: every query, from the    *)
(* task that takes an in-flight slot to the reply (or the timeout) it ends  *)
(* with.  asyncio is single-threaded, so an action is the code a coroutine  *)
(* runs from one await that really suspends to the next.                    *)
(*                                                                         *)
(* HelvarNet has no request identifiers.  A reply echoes the type, the      *)
(* parameters and the address of its query, and that is its key: the reply  *)
(* to command d is represented by d itself, and the code, which only sees   *)
(* keys, may hand it to any c with Key[c] = Key[d].                         *)
(*                                                                         *)
(* The connection is abstract here (up or down, lost at any time); module   *)
(* Connection has its detail.  The two queues of the engine survive it.     *)
(* There is one connection at a time: two connect() that overlap also leave *)
(* two writers and two readers, whose lines may overtake one another, and   *)
(* that is not modelled here.                                               *)
(***************************************************************************)
EXTENDS Integers, FiniteSets, Queues

CONSTANTS
    Commands,        \* calls of _send_command_task, one value per call
    Key,             \* type_parameters_address of each
    NoReply,         \* those of COMMAND_TYPES_DONT_LISTEN_FOR_RESPONSE
    Bounded,         \* those whose caller may cancel them: query(timeout=...)
    MaxConcurrent,   \* MAX_CONCURRENT_COMMANDS
    ResponseTimeout, \* COMMAND_RESPONSE_TIMEOUT, in clock ticks
    MaxUnmatched,    \* MAX_UNMATCHED_REPLIES
    Reader,          \* the _stream_reader task, as a user of the lock
    None

ASSUME CommandsAssumption ==
    /\ IsFiniteSet(Commands)
    /\ Reader \notin Commands
    /\ None \notin Commands
    /\ NoReply \subseteq Commands
    /\ Bounded \subseteq Commands
    /\ Key = [c \in Commands |-> Key[c]]

ASSUME BoundsAssumption ==
    /\ MaxConcurrent \in Nat \ {0}
    /\ ResponseTimeout \in Nat \ {0}
    /\ MaxUnmatched \in Nat

VARIABLES
    pc,                \* where the coroutine of each command is suspended
    age,               \* clock ticks since its start_time
    slots,             \* value of the semaphore _command_slots
    slotQueue,         \* its FIFO of waiting commands
    lockQueue,         \* the lock of command_received: its holder is the head
    commands_to_send,  \* asyncio.Queue between the commands and the writer
    wire,              \* written and not yet answered (socket and router)
    reading,           \* the reply the reader has parsed and not yet stored
    commands_received, \* replies nobody has taken
    result,            \* the reply each command returned
    link               \* reader and writer tasks run on a live connection

vars == <<pc, age, slots, slotQueue, lockQueue, commands_to_send, wire,
          reading, commands_received, result, link>>

-----------------------------------------------------------------------------
(* "slot": in the semaphore's queue.  "entering": first use of the lock.      *)
(* "parked": inside Condition.wait.  "notified", "expired", "aborting": woken *)
(* by notify_all, by the timer or by cancellation, and must have the lock     *)
(* back before it can go on.  The last four are final.                        *)
Waiting  == {"parked", "notified"}
Leaving  == {"expired", "aborting"}
InFlight == {"entering"} \union Waiting \union Leaving
Final    == {"answered", "timeout", "cancelled", "sent"}
PCs      == {"idle", "slot"} \union InFlight \union Final

(* The commands that hold a slot of the semaphore. *)
Holders == {c \in Commands : pc[c] \in InFlight}

HoldsLock(p) == lockQueue # <<>> /\ Head(lockQueue) = p

(* Mutant: any reply will do (older versions compared the command type alone). *)
MatchesAnyKey(c) == 1..Len(commands_received)

(* Positions in commands_received of the replies command c would accept. *)
Matches(c) == {i \in 1..Len(commands_received) : Key[commands_received[i]] = Key[c]}

(* Mutant: the reply stays in the list. *)
PeekReply(c) ==
    \E i \in Matches(c) :
        /\ result' = [result EXCEPT ![c] = commands_received[i]]
        /\ UNCHANGED commands_received

(* check_for_command_response finds a reply: the oldest one, removed. *)
TakeReply(c) ==
    \E i \in Matches(c) :
        /\ \A j \in Matches(c) : i <= j
        /\ result' = [result EXCEPT ![c] = commands_received[i]]
        /\ commands_received' = RemoveAt(commands_received, i)

(* Leaving `async with self._command_slots`, however the command ended. *)
ReleaseSlot(c, outcome) ==
    /\ pc' = [pc EXCEPT ![c] = outcome]
    /\ slots' = slots + 1

(* Mutant: `remaining < 0`. *)
ExpiredLate(c) == age[c] > ResponseTimeout

(* remaining <= 0 *)
Expired(c) == age[c] >= ResponseTimeout

-----------------------------------------------------------------------------
TypeOK ==
    /\ pc \in [Commands -> PCs]
    /\ age \in [Commands -> 0..ResponseTimeout]
    /\ slots \in 0..MaxConcurrent
    /\ slotQueue \in Seq(Commands)
    /\ lockQueue \in Seq(Commands \union {Reader})
    /\ commands_to_send \in Seq(Commands)
    /\ wire \in Seq(Commands)
    /\ reading \in Commands \union {None}
    /\ commands_received \in Seq(Commands)
    /\ result \in [Commands -> Commands \union {None}]
    /\ link \in BOOLEAN

Init ==
    /\ pc = [c \in Commands |-> "idle"]
    /\ age = [c \in Commands |-> 0]
    /\ slots = MaxConcurrent
    /\ slotQueue = <<>>
    /\ lockQueue = <<>>
    /\ commands_to_send = <<>>
    /\ wire = <<>>
    /\ reading = None
    /\ commands_received = <<>>
    /\ result = [c \in Commands |-> None]
    /\ link = TRUE

-----------------------------------------------------------------------------
(* The commands.                                                             *)

(* send_command, query: a task reaches `async with self._command_slots`. *)
Submit(c) ==
    /\ pc[c] = "idle"
    /\ pc' = [pc EXCEPT ![c] = "slot"]
    /\ slotQueue' = Append(slotQueue, c)
    /\ UNCHANGED <<age, slots, lockQueue, commands_to_send, wire, reading,
                   commands_received, result, link>>

(* A slot is free: start_time is taken, the string queued for the writer (the *)
(* queue is unbounded, put does not suspend), and replies that are already    *)
(* there are looked at, without the lock.                                     *)
AcquireSlot(c) ==
    /\ pc[c] = "slot"
    /\ slotQueue # <<>> /\ Head(slotQueue) = c
    /\ slots > 0
    /\ slotQueue' = Tail(slotQueue)
    /\ commands_to_send' = Append(commands_to_send, c)
    /\ \/ /\ c \in NoReply
          /\ pc' = [pc EXCEPT ![c] = "sent"]
          /\ UNCHANGED <<slots, lockQueue, commands_received, result>>
       \/ /\ c \notin NoReply
          /\ TakeReply(c)
          /\ pc' = [pc EXCEPT ![c] = "answered"]
          /\ UNCHANGED <<slots, lockQueue>>
       \/ /\ c \notin NoReply
          /\ Matches(c) = {}
          /\ pc' = [pc EXCEPT ![c] = "entering"]
          /\ slots' = slots - 1
          /\ lockQueue' = Append(lockQueue, c)
          /\ UNCHANGED <<commands_received, result>>
    /\ UNCHANGED <<age, wire, reading, link>>

(* It has the lock for the first time and enters the wait.  The list is not   *)
(* looked at again: a reply stored while c was queueing for the lock is not   *)
(* seen before the next notification.  The code asks for the remaining time   *)
(* here too; with the coarse time of Tick there is always some left.          *)
Park(c) ==
    /\ HoldsLock(c)
    /\ pc[c] = "entering"
    /\ lockQueue' = Tail(lockQueue)
    /\ IF Expired(c)
         THEN ReleaseSlot(c, "timeout")
         ELSE pc' = [pc EXCEPT ![c] = "parked"] /\ UNCHANGED slots
    /\ UNCHANGED <<age, slotQueue, commands_to_send, wire, reading,
                   commands_received, result, link>>

(* A woken waiter queues for the lock it must hold when wait() returns. *)
QueueForLock(c) ==
    /\ pc[c] \in {"notified"} \union Leaving
    /\ ~Contains(lockQueue, c)
    /\ lockQueue' = Append(lockQueue, c)
    /\ UNCHANGED <<pc, age, slots, slotQueue, commands_to_send, wire, reading,
                   commands_received, result, link>>

(* Back from wait(): take a reply, give up, or wait for what remains of the   *)
(* timeout.                                                                   *)
Recheck(c) ==
    /\ HoldsLock(c)
    /\ pc[c] = "notified"
    /\ lockQueue' = Tail(lockQueue)
    /\ \/ /\ TakeReply(c)
          /\ ReleaseSlot(c, "answered")
       \/ /\ Matches(c) = {}
          /\ Expired(c)
          /\ ReleaseSlot(c, "timeout")
          /\ UNCHANGED <<commands_received, result>>
       \/ /\ Matches(c) = {}
          /\ ~Expired(c)
          /\ pc' = [pc EXCEPT ![c] = "parked"]
          /\ UNCHANGED <<slots, commands_received, result>>
    /\ UNCHANGED <<age, slotQueue, commands_to_send, wire, reading, link>>

(* Mutant: a bare Condition.wait(), which only wakes when a message arrives. *)
ExpireWhenNotified(c) ==
    /\ pc[c] = "notified"
    /\ Expired(c)
    /\ pc' = [pc EXCEPT ![c] = "expired"]
    /\ lockQueue' = Without(lockQueue, c)
    /\ UNCHANGED <<age, slots, slotQueue, commands_to_send, wire, reading,
                   commands_received, result, link>>

(* The timer of wait_for fires.  It cancels the wait even when a notification *)
(* has already come and only the lock is missing.                             *)
Expire(c) ==
    /\ pc[c] \in Waiting
    /\ Expired(c)
    /\ pc' = [pc EXCEPT ![c] = "expired"]
    /\ lockQueue' = Without(lockQueue, c)
    /\ UNCHANGED <<age, slots, slotQueue, commands_to_send, wire, reading,
                   commands_received, result, link>>

(* The caller's own timeout, query(timeout=...), cancels the task. *)
Cancel(c) ==
    /\ c \in Bounded
    /\ \/ /\ pc[c] = "slot"
          /\ pc' = [pc EXCEPT ![c] = "cancelled"]
          /\ slotQueue' = Without(slotQueue, c)
          /\ UNCHANGED <<slots, lockQueue>>
       \/ /\ pc[c] = "entering"
          /\ ReleaseSlot(c, "cancelled")
          /\ lockQueue' = Without(lockQueue, c)
          /\ UNCHANGED slotQueue
       \/ /\ pc[c] \in Waiting
          /\ pc' = [pc EXCEPT ![c] = "aborting"]
          /\ lockQueue' = Without(lockQueue, c)
          /\ UNCHANGED <<slots, slotQueue>>
    /\ UNCHANGED <<age, commands_to_send, wire, reading, commands_received,
                   result, link>>

(* Mutant: the slot is not released when the command ends with an exception. *)
GiveUpKeepingSlot(c) ==
    /\ HoldsLock(c)
    /\ pc[c] \in Leaving
    /\ lockQueue' = Tail(lockQueue)
    /\ pc' = [pc EXCEPT ![c] = IF pc[c] = "expired" THEN "timeout" ELSE "cancelled"]
    /\ UNCHANGED <<age, slots, slotQueue, commands_to_send, wire, reading,
                   commands_received, result, link>>

(* With the lock back, the exception leaves _send_command_locked: the lock and *)
(* the slot are released, the replies are not looked at again.                 *)
GiveUp(c) ==
    /\ HoldsLock(c)
    /\ pc[c] \in Leaving
    /\ lockQueue' = Tail(lockQueue)
    /\ ReleaseSlot(c, IF pc[c] = "expired" THEN "timeout" ELSE "cancelled")
    /\ UNCHANGED <<age, slotQueue, commands_to_send, wire, reading,
                   commands_received, result, link>>

-----------------------------------------------------------------------------
(* Writer, router and reader.                                                *)

(* The one writer of the one connection: the wire has the order of the queue. *)
WriterSend ==
    /\ link
    /\ commands_to_send # <<>>
    /\ wire' = Append(wire, Head(commands_to_send))
    /\ commands_to_send' = Tail(commands_to_send)
    /\ UNCHANGED <<pc, age, slots, slotQueue, lockQueue, reading,
                   commands_received, result, link>>

(* The router answers in the order it received the commands, but any command   *)
(* may be left without an answer.                                              *)
RouterIgnore ==
    /\ wire # <<>>
    /\ wire' = Tail(wire)
    /\ UNCHANGED <<pc, age, slots, slotQueue, lockQueue, commands_to_send,
                   reading, commands_received, result, link>>

(* A reply line is read and parsed; the reader asks for the lock. *)
ReaderRead ==
    /\ link
    /\ reading = None
    /\ wire # <<>>
    /\ reading' = Head(wire)
    /\ wire' = Tail(wire)
    /\ lockQueue' = Append(lockQueue, Reader)
    /\ UNCHANGED <<pc, age, slots, slotQueue, commands_to_send,
                   commands_received, result, link>>

(* Mutant: notify() instead of notify_all(). *)
StoreNotifyOne ==
    /\ HoldsLock(Reader)
    /\ lockQueue' = Tail(lockQueue)
    /\ commands_received' = Append(commands_received, reading)
    /\ reading' = None
    /\ IF \E c \in Commands : pc[c] = "parked"
         THEN \E c \in Commands : pc[c] = "parked" /\ pc' = [pc EXCEPT ![c] = "notified"]
         ELSE UNCHANGED pc
    /\ UNCHANGED <<age, slots, slotQueue, commands_to_send, wire, result, link>>

(* commands_received.append, notify_all, release. *)
ReaderStore ==
    /\ HoldsLock(Reader)
    /\ lockQueue' = Tail(lockQueue)
    /\ commands_received' = Append(commands_received, reading)
    /\ reading' = None
    /\ pc' = [c \in Commands |-> IF pc[c] = "parked" THEN "notified" ELSE pc[c]]
    /\ UNCHANGED <<age, slots, slotQueue, commands_to_send, wire, result, link>>

(* Mutant: the newest replies are dropped. *)
PruneNewest ==
    /\ Len(commands_received) > MaxUnmatched
    /\ commands_received' = SubSeq(commands_received, 1, MaxUnmatched)
    /\ UNCHANGED <<pc, age, slots, slotQueue, lockQueue, commands_to_send, wire,
                   reading, result, link>>

(* The keepalive drops the oldest unmatched replies. *)
Prune ==
    LET stale == Len(commands_received) - MaxUnmatched IN
    /\ stale > 0
    /\ commands_received' = SubSeq(commands_received, stale + 1, Len(commands_received))
    /\ UNCHANGED <<pc, age, slots, slotQueue, lockQueue, commands_to_send, wire,
                   reading, result, link>>

(* Mutant: a reader cancelled while it waits for the lock stays in its queue. *)
LinkDownKeepingLock ==
    /\ link
    /\ link' = FALSE
    /\ wire' = <<>>
    /\ reading' = None
    /\ UNCHANGED <<pc, age, slots, slotQueue, lockQueue, commands_to_send,
                   commands_received, result>>

(* The connection is lost: what is in transit is lost with it, the reader is   *)
(* cancelled, possibly with a reply in hand; both queues stay as they are.     *)
LinkDown ==
    /\ link
    /\ link' = FALSE
    /\ wire' = <<>>
    /\ reading' = None
    /\ lockQueue' = Without(lockQueue, Reader)
    /\ UNCHANGED <<pc, age, slots, slotQueue, commands_to_send,
                   commands_received, result>>

LinkUp ==
    /\ ~link
    /\ link' = TRUE
    /\ UNCHANGED <<pc, age, slots, slotQueue, lockQueue, commands_to_send, wire,
                   reading, commands_received, result>>

(* Time is coarse (a tick is a large part of the 30 second timeout): before it *)
(* passes, the event loop has run every callback that is ready and every timer *)
(* that is due.  Writer, router, reader and connection may be arbitrarily slow. *)
Tick ==
    /\ Holders # {}
    /\ \A c \in Holders : pc[c] = "parked" /\ ~Expired(c)
    /\ age' = [c \in Commands |-> IF c \in Holders THEN age[c] + 1 ELSE age[c]]
    /\ UNCHANGED <<pc, slots, slotQueue, lockQueue, commands_to_send, wire,
                   reading, commands_received, result, link>>

-----------------------------------------------------------------------------
CommandStep(c) ==
    \/ AcquireSlot(c) \/ Park(c) \/ QueueForLock(c) \/ Recheck(c)
    \/ Expire(c) \/ GiveUp(c)

Next ==
    \/ \E c \in Commands : Submit(c) \/ CommandStep(c) \/ Cancel(c)
    \/ WriterSend \/ RouterIgnore \/ ReaderRead \/ ReaderStore
    \/ Prune \/ LinkDown \/ LinkUp \/ Tick

(* The event loop runs ready coroutines and due timers, and time passes.       *)
(* Nothing is assumed of the router, of the connection or of the callers.      *)
Fairness ==
    /\ \A c \in Commands : WF_vars(CommandStep(c))
    /\ WF_vars(ReaderStore)
    /\ WF_vars(Tick)

Spec == Init /\ [][Next]_vars /\ Fairness

-----------------------------------------------------------------------------
(* A slot is never leaked and never released twice: the semaphore's value and  *)
(* the commands in flight always add up, on every way out of                   *)
(* _send_command_locked (reply, error, timeout at three places, cancellation). *)
SlotsAccounted == slots + Cardinality(Holders) = MaxConcurrent

(* Two commands never return the same reply, not even two identical ones whose *)
(* replies the code cannot tell apart: taking a reply removes it.              *)
ReplyUsedOnce ==
    \A c, d \in Commands : c # d /\ result[c] # None => result[c] # result[d]

(* A waiter is never asleep while its own reply is in the list: though the     *)
(* list is first checked without the lock and not again on entering the wait,  *)
(* the lock's FIFO order and notify_all see to it.                             *)
NoLostWakeup ==
    \A c \in Commands : pc[c] = "parked" => ~Contains(commands_received, c)

(* The lock of command_received is only ever held by a task that will release   *)
(* it: the reader of the live connection with a reply in hand, or a command that *)
(* runs; never a cancelled reader, a finished command or a sleeping waiter.      *)
LockHeldByRunningTask ==
    lockQueue # <<>> =>
        \/ HoldsLock(Reader) /\ reading # None /\ link
        \/ \E c \in Commands : HoldsLock(c) /\ pc[c] \in InFlight \ {"parked"}

(* Replies that wait for nobody: their commands were cancelled, do not listen,  *)
(* or were answered by another reply with their key.                            *)
Orphans == {c \in Commands : pc[c] \in {"cancelled", "aborting", "sent", "answered"}}

(* router.py:45-46, "far above the in-flight limit": the limit is 4, the list  *)
(* keeps 32.  It takes twice the limit to keep what may come in while a waiter   *)
(* that was notified has yet to run.                                            *)
KeepsEnough == MaxUnmatched >= 2 * MaxConcurrent - 1

(* Pruning never drops the reply of a command that is still waiting for it:     *)
(* "far above the in-flight limit, so replies that are just slow still get       *)
(* matched" (router.py:45-46).  It could, if orphans filled the list; timeouts   *)
(* alone cannot.                                                                *)
PruneSparesAwaited ==
    [][Prune /\ Range(commands_received) \intersect Orphans = {} =>
        \A c \in Commands :
            Contains(commands_received, c) /\ pc[c] \in InFlight \ Leaving
                => Contains(commands_received', c)]_vars

(* Every command ends: with a reply, a timeout or its caller's cancellation,   *)
(* whatever the router and the connection do.  Commands are issued once each   *)
(* and stay ended: from some time on, none is under way.                        *)
EveryCommandEnds ==
    <>[](\A c \in Commands : pc[c] \in Final \union {"idle"})

(* router.py:524-525: "the response timeout starts once the command is actually  *)
(* sent".  Then a command that timed out is no longer in the writer's queue.     *)
TimeoutOnlyAfterSent ==
    \A c \in Commands : pc[c] = "timeout" => ~Contains(commands_to_send, c)

(* What has become of the call, as its caller sees it. *)
Status == [c \in Commands |-> CASE pc[c] = "idle" -> "new"
                                [] pc[c] \in Final -> pc[c]
                                [] OTHER -> "pending"]

(* Router's promise to its callers: the engine implements RequestReply.         *)
Promise == INSTANCE RequestReply WITH
    Requests <- Commands, status <- Status, answer <- result

(* Whatever slots, lock, timers, lost connections and late replies do, a caller  *)
(* sees its request end once, with a reply of its own key or without one.        *)
KeepsPromise == Promise!Spec
=============================================================================
