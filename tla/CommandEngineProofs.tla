------------------------- MODULE CommandEngineProofs -------------------------
(***************************************************************************)
(* CommandEngine for every set of commands, every number of slots and      *)
(* every timeout: types, the slot accounting, and who may hold the lock of  *)
(* command_received.                                                        *)
(*                                                                         *)
(* TypeOK is not inductive alone: that a released slot leaves the semaphore *)
(* within 0..MaxConcurrent needs the accounting, and that the reader stores *)
(* a command needs to know that a reader in the lock's queue has a reply in *)
(* hand, which in turn needs that it is in the queue once.                  *)
(***************************************************************************)
EXTENDS CommandEngine, QueueLemmas, FiniteSetTheorems

(* Who is in the lock's queue. *)
LockInv ==
    /\ Distinct(lockQueue)
    /\ \A c \in Commands : Contains(lockQueue, c) => pc[c] \in InFlight \ {"parked"}
    /\ Contains(lockQueue, Reader) => reading # None
    /\ reading # None => link

IInv == TypeOK /\ SlotsAccounted /\ LockInv

USE DEF PCs, InFlight, Waiting, Leaving, Final

-----------------------------------------------------------------------------
LEMMA HoldersFinite ==
    /\ IsFiniteSet(Holders)
    /\ Cardinality(Holders) \in Nat
BY CommandsAssumption, FS_Subset, FS_CardinalityType DEF Holders

(* A step of one command that neither takes nor releases a slot. *)
LEMMA HoldersSame ==
    ASSUME TypeOK, NEW c \in Commands, NEW x,
           pc' = [pc EXCEPT ![c] = x],
           pc[c] \in InFlight <=> x \in InFlight
    PROVE  Holders' = Holders
BY DEF TypeOK, Holders

(* A command takes a slot. *)
LEMMA HoldersTake ==
    ASSUME TypeOK, SlotsAccounted, NEW c \in Commands, NEW x \in InFlight,
           pc' = [pc EXCEPT ![c] = x], pc[c] \notin InFlight,
           slots > 0, slots' = slots - 1
    PROVE  slots' \in 0..MaxConcurrent /\ SlotsAccounted'
<1>1. Holders' = Holders \union {c} /\ c \notin Holders
    BY DEF TypeOK, Holders
<1>2. Cardinality(Holders') = Cardinality(Holders) + 1
    BY <1>1, HoldersFinite, FS_AddElement
<1> QED
    BY <1>2, HoldersFinite, BoundsAssumption DEF TypeOK, SlotsAccounted

(* A command releases its slot, however it ended. *)
LEMMA HoldersRelease ==
    ASSUME TypeOK, SlotsAccounted, NEW c \in Commands, NEW x \in Final,
           ReleaseSlot(c, x), pc[c] \in InFlight
    PROVE  /\ pc' \in [Commands -> PCs]
           /\ slots' \in 0..MaxConcurrent
           /\ SlotsAccounted'
<1>1. Holders' = Holders \ {c} /\ c \in Holders
    BY DEF TypeOK, Holders, ReleaseSlot
<1>2. /\ Cardinality(Holders') = Cardinality(Holders) - 1
      /\ Cardinality(Holders') \in Nat
    BY <1>1, HoldersFinite, FS_RemoveElement, FS_CardinalityType
<1>3. pc' \in [Commands -> PCs]
    BY DEF TypeOK, ReleaseSlot
<1> QED
    BY <1>2, <1>3, HoldersFinite, BoundsAssumption DEF TypeOK, SlotsAccounted, ReleaseSlot

(* Taking a reply keeps the types of the list and of the results. *)
LEMMA TakeReplyType ==
    ASSUME TypeOK, NEW c \in Commands, TakeReply(c)
    PROVE  /\ commands_received' \in Seq(Commands)
           /\ result' \in [Commands -> Commands \union {None}]
<1>1. PICK i \in Matches(c) :
        /\ result' = [result EXCEPT ![c] = commands_received[i]]
        /\ commands_received' = RemoveAt(commands_received, i)
    BY DEF TakeReply
<1>2. i \in 1..Len(commands_received) /\ commands_received \in Seq(Commands)
    BY <1>1 DEF Matches, TypeOK
<1>3. commands_received[i] \in Commands
    BY <1>2, ElementOfSeq
<1> QED
    BY <1>1, <1>2, <1>3, RemoveAtProperties DEF TypeOK

(* The holder of the lock leaves its queue. *)
LEMMA LockReleased ==
    ASSUME TypeOK, LockInv, NEW p, HoldsLock(p), lockQueue' = Tail(lockQueue)
    PROVE  /\ lockQueue' \in Seq(Commands \union {Reader})
           /\ Distinct(lockQueue')
           /\ Contains(lockQueue, p)
           /\ ~Contains(lockQueue', p)
           /\ \A x : Contains(lockQueue', x) => Contains(lockQueue, x)
BY QueueTail DEF TypeOK, LockInv, HoldsLock

(* A task joins the lock's queue. *)
LEMMA LockRequested ==
    ASSUME TypeOK, LockInv, NEW p \in Commands \union {Reader},
           ~Contains(lockQueue, p), lockQueue' = Append(lockQueue, p)
    PROVE  /\ lockQueue' \in Seq(Commands \union {Reader})
           /\ Distinct(lockQueue')
           /\ \A x : Contains(lockQueue', x) <=> Contains(lockQueue, x) \/ x = p
BY QueueAppend DEF TypeOK, LockInv

(* A cancelled task leaves the lock's queue. *)
LEMMA LockAbandoned ==
    ASSUME TypeOK, LockInv, NEW p, lockQueue' = Without(lockQueue, p)
    PROVE  /\ lockQueue' \in Seq(Commands \union {Reader})
           /\ Distinct(lockQueue')
           /\ ~Contains(lockQueue', p)
           /\ \A x : Contains(lockQueue', x) => Contains(lockQueue, x)
BY QueueWithout DEF TypeOK, LockInv

-----------------------------------------------------------------------------
LEMMA InitIInv == Init => IInv
<1> SUFFICES ASSUME Init PROVE IInv
    OBVIOUS
<1>1. TypeOK
    BY BoundsAssumption, EmptySeq DEF Init, TypeOK
<1>2. Holders = {}
    BY DEF Init, Holders
<1>3. SlotsAccounted
    BY <1>2, FS_EmptySet, BoundsAssumption DEF Init, SlotsAccounted
<1>4. LockInv
    BY DEF Init, LockInv, Distinct, Contains
<1> QED
    BY <1>1, <1>3, <1>4 DEF IInv

LEMMA SubmitIInv ==
    ASSUME IInv, NEW c \in Commands, Submit(c)
    PROVE  IInv'
<1>1. TypeOK'
    BY QueueAppend DEF IInv, TypeOK, Submit
<1>2. Holders' = Holders
    BY HoldersSame DEF IInv, Submit
<1>3. SlotsAccounted'
    BY <1>2 DEF IInv, SlotsAccounted, Submit
<1>4. LockInv'
    BY DEF IInv, TypeOK, LockInv, Submit, Distinct, Contains
<1> QED
    BY <1>1, <1>3, <1>4 DEF IInv

LEMMA AcquireSlotIInv ==
    ASSUME IInv, NEW c \in Commands, AcquireSlot(c)
    PROVE  IInv'
<1>1. /\ slotQueue' \in Seq(Commands)
      /\ commands_to_send' \in Seq(Commands)
    BY QueueTail, QueueAppend DEF IInv, TypeOK, AcquireSlot
<1>2. ~Contains(lockQueue, c)
    BY DEF IInv, LockInv, AcquireSlot
<1>3. CASE c \in NoReply /\ pc' = [pc EXCEPT ![c] = "sent"]
             /\ UNCHANGED <<slots, lockQueue, commands_received, result>>
  <2>1. TypeOK'
    BY <1>1, <1>3 DEF IInv, TypeOK, AcquireSlot
  <2>2. Holders' = Holders
    BY <1>3, HoldersSame DEF IInv, AcquireSlot
  <2>3. LockInv'
    BY <1>2, <1>3 DEF IInv, TypeOK, LockInv, AcquireSlot, Distinct, Contains
  <2> QED
    BY <1>3, <2>1, <2>2, <2>3 DEF IInv, SlotsAccounted
<1>4. CASE TakeReply(c) /\ pc' = [pc EXCEPT ![c] = "answered"]
             /\ UNCHANGED <<slots, lockQueue>>
  <2>1. TypeOK'
    BY <1>1, <1>4, TakeReplyType DEF IInv, TypeOK, AcquireSlot
  <2>2. Holders' = Holders
    BY <1>4, HoldersSame DEF IInv, AcquireSlot
  <2>3. LockInv'
    BY <1>2, <1>4 DEF IInv, TypeOK, LockInv, AcquireSlot, Distinct, Contains
  <2> QED
    BY <1>4, <2>1, <2>2, <2>3 DEF IInv, SlotsAccounted
<1>5. CASE pc' = [pc EXCEPT ![c] = "entering"] /\ slots' = slots - 1
             /\ lockQueue' = Append(lockQueue, c)
             /\ UNCHANGED <<commands_received, result>>
  <2>1. slots' \in 0..MaxConcurrent /\ SlotsAccounted'
    BY <1>5, HoldersTake DEF IInv, AcquireSlot
  <2>2. /\ lockQueue' \in Seq(Commands \union {Reader})
        /\ Distinct(lockQueue')
        /\ \A x : Contains(lockQueue', x) <=> Contains(lockQueue, x) \/ x = c
    BY <1>2, <1>5, LockRequested DEF IInv
  <2>3. TypeOK'
    BY <1>1, <1>5, <2>1, <2>2 DEF IInv, TypeOK, AcquireSlot
  <2>4. LockInv'
    BY <1>5, <2>2, CommandsAssumption DEF IInv, TypeOK, LockInv, AcquireSlot
  <2> QED
    BY <2>1, <2>3, <2>4 DEF IInv
<1> QED
    BY <1>3, <1>4, <1>5 DEF AcquireSlot

LEMMA ParkIInv ==
    ASSUME IInv, NEW c \in Commands, Park(c)
    PROVE  IInv'
<1>1. /\ lockQueue' \in Seq(Commands \union {Reader})
      /\ Distinct(lockQueue')
      /\ ~Contains(lockQueue', c)
      /\ \A x : Contains(lockQueue', x) => Contains(lockQueue, x)
    BY LockReleased DEF IInv, Park
<1>2. CASE Expired(c)
  <2>1. pc' \in [Commands -> PCs] /\ slots' \in 0..MaxConcurrent /\ SlotsAccounted'
    BY <1>2, HoldersRelease DEF IInv, Park
  <2>2. TypeOK'
    BY <1>1, <2>1 DEF IInv, TypeOK, Park
  <2>3. LockInv'
    BY <1>1, <1>2 DEF IInv, TypeOK, LockInv, Park, ReleaseSlot
  <2> QED
    BY <2>1, <2>2, <2>3 DEF IInv
<1>3. CASE ~Expired(c)
  <2>1. TypeOK'
    BY <1>1, <1>3 DEF IInv, TypeOK, Park
  <2>2. Holders' = Holders
    BY <1>3, HoldersSame DEF IInv, Park
  <2>3. LockInv'
    BY <1>1, <1>3 DEF IInv, TypeOK, LockInv, Park
  <2> QED
    BY <1>3, <2>1, <2>2, <2>3 DEF IInv, SlotsAccounted, Park
<1> QED
    BY <1>2, <1>3

LEMMA QueueForLockIInv ==
    ASSUME IInv, NEW c \in Commands, QueueForLock(c)
    PROVE  IInv'
<1>1. /\ lockQueue' \in Seq(Commands \union {Reader})
      /\ Distinct(lockQueue')
      /\ \A x : Contains(lockQueue', x) <=> Contains(lockQueue, x) \/ x = c
    BY LockRequested DEF IInv, QueueForLock
<1>2. TypeOK'
    BY <1>1 DEF IInv, TypeOK, QueueForLock
<1>3. SlotsAccounted'
    BY DEF IInv, SlotsAccounted, Holders, QueueForLock
<1>4. LockInv'
    BY <1>1, CommandsAssumption DEF IInv, LockInv, QueueForLock
<1> QED
    BY <1>2, <1>3, <1>4 DEF IInv

LEMMA RecheckIInv ==
    ASSUME IInv, NEW c \in Commands, Recheck(c)
    PROVE  IInv'
<1>1. /\ lockQueue' \in Seq(Commands \union {Reader})
      /\ Distinct(lockQueue')
      /\ ~Contains(lockQueue', c)
      /\ \A x : Contains(lockQueue', x) => Contains(lockQueue, x)
    BY LockReleased DEF IInv, Recheck
<1>2. /\ commands_received' \in Seq(Commands)
      /\ result' \in [Commands -> Commands \union {None}]
    BY TakeReplyType DEF IInv, TypeOK, Recheck
<1>3. ASSUME NEW x \in {"answered", "timeout"}, ReleaseSlot(c, x)
      PROVE  IInv'
  <2>1. pc' \in [Commands -> PCs] /\ slots' \in 0..MaxConcurrent /\ SlotsAccounted'
    BY <1>3, HoldersRelease DEF IInv, Recheck
  <2>2. TypeOK'
    BY <1>1, <1>2, <2>1 DEF IInv, TypeOK, Recheck
  <2>3. LockInv'
    BY <1>1, <1>3 DEF IInv, TypeOK, LockInv, Recheck, ReleaseSlot
  <2> QED
    BY <2>1, <2>2, <2>3 DEF IInv
<1>4. CASE pc' = [pc EXCEPT ![c] = "parked"] /\ UNCHANGED slots
  <2>1. TypeOK'
    BY <1>1, <1>2, <1>4 DEF IInv, TypeOK, Recheck
  <2>2. Holders' = Holders
    BY <1>4, HoldersSame DEF IInv, Recheck
  <2>3. LockInv'
    BY <1>1, <1>4 DEF IInv, TypeOK, LockInv, Recheck
  <2> QED
    BY <1>4, <2>1, <2>2, <2>3 DEF IInv, SlotsAccounted
<1> QED
    BY <1>3, <1>4 DEF Recheck

LEMMA ExpireIInv ==
    ASSUME IInv, NEW c \in Commands, Expire(c)
    PROVE  IInv'
<1>1. /\ lockQueue' \in Seq(Commands \union {Reader})
      /\ Distinct(lockQueue')
      /\ ~Contains(lockQueue', c)
      /\ \A x : Contains(lockQueue', x) => Contains(lockQueue, x)
    BY LockAbandoned DEF IInv, Expire
<1>2. TypeOK'
    BY <1>1 DEF IInv, TypeOK, Expire
<1>3. Holders' = Holders
    BY HoldersSame DEF IInv, Expire
<1>4. LockInv'
    BY <1>1 DEF IInv, TypeOK, LockInv, Expire
<1> QED
    BY <1>2, <1>3, <1>4 DEF IInv, SlotsAccounted, Expire

LEMMA CancelIInv ==
    ASSUME IInv, NEW c \in Commands, Cancel(c)
    PROVE  IInv'
<1>1. CASE pc[c] = "slot" /\ pc' = [pc EXCEPT ![c] = "cancelled"]
             /\ slotQueue' = Without(slotQueue, c) /\ UNCHANGED <<slots, lockQueue>>
  <2>1. TypeOK'
    BY <1>1, QueueWithout DEF IInv, TypeOK, Cancel
  <2>2. Holders' = Holders
    BY <1>1, HoldersSame DEF IInv
  <2>3. LockInv'
    BY <1>1 DEF IInv, TypeOK, LockInv, Cancel, Distinct, Contains
  <2> QED
    BY <1>1, <2>1, <2>2, <2>3 DEF IInv, SlotsAccounted
<1>2. ASSUME lockQueue' = Without(lockQueue, c)
      PROVE  /\ lockQueue' \in Seq(Commands \union {Reader})
             /\ Distinct(lockQueue')
             /\ ~Contains(lockQueue', c)
             /\ \A x : Contains(lockQueue', x) => Contains(lockQueue, x)
    BY <1>2, LockAbandoned DEF IInv
<1>3. CASE pc[c] = "entering" /\ ReleaseSlot(c, "cancelled")
             /\ lockQueue' = Without(lockQueue, c) /\ UNCHANGED slotQueue
  <2>1. pc' \in [Commands -> PCs] /\ slots' \in 0..MaxConcurrent /\ SlotsAccounted'
    BY <1>3, HoldersRelease DEF IInv
  <2>2. TypeOK'
    BY <1>2, <1>3, <2>1 DEF IInv, TypeOK, Cancel
  <2>3. LockInv'
    BY <1>2, <1>3 DEF IInv, TypeOK, LockInv, Cancel, ReleaseSlot
  <2> QED
    BY <2>1, <2>2, <2>3 DEF IInv
<1>4. CASE pc[c] \in Waiting /\ pc' = [pc EXCEPT ![c] = "aborting"]
             /\ lockQueue' = Without(lockQueue, c) /\ UNCHANGED <<slots, slotQueue>>
  <2>1. TypeOK'
    BY <1>2, <1>4 DEF IInv, TypeOK, Cancel
  <2>2. Holders' = Holders
    BY <1>4, HoldersSame DEF IInv
  <2>3. LockInv'
    BY <1>2, <1>4 DEF IInv, TypeOK, LockInv, Cancel
  <2> QED
    BY <1>4, <2>1, <2>2, <2>3 DEF IInv, SlotsAccounted
<1> QED
    BY <1>1, <1>3, <1>4 DEF Cancel

LEMMA GiveUpIInv ==
    ASSUME IInv, NEW c \in Commands, GiveUp(c)
    PROVE  IInv'
<1> DEFINE x == IF pc[c] = "expired" THEN "timeout" ELSE "cancelled"
<1>1. /\ lockQueue' \in Seq(Commands \union {Reader})
      /\ Distinct(lockQueue')
      /\ ~Contains(lockQueue', c)
      /\ \A y : Contains(lockQueue', y) => Contains(lockQueue, y)
    BY LockReleased DEF IInv, GiveUp
<1>2. x \in Final /\ ReleaseSlot(c, x)
    BY DEF GiveUp
<1>3. pc' \in [Commands -> PCs] /\ slots' \in 0..MaxConcurrent /\ SlotsAccounted'
    BY <1>2, HoldersRelease DEF IInv, GiveUp
<1>4. TypeOK'
    BY <1>1, <1>3 DEF IInv, TypeOK, GiveUp
<1>5. LockInv'
    BY <1>1, <1>2 DEF IInv, TypeOK, LockInv, GiveUp, ReleaseSlot
<1> QED
    BY <1>3, <1>4, <1>5 DEF IInv

LEMMA WriterSendIInv == ASSUME IInv, WriterSend PROVE IInv'
<1>1. TypeOK'
    BY QueueTail, QueueAppend DEF IInv, TypeOK, WriterSend
<1>2. SlotsAccounted'
    BY DEF IInv, SlotsAccounted, Holders, WriterSend
<1>3. LockInv'
    BY DEF IInv, LockInv, WriterSend, Distinct, Contains
<1> QED
    BY <1>1, <1>2, <1>3 DEF IInv

LEMMA RouterIgnoreIInv == ASSUME IInv, RouterIgnore PROVE IInv'
<1>1. TypeOK'
    BY QueueTail DEF IInv, TypeOK, RouterIgnore
<1>2. SlotsAccounted'
    BY DEF IInv, SlotsAccounted, Holders, RouterIgnore
<1>3. LockInv'
    BY DEF IInv, LockInv, RouterIgnore, Distinct, Contains
<1> QED
    BY <1>1, <1>2, <1>3 DEF IInv

LEMMA ReaderReadIInv == ASSUME IInv, ReaderRead PROVE IInv'
<1>1. /\ lockQueue' \in Seq(Commands \union {Reader})
      /\ Distinct(lockQueue')
      /\ \A x : Contains(lockQueue', x) <=> Contains(lockQueue, x) \/ x = Reader
    BY LockRequested DEF IInv, LockInv, ReaderRead
<1>2. Head(wire) \in Commands /\ Tail(wire) \in Seq(Commands)
    BY QueueTail DEF IInv, TypeOK, ReaderRead
<1>3. TypeOK'
    BY <1>1, <1>2 DEF IInv, TypeOK, ReaderRead
<1>4. SlotsAccounted'
    BY DEF IInv, SlotsAccounted, Holders, ReaderRead
<1>5. LockInv'
    BY <1>1, <1>2, CommandsAssumption DEF IInv, LockInv, ReaderRead
<1> QED
    BY <1>3, <1>4, <1>5 DEF IInv

LEMMA ReaderStoreIInv == ASSUME IInv, ReaderStore PROVE IInv'
<1>1. /\ lockQueue' \in Seq(Commands \union {Reader})
      /\ Distinct(lockQueue')
      /\ Contains(lockQueue, Reader)
      /\ ~Contains(lockQueue', Reader)
      /\ \A x : Contains(lockQueue', x) => Contains(lockQueue, x)
    BY LockReleased DEF IInv, ReaderStore
<1>2. reading \in Commands
    BY <1>1 DEF IInv, TypeOK, LockInv
<1>3. commands_received' \in Seq(Commands)
    BY <1>2, QueueAppend DEF IInv, TypeOK, ReaderStore
<1>4. TypeOK'
    BY <1>1, <1>3 DEF IInv, TypeOK, ReaderStore
<1>5. Holders' = Holders
    BY DEF IInv, TypeOK, Holders, ReaderStore
<1>6. LockInv'
    BY <1>1 DEF IInv, TypeOK, LockInv, ReaderStore
<1> QED
    BY <1>4, <1>5, <1>6 DEF IInv, SlotsAccounted, ReaderStore

LEMMA PruneIInv == ASSUME IInv, Prune PROVE IInv'
<1> DEFINE stale == Len(commands_received) - MaxUnmatched
<1>1. /\ stale \in Nat
      /\ commands_received' = SubSeq(commands_received, stale + 1, Len(commands_received))
    BY LenProperties, BoundsAssumption DEF IInv, TypeOK, Prune
<1>2. commands_received' \in Seq(Commands)
    BY <1>1, SubSeqProperties, LenProperties DEF IInv, TypeOK
<1>3. TypeOK'
    BY <1>2 DEF IInv, TypeOK, Prune
<1>4. SlotsAccounted'
    BY DEF IInv, SlotsAccounted, Holders, Prune
<1>5. LockInv'
    BY DEF IInv, LockInv, Prune, Distinct, Contains
<1> QED
    BY <1>3, <1>4, <1>5 DEF IInv

LEMMA LinkDownIInv == ASSUME IInv, LinkDown PROVE IInv'
<1>1. /\ lockQueue' \in Seq(Commands \union {Reader})
      /\ Distinct(lockQueue')
      /\ ~Contains(lockQueue', Reader)
      /\ \A x : Contains(lockQueue', x) => Contains(lockQueue, x)
    BY LockAbandoned DEF IInv, LinkDown
<1>2. TypeOK'
    BY <1>1, EmptySeq DEF IInv, TypeOK, LinkDown
<1>3. SlotsAccounted'
    BY DEF IInv, SlotsAccounted, Holders, LinkDown
<1>4. LockInv'
    BY <1>1 DEF IInv, LockInv, LinkDown
<1> QED
    BY <1>2, <1>3, <1>4 DEF IInv

LEMMA LinkUpIInv == ASSUME IInv, LinkUp PROVE IInv'
BY DEF IInv, TypeOK, SlotsAccounted, Holders, LockInv, LinkUp, Distinct, Contains

LEMMA TickIInv == ASSUME IInv, Tick PROVE IInv'
<1>1. age' \in [Commands -> 0..ResponseTimeout]
    BY BoundsAssumption DEF IInv, TypeOK, Tick, Holders, Expired
<1>2. TypeOK'
    BY <1>1 DEF IInv, TypeOK, Tick
<1>3. SlotsAccounted'
    BY DEF IInv, SlotsAccounted, Holders, Tick
<1>4. LockInv'
    BY DEF IInv, LockInv, Tick, Distinct, Contains
<1> QED
    BY <1>2, <1>3, <1>4 DEF IInv

LEMMA StutterIInv == ASSUME IInv, UNCHANGED vars PROVE IInv'
BY DEF IInv, TypeOK, SlotsAccounted, Holders, LockInv, vars, Distinct, Contains

LEMMA NextIInv == IInv /\ [Next]_vars => IInv'
<1> SUFFICES ASSUME IInv, [Next]_vars PROVE IInv'
    OBVIOUS
<1>1. ASSUME NEW c \in Commands, Submit(c) \/ CommandStep(c) \/ Cancel(c)
      PROVE  IInv'
    BY <1>1, SubmitIInv, AcquireSlotIInv, ParkIInv, QueueForLockIInv, RecheckIInv,
       ExpireIInv, GiveUpIInv, CancelIInv DEF CommandStep
<1> QED
    BY <1>1, WriterSendIInv, RouterIgnoreIInv, ReaderReadIInv, ReaderStoreIInv,
       PruneIInv, LinkDownIInv, LinkUpIInv, TickIInv, StutterIInv DEF Next

THEOREM Invariant == Spec => []IInv
<1> QED
    BY InitIInv, NextIInv, PTL DEF Spec

-----------------------------------------------------------------------------
(* Every variable keeps its type; in particular the semaphore's value stays in *)
(* 0..MaxConcurrent and the reader never stores anything but a reply.          *)
THEOREM TypeCorrect == Spec => []TypeOK
<1>1. IInv => TypeOK
    BY DEF IInv
<1> QED
    BY <1>1, Invariant, PTL

(* However commands end, slots are neither leaked nor released twice: at most  *)
(* MaxConcurrent commands are in flight and every slot comes back.             *)
THEOREM SlotsNeverLeak == Spec => []SlotsAccounted
<1>1. IInv => SlotsAccounted
    BY DEF IInv
<1> QED
    BY <1>1, Invariant, PTL

(* The lock is never held by a cancelled reader, a finished command or a       *)
(* sleeping waiter.                                                            *)
THEOREM LockHolder == Spec => []LockHeldByRunningTask
<1>1. IInv => LockHeldByRunningTask
  <2> SUFFICES ASSUME IInv, lockQueue # <<>>
               PROVE  \/ HoldsLock(Reader) /\ reading # None /\ link
                      \/ \E c \in Commands : HoldsLock(c) /\ pc[c] \in InFlight \ {"parked"}
    BY DEF LockHeldByRunningTask
  <2>1. Head(lockQueue) \in Commands \union {Reader} /\ Contains(lockQueue, Head(lockQueue))
    BY QueueTail DEF IInv, TypeOK
  <2> QED
    BY <2>1 DEF IInv, LockInv, HoldsLock
<1> QED
    BY <1>1, Invariant, PTL
=============================================================================
