------------------------ MODULE CommandEngineRefinement ------------------------
(***************************************************************************)
(* No reply is used twice, the engine implements RequestReply, no command     *)
(* sleeps while its own reply is in commands_received, and pruning drops none   *)
(* that is waited for, for any commands, keys, number of slots and timeout.   *)
(*                                                                         *)
(* None is inductive.  That the reply a command takes was given to no one *)
(* before needs that a command, and then its reply, is at one place only on   *)
(* its way from commands_to_send over the wire and the reader to             *)
(* commands_received and to the result of a call (PlaceInv).                *)
(* What pruning drops rests on the order on that way (OrderInv).             *)
(***************************************************************************)
EXTENDS CommandEngineProofs

(* Command d, or the reply to it, is with the writer, in transit, with the      *)
(* reader, in the list of replies, or returned by a call.                      *)
Queued(d) == Contains(commands_to_send, d)
InTransit(d) == Contains(wire, d)
Parsed(d) == reading = d
Kept(d) == Contains(commands_received, d)
Taken(d) == \E c \in Commands : result[c] = d

(* One place at a time, and none before the command has a slot. *)
OnePlace(d) ==
    /\ Queued(d) => ~InTransit(d) /\ ~Parsed(d) /\ ~Kept(d) /\ ~Taken(d)
    /\ InTransit(d) => ~Parsed(d) /\ ~Kept(d) /\ ~Taken(d)
    /\ Parsed(d) => ~Kept(d) /\ ~Taken(d)
    /\ Kept(d) => ~Taken(d)
    /\ pc[d] \in {"idle", "slot"} =>
            ~Queued(d) /\ ~InTransit(d) /\ ~Parsed(d) /\ ~Kept(d) /\ ~Taken(d)

PlaceInv ==
    /\ Distinct(commands_to_send) /\ Distinct(wire) /\ Distinct(commands_received)
    /\ \A d \in Commands : OnePlace(d)
    /\ ReplyUsedOnce

(* Only commands that expect a reply wait, and only their callers cancel them. *)
ListenInv ==
    \A c \in Commands :
        /\ pc[c] \in InFlight => c \notin NoReply
        /\ pc[c] = "aborting" => c \in Bounded

RInv == IInv /\ PlaceInv /\ ListenInv

USE DEF PCs, InFlight, Waiting, Leaving, Final

-----------------------------------------------------------------------------
(* What TakeReply does: the reply leaves the list for the result of the call. *)
LEMMA TakeReplyMoves ==
    ASSUME RInv, NEW c \in Commands, TakeReply(c)
    PROVE  \E d \in Commands :
            /\ Key[d] = Key[c]
            /\ Kept(d)
            /\ result' = [result EXCEPT ![c] = d]
            /\ ~Contains(commands_received', d)
            /\ \A x : Contains(commands_received', x) => Kept(x)
            /\ Distinct(commands_received')
<1>1. PICK i \in Matches(c) :
        /\ result' = [result EXCEPT ![c] = commands_received[i]]
        /\ commands_received' = RemoveAt(commands_received, i)
    BY DEF TakeReply
<1>2. /\ i \in 1..Len(commands_received)
      /\ Key[commands_received[i]] = Key[c]
      /\ commands_received \in Seq(Commands)
    BY <1>1 DEF Matches, RInv, IInv, TypeOK
<1>3. commands_received[i] \in Commands /\ Kept(commands_received[i])
    BY <1>2, ElementOfSeq DEF Kept, Contains
<1>4. /\ ~Contains(commands_received', commands_received[i])
      /\ \A x : Contains(commands_received', x) => Kept(x)
      /\ Distinct(commands_received')
    BY <1>1, <1>2, QueueRemoveAt DEF RInv, PlaceInv, Kept
<1> QED
    BY <1>1, <1>2, <1>3, <1>4

(* Taking a reply keeps the places, whatever else the command does. *)
LEMMA TakeReplyPlaces ==
    ASSUME RInv, NEW c \in Commands, TakeReply(c), NEW x \in Final,
           pc' = [pc EXCEPT ![c] = x],
           pc[c] # "slot" => UNCHANGED commands_to_send,
           pc[c] = "slot" => commands_to_send' = Append(commands_to_send, c),
           pc[c] # "idle",
           UNCHANGED <<wire, reading>>
    PROVE  PlaceInv'
<1>1. PICK d \in Commands :
        /\ Kept(d)
        /\ result' = [result EXCEPT ![c] = d]
        /\ ~Contains(commands_received', d)
        /\ \A y : Contains(commands_received', y) => Kept(y)
        /\ Distinct(commands_received')
    BY TakeReplyMoves
<1>2. /\ Distinct(commands_to_send')
      /\ \A y : Contains(commands_to_send', y) => Queued(y) \/ (y = c /\ pc[c] = "slot")
  <2>1. CASE pc[c] = "slot"
    <3>1. ~Queued(c)
      BY <2>1 DEF RInv, PlaceInv, OnePlace
    <3>2. commands_to_send \in Seq(Commands) /\ Distinct(commands_to_send)
      BY DEF RInv, IInv, TypeOK, PlaceInv
    <3>3. /\ Distinct(Append(commands_to_send, c))
          /\ \A y : Contains(Append(commands_to_send, c), y) <=> Contains(commands_to_send, y) \/ y = c
      BY <3>1, <3>2, QueueAppend DEF Queued
    <3> QED
      BY <2>1, <3>3 DEF Queued
  <2>2. CASE pc[c] # "slot"
    BY <2>2 DEF RInv, PlaceInv, Queued
  <2> QED
    BY <2>1, <2>2
<1>3. \A y \in Commands : (\E e \in Commands : result'[e] = y) => Taken(y) \/ y = d
    BY <1>1 DEF RInv, IInv, TypeOK, Taken
<1>4. ASSUME NEW y \in Commands PROVE OnePlace(y)'
  <2>1. pc'[y] \in {"idle", "slot"} => pc[y] \in {"idle", "slot"} /\ y # c
    BY DEF RInv, IInv, TypeOK
  <2>2. OnePlace(y) /\ OnePlace(c) /\ OnePlace(d)
    BY DEF RInv, PlaceInv
  <2> QED
    BY <1>1, <1>2, <1>3, <2>1, <2>2
    DEF OnePlace, Queued, InTransit, Parsed, Kept, Taken
<1>5. ReplyUsedOnce'
    BY <1>1 DEF RInv, IInv, TypeOK, PlaceInv, OnePlace, ReplyUsedOnce, Taken
<1> QED
    BY <1>1, <1>2, <1>4, <1>5 DEF RInv, PlaceInv

(* Steps that move no command. *)
LEMMA PlacesSame ==
    ASSUME RInv, UNCHANGED <<commands_to_send, wire, reading, commands_received, result>>,
           \A d \in Commands : pc'[d] \in {"idle", "slot"} => pc[d] \in {"idle", "slot"}
    PROVE  PlaceInv'
<1>1. ASSUME NEW d \in Commands PROVE OnePlace(d)'
    BY DEF RInv, PlaceInv, OnePlace, Queued, InTransit, Parsed, Kept, Taken
<1> QED
    BY <1>1 DEF RInv, PlaceInv, ReplyUsedOnce, Distinct

(* A step of one command, as far as ListenInv is concerned. *)
LEMMA ListenStep ==
    ASSUME RInv, NEW c \in Commands, NEW x, pc' = [pc EXCEPT ![c] = x],
           x \in InFlight => c \notin NoReply,
           x = "aborting" => c \in Bounded
    PROVE  ListenInv'
BY DEF RInv, IInv, TypeOK, ListenInv

-----------------------------------------------------------------------------
LEMMA InitRInv == Init => RInv
<1> SUFFICES ASSUME Init PROVE RInv
    OBVIOUS
<1>1. IInv
    BY InitIInv
<1>2. PlaceInv
    BY CommandsAssumption DEF Init, PlaceInv, OnePlace, Queued, InTransit, Parsed, Kept, Taken,
       ReplyUsedOnce, Distinct, Contains
<1>3. ListenInv
    BY DEF Init, ListenInv
<1> QED
    BY <1>1, <1>2, <1>3 DEF RInv

(* A command takes a slot: it is queued for the writer, and maybe takes a reply. *)
LEMMA AcquireSlotRInv ==
    ASSUME RInv, NEW c \in Commands, AcquireSlot(c)
    PROVE  PlaceInv' /\ ListenInv'
<1>1. CASE TakeReply(c) /\ pc' = [pc EXCEPT ![c] = "answered"]
  <2>1. PlaceInv'
    BY <1>1, TakeReplyPlaces DEF AcquireSlot
  <2> QED
    BY <1>1, <2>1, ListenStep
<1>2. CASE \/ c \in NoReply /\ pc' = [pc EXCEPT ![c] = "sent"]
           \/ c \notin NoReply /\ pc' = [pc EXCEPT ![c] = "entering"]
  <2>0. UNCHANGED <<wire, reading>> /\ commands_to_send' = Append(commands_to_send, c)
    BY DEF AcquireSlot
  <2>1. UNCHANGED <<commands_received, result>>
    BY <1>2 DEF AcquireSlot, RInv, IInv, TypeOK
  <2>2. ~Queued(c) /\ ~InTransit(c) /\ ~Parsed(c) /\ ~Kept(c) /\ ~Taken(c)
    BY DEF RInv, PlaceInv, OnePlace, AcquireSlot
  <2>3. commands_to_send \in Seq(Commands) /\ Distinct(commands_to_send)
    BY DEF RInv, IInv, TypeOK, PlaceInv
  <2>4. /\ Distinct(Append(commands_to_send, c))
        /\ \A y : Contains(Append(commands_to_send, c), y) <=> Contains(commands_to_send, y) \/ y = c
    BY <2>2, <2>3, QueueAppend DEF Queued
  <2>5. ASSUME NEW y \in Commands PROVE OnePlace(y)'
    <3>1. pc'[y] \in {"idle", "slot"} => pc[y] \in {"idle", "slot"} /\ y # c
      BY <1>2 DEF RInv, IInv, TypeOK
    <3>2. OnePlace(y)
      BY DEF RInv, PlaceInv
    <3> QED
      BY <2>0, <2>1, <2>2, <2>4, <3>1, <3>2
      DEF OnePlace, Queued, InTransit, Parsed, Kept, Taken
  <2>6. PlaceInv'
    BY <2>0, <2>1, <2>4, <2>5 DEF RInv, PlaceInv, ReplyUsedOnce
  <2> QED
    BY <1>2, <2>6, ListenStep
<1> QED
    BY <1>1, <1>2 DEF AcquireSlot

LEMMA RecheckRInv ==
    ASSUME RInv, NEW c \in Commands, Recheck(c)
    PROVE  PlaceInv' /\ ListenInv'
<1>1. CASE TakeReply(c) /\ ReleaseSlot(c, "answered")
  <2>1. PlaceInv'
    BY <1>1, TakeReplyPlaces DEF Recheck, ReleaseSlot
  <2> QED
    BY <1>1, <2>1, ListenStep DEF ReleaseSlot
<1>2. ASSUME NEW x \in {"timeout", "parked"}, pc' = [pc EXCEPT ![c] = x],
             UNCHANGED <<commands_received, result>>
      PROVE  PlaceInv' /\ ListenInv'
  <2>1. PlaceInv'
    BY <1>2, PlacesSame DEF Recheck, RInv, IInv, TypeOK
  <2>2. c \notin NoReply
    BY DEF Recheck, RInv, ListenInv
  <2> QED
    BY <1>2, <2>1, <2>2, ListenStep
<1> QED
    BY <1>1, <1>2 DEF Recheck, ReleaseSlot

(* The other steps of a command touch no queue of commands or replies. *)
LEMMA CommandRInv ==
    ASSUME RInv, NEW c \in Commands,
           Submit(c) \/ Park(c) \/ QueueForLock(c) \/ Expire(c) \/ GiveUp(c) \/ Cancel(c)
    PROVE  PlaceInv' /\ ListenInv'
<1>1. UNCHANGED <<commands_to_send, wire, reading, commands_received, result>>
    BY DEF Submit, Park, QueueForLock, Expire, GiveUp, Cancel
<1>2. /\ pc' = [pc EXCEPT ![c] = pc'[c]]
      /\ pc'[c] \in {"idle", "slot"} => pc[c] \in {"idle", "slot"}
      /\ pc'[c] \in InFlight => pc[c] \in InFlight
      /\ pc'[c] = "aborting" => c \in Bounded
  <2>1. CASE Submit(c)
    BY <2>1 DEF Submit, RInv, IInv, TypeOK
  <2>2. CASE Park(c)
    BY <2>2 DEF Park, ReleaseSlot, RInv, IInv, TypeOK
  <2>3. CASE QueueForLock(c)
    BY <2>3 DEF QueueForLock, RInv, IInv, TypeOK, ListenInv
  <2>4. CASE Expire(c)
    BY <2>4 DEF Expire, RInv, IInv, TypeOK
  <2>5. CASE GiveUp(c)
    BY <2>5 DEF GiveUp, ReleaseSlot, RInv, IInv, TypeOK
  <2>6. CASE Cancel(c)
    BY <2>6 DEF Cancel, ReleaseSlot, RInv, IInv, TypeOK
  <2> QED
    BY <2>1, <2>2, <2>3, <2>4, <2>5, <2>6
<1>3. PlaceInv'
    BY <1>1, <1>2, PlacesSame DEF RInv, IInv, TypeOK
<1>4. ListenInv'
    BY <1>2, ListenStep DEF RInv, ListenInv
<1> QED
    BY <1>3, <1>4

-----------------------------------------------------------------------------
(* Commands and replies move on, or get lost. *)
LEMMA WriterSendPlaces == ASSUME RInv, WriterSend PROVE PlaceInv'
<1> DEFINE d == Head(commands_to_send)
<1>1. /\ d \in Commands /\ Queued(d) /\ ~Contains(commands_to_send', d)
      /\ Distinct(commands_to_send')
      /\ \A y : Contains(commands_to_send', y) => Queued(y)
    BY QueueTail DEF WriterSend, RInv, IInv, TypeOK, PlaceInv, Queued
<1>2. ~InTransit(d)
    BY <1>1 DEF RInv, PlaceInv, OnePlace
<1>3. /\ Distinct(wire')
      /\ \A y : Contains(wire', y) <=> InTransit(y) \/ y = d
    BY <1>1, <1>2, QueueAppend DEF WriterSend, RInv, IInv, TypeOK, PlaceInv, InTransit
<1>4. UNCHANGED <<pc, reading, commands_received, result>>
    BY DEF WriterSend
<1> HIDE DEF d
<1>5. ASSUME NEW y \in Commands PROVE OnePlace(y)'
  <2>1. OnePlace(y) /\ OnePlace(d)
    BY <1>1 DEF RInv, PlaceInv
  <2> QED
    BY <1>1, <1>3, <1>4, <2>1 DEF OnePlace, Queued, InTransit, Parsed, Kept, Taken
<1> QED
    BY <1>1, <1>3, <1>4, <1>5 DEF RInv, PlaceInv, ReplyUsedOnce

LEMMA RouterIgnorePlaces == ASSUME RInv, RouterIgnore PROVE PlaceInv'
<1>1. /\ Distinct(wire')
      /\ \A y : Contains(wire', y) => InTransit(y)
    BY QueueTail DEF RouterIgnore, RInv, IInv, TypeOK, PlaceInv, InTransit
<1>2. UNCHANGED <<pc, commands_to_send, reading, commands_received, result>>
    BY DEF RouterIgnore
<1>3. ASSUME NEW y \in Commands PROVE OnePlace(y)'
    BY <1>1, <1>2 DEF RInv, PlaceInv, OnePlace, Queued, InTransit, Parsed, Kept, Taken
<1> QED
    BY <1>1, <1>2, <1>3 DEF RInv, PlaceInv, ReplyUsedOnce

LEMMA ReaderReadPlaces == ASSUME RInv, ReaderRead PROVE PlaceInv'
<1>1. /\ Head(wire) \in Commands /\ InTransit(Head(wire)) /\ ~Contains(wire', Head(wire))
      /\ Distinct(wire')
      /\ \A y : Contains(wire', y) => InTransit(y)
    BY QueueTail DEF ReaderRead, RInv, IInv, TypeOK, PlaceInv, InTransit
<1>2. reading' = Head(wire) /\ UNCHANGED <<pc, commands_to_send, commands_received, result>>
    BY DEF ReaderRead
<1>3. ASSUME NEW y \in Commands PROVE OnePlace(y)'
  <2>1. OnePlace(y)
    BY DEF RInv, PlaceInv
  <2> QED
    BY <1>1, <1>2, <2>1 DEF OnePlace, Queued, InTransit, Parsed, Kept, Taken
<1> QED
    BY <1>1, <1>2, <1>3 DEF RInv, PlaceInv, ReplyUsedOnce

LEMMA ReaderStorePlaces == ASSUME RInv, ReaderStore PROVE PlaceInv'
<1>1. reading \in Commands
    BY LockReleased DEF ReaderStore, RInv, IInv, LockInv, TypeOK
<1>2. ~Kept(reading) /\ reading' = None /\ None \notin Commands
    BY <1>1, CommandsAssumption DEF RInv, PlaceInv, OnePlace, Parsed, ReaderStore
<1>3. /\ Distinct(commands_received')
      /\ \A y : Contains(commands_received', y) <=> Kept(y) \/ y = reading
    BY <1>1, <1>2, QueueAppend DEF ReaderStore, RInv, IInv, TypeOK, PlaceInv, Kept
<1>4. /\ UNCHANGED <<commands_to_send, wire, result>>
      /\ \A y \in Commands : pc'[y] \in {"idle", "slot"} => pc[y] \in {"idle", "slot"}
    BY DEF ReaderStore
<1>5. ASSUME NEW y \in Commands PROVE OnePlace(y)'
  <2>1. OnePlace(y)
    BY DEF RInv, PlaceInv
  <2> QED
    BY <1>1, <1>2, <1>3, <1>4, <2>1 DEF OnePlace, Queued, InTransit, Parsed, Kept, Taken
<1> QED
    BY <1>3, <1>4, <1>5 DEF RInv, PlaceInv, ReplyUsedOnce

LEMMA PrunePlaces == ASSUME RInv, Prune PROVE PlaceInv'
<1> DEFINE stale == Len(commands_received) - MaxUnmatched
<1>1. /\ stale \in Nat /\ stale <= Len(commands_received)
      /\ commands_received' = SubSeq(commands_received, stale + 1, Len(commands_received))
    BY LenProperties, BoundsAssumption DEF RInv, IInv, TypeOK, Prune
<1> HIDE DEF stale
<1>2. /\ Distinct(commands_received')
      /\ \A y : Contains(commands_received', y) => Kept(y)
    BY <1>1, QueueSuffix DEF RInv, IInv, TypeOK, PlaceInv, Kept
<1>3. UNCHANGED <<pc, commands_to_send, wire, reading, result>>
    BY DEF Prune
<1>4. ASSUME NEW y \in Commands PROVE OnePlace(y)'
    BY <1>2, <1>3 DEF RInv, PlaceInv, OnePlace, Queued, InTransit, Parsed, Kept, Taken
<1> QED
    BY <1>2, <1>3, <1>4 DEF RInv, PlaceInv, ReplyUsedOnce

LEMMA LinkDownPlaces == ASSUME RInv, LinkDown PROVE PlaceInv'
<1>1. Distinct(wire') /\ \A y : ~Contains(wire', y)
    BY DEF LinkDown, Distinct, Contains
<1>2. reading' = None /\ None \notin Commands
      /\ UNCHANGED <<pc, commands_to_send, commands_received, result>>
    BY CommandsAssumption DEF LinkDown
<1>3. ASSUME NEW y \in Commands PROVE OnePlace(y)'
    BY <1>1, <1>2 DEF RInv, PlaceInv, OnePlace, Queued, InTransit, Parsed, Kept, Taken
<1> QED
    BY <1>1, <1>2, <1>3 DEF RInv, PlaceInv, ReplyUsedOnce

-----------------------------------------------------------------------------
LEMMA NextRInv == RInv /\ [Next]_vars => RInv'
<1> SUFFICES ASSUME RInv, [Next]_vars PROVE RInv'
    OBVIOUS
<1>1. IInv'
    BY NextIInv DEF RInv
<1>2. ASSUME NEW c \in Commands, Submit(c) \/ CommandStep(c) \/ Cancel(c)
      PROVE  PlaceInv' /\ ListenInv'
    BY <1>2, CommandRInv, AcquireSlotRInv, RecheckRInv DEF CommandStep
<1>3. ASSUME \/ WriterSend \/ RouterIgnore \/ ReaderRead \/ ReaderStore
             \/ Prune \/ LinkDown
      PROVE  PlaceInv' /\ ListenInv'
  <2>1. PlaceInv'
    BY <1>3, WriterSendPlaces, RouterIgnorePlaces, ReaderReadPlaces, ReaderStorePlaces,
       PrunePlaces, LinkDownPlaces
  <2>2. \A c \in Commands :
            /\ pc'[c] \in InFlight => pc[c] \in InFlight
            /\ pc'[c] = "aborting" => pc[c] = "aborting"
    BY <1>3 DEF WriterSend, RouterIgnore, ReaderRead, ReaderStore, Prune, LinkDown
  <2> QED
    BY <2>1, <2>2 DEF RInv, ListenInv
<1>4. ASSUME LinkUp \/ Tick \/ UNCHANGED vars
      PROVE  PlaceInv' /\ ListenInv'
  <2>1. UNCHANGED <<pc, commands_to_send, wire, reading, commands_received, result>>
    BY <1>4 DEF LinkUp, Tick, vars
  <2>2. PlaceInv'
    BY <2>1, PlacesSame
  <2> QED
    BY <2>1, <2>2 DEF RInv, ListenInv
<1> QED
    BY <1>1, <1>2, <1>3, <1>4 DEF RInv, Next

THEOREM Places == Spec => []RInv
<1> QED
    BY InitRInv, NextRInv, PTL DEF Spec

(* Two calls never return the same reply, not even when the code cannot tell   *)
(* their replies apart.                                                        *)
THEOREM ReplyNeverShared == Spec => []ReplyUsedOnce
<1>1. RInv => ReplyUsedOnce
    BY DEF RInv, PlaceInv
<1> QED
    BY <1>1, Places, PTL

-----------------------------------------------------------------------------
(* The steps of RequestReply, for a step of command c that gives it status x.  *)
LEMMA StatusStep ==
    ASSUME RInv, NEW c \in Commands, NEW x \in PCs, pc' = [pc EXCEPT ![c] = x]
    PROVE  /\ pc[c] = "idle" => Status[c] = "new"
           /\ pc[c] \in {"slot"} \union InFlight => Status[c] = "pending"
           /\ x \in {"slot"} \union InFlight => Status' = [Status EXCEPT ![c] = "pending"]
           /\ x \in Final => Status' = [Status EXCEPT ![c] = x]
BY DEF RInv, IInv, TypeOK, Status

(* A command that goes from one wait to another changes nothing for its caller. *)
LEMMA StatusSame ==
    ASSUME RInv, NEW c \in Commands, NEW x \in {"slot"} \union InFlight,
           pc[c] \in {"slot"} \union InFlight, pc' = [pc EXCEPT ![c] = x]
    PROVE  UNCHANGED Status
BY DEF RInv, IInv, TypeOK, Status

(* Taking a reply is Answer: it is one the router gave to a request made       *)
(* before, with the same key, and no call has returned it.                     *)
LEMMA TakeReplyAnswers ==
    ASSUME RInv, NEW c \in Commands, TakeReply(c), c \notin NoReply,
           pc[c] \in {"slot"} \union InFlight, pc' = [pc EXCEPT ![c] = "answered"]
    PROVE  Promise!Answer(c)
<1>1. PICK d \in Commands :
        /\ Key[d] = Key[c]
        /\ Kept(d)
        /\ result' = [result EXCEPT ![c] = d]
    BY TakeReplyMoves
<1>2. OnePlace(d)
    BY DEF RInv, PlaceInv
<1>3. \A e \in Commands : result[e] # d
    BY <1>1, <1>2 DEF OnePlace, Taken
<1>4. Status[d] # "new"
    BY <1>1, <1>2 DEF OnePlace, Status
<1>5. Status[c] = "pending" /\ Status' = [Status EXCEPT ![c] = "answered"]
    BY StatusStep
<1> QED
    BY <1>1, <1>3, <1>4, <1>5 DEF Promise!Answer

(* A command that ends without a reply. *)
LEMMA EndStep ==
    ASSUME RInv, NEW c \in Commands, NEW x \in {"timeout", "cancelled", "sent"},
           pc[c] \in {"slot"} \union InFlight, pc' = [pc EXCEPT ![c] = x],
           UNCHANGED result,
           x = "timeout" => c \notin NoReply,
           x = "cancelled" => c \in Bounded,
           x = "sent" => c \in NoReply
    PROVE  Promise!Sent(c) \/ Promise!TimeOut(c) \/ Promise!Cancel(c)
<1>1. Status[c] = "pending" /\ Status' = [Status EXCEPT ![c] = x]
    BY StatusStep
<1> QED
    BY <1>1 DEF Promise!Sent, Promise!TimeOut, Promise!Cancel, Promise!End

LEMMA CommandRefines ==
    ASSUME RInv, NEW c \in Commands, Submit(c) \/ CommandStep(c) \/ Cancel(c)
    PROVE  [Promise!Next]_(Promise!vars)
<1> USE DEF Promise!Next, Promise!vars
<1>1. CASE Submit(c)
  <2>1. Status[c] = "new" /\ Status' = [Status EXCEPT ![c] = "pending"] /\ UNCHANGED result
    BY <1>1, StatusStep DEF Submit
  <2> QED
    BY <2>1 DEF Promise!Ask
<1>2. CASE AcquireSlot(c)
  <2>1. CASE c \in NoReply
    BY <1>2, <2>1, EndStep DEF AcquireSlot
  <2>2. CASE c \notin NoReply /\ TakeReply(c) /\ pc' = [pc EXCEPT ![c] = "answered"]
    BY <1>2, <2>2, TakeReplyAnswers DEF AcquireSlot
  <2>3. CASE pc' = [pc EXCEPT ![c] = "entering"] /\ UNCHANGED result
    BY <1>2, <2>3, StatusSame DEF AcquireSlot
  <2> QED
    BY <1>2, <2>1, <2>2, <2>3 DEF AcquireSlot
<1>3. CASE Park(c)
  <2>1. c \notin NoReply
    BY <1>3 DEF Park, RInv, ListenInv
  <2>2. CASE Expired(c)
    BY <1>3, <2>1, <2>2, EndStep DEF Park, ReleaseSlot
  <2>3. CASE ~Expired(c)
    BY <1>3, <2>3, StatusSame DEF Park
  <2> QED
    BY <2>2, <2>3
<1>4. CASE QueueForLock(c)
    BY <1>4 DEF QueueForLock, Status
<1>5. CASE Recheck(c)
  <2>1. c \notin NoReply
    BY <1>5 DEF Recheck, RInv, ListenInv
  <2>2. CASE TakeReply(c) /\ ReleaseSlot(c, "answered")
    BY <1>5, <2>1, <2>2, TakeReplyAnswers DEF Recheck, ReleaseSlot
  <2>3. CASE ReleaseSlot(c, "timeout") /\ UNCHANGED result
    BY <1>5, <2>1, <2>3, EndStep DEF Recheck, ReleaseSlot
  <2>4. CASE pc' = [pc EXCEPT ![c] = "parked"] /\ UNCHANGED result
    BY <1>5, <2>4, StatusSame DEF Recheck
  <2> QED
    BY <1>5, <2>2, <2>3, <2>4 DEF Recheck
<1>6. CASE Expire(c)
    BY <1>6, StatusSame DEF Expire
<1>7. CASE GiveUp(c)
  <2>1. c \notin NoReply
    BY <1>7 DEF GiveUp, RInv, ListenInv
  <2>2. CASE pc[c] = "expired"
    BY <1>7, <2>1, <2>2, EndStep DEF GiveUp, ReleaseSlot
  <2>3. CASE pc[c] = "aborting"
    BY <1>7, <2>3, EndStep DEF GiveUp, ReleaseSlot, RInv, ListenInv
  <2> QED
    BY <1>7, <2>2, <2>3 DEF GiveUp
<1>8. CASE Cancel(c)
  <2>1. CASE pc[c] \in {"slot", "entering"}
    BY <1>8, <2>1, EndStep DEF Cancel, ReleaseSlot
  <2>2. CASE pc[c] \in Waiting
    BY <1>8, <2>2, StatusSame DEF Cancel
  <2> QED
    BY <1>8, <2>1, <2>2 DEF Cancel
<1> QED
    BY <1>1, <1>2, <1>3, <1>4, <1>5, <1>6, <1>7, <1>8 DEF CommandStep

(* Writer, router, reader, connection and clock are invisible to the callers. *)
LEMMA OthersRefine ==
    ASSUME RInv,
           \/ WriterSend \/ RouterIgnore \/ ReaderRead \/ ReaderStore
           \/ Prune \/ LinkDown \/ LinkUp \/ Tick \/ UNCHANGED vars
    PROVE  UNCHANGED <<Status, result>>
<1>1. CASE ReaderStore
    BY <1>1 DEF ReaderStore, RInv, IInv, TypeOK, Status
<1>2. CASE ~ReaderStore
    BY <1>2 DEF WriterSend, RouterIgnore, ReaderRead, Prune, LinkDown, LinkUp, Tick,
       vars, Status
<1> QED
    BY <1>1, <1>2

(* The engine keeps the promise of RequestReply: a caller's request ends once,  *)
(* with a reply that carries its key and went to no other call, or without one. *)
THEOREM Refinement == Spec => KeepsPromise
<1>1. Init => Promise!Init
    BY DEF Init, Promise!Init, Status
<1>2. RInv /\ [Next]_vars => [Promise!Next]_(Promise!vars)
    BY CommandRefines, OthersRefine DEF Next, Promise!vars
<1> QED
    BY <1>1, <1>2, Places, PTL DEF Spec, KeepsPromise, Promise!Spec

-----------------------------------------------------------------------------
(***************************************************************************)
(* _send_command_locked looks at the list before it has the lock, and not    *)
(* again before it waits.  What saves it is the order of the lock's queue:   *)
(* its string was queued for the writer and the command joined that queue in *)
(* one step, so the reader with its reply joins behind it, and by the time    *)
(* the reply is stored the command is asleep and is notified (WakeInv).     *)
(***************************************************************************)
WakeInv ==
    \A c \in Commands :
        /\ pc[c] = "entering" =>
            /\ Contains(lockQueue, c)
            /\ ~Kept(c)
            /\ reading = c => Before(lockQueue, c, Reader)
        /\ pc[c] = "parked" => ~Kept(c)

WInv == RInv /\ WakeInv

-----------------------------------------------------------------------------
(* What a command in the lock's queue has to fear from a step: that it is taken *)
(* out, that the reader with its reply gets in front, that its reply is stored. *)
LEMMA StaysQueued ==
    ASSUME WInv, NEW c \in Commands, pc[c] = "entering",
           \/ UNCHANGED lockQueue
           \/ \E p \in Commands \union {Reader} : p # c /\ lockQueue' = Append(lockQueue, p)
           \/ lockQueue # <<>> /\ Head(lockQueue) # c /\ lockQueue' = Tail(lockQueue)
           \/ \E p : p # c /\ lockQueue' = Without(lockQueue, p)
    PROVE  /\ Contains(lockQueue', c)
           /\ reading = c => Before(lockQueue', c, Reader)
<1>1. /\ lockQueue \in Seq(Commands \union {Reader})
      /\ Contains(lockQueue, c)
      /\ reading = c => Before(lockQueue, c, Reader)
    BY DEF WInv, WakeInv, RInv, IInv, TypeOK
<1>2. CASE UNCHANGED lockQueue
    BY <1>1, <1>2
<1>3. ASSUME NEW p \in Commands \union {Reader}, p # c, lockQueue' = Append(lockQueue, p)
      PROVE  /\ Contains(lockQueue', c)
             /\ reading = c => Before(lockQueue', c, Reader)
    BY <1>1, <1>3, QueueAppend, BeforeAppend
<1>4. CASE lockQueue # <<>> /\ Head(lockQueue) # c /\ lockQueue' = Tail(lockQueue)
    BY <1>1, <1>4, QueueTailKeeps, BeforeTail
<1>5. ASSUME NEW p, p # c, lockQueue' = Without(lockQueue, p)
      PROVE  /\ Contains(lockQueue', c)
             /\ reading = c => Before(lockQueue', c, Reader)
    BY <1>1, <1>5, BeforeWithout, QueueWithoutKeeps
<1> QED
    BY <1>2, <1>3, <1>4, <1>5

(* A step of command c that stores no reply. *)
LEMMA CommandKeepsWake ==
    ASSUME WInv, NEW c \in Commands, UNCHANGED reading,
           \A d \in Commands \ {c} : pc'[d] = pc[d],
           \A d \in Commands : Contains(commands_received', d) => Kept(d),
           pc'[c] \notin {"entering", "parked"},
           \/ UNCHANGED lockQueue
           \/ lockQueue' = Append(lockQueue, c)
           \/ HoldsLock(c) /\ lockQueue' = Tail(lockQueue)
           \/ lockQueue' = Without(lockQueue, c)
    PROVE  WakeInv'
<1>1. ASSUME NEW d \in Commands, d # c, pc[d] = "entering"
      PROVE  /\ Contains(lockQueue', d)
             /\ reading' = d => Before(lockQueue', d, Reader)
    BY <1>1, StaysQueued DEF HoldsLock
<1> QED
    BY <1>1 DEF WInv, WakeInv, Kept

-----------------------------------------------------------------------------
LEMMA InitWInv == Init => WInv
BY InitRInv DEF Init, WInv, WakeInv

LEMMA AcquireSlotWake ==
    ASSUME WInv, NEW c \in Commands, AcquireSlot(c)
    PROVE  WakeInv'
<1>1. pc[c] = "slot" /\ UNCHANGED reading /\ \A d \in Commands \ {c} : pc'[d] = pc[d]
  <2>1. pc \in [Commands -> PCs]
    BY DEF WInv, RInv, IInv, TypeOK
  <2> QED
    BY <2>1 DEF AcquireSlot
<1>2. ~Parsed(c) /\ ~Kept(c)
    BY <1>1 DEF WInv, RInv, PlaceInv, OnePlace
<1>3. CASE TakeReply(c) /\ pc' = [pc EXCEPT ![c] = "answered"] /\ UNCHANGED lockQueue
  <2>1. \A d \in Commands : Contains(commands_received', d) => Kept(d)
    BY <1>3, TakeReplyMoves DEF WInv
  <2>2. pc'[c] = "answered"
    BY <1>3 DEF WInv, RInv, IInv, TypeOK
  <2> QED
    BY <1>1, <1>3, <2>1, <2>2, CommandKeepsWake
<1>4. CASE pc' = [pc EXCEPT ![c] = "sent"] /\ UNCHANGED <<lockQueue, commands_received>>
  <2>1. pc'[c] = "sent"
    BY <1>4 DEF WInv, RInv, IInv, TypeOK
  <2> QED
    BY <1>1, <1>4, <2>1, CommandKeepsWake DEF Kept
<1>5. CASE /\ pc' = [pc EXCEPT ![c] = "entering"] /\ lockQueue' = Append(lockQueue, c)
           /\ UNCHANGED commands_received
  <2>0. lockQueue \in Seq(Commands \union {Reader}) /\ c \in Commands \union {Reader}
    BY DEF WInv, RInv, IInv, TypeOK
  <2>1. Contains(lockQueue', c)
    BY <1>5, <2>0, QueueAppend
  <2>2. ASSUME NEW d \in Commands, d # c, pc[d] = "entering"
        PROVE  /\ Contains(lockQueue', d)
               /\ reading' = d => Before(lockQueue', d, Reader)
    BY <1>1, <1>5, <2>2, StaysQueued
  <2> QED
    BY <1>1, <1>2, <1>5, <2>1, <2>2 DEF WInv, WakeInv, Parsed, Kept
<1> QED
    BY <1>3, <1>4, <1>5 DEF AcquireSlot

(* Own reply in the list means a match. *)
LEMMA NoMatchNotKept ==
    ASSUME WInv, NEW c \in Commands, Matches(c) = {}
    PROVE  ~Kept(c)
BY DEF Matches, Kept, Contains

LEMMA SleepWake ==
    ASSUME WInv, NEW c \in Commands, ~Kept(c), UNCHANGED <<reading, commands_received>>,
           pc' = [pc EXCEPT ![c] = "parked"],
           HoldsLock(c), lockQueue' = Tail(lockQueue)
    PROVE  WakeInv'
<1>1. ASSUME NEW d \in Commands, d # c, pc[d] = "entering"
      PROVE  /\ Contains(lockQueue', d)
             /\ reading' = d => Before(lockQueue', d, Reader)
    BY <1>1, StaysQueued DEF HoldsLock
<1>2. pc'[c] = "parked" /\ \A d \in Commands \ {c} : pc'[d] = pc[d]
    BY DEF WInv, RInv, IInv, TypeOK
<1> QED
    BY <1>1, <1>2 DEF WInv, WakeInv, Kept

LEMMA ParkWake ==
    ASSUME WInv, NEW c \in Commands, Park(c)
    PROVE  WakeInv'
<1>1. CASE ~Expired(c)
  <2>1. ~Kept(c)
    BY DEF Park, WInv, WakeInv
  <2> QED
    BY <1>1, <2>1, SleepWake DEF Park
<1>2. CASE Expired(c)
  <2>1. pc'[c] = "timeout" /\ \A d \in Commands \ {c} : pc'[d] = pc[d]
    BY <1>2 DEF Park, ReleaseSlot, WInv, RInv, IInv, TypeOK
  <2> QED
    BY <2>1, CommandKeepsWake DEF Park, Kept
<1> QED
    BY <1>1, <1>2

LEMMA RecheckWake ==
    ASSUME WInv, NEW c \in Commands, Recheck(c)
    PROVE  WakeInv'
<1>1. CASE TakeReply(c) /\ ReleaseSlot(c, "answered")
  <2>1. \A d \in Commands : Contains(commands_received', d) => Kept(d)
    BY <1>1, TakeReplyMoves DEF WInv
  <2>2. pc'[c] = "answered" /\ \A d \in Commands \ {c} : pc'[d] = pc[d]
    BY <1>1 DEF ReleaseSlot, WInv, RInv, IInv, TypeOK
  <2> QED
    BY <2>1, <2>2, CommandKeepsWake DEF Recheck
<1>2. CASE ReleaseSlot(c, "timeout") /\ UNCHANGED commands_received
  <2>1. pc'[c] = "timeout" /\ \A d \in Commands \ {c} : pc'[d] = pc[d]
    BY <1>2 DEF ReleaseSlot, WInv, RInv, IInv, TypeOK
  <2> QED
    BY <1>2, <2>1, CommandKeepsWake DEF Recheck, Kept
<1>3. CASE /\ Matches(c) = {} /\ pc' = [pc EXCEPT ![c] = "parked"]
           /\ UNCHANGED commands_received
    BY <1>3, NoMatchNotKept, SleepWake DEF Recheck
<1> QED
    BY <1>1, <1>2, <1>3 DEF Recheck

LEMMA CommandWake ==
    ASSUME WInv, NEW c \in Commands,
           Submit(c) \/ QueueForLock(c) \/ Expire(c) \/ GiveUp(c) \/ Cancel(c)
    PROVE  WakeInv'
<1>1. /\ UNCHANGED <<reading, commands_received>>
      /\ pc \in [Commands -> PCs]
    BY DEF Submit, QueueForLock, Expire, GiveUp, Cancel, WInv, RInv, IInv, TypeOK
<1>2. /\ \A d \in Commands \ {c} : pc'[d] = pc[d]
      /\ pc'[c] \notin {"entering", "parked"}
    BY <1>1 DEF Submit, QueueForLock, Expire, GiveUp, Cancel, ReleaseSlot
<1>3. \/ UNCHANGED lockQueue
      \/ lockQueue' = Append(lockQueue, c)
      \/ HoldsLock(c) /\ lockQueue' = Tail(lockQueue)
      \/ lockQueue' = Without(lockQueue, c)
    BY DEF Submit, QueueForLock, Expire, GiveUp, Cancel
<1> QED
    BY <1>1, <1>2, <1>3, CommandKeepsWake DEF Kept

-----------------------------------------------------------------------------
(* The writer and the keepalive only make commands and replies fewer. *)
LEMMA QuietWake ==
    ASSUME WInv, UNCHANGED <<pc, lockQueue>>,
           reading' \in {reading, None},
           \A d \in Commands : Contains(commands_received', d) => Kept(d)
    PROVE  WakeInv'
BY CommandsAssumption DEF WInv, WakeInv, Kept

LEMMA PruneWake == ASSUME WInv, Prune PROVE WakeInv'
<1> DEFINE stale == Len(commands_received) - MaxUnmatched
<1>1. /\ stale \in Nat /\ stale <= Len(commands_received)
      /\ commands_received' = SubSeq(commands_received, stale + 1, Len(commands_received))
    BY LenProperties, BoundsAssumption DEF WInv, RInv, IInv, TypeOK, Prune
<1> HIDE DEF stale
<1>2. \A y : Contains(commands_received', y) => Kept(y)
    BY <1>1, QueueSuffix DEF WInv, RInv, IInv, TypeOK, Kept
<1> QED
    BY <1>2, QuietWake DEF Prune

(* The reader with the reply to a command that is still entering joins the      *)
(* queue of the lock behind it.                                                *)
LEMMA ReaderReadWake == ASSUME WInv, ReaderRead PROVE WakeInv'
<1>1. ~Contains(lockQueue, Reader)
    BY DEF ReaderRead, WInv, RInv, IInv, LockInv
<1>2. ASSUME NEW d \in Commands, pc[d] = "entering"
      PROVE  Contains(lockQueue', d) /\ Before(lockQueue', d, Reader)
  <2>1. /\ lockQueue \in Seq(Commands \union {Reader})
        /\ Contains(lockQueue, d)
        /\ Reader \in Commands \union {Reader} /\ Reader # d
        /\ lockQueue' = Append(lockQueue, Reader)
    BY <1>2, CommandsAssumption DEF ReaderRead, WInv, WakeInv, RInv, IInv, TypeOK
  <2> QED
    BY <1>1, <2>1, QueueAppend, BeforeAppend
<1>3. UNCHANGED <<pc, commands_received>>
    BY DEF ReaderRead
<1> QED
    BY <1>2, <1>3 DEF WInv, WakeInv, Kept

(* When it stores the reply no one is before it, and whoever sleeps is woken.   *)
LEMMA ReaderStoreWake == ASSUME WInv, ReaderStore PROVE WakeInv'
<1>1. /\ lockQueue \in Seq(Commands \union {Reader})
      /\ lockQueue # <<>> /\ Head(lockQueue) = Reader
      /\ reading \in Commands
    BY LockReleased DEF ReaderStore, HoldsLock, WInv, RInv, IInv, LockInv, TypeOK
<1>2. ASSUME NEW d \in Commands, pc[d] = "entering"
      PROVE  Contains(lockQueue', d) /\ ~Contains(commands_received', d)
  <2>1. Contains(lockQueue', d)
    BY <1>1, <1>2, StaysQueued, CommandsAssumption DEF ReaderStore
  <2>2. d # reading
    BY <1>1, <1>2, BeforeHead DEF WInv, WakeInv
  <2>3. ~Kept(d)
    BY <1>2 DEF WInv, WakeInv
  <2> QED
    BY <1>1, <2>1, <2>2, <2>3, QueueAppend DEF ReaderStore, Kept, WInv, RInv, IInv, TypeOK
<1>3. /\ \A d \in Commands : pc'[d] # "parked" /\ (pc'[d] = "entering" => pc[d] = "entering")
      /\ reading' = None
    BY DEF ReaderStore
<1> QED
    BY <1>2, <1>3, CommandsAssumption DEF WakeInv, Kept

LEMMA LinkDownWake == ASSUME WInv, LinkDown PROVE WakeInv'
<1>1. ASSUME NEW d \in Commands, pc[d] = "entering"
      PROVE  Contains(lockQueue', d)
    BY <1>1, StaysQueued, CommandsAssumption DEF LinkDown
<1>2. reading' = None /\ None \notin Commands /\ UNCHANGED <<pc, commands_received>>
    BY CommandsAssumption DEF LinkDown
<1> QED
    BY <1>1, <1>2 DEF WInv, WakeInv, Kept

-----------------------------------------------------------------------------
LEMMA NextWInv == WInv /\ [Next]_vars => WInv'
<1> SUFFICES ASSUME WInv, [Next]_vars PROVE WInv'
    OBVIOUS
<1>1. RInv'
    BY NextRInv DEF WInv
<1>2. ASSUME NEW c \in Commands, Submit(c) \/ CommandStep(c) \/ Cancel(c)
      PROVE  WakeInv'
    BY <1>2, CommandWake, AcquireSlotWake, ParkWake, RecheckWake DEF CommandStep
<1>3. ASSUME WriterSend \/ RouterIgnore \/ LinkUp \/ Tick \/ UNCHANGED vars
      PROVE  WakeInv'
  <2>1. UNCHANGED <<pc, lockQueue, reading, commands_received>>
    BY <1>3 DEF WriterSend, RouterIgnore, LinkUp, Tick, vars
  <2> QED
    BY <2>1, QuietWake DEF Kept
<1>4. WakeInv'
    BY <1>2, <1>3, ReaderReadWake, ReaderStoreWake, PruneWake, LinkDownWake DEF Next
<1> QED
    BY <1>1, <1>4 DEF WInv

(* A command is never asleep while its own reply is in the list: no notification *)
(* is lost between the first look at the list and the wait.                      *)
THEOREM NoReplySleptOver == Spec => []NoLostWakeup
<1>1. WInv => NoLostWakeup
    BY DEF WInv, WakeInv, NoLostWakeup, Kept
<1> QED
    BY <1>1, InitWInv, NextWInv, PTL DEF Spec

-----------------------------------------------------------------------------
(* What pruning drops                                                         *)
(*                                                                         *)
(* Commands and replies keep the order in which the commands took their       *)
(* slots, so a reply that comes behind that of a command still in flight is    *)
(* of a command that took its slot later.  If that one has timed out, it       *)
(* has had the whole timeout, so both were in flight when time last passed.    *)
First(c, d) ==
    \/ Precedes(commands_received, c, d) \/ Precedes(wire, c, d) \/ Precedes(commands_to_send, c, d)
    \/ Kept(c) /\ (Parsed(d) \/ InTransit(d) \/ Queued(d))
    \/ Parsed(c) /\ (InTransit(d) \/ Queued(d))
    \/ InTransit(c) /\ Queued(d)

(* The commands behind c that have had the whole timeout *)
Peers(c) ==
    {d \in Commands \ {c} : /\ First(c, d) /\ age[d] = ResponseTimeout
                            /\ pc[d] \in InFlight \union {"timeout"}}

OrderInv ==
    /\ \A c \in Commands :
        /\ pc[c] \in {"idle", "slot"} => age[c] = 0
        /\ pc[c] \in {"expired", "timeout"} => age[c] = ResponseTimeout
    /\ \A c, d \in Commands : First(c, d) /\ pc[c] \in InFlight => age[d] <= age[c]
    /\ \A c \in Commands : pc[c] \in InFlight => Cardinality(Peers(c)) < MaxConcurrent

OInv == RInv /\ OrderInv

-----------------------------------------------------------------------------
LEMMA FewerOf ==
    ASSUME NEW A, NEW B, B \subseteq Commands, A \subseteq B
    PROVE  /\ IsFiniteSet(A) /\ Cardinality(A) \in Nat /\ Cardinality(B) \in Nat
           /\ Cardinality(A) <= Cardinality(B)
BY CommandsAssumption, FS_Subset, FS_CardinalityType

(* A command in flight has at most as many others with it as there are slots left. *)
LEMMA OthersInFlight ==
    ASSUME OInv, NEW c \in Holders
    PROVE  /\ Cardinality(Holders \ {c}) <= MaxConcurrent - 1
           /\ Cardinality(Holders \ {c}) \in Nat
<1>1. /\ Cardinality(Holders \ {c}) = Cardinality(Holders) - 1
      /\ Cardinality(Holders \ {c}) \in Nat
    BY HoldersFinite, FS_RemoveElement, FS_CardinalityType
<1>2. slots \in 0..MaxConcurrent /\ slots + Cardinality(Holders) = MaxConcurrent
    BY DEF OInv, RInv, IInv, TypeOK, SlotsAccounted
<1> QED
    BY <1>1, <1>2, HoldersFinite, BoundsAssumption

(* Who comes first has a place, and so has who comes behind. *)
LEMMA FirstPlaced ==
    ASSUME NEW c, NEW d, First(c, d)
    PROVE  /\ Queued(c) \/ InTransit(c) \/ Parsed(c) \/ Kept(c)
           /\ Queued(d) \/ InTransit(d) \/ Parsed(d) \/ Kept(d)
BY PrecedesContains DEF First, Queued, InTransit, Kept

(* Time stands still, and nobody gets in front of a command. *)
LEMMA OrderStands ==
    ASSUME OInv, UNCHANGED age,
           \A c, d \in Commands : First(c, d)' => First(c, d),
           \A c \in Commands :
            /\ pc'[c] \in {"idle", "slot"} => pc[c] \in {"idle", "slot"}
            /\ pc'[c] = "expired" => pc[c] = "expired" \/ Expired(c)
            /\ pc'[c] = "timeout" =>
                    pc[c] \in {"timeout", "expired"} \/ (pc[c] \in InFlight /\ Expired(c))
            /\ pc'[c] \in InFlight => pc[c] \in InFlight
    PROVE  OrderInv'
<1>1. \A c \in Commands : age[c] \in 0..ResponseTimeout
    BY DEF OInv, RInv, IInv, TypeOK
<1>2. ASSUME NEW c \in Commands
      PROVE  /\ pc'[c] \in {"idle", "slot"} => age'[c] = 0
             /\ pc'[c] \in {"expired", "timeout"} => age'[c] = ResponseTimeout
  <2>1. Expired(c) => age[c] = ResponseTimeout
    BY <1>1, BoundsAssumption DEF Expired
  <2> QED
    BY <2>1 DEF OInv, OrderInv
<1>3. ASSUME NEW c \in Commands, pc'[c] \in InFlight
      PROVE  Cardinality(Peers(c)') < MaxConcurrent
  <2>1. pc[c] \in InFlight /\ Cardinality(Peers(c)) < MaxConcurrent
    BY <1>3 DEF OInv, OrderInv
  <2>2. \A d \in Commands : pc'[d] \in InFlight \union {"timeout"}
                                => pc[d] \in InFlight \union {"timeout"}
    OBVIOUS
  <2>3. Peers(c)' \subseteq Peers(c) /\ Peers(c) \subseteq Commands
    BY <2>2 DEF Peers
  <2> QED
    BY <2>1, <2>3, FewerOf, BoundsAssumption
<1> QED
    BY <1>2, <1>3 DEF OInv, OrderInv

LEMMA FirstSame ==
    ASSUME UNCHANGED <<commands_to_send, wire, reading, commands_received>>
    PROVE  \A c, d : First(c, d)' <=> First(c, d)
BY DEF First, Queued, InTransit, Parsed, Kept

LEMMA TakeReplyAhead ==
    ASSUME RInv, NEW x \in Commands, TakeReply(x)
    PROVE  \A c, d : /\ Precedes(commands_received', c, d) => Precedes(commands_received, c, d)
                     /\ Contains(commands_received', c) => Kept(c)
<1>1. PICK i \in Matches(x) : commands_received' = RemoveAt(commands_received, i)
    BY DEF TakeReply
<1>2. i \in 1..Len(commands_received) /\ commands_received \in Seq(Commands)
    BY <1>1 DEF Matches, RInv, IInv, TypeOK
<1>3. \A c, d : Precedes(commands_received', c, d) => Precedes(commands_received, c, d)
    BY <1>1, <1>2, PrecedesRemoveAt
<1> QED
    BY <1>1, <1>2, <1>3, QueueRemoveAt DEF Kept

-----------------------------------------------------------------------------
(* A command that takes a slot is behind all others, and its time begins. *)
LEMMA AcquireSlotOrder ==
    ASSUME OInv, NEW x \in Commands, AcquireSlot(x)
    PROVE  OrderInv'
<1>1. /\ pc[x] = "slot" /\ UNCHANGED <<age, wire, reading>>
      /\ commands_to_send' = Append(commands_to_send, x)
      /\ \A d \in Commands \ {x} : pc'[d] = pc[d]
      /\ pc'[x] \in {"sent", "answered", "entering"}
  <2>1. pc \in [Commands -> PCs]
    BY DEF OInv, RInv, IInv, TypeOK
  <2> QED
    BY <2>1 DEF AcquireSlot
<1>2. age[x] = 0
    BY <1>1 DEF OInv, OrderInv
<1>3. ~Queued(x) /\ ~InTransit(x) /\ ~Parsed(x) /\ ~Kept(x)
    BY <1>1 DEF OInv, RInv, PlaceInv, OnePlace
<1>4. \A c, d : /\ Precedes(commands_received', c, d) => Precedes(commands_received, c, d)
                /\ Contains(commands_received', c) => Kept(c)
  <2>1. CASE TakeReply(x)
    BY <2>1, TakeReplyAhead DEF OInv
  <2>2. CASE UNCHANGED commands_received
    BY <2>2 DEF Kept
  <2> QED
    BY <2>1, <2>2 DEF AcquireSlot
<1>5. ASSUME NEW c \in Commands, NEW d \in Commands, First(c, d)'
      PROVE  c # x /\ (d # x => First(c, d))
  <2>1. commands_to_send \in Seq(Commands)
    BY DEF OInv, RInv, IInv, TypeOK
  <2>2. /\ \A y : Contains(commands_to_send', y) <=> Queued(y) \/ y = x
        /\ Precedes(commands_to_send', c, d) =>
                Precedes(commands_to_send, c, d) \/ (d = x /\ Queued(c))
    BY <1>1, <2>1, QueueAppend, PrecedesAppend DEF Queued
  <2>3. c # x
    BY <1>1, <1>3, <1>4, <1>5, <2>2, PrecedesContains DEF First, Queued, InTransit, Parsed, Kept
  <2>4. d # x => First(c, d)
    BY <1>1, <1>4, <1>5, <2>2 DEF First, Queued, InTransit, Parsed, Kept
  <2> QED
    BY <2>3, <2>4
<1>6. ResponseTimeout # 0 /\ \A c \in Commands : age[c] \in 0..ResponseTimeout
    BY BoundsAssumption DEF OInv, RInv, IInv, TypeOK
<1>7. ASSUME NEW c \in Commands, pc'[c] \in InFlight
      PROVE  Cardinality(Peers(c)') < MaxConcurrent
  <2>1. CASE c = x
    <3>1. Peers(c)' = {}
      BY <1>5, <2>1 DEF Peers
    <3> QED
      BY <3>1, FS_EmptySet, BoundsAssumption
  <2>2. CASE c # x
    <3>1. Peers(c)' \subseteq Peers(c) /\ Peers(c) \subseteq Commands
      BY <1>1, <1>2, <1>5, <1>6 DEF Peers
    <3>2. Cardinality(Peers(c)) < MaxConcurrent
      BY <1>1, <1>7, <2>2 DEF OInv, OrderInv
    <3> QED
      BY <3>1, <3>2, FewerOf, BoundsAssumption
  <2> QED
    BY <2>1, <2>2
<1>8. ASSUME NEW c \in Commands, NEW d \in Commands, First(c, d)', pc'[c] \in InFlight
      PROVE  age'[d] <= age'[c]
  <2>1. c # x /\ pc[c] \in InFlight
    BY <1>1, <1>5, <1>8
  <2>2. CASE d = x
    BY <1>1, <1>2, <1>6, <2>2
  <2>3. CASE d # x
    BY <1>1, <1>5, <1>8, <2>1, <2>3 DEF OInv, OrderInv
  <2> QED
    BY <2>2, <2>3
<1>9. ASSUME NEW c \in Commands
      PROVE  /\ pc'[c] \in {"idle", "slot"} => age'[c] = 0
             /\ pc'[c] \in {"expired", "timeout"} => age'[c] = ResponseTimeout
    BY <1>1 DEF OInv, OrderInv
<1> QED
    BY <1>7, <1>8, <1>9 DEF OrderInv

(* The other steps of a command *)
LEMMA CommandOrder ==
    ASSUME OInv, NEW x \in Commands,
           \/ Submit(x) \/ Park(x) \/ QueueForLock(x) \/ Recheck(x)
           \/ Expire(x) \/ GiveUp(x) \/ Cancel(x)
    PROVE  OrderInv'
<1>1. pc \in [Commands -> PCs]
    BY DEF OInv, RInv, IInv, TypeOK
<1>2. UNCHANGED <<age, commands_to_send, wire, reading>>
    BY DEF Submit, Park, QueueForLock, Recheck, Expire, GiveUp, Cancel
<1>3. \A c, d : First(c, d)' => First(c, d)
  <2>1. CASE TakeReply(x)
    BY <1>2, <2>1, TakeReplyAhead DEF OInv, First, Queued, InTransit, Parsed, Kept
  <2>2. CASE UNCHANGED commands_received
    BY <1>2, <2>2, FirstSame
  <2> QED
    BY <2>1, <2>2 DEF Submit, Park, QueueForLock, Recheck, Expire, GiveUp, Cancel
<1>4. /\ \A c \in Commands \ {x} : pc'[c] = pc[c]
      /\ pc'[x] \in {"idle", "slot"} => pc[x] \in {"idle", "slot"}
      /\ pc'[x] = "expired" => pc[x] = "expired" \/ Expired(x)
      /\ pc'[x] = "timeout" =>
            pc[x] \in {"timeout", "expired"} \/ (pc[x] \in InFlight /\ Expired(x))
      /\ pc'[x] \in InFlight => pc[x] \in InFlight
  <2>1. CASE Submit(x)
    BY <1>1, <2>1 DEF Submit
  <2>2. CASE Park(x)
    BY <1>1, <2>2 DEF Park, ReleaseSlot
  <2>3. CASE QueueForLock(x)
    BY <1>1, <2>3 DEF QueueForLock
  <2>4. CASE Recheck(x)
    BY <1>1, <2>4 DEF Recheck, ReleaseSlot
  <2>5. CASE Expire(x)
    BY <1>1, <2>5 DEF Expire
  <2>6. CASE GiveUp(x)
    BY <1>1, <2>6 DEF GiveUp, ReleaseSlot
  <2>7. CASE Cancel(x)
    BY <1>1, <2>7 DEF Cancel, ReleaseSlot
  <2> QED
    BY <2>1, <2>2, <2>3, <2>4, <2>5, <2>6, <2>7
<1> QED
    BY <1>2, <1>3, <1>4, OrderStands

(* Writer, router and reader keep the order. *)
LEMMA TransportOrder ==
    ASSUME OInv,
           \/ WriterSend \/ RouterIgnore \/ ReaderRead \/ ReaderStore
           \/ Prune \/ LinkDown \/ LinkUp \/ UNCHANGED vars
    PROVE  OrderInv'
<1>1. /\ commands_to_send \in Seq(Commands) /\ wire \in Seq(Commands)
      /\ commands_received \in Seq(Commands)
    BY DEF OInv, RInv, IInv, TypeOK
<1>2. None \notin Commands
    BY CommandsAssumption
<1>3. /\ UNCHANGED age
      /\ \A c \in Commands : pc'[c] = pc[c] \/ (pc[c] = "parked" /\ pc'[c] = "notified")
    BY DEF WriterSend, RouterIgnore, ReaderRead, ReaderStore, Prune, LinkDown, LinkUp, vars
<1>4. ASSUME NEW c \in Commands, NEW d \in Commands, First(c, d)'
      PROVE  First(c, d)
  <2>1. CASE WriterSend
    <3> DEFINE x == Head(commands_to_send)
    <3>1. /\ commands_to_send # <<>> /\ commands_to_send' = Tail(commands_to_send)
          /\ wire' = Append(wire, x) /\ UNCHANGED <<reading, commands_received>>
      BY <2>1 DEF WriterSend
    <3>2. /\ x \in Commands /\ Queued(x)
          /\ \A y : Contains(commands_to_send', y) => Queued(y) /\ Precedes(commands_to_send, x, y)
          /\ Precedes(commands_to_send', c, d) => Precedes(commands_to_send, c, d)
      BY <1>1, <3>1, QueueTail, PrecedesTail DEF Queued
    <3>3. /\ \A y : Contains(wire', y) <=> InTransit(y) \/ y = x
          /\ Precedes(wire', c, d) => Precedes(wire, c, d) \/ (d = x /\ InTransit(c))
      BY <1>1, <3>1, <3>2, QueueAppend, PrecedesAppend DEF InTransit
    <3> HIDE DEF x
    <3> QED
      BY <1>4, <3>1, <3>2, <3>3 DEF First, Queued, InTransit, Parsed, Kept
  <2>2. CASE RouterIgnore
    <3>1. /\ wire # <<>> /\ wire' = Tail(wire)
          /\ UNCHANGED <<commands_to_send, reading, commands_received>>
      BY <2>2 DEF RouterIgnore
    <3>2. /\ \A y : Contains(wire', y) => InTransit(y)
          /\ Precedes(wire', c, d) => Precedes(wire, c, d)
      BY <1>1, <3>1, QueueTail, PrecedesTail DEF InTransit
    <3> QED
      BY <1>4, <3>1, <3>2 DEF First, Queued, InTransit, Parsed, Kept
  <2>3. CASE ReaderRead
    <3>1. /\ wire # <<>> /\ wire' = Tail(wire) /\ reading' = Head(wire)
          /\ UNCHANGED <<commands_to_send, commands_received>>
      BY <2>3 DEF ReaderRead
    <3>2. /\ InTransit(Head(wire))
          /\ \A y : Contains(wire', y) => InTransit(y) /\ Precedes(wire, Head(wire), y)
          /\ Precedes(wire', c, d) => Precedes(wire, c, d)
      BY <1>1, <3>1, QueueTail, PrecedesTail DEF InTransit
    <3> QED
      BY <1>4, <3>1, <3>2 DEF First, Queued, InTransit, Parsed, Kept
  <2>4. CASE ReaderStore
    <3>1. /\ commands_received' = Append(commands_received, reading) /\ reading' = None
          /\ UNCHANGED <<commands_to_send, wire>>
      BY <2>4 DEF ReaderStore
    <3>2. reading \in Commands
      BY <2>4, LockReleased DEF ReaderStore, OInv, RInv, IInv, LockInv, TypeOK
    <3>3. /\ \A y : Contains(commands_received', y) <=> Kept(y) \/ y = reading
          /\ Precedes(commands_received', c, d) =>
                Precedes(commands_received, c, d) \/ (d = reading /\ Kept(c))
      BY <1>1, <3>1, <3>2, QueueAppend, PrecedesAppend DEF Kept
    <3> QED
      BY <1>2, <1>4, <3>1, <3>3 DEF First, Queued, InTransit, Parsed, Kept
  <2>5. CASE Prune
    <3> DEFINE stale == Len(commands_received) - MaxUnmatched
    <3>1. /\ stale \in Nat /\ stale <= Len(commands_received)
          /\ commands_received' = SubSeq(commands_received, stale + 1, Len(commands_received))
          /\ UNCHANGED <<commands_to_send, wire, reading>>
      BY <1>1, <2>5, LenProperties, BoundsAssumption DEF Prune
    <3> HIDE DEF stale
    <3>2. /\ \A y : Contains(commands_received', y) => Kept(y)
          /\ Precedes(commands_received', c, d) => Precedes(commands_received, c, d)
      BY <1>1, <3>1, QueueSuffix, PrecedesSuffix DEF Kept
    <3> QED
      BY <1>4, <3>1, <3>2 DEF First, Queued, InTransit, Parsed, Kept
  <2>6. CASE LinkDown
    <3>1. wire' = <<>> /\ reading' = None /\ UNCHANGED <<commands_to_send, commands_received>>
      BY <2>6 DEF LinkDown
    <3>2. ~Precedes(wire', c, d) /\ \A y : ~Contains(wire', y)
      BY <3>1 DEF Precedes, Contains
    <3> QED
      BY <1>2, <1>4, <3>1, <3>2 DEF First, Queued, InTransit, Parsed, Kept
  <2>7. CASE LinkUp \/ UNCHANGED vars
    <3>1. UNCHANGED <<commands_to_send, wire, reading, commands_received>>
      BY <2>7 DEF LinkUp, vars
    <3> QED
      BY <1>4, <3>1, FirstSame
  <2> QED
    BY <2>1, <2>2, <2>3, <2>4, <2>5, <2>6, <2>7
<1> QED
    BY <1>3, <1>4, OrderStands

(* Time passes for all commands in flight at once. *)
LEMMA TickOrder ==
    ASSUME OInv, Tick
    PROVE  OrderInv'
<1>1. /\ UNCHANGED <<pc, slots, commands_to_send, wire, reading, commands_received>>
      /\ \A c \in Holders : pc[c] = "parked" /\ ~Expired(c)
      /\ \A c \in Commands : age'[c] = IF c \in Holders THEN age[c] + 1 ELSE age[c]
    BY DEF Tick
<1>2. \A c \in Commands : age[c] \in 0..ResponseTimeout /\ (c \in Holders <=> pc[c] \in InFlight)
    BY DEF OInv, RInv, IInv, TypeOK, Holders
<1>3. \A c, d : First(c, d)' <=> First(c, d)
    BY <1>1, FirstSame
<1>4. \A c, d \in Commands : First(c, d) /\ c \in Holders => age[d] <= age[c]
    BY <1>2 DEF OInv, OrderInv
<1>5. ASSUME NEW c \in Commands
      PROVE  /\ pc'[c] \in {"idle", "slot"} => age'[c] = 0
             /\ pc'[c] \in {"expired", "timeout"} => age'[c] = ResponseTimeout
    BY <1>1, <1>2 DEF OInv, OrderInv
<1>6. ASSUME NEW c \in Commands, NEW d \in Commands, First(c, d)', pc'[c] \in InFlight
      PROVE  age'[d] <= age'[c]
  <2>1. c \in Holders /\ age[d] <= age[c]
    BY <1>1, <1>2, <1>3, <1>4, <1>6
  <2>2. age'[c] = age[c] + 1 /\ age'[d] <= age[d] + 1
    BY <1>1, <1>2, <2>1
  <2> QED
    BY <1>1, <1>2, <2>1, <2>2
<1>7. ASSUME NEW c \in Commands, pc'[c] \in InFlight
      PROVE  Cardinality(Peers(c)') < MaxConcurrent
  <2>1. c \in Holders /\ age[c] < ResponseTimeout
    BY <1>1, <1>2, <1>7, BoundsAssumption DEF Expired
  <2>2. ASSUME NEW d \in Peers(c)'
        PROVE  d \in Holders \ {c}
    <3>1. d \in Commands \ {c} /\ First(c, d) /\ age'[d] = ResponseTimeout
      BY <1>3 DEF Peers
    <3>2. age[d] <= age[c]
      BY <1>4, <2>1, <3>1
    <3>3. age[d] # ResponseTimeout
      BY <1>2, <2>1, <3>1, <3>2
    <3> QED
      BY <1>1, <3>1, <3>3
  <2>3. Cardinality(Holders \ {c}) <= MaxConcurrent - 1 /\ Cardinality(Holders \ {c}) \in Nat
    BY <2>1, OthersInFlight
  <2>4. Cardinality(Peers(c)') <= Cardinality(Holders \ {c}) /\ Cardinality(Peers(c)') \in Nat
    <3>1. Holders \ {c} \subseteq Commands
      BY DEF Holders
    <3> QED
      BY <2>2, <3>1, FewerOf
  <2> QED
    BY <2>3, <2>4, BoundsAssumption
<1> QED
    BY <1>5, <1>6, <1>7 DEF OrderInv

LEMMA InitOInv == Init => OInv
<1> SUFFICES ASSUME Init PROVE OInv
    OBVIOUS
<1>1. \A c, d \in Commands : ~First(c, d)
    BY CommandsAssumption DEF Init, First, Precedes, Queued, InTransit, Parsed, Kept, Contains
<1> QED
    BY <1>1, InitRInv DEF Init, OInv, OrderInv

LEMMA NextOInv == OInv /\ [Next]_vars => OInv'
<1> SUFFICES ASSUME OInv, [Next]_vars PROVE OInv'
    OBVIOUS
<1>1. RInv'
    BY NextRInv DEF OInv
<1>2. ASSUME NEW c \in Commands, Submit(c) \/ CommandStep(c) \/ Cancel(c)
      PROVE  OrderInv'
    BY <1>2, AcquireSlotOrder, CommandOrder DEF CommandStep
<1>3. OrderInv'
    BY <1>2, TransportOrder, TickOrder DEF Next
<1> QED
    BY <1>1, <1>3 DEF OInv

-----------------------------------------------------------------------------
(* Behind the reply of a waiting command there are at most the replies of the   *)
(* others in flight and of its peers. *)
LEMMA PruneSpares ==
    ASSUME OInv, KeepsEnough, Prune, Range(commands_received) \intersect Orphans = {},
           NEW c \in Commands, Kept(c), pc[c] \in InFlight \ Leaving
    PROVE  Contains(commands_received', c)
<1> DEFINE n == Len(commands_received)
           stale == n - MaxUnmatched
           Behind == {commands_received[i] : i \in stale + 1..n}
<1>1. commands_received \in Seq(Commands) /\ n \in Nat /\ Distinct(commands_received)
    BY LenProperties DEF OInv, RInv, IInv, TypeOK, PlaceInv
<1>2. /\ stale \in Nat \ {0} /\ MaxUnmatched \in Nat /\ MaxConcurrent \in Nat \ {0}
      /\ commands_received' = SubSeq(commands_received, stale + 1, n)
    BY <1>1, BoundsAssumption DEF Prune
<1>3. PICK k \in 1..n : commands_received[k] = c
    BY DEF Kept, Contains
<1>4. CASE k > stale
  <2>1. /\ Len(commands_received') = n - stale
        /\ \A j \in 1..n - stale : commands_received'[j] = commands_received[stale + j]
    BY <1>1, <1>2, SubSeqProperties
  <2>2. k - stale \in 1..Len(commands_received') /\ commands_received'[k - stale] = c
    BY <1>1, <1>2, <1>3, <1>4, <2>1
  <2> QED
    BY <2>2 DEF Contains
<1>5. CASE k <= stale
  <2>1. \A i \in stale + 1..n : i \in 1..n /\ k < i
    BY <1>1, <1>2, <1>3, <1>5
  <2>2. ASSUME NEW i \in stale + 1..n
        PROVE  commands_received[i] \in (Holders \ {c}) \union Peers(c)
    <3> DEFINE d == commands_received[i]
    <3>1. i \in 1..n /\ k < i /\ d \in Commands
      BY <1>1, <2>1, ElementOfSeq
    <3>2. d # c
      BY <1>1, <1>3, <3>1 DEF Distinct
    <3>3. Precedes(commands_received, c, d) /\ Kept(d)
      BY <1>3, <3>1 DEF Precedes, Kept, Contains
    <3>4. d \notin Orphans
      BY <3>1 DEF Range
    <3>5. pc[d] \notin {"idle", "slot"} /\ pc[d] \in PCs
      BY <3>1, <3>3 DEF OInv, RInv, PlaceInv, OnePlace, IInv, TypeOK
    <3> HIDE DEF d
    <3>6. pc[d] \in InFlight \union {"timeout"}
      BY <3>1, <3>4, <3>5 DEF Orphans
    <3>7. pc[d] \in InFlight => d \in Holders \ {c}
      BY <3>1, <3>2 DEF Holders
    <3>8. pc[d] = "timeout" => d \in Peers(c)
      <4>1. pc[d] = "timeout" => age[d] = ResponseTimeout
        BY <3>1 DEF OInv, OrderInv
      <4>2. First(c, d)
        BY <3>3 DEF First
      <4> QED
        BY <3>1, <3>2, <4>1, <4>2 DEF Peers
    <3>9. d \in (Holders \ {c}) \union Peers(c)
      BY <3>6, <3>7, <3>8
    <3> QED
      BY <3>9 DEF d
  <2>3. Cardinality(Behind) = MaxUnmatched
    <3> DEFINE I == stale + 1..n
               f == [i \in I |-> commands_received[i]]
    <3>1. Cardinality(I) = MaxUnmatched /\ IsFiniteSet(I)
      BY <1>1, <1>2, FS_Interval
    <3>2. \A i, j \in I : commands_received[i] = commands_received[j] => i = j
      BY <1>1, <2>1 DEF Distinct
    <3>3. f \in [I -> Behind] /\ \A i \in I : f[i] = commands_received[i]
      OBVIOUS
    <3>4. \A d \in Behind : \E i \in I : f[i] = d
      OBVIOUS
    <3> HIDE DEF I, f, Behind
    <3>5. f \in Injection(I, Behind) /\ f \in Surjection(I, Behind)
      BY <3>2, <3>3, <3>4 DEF Injection, IsInjective, Surjection
    <3>6. ExistsBijection(I, Behind)
      BY <3>5 DEF ExistsBijection, Bijection
    <3> QED
      BY <3>1, <3>6, FS_Bijection
  <2>4. Cardinality((Holders \ {c}) \union Peers(c)) <= 2 * MaxConcurrent - 2
    <3>1. c \in Holders
      BY DEF Holders
    <3>2. Cardinality(Holders \ {c}) <= MaxConcurrent - 1
      BY <3>1, OthersInFlight
    <3>3. Cardinality(Peers(c)) < MaxConcurrent
      BY DEF OInv, OrderInv
    <3>4. /\ IsFiniteSet(Holders \ {c}) /\ IsFiniteSet(Peers(c))
          /\ Cardinality(Holders \ {c}) \in Nat /\ Cardinality(Peers(c)) \in Nat
      <4>1. Holders \ {c} \subseteq Commands /\ Peers(c) \subseteq Commands
        BY DEF Holders, Peers
      <4> QED
        BY <4>1, FewerOf
    <3>5. /\ Cardinality((Holders \ {c}) \union Peers(c)) =
                Cardinality(Holders \ {c}) + Cardinality(Peers(c))
                    - Cardinality((Holders \ {c}) \intersect Peers(c))
          /\ Cardinality((Holders \ {c}) \intersect Peers(c)) \in Nat
          /\ Cardinality((Holders \ {c}) \union Peers(c)) \in Nat
      BY <3>4, FS_Union, FS_Intersection, FS_CardinalityType
    <3> QED
      BY <1>2, <3>2, <3>3, <3>4, <3>5
  <2>5. Cardinality(Behind) <= Cardinality((Holders \ {c}) \union Peers(c))
        /\ Cardinality((Holders \ {c}) \union Peers(c)) \in Nat
    <3>1. Behind \subseteq (Holders \ {c}) \union Peers(c)
      BY <2>2
    <3>2. (Holders \ {c}) \union Peers(c) \subseteq Commands
      BY DEF Holders, Peers
    <3> QED
      BY <3>1, <3>2, FewerOf
  <2> QED
    BY <1>2, <2>3, <2>4, <2>5 DEF KeepsEnough
<1> QED
    BY <1>1, <1>2, <1>3, <1>4, <1>5

(* However many commands time out, and however late their replies come, pruning  *)
(* to twice the number of slots, less one, drops no reply somebody waits for, as  *)
(* long as no orphan takes its place. *)
THEOREM PruneDropsNoneAwaited ==
    ASSUME KeepsEnough
    PROVE  Spec => PruneSparesAwaited
<1>1. OInv /\ [Next]_vars =>
        [Prune /\ Range(commands_received) \intersect Orphans = {} =>
            \A c \in Commands :
                Contains(commands_received, c) /\ pc[c] \in InFlight \ Leaving
                    => Contains(commands_received', c)]_vars
    BY PruneSpares DEF Kept
<1> QED
    BY <1>1, InitOInv, NextOInv, PTL DEF Spec, PruneSparesAwaited
=============================================================================
