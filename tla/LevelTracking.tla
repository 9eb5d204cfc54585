---------------------------- MODULE LevelTracking ----------------------------
(***************************************************************************)
(* The load level of one device, over the command engine.  The commands     *)
(* that expect no reply are DIRECT_LEVEL_DEVICE, all others are queries of   *)
(* the level.  set_device_load_level keeps the level as soon as the command *)
(* is queued for the writer, long before the router has it; a query keeps   *)
(* the result of its reply, which may be long ago, and which may be the     *)
(* code of an error: update_device does not look at the type of the reply.  *)
(*                                                                         *)
(* The router answers and executes in the order of the wire, so that it may *)
(* be taken to execute a command when it leaves the wire.  There is one     *)
(* wire: two connections that overlap would deliver in any order.           *)
(***************************************************************************)
EXTENDS CommandEngine

CONSTANTS Level,    \* the level each command of NoReply sets
          Initial,  \* the level at first
          ErrorCode, \* the result of an error reply, a number like any level
          MaxErrors \* bound: queries answered otherwise than with a level

(* A key begins with the type of the command: what sets a level is no query. *)
ASSUME LevelsAssumption ==
    /\ Level \in [NoReply -> 0..100] /\ Initial \in 0..100 /\ ErrorCode \in Nat
    /\ None \notin Nat /\ MaxErrors \in Nat
    /\ \A c \in NoReply, d \in Commands \ NoReply : Key[c] # Key[d]

VARIABLES
    load_level, \* of the Device
    lamp,       \* of the lamp
    said,       \* type and result of the router's reply to each query
    misled,     \* history: what is kept as the level is the code of an error
    uncertain   \* history: a level was set while a query was under way, or lost

levelVars == <<load_level, lamp, said, misled, uncertain>>
lvars == <<vars, levelVars>>

(* The level once the commands of s are executed as well. *)
Executed(s, level) ==
    LET sets(c) == c \in NoReply
        last == SelectLastInSeq(s, sets)
    IN IF last = 0 THEN level ELSE Level[s[last]]

(* Where the lamp is heading. *)
Heading == Executed(wire \o commands_to_send, lamp)

(* Replies, and queries to be answered, that may still become the level *)
Pending ==
    (Range(commands_to_send) \union Range(wire) \union Range(commands_received)
        \union {reading}) \ (NoReply \union {None})

Says(level) == [type |-> "REPLY", result |-> level]
NoLevel == {[type |-> "ERROR", result |-> ErrorCode], Says(None)}

LInit ==
    /\ Init
    /\ load_level = Initial /\ lamp = Initial
    /\ said = [c \in Commands |-> Says(Initial)]
    /\ misled = FALSE /\ uncertain = FALSE

(* update_device_load_level with the result of a reply: float() raises
   TypeError when there is none. *)
KeepsResult(reply) ==
    IF reply.result = None THEN UNCHANGED <<load_level, misled>>
    ELSE load_level' = reply.result /\ misled' = (reply.type = "ERROR")

(* Mutant: the level is kept before the command has its slot. *)
KeepsEarly(c) ==
    IF pc[c] # "slot" /\ pc'[c] = "slot" /\ c \in NoReply
      THEN load_level' = Level[c] /\ misled' = FALSE
      ELSE IF pc'[c] = "answered" THEN KeepsResult(said[result'[c]])
      ELSE UNCHANGED <<load_level, misled>>

(* What follows the command in the same turn of the event loop *)
Keeps(c) ==
    CASE pc'[c] = "sent" /\ pc[c] # "sent" -> load_level' = Level[c] /\ misled' = FALSE
      [] pc'[c] = "answered" /\ pc[c] # "answered" -> KeepsResult(said[result'[c]])
      [] OTHER -> UNCHANGED <<load_level, misled>>

LCommand(c) ==
    /\ Submit(c) \/ CommandStep(c) \/ Cancel(c)
    /\ Keeps(c)
    /\ uncertain' = IF pc'[c] = "sent" THEN Pending # {} ELSE uncertain
    /\ UNCHANGED <<lamp, said>>

(* What the router may say to query c: its level, an error, or nothing. *)
Answers(c) ==
    {Says(lamp)} \union
        IF c \notin NoReply /\ Cardinality({d \in Commands : said[d] \in NoLevel}) < MaxErrors
          THEN NoLevel ELSE {}

(* The router is done with the command at the head of the wire. *)
LRouter ==
    /\ \/ RouterIgnore /\ UNCHANGED said
       \/ ReaderRead /\ \E answer \in Answers(Head(wire)) :
                            said' = [said EXCEPT ![Head(wire)] = answer]
    /\ lamp' = Executed(<<Head(wire)>>, lamp)
    /\ UNCHANGED <<load_level, misled, uncertain>>

(* Some of the commands on the wire were executed. *)
LLinkDown ==
    /\ LinkDown
    /\ \E n \in 0..Len(wire) : lamp' = Executed(SubSeq(wire, 1, n), lamp)
    /\ uncertain' = (uncertain \/ Range(wire) \intersect NoReply # {})
    /\ UNCHANGED <<load_level, said, misled>>

LNext ==
    \/ \E c \in Commands : LCommand(c)
    \/ LRouter \/ LLinkDown
    \/ (WriterSend \/ ReaderStore \/ Prune \/ LinkUp \/ Tick) /\ UNCHANGED levelVars

LSpec == LInit /\ [][LNext]_lvars /\ Fairness

-----------------------------------------------------------------------------
(* devices.py:295 - "This is causing a race condition."  The level a device is
   given is the one the lamp is heading for, whatever commands, queries, late
   replies and lost connections follow, if no query was under way when it was
   given and the command was not lost: commands overtake each other nowhere
   between the semaphore and the router of one connection.  The code of an error
   reply is kept as a level, but no longer than until the next level is set, or
   the next reply kept that has one. *)
LevelAgrees == ~uncertain /\ ~misled => load_level = Heading
=============================================================================
