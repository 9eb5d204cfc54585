------------------------------ MODULE LevelProofs ------------------------------
(***************************************************************************)
(* The level of a device is the one its lamp is heading for, for any        *)
(* commands, queries and replies over one connection at a time, and what a  *)
(* conversion of levels may lose.                                           *)
(***************************************************************************)
EXTENDS LevelTracking, CommandEngineRefinement, Levels

-----------------------------------------------------------------------------
(* What a line of commands does to the level of the lamp *)

Sets(s, i) == s[i] \in NoReply

(* The last command that sets a level decides; a line without one sets none. *)
LEMMA ExecutedIs ==
    ASSUME NEW s \in Seq(Commands), NEW level
    PROVE  /\ (\A i \in 1..Len(s) : ~Sets(s, i)) => Executed(s, level) = level
           /\ \A i \in 1..Len(s) :
                Sets(s, i) /\ (\A j \in i + 1..Len(s) : ~Sets(s, j))
                    => Executed(s, level) = Level[s[i]]
<1> DEFINE I == {i \in 1..Len(s) : Sets(s, i)}
           last == IF I # {} THEN Max(I) ELSE 0
<1>1. Len(s) \in Nat
    BY LenProperties
<1>2. Executed(s, level) = IF last = 0 THEN level ELSE Level[s[last]]
    BY DEF Executed, SelectLastInSeq, Sets
<1>3. ASSUME NEW i \in 1..Len(s), Sets(s, i), \A j \in i + 1..Len(s) : ~Sets(s, j)
      PROVE  last = i
  <2>1. i \in I /\ \A y \in I : y \in 1..Len(s) /\ Sets(s, y)
    BY <1>3
  <2>2. \A y \in I : i >= y
    BY <1>1, <1>3, <2>1
  <2>3. \A x \in I : (\A y \in I : x >= y) => x = i
    BY <1>1, <2>1, <2>2
  <2> HIDE DEF I
  <2>4. Max(I) = i
    BY <2>1, <2>2, <2>3 DEF Max
  <2> QED
    BY <2>1, <2>4
<1>4. (\A i \in 1..Len(s) : ~Sets(s, i)) => last = 0
    OBVIOUS
<1> HIDE DEF last
<1> QED
    BY <1>1, <1>2, <1>3, <1>4

(* If any command sets a level, one is the last that does. *)
LEMMA SomeLast ==
    ASSUME NEW s \in Seq(Commands), \E i \in 1..Len(s) : Sets(s, i)
    PROVE  \E i \in 1..Len(s) : Sets(s, i) /\ \A j \in i + 1..Len(s) : ~Sets(s, j)
<1> DEFINE T == {n \in Nat : \E i \in 1..Len(s) : Sets(s, i) /\ n = Len(s) - i}
<1>1. Len(s) \in Nat
    BY LenProperties
<1>2. T \subseteq Nat /\ T # {}
  <2>1. PICK i \in 1..Len(s) : Sets(s, i)
    OBVIOUS
  <2>2. Len(s) - i \in T
    BY <1>1, <2>1
  <2> QED
    BY <2>2
<1>3. PICK n \in T : \A m \in T : n <= m
  <2> HIDE DEF T
  <2> QED
    BY <1>2, LeastOf
<1>4. PICK i \in 1..Len(s) : Sets(s, i) /\ n = Len(s) - i
    OBVIOUS
<1>5. ASSUME NEW j \in i + 1..Len(s), Sets(s, j) PROVE FALSE
  <2>1. j \in 1..Len(s) /\ Len(s) - j \in Nat /\ Len(s) - j < n
    BY <1>1, <1>4
  <2>2. Len(s) - j \in T
    BY <1>5, <2>1
  <2>3. n <= Len(s) - j /\ n \in Nat
    BY <1>3, <2>2
  <2> QED
    BY <2>1, <2>3
<1> QED
    BY <1>4, <1>5

LEMMA ExecutedAppend ==
    ASSUME NEW s \in Seq(Commands), NEW c \in Commands, NEW level
    PROVE  Executed(Append(s, c), level) = IF c \in NoReply THEN Level[c] ELSE Executed(s, level)
<1> DEFINE t == Append(s, c)
<1>1. /\ t \in Seq(Commands) /\ Len(s) \in Nat /\ Len(t) = Len(s) + 1
      /\ t[Len(s) + 1] = c /\ \A i \in 1..Len(s) : t[i] = s[i]
    BY LenProperties, AppendProperties
<1> HIDE DEF t
<1>2. CASE c \in NoReply
  <2>1. Len(t) \in 1..Len(t) /\ t[Len(t)] = c /\ Len(t) + 1..Len(t) = {}
    BY <1>1
  <2>2. Executed(t, level) = Level[c]
    BY <1>1, <1>2, <2>1, ExecutedIs DEF Sets
  <2> QED
    BY <1>2, <2>2 DEF t
<1>3. CASE c \notin NoReply /\ \E i \in 1..Len(s) : Sets(s, i)
  <2>1. PICK i \in 1..Len(s) : Sets(s, i) /\ \A j \in i + 1..Len(s) : ~Sets(s, j)
    BY <1>3, SomeLast
  <2>2. Executed(s, level) = Level[s[i]]
    BY <2>1, ExecutedIs
  <2>3. i \in 1..Len(t) /\ Sets(t, i) /\ t[i] = s[i] /\ \A j \in i + 1..Len(t) : ~Sets(t, j)
    BY <1>1, <1>3, <2>1 DEF Sets
  <2>4. Executed(t, level) = Level[t[i]]
    BY <1>1, <2>3, ExecutedIs
  <2> QED
    BY <1>3, <2>2, <2>3, <2>4 DEF t
<1>4. CASE c \notin NoReply /\ \A i \in 1..Len(s) : ~Sets(s, i)
  <2>1. \A i \in 1..Len(t) : ~Sets(t, i)
    BY <1>1, <1>4 DEF Sets
  <2>2. Executed(t, level) = level /\ Executed(s, level) = level
    BY <1>1, <1>4, <2>1, ExecutedIs
  <2> QED
    BY <1>4, <2>2 DEF t
<1> QED
    BY <1>2, <1>3, <1>4

LEMMA ExecutedTail ==
    ASSUME NEW s \in Seq(Commands), s # <<>>, NEW level
    PROVE  Executed(Tail(s), Executed(<<Head(s)>>, level)) = Executed(s, level)
<1> DEFINE t == Tail(s)
           h == <<Head(s)>>
           l == Executed(h, level)
<1>1. /\ t \in Seq(Commands) /\ Len(s) \in Nat \ {0} /\ Len(t) = Len(s) - 1
      /\ Head(s) = s[1] /\ \A i \in 1..Len(t) : t[i] = s[i + 1]
    BY LenProperties, EmptySeq, HeadTailProperties
<1>2. h \in Seq(Commands) /\ Len(h) = 1 /\ h[1] = s[1]
    BY <1>1, ElementOfSeq
<1>3. l = IF Sets(s, 1) THEN Level[s[1]] ELSE level
  <2>1. 1 \in 1..Len(h) /\ 1 + 1..Len(h) = {} /\ \A i \in 1..Len(h) : i = 1
    BY <1>2
  <2> HIDE DEF h
  <2>2. CASE Sets(s, 1)
    BY <1>2, <2>1, <2>2, ExecutedIs DEF Sets
  <2>3. CASE ~Sets(s, 1)
    BY <1>2, <2>1, <2>3, ExecutedIs DEF Sets
  <2> QED
    BY <2>2, <2>3
<1> HIDE DEF t, h, l
<1>4. CASE \E i \in 1..Len(t) : Sets(t, i)
  <2>1. PICK i \in 1..Len(t) : Sets(t, i) /\ \A j \in i + 1..Len(t) : ~Sets(t, j)
    BY <1>1, <1>4, SomeLast
  <2>2. Executed(t, l) = Level[t[i]]
    BY <1>1, <2>1, ExecutedIs
  <2>3. i + 1 \in 1..Len(s) /\ Sets(s, i + 1) /\ t[i] = s[i + 1]
    BY <1>1, <2>1 DEF Sets
  <2>4. ASSUME NEW j \in i + 2..Len(s) PROVE ~Sets(s, j)
    <3>1. j - 1 \in i + 1..Len(t) /\ t[j - 1] = s[j]
      BY <1>1
    <3> QED
      BY <2>1, <3>1 DEF Sets
  <2>5. Executed(s, level) = Level[s[i + 1]]
    BY <1>1, <2>3, <2>4, ExecutedIs
  <2> QED
    BY <2>2, <2>3, <2>5 DEF t, l, h
<1>5. CASE \A i \in 1..Len(t) : ~Sets(t, i)
  <2>1. Executed(t, l) = l
    BY <1>1, <1>5, ExecutedIs
  <2>2. ASSUME NEW j \in 2..Len(s) PROVE ~Sets(s, j)
    <3>1. j - 1 \in 1..Len(t) /\ t[j - 1] = s[j]
      BY <1>1
    <3> QED
      BY <1>5, <3>1 DEF Sets
  <2>3. CASE Sets(s, 1)
    <3>1. Executed(s, level) = Level[s[1]]
      BY <1>1, <2>2, <2>3, ExecutedIs
    <3> QED
      BY <1>3, <2>1, <2>3, <3>1 DEF t, l, h
  <2>4. CASE ~Sets(s, 1)
    <3>1. \A j \in 1..Len(s) : ~Sets(s, j)
      BY <1>1, <2>2, <2>4
    <3>2. Executed(s, level) = level
      BY <3>1, ExecutedIs
    <3> QED
      BY <1>3, <2>1, <2>4, <3>2 DEF t, l, h
  <2> QED
    BY <2>3, <2>4
<1> QED
    BY <1>4, <1>5

-----------------------------------------------------------------------------
(* All that is on its way to the router *)
Line == wire \o commands_to_send
NoSets == \A i \in 1..Len(Line) : ~Sets(Line, i)

(* Replies that may still become the level *)
Replies == {d \in Commands \ NoReply : Kept(d) \/ Parsed(d)}

(* A reply that has a level has the lamp's. *)
Honest(d) == said[d] \in NoLevel \union {Says(lamp)}

(* While the level is certain, queries follow what sets it, all the way. *)
LevelOK ==
    ~uncertain =>
        /\ ~misled => load_level = Heading
        /\ \A i, j \in 1..Len(Line) : i < j /\ ~Sets(Line, i) => ~Sets(Line, j)
        /\ Replies # {} => NoSets
        /\ \A d \in Replies : Honest(d)

LInv == RInv /\ DOMAIN said = Commands /\ LevelOK

LEMMA LineIs ==
    ASSUME TypeOK
    PROVE  /\ Line \in Seq(Commands) /\ wire \in Seq(Commands) /\ commands_to_send \in Seq(Commands)
           /\ Len(wire) \in Nat /\ Len(commands_to_send) \in Nat
           /\ Len(Line) = Len(wire) + Len(commands_to_send)
           /\ \A i \in 1..Len(wire) : Line[i] = wire[i]
           /\ \A i \in 1..Len(commands_to_send) : Line[Len(wire) + i] = commands_to_send[i]
<1>1. wire \in Seq(Commands) /\ commands_to_send \in Seq(Commands)
    BY DEF TypeOK
<1>2. Len(wire) \in Nat /\ Len(commands_to_send) \in Nat
    BY <1>1, LenProperties
<1>3. /\ Line \in Seq(Commands) /\ Len(Line) = Len(wire) + Len(commands_to_send)
      /\ \A i \in 1..Len(wire) + Len(commands_to_send) :
            Line[i] = IF i <= Len(wire) THEN wire[i] ELSE commands_to_send[i - Len(wire)]
    BY <1>1, ConcatProperties DEF Line
<1>4. ASSUME NEW i \in 1..Len(commands_to_send)
      PROVE  Line[Len(wire) + i] = commands_to_send[i]
  <2>1. /\ Len(wire) + i \in 1..Len(wire) + Len(commands_to_send)
        /\ ~(Len(wire) + i <= Len(wire)) /\ Len(wire) + i - Len(wire) = i
    BY <1>2
  <2> QED
    BY <1>3, <2>1
<1>5. ASSUME NEW i \in 1..Len(wire)
      PROVE  Line[i] = wire[i]
  <2>1. i \in 1..Len(wire) + Len(commands_to_send) /\ i <= Len(wire)
    BY <1>2
  <2> QED
    BY <1>3, <2>1
<1> QED
    BY <1>1, <1>2, <1>3, <1>4, <1>5, Zenon

(* A command is queued for the writer, written, and leaves the wire. *)
LEMMA LineQueued ==
    ASSUME TypeOK, NEW c \in Commands, wire' = wire,
           commands_to_send' = Append(commands_to_send, c)
    PROVE  Line' = Append(Line, c)
<1>1. /\ wire \in Seq(Commands) /\ commands_to_send \in Seq(Commands) /\ Line \in Seq(Commands)
      /\ <<c>> \in Seq(Commands)
    BY LineIs
<1>2. Append(commands_to_send, c) = commands_to_send \o <<c>> /\ Append(Line, c) = Line \o <<c>>
    BY <1>1, AppendIsConcat
<1>3. (wire \o commands_to_send) \o <<c>> = wire \o (commands_to_send \o <<c>>)
    BY <1>1, ConcatAssociative
<1> QED
    BY <1>2, <1>3 DEF Line

LEMMA LineWritten ==
    ASSUME TypeOK, WriterSend
    PROVE  Line' = Line
<1> DEFINE h == Head(commands_to_send)
           t == Tail(commands_to_send)
<1>1. /\ wire \in Seq(Commands) /\ commands_to_send \in Seq(Commands)
      /\ commands_to_send # <<>> /\ Line' = Append(wire, h) \o t
    BY LineIs DEF WriterSend, Line
<1>2. h \in Commands /\ t \in Seq(Commands) /\ <<h>> \in Seq(Commands)
      /\ Len(t) = Len(commands_to_send) - 1
      /\ \A i \in 1..Len(t) : t[i] = commands_to_send[i + 1]
    BY <1>1, HeadTailProperties
<1>3. commands_to_send = <<h>> \o t
  <2>1. /\ <<h>> \o t \in Seq(Commands) /\ Len(<<h>> \o t) = 1 + Len(t)
        /\ \A i \in 1..1 + Len(t) : (<<h>> \o t)[i] = IF i <= 1 THEN <<h>>[i] ELSE t[i - 1]
    BY <1>2, ConcatProperties
  <2>2. Len(commands_to_send) \in Nat \ {0} /\ h = commands_to_send[1]
    BY <1>1, EmptySeq
  <2>3. ASSUME NEW i \in 1..Len(commands_to_send)
        PROVE  commands_to_send[i] = (<<h>> \o t)[i]
    <3>1. i \in 1..1 + Len(t) /\ (i <= 1 => i = 1) /\ (~(i <= 1) => i - 1 \in 1..Len(t))
      BY <1>2, <2>2
    <3> QED
      BY <1>2, <2>1, <2>2, <3>1
  <2>4. Len(commands_to_send) = Len(<<h>> \o t)
    BY <1>2, <2>1, <2>2
  <2> HIDE DEF h, t
  <2> QED
    BY <1>1, <2>1, <2>3, <2>4, SeqEqual
<1> HIDE DEF h, t
<1>4. Append(wire, h) = wire \o <<h>>
    BY <1>1, <1>2, AppendIsConcat
<1>5. (wire \o <<h>>) \o t = wire \o (<<h>> \o t)
    BY <1>1, <1>2, ConcatAssociative
<1> QED
    BY <1>1, <1>3, <1>4, <1>5 DEF Line

LEMMA LineLeft ==
    ASSUME TypeOK, wire # <<>>, wire' = Tail(wire), commands_to_send' = commands_to_send
    PROVE  Line # <<>> /\ Head(Line) = Head(wire) /\ Line' = Tail(Line)
<1>1. /\ Line \in Seq(Commands) /\ wire \in Seq(Commands) /\ commands_to_send \in Seq(Commands)
      /\ Len(wire) \in Nat /\ Len(commands_to_send) \in Nat
      /\ Len(Line) = Len(wire) + Len(commands_to_send)
      /\ \A i \in 1..Len(wire) : Line[i] = wire[i]
      /\ \A i \in 1..Len(commands_to_send) : Line[Len(wire) + i] = commands_to_send[i]
    BY LineIs
<1>2. Len(wire) \in Nat \ {0} /\ Len(Line) # 0
    BY <1>1, EmptySeq
<1>3. Line # <<>>
    BY <1>2, EmptySeq
<1>4. Head(Line) = Head(wire)
    BY <1>1, <1>2, <1>3
<1>5. /\ Tail(wire) \in Seq(Commands) /\ Len(Tail(wire)) = Len(wire) - 1
      /\ \A i \in 1..Len(Tail(wire)) : Tail(wire)[i] = wire[i + 1]
      /\ Tail(Line) \in Seq(Commands) /\ Len(Tail(Line)) = Len(Line) - 1
      /\ \A i \in 1..Len(Tail(Line)) : Tail(Line)[i] = Line[i + 1]
    BY <1>1, <1>3, HeadTailProperties
<1>6. /\ Line' = Tail(wire) \o commands_to_send /\ Line' \in Seq(Commands)
      /\ Len(Line') = Len(Tail(wire)) + Len(commands_to_send)
      /\ \A i \in 1..Len(Tail(wire)) + Len(commands_to_send) :
            Line'[i] = IF i <= Len(Tail(wire)) THEN Tail(wire)[i]
                                              ELSE commands_to_send[i - Len(Tail(wire))]
    BY <1>1, <1>5, ConcatProperties DEF Line
<1>7. Len(Line') = Len(Tail(Line))
    BY <1>1, <1>5, <1>6
<1>8. ASSUME NEW i \in 1..Len(Line') PROVE Line'[i] = Tail(Line)[i]
  <2>1. Tail(Line)[i] = Line[i + 1] /\ i \in 1..Len(Tail(wire)) + Len(commands_to_send)
    BY <1>5, <1>6, <1>7
  <2>2. CASE i <= Len(Tail(wire))
    <3>1. i \in 1..Len(Tail(wire)) /\ i + 1 \in 1..Len(wire)
      BY <1>1, <1>5, <2>1, <2>2
    <3> QED
      BY <1>1, <1>5, <1>6, <2>1, <2>2, <3>1
  <2>3. CASE ~(i <= Len(Tail(wire)))
    <3> DEFINE k == i - Len(Tail(wire))
    <3>1. k \in 1..Len(commands_to_send) /\ i + 1 = Len(wire) + k
      BY <1>1, <1>5, <2>1, <2>3
    <3>2. Line[i + 1] = commands_to_send[k]
      BY <1>1, <3>1
    <3> QED
      BY <1>6, <2>1, <2>3, <3>2
  <2> QED
    BY <2>2, <2>3
<1> QED
    BY <1>3, <1>4, <1>5, <1>6, <1>7, <1>8, SeqEqual

(* Where the lamp is heading when nothing on the line sets it *)
LEMMA HeadingIsLamp ==
    ASSUME TypeOK, NoSets
    PROVE  Heading = lamp
<1>1. Line \in Seq(Commands)
    BY LineIs
<1> QED
    BY <1>1, ExecutedIs DEF NoSets, Heading, Line

-----------------------------------------------------------------------------
(* What a step may do to a certain level *)

(* A query joins the line, or a reply becomes the level: it is the same level,
   or the code of an error. *)
LEMMA QueryKeepsLevel ==
    ASSUME LInv,
           Line' = Line \/ \E c \in Commands \ NoReply : Line' = Append(Line, c),
           Replies' \subseteq Replies,
           UNCHANGED <<lamp, said, uncertain>>,
           UNCHANGED <<load_level, misled>> \/ \E d \in Replies : KeepsResult(said[d])
    PROVE  LevelOK'
<1> SUFFICES ASSUME ~uncertain PROVE LevelOK'
    BY DEF LevelOK
<1>1. /\ TypeOK /\ Line \in Seq(Commands)
      /\ ~misled => load_level = Heading
      /\ \A i, j \in 1..Len(Line) : i < j /\ ~Sets(Line, i) => ~Sets(Line, j)
      /\ Replies # {} => NoSets
      /\ \A d \in Replies : Honest(d)
    BY LineIs DEF LInv, LevelOK, RInv, IInv
<1>2. ~misled' => load_level' = Heading
  <2>1. ASSUME NEW d \in Replies, KeepsResult(said[d]), ~misled' PROVE load_level' = Heading
    <3>1. Heading = lamp
      BY <1>1, HeadingIsLamp
    <3>2. CASE said[d] = Says(lamp)
      BY <1>1, <2>1, <3>1, <3>2 DEF KeepsResult, Says
    <3>3. CASE said[d] = [type |-> "ERROR", result |-> ErrorCode]
      <4>1. said[d].type = "ERROR" /\ said[d].result # None
        BY <3>3, LevelsAssumption
      <4> QED
        BY <2>1, <4>1 DEF KeepsResult
    <3>4. CASE said[d] = Says(None)
      BY <1>1, <2>1, <3>4 DEF KeepsResult, Says
    <3> QED
      BY <1>1, <3>2, <3>3, <3>4 DEF Honest, NoLevel
  <2> QED
    BY <1>1, <2>1
<1>3. CASE Line' = Line
    BY <1>1, <1>2, <1>3 DEF LevelOK, Heading, Line, NoSets, Honest, NoLevel, Says
<1>4. ASSUME NEW c \in Commands \ NoReply, Line' = Append(Line, c) PROVE LevelOK'
  <2>1. /\ Len(Line) \in Nat /\ Len(Line') = Len(Line) + 1
        /\ \A i \in 1..Len(Line) : Line'[i] = Line[i]
        /\ Line'[Len(Line) + 1] = c
    BY <1>1, <1>4, LenProperties, AppendProperties
  <2>2. Executed(Line', lamp) = Executed(Line, lamp)
    BY <1>1, <1>4, ExecutedAppend
  <2>3. ~misled' => load_level' = Heading'
    BY <1>1, <1>2, <2>2 DEF Heading, Line
  <2>4. \A i \in 1..Len(Line') : (i \in 1..Len(Line) /\ Line'[i] = Line[i]) \/ ~Sets(Line', i)
    BY <1>4, <2>1 DEF Sets
  <2>5. ASSUME NEW i \in 1..Len(Line'), NEW j \in 1..Len(Line'), i < j, ~Sets(Line', i)
        PROVE  ~Sets(Line', j)
    <3>1. CASE j \in 1..Len(Line) /\ Line'[j] = Line[j]
      <4>1. i \in 1..Len(Line) /\ Line'[i] = Line[i]
        BY <2>1, <2>5, <3>1
      <4> QED
        BY <1>1, <2>5, <3>1, <4>1 DEF Sets
    <3> QED
      BY <2>4, <3>1
  <2>6. NoSets => \A i \in 1..Len(Line') : ~Sets(Line', i)
    BY <2>4 DEF NoSets, Sets
  <2>7. Replies' # {} => NoSets'
    BY <1>1, <2>6 DEF NoSets
  <2>8. (\A d \in Replies : Honest(d))'
    BY <1>1 DEF Honest, NoLevel, Says
  <2> QED
    BY <2>3, <2>5, <2>7, <2>8 DEF LevelOK
<1> QED
    BY <1>3, <1>4

(* A level is set while no query is under way: it is the last to be executed. *)
LEMMA SetIsLast ==
    ASSUME LInv, NEW c \in Commands, c \in NoReply,
           Line' = Append(Line, c), load_level' = Level[c],
           Replies' \subseteq Replies,
           uncertain' = (Pending # {})
    PROVE  LevelOK'
<1> SUFFICES ASSUME Pending = {} PROVE LevelOK'
    BY DEF LevelOK
<1>1. /\ TypeOK /\ Line \in Seq(Commands) /\ Len(Line) \in Nat
      /\ Len(wire) \in Nat /\ Len(commands_to_send) \in Nat
      /\ Len(Line) = Len(wire) + Len(commands_to_send)
      /\ \A i \in 1..Len(wire) : Line[i] = wire[i]
      /\ \A i \in 1..Len(commands_to_send) : Line[Len(wire) + i] = commands_to_send[i]
      /\ wire \in Seq(Commands) /\ commands_to_send \in Seq(Commands)
    BY LineIs, LenProperties DEF LInv, RInv, IInv
<1>2. Replies = {}
  <2>1. ASSUME NEW d \in Commands \ NoReply PROVE ~Kept(d) /\ ~Parsed(d)
    <3>1. d # None
      BY CommandsAssumption
    <3>2. ~Parsed(d)
      BY <3>1 DEF Pending, Parsed
    <3>3. ~Kept(d)
      BY <3>1 DEF Pending, Kept, Contains, Range
    <3> QED
      BY <3>2, <3>3
  <2> QED
    BY <2>1 DEF Replies
<1>3. ASSUME NEW i \in 1..Len(Line) PROVE Sets(Line, i)
  <2>1. \A j \in 1..Len(wire) : wire[j] \in NoReply
    <3> SUFFICES ASSUME NEW j \in 1..Len(wire) PROVE wire[j] \in NoReply
      OBVIOUS
    <3>1. wire[j] \in Range(wire) /\ wire[j] # None
      BY <1>1, ElementOfSeq, CommandsAssumption DEF Range
    <3> QED
      BY <3>1 DEF Pending
  <2>2. \A j \in 1..Len(commands_to_send) : commands_to_send[j] \in NoReply
    <3> SUFFICES ASSUME NEW j \in 1..Len(commands_to_send) PROVE commands_to_send[j] \in NoReply
      OBVIOUS
    <3>1. commands_to_send[j] \in Range(commands_to_send) /\ commands_to_send[j] # None
      BY <1>1, ElementOfSeq, CommandsAssumption DEF Range
    <3> QED
      BY <3>1 DEF Pending
  <2>3. CASE i \in 1..Len(wire)
    BY <1>1, <2>1, <2>3 DEF Sets
  <2>4. CASE i \notin 1..Len(wire)
    <3>1. i - Len(wire) \in 1..Len(commands_to_send) /\ i = Len(wire) + (i - Len(wire))
      BY <1>1, <2>4
    <3> QED
      BY <1>1, <2>2, <3>1 DEF Sets
  <2> QED
    BY <2>3, <2>4
<1>4. /\ Len(Line') = Len(Line) + 1
      /\ \A i \in 1..Len(Line) : Line'[i] = Line[i]
      /\ Line'[Len(Line) + 1] = c
  <2>1. Line \in Seq(Commands)
    BY <1>1
  <2> QED
    BY <2>1, AppendProperties
<1>5. \A i \in 1..Len(Line') : Sets(Line', i)
    BY <1>1, <1>3, <1>4 DEF Sets
<1>6. Executed(Line', lamp') = Level[c]
    BY <1>1, ExecutedAppend
<1>7. load_level' = Heading'
    BY <1>6 DEF Heading, Line
<1> QED
    BY <1>2, <1>5, <1>7 DEF LevelOK

(* A line that begins without setting the level *)
LEMMA ExecutedRest ==
    ASSUME TypeOK, NEW level, \A i \in 1..Len(wire) : ~Sets(wire, i)
    PROVE  Executed(Line, level) = Executed(commands_to_send, level)
<1>1. /\ Line \in Seq(Commands) /\ wire \in Seq(Commands) /\ commands_to_send \in Seq(Commands)
      /\ Len(wire) \in Nat /\ Len(commands_to_send) \in Nat
      /\ Len(Line) = Len(wire) + Len(commands_to_send)
      /\ \A i \in 1..Len(wire) : Line[i] = wire[i]
      /\ \A i \in 1..Len(commands_to_send) : Line[Len(wire) + i] = commands_to_send[i]
    BY LineIs
<1>2. CASE \A i \in 1..Len(commands_to_send) : ~Sets(commands_to_send, i)
  <2>1. ASSUME NEW i \in 1..Len(Line) PROVE ~Sets(Line, i)
    <3>1. CASE i \in 1..Len(wire)
      BY <1>1, <3>1 DEF Sets
    <3>2. CASE i \notin 1..Len(wire)
      <4>1. i - Len(wire) \in 1..Len(commands_to_send) /\ i = Len(wire) + (i - Len(wire))
        BY <1>1, <3>2
      <4> QED
        BY <1>1, <1>2, <4>1 DEF Sets
    <3> QED
      BY <3>1, <3>2
  <2> QED
    BY <1>1, <1>2, <2>1, ExecutedIs
<1>3. CASE \E i \in 1..Len(commands_to_send) : Sets(commands_to_send, i)
  <2>1. PICK i \in 1..Len(commands_to_send) :
            /\ Sets(commands_to_send, i)
            /\ \A j \in i + 1..Len(commands_to_send) : ~Sets(commands_to_send, j)
    BY <1>1, <1>3, SomeLast
  <2> DEFINE k == Len(wire) + i
  <2>2. k \in 1..Len(Line) /\ Line[k] = commands_to_send[i] /\ Sets(Line, k)
    BY <1>1, <2>1 DEF Sets
  <2>3. ASSUME NEW j \in k + 1..Len(Line) PROVE ~Sets(Line, j)
    <3>1. j - Len(wire) \in i + 1..Len(commands_to_send)
          /\ j - Len(wire) \in 1..Len(commands_to_send) /\ j = Len(wire) + (j - Len(wire))
      BY <1>1
    <3> QED
      BY <1>1, <2>1, <3>1 DEF Sets
  <2>4. Executed(commands_to_send, level) = Level[commands_to_send[i]]
    BY <1>1, <2>1, ExecutedIs
  <2>5. Executed(Line, level) = Level[Line[k]]
    <3> HIDE DEF k
    <3> QED
      BY <1>1, <2>2, <2>3, ExecutedIs
  <2> QED
    BY <2>2, <2>4, <2>5
<1> QED
  BY <1>2, <1>3

-----------------------------------------------------------------------------
LEMMA AcquireSlotLevel ==
    ASSUME LInv, NEW c \in Commands, AcquireSlot(c), Keeps(c), UNCHANGED <<lamp, said>>,
           uncertain' = IF pc'[c] = "sent" THEN Pending # {} ELSE uncertain
    PROVE  LevelOK'
<1>1. /\ TypeOK /\ RInv /\ pc[c] = "slot" /\ UNCHANGED <<wire, reading>>
      /\ Line' = Append(Line, c)
    BY LineQueued DEF AcquireSlot, LInv, RInv, IInv
<1>2. CASE c \in NoReply
  <2>1. pc'[c] = "sent" /\ UNCHANGED commands_received
    BY <1>1, <1>2 DEF AcquireSlot, TypeOK
  <2>2. Replies' = Replies
    BY <1>1, <2>1 DEF Replies, Kept, Parsed
  <2>3. load_level' = Level[c]
    BY <1>1, <2>1 DEF Keeps
  <2> QED
    BY <1>1, <1>2, <2>1, <2>2, <2>3, SetIsLast
<1>3. CASE c \notin NoReply /\ TakeReply(c) /\ pc' = [pc EXCEPT ![c] = "answered"]
  <2>1. PICK d \in Commands :
          /\ Key[d] = Key[c] /\ Kept(d)
          /\ result' = [result EXCEPT ![c] = d]
          /\ \A x : Contains(commands_received', x) => Kept(x)
    BY <1>1, <1>3, TakeReplyMoves
  <2>2. d \in Replies
    BY <1>3, <2>1, LevelsAssumption DEF Replies
  <2>3. pc'[c] = "answered" /\ result'[c] = d
    BY <1>1, <1>3, <2>1 DEF TypeOK
  <2>4. KeepsResult(said[d]) /\ uncertain' = uncertain
    BY <1>1, <2>3 DEF Keeps
  <2>5. Replies' \subseteq Replies
    BY <1>1, <2>1 DEF Replies, Kept, Parsed
  <2> QED
    BY <1>1, <1>3, <2>2, <2>4, <2>5, QueryKeepsLevel
<1>4. CASE c \notin NoReply /\ pc' = [pc EXCEPT ![c] = "entering"] /\ UNCHANGED commands_received
  <2>1. pc'[c] = "entering"
    BY <1>1, <1>4 DEF TypeOK
  <2>2. UNCHANGED <<load_level, misled, uncertain>>
    BY <2>1 DEF Keeps
  <2>3. Replies' \subseteq Replies
    BY <1>1, <1>4 DEF Replies, Kept, Parsed
  <2> QED
    BY <1>1, <1>4, <2>2, <2>3, QueryKeepsLevel
<1> QED
  BY <1>2, <1>3, <1>4 DEF AcquireSlot

LEMMA RecheckLevel ==
    ASSUME LInv, NEW c \in Commands, Recheck(c), Keeps(c), UNCHANGED <<lamp, said>>,
           uncertain' = IF pc'[c] = "sent" THEN Pending # {} ELSE uncertain
    PROVE  LevelOK'
<1>1. /\ TypeOK /\ RInv /\ pc[c] = "notified" /\ c \notin NoReply
      /\ UNCHANGED <<wire, commands_to_send, reading>> /\ Line' = Line
    BY DEF Recheck, LInv, RInv, IInv, ListenInv, Line, InFlight, Waiting
<1>2. CASE TakeReply(c) /\ pc' = [pc EXCEPT ![c] = "answered"]
  <2>1. PICK d \in Commands :
          /\ Key[d] = Key[c] /\ Kept(d)
          /\ result' = [result EXCEPT ![c] = d]
          /\ \A x : Contains(commands_received', x) => Kept(x)
    BY <1>1, <1>2, TakeReplyMoves
  <2>2. d \in Replies
    BY <1>1, <2>1, LevelsAssumption DEF Replies
  <2>3. pc'[c] = "answered" /\ result'[c] = d
    BY <1>1, <1>2, <2>1 DEF TypeOK
  <2>4. KeepsResult(said[d]) /\ uncertain' = uncertain
    BY <1>1, <2>3 DEF Keeps
  <2>5. Replies' \subseteq Replies
    BY <1>1, <2>1 DEF Replies, Kept, Parsed
  <2> QED
    BY <1>1, <2>2, <2>4, <2>5, QueryKeepsLevel
<1>3. ASSUME NEW x \in {"timeout", "parked"}, pc' = [pc EXCEPT ![c] = x],
             UNCHANGED commands_received
      PROVE  LevelOK'
  <2>1. pc'[c] = x
    BY <1>1, <1>3 DEF TypeOK
  <2>2. UNCHANGED <<load_level, misled, uncertain>>
    BY <2>1 DEF Keeps
  <2>3. Replies' \subseteq Replies
    BY <1>1, <1>3 DEF Replies, Kept, Parsed
  <2> QED
    BY <1>1, <2>2, <2>3, QueryKeepsLevel
<1> QED
  BY <1>2, <1>3 DEF Recheck, ReleaseSlot

(* The other steps of a command neither queue it nor answer it. *)
LEMMA CommandLevel ==
    ASSUME LInv, NEW c \in Commands,
           Submit(c) \/ Park(c) \/ QueueForLock(c) \/ Expire(c) \/ GiveUp(c) \/ Cancel(c),
           Keeps(c), UNCHANGED <<lamp, said>>,
           uncertain' = IF pc'[c] = "sent" THEN Pending # {} ELSE uncertain
    PROVE  LevelOK'
<1>1. UNCHANGED <<wire, commands_to_send, reading, commands_received>>
    BY DEF Submit, Park, QueueForLock, Expire, GiveUp, Cancel
<1>2. pc \in [Commands -> PCs]
    BY DEF LInv, RInv, IInv, TypeOK
<1>3. pc'[c] \notin {"sent", "answered"}
  <2>1. CASE Submit(c)
    BY <1>2, <2>1 DEF Submit
  <2>2. CASE Park(c)
    BY <1>2, <2>2 DEF Park, ReleaseSlot, PCs
  <2>3. CASE QueueForLock(c)
    BY <1>2, <2>3 DEF QueueForLock, Leaving
  <2>4. CASE Expire(c)
    BY <1>2, <2>4 DEF Expire
  <2>5. CASE GiveUp(c)
    BY <1>2, <2>5 DEF GiveUp, ReleaseSlot
  <2>6. CASE Cancel(c)
    BY <1>2, <2>6 DEF Cancel, ReleaseSlot
  <2> QED
    BY <2>1, <2>2, <2>3, <2>4, <2>5, <2>6
<1>4. UNCHANGED <<load_level, misled, uncertain>>
    BY <1>3 DEF Keeps
<1>5. Line' = Line /\ Replies' \subseteq Replies
    BY <1>1 DEF Line, Replies, Kept, Parsed
<1> QED
    BY <1>4, <1>5, QueryKeepsLevel

(* The router is done with the first command of the line. *)
LEMMA RouterLevel ==
    ASSUME LInv, LRouter
    PROVE  LevelOK'
<1> SUFFICES ASSUME ~uncertain PROVE LevelOK'
    BY DEF LevelOK, LRouter
<1> DEFINE h == Head(wire)
<1>1. /\ TypeOK /\ Line \in Seq(Commands) /\ Len(Line) \in Nat /\ DOMAIN said = Commands
      /\ wire \in Seq(Commands) /\ wire # <<>>
      /\ wire' = Tail(wire) /\ UNCHANGED <<commands_to_send, commands_received>>
      /\ lamp' = Executed(<<h>>, lamp) /\ UNCHANGED <<load_level, misled, uncertain>>
    BY LineIs, LenProperties DEF LInv, RInv, IInv, LRouter, ReaderRead, RouterIgnore
<1>2. /\ ~misled => load_level = Heading
      /\ \A i, j \in 1..Len(Line) : i < j /\ ~Sets(Line, i) => ~Sets(Line, j)
      /\ Replies # {} => NoSets
      /\ \A d \in Replies : Honest(d)
    BY DEF LInv, LevelOK
<1>3. h \in Commands /\ InTransit(h) /\ ~Kept(h) /\ ~Parsed(h)
  <2>1. h \in Commands /\ InTransit(h)
    BY <1>1, QueueTail DEF InTransit
  <2> QED
    BY <2>1 DEF LInv, RInv, PlaceInv, OnePlace
<1>4. /\ Line # <<>> /\ Head(Line) = h /\ Line' = Tail(Line)
    BY <1>1, LineLeft
<1>5. /\ Len(Line) \in Nat \ {0} /\ Line[1] = h /\ Len(Line') = Len(Line) - 1
      /\ \A i \in 1..Len(Line') : Line'[i] = Line[i + 1]
    BY <1>1, <1>4, EmptySeq, HeadTailProperties
<1>6. ~misled' => load_level' = Heading'
  <2>1. Executed(Tail(Line), Executed(<<Head(Line)>>, lamp)) = Executed(Line, lamp)
    BY <1>1, <1>4, ExecutedTail
  <2>2. ~misled => load_level = Executed(Line, lamp)
    BY <1>2 DEF Heading, Line
  <2>3. Heading' = Executed(Line', lamp')
    BY DEF Heading, Line
  <2> QED
    BY <1>1, <1>4, <2>1, <2>2, <2>3
<1>7. \/ Replies' \subseteq Replies /\ said' = said
      \/ /\ Replies' \subseteq Replies \union ({h} \ NoReply)
         /\ \E answer \in NoLevel \union {Says(lamp)} : said' = [said EXCEPT ![h] = answer]
  <2>1. CASE ReaderRead /\ \E answer \in Answers(h) : said' = [said EXCEPT ![h] = answer]
    BY <1>1, <1>3, <2>1 DEF ReaderRead, Replies, Kept, Parsed, Answers
  <2>2. CASE RouterIgnore /\ UNCHANGED said
    BY <1>1, <2>2 DEF RouterIgnore, Replies, Kept, Parsed
  <2> QED
    BY <2>1, <2>2 DEF LRouter
<1> HIDE DEF h
<1>8. \A i, j \in 1..Len(Line') : i < j /\ ~Sets(Line', i) => ~Sets(Line', j)
  <2>1. \A i \in 1..Len(Line') : i + 1 \in 1..Len(Line) /\ (Sets(Line', i) <=> Sets(Line, i + 1))
    BY <1>5 DEF Sets
  <2>2. \A i, j \in 1..Len(Line') : i < j => i + 1 < j + 1
    BY <1>5
  <2> QED
    BY <1>2, <2>1, <2>2
<1>9. Replies # {} => ~Sets(Line, 1)
    BY <1>2, <1>5 DEF NoSets
<1>10. ~Sets(Line, 1) => lamp' = lamp
  <2>1. /\ <<h>> \in Seq(Commands) /\ Len(<<h>>) = 1 /\ <<h>>[1] = h
    BY <1>3
  <2>2. \A i \in 1..Len(<<h>>) : i = 1
    BY <2>1
  <2>3. ~Sets(Line, 1) => \A i \in 1..Len(<<h>>) : ~Sets(<<h>>, i)
    BY <1>5, <2>1, <2>2 DEF Sets
  <2> QED
    BY <1>1, <2>1, <2>3, ExecutedIs
<1>11. ASSUME NEW d \in Replies'
       PROVE  ~Sets(Line, 1) /\ said'[d] \in NoLevel \union {Says(lamp)}
  <2>1. CASE d \in Replies
    <3>1. d # h
      BY <1>3, <2>1 DEF Replies
    <3>2. d \in Commands
      BY <2>1 DEF Replies
    <3>3. said'[d] = said[d]
      BY <1>1, <1>7, <3>1, <3>2
    <3> QED
      BY <1>2, <1>9, <2>1, <3>3 DEF Honest
  <2>2. CASE d = h /\ h \notin NoReply /\ d \notin Replies
    <3>1. ~Sets(Line, 1)
      BY <1>5, <2>2 DEF Sets
    <3>2. PICK answer \in NoLevel \union {Says(lamp)} : said' = [said EXCEPT ![h] = answer]
      BY <1>7, <1>11, <2>2
    <3> QED
      BY <1>1, <1>3, <2>2, <3>1, <3>2
  <2> QED
    BY <1>7, <1>11, <2>1, <2>2
<1>12. Replies' # {} => NoSets'
  <2>1. ASSUME ~Sets(Line, 1), NEW i \in 1..Len(Line') PROVE ~Sets(Line', i)
    <3>1. 1 \in 1..Len(Line) /\ i + 1 \in 1..Len(Line) /\ 1 < i + 1
      BY <1>5
    <3>2. ~Sets(Line, i + 1)
      BY <1>2, <2>1, <3>1
    <3> QED
      BY <1>5, <3>2 DEF Sets
  <2> QED
    BY <1>11, <2>1 DEF NoSets
<1>13. (\A d \in Replies : Honest(d))'
    BY <1>10, <1>11 DEF Honest, NoLevel, Says
<1> QED
    BY <1>6, <1>8, <1>12, <1>13 DEF LevelOK

(* The connection is lost, and no command with it that sets the level. *)
LEMMA LinkDownLevel ==
    ASSUME LInv, LLinkDown
    PROVE  LevelOK'
<1> SUFFICES ASSUME ~uncertain, Range(wire) \intersect NoReply = {} PROVE LevelOK'
    BY DEF LevelOK, LLinkDown
<1>1. /\ TypeOK /\ wire' = <<>> /\ reading' = None
      /\ UNCHANGED <<commands_to_send, commands_received, load_level, said, misled>>
      /\ wire \in Seq(Commands) /\ commands_to_send \in Seq(Commands)
      /\ Len(wire) \in Nat /\ Len(commands_to_send) \in Nat
      /\ Len(Line) = Len(wire) + Len(commands_to_send)
      /\ \A i \in 1..Len(commands_to_send) : Line[Len(wire) + i] = commands_to_send[i]
    BY LineIs DEF LInv, RInv, IInv, LLinkDown, LinkDown
<1>2. /\ ~misled => load_level = Heading
      /\ \A i, j \in 1..Len(Line) : i < j /\ ~Sets(Line, i) => ~Sets(Line, j)
      /\ Replies # {} => NoSets
      /\ \A d \in Replies : Honest(d)
    BY DEF LInv, LevelOK
<1>3. \A i \in 1..Len(wire) : ~Sets(wire, i)
    BY DEF Sets, Range
<1>4. lamp' = lamp
  <2>1. PICK n \in 0..Len(wire) : lamp' = Executed(SubSeq(wire, 1, n), lamp)
    BY DEF LLinkDown
  <2> DEFINE s == SubSeq(wire, 1, n)
  <2>2. /\ s \in Seq(Commands) /\ Len(s) = n
        /\ \A i \in 1..n : s[i] = wire[i]
    BY <1>1, SubSeqProperties
  <2>3. \A i \in 1..Len(s) : ~Sets(s, i)
    BY <1>1, <1>3, <2>2 DEF Sets
  <2> HIDE DEF s
  <2>4. Executed(s, lamp) = lamp
    BY <2>2, <2>3, ExecutedIs
  <2> QED
    BY <2>1, <2>4 DEF s
<1>5. Line' = commands_to_send
  <2>1. <<>> \o commands_to_send = commands_to_send
    BY <1>1, ConcatEmptySeq
  <2> QED
    BY <1>1, <2>1 DEF Line
<1>6. ~misled' => load_level' = Heading'
  <2>1. Executed(Line, lamp) = Executed(commands_to_send, lamp)
    BY <1>1, <1>3, ExecutedRest
  <2>2. ~misled => load_level = Executed(Line, lamp)
    BY <1>2 DEF Heading, Line
  <2>3. Heading' = Executed(Line', lamp')
    BY DEF Heading, Line
  <2> QED
    BY <1>1, <1>4, <1>5, <2>1, <2>2, <2>3
<1>7. Replies' \subseteq Replies
    BY <1>1, CommandsAssumption DEF Replies, Kept, Parsed
<1>8. \A i \in 1..Len(Line') :
        /\ Len(wire) + i \in 1..Len(Line)
        /\ Sets(Line', i) <=> Sets(Line, Len(wire) + i)
    BY <1>1, <1>5 DEF Sets
<1>9. ASSUME NEW i \in 1..Len(Line'), NEW j \in 1..Len(Line'), i < j, ~Sets(Line', i)
      PROVE  ~Sets(Line', j)
  <2>1. Len(wire) + i < Len(wire) + j
    BY <1>1, <1>9
  <2> QED
    BY <1>2, <1>8, <1>9, <2>1
<1>10. Replies' # {} => NoSets'
  <2>1. NoSets => \A i \in 1..Len(Line') : ~Sets(Line', i)
    BY <1>8 DEF NoSets
  <2> QED
    BY <1>2, <1>7, <2>1 DEF NoSets
<1>11. (\A d \in Replies : Honest(d))'
    BY <1>1, <1>2, <1>4, <1>7 DEF Honest, NoLevel, Says
<1> QED
    BY <1>6, <1>9, <1>10, <1>11 DEF LevelOK

(* Writer, keepalive and clock; the reader stores the reply it holds. *)
LEMMA OthersLevel ==
    ASSUME LInv, WriterSend \/ ReaderStore \/ Prune \/ LinkUp \/ Tick \/ UNCHANGED vars,
           UNCHANGED levelVars
    PROVE  LevelOK'
<1>1. TypeOK /\ UNCHANGED <<load_level, lamp, said, misled, uncertain>>
    BY DEF LInv, RInv, IInv, levelVars
<1>2. Line' = Line
  <2>1. CASE WriterSend
    BY <1>1, <2>1, LineWritten
  <2>2. CASE ~WriterSend
    BY <2>2 DEF ReaderStore, Prune, LinkUp, Tick, vars, Line
  <2> QED
    BY <2>1, <2>2
<1>3. Replies' \subseteq Replies
  <2>1. CASE ReaderStore
    <3>1. reading \in Commands
      BY <2>1, LockReleased DEF ReaderStore, LInv, RInv, IInv, LockInv, TypeOK
    <3>2. \A y : Contains(commands_received', y) <=> Kept(y) \/ y = reading
      BY <1>1, <2>1, <3>1, QueueAppend DEF ReaderStore, TypeOK, Kept
    <3>3. reading' = None
      BY <2>1 DEF ReaderStore
    <3> QED
      BY <3>2, <3>3, CommandsAssumption DEF Replies, Kept, Parsed
  <2>2. CASE Prune
    <3> DEFINE stale == Len(commands_received) - MaxUnmatched
    <3>1. /\ stale \in Nat /\ stale <= Len(commands_received)
          /\ commands_received' = SubSeq(commands_received, stale + 1, Len(commands_received))
      BY <1>1, <2>2, LenProperties, BoundsAssumption DEF TypeOK, Prune
    <3> HIDE DEF stale
    <3>2. \A y : Contains(commands_received', y) => Kept(y)
      BY <1>1, <3>1, QueueSuffix DEF TypeOK, Kept
    <3>3. reading' = reading
      BY <2>2 DEF Prune
    <3> QED
      BY <3>2, <3>3 DEF Replies, Kept, Parsed
  <2>3. CASE WriterSend \/ LinkUp \/ Tick \/ UNCHANGED vars
    BY <2>3 DEF WriterSend, LinkUp, Tick, vars, Replies, Kept, Parsed
  <2> QED
    BY <2>1, <2>2, <2>3
<1> QED
    BY <1>1, <1>2, <1>3, QueryKeepsLevel

-----------------------------------------------------------------------------
LEMMA InitLInv == LInit => LInv
<1> SUFFICES ASSUME LInit PROVE LInv
    OBVIOUS
<1>1. RInv /\ DOMAIN said = Commands
    BY InitRInv DEF LInit
<1>2. Line = <<>> /\ Len(Line) = 0 /\ <<>> \in Seq(Commands)
  <2>1. <<>> \in Seq(Commands) /\ Len(<<>>) = 0
    BY EmptySeq
  <2>2. <<>> \o <<>> = <<>>
    BY <2>1, ConcatEmptySeq
  <2>3. wire = <<>> /\ commands_to_send = <<>>
    BY DEF LInit, Init
  <2> QED
    BY <2>1, <2>2, <2>3 DEF Line
<1>3. Executed(<<>>, lamp) = lamp
  <2>1. \A i \in 1..Len(<<>>) : FALSE
    BY EmptySeq
  <2>2. <<>> \in Seq(Commands) /\ \A i \in 1..Len(<<>>) : ~Sets(<<>>, i)
    BY <1>2, <2>1
  <2> QED
    BY <2>2, ExecutedIs
<1>4. load_level = Heading
    BY <1>2, <1>3 DEF LInit, Heading, Line
<1>5. Replies = {}
    BY CommandsAssumption DEF LInit, Init, Replies, Kept, Parsed, Contains
<1> QED
    BY <1>1, <1>2, <1>4, <1>5 DEF LInv, LevelOK

LEMMA NextLInv == LInv /\ [LNext]_lvars => LInv'
<1> SUFFICES ASSUME LInv, [LNext]_lvars PROVE LInv'
    OBVIOUS
<1>1. [Next]_vars
    BY DEF LNext, LCommand, LRouter, LLinkDown, lvars, Next
<1>2. RInv'
    BY <1>1, NextRInv DEF LInv
<1>3. DOMAIN said' = Commands
    BY DEF LInv, LNext, LCommand, LRouter, LLinkDown, lvars, levelVars
<1>4. ASSUME NEW c \in Commands, LCommand(c) PROVE LevelOK'
  <2>1. /\ Keeps(c) /\ UNCHANGED <<lamp, said>>
        /\ uncertain' = IF pc'[c] = "sent" THEN Pending # {} ELSE uncertain
    BY <1>4 DEF LCommand
  <2> QED
    BY <1>4, <2>1, AcquireSlotLevel, RecheckLevel, CommandLevel DEF LCommand, CommandStep
<1>5. ASSUME \/ (WriterSend \/ ReaderStore \/ Prune \/ LinkUp \/ Tick) /\ UNCHANGED levelVars
             \/ UNCHANGED lvars
      PROVE  LevelOK'
    BY <1>5, OthersLevel DEF lvars
<1>6. LevelOK'
    BY <1>4, <1>5, RouterLevel, LinkDownLevel DEF LNext
<1> QED
    BY <1>2, <1>3, <1>6 DEF LInv

(* set_device_load_level keeps the level long before the router has it, and yet *)
(* the level of the device is where its lamp is heading, for any commands,       *)
(* queries, replies and lost connections of one connection at a time, unless a   *)
(* query was under way when the level was set, the command that set it was lost, *)
(* or the last reply kept was an error, whose code update_device takes for the   *)
(* level: that lasts no longer than until a level is set or read again.          *)
THEOREM LevelIsHeading == LSpec => []LevelAgrees
<1>1. LInv => LevelAgrees
    BY DEF LInv, LevelOK, LevelAgrees
<1> QED
    BY <1>1, InitLInv, NextLInv, PTL DEF LSpec

-----------------------------------------------------------------------------
(* A brightness that is set and read back is the one that was set or the one
   below, a level within 0 and 100 needs no clamping, and only "off" reads back
   as off: an application that sets what it reads may dim a light step by step,
   but neither brightens it nor switches it off. *)
THEOREM ReadBack ==
    ASSUME NEW b \in 0..255
    PROVE  /\ BrightnessOf(LevelOf(b)) \in {b - 1, b}
           /\ BrightnessOf(LevelOf(b)) = 0 <=> b = 0
           /\ Clamped(LevelOf(b)) = LevelOf(b)
<1> DEFINE l == LevelOf(b)
           r == BrightnessOf(l)
<1>1. l \in 0..1000 /\ 255 * l <= 1000 * b + 127 /\ 1000 * b + 127 < 255 * l + 255
  BY DEF LevelOf
<1>2. l = 1000 => b = 255
  BY <1>1
<1> HIDE DEF l
<1>3. /\ r \in Int /\ 1000 * r <= 255 * l /\ 255 * l - 1 < 1000 * r + 1000
      /\ l < 1000 => 255 * l < 1000 * r + 1000
  BY <1>1 DEF BrightnessOf
<1>4. r \in {b - 1, b}
  BY <1>1, <1>3
<1> HIDE DEF r
<1>5. r = 0 <=> b = 0
  <2>1. ASSUME r = 0 PROVE b = 0
    <3>1. 255 * l - 1 < 1000
      BY <1>3, <2>1
    <3>2. l <= 3
      BY <1>1, <3>1
    <3> QED
      BY <1>1, <3>2
  <2>2. ASSUME b = 0 PROVE r = 0
    <3>1. l = 0
      BY <1>1, <2>2
    <3> QED
      BY <1>3, <3>1
  <2> QED
    BY <2>1, <2>2
<1>6. Clamped(l) = l
  BY <1>1 DEF Clamped
<1> QED
  BY <1>4, <1>5, <1>6 DEF l, r
=============================================================================
