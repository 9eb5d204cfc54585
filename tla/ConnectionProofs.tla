--------------------------- MODULE ConnectionProofs ---------------------------
(***************************************************************************)
(* Connection for any number of sockets and tasks: types, that one reconnect *)
(* runs at a time, that disconnect() sticks, and that no loss goes unnoticed. *)
(*                                                                         *)
(* One reconnect: _start_reconnect looks at the last task it started only,   *)
(* so that task must be the only one that can be running (OnlyReconnect).    *)
(* disconnect() sticks because _closing stays set until the application      *)
(* connects, whatever readers, writers, keepalives and queries of earlier     *)
(* connections are still there (OffInv).                                    *)
(***************************************************************************)
EXTENDS Connection, TLAPS

(* Tasks that are running are the one _reconnect_task refers to. *)
OnlyReconnect == \A r \in Reconnects : pc[r] # "idle" => r = reconnect_task

(* A keepalive that can be cancelled is there. *)
KeepaliveInv == keepaliveRef => keepalives > 0

(* The application has never connected, or disconnect() has at least begun. *)
OffInv ==
    wants = "off" =>
        /\ \A r \in Reconnects : pc[r] = "idle"
        /\ pc[User] \in {"idle", "closing"}
        /\ pc[User] = "idle" => ~connected
        /\ conn \notin readers \union writers
        /\ closing \/ (readers = {} /\ writers = {} /\ pings = {} /\ keepalives = 0)

IInv == TypeOK /\ OnlyReconnect /\ KeepaliveInv /\ OffInv

(* All the proofs need to know of the numbers of tasks and sockets. *)
LEMMA Numbers ==
    /\ User \notin Reconnects
    /\ Tasks = {User} \union Reconnects
    /\ 0 \in 0..MaxSockets
    /\ Sockets \subseteq 0..MaxSockets
BY ConnectionAssumption DEF User, Reconnects, Tasks, Sockets

USE Numbers DEF PCs

-----------------------------------------------------------------------------
LEMMA InitIInv == Init => IInv
<1> SUFFICES ASSUME Init PROVE IInv
    OBVIOUS
<1>1. TypeOK
    BY DEF Init, TypeOK
<1>2. OnlyReconnect /\ KeepaliveInv /\ OffInv
    BY DEF Init, OnlyReconnect, KeepaliveInv, OffInv
<1> QED
    BY <1>1, <1>2 DEF IInv

(* A report of a lost connection starts a task only when none is running, and *)
(* none at all after disconnect().                                            *)
LEMMA StartReconnectIInv ==
    ASSUME IInv, StartReconnect
    PROVE  /\ connected' \in BOOLEAN
           /\ reconnect_task' \in Tasks
           /\ pc' \in [Tasks -> PCs]
           /\ pc'[User] = pc[User]
           /\ OnlyReconnect'
           /\ closing => UNCHANGED <<connected, pc>>
<1>1. CASE closing \/ Reconnecting
    BY <1>1 DEF StartReconnect, IInv, TypeOK, OnlyReconnect
<1>2. CASE ~(closing \/ Reconnecting)
  <2>1. PICK r \in Reconnects :
            /\ connected' = FALSE
            /\ reconnect_task' = r
            /\ pc' = [pc EXCEPT ![r] = "start"]
    BY <1>2 DEF StartReconnect
  <2>2. \A x \in Reconnects : pc[x] = "idle"
    BY <1>2 DEF Reconnecting, IInv, OnlyReconnect
  <2>3. pc \in [Tasks -> PCs]
    BY DEF IInv, TypeOK
  <2>4. OnlyReconnect'
    BY <2>1, <2>2, <2>3 DEF OnlyReconnect
  <2> QED
    BY <1>2, <2>1, <2>3, <2>4
<1> QED
    BY <1>1, <1>2

(* disconnect() leaves no reconnect but the caller. *)
LEMMA StopTasksIInv ==
    ASSUME IInv, NEW t \in Tasks, StopTasks(t), t = User \/ pc[t] # "idle",
           UNCHANGED <<connected, conn, pings, reconnect_task, via, stable>>,
           wants' \in {"off", "trying", "on"},
           wants' = "off" => t = User
    PROVE  IInv'
<1>1. pc' = [x \in Tasks |-> IF x = t THEN "closing"
                             ELSE IF x = reconnect_task /\ Reconnecting THEN "idle"
                             ELSE pc[x]]
    BY DEF StopTasks
<1>2. TypeOK'
  <2>1. keepalives' \in Nat
    BY DEF StopTasks, IInv, TypeOK, KeepaliveInv
  <2>2. pc' \in [Tasks -> PCs]
    BY <1>1 DEF IInv, TypeOK
  <2> QED
    BY <2>1, <2>2 DEF StopTasks, IInv, TypeOK
<1>3. OnlyReconnect'
    BY <1>1 DEF IInv, OnlyReconnect
<1>4. KeepaliveInv'
    BY DEF StopTasks, KeepaliveInv
<1>5. t = User => \A r \in Reconnects : pc'[r] = "idle"
    BY <1>1 DEF IInv, OnlyReconnect, Reconnecting
<1>6. OffInv'
    BY <1>1, <1>5 DEF StopTasks, OffInv
<1> QED
    BY <1>2, <1>3, <1>4, <1>6 DEF IInv

(* A task goes on, or ends. *)
LEMMA TaskMoves ==
    ASSUME IInv, NEW t \in Tasks, pc[t] # "idle" \/ t = User,
           NEW x \in PCs, pc' = [pc EXCEPT ![t] = x], UNCHANGED reconnect_task
    PROVE  /\ pc' \in [Tasks -> PCs]
           /\ OnlyReconnect'
BY DEF IInv, TypeOK, OnlyReconnect

(* After disconnect() no task is in the middle of connect(). *)
LEMMA Connecting ==
    ASSUME IInv, NEW t \in Tasks, pc[t] \notin {"idle", "closing"}
    PROVE  wants # "off"
BY DEF IInv, OffInv

-----------------------------------------------------------------------------
LEMMA UserConnectIInv == ASSUME IInv, UserConnect PROVE IInv'
<1>1. pc' \in [Tasks -> PCs] /\ OnlyReconnect'
    BY TaskMoves DEF UserConnect
<1>2. TypeOK'
    BY <1>1 DEF UserConnect, IInv, TypeOK
<1>3. KeepaliveInv' /\ OffInv'
    BY DEF UserConnect, IInv, KeepaliveInv, OffInv
<1> QED
    BY <1>1, <1>2, <1>3 DEF IInv

LEMMA UserDisconnectIInv == ASSUME IInv, UserDisconnect PROVE IInv'
BY StopTasksIInv DEF UserDisconnect

LEMMA FinishDisconnectIInv ==
    ASSUME IInv, NEW t \in Tasks, FinishDisconnect(t) PROVE IInv'
<1>1. pc' \in [Tasks -> PCs] /\ OnlyReconnect'
    BY TaskMoves DEF FinishDisconnect
<1>2. TypeOK'
    BY <1>1 DEF FinishDisconnect, IInv, TypeOK
<1>3. KeepaliveInv'
    BY DEF FinishDisconnect, IInv, KeepaliveInv
<1>4. OffInv'
  <2>1. CASE t = User
    BY <2>1 DEF FinishDisconnect, IInv, TypeOK, OffInv
  <2>2. CASE t # User
    BY <2>2 DEF FinishDisconnect, IInv, OffInv
  <2> QED
    BY <2>1, <2>2
<1> QED
    BY <1>1, <1>2, <1>3, <1>4 DEF IInv

LEMMA OpenIInv == ASSUME IInv, NEW t \in Tasks, Open(t) PROVE IInv'
<1>1. pc' \in [Tasks -> PCs] /\ OnlyReconnect'
    BY TaskMoves DEF Open
<1>2. PICK n \in Sockets :
        /\ conn' = n
        /\ up' = up \union {n}
        /\ readers' = readers \union {n}
        /\ writers' = writers \union {n}
        /\ pings' = {[p EXCEPT !.to = IF @ = 0 THEN n ELSE @] : p \in pings}
        /\ via' = [via EXCEPT ![t] = n]
    BY DEF Open
<1>3. TypeOK'
  <2>1. pings' \subseteq Pings
    BY <1>2 DEF IInv, TypeOK, Pings
  <2> QED
    BY <1>1, <1>2, <2>1 DEF Open, IInv, TypeOK
<1>4. KeepaliveInv' /\ OffInv'
    BY Connecting DEF Open, IInv, KeepaliveInv, OffInv
<1> QED
    BY <1>1, <1>3, <1>4 DEF IInv

LEMMA RefusedIInv == ASSUME IInv, NEW t \in Tasks, Refused(t) PROVE IInv'
<1>1. pc' \in [Tasks -> PCs] /\ OnlyReconnect'
    BY TaskMoves DEF Refused, Fail
<1>2. TypeOK'
    BY <1>1 DEF Refused, Fail, IInv, TypeOK
<1>3. KeepaliveInv' /\ OffInv'
    BY Connecting DEF Refused, IInv, KeepaliveInv, OffInv
<1> QED
    BY <1>1, <1>2, <1>3 DEF IInv

LEMMA WorkgroupNamedIInv == ASSUME IInv, NEW t \in Tasks, WorkgroupNamed(t) PROVE IInv'
<1>1. pc' \in [Tasks -> PCs] /\ OnlyReconnect'
    BY TaskMoves DEF WorkgroupNamed
<1>2. TypeOK'
    BY <1>1 DEF WorkgroupNamed, IInv, TypeOK
<1>3. KeepaliveInv' /\ OffInv'
    BY Connecting DEF WorkgroupNamed, IInv, KeepaliveInv, OffInv
<1> QED
    BY <1>1, <1>2, <1>3 DEF IInv

LEMMA WorkgroupTimeoutIInv ==
    ASSUME IInv, NEW t \in Tasks, WorkgroupTimeout(t) PROVE IInv'
<1>1. pc' \in [Tasks -> PCs] /\ OnlyReconnect'
    BY TaskMoves DEF WorkgroupTimeout, Fail
<1>2. TypeOK'
    BY <1>1 DEF WorkgroupTimeout, Fail, IInv, TypeOK
<1>3. KeepaliveInv' /\ OffInv'
    BY Connecting DEF WorkgroupTimeout, IInv, KeepaliveInv, OffInv
<1> QED
    BY <1>1, <1>2, <1>3 DEF IInv

LEMMA IdsRejectedIInv == ASSUME IInv, NEW t \in Tasks, IdsRejected(t) PROVE IInv'
<1>1. pc' \in [Tasks -> PCs] /\ OnlyReconnect'
    BY TaskMoves DEF IdsRejected, Fail
<1>2. TypeOK'
    BY <1>1 DEF IdsRejected, Fail, IInv, TypeOK
<1>3. KeepaliveInv' /\ OffInv'
    BY Connecting DEF IdsRejected, IInv, KeepaliveInv, OffInv
<1> QED
    BY <1>1, <1>2, <1>3 DEF IInv

LEMMA DiscoveredIInv == ASSUME IInv, NEW t \in Tasks, Discovered(t) PROVE IInv'
<1>1. pc' \in [Tasks -> PCs] /\ OnlyReconnect'
    BY TaskMoves DEF Discovered
<1>2. TypeOK'
  <2>1. pings' \subseteq Pings
    BY DEF Discovered, IInv, TypeOK, Pings
  <2> QED
    BY <1>1, <2>1 DEF Discovered, IInv, TypeOK
<1>3. KeepaliveInv' /\ OffInv'
    BY Connecting DEF Discovered, IInv, TypeOK, KeepaliveInv, OffInv
<1> QED
    BY <1>1, <1>2, <1>3 DEF IInv

LEMMA ReconnectBeginIInv == ASSUME IInv, NEW t \in Tasks, ReconnectBegin(t) PROVE IInv'
<1>1. wants # "off" /\ t # User /\ pc[t] # "idle"
    BY Connecting DEF ReconnectBegin
<1>2. CASE closing
  <2>1. pc' \in [Tasks -> PCs] /\ OnlyReconnect'
    BY <1>1, <1>2, TaskMoves DEF ReconnectBegin
  <2>2. TypeOK'
    BY <1>2, <2>1 DEF ReconnectBegin, IInv, TypeOK
  <2>3. KeepaliveInv' /\ OffInv'
    BY <1>1, <1>2 DEF ReconnectBegin, IInv, KeepaliveInv, OffInv
  <2> QED
    BY <2>1, <2>2, <2>3 DEF IInv
<1>3. CASE ~closing
    BY <1>1, <1>3, StopTasksIInv DEF ReconnectBegin, IInv, TypeOK
<1> QED
    BY <1>2, <1>3

(* Whoever reports a loss was running, so the application has connected: after  *)
(* disconnect() only with _closing set, which makes the report void.           *)
LEMMA ReportIInv ==
    ASSUME IInv, StartReconnect,
           wants = "off" => closing,
           readers' \subseteq readers, writers' \subseteq writers, pings' \subseteq pings,
           UNCHANGED <<closing, conn, up, keepalives, keepaliveRef, via, wants, stable>>
    PROVE  IInv'
<1>1. TypeOK'
    BY StartReconnectIInv DEF IInv, TypeOK
<1>2. OnlyReconnect'
    BY StartReconnectIInv
<1>3. KeepaliveInv'
    BY DEF IInv, KeepaliveInv
<1>4. OffInv'
    BY StartReconnectIInv DEF IInv, OffInv
<1> QED
    BY <1>1, <1>2, <1>3, <1>4 DEF IInv

LEMMA ReaderFailsIInv == ASSUME IInv, NEW n \in Sockets, ReaderFails(n) PROVE IInv'
<1>1. wants = "off" => closing
    BY DEF ReaderFails, IInv, OffInv
<1> QED
    BY <1>1, ReportIInv DEF ReaderFails

LEMMA WriterFailsIInv == ASSUME IInv, NEW n \in Sockets, WriterFails(n) PROVE IInv'
<1>1. wants = "off" => closing
    BY DEF WriterFails, IInv, OffInv
<1> QED
    BY <1>1, ReportIInv DEF WriterFails

LEMMA PingTimeoutIInv == ASSUME IInv, NEW p, PingTimeout(p) PROVE IInv'
<1>1. wants = "off" => closing
    BY DEF PingTimeout, IInv, OffInv
<1> QED
    BY <1>1, ReportIInv DEF PingTimeout

LEMMA PingIInv == ASSUME IInv, Ping PROVE IInv'
<1>1. TypeOK'
  <2>1. pings' \subseteq Pings
    BY DEF Ping, IInv, TypeOK, Pings
  <2> QED
    BY <2>1 DEF Ping, IInv, TypeOK
<1>2. OnlyReconnect' /\ KeepaliveInv' /\ OffInv'
    BY DEF Ping, IInv, OnlyReconnect, KeepaliveInv, OffInv
<1> QED
    BY <1>1, <1>2 DEF IInv

LEMMA PingAnsweredIInv == ASSUME IInv, NEW p, PingAnswered(p) PROVE IInv'
<1>1. TypeOK'
    BY DEF PingAnswered, IInv, TypeOK
<1>2. OnlyReconnect' /\ KeepaliveInv' /\ OffInv'
    BY DEF PingAnswered, IInv, OnlyReconnect, KeepaliveInv, OffInv
<1> QED
    BY <1>1, <1>2 DEF IInv

LEMMA NetworkIInv ==
    ASSUME IInv, Stabilise \/ (\E n \in Sockets : Lose(n)) \/ UNCHANGED vars PROVE IInv'
<1>1. TypeOK'
    BY DEF Stabilise, Lose, vars, IInv, TypeOK
<1>2. UNCHANGED <<closing, connected, conn, readers, writers, keepalives, keepaliveRef,
                  pings, reconnect_task, pc, wants>>
    BY DEF Stabilise, Lose, vars
<1>3. OnlyReconnect' /\ KeepaliveInv' /\ OffInv'
    BY <1>2 DEF IInv, OnlyReconnect, KeepaliveInv, OffInv
<1> QED
    BY <1>1, <1>3 DEF IInv

-----------------------------------------------------------------------------
LEMMA NextIInv == IInv /\ [Next]_vars => IInv'
<1> SUFFICES ASSUME IInv, [Next]_vars PROVE IInv'
    OBVIOUS
<1>1. ASSUME NEW t \in Tasks, TaskStep(t) PROVE IInv'
    BY <1>1, FinishDisconnectIInv, OpenIInv, RefusedIInv, WorkgroupNamedIInv,
       WorkgroupTimeoutIInv, DiscoveredIInv, IdsRejectedIInv, ReconnectBeginIInv
    DEF TaskStep
<1>2. ASSUME NEW n \in Sockets, SocketStep(n) PROVE IInv'
    BY <1>2, ReaderFailsIInv, WriterFailsIInv DEF SocketStep
<1>3. ASSUME NEW p \in Pings, PingStep(p) PROVE IInv'
    BY <1>3, PingAnsweredIInv, PingTimeoutIInv DEF PingStep
<1> QED
    BY <1>1, <1>2, <1>3, UserConnectIInv, UserDisconnectIInv, PingIInv, NetworkIInv
    DEF Next

THEOREM Invariant == Spec => []IInv
<1> QED
    BY InitIInv, NextIInv, PTL DEF Spec

-----------------------------------------------------------------------------
(* The types of the connection's state, for any bound on sockets and tasks. *)
THEOREM TypeCorrect == Spec => []TypeOK
<1>1. IInv => TypeOK
    BY DEF IInv
<1> QED
    BY <1>1, Invariant, PTL

(* However many readers, writers and keepalives report a loss, and whenever,   *)
(* one reconnect runs at a time.                                               *)
THEOREM AtMostOneReconnect == Spec => []OneReconnect
<1>1. IInv => OneReconnect
    BY DEF IInv, OnlyReconnect, OneReconnect
<1> QED
    BY <1>1, Invariant, PTL

(* After disconnect() and until the next connect() nothing that is left of      *)
(* earlier connections brings the Router back.                                 *)
THEOREM DisconnectIsFinal == Spec => []DisconnectSticks
<1>1. IInv => DisconnectSticks
    BY DEF IInv, TypeOK, OffInv, DisconnectSticks, Reconnecting
<1> QED
    BY <1>1, Invariant, PTL

-----------------------------------------------------------------------------
(* Who notices a loss *)

(* _closing is set by the application, or by a reconnect for as long as it
   disconnects. *)
ClosingInv == closing => wants = "off" \/ \E r \in Reconnects : pc[r] = "closing"

(* An application that is connected has a keepalive, or a reconnect under way. *)
NoticeInv == wants = "on" => keepalives > 0 \/ \E r \in Reconnects : pc[r] # "idle"

NoticedInv == ClosingInv /\ NoticeInv

(* Reports of a loss, and queries, end no task and no keepalive. *)
LEMMA NoticedByReport ==
    ASSUME IInv, NoticedInv, UNCHANGED <<closing, wants, keepalives>>,
           StartReconnect \/ UNCHANGED pc
    PROVE  NoticedInv'
<1>1. \A r \in Reconnects : pc[r] # "idle" => pc'[r] = pc[r]
  <2>1. CASE UNCHANGED pc
    BY <2>1
  <2>2. CASE StartReconnect
    <3>1. CASE closing \/ Reconnecting
      BY <2>2, <3>1 DEF StartReconnect
    <3>2. CASE ~(closing \/ Reconnecting)
      BY <3>2 DEF Reconnecting, IInv, OnlyReconnect
    <3> QED
      BY <3>1, <3>2
  <2> QED
    BY <2>1, <2>2
<1> QED
    BY <1>1 DEF NoticedInv, ClosingInv, NoticeInv

(* A task that goes on, and is not the one that ends a reconnect. *)
LEMMA NoticedByTask ==
    ASSUME IInv, NoticedInv, NEW t \in Tasks, UNCHANGED <<closing, wants, keepalives>>,
           NEW x \in PCs, pc' = [pc EXCEPT ![t] = x],
           pc[t] # "closing", t # User => x # "idle"
    PROVE  NoticedInv'
<1>1. \A r \in Reconnects : /\ pc[r] # "idle" => pc'[r] # "idle"
                            /\ pc[r] = "closing" => pc'[r] = "closing"
    BY DEF IInv, TypeOK
<1> QED
    BY <1>1 DEF NoticedInv, ClosingInv, NoticeInv

LEMMA UserNoticed ==
    ASSUME IInv, NoticedInv, UserConnect \/ UserDisconnect
    PROVE  NoticedInv'
<1>1. CASE UserDisconnect
    BY <1>1 DEF UserDisconnect, NoticedInv, ClosingInv, NoticeInv
<1>2. CASE UserConnect
  <2>1. pc' = [pc EXCEPT ![User] = "opening"] /\ closing' = FALSE
        /\ UNCHANGED keepalives /\ (wants' = "on" => wants = "on")
    BY <1>2 DEF UserConnect
  <2>2. \A r \in Reconnects : pc'[r] = pc[r]
    BY <2>1 DEF IInv, TypeOK
  <2> QED
    BY <2>1, <2>2 DEF NoticedInv, ClosingInv, NoticeInv
<1> QED
    BY <1>1, <1>2

LEMMA TaskNoticed ==
    ASSUME IInv, NoticedInv, NEW t \in Tasks, TaskStep(t)
    PROVE  NoticedInv'
<1>0. pc \in [Tasks -> PCs]
    BY DEF IInv, TypeOK
<1>1. CASE FinishDisconnect(t)
  <2>1. CASE t = User
    <3>1. UNCHANGED <<closing, wants, keepalives>> /\ \A r \in Reconnects : pc'[r] = pc[r]
      BY <1>0, <1>1, <2>1 DEF FinishDisconnect
    <3> QED
      BY <3>1 DEF NoticedInv, ClosingInv, NoticeInv
  <2>2. CASE t # User
    <3>1. ~closing' /\ pc'[t] = "opening" /\ t \in Reconnects
      BY <1>0, <1>1, <2>2 DEF FinishDisconnect
    <3> QED
      BY <3>1 DEF NoticedInv, ClosingInv, NoticeInv
  <2> QED
    BY <2>1, <2>2
<1>2. CASE Open(t) \/ WorkgroupNamed(t)
    BY <1>2, NoticedByTask DEF Open, WorkgroupNamed
<1>3. CASE Refused(t) \/ WorkgroupTimeout(t) \/ IdsRejected(t)
    BY <1>3, NoticedByTask DEF Refused, WorkgroupTimeout, IdsRejected, Fail
<1>4. CASE Discovered(t)
  <2>1. keepalives' > 0 /\ UNCHANGED closing /\ pc[t] = "discovering"
        /\ pc' = [pc EXCEPT ![t] = "idle"]
    BY <1>4 DEF Discovered, IInv, TypeOK
  <2>2. wants # "off"
    BY <2>1, Connecting
  <2>3. \A r \in Reconnects : pc[r] = "closing" => pc'[r] = "closing"
    BY <1>0, <2>1
  <2> QED
    BY <2>1, <2>2, <2>3 DEF NoticedInv, ClosingInv, NoticeInv
<1>5. CASE ReconnectBegin(t)
  <2>1. t \in Reconnects /\ pc[t] \in {"start", "sleep"}
    BY <1>5 DEF ReconnectBegin
  <2>2. wants # "off"
    BY <2>1, Connecting
  <2>3. ~closing
    BY <2>1, <2>2 DEF NoticedInv, ClosingInv, IInv, OnlyReconnect
  <2>4. pc'[t] = "closing"
    BY <1>5, <2>3 DEF ReconnectBegin, StopTasks
  <2> QED
    BY <2>1, <2>4 DEF NoticedInv, ClosingInv, NoticeInv
<1> QED
    BY <1>1, <1>2, <1>3, <1>4, <1>5 DEF TaskStep

LEMMA NextNoticed == IInv /\ NoticedInv /\ [Next]_vars => NoticedInv'
<1> SUFFICES ASSUME IInv, NoticedInv, [Next]_vars PROVE NoticedInv'
    OBVIOUS
<1>1. ASSUME NEW n \in Sockets, SocketStep(n) PROVE NoticedInv'
    BY <1>1, NoticedByReport DEF SocketStep, ReaderFails, WriterFails
<1>2. ASSUME NEW p \in Pings, PingStep(p) PROVE NoticedInv'
    BY <1>2, NoticedByReport DEF PingStep, PingAnswered, PingTimeout
<1>3. CASE Ping \/ Stabilise \/ (\E n \in Sockets : Lose(n)) \/ UNCHANGED vars
    BY <1>3, NoticedByReport DEF Ping, Stabilise, Lose, vars
<1> QED
    BY <1>1, <1>2, <1>3, UserNoticed, TaskNoticed DEF Next

(* A connection the application relies on is never dead without a reconnect that
   runs or a keepalive that will start one: every way out of connect() and of
   _reconnect_with_retries leaves one or the other. *)
THEOREM NoLossUnnoticed == Spec => []LossIsNoticed
<1>1. Init => NoticedInv
    BY DEF Init, NoticedInv, ClosingInv, NoticeInv
<1>2. IInv /\ NoticedInv => LossIsNoticed
    BY DEF IInv, OnlyReconnect, NoticedInv, NoticeInv, LossIsNoticed, Reconnecting
<1> QED
    BY <1>1, <1>2, NextNoticed, Invariant, PTL DEF Spec
=============================================================================
