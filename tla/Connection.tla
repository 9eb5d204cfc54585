------------------------------ MODULE Connection ------------------------------
(***************************************************************************)
(* The life of a Router's connection: connect, disconnect, the reader and  *)
(* writer tasks, the keepalive, and the automatic reconnect any of them     *)
(* starts.  asyncio is single-threaded: an action is the code between two   *)
(* awaits that suspend.                                                     *)
(*                                                                         *)
(* A socket has a number that is used again once nothing refers to it.      *)
(* Number 0 stands for "never connected".  Queries are abstract: they are   *)
(* answered over a working connection, and may time out over any other      *)
(* (CommandEngine has their detail).                                        *)
(***************************************************************************)
EXTENDS Integers, FiniteSets

CONSTANTS
    MaxTasks,   \* bound: tasks running _reconnect_with_retries at one time
    MaxSockets, \* bound: sockets referred to at one time
    MaxLeaked   \* bound: readers, writers or keepalives left over from earlier
                \* connections, beyond which the application does not connect

ASSUME ConnectionAssumption ==
    /\ MaxSockets \in Nat \ {0}
    /\ MaxLeaked \in Nat
    /\ MaxTasks \in Nat \ {0}

(* The application's task, and those running _reconnect_with_retries. *)
User == 0
Reconnects == 1..MaxTasks
Tasks == {User} \union Reconnects
Sockets == 1..MaxSockets

VARIABLES
    closing,        \* _closing
    connected,      \* connected
    conn,           \* the socket of _reader, _writer and the two task attributes
    up,             \* sockets open at both ends
    readers,        \* sockets with a running _stream_reader task
    writers,        \* sockets with a running _stream_writer task
    keepalives,     \* number of running _keep_alive tasks
    keepaliveRef,   \* _keep_alive_task is one of them
    pings,          \* keepalive queries in flight, with the socket they went to
                    \* (0: in commands_to_send), and whether a leftover sent them
    reconnect_task, \* _reconnect_task, User for None
    pc,             \* where each task is suspended
    via,            \* the socket the workgroup query a task waits for went to
    wants,          \* what the application asked for last
    stable          \* from now on the network and the router work

vars == <<closing, connected, conn, up, readers, writers, keepalives,
          keepaliveRef, pings, reconnect_task, pc, via, wants, stable>>

Pings == [to : 0..MaxSockets, stray : BOOLEAN]

PCs == {"idle", "start", "closing", "opening", "naming", "discovering", "sleep"}

TypeOK ==
    /\ closing \in BOOLEAN
    /\ connected \in BOOLEAN
    /\ conn \in 0..MaxSockets
    /\ up \subseteq Sockets
    /\ readers \subseteq Sockets
    /\ writers \subseteq Sockets
    /\ keepalives \in Nat
    /\ keepaliveRef \in BOOLEAN
    /\ pings \subseteq Pings
    /\ reconnect_task \in Tasks
    /\ pc \in [Tasks -> PCs]
    /\ via \in [Tasks -> 0..MaxSockets]
    /\ wants \in {"off", "trying", "on"}
    /\ stable \in BOOLEAN

Init ==
    /\ closing = FALSE
    /\ connected = FALSE
    /\ conn = 0
    /\ up = {}
    /\ readers = {}
    /\ writers = {}
    /\ keepalives = 0
    /\ keepaliveRef = FALSE
    /\ pings = {}
    /\ reconnect_task = User
    /\ pc = [t \in Tasks |-> "idle"]
    /\ via = [t \in Tasks |-> 0]
    /\ wants = "off"
    /\ stable = FALSE

-----------------------------------------------------------------------------
(* A query over socket n is answered: both ends and both tasks are there. *)
Works(n) == n \in readers /\ n \in writers /\ n \in up

(* A query can go unanswered: trouble, or a leftover writer took its string. *)
Unreliable(n) ==
    \/ ~stable
    \/ ~Works(n)
    \/ \E m \in writers : m \notin up

(* A task number not in use. *)
FreshTask == CHOOSE r \in Reconnects : pc[r] = "idle" /\ \A x \in 1..r - 1 : pc[x] # "idle"

Reconnecting == reconnect_task # User /\ pc[reconnect_task] # "idle"

(* Mutant: without the test that a reconnect is already running. *)
StartAnotherReconnect ==
    IF closing
      THEN UNCHANGED <<connected, reconnect_task, pc>>
      ELSE \E r \in Reconnects :
            /\ r = FreshTask
            /\ connected' = FALSE
            /\ reconnect_task' = r
            /\ pc' = [pc EXCEPT ![r] = "start"]

(* _start_reconnect *)
StartReconnect ==
    IF closing \/ Reconnecting
      THEN UNCHANGED <<connected, reconnect_task, pc>>
      ELSE \E r \in Reconnects :
            /\ r = FreshTask
            /\ connected' = FALSE
            /\ reconnect_task' = r
            /\ pc' = [pc EXCEPT ![r] = "start"]

(* Mutant: disconnect() leaves a pending reconnect alone. *)
StopTasksButReconnect(t) ==
    /\ pc' = [pc EXCEPT ![t] = "closing"]
    /\ closing' = TRUE
    /\ readers' = readers \ {conn}
    /\ writers' = writers \ {conn}
    /\ keepalives' = IF keepaliveRef THEN keepalives - 1 ELSE keepalives
    /\ keepaliveRef' = FALSE
    /\ up' = up \ {conn}

(* Mutant: the reference to the cancelled keepalive still counts as running. *)
StopTasksKeepingRef(t) ==
    /\ pc' = [x \in Tasks |-> IF x = t THEN "closing"
                              ELSE IF x = reconnect_task /\ Reconnecting THEN "idle"
                              ELSE pc[x]]
    /\ closing' = TRUE
    /\ readers' = readers \ {conn}
    /\ writers' = writers \ {conn}
    /\ keepalives' = IF keepaliveRef THEN keepalives - 1 ELSE keepalives
    /\ UNCHANGED keepaliveRef
    /\ up' = up \ {conn}

(* disconnect() up to wait_closed: a pending reconnect is cancelled, unless it  *)
(* is the caller, and so are the tasks the Router still has a reference to.     *)
StopTasks(t) ==
    /\ pc' = [x \in Tasks |-> IF x = t THEN "closing"
                              ELSE IF x = reconnect_task /\ Reconnecting THEN "idle"
                              ELSE pc[x]]
    /\ closing' = TRUE
    /\ readers' = readers \ {conn}
    /\ writers' = writers \ {conn}
    /\ keepalives' = IF keepaliveRef THEN keepalives - 1 ELSE keepalives
    /\ keepaliveRef' = FALSE
    /\ up' = up \ {conn}

-----------------------------------------------------------------------------
(* The application. Its calls are sequential; connect() is called as in         *)
(* initialize(), when the Router is not connected, even during a reconnect.     *)

UserConnect ==
    /\ pc[User] = "idle"
    /\ ~connected
    /\ Cardinality((readers \union writers) \ {conn}) <= MaxLeaked
    /\ keepalives <= IF keepaliveRef THEN MaxLeaked + 1 ELSE MaxLeaked
    /\ closing' = FALSE
    /\ pc' = [pc EXCEPT ![User] = "opening"]
    /\ wants' = IF wants = "on" THEN "on" ELSE "trying"
    /\ UNCHANGED <<connected, conn, up, readers, writers, keepalives,
                   keepaliveRef, pings, reconnect_task, via, stable>>

UserDisconnect ==
    /\ pc[User] = "idle"
    /\ wants # "off"
    /\ StopTasks(User)
    /\ wants' = "off"
    /\ UNCHANGED <<connected, conn, pings, reconnect_task, via, stable>>

(* The end of disconnect(); a reconnect goes straight on to connect(). *)
FinishDisconnect(t) ==
    /\ pc[t] = "closing"
    /\ connected' = FALSE
    /\ closing' = IF t = User THEN closing ELSE FALSE
    /\ pc' = [pc EXCEPT ![t] = IF t = User THEN "idle" ELSE "opening"]
    /\ UNCHANGED <<conn, up, readers, writers, keepalives, keepaliveRef,
                   pings, reconnect_task, via, wants, stable>>

(* connect() fails: the application gets the exception, a reconnect retries. *)
Fail(t) ==
    /\ pc' = [pc EXCEPT ![t] = IF t = User THEN "idle" ELSE "sleep"]
    /\ via' = [via EXCEPT ![t] = 0]

(* A socket number nothing refers to. *)
Unused(n) ==
    /\ n \notin readers \union writers
    /\ \A p \in pings : p.to # n
    /\ \A t \in Tasks : via[t] # n

(* open() succeeds; connect() asks for the workgroup name. *)
Open(t) ==
    /\ pc[t] = "opening"
    /\ \E n \in Sockets :
        /\ Unused(n)
        /\ \A m \in Sockets : Unused(m) => n <= m
        /\ conn' = n
        /\ up' = up \union {n}
        /\ readers' = readers \union {n}
        /\ writers' = writers \union {n}
        /\ pings' = {[p EXCEPT !.to = IF @ = 0 THEN n ELSE @] : p \in pings}
        /\ via' = [via EXCEPT ![t] = n]
    /\ connected' = TRUE
    /\ pc' = [pc EXCEPT ![t] = "naming"]
    /\ UNCHANGED <<closing, keepalives, keepaliveRef, reconnect_task, wants,
                   stable>>

Refused(t) ==
    /\ pc[t] = "opening"
    /\ ~stable
    /\ Fail(t)
    /\ UNCHANGED <<closing, connected, conn, up, readers, writers, keepalives,
                   keepaliveRef, pings, reconnect_task, wants, stable>>

WorkgroupNamed(t) ==
    /\ pc[t] = "naming"
    /\ Works(conn)
    /\ pc' = [pc EXCEPT ![t] = "discovering"]
    /\ via' = [via EXCEPT ![t] = 0]
    /\ UNCHANGED <<closing, connected, conn, up, readers, writers, keepalives,
                   keepaliveRef, pings, reconnect_task, wants, stable>>

(* CommandResponseTimeout leaves connect() with the connection open. *)
WorkgroupTimeout(t) ==
    /\ pc[t] = "naming"
    /\ via[t] # conn \/ Unreliable(conn)
    /\ Fail(t)
    /\ UNCHANGED <<closing, connected, conn, up, readers, writers, keepalives,
                   keepaliveRef, pings, reconnect_task, wants, stable>>

(* A cluster above 253 is no HelvarAddress: its TypeError leaves connect() with *)
(* the connection open.  A router that works reports none.                      *)
IdsRejected(t) ==
    /\ pc[t] = "discovering"
    /\ ~stable
    /\ Fail(t)
    /\ UNCHANGED <<closing, connected, conn, up, readers, writers, keepalives,
                   keepaliveRef, pings, reconnect_task, wants, stable>>

(* Mutant: no keepalive is started. *)
DiscoveredNoKeepalive(t) ==
    /\ pc[t] = "discovering"
    /\ pc' = [pc EXCEPT ![t] = "idle"]
    /\ wants' = IF t = User THEN "on" ELSE wants
    /\ UNCHANGED <<closing, connected, conn, up, readers, writers, keepalives,
                   keepaliveRef, pings, reconnect_task, via, stable>>

(* Discovery ends, answered or not; connect() starts a keepalive and returns. *)
(* The keepalive of a connect() it overlaps is a leftover from now on.        *)
Discovered(t) ==
    /\ pc[t] = "discovering"
    /\ keepalives' = keepalives + 1
    /\ keepaliveRef' = TRUE
    /\ pings' = IF keepaliveRef THEN {[p EXCEPT !.stray = TRUE] : p \in pings} ELSE pings
    /\ pc' = [pc EXCEPT ![t] = "idle"]
    /\ wants' = IF t = User THEN "on" ELSE wants
    /\ UNCHANGED <<closing, connected, conn, up, readers, writers,
                   reconnect_task, via, stable>>

-----------------------------------------------------------------------------
(* The reconnect task.                                                         *)

(* `while not self._closing`, and the start of reconnect(). *)
ReconnectBegin(t) ==
    /\ t \in Reconnects
    /\ pc[t] \in {"start", "sleep"}
    /\ IF closing
         THEN /\ pc' = [pc EXCEPT ![t] = "idle"]
              /\ UNCHANGED <<closing, readers, writers, keepalives, keepaliveRef, up>>
         ELSE StopTasks(t)
    /\ UNCHANGED <<connected, conn, pings, reconnect_task, via, wants, stable>>

-----------------------------------------------------------------------------
(* Reader, writer and keepalive.                                               *)

(* The reader sees the end of its connection and is done. *)
ReaderFails(n) ==
    /\ n \in readers
    /\ n \notin up
    /\ readers' = readers \ {n}
    /\ StartReconnect
    /\ UNCHANGED <<closing, conn, up, writers, keepalives, keepaliveRef, pings,
                   via, wants, stable>>

(* The writer takes a command and fails to write it. *)
WriterFails(n) ==
    /\ n \in writers
    /\ n \notin up
    /\ writers' = writers \ {n}
    /\ StartReconnect
    /\ UNCHANGED <<closing, conn, up, readers, keepalives, keepaliveRef, pings,
                   via, wants, stable>>

(* A keepalive task queues QUERY_ROUTER_TIME, a task of its own. Without a       *)
(* writer the string waits for the next connection's.  The period, 120 s, is     *)
(* longer than the 30 s a query can take: the last query of the same keepalive   *)
(* has ended, and so have callbacks that were ready.  When the keepalive of the  *)
(* connection sends its first, all queries of earlier ones have ended; that of a *)
(* leftover may come while one of a keepalive since cancelled is under way.      *)
Ping ==
    /\ \E stray \in BOOLEAN :
        /\ IF stray THEN /\ keepalives > IF keepaliveRef THEN 1 ELSE 0
                        /\ \A p \in pings : ~p.stray
           ELSE keepaliveRef /\ pings = {}
        /\ pings' = pings \union
                {[to |-> IF conn \in writers THEN conn ELSE 0, stray |-> stray]}
    /\ \A r \in Reconnects : pc[r] # "start"
    /\ UNCHANGED <<closing, connected, conn, up, readers, writers, keepalives,
                   keepaliveRef, reconnect_task, pc, via, wants, stable>>

PingAnswered(p) ==
    /\ p \in pings
    /\ Works(p.to)
    /\ pings' = pings \ {p}
    /\ UNCHANGED <<closing, connected, conn, up, readers, writers, keepalives,
                   keepaliveRef, reconnect_task, pc, via, wants, stable>>

(* Mutant: the keepalive only logs that it had no answer. *)
PingTimeoutIgnored(p) ==
    /\ p \in pings
    /\ Unreliable(p.to)
    /\ pings' = pings \ {p}
    /\ UNCHANGED <<closing, connected, conn, up, readers, writers, keepalives,
                   keepaliveRef, reconnect_task, pc, via, wants, stable>>

(* _keep_alive_callback with a CommandResponseTimeout. disconnect() cancels the *)
(* keepalive, but neither its queries in flight nor this callback.              *)
PingTimeout(p) ==
    /\ p \in pings
    /\ Unreliable(p.to)
    /\ pings' = pings \ {p}
    /\ StartReconnect
    /\ UNCHANGED <<closing, conn, up, readers, writers, keepalives,
                   keepaliveRef, via, wants, stable>>

-----------------------------------------------------------------------------
(* The network.                                                                *)

Lose(n) ==
    /\ ~stable
    /\ n \in up
    /\ up' = up \ {n}
    /\ UNCHANGED <<closing, connected, conn, readers, writers, keepalives,
                   keepaliveRef, pings, reconnect_task, pc, via, wants, stable>>

Stabilise ==
    /\ ~stable
    /\ stable' = TRUE
    /\ UNCHANGED <<closing, connected, conn, up, readers, writers, keepalives,
                   keepaliveRef, pings, reconnect_task, pc, via, wants>>

-----------------------------------------------------------------------------
TaskStep(t) ==
    \/ FinishDisconnect(t) \/ Open(t) \/ Refused(t)
    \/ WorkgroupNamed(t) \/ WorkgroupTimeout(t)
    \/ Discovered(t) \/ IdsRejected(t)
    \/ ReconnectBegin(t)

SocketStep(n) == ReaderFails(n) \/ WriterFails(n)

PingStep(p) == PingAnswered(p) \/ PingTimeout(p)

Next ==
    \/ UserConnect \/ UserDisconnect
    \/ \E t \in Tasks : TaskStep(t)
    \/ \E n \in Sockets : SocketStep(n) \/ Lose(n)
    \/ Ping
    \/ \E p \in Pings : PingStep(p)
    \/ Stabilise

(* Tasks run, waits end (the reply or the timeout), dead sockets are noticed by *)
(* a reader and by a writer that is given a command, keepalives tick.           *)
Fairness ==
    /\ \A t \in Tasks : WF_vars(TaskStep(t))
    /\ \A n \in Sockets : WF_vars(ReaderFails(n)) /\ WF_vars(WriterFails(n))
    /\ \A p \in Pings : WF_vars(PingStep(p))
    /\ WF_vars(Ping)

Spec == Init /\ [][Next]_vars /\ Fairness

-----------------------------------------------------------------------------
(* However many tasks report the loss, and whenever, one reconnect runs.       *)
OneReconnect ==
    \A r, s \in Reconnects : pc[r] # "idle" /\ pc[s] # "idle" => r = s

(* A deliberate disconnect sticks (router.py:119-120): once it has returned,    *)
(* and until the application connects again, the Router is not connected, no    *)
(* reconnect is pending and the last connection has neither reader nor writer.  *)
DisconnectSticks ==
    wants = "off" /\ pc[User] = "idle" =>
        /\ ~connected
        /\ ~Reconnecting
        /\ conn \notin readers \union writers

(* A dead connection the application relies on never goes unnoticed for good:   *)
(* a reconnect runs, or the reader or a keepalive is there to start one.        *)
LossIsNoticed ==
    wants = "on" /\ pc[User] = "idle" /\ ~Works(conn) =>
        \/ Reconnecting
        \/ conn \in readers
        \/ keepalives > 0

(* Once network and router work, an application that stays connected gets a     *)
(* working connection that is not torn down again, whatever was in flight.      *)
Recovers == <>[](stable /\ wants = "on") => <>[]Works(conn)

(* router.py:348: "Schedule an automatic reconnect after the connection was     *)
(* lost".  Then none is scheduled over a working connection to a working router. *)
ReconnectOnlyAfterLoss ==
    [][stable /\ Works(conn) =>
        \A r \in Reconnects : pc[r] = "idle" => pc'[r] # "start"]_vars

(* router.py:360-362: until the connection is back, consumers can use           *)
(* `connected` to report availability.  Then it is FALSE while a reconnect      *)
(* waits for its next attempt.                                                  *)
NotConnectedBetweenAttempts ==
    \A r \in Reconnects : pc[r] = "sleep" => ~connected
=============================================================================
