----------------------------- MODULE RequestReply -----------------------------
(***************************************************************************)
(* What Router.query and Router.send_command promise a caller, without     *)
(* slots, queues, locks, sockets or time.  A request that was made ends     *)
(* once: with a reply that carries its own key and that no other request    *)
(* was given, with a timeout, or cancelled by its caller.                   *)
(*                                                                         *)
(* HelvarNet has no request identifiers, so the promise is no stronger than *)
(* "the same key": the reply may be the one the router gave to another      *)
(* request with that key, made at some earlier time.                        *)
(***************************************************************************)
CONSTANTS Requests, Key, NoReply, Bounded, None

VARIABLES status, answer

vars == <<status, answer>>

Init ==
    /\ status = [c \in Requests |-> "new"]
    /\ answer = [c \in Requests |-> None]

Ask(c) ==
    /\ status[c] = "new"
    /\ status' = [status EXCEPT ![c] = "pending"]
    /\ UNCHANGED answer

(* The reply was the router's to d, a request made before, and is still unused. *)
Answer(c) ==
    /\ status[c] = "pending"
    /\ c \notin NoReply
    /\ \E d \in Requests :
        /\ Key[d] = Key[c]
        /\ status[d] # "new"
        /\ \A e \in Requests : answer[e] # d
        /\ answer' = [answer EXCEPT ![c] = d]
    /\ status' = [status EXCEPT ![c] = "answered"]

End(c, how) ==
    /\ status[c] = "pending"
    /\ status' = [status EXCEPT ![c] = how]
    /\ UNCHANGED answer

Sent(c) == c \in NoReply /\ End(c, "sent")
TimeOut(c) == c \notin NoReply /\ End(c, "timeout")
Cancel(c) == c \in Bounded /\ End(c, "cancelled")

Next == \E c \in Requests : Ask(c) \/ Answer(c) \/ Sent(c) \/ TimeOut(c) \/ Cancel(c)

Spec == Init /\ [][Next]_vars
=============================================================================
