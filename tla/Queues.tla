------------------------------- MODULE Queues -------------------------------
(* Queues of tasks waiting for an asyncio semaphore or lock: a task is in one *)
(* at most once, and leaves it from any place when it is cancelled.           *)
EXTENDS Integers, SequencesExt

(* The queue q without task p. *)
Without(q, p) ==
    IF Contains(q, p) THEN RemoveAt(q, CHOOSE i \in 1..Len(q) : q[i] = p) ELSE q

(* No task is in the queue twice. *)
Distinct(q) == \A i, j \in 1..Len(q) : q[i] = q[j] => i = j
=============================================================================
