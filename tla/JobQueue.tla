------------------------------ MODULE JobQueue ------------------------------
(***************************************************************************)
(* What qbt_rules.queue_manager.QueueManager promises its callers, without *)
(* saying how a backend keeps the promise: the job lifecycle, a FIFO line  *)
(* of pending jobs, a dequeue that is one indivisible step, a cancel that  *)
(* only ever hits a pending job, and a cleanup that only ever removes      *)
(* finished ones.  SqliteService and RedisService are measured against it. *)
(***************************************************************************)
EXTENDS Naturals

CONSTANT JobId      \* the ids generate_job_id (uuid4) can hand out

VARIABLES
    status,         \* where each job is in its life
    ticket,         \* place in the line of a pending job, 0 for every other
    lastTicket      \* the last place given out

vars == <<status, ticket, lastTicket>>

Finished == {"completed", "failed", "cancelled"}
Live == {"pending", "processing"} \cup Finished

\* "new": not submitted yet.  "removed": deleted by a cleanup.
Lifecycle == {"new", "removed"} \cup Live

TypeOK ==
    /\ status \in [JobId -> Lifecycle]
    /\ ticket \in [JobId -> Nat]
    /\ lastTicket \in Nat

Init ==
    /\ status = [j \in JobId |-> "new"]
    /\ ticket = [j \in JobId |-> 0]
    /\ lastTicket = 0

Enqueue(j) ==
    /\ status[j] = "new"
    /\ status' = [status EXCEPT ![j] = "pending"]
    /\ lastTicket' = lastTicket + 1
    /\ ticket' = [ticket EXCEPT ![j] = lastTicket + 1]

\* The pending job that has waited longest.
FirstInLine(j) ==
    /\ status[j] = "pending"
    /\ \A k \in JobId : status[k] = "pending" => ticket[j] <= ticket[k]

\* "Atomically retrieves and marks job as processing."
Dequeue(j) ==
    /\ FirstInLine(j)
    /\ status' = [status EXCEPT ![j] = "processing"]
    /\ ticket' = [ticket EXCEPT ![j] = 0]
    /\ UNCHANGED lastTicket

Finish(j) ==
    /\ status[j] = "processing"
    /\ \E s \in {"completed", "failed"} : status' = [status EXCEPT ![j] = s]
    /\ UNCHANGED <<ticket, lastTicket>>

\* "Can only cancel jobs with status=pending."
Cancel(j) ==
    /\ status[j] = "pending"
    /\ status' = [status EXCEPT ![j] = "cancelled"]
    /\ ticket' = [ticket EXCEPT ![j] = 0]
    /\ UNCHANGED lastTicket

\* "Remove old completed/failed/cancelled jobs": never one still in play.
Cleanup(old) ==
    /\ \A j \in old : status[j] \in Finished
    /\ status' = [j \in JobId |-> IF j \in old THEN "removed" ELSE status[j]]
    /\ UNCHANGED <<ticket, lastTicket>>

Next ==
    \/ \E j \in JobId : Enqueue(j) \/ Dequeue(j) \/ Finish(j) \/ Cancel(j)
    \/ \E old \in SUBSET JobId : Cleanup(old)

Spec == Init /\ [][Next]_vars
=============================================================================
