---------------------------- MODULE SqliteQueue -----------------------------
(***************************************************************************)
(* The SQLite backend (queue_backends/sqlite_queue.py): two tables, and    *)
(* operations that are each one BEGIN IMMEDIATE transaction or one         *)
(* autocommit statement, hence one step here.  SqliteService supplies the  *)
(* threads that call them.                                                 *)
(*                                                                         *)
(* Every timestamp is taken before the write lock is asked for, and a      *)
(* contended lock is waited for (busy_timeout): a stamp that reaches the   *)
(* table may be up to MaxLockWait old.                                     *)
(***************************************************************************)
EXTENDS Naturals, FiniteSets

CONSTANTS
    JobId,          \* the ids generate_job_id can hand out
    MaxLockWait,    \* busy_timeout, in clock ticks
    Retention       \* queue.cleanup_after, in clock ticks

ASSUME SqliteQueueAssumption == MaxLockWait \in Nat /\ Retention \in Nat

VARIABLES
    jobs,           \* table jobs: the row of each id (NoRow when it has none)
    queue,          \* table queue, by its UNIQUE job_id: the row's id, 0 for none
    sequence,       \* sqlite_sequence: the last AUTOINCREMENT id of table queue
    now             \* the wall clock

dbVars == <<jobs, queue, sequence>>

Finished == {"completed", "failed", "cancelled"}
JobStatus == {"pending", "processing"} \cup Finished

Null == 0           \* SQL NULL in a timestamp column: the clock starts at 1
NoRow == [status |-> "none", created_at |-> Null, completed_at |-> Null]

Row == [status : JobStatus \cup {"none"}, created_at : Nat, completed_at : Nat]

DbTypeOK ==
    /\ jobs \in [JobId -> Row]
    /\ queue \in [JobId -> Nat]
    /\ sequence \in Nat
    /\ now \in Nat \ {0}

DbInit ==
    /\ jobs = [j \in JobId |-> NoRow]
    /\ queue = [j \in JobId |-> 0]
    /\ sequence = 0
    /\ now = 1

HasRow(j) == jobs[j].status # "none"
Queued(j) == queue[j] # 0

\* datetime.now(UTC), read before the wait for the write lock.
Stamp == {t \in 1 .. now : now <= t + MaxLockWait}

Enqueue(j) ==
    /\ ~HasRow(j)
    /\ \E t \in Stamp :
         jobs' = [jobs EXCEPT ![j] =
                    [status |-> "pending", created_at |-> t, completed_at |-> Null]]
    /\ sequence' = sequence + 1
    /\ queue' = [queue EXCEPT ![j] = sequence + 1]

\* Mutant of IsHead: newest first (ORDER BY id DESC).
IsHeadNewest(j) ==
    /\ Queued(j)
    /\ \A k \in JobId : Queued(k) => queue[j] >= queue[k]

\* ORDER BY priority DESC, id ASC LIMIT 1: every priority is 0.
IsHead(j) ==
    /\ Queued(j)
    /\ \A k \in JobId : Queued(k) => queue[j] <= queue[k]

QueueIsEmpty == \A j \in JobId : ~Queued(j)

\* Mutant of Dequeue: the row of table queue is not deleted.
DequeueLeavesRow(j) ==
    /\ IsHead(j)
    /\ jobs' = [jobs EXCEPT ![j].status = "processing"]
    /\ UNCHANGED <<queue, sequence>>

Dequeue(j) ==
    /\ IsHead(j)
    /\ jobs' = [jobs EXCEPT ![j].status = "processing"]
    /\ queue' = [queue EXCEPT ![j] = 0]
    /\ UNCHANGED sequence

\* One UPDATE by id: no look at the status being replaced, none at queue.
UpdateStatus(j, status) ==
    /\ \E t \in Stamp :
         jobs' = IF HasRow(j)
                 THEN [jobs EXCEPT ![j].status = status, ![j].completed_at = t]
                 ELSE jobs
    /\ UNCHANGED <<queue, sequence>>

\* Mutant of Cancellable: a running job counts.
CancellableUntilFinished(j) == jobs[j].status \in {"pending", "processing"}

Cancellable(j) == jobs[j].status = "pending"

\* Mutant of CancelJob: no DELETE FROM queue.
CancelJobLeavesRow(j) ==
    /\ Cancellable(j)
    /\ jobs' = [jobs EXCEPT ![j].status = "cancelled"]
    /\ UNCHANGED <<queue, sequence>>

CancelJob(j) ==
    /\ Cancellable(j)
    /\ jobs' = [jobs EXCEPT ![j].status = "cancelled"]
    /\ queue' = [queue EXCEPT ![j] = 0]
    /\ UNCHANGED sequence

\* COALESCE(completed_at, created_at): a cancelled job has no completed_at.
FinishedAt(j) ==
    IF jobs[j].completed_at # Null THEN jobs[j].completed_at ELSE jobs[j].created_at

\* completed or created before cutoff_date = t - Retention.
Expired(t) ==
    {j \in JobId : jobs[j].status \in Finished /\ FinishedAt(j) + Retention < t}

\* One DELETE; ON DELETE CASCADE takes the queue rows of the deleted jobs.
CleanupOldJobs ==
    \E t \in Stamp :
        /\ jobs' = [j \in JobId |-> IF j \in Expired(t) THEN NoRow ELSE jobs[j]]
        /\ queue' = [j \in JobId |-> IF j \in Expired(t) THEN 0 ELSE queue[j]]
        /\ UNCHANGED sequence

CountJobs(status) == Cardinality({j \in JobId : jobs[j].status = status})
GetQueueDepth == CountJobs("pending")
=============================================================================
