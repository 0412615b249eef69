--------------------------- MODULE SqliteService ----------------------------
(***************************************************************************)
(* The server process on the SQLite backend: the worker thread             *)
(* (worker.py), the HTTP handlers that touch the queue (api.py), the       *)
(* scheduler's and webhooks' submissions, and the lifespan that starts and *)
(* stops them, over the tables of SqliteQueue, which outlive the process.  *)
(*                                                                         *)
(* Each action is what a thread does between two points where another      *)
(* thread, a signal or a crash can come in: one queue call, or the start   *)
(* or end of one engine run.                                               *)
(***************************************************************************)
EXTENDS SqliteQueue

CONSTANTS
    Client,             \* concurrent HTTP cancel requests
    CleanupInterval,    \* Worker.cleanup_interval, in clock ticks
    MaxTime,            \* bound on the clock
    MaxStops,           \* bound on stops and crashes
    MaxRaises,          \* bound on queue calls that raise
    NoJob

ASSUME SqliteServiceAssumption ==
    /\ CleanupInterval \in Nat
    /\ MaxTime \in Nat
    /\ MaxStops \in Nat
    /\ MaxRaises \in Nat
    /\ NoJob \notin JobId

VARIABLES
    server,         \* the process: "up", "stopping", "closed" or "down"
    worker,         \* the worker thread: where it is, and the job in its hands
    nextCleanup,    \* Worker._next_cleanup, 0 for -inf
    request,        \* each client's cancel request, and its last answer
    issued,         \* every id generate_job_id has handed out
    runs,           \* history: engine runs started, per job
    promised,       \* history: jobs whose cancellation was answered 200
    stops,          \* stops and crashes so far
    raises          \* queue calls that raised so far

procVars == <<server, worker, nextCleanup, request>>
history == <<issued, runs, promised>>
faults == <<stops, raises>>
vars == <<dbVars, now, procVars, history, faults>>

WorkerPc == {"loop", "cleanup", "dequeue", "begin", "engine", "complete",
             "fail", "wait", "exited"}
Busy == {"begin", "engine", "complete", "fail"}

Code == {0, 200, 400, 404, 500}

TypeOK ==
    /\ DbTypeOK
    /\ server \in {"up", "stopping", "closed", "down"}
    /\ worker \in [pc : WorkerPc, job : JobId \cup {NoJob}]
    /\ nextCleanup \in Nat
    /\ request \in [Client -> [pc : {"idle", "checked"}, job : JobId \cup {NoJob},
                               code : Code]]
    /\ issued \in SUBSET JobId
    /\ runs \in [JobId -> Nat]
    /\ promised \in SUBSET JobId
    /\ stops \in Nat
    /\ raises \in Nat

Exited == [pc |-> "exited", job |-> NoJob]
NoRequest == [pc |-> "idle", job |-> NoJob, code |-> 0]

Init ==
    /\ DbInit
    /\ server = "down"
    /\ worker = Exited
    /\ nextCleanup = 0
    /\ request = [c \in Client |-> NoRequest]
    /\ issued = {}
    /\ runs = [j \in JobId |-> 0]
    /\ promised = {}
    /\ stops = 0
    /\ raises = 0

Running == server \in {"up", "stopping"}
StopIsSet == server # "up"
Stop == stops < MaxStops /\ stops' = stops + 1 /\ UNCHANGED raises
Raise == raises < MaxRaises /\ raises' = raises + 1 /\ UNCHANGED stops

\* A queue call that raises leaves the tables as they were: now and then while the
\* connections are open, and once they are closed in every thread that had one.  A
\* thread that had none yet opens one of its own then (_get_connection).  Which
\* threads those are is not kept: a call after the close may raise, or not.
CallRaises == IF Running THEN Raise ELSE UNCHANGED faults

AtWorker(pc) == worker.pc = pc /\ server # "down"
WorkerGoes(pc) == worker' = [pc |-> pc, job |-> NoJob]
KeepJob(pc) == worker' = [worker EXCEPT !.pc = pc]

-----------------------------------------------------------------------------
(* Submissions: POST /api/execute, and the scheduler thread's _fire.       *)

Execute(j) ==
    /\ server # "down"
    /\ j \notin issued
    /\ issued' = issued \cup {j}
    /\ Enqueue(j)
    /\ UNCHANGED <<now, procVars, runs, promised, faults>>

-----------------------------------------------------------------------------
(* DELETE /api/jobs/{id}: get_job, then cancel_job in another transaction. *)

Answer(c, j, code) ==
    request' = [request EXCEPT ![c] = [pc |-> "idle", job |-> j, code |-> code]]

CancelCheck(c, j) ==
    /\ server = "up"
    /\ request[c].pc = "idle"
    /\ \/ ~HasRow(j) /\ Answer(c, j, 404)
       \/ HasRow(j) /\ ~Cancellable(j) /\ Answer(c, j, 400)
       \/ /\ Cancellable(j)
          /\ request' = [request EXCEPT ![c] = [pc |-> "checked", job |-> j, code |-> 0]]
    /\ UNCHANGED <<dbVars, now, server, worker, nextCleanup, history, faults>>

\* Mutant of CancelCommit: it trusts the status the handler read.
CancelCommitUnchecked(c) ==
    /\ server # "down"
    /\ request[c].pc = "checked"
    /\ LET j == request[c].job IN
         /\ jobs' = [jobs EXCEPT ![j].status = "cancelled"]
         /\ queue' = [queue EXCEPT ![j] = 0]
         /\ Answer(c, j, 200)
         /\ promised' = promised \cup {j}
    /\ UNCHANGED <<sequence, now, server, worker, nextCleanup, issued, runs, faults>>

CancelCommit(c) ==
    /\ server # "down"
    /\ request[c].pc = "checked"
    /\ LET j == request[c].job IN
         \/ /\ CancelJob(j)
            /\ Answer(c, j, 200)
            /\ promised' = promised \cup {j}
         \/ /\ ~Cancellable(j)
            /\ Answer(c, j, 500)
            /\ UNCHANGED <<dbVars, promised>>
    /\ UNCHANGED <<now, server, worker, nextCleanup, issued, runs, faults>>

\* The transaction raises (locked, disk, closed): rolled back, CatchAll says 500.
CancelRaises(c) ==
    /\ server # "down"
    /\ request[c].pc = "checked"
    /\ CallRaises
    /\ Answer(c, request[c].job, 500)
    /\ UNCHANGED <<dbVars, now, server, worker, nextCleanup, history>>

-----------------------------------------------------------------------------
(* The worker thread: _run_loop, _maybe_cleanup, _process_job.             *)

\* while not stop.is_set()
LoopTest ==
    /\ AtWorker("loop")
    /\ WorkerGoes(IF StopIsSet THEN "exited" ELSE "cleanup")
    /\ UNCHANGED <<dbVars, now, server, nextCleanup, request, history, faults>>

\* The next cleanup is scheduled first, and its failure only logged.
MaybeCleanup ==
    /\ AtWorker("cleanup")
    /\ WorkerGoes("dequeue")
    /\ IF Retention = 0 \/ now < nextCleanup
       THEN UNCHANGED <<dbVars, nextCleanup, faults>>
       ELSE /\ nextCleanup' = now + CleanupInterval
            /\ \/ CleanupOldJobs /\ UNCHANGED faults
               \/ CallRaises /\ UNCHANGED dbVars
    /\ UNCHANGED <<now, server, request, history>>

WorkerDequeue ==
    /\ AtWorker("dequeue")
    /\ \/ \E j \in JobId : Dequeue(j) /\ worker' = [pc |-> "begin", job |-> j]
       \/ QueueIsEmpty /\ WorkerGoes("wait") /\ UNCHANGED dbVars
    /\ UNCHANGED <<now, server, nextCleanup, request, history, faults>>

\* Mutant of DequeueRaises: the exception ends the thread.
DequeueRaisesEndsThread ==
    /\ AtWorker("dequeue")
    /\ CallRaises
    /\ WorkerGoes("exited")
    /\ UNCHANGED <<dbVars, now, server, nextCleanup, request, history>>

DequeueRaises ==
    /\ AtWorker("dequeue")
    /\ CallRaises
    /\ WorkerGoes("wait")
    /\ UNCHANGED <<dbVars, now, server, nextCleanup, request, history>>

\* stop.wait(poll_interval)
WaitEnds ==
    /\ AtWorker("wait")
    /\ WorkerGoes("loop")
    /\ UNCHANGED <<dbVars, now, server, nextCleanup, request, history, faults>>

StartEngine ==
    /\ AtWorker("begin")
    /\ KeepJob("engine")
    /\ runs' = [runs EXCEPT ![worker.job] = @ + 1]
    /\ UNCHANGED <<dbVars, now, server, nextCleanup, request, issued, promised, faults>>

\* Mutant of EngineEnds: an engine error is not caught in _process_job.
EngineEndsUncaught ==
    /\ AtWorker("engine")
    /\ KeepJob("complete") \/ WorkerGoes("wait")
    /\ UNCHANGED <<dbVars, now, server, nextCleanup, request, history, faults>>

\* RulesEngine.run returns, or raises (qBittorrent down, rules unresolvable).
EngineEnds ==
    /\ AtWorker("engine")
    /\ KeepJob("complete") \/ KeepJob("fail")
    /\ UNCHANGED <<dbVars, now, server, nextCleanup, request, history, faults>>

MarkCompleted ==
    /\ AtWorker("complete")
    /\ UpdateStatus(worker.job, "completed")
    /\ WorkerGoes("loop")
    /\ UNCHANGED <<now, server, nextCleanup, request, history, faults>>

\* The except clause of _process_job covers the update to completed too.
MarkCompletedRaises ==
    /\ AtWorker("complete")
    /\ CallRaises
    /\ KeepJob("fail")
    /\ UNCHANGED <<dbVars, now, server, nextCleanup, request, history>>

MarkFailed ==
    /\ AtWorker("fail")
    /\ UpdateStatus(worker.job, "failed")
    /\ WorkerGoes("loop")
    /\ UNCHANGED <<now, server, nextCleanup, request, history, faults>>

\* Nothing catches this one before _run_loop, which lets go of the job.
MarkFailedRaises ==
    /\ AtWorker("fail")
    /\ CallRaises
    /\ WorkerGoes("wait")
    /\ UNCHANGED <<dbVars, now, server, nextCleanup, request, history>>

-----------------------------------------------------------------------------
(* The process: lifespan, BackgroundThreads, and what ends it.             *)

Start ==
    /\ server = "down"
    /\ server' = "up"
    /\ WorkerGoes("loop")
    /\ nextCleanup' = 0
    /\ UNCHANGED <<dbVars, now, request, history, faults>>

\* SIGTERM: uvicorn stops accepting requests, the lifespan sets stop.
BeginStop ==
    /\ server = "up"
    /\ Stop
    /\ server' = "stopping"
    /\ UNCHANGED <<dbVars, now, worker, nextCleanup, request, history>>

\* The join ended or ran into its timeout: the connections there are are closed
\* under whichever thread is still running.
CloseQueue ==
    /\ server = "stopping"
    /\ server' = "closed"
    /\ UNCHANGED <<dbVars, now, worker, nextCleanup, request, history, faults>>

\* The threads are daemons: they end with the process, and so do the requests.
ProcessEnds ==
    /\ server' = "down"
    /\ worker' = Exited
    /\ request' = [c \in Client |->
                     IF request[c].pc = "idle" THEN request[c] ELSE NoRequest]
    /\ UNCHANGED <<dbVars, now, nextCleanup, history>>

Exit == server = "closed" /\ ProcessEnds /\ UNCHANGED faults
Crash == server # "down" /\ ProcessEnds /\ Stop

Tick ==
    /\ now < MaxTime
    /\ now' = now + 1
    /\ UNCHANGED <<dbVars, procVars, history, faults>>

-----------------------------------------------------------------------------
WorkerStep ==
    \/ LoopTest \/ MaybeCleanup \/ WorkerDequeue \/ DequeueRaises \/ WaitEnds
    \/ StartEngine \/ EngineEnds
    \/ MarkCompleted \/ MarkCompletedRaises \/ MarkFailed \/ MarkFailedRaises

CancelStep == \E c \in Client : CancelCommit(c) \/ CancelRaises(c)

Lifecycle == Start \/ BeginStop \/ CloseQueue \/ Exit \/ Crash

Next ==
    \/ \E j \in JobId : Execute(j) \/ \E c \in Client : CancelCheck(c, j)
    \/ CancelStep
    \/ WorkerStep
    \/ Lifecycle
    \/ Tick

Spec == Init /\ [][Next]_vars

\* The thread runs whenever it can; a stop that began goes through, and the
\* container's restart policy starts the process again.  Faults, submissions
\* and cancel requests are never owed.
FairSpec ==
    /\ Spec
    /\ WF_vars(WorkerStep)
    /\ WF_vars(CancelStep)
    /\ WF_vars(Start \/ CloseQueue \/ Exit)

-----------------------------------------------------------------------------
(* Correctness.                                                            *)

Status(j) == jobs[j].status

\* The two tables never disagree: a job is in table queue exactly while its row
\* says pending, at a place of its own, in whatever order submissions, dequeues,
\* cancels, cleanups and crashes come (enqueue, dequeue, cancel_job).
QueueIsPending ==
    /\ \A j \in JobId : Queued(j) <=> Status(j) = "pending"
    /\ \A j, k \in JobId : Queued(j) /\ queue[j] = queue[k] => j = k

\* While the worker has a job in its hands, the job's row is there and says
\* processing: its two unguarded UPDATEs (update_status) never overwrite a
\* cancellation, resurrect a cleaned-up job or miss their row.
WorkerOwnsItsJob ==
    worker.pc \in Busy => Status(worker.job) = "processing"

\* A job's rules run at most once, and never before it was submitted, over any
\* number of stops, crashes and failing queue calls: deletes are never repeated.
RunAtMostOnce ==
    \A j \in JobId : runs[j] <= 1 /\ (runs[j] = 1 => j \in issued)

\* A client told "Job cancelled successfully" was told the truth: the rules of
\* that job have not run and never will.
CancelHonoured ==
    \A j \in promised : runs[j] = 0 /\ Status(j) \in {"cancelled", "none"}

\* A job that has an outcome got it from a run: "completed" or "failed" is never
\* written for a job whose rules did not start.
OutcomeMeansRun ==
    \A j \in JobId : Status(j) \in {"completed", "failed"} => runs[j] = 1

\* One job at a time: apart from the one in the worker's hands, a job can only
\* be processing because a stop, a crash or a failing call left it there; each
\* of those strands at most one (what the more-than-5 of /api/health counts).
StrandedOnlyByFaults ==
    CountJobs("processing") <= stops + raises + (IF worker.pc \in Busy THEN 1 ELSE 0)

\* Nothing but a cleanup of a finished job takes its row away, and a finished
\* job keeps its outcome until then.
FinishedIsFinal ==
    [][\A j \in JobId :
         Status(j) \in Finished => Status(j)' \in {Status(j), "none"}]_vars

\* The backend implements the abstract queue.
AbstractStatus(j) ==
    IF HasRow(j) THEN Status(j) ELSE IF j \in issued THEN "removed" ELSE "new"

JQ == INSTANCE JobQueue WITH
        status <- [j \in JobId |-> AbstractStatus(j)],
        ticket <- queue,
        lastTicket <- sequence

ImplementsJobQueue == JQ!Spec

\* Every pending job is dequeued or cancelled in the end, whatever stops and
\* crashes come in between: "queued jobs survive a restart" (the worker thread
\* outlives every exception of _run_loop, and Start resumes the same table).
PendingLeavesTheLine ==
    \A j \in JobId : Status(j) = "pending" ~> Status(j) # "pending"

\* "Jobs survive server restarts and crashes" (CHANGELOG.md:565), and a job
\* that left pending reaches completed or failed ("let it finish",
\* docs/wiki/HTTP-API-Reference.md:190).
EveryJobFinishes ==
    \A j \in JobId : Status(j) = "pending" ~> Status(j) \in Finished \cup {"none"}

\* "400 if the job has already moved past pending" (HTTP-API-Reference.md:140).
StartedJobAnswers400 ==
    \A c \in Client : request[c].code # 500
=============================================================================
