---------------------------- MODULE RedisService ----------------------------
(***************************************************************************)
(* The server process on the Redis backend: the same worker thread, HTTP   *)
(* cancel handler and lifespan as SqliteService, but each queue method is  *)
(* here the commands it sends, with other threads, a lost reply or a crash *)
(* between them.  A call that raises may have taken effect in Redis.       *)
(***************************************************************************)
EXTENDS RedisQueue

CONSTANTS
    Client,             \* concurrent HTTP cancel requests
    CleanupInterval,    \* Worker.cleanup_interval, in clock ticks
    MaxTime,            \* bound on the clock
    MaxStops,           \* bound on stops and crashes
    MaxRaises,          \* bound on commands whose reply never comes
    NoJob

ASSUME RedisServiceAssumption ==
    /\ {CleanupInterval, MaxTime, MaxStops, MaxRaises} \subseteq Nat
    /\ NoJob \notin JobId

VARIABLES
    server,         \* the process: "up", "stopping" or "down"
    worker,         \* the worker thread: where it is and its local variables
    nextCleanup,    \* Worker._next_cleanup, 0 for -inf
    request,        \* each client's cancel request, and its last answer
    issued,         \* history: the ids handed out, in the order of their RPUSH
    runs,           \* history: engine runs started, per job
    promised,       \* history: jobs whose cancellation was answered 200
    stops,          \* stops and crashes so far
    raises          \* commands whose reply was lost so far

procVars == <<server, worker, nextCleanup, request>>
history == <<issued, runs, promised>>
faults == <<stops, raises>>
vars == <<redisVars, now, procVars, history, faults>>

\* job and old are the locals of dequeue, update_status and cleanup_old_jobs:
\* the job in hand and the status read for it.  todo is old_job_ids.
Worker == [pc : {"loop", "cleanup", "examine", "delete", "pop", "mark", "begin", "engine",
                 "complete", "completing", "fail", "failing", "wait", "exited"},
           job : JobId \cup {NoJob},
           old : JobStatus \cup {"none"},
           todo : SUBSET JobId]

Busy == {"begin", "engine", "complete", "completing", "fail", "failing"}

Request == [pc : {"idle", "checked", "read"}, job : JobId \cup {NoJob},
            code : {0, 200, 400, 404, 500}]

TypeOK ==
    /\ RedisTypeOK
    /\ server \in {"up", "stopping", "down"}
    /\ worker \in Worker
    /\ nextCleanup \in Nat
    /\ request \in [Client -> Request]
    /\ issued \in Seq(JobId)
    /\ runs \in [JobId -> Nat]
    /\ promised \in SUBSET JobId
    /\ stops \in Nat
    /\ raises \in Nat

At(pc, job) == [pc |-> pc, job |-> job, old |-> "none", todo |-> {}]
NoRequest == [pc |-> "idle", job |-> NoJob, code |-> 0]

Init ==
    /\ RedisInit
    /\ server = "down"
    /\ worker = At("exited", NoJob)
    /\ nextCleanup = 0
    /\ request = [c \in Client |-> NoRequest]
    /\ issued = <<>>
    /\ runs = [j \in JobId |-> 0]
    /\ promised = {}
    /\ stops = 0
    /\ raises = 0

Running == server # "down"
Stop == stops < MaxStops /\ stops' = stops + 1 /\ UNCHANGED raises
Raise == raises < MaxRaises /\ raises' = raises + 1 /\ UNCHANGED stops
AtWorker(pc) == worker.pc = pc /\ Running
WorkerGoes(pc, job) == worker' = At(pc, job)

\* The command's reply is lost, whether or not Redis ran the command.
Lost(command) == Raise /\ (command \/ UNCHANGED redisVars)

-----------------------------------------------------------------------------
(* POST /api/execute and the scheduler's _fire.  Whether the reply comes   *)
(* back makes no difference to the job.                                    *)

Execute(j) ==
    /\ Running
    /\ ~Contains(issued, j)
    /\ issued' = Append(issued, j)
    /\ EnqueuePipeline(j)
    /\ UNCHANGED <<now, procVars, runs, promised, faults>>

-----------------------------------------------------------------------------
(* DELETE /api/jobs/{id}: the handler's get_job, cancel_job's own get_job, *)
(* then the pipeline, which looks at nothing.                              *)

Answer(c, j, code) ==
    request' = [request EXCEPT ![c] = [pc |-> "idle", job |-> j, code |-> code]]

Proceed(c, pc, j) ==
    request' = [request EXCEPT ![c] = [pc |-> pc, job |-> j, code |-> 0]]

CancelCheck(c, j) ==
    /\ server = "up"
    /\ request[c].pc = "idle"
    /\ \/ ~Exists(j) /\ Answer(c, j, 404)
       \/ Exists(j) /\ Status(j) # "pending" /\ Answer(c, j, 400)
       \/ Status(j) = "pending" /\ Proceed(c, "checked", j)
    /\ UNCHANGED <<redisVars, now, server, worker, nextCleanup, history, faults>>

CancelRead(c) ==
    /\ Running
    /\ request[c].pc = "checked"
    /\ LET j == request[c].job IN
         \/ Status(j) = "pending" /\ Proceed(c, "read", j)
         \/ Status(j) # "pending" /\ Answer(c, j, 500)
    /\ UNCHANGED <<redisVars, now, server, worker, nextCleanup, history, faults>>

CancelWrite(c) ==
    /\ Running
    /\ request[c].pc = "read"
    /\ LET j == request[c].job IN
         \/ /\ CancelPipeline(j)
            /\ Answer(c, j, 200)
            /\ promised' = promised \cup {j}
            /\ UNCHANGED faults
         \/ /\ Lost(CancelPipeline(j))
            /\ Answer(c, j, 500)
            /\ UNCHANGED promised
    /\ UNCHANGED <<now, server, worker, nextCleanup, issued, runs>>

-----------------------------------------------------------------------------
(* The worker thread: _run_loop, _maybe_cleanup, _process_job.             *)

\* while not stop.is_set()
LoopTest ==
    /\ AtWorker("loop")
    /\ WorkerGoes(IF server = "up" THEN "cleanup" ELSE "exited", NoJob)
    /\ UNCHANGED <<redisVars, now, server, nextCleanup, request, history, faults>>

MaybeCleanup ==
    /\ AtWorker("cleanup")
    /\ IF Retention = 0 \/ now < nextCleanup
       THEN WorkerGoes("pop", NoJob) /\ UNCHANGED <<nextCleanup, faults>>
       ELSE /\ nextCleanup' = now + CleanupInterval
            /\ \/ /\ worker' = [At("examine", NoJob) EXCEPT !.todo = OldJobIds]
                  /\ UNCHANGED faults
               \/ Raise /\ WorkerGoes("pop", NoJob)
    /\ UNCHANGED <<redisVars, now, server, request, history>>

\* Mutant of CleanupExamine: every old job goes, finished or not.
CleanupExamineAny ==
    /\ AtWorker("examine")
    /\ \/ worker.todo = {} /\ WorkerGoes("pop", NoJob)
       \/ \E j \in worker.todo :
            worker' = IF Exists(j)
                      THEN [worker EXCEPT !.pc = "delete", !.job = j, !.old = Status(j),
                                          !.todo = @ \ {j}]
                      ELSE [worker EXCEPT !.todo = @ \ {j}]
    /\ UNCHANGED <<redisVars, now, server, nextCleanup, request, history, faults>>

\* One job of old_job_ids: get_job, and on to the next unless it is finished.
CleanupExamine ==
    /\ AtWorker("examine")
    /\ \/ worker.todo = {} /\ WorkerGoes("pop", NoJob)
       \/ \E j \in worker.todo :
            worker' = IF Status(j) \in Finished
                      THEN [worker EXCEPT !.pc = "delete", !.job = j, !.old = Status(j),
                                          !.todo = @ \ {j}]
                      ELSE [worker EXCEPT !.todo = @ \ {j}]
    /\ UNCHANGED <<redisVars, now, server, nextCleanup, request, history, faults>>

CleanupDelete ==
    /\ AtWorker("delete")
    /\ \/ /\ DeletePipeline(worker.job, worker.old)
          /\ worker' = [At("examine", NoJob) EXCEPT !.todo = worker.todo]
          /\ UNCHANGED faults
       \/ Lost(DeletePipeline(worker.job, worker.old)) /\ WorkerGoes("pop", NoJob)
    /\ UNCHANGED <<now, server, nextCleanup, request, history>>

DequeuePop ==
    /\ AtWorker("pop")
    /\ \/ /\ pending = <<>>
          /\ WorkerGoes("wait", NoJob)
          /\ UNCHANGED <<redisVars, faults>>
       \/ \E j \in JobId :
            \/ LPop(j) /\ WorkerGoes("mark", j) /\ UNCHANGED faults
            \/ Lost(LPop(j)) /\ WorkerGoes("wait", NoJob)
    /\ UNCHANGED <<now, server, nextCleanup, request, history>>

DequeueMark ==
    /\ AtWorker("mark")
    /\ \/ /\ DequeuePipeline(worker.job)
          /\ WorkerGoes("begin", worker.job)
          /\ UNCHANGED faults
       \/ Lost(DequeuePipeline(worker.job)) /\ WorkerGoes("wait", NoJob)
    /\ UNCHANGED <<now, server, nextCleanup, request, history>>

StartEngine ==
    /\ AtWorker("begin")
    /\ WorkerGoes("engine", worker.job)
    /\ runs' = [runs EXCEPT ![worker.job] = @ + 1]
    /\ UNCHANGED <<redisVars, now, server, nextCleanup, request, issued, promised, faults>>

EngineEnds ==
    /\ AtWorker("engine")
    /\ WorkerGoes("complete", worker.job) \/ WorkerGoes("fail", worker.job)
    /\ UNCHANGED <<redisVars, now, server, nextCleanup, request, history, faults>>

\* update_status reads the old status before it sends its pipeline.
UpdateRead(pc, write, raised) ==
    /\ AtWorker(pc)
    /\ \/ /\ Exists(worker.job)
          /\ worker' = [worker EXCEPT !.pc = write, !.old = Status(worker.job)]
          /\ UNCHANGED faults
       \/ ~Exists(worker.job) /\ WorkerGoes("loop", NoJob) /\ UNCHANGED faults
       \/ Raise /\ worker' = raised
    /\ UNCHANGED <<redisVars, now, server, nextCleanup, request, history>>

UpdateWrite(pc, new, raised) ==
    /\ AtWorker(pc)
    /\ LET command == UpdatePipeline(worker.job, worker.old, new) IN
         \/ command /\ WorkerGoes("loop", NoJob) /\ UNCHANGED faults
         \/ Lost(command) /\ worker' = raised
    /\ UNCHANGED <<now, server, nextCleanup, request, history>>

\* A failing update to completed is caught and becomes an update to failed; a
\* failing update to failed reaches _run_loop, which lets go of the job.
MarkCompletedRead == UpdateRead("complete", "completing", At("fail", worker.job))
MarkCompleted == UpdateWrite("completing", "completed", At("fail", worker.job))
MarkFailedRead == UpdateRead("fail", "failing", At("wait", NoJob))
MarkFailed == UpdateWrite("failing", "failed", At("wait", NoJob))

\* Mutant of WaitEnds: stop.wait() without the poll interval.
WaitForStop ==
    /\ AtWorker("wait")
    /\ server = "stopping"
    /\ WorkerGoes("loop", NoJob)
    /\ UNCHANGED <<redisVars, now, server, nextCleanup, request, history, faults>>

\* stop.wait(poll_interval)
WaitEnds ==
    /\ AtWorker("wait")
    /\ WorkerGoes("loop", NoJob)
    /\ UNCHANGED <<redisVars, now, server, nextCleanup, request, history, faults>>

-----------------------------------------------------------------------------
(* The process.  Closing the pool stops nobody: the next command opens a   *)
(* new connection.                                                         *)

Start ==
    /\ server = "down"
    /\ server' = "up"
    /\ WorkerGoes("loop", NoJob)
    /\ nextCleanup' = 0
    /\ UNCHANGED <<redisVars, now, request, history, faults>>

BeginStop ==
    /\ server = "up"
    /\ Stop
    /\ server' = "stopping"
    /\ UNCHANGED <<redisVars, now, worker, nextCleanup, request, history>>

ProcessEnds ==
    /\ server' = "down"
    /\ WorkerGoes("exited", NoJob)
    /\ request' = [c \in Client |->
                     IF request[c].pc = "idle" THEN request[c] ELSE NoRequest]
    /\ UNCHANGED <<redisVars, now, nextCleanup, history>>

Exit == server = "stopping" /\ ProcessEnds /\ UNCHANGED faults
Crash == server # "down" /\ ProcessEnds /\ Stop

Tick ==
    /\ now < MaxTime
    /\ now' = now + 1
    /\ UNCHANGED <<redisVars, procVars, history, faults>>

-----------------------------------------------------------------------------
WorkerStep ==
    \/ LoopTest \/ MaybeCleanup \/ CleanupExamine \/ CleanupDelete
    \/ DequeuePop \/ DequeueMark \/ StartEngine \/ EngineEnds
    \/ MarkCompletedRead \/ MarkCompleted \/ MarkFailedRead \/ MarkFailed \/ WaitEnds

CancelStep == \E c \in Client : CancelRead(c) \/ CancelWrite(c)

Lifecycle == Start \/ BeginStop \/ Exit \/ Crash

Next ==
    \/ \E j \in JobId : Execute(j) \/ \E c \in Client : CancelCheck(c, j)
    \/ CancelStep
    \/ WorkerStep
    \/ Lifecycle
    \/ Tick

Spec == Init /\ [][Next]_vars

\* As in SqliteService: faults, submissions and cancel requests are never owed.
FairSpec ==
    /\ Spec
    /\ WF_vars(WorkerStep)
    /\ WF_vars(CancelStep)
    /\ WF_vars(Start \/ Exit)

-----------------------------------------------------------------------------
(* Correctness.                                                            *)

Listed(j) == Contains(pending, j)

\* Popped by LPOP, not yet marked: in the worker's hands and nowhere else.
InHands(j) == worker.pc = "mark" /\ worker.job = j

\* A listed job is one nobody started or cancelled, with every field enqueue
\* wrote, and it is listed once: whatever LPOP hands out may be run.
ListedArePending ==
    /\ \A j \in JobId : Listed(j) => hash[j] = [status |-> "pending", whole |-> TRUE]
    /\ \A i, k \in DOMAIN pending : pending[i] = pending[k] => i = k

\* A job's rules run at most once, crashes and lost replies included.
RunAtMostOnce == \A j \in JobId : runs[j] <= 1

\* The worker only ever runs a job as it was submitted: never one whose context
\* and dry_run fields a cleanup took away, which would read as "every rule, for
\* real" (dequeue's pipeline would resurrect the hash without them).
RunsAsSubmitted ==
    worker.pc \in Busy => hash[worker.job].whole

\* A pending job is in the list or on its way from it to the worker; only a
\* stop, a crash or a lost reply can drop one in between, one job each.
LostOnlyByFaults ==
    Cardinality({j \in JobId : Status(j) = "pending" /\ ~Listed(j) /\ ~InHands(j)})
        <= stops + raises

\* "Number of jobs matching filter" (count_jobs, queue_manager.py:120): the set
\* of a status holds the jobs with that status and no other, and by_time forgets
\* a job with its hash: nothing of a cleaned-up job is left behind.
IndexesAreExact ==
    /\ \A s \in JobStatus : index[s] = {j \in JobId : Status(j) = s}
    /\ \A j \in JobId : ~Exists(j) => byTime[j] = 0

\* With "Job cancelled successfully" the job's rules never run, and a job whose
\* rules started is not cancelled: "Only a pending job: 400 once it has
\* started" (cancel_job, api.py:720).
CancelHonoured ==
    \A j \in promised : runs[j] = 0 /\ Status(j) \in {"cancelled", "none"}

\* "Either way, queued jobs survive a restart" (docs/wiki/Deployment.md:12): a
\* pending job is in the list, or in the hands of a worker about to mark it.
QueuedJobsSurvive ==
    \A j \in JobId : Status(j) = "pending" => Listed(j) \/ InHands(j)

\* Every listed job leaves the list, whatever stop or crash comes in between:
\* the worker polls on, and a new process finds the same list (_run_loop, start).
ListedLeaves ==
    \A j \in JobId : Listed(j) ~> ~Listed(j)

\* The backend implements the abstract queue as far as no cancellation races a
\* dequeue.  A popped job counts as processing: nothing else can get at it.
Place(j) == CHOOSE i \in DOMAIN issued : issued[i] = j

AbstractStatus(j) ==
    IF ~Contains(issued, j) THEN "new"
    ELSE IF ~Exists(j) THEN "removed"
    ELSE IF Status(j) = "pending" /\ ~Listed(j) THEN "processing"
    ELSE Status(j)

JQ == INSTANCE JobQueue WITH
        status <- [j \in JobId |-> AbstractStatus(j)],
        ticket <- [j \in JobId |-> IF Listed(j) THEN Place(j) ELSE 0],
        lastTicket <- Len(issued)

ImplementsJobQueue == JQ!Spec
=============================================================================
