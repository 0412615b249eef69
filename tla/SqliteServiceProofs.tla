------------------------ MODULE SqliteServiceProofs -------------------------
(***************************************************************************)
(* SqliteService for every set of jobs and clients, every retention and    *)
(* lock wait, and any number of stops, crashes and failing queue calls:    *)
(* its invariants, and that it implements JobQueue.                        *)
(***************************************************************************)
EXTENDS SqliteService, FiniteSetTheorems, TLAPS

-----------------------------------------------------------------------------
(* The inductive invariant, by what each part relates.                     *)

\* Table queue against table jobs, and the ids AUTOINCREMENT has given.
QueueInv ==
    \A j \in JobId :
        /\ queue[j] # 0 <=> jobs[j].status = "pending"
        /\ queue[j] <= sequence
        /\ \A k \in JobId : queue[j] # 0 /\ queue[j] = queue[k] => j = k

\* The worker's hands against table jobs and the runs so far.
WorkerInv ==
    IF worker.pc \in Busy
    THEN /\ worker.job \in JobId
         /\ jobs[worker.job].status = "processing"
         /\ runs[worker.job] = IF worker.pc = "begin" THEN 0 ELSE 1
    ELSE worker.job = NoJob

\* A job's row against its history.
HistoryInv ==
    \A j \in JobId :
        /\ jobs[j].status # "none" => j \in issued
        /\ j \notin issued => runs[j] = 0 /\ j \notin promised
        /\ jobs[j].status \in {"pending", "cancelled"} => runs[j] = 0
        /\ jobs[j].status \in {"completed", "failed"} => runs[j] = 1
        /\ runs[j] <= 1
        /\ j \in promised => runs[j] = 0 /\ jobs[j].status \in {"cancelled", "none"}

RequestInv == \A c \in Client : request[c].pc = "checked" => request[c].job \in JobId

IInv == TypeOK /\ QueueInv /\ WorkerInv /\ HistoryInv /\ RequestInv

LEMMA InitIInv == Init => IInv
  BY SqliteServiceAssumption
  DEF Init, IInv, TypeOK, DbTypeOK, DbInit, Row, NoRow, Null, JobStatus, Finished,
      QueueInv, WorkerInv, HistoryInv, RequestInv, WorkerPc, Busy, Code, Exited, NoRequest

LEMMA ExecuteIInv ==
  ASSUME IInv, NEW j \in JobId, Execute(j)
  PROVE  IInv'
  <1> USE DEF IInv, Execute, Enqueue, HasRow, procVars, faults
  <1>1. PICK t \in Stamp : jobs' = [jobs EXCEPT ![j] =
              [status |-> "pending", created_at |-> t, completed_at |-> Null]]
    OBVIOUS
  <1>2. t \in Nat
    BY DEF Stamp, TypeOK, DbTypeOK
  <1>3. TypeOK'
    BY <1>1, <1>2 DEF TypeOK, DbTypeOK, Row, Null, JobStatus
  <1>4. QueueInv'
    BY <1>1 DEF QueueInv, TypeOK, DbTypeOK
  <1>5. WorkerInv'
    BY <1>1 DEF WorkerInv, TypeOK, DbTypeOK
  <1>6. HistoryInv'
    BY <1>1 DEF HistoryInv, TypeOK, DbTypeOK
  <1>7. RequestInv'
    BY DEF RequestInv
  <1> QED
    BY <1>3, <1>4, <1>5, <1>6, <1>7

\* What leaves the tables and the history alone, and the worker's job or its
\* hands empty, needs the typing of what it does change and nothing else.
LEMMA QuietIInv ==
  ASSUME IInv, TypeOK', RequestInv',
         UNCHANGED <<dbVars, history>>,
         UNCHANGED worker \/ (worker'.pc \notin Busy /\ worker'.job = NoJob)
  PROVE  IInv'
  <1> USE DEF IInv, dbVars, history
  <1>1. QueueInv'
    BY DEF QueueInv
  <1>2. WorkerInv'
    BY DEF WorkerInv
  <1>3. HistoryInv'
    BY DEF HistoryInv
  <1> QED
    BY <1>1, <1>2, <1>3

LEMMA CancelCheckIInv ==
  ASSUME IInv, NEW c \in Client, NEW j \in JobId, CancelCheck(c, j)
  PROVE  IInv'
  <1> USE DEF IInv, CancelCheck, Answer, dbVars, history, faults
  <1>1. TypeOK'
    BY DEF TypeOK, DbTypeOK, Code
  <1>2. RequestInv'
    BY DEF RequestInv, TypeOK
  <1> QED
    BY <1>1, <1>2, QuietIInv

LEMMA CancelCommitIInv ==
  ASSUME IInv, NEW c \in Client, CancelCommit(c)
  PROVE  IInv'
  <1> DEFINE j == request[c].job
  <1> USE DEF IInv, CancelCommit, Answer, dbVars, faults
  <1>1. j \in JobId
    BY DEF RequestInv
  <1>2. RequestInv'
    BY DEF RequestInv, TypeOK
  <1>3. CASE CancelJob(j) /\ Answer(c, j, 200) /\ promised' = promised \cup {j}
    <2> USE <1>1, <1>3 DEF CancelJob, Cancellable
    <2>1. TypeOK'
      BY DEF TypeOK, DbTypeOK, Code, Row, JobStatus, Finished
    <2>2. QueueInv'
      BY DEF QueueInv, TypeOK, DbTypeOK
    <2>3. WorkerInv'
      BY DEF WorkerInv, TypeOK, DbTypeOK
    <2>4. HistoryInv'
      BY DEF HistoryInv, TypeOK, DbTypeOK
    <2> QED
      BY <1>2, <2>1, <2>2, <2>3, <2>4
  <1>4. CASE ~Cancellable(j) /\ Answer(c, j, 500) /\ UNCHANGED <<dbVars, promised>>
    <2>1. TypeOK'
      BY <1>1, <1>4 DEF TypeOK, DbTypeOK, Code
    <2> QED
      BY <1>2, <1>4, <2>1, QuietIInv DEF history
  <1> QED
    BY <1>3, <1>4

LEMMA CancelRaisesIInv ==
  ASSUME IInv, NEW c \in Client, CancelRaises(c)
  PROVE  IInv'
  <1> USE DEF IInv, CancelRaises, Answer, CallRaises, Raise, dbVars, history, faults
  <1>1. TypeOK'
    BY DEF TypeOK, DbTypeOK, Code
  <1>2. RequestInv'
    BY DEF RequestInv, TypeOK
  <1> QED
    BY <1>1, <1>2, QuietIInv

\* A cleanup takes whole rows, and only of jobs nobody holds or waits for.
LEMMA CleanupIInv ==
  ASSUME IInv, CleanupOldJobs, UNCHANGED <<history, request>>, TypeOK',
         worker'.pc \notin Busy, worker'.job = NoJob
  PROVE  IInv'
  <1> USE DEF IInv, history
  <1>1. PICK t \in Stamp :
          /\ jobs' = [j \in JobId |-> IF j \in Expired(t) THEN NoRow ELSE jobs[j]]
          /\ queue' = [j \in JobId |-> IF j \in Expired(t) THEN 0 ELSE queue[j]]
          /\ sequence' = sequence
    BY DEF CleanupOldJobs
  <1>2. \A j \in Expired(t) : jobs[j].status \in Finished
    BY DEF Expired
  <1>3. QueueInv'
    BY <1>1, <1>2 DEF QueueInv, NoRow, Finished, TypeOK, DbTypeOK
  <1>4. WorkerInv'
    BY DEF WorkerInv
  <1>5. HistoryInv'
    BY <1>1, <1>2 DEF HistoryInv, NoRow, Finished
  <1>6. RequestInv'
    BY DEF RequestInv
  <1> QED
    BY <1>3, <1>4, <1>5, <1>6

LEMMA MaybeCleanupIInv ==
  ASSUME IInv, MaybeCleanup
  PROVE  IInv'
  <1> USE DEF IInv, MaybeCleanup, AtWorker, WorkerGoes, CallRaises, Raise, faults, history
  <1>0. worker'.pc \notin Busy /\ worker'.job = NoJob
    BY DEF Busy
  <1>1. RequestInv'
    BY DEF RequestInv
  <1>2. CASE UNCHANGED dbVars
    <2>1. TypeOK'
      BY <1>2, SqliteServiceAssumption DEF TypeOK, DbTypeOK, WorkerPc, dbVars
    <2> QED
      BY <1>0, <1>1, <1>2, <2>1, QuietIInv
  <1>3. CASE CleanupOldJobs /\ UNCHANGED faults /\ nextCleanup' = now + CleanupInterval
    <2>1. PICK t \in Stamp :
            /\ jobs' = [j \in JobId |-> IF j \in Expired(t) THEN NoRow ELSE jobs[j]]
            /\ queue' = [j \in JobId |-> IF j \in Expired(t) THEN 0 ELSE queue[j]]
            /\ sequence' = sequence
      BY <1>3 DEF CleanupOldJobs
    <2>2. NoRow \in Row
      BY DEF NoRow, Row, Null
    <2>3. TypeOK'
      BY <1>3, <2>1, <2>2, SqliteServiceAssumption DEF TypeOK, DbTypeOK, WorkerPc
    <2> QED
      BY <1>0, <1>3, <2>3, CleanupIInv
  <1> QED
    BY <1>2, <1>3

LEMMA WorkerDequeueIInv ==
  ASSUME IInv, WorkerDequeue
  PROVE  IInv'
  <1> USE DEF IInv, WorkerDequeue, AtWorker, WorkerGoes, faults, history
  <1>1. RequestInv'
    BY DEF RequestInv
  <1>2. CASE WorkerGoes("wait") /\ UNCHANGED dbVars
    <2>1. TypeOK'
      BY <1>2 DEF TypeOK, DbTypeOK, WorkerPc, dbVars
    <2> QED
      BY <1>1, <1>2, <2>1, QuietIInv DEF Busy
  <1>3. CASE \E j \in JobId : Dequeue(j) /\ worker' = [pc |-> "begin", job |-> j]
    <2>1. PICK j \in JobId : Dequeue(j) /\ worker' = [pc |-> "begin", job |-> j]
      BY <1>3
    <2> USE <2>1 DEF Dequeue, IsHead, Queued
    <2>2. TypeOK'
      BY DEF TypeOK, DbTypeOK, Row, JobStatus, WorkerPc
    <2>3. QueueInv'
      BY DEF QueueInv, TypeOK, DbTypeOK
    <2>4. WorkerInv'
      BY DEF WorkerInv, QueueInv, HistoryInv, TypeOK, DbTypeOK, Busy
    <2>5. HistoryInv'
      BY DEF HistoryInv, QueueInv, TypeOK, DbTypeOK
    <2> QED
      BY <1>1, <2>2, <2>3, <2>4, <2>5
  <1> QED
    BY <1>2, <1>3

LEMMA StartEngineIInv ==
  ASSUME IInv, StartEngine
  PROVE  IInv'
  <1> USE DEF IInv, StartEngine, AtWorker, KeepJob, dbVars, faults, WorkerInv, Busy
  <1>1. worker.job \in JobId
    OBVIOUS
  <1>2. TypeOK'
    BY <1>1 DEF TypeOK, DbTypeOK, WorkerPc
  <1>3. QueueInv'
    BY DEF QueueInv
  <1>4. WorkerInv'
    BY <1>1 DEF TypeOK
  <1>5. HistoryInv'
    BY <1>1 DEF HistoryInv, TypeOK
  <1>6. RequestInv'
    BY DEF RequestInv
  <1> QED
    BY <1>2, <1>3, <1>4, <1>5, <1>6

\* The engine ran; the step only moves on with the same job.
LEMMA CarryOnIInv ==
  ASSUME IInv, worker.pc \in {"engine", "complete"}, UNCHANGED <<dbVars, history, request>>,
         KeepJob("complete") \/ KeepJob("fail"), TypeOK'
  PROVE  IInv'
  <1> USE DEF IInv, KeepJob, dbVars, history
  <1>1. QueueInv'
    BY DEF QueueInv
  <1>2. WorkerInv'
    BY DEF WorkerInv, Busy, TypeOK
  <1>3. HistoryInv'
    BY DEF HistoryInv
  <1>4. RequestInv'
    BY DEF RequestInv
  <1> QED
    BY <1>1, <1>2, <1>3, <1>4

\* The UPDATE by id hits the row of the job in the worker's hands.
LEMMA OutcomeIInv ==
  ASSUME IInv, worker.pc \in {"complete", "fail"}, NEW s \in {"completed", "failed"},
         UpdateStatus(worker.job, s), WorkerGoes("loop"),
         UNCHANGED <<now, server, nextCleanup, request, history, faults>>
  PROVE  IInv'
  <1> DEFINE j == worker.job
  <1> USE DEF IInv, UpdateStatus, HasRow, WorkerGoes, history, faults
  <1>1. j \in JobId /\ jobs[j].status = "processing" /\ runs[j] = 1
    BY DEF WorkerInv, Busy
  <1>2. PICK t \in Stamp : jobs' = [jobs EXCEPT ![j].status = s, ![j].completed_at = t]
    BY <1>1
  <1>3. t \in Nat
    BY DEF Stamp, TypeOK, DbTypeOK
  <1>4. TypeOK'
    <2>1. [jobs[j] EXCEPT !.status = s, !.completed_at = t] \in Row
      BY <1>1, <1>3 DEF TypeOK, DbTypeOK, Row, JobStatus, Finished
    <2>2. jobs' = [jobs EXCEPT ![j] = [jobs[j] EXCEPT !.status = s, !.completed_at = t]]
      BY <1>1, <1>2 DEF TypeOK, DbTypeOK
    <2>3. jobs' \in [JobId -> Row]
      BY <1>1, <2>1, <2>2 DEF TypeOK, DbTypeOK
    <2> QED
      BY <2>3 DEF TypeOK, DbTypeOK, WorkerPc
  <1>5. QueueInv'
    BY <1>1, <1>2 DEF QueueInv, TypeOK, DbTypeOK
  <1>6. WorkerInv'
    BY DEF WorkerInv, Busy
  <1>7. HistoryInv'
    BY <1>1, <1>2 DEF HistoryInv, TypeOK, DbTypeOK
  <1>8. RequestInv'
    BY DEF RequestInv
  <1> QED
    BY <1>4, <1>5, <1>6, <1>7, <1>8

LEMMA WorkerStepIInv ==
  ASSUME IInv, WorkerStep
  PROVE  IInv'
  <1> USE DEF AtWorker
  <1>1. CASE LoopTest \/ DequeueRaises \/ WaitEnds \/ MarkFailedRaises
    <2>1. UNCHANGED <<dbVars, history, request>> /\ TypeOK'
      BY <1>1 DEF IInv, TypeOK, DbTypeOK, LoopTest, DequeueRaises, WaitEnds,
                  MarkFailedRaises, WorkerGoes, WorkerPc, CallRaises, Raise, dbVars,
                  history, faults
    <2>2. worker'.pc \notin Busy /\ worker'.job = NoJob
      BY <1>1 DEF LoopTest, DequeueRaises, WaitEnds, MarkFailedRaises, WorkerGoes, Busy
    <2>3. RequestInv'
      BY <2>1 DEF IInv, RequestInv
    <2> QED
      BY <2>1, <2>2, <2>3, QuietIInv
  <1>2. CASE EngineEnds \/ MarkCompletedRaises
    <2>1. UNCHANGED <<dbVars, history, request>> /\ TypeOK'
      BY <1>2 DEF IInv, TypeOK, DbTypeOK, EngineEnds, MarkCompletedRaises, KeepJob,
                  WorkerPc, CallRaises, Raise, dbVars, history, faults
    <2> QED
      BY <1>2, <2>1, CarryOnIInv DEF EngineEnds, MarkCompletedRaises
  <1>3. CASE MarkCompleted \/ MarkFailed
    BY <1>3, OutcomeIInv DEF MarkCompleted, MarkFailed
  <1> QED
    BY <1>1, <1>2, <1>3, MaybeCleanupIInv, WorkerDequeueIInv, StartEngineIInv DEF WorkerStep

LEMMA LifecycleIInv ==
  ASSUME IInv, Lifecycle \/ Tick
  PROVE  IInv'
  <1> USE DEF IInv, faults
  <1>1. CASE Start \/ Exit \/ Crash
    <2>1. UNCHANGED <<dbVars, history>> /\ worker'.pc \notin Busy /\ worker'.job = NoJob
      BY <1>1 DEF Start, Exit, Crash, ProcessEnds, WorkerGoes, Exited, Busy
    <2>2. TypeOK' /\ RequestInv'
      BY <1>1 DEF Start, Exit, Crash, Stop, ProcessEnds, WorkerGoes, Exited, NoRequest,
                  TypeOK, DbTypeOK, RequestInv, WorkerPc, Code, dbVars, history
    <2> QED
      BY <2>1, <2>2, QuietIInv
  <1>2. CASE BeginStop \/ CloseQueue \/ Tick
    <2>1. UNCHANGED <<dbVars, history, worker, request>>
      BY <1>2 DEF BeginStop, CloseQueue, Tick, procVars
    <2>2. TypeOK'
      BY <1>2 DEF BeginStop, CloseQueue, Tick, Stop, TypeOK, DbTypeOK, dbVars, history,
                  procVars
    <2> QED
      BY <2>1, <2>2, QuietIInv DEF RequestInv
  <1> QED
    BY <1>1, <1>2 DEF Lifecycle

LEMMA NextIInv == IInv /\ [Next]_vars => IInv'
  <1> SUFFICES ASSUME IInv, [Next]_vars PROVE IInv'
    OBVIOUS
  <1>1. CASE UNCHANGED vars
    BY <1>1 DEF vars, dbVars, procVars, history, faults, IInv, TypeOK, DbTypeOK, QueueInv,
                WorkerInv, HistoryInv, RequestInv
  <1> QED
    BY <1>1, ExecuteIInv, CancelCheckIInv, CancelCommitIInv, CancelRaisesIInv,
       WorkerStepIInv, LifecycleIInv DEF Next, CancelStep

LEMMA InductiveInvariant == Spec => []IInv
  BY InitIInv, NextIInv, PTL DEF Spec

-----------------------------------------------------------------------------
(* What it implies.                                                        *)

\* Every variable keeps its type through every step of every thread.
THEOREM SpecTypeOK == Spec => []TypeOK
  BY InductiveInvariant, PTL DEF IInv

\* The queue table holds exactly the pending jobs, each at a place of its own
\* (enqueue, dequeue, cancel_job and cleanup_old_jobs keep the tables together).
THEOREM SpecQueueIsPending == Spec => []QueueIsPending
  <1>1. IInv => QueueIsPending
    BY DEF IInv, QueueInv, QueueIsPending, Queued, Status
  <1> QED
    BY <1>1, InductiveInvariant, PTL

\* The worker's unguarded updates only ever hit a job that is processing.
THEOREM SpecWorkerOwnsItsJob == Spec => []WorkerOwnsItsJob
  <1>1. IInv => WorkerOwnsItsJob
    BY DEF IInv, WorkerInv, WorkerOwnsItsJob, Status
  <1> QED
    BY <1>1, InductiveInvariant, PTL

\* No job's rules run twice, whatever stops, crashes and errors happen.
THEOREM SpecRunAtMostOnce == Spec => []RunAtMostOnce
  <1>1. IInv => RunAtMostOnce
    BY DEF IInv, HistoryInv, RunAtMostOnce
  <1> QED
    BY <1>1, InductiveInvariant, PTL

\* A job whose cancellation was confirmed never ran and never will.
THEOREM SpecCancelHonoured == Spec => []CancelHonoured
  <1>1. IInv => CancelHonoured
    BY DEF IInv, HistoryInv, CancelHonoured, Status, TypeOK
  <1> QED
    BY <1>1, InductiveInvariant, PTL

\* An outcome is only written for a job whose rules ran.
THEOREM SpecOutcomeMeansRun == Spec => []OutcomeMeansRun
  <1>1. IInv => OutcomeMeansRun
    BY DEF IInv, HistoryInv, OutcomeMeansRun, Status
  <1> QED
    BY <1>1, InductiveInvariant, PTL

-----------------------------------------------------------------------------
(* Refinement.  Each step is a step of JobQueue or leaves its variables.   *)

LEMMA InitRefines == Init => JQ!Init
  BY DEF Init, DbInit, JQ!Init, AbstractStatus, HasRow, NoRow

LEMMA ExecuteRefines ==
  ASSUME IInv, NEW j \in JobId, Execute(j)
  PROVE  JQ!Enqueue(j)
  <1> USE DEF IInv, TypeOK, DbTypeOK, Execute, Enqueue, HasRow
  <1>1. AbstractStatus(j) = "new"
    BY DEF AbstractStatus
  <1>2. \A k \in JobId : AbstractStatus(k)' = IF k = j THEN "pending" ELSE AbstractStatus(k)
    BY DEF AbstractStatus, Status
  <1> QED
    BY <1>1, <1>2 DEF JQ!Enqueue

\* Moving one row from one status to another moves one abstract status.
LEMMA OneStatusMoves ==
  ASSUME IInv, NEW j \in JobId, NEW s \in JobStatus, HasRow(j), issued' = issued,
         jobs' \in [JobId -> Row], jobs'[j].status = s,
         \A k \in JobId \ {j} : jobs'[k] = jobs[k]
  PROVE  \A k \in JobId : AbstractStatus(k)' = IF k = j THEN s ELSE AbstractStatus(k)
  BY DEF IInv, TypeOK, DbTypeOK, AbstractStatus, Status, HasRow, JobStatus, Finished

LEMMA DequeueRefines ==
  ASSUME IInv, NEW j \in JobId, Dequeue(j), issued' = issued, jobs' \in [JobId -> Row]
  PROVE  JQ!Dequeue(j)
  <1> USE DEF IInv, TypeOK, DbTypeOK, Dequeue, IsHead, Queued, QueueInv
  <1>1. jobs[j].status = "pending"
    OBVIOUS
  <1>2. \A k \in JobId : AbstractStatus(k) = "pending" => queue[k] # 0
    BY DEF AbstractStatus, Status
  <1>3. \A k \in JobId : AbstractStatus(k)' =
                           IF k = j THEN "processing" ELSE AbstractStatus(k)
    BY <1>1, OneStatusMoves DEF HasRow, JobStatus
  <1>4. AbstractStatus(j) = "pending"
    BY <1>1 DEF AbstractStatus, Status, HasRow
  <1> QED
    BY <1>2, <1>3, <1>4 DEF JQ!Dequeue, JQ!FirstInLine

LEMMA CancelRefines ==
  ASSUME IInv, NEW j \in JobId, CancelJob(j), issued' = issued, jobs' \in [JobId -> Row]
  PROVE  JQ!Cancel(j)
  <1> USE DEF IInv, TypeOK, DbTypeOK, CancelJob, Cancellable
  <1>1. \A k \in JobId : AbstractStatus(k)' =
                           IF k = j THEN "cancelled" ELSE AbstractStatus(k)
    BY OneStatusMoves DEF HasRow, JobStatus, Finished
  <1>2. AbstractStatus(j) = "pending"
    BY DEF AbstractStatus, Status, HasRow
  <1> QED
    BY <1>1, <1>2 DEF JQ!Cancel

LEMMA OutcomeRefines ==
  ASSUME IInv, NEW j \in JobId, NEW s \in {"completed", "failed"}, UpdateStatus(j, s),
         jobs[j].status = "processing", issued' = issued, jobs' \in [JobId -> Row]
  PROVE  JQ!Finish(j)
  <1> USE DEF IInv, TypeOK, DbTypeOK, UpdateStatus, HasRow
  <1>1. \A k \in JobId : AbstractStatus(k)' = IF k = j THEN s ELSE AbstractStatus(k)
    BY OneStatusMoves DEF JobStatus, Finished
  <1>2. AbstractStatus(j) = "processing"
    BY DEF AbstractStatus, Status
  <1> QED
    BY <1>1, <1>2 DEF JQ!Finish

LEMMA CleanupRefines ==
  ASSUME IInv, CleanupOldJobs, issued' = issued
  PROVE  \E old \in SUBSET JobId : JQ!Cleanup(old)
  <1> USE DEF IInv, TypeOK, DbTypeOK
  <1>1. PICK t \in Stamp :
          /\ jobs' = [j \in JobId |-> IF j \in Expired(t) THEN NoRow ELSE jobs[j]]
          /\ queue' = [j \in JobId |-> IF j \in Expired(t) THEN 0 ELSE queue[j]]
          /\ sequence' = sequence
    BY DEF CleanupOldJobs
  <1>2. /\ Expired(t) \in SUBSET JobId
        /\ \A j \in Expired(t) : jobs[j].status \in Finished
    BY DEF Expired
  <1>3. queue' = queue
    BY <1>1, <1>2 DEF QueueInv, Finished
  <1>4. \A j \in Expired(t) : AbstractStatus(j) \in JQ!Finished
    BY <1>2 DEF AbstractStatus, Status, HasRow, Finished, JQ!Finished
  <1>5. \A j \in JobId : AbstractStatus(j)' =
                           IF j \in Expired(t) THEN "removed" ELSE AbstractStatus(j)
    BY <1>1, <1>2 DEF AbstractStatus, Status, HasRow, NoRow, HistoryInv, Finished
  <1>6. JQ!Cleanup(Expired(t))
    BY <1>1, <1>2, <1>3, <1>4, <1>5 DEF JQ!Cleanup
  <1> QED
    BY <1>2, <1>6

\* A step that touches neither the tables nor the ids given out is invisible.
LEMMA InvisibleRefines ==
  ASSUME UNCHANGED dbVars, issued' = issued
  PROVE  UNCHANGED JQ!vars
  BY DEF dbVars, JQ!vars, AbstractStatus, HasRow, Status

LEMMA NextRefines ==
  ASSUME IInv, IInv', [Next]_vars
  PROVE  [JQ!Next]_(JQ!vars)
  <1> USE DEF history, faults
  <1>0. jobs' \in [JobId -> Row] /\ (issued' = issued \/ \E j \in JobId : Execute(j))
    BY DEF IInv, TypeOK, DbTypeOK, Next, CancelStep, WorkerStep, Lifecycle, CancelCheck,
           CancelCommit, CancelRaises, LoopTest, MaybeCleanup, WorkerDequeue, DequeueRaises,
           WaitEnds, StartEngine, EngineEnds, MarkCompleted, MarkCompletedRaises, MarkFailed,
           MarkFailedRaises, Start, BeginStop, CloseQueue, Exit, Crash, ProcessEnds, Tick, vars
  <1>1. ASSUME NEW j \in JobId, Execute(j) PROVE JQ!Next
    BY <1>1, ExecuteRefines DEF JQ!Next
  <1>2. CASE UNCHANGED dbVars /\ issued' = issued
    BY <1>2, InvisibleRefines
  <1>3. ASSUME NEW c \in Client, CancelCommit(c), issued' = issued PROVE [JQ!Next]_(JQ!vars)
    <2>1. request[c].job \in JobId
      BY <1>3 DEF CancelCommit, IInv, RequestInv
    <2>2. CASE CancelJob(request[c].job)
      BY <1>0, <1>3, <2>1, <2>2, CancelRefines DEF JQ!Next
    <2>3. CASE UNCHANGED dbVars
      BY <1>3, <2>3, InvisibleRefines
    <2> QED
      BY <1>3, <2>2, <2>3 DEF CancelCommit
  <1>4. ASSUME WorkerDequeue, issued' = issued PROVE [JQ!Next]_(JQ!vars)
    <2>1. CASE \E j \in JobId : Dequeue(j)
      BY <1>0, <1>4, <2>1, DequeueRefines DEF JQ!Next
    <2>2. CASE UNCHANGED dbVars
      BY <1>4, <2>2, InvisibleRefines
    <2> QED
      BY <1>4, <2>1, <2>2 DEF WorkerDequeue
  <1>5. ASSUME MarkCompleted \/ MarkFailed, issued' = issued PROVE JQ!Next
    <2>1. worker.job \in JobId /\ jobs[worker.job].status = "processing"
      BY <1>5 DEF MarkCompleted, MarkFailed, AtWorker, IInv, WorkerInv, Busy
    <2>2. \E s \in {"completed", "failed"} : UpdateStatus(worker.job, s)
      BY <1>5 DEF MarkCompleted, MarkFailed
    <2>3. JQ!Finish(worker.job)
      BY <1>0, <1>5, <2>1, <2>2, OutcomeRefines
    <2> QED
      BY <2>1, <2>3 DEF JQ!Next
  <1>6. ASSUME CleanupOldJobs, issued' = issued PROVE JQ!Next
    BY <1>6, CleanupRefines DEF JQ!Next
  <1>7. \/ UNCHANGED dbVars
        \/ \E j \in JobId : Execute(j)
        \/ \E c \in Client : CancelCommit(c)
        \/ WorkerDequeue \/ MarkCompleted \/ MarkFailed \/ CleanupOldJobs
    BY DEF Next, CancelStep, WorkerStep, Lifecycle, CancelCheck, CancelRaises, LoopTest,
           MaybeCleanup, DequeueRaises, WaitEnds, StartEngine, EngineEnds,
           MarkCompletedRaises, MarkFailedRaises, Start, BeginStop, CloseQueue, Exit, Crash,
           ProcessEnds, Tick, vars, dbVars
  <1> QED
    BY <1>0, <1>1, <1>2, <1>3, <1>4, <1>5, <1>6, <1>7

\* The SQLite backend under its service keeps every promise of JobQueue: FIFO
\* order, an indivisible dequeue, cancels of pending jobs only, cleanups of
\* finished jobs only.
THEOREM SpecImplementsJobQueue == Spec => ImplementsJobQueue
  BY InitRefines, NextRefines, InductiveInvariant, PTL DEF Spec, JQ!Spec, ImplementsJobQueue

\* A finished job's status only ever changes by its row being cleaned up.
THEOREM SpecFinishedIsFinal == Spec => FinishedIsFinal
  <1> DEFINE Final == \A j \in JobId :
                        Status(j) \in Finished => Status(j)' \in {Status(j), "none"}
  <1>1. ASSUME IInv, IInv', [Next]_vars PROVE Final
    <2>1. [JQ!Next]_(JQ!vars)
      BY <1>1, NextRefines
    <2>2. \A j \in JobId :
            AbstractStatus(j) \in Finished => AbstractStatus(j)' \in {AbstractStatus(j), "removed"}
      BY <2>1 DEF JQ!Next, JQ!Enqueue, JQ!Dequeue, JQ!FirstInLine, JQ!Finish, JQ!Cancel,
                  JQ!Cleanup, JQ!vars, Finished
    <2> QED
      BY <1>1, <2>2 DEF AbstractStatus, Status, HasRow, Finished, IInv, TypeOK, DbTypeOK, Row,
                        JobStatus
  <1> QED
    BY <1>1, InductiveInvariant, PTL DEF Spec, FinishedIsFinal

-----------------------------------------------------------------------------
(* Jobs left in processing, counted.  A stop is counted when it begins, and *)
(* pays for the job the worker may lose, or take up and lose, until it gets *)
(* to its loop again or the process is gone.                                *)

Processing == {j \in JobId : Status(j) = "processing"}

\* Where the worker may have a job, or still get one before it looks at the stop.
Holding == Busy \cup {"cleanup", "dequeue"}

\* What the faults so far account for, and the job in the worker's hands.
Slack ==
    stops + raises
    + (IF server # "down" /\ worker.pc \in Busy THEN 1 ELSE 0)
    - (IF server \in {"stopping", "closed"} /\ worker.pc \in Holding THEN 1 ELSE 0)

StrandedInv == IsFiniteSet(Processing) /\ Cardinality(Processing) <= Slack

LEMMA InitStrandedInv == Init => StrandedInv
  <1> SUFFICES ASSUME Init PROVE StrandedInv
    OBVIOUS
  <1>1. Processing = {}
    BY DEF Init, DbInit, NoRow, Processing, Status
  <1> QED
    BY <1>1, FS_EmptySet DEF Init, StrandedInv, Slack

LEMMA SlackIsInt == (TypeOK => Slack \in Int) /\ (TypeOK' => Slack' \in Int)
  BY DEF TypeOK, Slack

\* Where the worker may let go of its job without a fault: after the close, for good.
LetsGo == server = "closed" /\ worker'.pc \notin Holding

\* A step of a running process: a call that raises pays for the job it drops.
LEMMA SlackWhileUp ==
  ASSUME TypeOK, UNCHANGED <<server, stops>>,
         \/ raises' = raises /\ (worker.pc \in Busy => worker'.pc \in Busy \/ LetsGo)
         \/ raises' = raises + 1,
         server = "up" \/ (worker'.pc \in Holding => worker.pc \in Holding)
  PROVE  Slack <= Slack'
  <1>1. stops \in Nat /\ raises \in Nat
    BY DEF TypeOK
  <1>2. CASE raises' = raises /\ (worker.pc \in Busy => worker'.pc \in Busy \/ LetsGo)
    BY <1>1, <1>2 DEF Slack, LetsGo, Holding
  <1>3. CASE raises' = raises + 1
    BY <1>1, <1>3 DEF Slack, Holding
  <1> QED
    BY <1>2, <1>3

\* A stop or a crash pays for the job the worker holds when the process goes.
LEMMA SlackWhenItEnds ==
  ASSUME TypeOK, raises' = raises,
         \/ Start \/ Exit \/ Crash
         \/ BeginStop \/ CloseQueue \/ Tick \/ UNCHANGED vars
  PROVE  Slack <= Slack'
  <1>1. stops \in Nat /\ raises \in Nat
    BY DEF TypeOK
  <1>2. CASE Start
    BY <1>1, <1>2 DEF Start, Slack, WorkerGoes, Busy, Holding, faults
  <1>3. CASE Exit
    BY <1>1, <1>3 DEF Exit, ProcessEnds, Exited, Busy, Holding, Slack, faults
  <1>4. CASE Crash
    BY <1>1, <1>4 DEF Crash, ProcessEnds, Exited, Busy, Holding, Stop, Slack
  <1>5. CASE BeginStop
    BY <1>1, <1>5 DEF BeginStop, Stop, Slack
  <1>6. CASE CloseQueue
    BY <1>1, <1>6 DEF CloseQueue, Slack, faults
  <1>7. CASE Tick \/ UNCHANGED vars
    BY <1>1, <1>7 DEF Tick, vars, procVars, faults, Slack
  <1> QED
    BY <1>2, <1>3, <1>4, <1>5, <1>6, <1>7

\* Most steps put no job in processing and take none out.
LEMMA SameStranded ==
  ASSUME StrandedInv, TypeOK, TypeOK', Processing' = Processing, Slack <= Slack'
  PROVE  StrandedInv'
  <1>1. Slack \in Int /\ Slack' \in Int
    BY SlackIsInt
  <1>2. Cardinality(Processing) \in Nat
    BY FS_CardinalityType DEF StrandedInv
  <1>3. IsFiniteSet(Processing)' /\ Cardinality(Processing)' = Cardinality(Processing)
    BY DEF StrandedInv
  <1>4. Cardinality(Processing) <= Slack'
    BY <1>1, <1>2 DEF StrandedInv
  <1> QED
    BY <1>3, <1>4 DEF StrandedInv

\* The steps that write no status but "pending" or "cancelled".
LEMMA RequestStranded ==
  ASSUME IInv, TypeOK', StrandedInv,
         \/ \E j \in JobId : Execute(j) \/ \E c \in Client : CancelCheck(c, j)
         \/ CancelStep
  PROVE  StrandedInv'
  <1>1. Processing' = Processing
    <2> USE DEF IInv, Processing, Status
    <2>1. ASSUME NEW j \in JobId, Execute(j) PROVE Processing' = Processing
      BY <2>1 DEF Execute, Enqueue, HasRow, TypeOK, DbTypeOK
    <2>2. ASSUME UNCHANGED dbVars PROVE Processing' = Processing
      BY <2>2 DEF dbVars
    <2>3. ASSUME NEW j \in JobId, CancelJob(j) PROVE Processing' = Processing
      BY <2>3 DEF CancelJob, Cancellable, TypeOK, DbTypeOK
    <2>4. ASSUME NEW c \in Client, CancelCommit(c) PROVE Processing' = Processing
      BY <2>2, <2>3, <2>4 DEF CancelCommit, RequestInv
    <2> QED
      BY <2>1, <2>2, <2>4 DEF CancelStep, CancelCheck, CancelRaises
  <1>2. UNCHANGED <<server, worker, stops>> /\ (raises' = raises \/ raises' = raises + 1)
    BY DEF Execute, CancelStep, CancelCheck, CancelCommit, CancelRaises, CallRaises, Raise,
           procVars, faults
  <1> QED
    BY <1>1, <1>2, SlackWhileUp, SameStranded DEF IInv

LEMMA DequeueStranded ==
  ASSUME IInv, TypeOK', StrandedInv, WorkerDequeue
  PROVE  StrandedInv'
  <1>1. /\ worker.pc \notin Busy /\ worker.pc \in Holding /\ server # "down"
        /\ UNCHANGED <<server, stops, raises>>
    BY DEF WorkerDequeue, AtWorker, Busy, Holding, faults
  <1>2. CASE WorkerGoes("wait") /\ UNCHANGED dbVars
    <2>1. Processing' = Processing
      BY <1>2 DEF Processing, Status, dbVars
    <2> QED
      BY <1>1, <1>2, <2>1, SlackWhileUp, SameStranded DEF WorkerGoes, Holding, Busy, IInv
  <1>3. ASSUME NEW j \in JobId, Dequeue(j), worker' = [pc |-> "begin", job |-> j]
        PROVE  StrandedInv'
    <2>1. Processing' = Processing \cup {j} /\ j \notin Processing
      BY <1>3 DEF Processing, Status, Dequeue, IsHead, Queued, IInv, TypeOK, DbTypeOK, QueueInv
    <2>2. IsFiniteSet(Processing)' /\ Cardinality(Processing)' = Cardinality(Processing) + 1
      BY <2>1, FS_AddElement DEF StrandedInv
    <2>3. Cardinality(Processing) \in Nat
      BY FS_CardinalityType DEF StrandedInv
    <2>4. Slack' = Slack + 1
      BY <1>1, <1>3 DEF Busy, Holding, Slack, IInv, TypeOK
    <2>5. Cardinality(Processing) + 1 <= Slack'
      BY <2>3, <2>4, SlackIsInt DEF StrandedInv, IInv
    <2> QED
      BY <2>2, <2>5 DEF StrandedInv
  <1> QED
    BY <1>2, <1>3 DEF WorkerDequeue

LEMMA OutcomeStranded ==
  ASSUME IInv, TypeOK', StrandedInv, worker.pc \in {"complete", "fail"},
         NEW s \in {"completed", "failed"}, UpdateStatus(worker.job, s), WorkerGoes("loop"),
         UNCHANGED <<server, faults>>
  PROVE  StrandedInv'
  <1> DEFINE j == worker.job
  <1>1. j \in JobId /\ j \in Processing
    BY DEF IInv, WorkerInv, Busy, Processing, Status
  <1>2. PICK t \in Stamp : jobs' = [jobs EXCEPT ![j].status = s, ![j].completed_at = t]
    BY <1>1 DEF UpdateStatus, HasRow, Processing, Status
  <1>3. Processing' = Processing \ {j}
    BY <1>1, <1>2 DEF Processing, Status, IInv, TypeOK, DbTypeOK
  <1>4. IsFiniteSet(Processing)' /\ Cardinality(Processing)' = Cardinality(Processing) - 1
    BY <1>1, <1>3, FS_RemoveElement DEF StrandedInv
  <1>5. Cardinality(Processing) \in Nat
    BY FS_CardinalityType DEF StrandedInv
  <1>6. Slack - 1 <= Slack'
    BY DEF WorkerGoes, Busy, Holding, Slack, IInv, TypeOK, faults
  <1>7. Cardinality(Processing) - 1 <= Slack'
    BY <1>5, <1>6, SlackIsInt DEF StrandedInv, IInv
  <1> QED
    BY <1>4, <1>7 DEF StrandedInv

LEMMA WorkerStepStranded ==
  ASSUME IInv, TypeOK', StrandedInv, WorkerStep
  PROVE  StrandedInv'
  <1>1. CASE MaybeCleanup
    <2>1. Processing' = Processing
      BY <1>1 DEF MaybeCleanup, CleanupOldJobs, Expired, Finished, NoRow, Processing, Status,
                  dbVars
    <2>2. UNCHANGED <<server, stops>> /\ (raises' = raises \/ raises' = raises + 1)
      BY <1>1 DEF MaybeCleanup, CallRaises, Raise, faults
    <2> QED
      BY <1>1, <2>1, <2>2, SlackWhileUp, SameStranded DEF MaybeCleanup, AtWorker, WorkerGoes,
         Busy, Holding, IInv
  <1>2. CASE MarkCompleted \/ MarkFailed
    BY <1>2, OutcomeStranded DEF MarkCompleted, MarkFailed, AtWorker
  <1>3. CASE \/ LoopTest \/ DequeueRaises \/ WaitEnds \/ StartEngine \/ EngineEnds
             \/ MarkCompletedRaises \/ MarkFailedRaises
    <2>1. Processing' = Processing
      BY <1>3 DEF LoopTest, DequeueRaises, WaitEnds, StartEngine, EngineEnds,
                  MarkCompletedRaises, MarkFailedRaises, Processing, Status, dbVars
    <2>2. UNCHANGED <<server, stops>> /\ (raises' = raises \/ raises' = raises + 1)
      BY <1>3 DEF LoopTest, DequeueRaises, WaitEnds, StartEngine, EngineEnds,
                  MarkCompletedRaises, MarkFailedRaises, CallRaises, Raise, faults
    <2>3. raises' = raises => (worker.pc \in Busy => worker'.pc \in Busy \/ LetsGo)
      BY <1>3 DEF LoopTest, DequeueRaises, WaitEnds, StartEngine, EngineEnds, Raise, Running,
                  MarkCompletedRaises, MarkFailedRaises, CallRaises, AtWorker, KeepJob, WorkerGoes,
                  Busy, Holding, LetsGo, IInv, TypeOK
    <2>4. server = "up" \/ (worker'.pc \in Holding => worker.pc \in Holding)
      BY <1>3 DEF LoopTest, DequeueRaises, WaitEnds, StartEngine, EngineEnds, StopIsSet,
                  MarkCompletedRaises, MarkFailedRaises, AtWorker, KeepJob, WorkerGoes, Busy,
                  Holding, IInv, TypeOK
    <2> QED
      BY <2>1, <2>2, <2>3, <2>4, SlackWhileUp, SameStranded DEF IInv
  <1> QED
    BY <1>1, <1>2, <1>3, DequeueStranded DEF WorkerStep

LEMMA LifecycleStranded ==
  ASSUME IInv, TypeOK', StrandedInv, Lifecycle \/ Tick \/ UNCHANGED vars
  PROVE  StrandedInv'
  <1>1. Processing' = Processing
    BY DEF Lifecycle, Start, BeginStop, CloseQueue, Exit, Crash, ProcessEnds, Tick, vars,
           Processing, Status, dbVars
  <1>2. raises' = raises
    BY DEF Lifecycle, Start, BeginStop, CloseQueue, Exit, Crash, Stop, Tick, vars, faults
  <1> QED
    BY <1>1, <1>2, SlackWhenItEnds, SameStranded DEF Lifecycle, IInv

\* At most one job is left in processing per stop, crash or failing queue call,
\* on top of the one the worker holds (update_status has no second try).
THEOREM SpecStrandedOnlyByFaults == Spec => []StrandedOnlyByFaults
  <1>1. ASSUME IInv, TypeOK', StrandedInv, [Next]_vars PROVE StrandedInv'
    BY <1>1, RequestStranded, WorkerStepStranded, LifecycleStranded DEF Next
  <1>2. ASSUME TypeOK, StrandedInv PROVE StrandedOnlyByFaults
    <2>1. CountJobs("processing") = Cardinality(Processing)
      BY DEF CountJobs, Processing, Status
    <2>2. Cardinality(Processing) \in Nat
      BY <1>2, FS_CardinalityType DEF StrandedInv
    <2>3. Slack <= stops + raises + (IF worker.pc \in Busy THEN 1 ELSE 0)
      BY <1>2 DEF Slack, TypeOK
    <2>4. Slack \in Int
      BY <1>2, SlackIsInt
    <2>5. stops + raises + (IF worker.pc \in Busy THEN 1 ELSE 0) \in Int
      BY <1>2 DEF TypeOK
    <2> QED
      BY <1>2, <2>1, <2>2, <2>3, <2>4, <2>5 DEF StrandedInv, StrandedOnlyByFaults
  <1>3. IInv => TypeOK
    BY DEF IInv
  <1> QED
    BY <1>1, <1>2, <1>3, InitStrandedInv, InductiveInvariant, PTL DEF Spec
=============================================================================
