----------------------------- MODULE RedisQueue -----------------------------
(***************************************************************************)
(* The Redis backend (queue_backends/redis_queue.py): its keys, and the    *)
(* commands its methods send.  A pipeline is a MULTI/EXEC transaction and  *)
(* one step; a method is several of them with what it read in between,     *)
(* which RedisService takes apart.                                         *)
(*                                                                         *)
(* The context index is left out: ids enter it with by_time and leave it   *)
(* with by_time.                                                           *)
(***************************************************************************)
EXTENDS Naturals, FiniteSets, Sequences, SequencesExt, Sublists

CONSTANTS
    JobId,          \* the ids generate_job_id can hand out
    Retention       \* queue.cleanup_after, in clock ticks

ASSUME RedisQueueAssumption == Retention \in Nat

VARIABLES
    hash,           \* jobs:{id}: its status field, and whether it holds the rest
    pending,        \* queue:pending (LIST)
    index,          \* jobs:status:{status} (SET), per status
    byTime,         \* jobs:by_time (ZSET): created_at, 0 for not a member
    now             \* the wall clock

redisVars == <<hash, pending, index, byTime>>

Finished == {"completed", "failed", "cancelled"}
JobStatus == {"pending", "processing"} \cup Finished

\* whole: the fields enqueue writes (id, context, hash, dry_run) are there.  An
\* HSET of the status alone creates a hash without them.
NoHash == [status |-> "none", whole |-> FALSE]
Hash == [status : JobStatus \cup {"none"}, whole : BOOLEAN]

RedisTypeOK ==
    /\ hash \in [JobId -> Hash]
    /\ pending \in Seq(JobId)
    /\ index \in [JobStatus -> SUBSET JobId]
    /\ byTime \in [JobId -> Nat]
    /\ now \in Nat \ {0}

RedisInit ==
    /\ hash = [j \in JobId |-> NoHash]
    /\ pending = <<>>
    /\ index = [s \in JobStatus |-> {}]
    /\ byTime = [j \in JobId |-> 0]
    /\ now = 1

\* HGETALL: get_job and its "if not job_data".
Exists(j) == hash[j].status # "none"
Status(j) == hash[j].status

SetStatus(j, s) == hash' = [hash EXCEPT ![j].status = s]

\* SREM from one status set, then SADD to another, in one transaction.
Reindex(j, from, to) ==
    index' = [s \in JobStatus |->
                (IF s = from THEN index[s] \ {j} ELSE index[s])
                  \cup (IF s = to THEN {j} ELSE {})]

\* Mutants of EnqueuePipeline: no RPUSH; LPUSH.
EnqueueWithoutPush(j) ==
    /\ hash' = [hash EXCEPT ![j] = [status |-> "pending", whole |-> TRUE]]
    /\ index' = [index EXCEPT !["pending"] = @ \cup {j}]
    /\ byTime' = [byTime EXCEPT ![j] = now]
    /\ UNCHANGED pending
EnqueueAtHead(j) ==
    /\ hash' = [hash EXCEPT ![j] = [status |-> "pending", whole |-> TRUE]]
    /\ pending' = <<j>> \o pending
    /\ index' = [index EXCEPT !["pending"] = @ \cup {j}]
    /\ byTime' = [byTime EXCEPT ![j] = now]

EnqueuePipeline(j) ==
    /\ hash' = [hash EXCEPT ![j] = [status |-> "pending", whole |-> TRUE]]
    /\ pending' = Append(pending, j)
    /\ index' = [index EXCEPT !["pending"] = @ \cup {j}]
    /\ byTime' = [byTime EXCEPT ![j] = now]

\* Mutant of LPop: LINDEX 0, which removes nothing.
LIndex(j) ==
    /\ pending # <<>>
    /\ j = Head(pending)
    /\ UNCHANGED redisVars

LPop(j) ==
    /\ pending # <<>>
    /\ j = Head(pending)
    /\ pending' = Tail(pending)
    /\ UNCHANGED <<hash, index, byTime>>

DequeuePipeline(j) ==
    /\ SetStatus(j, "processing")
    /\ Reindex(j, "pending", "processing")
    /\ UNCHANGED <<pending, byTime>>

\* Mutant of UpdatePipeline: no SREM from the old status set.
UpdateWithoutSRem(j, old, new) ==
    /\ SetStatus(j, new)
    /\ index' = [index EXCEPT ![new] = @ \cup {j}]
    /\ UNCHANGED <<pending, byTime>>

\* old is the status update_status read before it sent the pipeline.
UpdatePipeline(j, old, new) ==
    /\ SetStatus(j, new)
    /\ IF old = new THEN UNCHANGED index ELSE Reindex(j, old, new)
    /\ UNCHANGED <<pending, byTime>>

\* Mutants of CancelPipeline: no LREM; a status that is none.
CancelWithoutLRem(j) ==
    /\ SetStatus(j, "cancelled")
    /\ Reindex(j, "pending", "cancelled")
    /\ UNCHANGED <<pending, byTime>>
CancelMisspelt(j) ==
    /\ SetStatus(j, "canceled")
    /\ pending' = Only(pending, JobId \ {j})
    /\ Reindex(j, "pending", "canceled")
    /\ UNCHANGED byTime

\* LREM takes every occurrence.
CancelPipeline(j) ==
    /\ SetStatus(j, "cancelled")
    /\ pending' = Only(pending, JobId \ {j})
    /\ Reindex(j, "pending", "cancelled")
    /\ UNCHANGED byTime

\* old is the status cleanup_old_jobs read: only that set loses the id.
DeletePipeline(j, old) ==
    /\ hash' = [hash EXCEPT ![j] = NoHash]
    /\ byTime' = [byTime EXCEPT ![j] = 0]
    /\ index' = [index EXCEPT ![old] = @ \ {j}]
    /\ UNCHANGED pending

\* ZRANGEBYSCORE by_time -inf cutoff: created_at, whenever the job finished.
OldJobIds == {j \in JobId : byTime[j] # 0 /\ byTime[j] + Retention <= now}

CountJobs(s) == Cardinality(index[s])
GetQueueDepth == Len(pending)
=============================================================================
