------------------------- MODULE RedisServiceProofs -------------------------
(***************************************************************************)
(* RedisService for any number of jobs, cancel requests, stops, crashes,   *)
(* lost replies and clock values.                                          *)
(***************************************************************************)
EXTENDS RedisService, SublistProofs, FiniteSetTheorems

-----------------------------------------------------------------------------
(* The inductive invariant.                                                *)

IsIssued(j) == Contains(issued, j)

\* An id is handed out once, and nothing is known of the others.
IssuedInv ==
    /\ \A i, k \in 1 .. Len(issued) : issued[i] = issued[k] => i = k
    /\ \A j \in JobId : ~IsIssued(j) => hash[j] = NoHash /\ byTime[j] = 0 /\ runs[j] = 0

\* The list is a part of what was handed out, in that order: nobody has run or
\* touched any of it.
ListInv ==
    /\ \A a \in 1 .. Len(pending) :
         IsIssued(pending[a]) /\ hash[pending[a]] = [status |-> "pending", whole |-> TRUE]
                              /\ runs[pending[a]] = 0
    /\ \A a, b \in 1 .. Len(pending) : a < b =>
         \E c, d \in 1 .. Len(issued) : c < d /\ pending[a] = issued[c] /\ pending[b] = issued[d]

\* The job in hand came off the list, or was found finished, and is not listed
\* again; from the pop to the outcome it is whole, and until the run it has not run.
Holding == {"mark", "delete"} \cup Busy

WorkerInv ==
    /\ worker.pc \in Holding => /\ worker.job \in JobId
                                /\ IsIssued(worker.job)
                                /\ ~Listed(worker.job)
    /\ worker.pc \in {"mark"} \cup Busy => hash[worker.job].whole
    /\ worker.pc \in {"mark", "begin"} => runs[worker.job] = 0

\* A request past its first look is about a job that was handed out.
RequestInv ==
    \A c \in Client : request[c].pc # "idle" => request[c].job \in JobId /\ IsIssued(request[c].job)

IInv == TypeOK /\ IssuedInv /\ ListInv /\ WorkerInv /\ RequestInv /\ RunAtMostOnce

LEMMA InitIInv == Init => IInv
  <1> SUFFICES ASSUME Init PROVE IInv
    OBVIOUS
  <1> USE DEF Init, RedisInit
  <1>1. <<>> \in Seq(JobId) /\ Len(<<>>) = 0
    BY EmptySeq
  <1>2. TypeOK
    BY <1>1 DEF TypeOK, RedisTypeOK, Hash, NoHash, Worker, At, Request, NoRequest
  <1>3. IssuedInv /\ ListInv
    BY <1>1 DEF IssuedInv, ListInv
  <1>4. WorkerInv /\ RequestInv /\ RunAtMostOnce
    BY DEF WorkerInv, Holding, Busy, At, RequestInv, NoRequest, RunAtMostOnce
  <1> QED
    BY <1>2, <1>3, <1>4 DEF IInv

-----------------------------------------------------------------------------
(* What the commands do to the keys.                                       *)

LEMMA ListIsSeq ==
  ASSUME TypeOK
  PROVE  /\ Len(pending) \in Nat /\ \A a \in 1 .. Len(pending) : pending[a] \in JobId
         /\ Len(issued) \in Nat /\ \A a \in 1 .. Len(issued) : issued[a] \in JobId
  BY ElementOfSeq, LenProperties DEF TypeOK, RedisTypeOK

\* No id is in the list twice.
LEMMA ListedOnce ==
  ASSUME TypeOK, IssuedInv, ListInv,
         NEW a \in 1 .. Len(pending), NEW b \in 1 .. Len(pending), a # b
  PROVE  pending[a] # pending[b]
  <1>1. a < b \/ b < a
    BY ListIsSeq
  <1>2. PICK c \in 1 .. Len(issued), d \in 1 .. Len(issued) :
          c # d /\ pending[a] = issued[c] /\ pending[b] = issued[d]
    <2>1. CASE a < b
      BY <2>1, ListIsSeq DEF ListInv
    <2>2. CASE b < a
      BY <2>2, ListIsSeq DEF ListInv
    <2> QED
      BY <1>1, <2>1, <2>2
  <1>3. issued[c] # issued[d]
    BY <1>2, ListIsSeq DEF IssuedInv
  <1> QED
    BY <1>2, <1>3

LEMMA CommandTypes ==
  ASSUME RedisTypeOK, NEW j \in JobId, UNCHANGED now,
         \/ EnqueuePipeline(j) \/ LPop(j) \/ DequeuePipeline(j) \/ CancelPipeline(j)
         \/ \E old \in JobStatus \cup {"none"} :
              DeletePipeline(j, old) \/ \E new \in JobStatus : UpdatePipeline(j, old, new)
         \/ UNCHANGED redisVars
  PROVE  RedisTypeOK'
  <1> USE DEF RedisTypeOK
  <1>1. hash' \in [JobId -> Hash]
    <2>1. CASE hash' = [hash EXCEPT ![j] = [status |-> "pending", whole |-> TRUE]]
      BY <2>1 DEF Hash, JobStatus
    <2>2. CASE \E s \in JobStatus : SetStatus(j, s)
      BY <2>2 DEF SetStatus, Hash
    <2>3. CASE hash' = [hash EXCEPT ![j] = NoHash]
      BY <2>3 DEF NoHash, Hash
    <2> QED
      BY <2>1, <2>2, <2>3 DEF EnqueuePipeline, LPop, DequeuePipeline, CancelPipeline,
         DeletePipeline, UpdatePipeline, redisVars, JobStatus, Finished
  <1>2. pending' \in Seq(JobId)
    <2>1. CASE pending' = Append(pending, j)
      BY <2>1, AppendProperties
    <2>2. CASE pending # <<>> /\ pending' = Tail(pending)
      BY <2>2, HeadTailProperties
    <2>3. CASE pending' = Only(pending, JobId \ {j})
      BY <2>3, OnlyProperties
    <2> QED
      BY <2>1, <2>2, <2>3 DEF EnqueuePipeline, LPop, DequeuePipeline, CancelPipeline,
         DeletePipeline, UpdatePipeline, redisVars
  <1>3. index' \in [JobStatus -> SUBSET JobId]
    <2>1. ASSUME NEW from, NEW to, Reindex(j, from, to) PROVE index' \in [JobStatus -> SUBSET JobId]
      BY <2>1 DEF Reindex
    <2>2. ASSUME NEW old, DeletePipeline(j, old) PROVE index' \in [JobStatus -> SUBSET JobId]
      BY <2>2 DEF DeletePipeline
    <2>3. CASE EnqueuePipeline(j)
      BY <2>3 DEF EnqueuePipeline
    <2> QED
      BY <2>1, <2>2, <2>3 DEF LPop, DequeuePipeline, CancelPipeline, UpdatePipeline, redisVars
  <1>4. byTime' \in [JobId -> Nat]
    BY DEF EnqueuePipeline, LPop, DequeuePipeline, CancelPipeline,
         DeletePipeline, UpdatePipeline, redisVars
  <1> QED
    BY <1>1, <1>2, <1>3, <1>4

Store == IssuedInv /\ ListInv

\* No command but the enqueue lists a job, none but a cleanup's delete takes a hash's
\* fields away.
Calm ==
    \A k \in JobId :
        /\ IsIssued(k) => IsIssued(k)'
        /\ Listed(k)' /\ IsIssued(k) => Listed(k)
        /\ hash[k].whole => hash'[k].whole

LEMMA EnqueueStores ==
  ASSUME IInv, NEW j \in JobId, ~IsIssued(j), issued' = Append(issued, j), EnqueuePipeline(j),
         UNCHANGED runs
  PROVE  Store' /\ Calm /\ issued' \in Seq(JobId)
  <1>1. issued \in Seq(JobId) /\ pending \in Seq(JobId) /\ Len(issued) \in Nat /\ Len(pending) \in Nat
    BY ListIsSeq DEF IInv, TypeOK, RedisTypeOK
  <1>2. /\ issued' \in Seq(JobId) /\ Len(issued') = Len(issued) + 1
        /\ issued'[Len(issued) + 1] = j
        /\ \A i \in 1 .. Len(issued) : issued'[i] = issued[i]
    BY <1>1, AppendProperties
  <1>3. /\ Len(pending') = Len(pending) + 1
        /\ pending'[Len(pending) + 1] = j
        /\ \A i \in 1 .. Len(pending) : pending'[i] = pending[i]
    BY <1>1, AppendProperties DEF EnqueuePipeline
  <1>4. /\ 1 .. Len(issued) \subseteq 1 .. Len(issued')
        /\ Len(issued) + 1 \in 1 .. Len(issued')
        /\ \A i \in 1 .. Len(issued') : i \in 1 .. Len(issued) \/ i = Len(issued) + 1
        /\ \A a \in 1 .. Len(pending') : a \in 1 .. Len(pending) \/ a = Len(pending) + 1
    BY <1>1, <1>2, <1>3
  <1>5. \A k : IsIssued(k)' <=> IsIssued(k) \/ k = j
    BY <1>2, <1>4 DEF IsIssued, Contains
  <1>6. \A i \in 1 .. Len(issued) : issued[i] # j
    BY DEF IsIssued, Contains
  <1>7. /\ hash'[j] = [status |-> "pending", whole |-> TRUE]
        /\ \A k \in JobId \ {j} : hash'[k] = hash[k] /\ byTime'[k] = byTime[k]
        /\ runs[j] = 0
    BY DEF EnqueuePipeline, IInv, IssuedInv, TypeOK, RedisTypeOK
  <1>8. IssuedInv'
    <2>1. ASSUME NEW i \in 1 .. Len(issued'), NEW k \in 1 .. Len(issued'), issued'[i] = issued'[k]
          PROVE  i = k
      BY <1>2, <1>4, <1>6, <2>1 DEF IInv, IssuedInv
    <2>2. ASSUME NEW k \in JobId, ~IsIssued(k)'
          PROVE  hash'[k] = NoHash /\ byTime'[k] = 0 /\ runs'[k] = 0
      BY <1>5, <1>7, <2>2 DEF IInv, IssuedInv
    <2> QED
      BY <2>1, <2>2 DEF IssuedInv
  <1>9. ListInv'
    <2>1. ASSUME NEW a \in 1 .. Len(pending')
          PROVE  /\ IsIssued(pending[a])' /\ runs'[pending'[a]] = 0
                 /\ hash'[pending'[a]] = [status |-> "pending", whole |-> TRUE]
      <3>1. CASE a = Len(pending) + 1
        BY <1>3, <1>5, <1>7, <3>1
      <3>2. CASE a \in 1 .. Len(pending)
        <4>1. pending'[a] = pending[a] /\ pending[a] \in JobId
          BY <1>3, <3>2, ListIsSeq DEF IInv
        <4>2. IsIssued(pending[a]) /\ runs[pending[a]] = 0
              /\ hash[pending[a]] = [status |-> "pending", whole |-> TRUE]
          BY <3>2 DEF IInv, ListInv
        <4>3. pending[a] # j
          BY <4>2
        <4> QED
          BY <1>5, <1>7, <4>1, <4>2, <4>3
      <3> QED
        BY <1>4, <3>1, <3>2
    <2>2. ASSUME NEW a \in 1 .. Len(pending'), NEW b \in 1 .. Len(pending'), a < b
          PROVE  \E c, d \in 1 .. Len(issued') :
                    c < d /\ pending'[a] = issued'[c] /\ pending'[b] = issued'[d]
      <3>1. a \in 1 .. Len(pending) /\ pending'[a] = pending[a]
        BY <1>1, <1>3, <2>2
      <3>2. CASE b \in 1 .. Len(pending)
        <4>1. PICK c \in 1 .. Len(issued), d \in 1 .. Len(issued) :
                c < d /\ pending[a] = issued[c] /\ pending[b] = issued[d]
          BY <2>2, <3>1, <3>2 DEF IInv, ListInv
        <4> QED
          BY <1>2, <1>3, <1>4, <3>1, <3>2, <4>1
      <3>3. CASE b = Len(pending) + 1
        <4>1. PICK c \in 1 .. Len(issued) : pending[a] = issued[c]
          BY <3>1 DEF IInv, ListInv, IsIssued, Contains
        <4>2. c < Len(issued) + 1
          BY <1>1
        <4> QED
          BY <1>2, <1>3, <1>4, <3>1, <3>3, <4>1, <4>2
      <3> QED
        BY <1>4, <3>2, <3>3
    <2> QED
      BY <2>1, <2>2 DEF ListInv
  <1>10. Calm
    <2>1. \A k : Listed(k)' => Listed(k) \/ k = j
      BY <1>3, <1>4 DEF Listed, Contains
    <2> QED
      BY <1>5, <1>7, <2>1 DEF Calm
  <1> QED
    BY <1>2, <1>8, <1>9, <1>10 DEF Store

\* A status that is set for a job that is not listed.
LEMMA MarkStores ==
  ASSUME IInv, NEW j \in JobId, IsIssued(j), ~Listed(j), NEW s, SetStatus(j, s),
         UNCHANGED <<pending, byTime, issued, runs>>
  PROVE  Store' /\ Calm
  <1>1. hash \in [JobId -> Hash] /\ \A k \in JobId : hash'[k].whole = hash[k].whole
    BY DEF SetStatus, IInv, TypeOK, RedisTypeOK, Hash
  <1>2. \A k \in JobId \ {j} : hash'[k] = hash[k]
    BY <1>1 DEF SetStatus
  <1>3. IssuedInv'
    BY <1>2 DEF IInv, IssuedInv, IsIssued
  <1>4. \A a \in 1 .. Len(pending) : pending[a] \in JobId \ {j}
    BY ListIsSeq DEF IInv, Listed, Contains
  <1>5. ListInv'
    BY <1>2, <1>4 DEF IInv, ListInv, IsIssued
  <1>6. Calm
    BY <1>1 DEF Calm, IsIssued, Listed
  <1> QED
    BY <1>3, <1>5, <1>6 DEF Store

\* A list that is a part of the one there was, in its order.
LEMMA PartStores ==
  ASSUME IInv, NEW j \in JobId, IsIssued(j), UNCHANGED <<byTime, issued, runs>>,
         hash' = hash \/ \E s : SetStatus(j, s) /\ ~Listed(j)',
         pending' \in Seq(JobId),
         \A a \in 1 .. Len(pending') : \E c \in 1 .. Len(pending) : pending'[a] = pending[c],
         \A a, b \in 1 .. Len(pending') : a < b =>
            \E c, d \in 1 .. Len(pending) : c < d /\ pending'[a] = pending[c] /\ pending'[b] = pending[d]
  PROVE  Store' /\ Calm
  <1>1. hash \in [JobId -> Hash] /\ \A k \in JobId : hash'[k].whole = hash[k].whole
    <2>1. hash \in [JobId -> Hash]
      BY DEF IInv, TypeOK, RedisTypeOK
    <2>2. ASSUME NEW s, SetStatus(j, s) PROVE \A k \in JobId : hash'[k].whole = hash[k].whole
      BY <2>1, <2>2 DEF SetStatus, Hash
    <2> QED
      BY <2>1, <2>2
  <1>2. \A k \in JobId \ {j} : hash'[k] = hash[k]
    BY <1>1 DEF SetStatus
  <1>3. IssuedInv'
    BY <1>2 DEF IInv, IssuedInv, IsIssued
  <1>4. ASSUME NEW a \in 1 .. Len(pending')
        PROVE  /\ IsIssued(pending[a])' /\ runs'[pending'[a]] = 0
               /\ hash'[pending'[a]] = [status |-> "pending", whole |-> TRUE]
    <2>1. pending'[a] \in JobId
      BY ElementOfSeq
    <2>2. IsIssued(pending'[a]) /\ runs[pending'[a]] = 0
          /\ hash[pending'[a]] = [status |-> "pending", whole |-> TRUE]
      BY DEF IInv, ListInv
    <2>3. hash'[pending'[a]] = hash[pending'[a]]
      BY <1>2, <2>1 DEF Listed, Contains
    <2> QED
      BY <2>2, <2>3 DEF IsIssued
  <1>5. ASSUME NEW a \in 1 .. Len(pending'), NEW b \in 1 .. Len(pending'), a < b
        PROVE  \E c, d \in 1 .. Len(issued') :
                  c < d /\ pending'[a] = issued'[c] /\ pending'[b] = issued'[d]
    <2>1. PICK e \in 1 .. Len(pending), f \in 1 .. Len(pending) :
            e < f /\ pending'[a] = pending[e] /\ pending'[b] = pending[f]
      BY <1>5
    <2> QED
      BY <2>1 DEF IInv, ListInv
  <1>6. ListInv'
    BY <1>4, <1>5 DEF ListInv
  <1>7. ASSUME NEW k \in JobId, Contains(pending', k) PROVE Listed(k)
    <2>1. PICK a \in 1 .. Len(pending') : pending'[a] = k
      BY <1>7 DEF Contains
    <2>2. PICK c \in 1 .. Len(pending) : pending'[a] = pending[c]
      OBVIOUS
    <2> QED
      BY <2>1, <2>2 DEF Listed, Contains
  <1>8. Calm
    BY <1>1, <1>7 DEF Calm, IsIssued, Listed
  <1> QED
    BY <1>3, <1>6, <1>8 DEF Store

LEMMA PopStores ==
  ASSUME IInv, NEW j \in JobId, LPop(j), UNCHANGED <<issued, runs>>
  PROVE  /\ Store' /\ Calm
         /\ ~Listed(j)' /\ IsIssued(j)' /\ hash'[j].whole /\ runs'[j] = 0
  <1>1. pending \in Seq(JobId) /\ pending # <<>> /\ j = Head(pending) /\ pending' = Tail(pending)
    BY DEF LPop, IInv, TypeOK, RedisTypeOK
  <1>2. /\ j = pending[1] /\ pending' \in Seq(JobId) /\ Len(pending') = Len(pending) - 1
        /\ \A a \in 1 .. Len(pending') : pending'[a] = pending[a + 1]
    BY <1>1, HeadTailProperties
  <1>3. Len(pending) \in Nat /\ 1 \in 1 .. Len(pending)
    BY <1>1, LenProperties, EmptySeq
  <1>4. \A a \in 1 .. Len(pending') : a + 1 \in 1 .. Len(pending) /\ a + 1 # 1
    BY <1>2, <1>3
  <1>5. Store' /\ Calm
    <2>1. \A a, b \in 1 .. Len(pending') : a < b =>
             \E c, d \in 1 .. Len(pending) :
                c < d /\ pending'[a] = pending[c] /\ pending'[b] = pending[d]
      <3> TAKE a, b \in 1 .. Len(pending')
      <3> HAVE a < b
      <3>1. a + 1 < b + 1
        BY <1>2, <1>3
      <3> QED
        BY <1>2, <1>4, <3>1
    <2>2. IsIssued(j)
      BY <1>2, <1>3 DEF IInv, ListInv
    <2> QED
      BY <1>2, <1>4, <2>1, <2>2, PartStores DEF LPop
  <1>6. ~Listed(j)'
    <2>1. \A a \in 1 .. Len(pending') : pending'[a] # j
      BY <1>2, <1>3, <1>4, ListedOnce DEF IInv
    <2> QED
      BY <2>1 DEF Listed, Contains
  <1>7. IsIssued(j) /\ hash[j] = [status |-> "pending", whole |-> TRUE] /\ runs[j] = 0
    BY <1>2, <1>3 DEF IInv, ListInv
  <1> QED
    BY <1>5, <1>6, <1>7 DEF LPop, IsIssued

LEMMA CancelStores ==
  ASSUME IInv, NEW j \in JobId, IsIssued(j), CancelPipeline(j), UNCHANGED <<issued, runs>>
  PROVE  Store' /\ Calm
  <1>1. pending \in Seq(JobId) /\ pending' = Only(pending, JobId \ {j})
    BY DEF CancelPipeline, IInv, TypeOK, RedisTypeOK
  <1>2. pending' \in Seq(JobId) /\ PickedFrom(pending', pending, JobId \ {j}, Len(pending))
    BY <1>1, OnlyProperties
  <1>3. ~Listed(j)'
    BY <1>2 DEF PickedFrom, Listed, Contains
  <1>4. \A a \in 1 .. Len(pending') : \E c \in 1 .. Len(pending) : pending'[a] = pending[c]
    BY <1>2 DEF PickedFrom
  <1>5. \A a, b \in 1 .. Len(pending') : a < b =>
          \E c, d \in 1 .. Len(pending) : c < d /\ pending'[a] = pending[c] /\ pending'[b] = pending[d]
    BY <1>2 DEF PickedFrom
  <1>6. SetStatus(j, "cancelled") /\ byTime' = byTime
    BY DEF CancelPipeline
  <1> QED
    BY <1>2, <1>3, <1>4, <1>5, <1>6, PartStores

LEMMA DeleteStores ==
  ASSUME IInv, NEW j \in JobId, IsIssued(j), ~Listed(j), NEW old, DeletePipeline(j, old),
         UNCHANGED <<issued, runs>>
  PROVE  Store'
  <1>1. pending' = pending /\ \A k \in JobId \ {j} : hash'[k] = hash[k] /\ byTime'[k] = byTime[k]
    BY DEF DeletePipeline, IInv, TypeOK, RedisTypeOK
  <1>2. IssuedInv'
    BY <1>1 DEF IInv, IssuedInv, IsIssued
  <1>3. \A a \in 1 .. Len(pending) : pending[a] \in JobId \ {j}
    BY ListIsSeq DEF IInv, Listed, Contains
  <1>4. ListInv'
    BY <1>1, <1>3 DEF IInv, ListInv, IsIssued
  <1> QED
    BY <1>2, <1>4 DEF Store

LEMMA NothingStores ==
  ASSUME IInv, UNCHANGED <<redisVars, issued, runs>>
  PROVE  Store' /\ Calm
  BY DEF IInv, Store, IssuedInv, ListInv, IsIssued, Calm, Listed, redisVars

-----------------------------------------------------------------------------
(* Preservation, action by action.                                         *)

LEMMA WorkerStays ==
  ASSUME IInv, Calm, UNCHANGED <<worker, runs>>
  PROVE  WorkerInv'
  BY DEF IInv, WorkerInv, Calm, Holding

LEMMA RequestStays ==
  ASSUME IInv, Calm, UNCHANGED request
  PROVE  RequestInv'
  BY DEF IInv, RequestInv, Calm

LEMMA ExecuteIInv ==
  ASSUME IInv, NEW j \in JobId, Execute(j)
  PROVE  IInv'
  <1>1. Store' /\ Calm /\ issued' \in Seq(JobId)
    BY EnqueueStores DEF Execute, IsIssued
  <1>2. UNCHANGED <<now, server, worker, nextCleanup, request, runs, promised, stops, raises>>
    BY DEF Execute, procVars, faults
  <1>3. TypeOK'
    BY <1>1, <1>2, CommandTypes DEF Execute, IInv, TypeOK
  <1> QED
    BY <1>1, <1>2, <1>3, WorkerStays, RequestStays DEF IInv, Store, RunAtMostOnce

\* A cancel request moves on, and nothing else.
LEMMA CancelLooks ==
  ASSUME IInv, NEW c \in Client, NEW r \in Request, request' = [request EXCEPT ![c] = r],
         r.pc # "idle" => r.job \in JobId /\ IsIssued(r.job),
         UNCHANGED <<redisVars, now, server, worker, nextCleanup, history, faults>>
  PROVE  IInv'
  <1>1. UNCHANGED <<issued, runs, promised, stops, raises>>
    BY DEF history, faults
  <1>2. Store' /\ Calm
    BY <1>1, NothingStores
  <1>3. TypeOK'
    BY <1>1 DEF IInv, TypeOK, RedisTypeOK, redisVars
  <1>4. RequestInv'
    BY <1>1 DEF IInv, TypeOK, RequestInv, IsIssued
  <1> QED
    BY <1>1, <1>2, <1>3, <1>4, WorkerStays DEF IInv, Store, RunAtMostOnce

LEMMA CancelCheckIInv ==
  ASSUME IInv, NEW j \in JobId, NEW c \in Client, CancelCheck(c, j)
  PROVE  IInv'
  <1>1. Status(j) = "pending" => IsIssued(j)
    BY DEF IInv, IssuedInv, Status, NoHash
  <1>2. CASE \E code \in {400, 404} : Answer(c, j, code)
    <2>1. PICK code \in {400, 404} : Answer(c, j, code)
      BY <1>2
    <2> DEFINE r == [pc |-> "idle", job |-> j, code |-> code]
    <2>2. r \in Request /\ r.pc = "idle"
      BY <2>1 DEF Request
    <2>3. request' = [request EXCEPT ![c] = r]
      BY <2>1 DEF Answer
    <2> HIDE DEF r
    <2> QED
      BY <2>2, <2>3, CancelLooks DEF CancelCheck
  <1>3. CASE Status(j) = "pending" /\ Proceed(c, "checked", j)
    <2> DEFINE r == [pc |-> "checked", job |-> j, code |-> 0]
    <2>1. r \in Request /\ r.job = j /\ IsIssued(j)
      BY <1>1, <1>3 DEF Request
    <2>2. request' = [request EXCEPT ![c] = r]
      BY <1>3 DEF Proceed
    <2>3. UNCHANGED <<redisVars, now, server, worker, nextCleanup, history, faults>>
      BY DEF CancelCheck
    <2> HIDE DEF r
    <2> QED
      BY <2>1, <2>2, <2>3, CancelLooks
  <1> QED
    BY <1>2, <1>3 DEF CancelCheck

LEMMA CancelReadIInv ==
  ASSUME IInv, NEW c \in Client, CancelRead(c)
  PROVE  IInv'
  <1> DEFINE j == request[c].job
  <1>1. j \in JobId /\ IsIssued(j)
    BY DEF CancelRead, IInv, RequestInv
  <1>2. CASE Proceed(c, "read", j)
    <2> DEFINE r == [pc |-> "read", job |-> j, code |-> 0]
    <2>1. r \in Request /\ r.job = j
      BY <1>1 DEF Request
    <2>2. request' = [request EXCEPT ![c] = r]
      BY <1>2 DEF Proceed
    <2>3. UNCHANGED <<redisVars, now, server, worker, nextCleanup, history, faults>>
      BY DEF CancelRead
    <2> HIDE DEF r, j
    <2> QED
      BY <1>1, <2>1, <2>2, <2>3, CancelLooks
  <1>3. CASE Answer(c, j, 500)
    <2> DEFINE r == [pc |-> "idle", job |-> j, code |-> 500]
    <2>1. r \in Request /\ r.pc = "idle"
      BY <1>1 DEF Request
    <2>2. request' = [request EXCEPT ![c] = r]
      BY <1>3 DEF Answer
    <2>3. UNCHANGED <<redisVars, now, server, worker, nextCleanup, history, faults>>
      BY DEF CancelRead
    <2> HIDE DEF r, j
    <2> QED
      BY <2>1, <2>2, <2>3, CancelLooks
  <1> QED
    BY <1>2, <1>3 DEF CancelRead

LEMMA CancelWriteIInv ==
  ASSUME IInv, NEW c \in Client, CancelWrite(c)
  PROVE  IInv'
  <1> DEFINE j == request[c].job
  <1>1. j \in JobId /\ IsIssued(j)
    BY DEF CancelWrite, IInv, RequestInv
  <1>2. CancelPipeline(j) \/ UNCHANGED redisVars
    BY DEF CancelWrite, Lost
  <1>3. UNCHANGED <<now, server, worker, nextCleanup, issued, runs, stops>>
        /\ promised' \in SUBSET JobId /\ raises' \in Nat
    BY <1>1 DEF CancelWrite, Lost, Raise, faults, IInv, TypeOK
  <1>4. PICK code \in {200, 500} : Answer(c, j, code)
    BY DEF CancelWrite
  <1>5. Store' /\ Calm
    BY <1>1, <1>2, <1>3, CancelStores, NothingStores
  <1>6. [pc |-> "idle", job |-> j, code |-> code] \in Request
    BY <1>1, <1>4 DEF Request
  <1>7. request' = [request EXCEPT ![c] = [pc |-> "idle", job |-> j, code |-> code]]
    BY <1>4 DEF Answer
  <1>8. RedisTypeOK'
    BY <1>1, <1>2, <1>3, CommandTypes DEF IInv, TypeOK
  <1>9. TypeOK'
    BY <1>3, <1>6, <1>7, <1>8 DEF IInv, TypeOK
  <1>10. RequestInv'
    BY <1>3, <1>7 DEF IInv, TypeOK, RequestInv, IsIssued
  <1> QED
    BY <1>3, <1>5, <1>9, <1>10, WorkerStays DEF IInv, Store, RunAtMostOnce

\* The parts of the invariant a step of the worker or of the process has to mind.
LEMMA IInvFrom ==
  ASSUME IInv, Store', RedisTypeOK', WorkerInv', worker' \in Worker,
         UNCHANGED <<request, issued, runs, promised>>,
         server' \in {"up", "stopping", "down"}, {nextCleanup', stops', raises'} \subseteq Nat
  PROVE  IInv'
  <1>1. TypeOK'
    BY DEF IInv, TypeOK
  <1>2. RequestInv' /\ RunAtMostOnce'
    BY DEF IInv, RequestInv, IsIssued, RunAtMostOnce
  <1> QED
    BY <1>1, <1>2 DEF IInv, Store

LEMMA AtIsWorker ==
  ASSUME NEW pc \in {"loop", "cleanup", "examine", "delete", "pop", "mark", "begin", "engine",
                     "complete", "completing", "fail", "failing", "wait", "exited"},
         NEW j \in JobId \cup {NoJob}
  PROVE  /\ At(pc, j) \in Worker /\ At(pc, j).pc = pc /\ At(pc, j).job = j
  BY DEF At, Worker, JobStatus

LEMMA AtExamineIsWorker ==
  ASSUME NEW T \in SUBSET JobId, worker' = [At("examine", NoJob) EXCEPT !.todo = T]
  PROVE  worker' \in Worker /\ worker'.pc = "examine"
  BY DEF At, Worker, JobStatus

\* With no job in hand there is nothing to know of it.
LEMMA FreeWorker ==
  ASSUME worker'.pc \notin Holding
  PROVE  WorkerInv'
  BY DEF WorkerInv, Holding, Busy

LEMMA QuietWorkerIInv ==
  ASSUME IInv, LoopTest \/ WaitEnds \/ MaybeCleanup
  PROVE  IInv'
  <1>1. worker' \in Worker /\ worker'.pc \notin Holding
    <2>1. \/ \E pc \in {"loop", "cleanup", "exited", "pop"} : worker' = At(pc, NoJob)
          \/ worker' = [At("examine", NoJob) EXCEPT !.todo = OldJobIds]
      BY DEF LoopTest, WaitEnds, MaybeCleanup, WorkerGoes
    <2>2. OldJobIds \in SUBSET JobId
      BY DEF OldJobIds
    <2>3. CASE \E pc \in {"loop", "cleanup", "exited", "pop"} : worker' = At(pc, NoJob)
      BY <2>3, AtIsWorker DEF Holding, Busy
    <2>4. CASE worker' = [At("examine", NoJob) EXCEPT !.todo = OldJobIds]
      BY <2>2, <2>4, AtExamineIsWorker DEF Holding, Busy
    <2> QED
      BY <2>1, <2>3, <2>4
  <1>2. UNCHANGED <<redisVars, now, server, request, issued, runs, promised, stops>>
    BY DEF LoopTest, WaitEnds, MaybeCleanup, history, faults, Raise
  <1>3. {nextCleanup', stops', raises'} \subseteq Nat
    BY RedisServiceAssumption DEF LoopTest, WaitEnds, MaybeCleanup, faults, Raise, IInv, TypeOK,
       RedisTypeOK
  <1>4. RedisTypeOK'
    BY <1>2 DEF IInv, TypeOK, RedisTypeOK, redisVars
  <1> QED
    BY <1>1, <1>2, <1>3, <1>4, NothingStores, FreeWorker, IInvFrom DEF IInv, TypeOK

\* A job that was found finished was handed out, and is not listed.
LEMMA CleanupExamineIInv ==
  ASSUME IInv, CleanupExamine
  PROVE  IInv'
  <1>1. UNCHANGED <<redisVars, now, server, nextCleanup, request, issued, runs, promised, stops,
                    raises>>
    BY DEF CleanupExamine, history, faults
  <1>2. worker \in Worker /\ worker.pc = "examine"
    BY DEF CleanupExamine, AtWorker, IInv, TypeOK
  <1>3. worker' \in Worker /\ WorkerInv'
    <2>1. CASE WorkerGoes("pop", NoJob)
      <3>1. worker' \in Worker /\ worker'.pc = "pop"
        BY <2>1, AtIsWorker DEF WorkerGoes
      <3> QED
        BY <3>1, FreeWorker DEF Holding, Busy
    <2>2. ASSUME NEW j \in worker.todo, Status(j) \in Finished,
                 worker' = [worker EXCEPT !.pc = "delete", !.job = j, !.old = Status(j),
                                          !.todo = @ \ {j}]
          PROVE  worker' \in Worker /\ WorkerInv'
      <3>1. j \in JobId
        BY <1>2 DEF Worker
      <3>2. worker' \in Worker /\ worker'.pc = "delete" /\ worker'.job = j
        BY <1>2, <2>2, <3>1 DEF Worker, JobStatus
      <3>3. IsIssued(j)
        BY <2>2, <3>1 DEF IInv, IssuedInv, NoHash, Status, Finished
      <3>4. ~Listed(j)
        BY <2>2, <3>1 DEF IInv, ListInv, Listed, Contains, Status, Finished
      <3> QED
        BY <1>1, <3>1, <3>2, <3>3, <3>4 DEF WorkerInv, Busy, IsIssued, Listed, redisVars
    <2>3. ASSUME NEW j \in worker.todo, worker' = [worker EXCEPT !.todo = @ \ {j}]
          PROVE  worker' \in Worker /\ WorkerInv'
      <3>1. worker' \in Worker /\ worker'.pc = "examine"
        BY <1>2, <2>3 DEF Worker
      <3> QED
        BY <3>1, FreeWorker DEF Holding, Busy
    <2> QED
      BY <2>1, <2>2, <2>3 DEF CleanupExamine
  <1>4. RedisTypeOK' /\ {nextCleanup', stops', raises'} \subseteq Nat
    BY <1>1 DEF IInv, TypeOK, RedisTypeOK, redisVars
  <1> QED
    BY <1>1, <1>3, <1>4, NothingStores, IInvFrom DEF IInv, TypeOK

LEMMA CleanupDeleteIInv ==
  ASSUME IInv, CleanupDelete
  PROVE  IInv'
  <1> DEFINE j == worker.job
  <1>1. j \in JobId /\ IsIssued(j) /\ ~Listed(j) /\ worker.old \in JobStatus \cup {"none"}
        /\ worker.todo \in SUBSET JobId
    BY DEF CleanupDelete, AtWorker, Holding, IInv, WorkerInv, TypeOK, Worker
  <1>2. DeletePipeline(j, worker.old) \/ UNCHANGED redisVars
    BY DEF CleanupDelete, Lost
  <1>3. UNCHANGED <<now, server, nextCleanup, request, issued, runs, promised, stops>>
        /\ raises' \in Nat
    BY DEF CleanupDelete, Lost, Raise, history, faults, IInv, TypeOK
  <1>4. worker' \in Worker /\ worker'.pc \notin Holding
    <2>1. CASE worker' = At("pop", NoJob)
      BY <2>1, AtIsWorker DEF Holding, Busy
    <2>2. CASE worker' = [At("examine", NoJob) EXCEPT !.todo = worker.todo]
      BY <1>1, <2>2, AtExamineIsWorker DEF Holding, Busy
    <2> QED
      BY <2>1, <2>2 DEF CleanupDelete, WorkerGoes
  <1>5. Store'
    BY <1>1, <1>2, <1>3, DeleteStores, NothingStores
  <1>6. RedisTypeOK'
    BY <1>1, <1>2, <1>3, CommandTypes DEF IInv, TypeOK
  <1>7. {nextCleanup', stops', raises'} \subseteq Nat
    BY <1>3 DEF IInv, TypeOK
  <1> QED
    BY <1>3, <1>4, <1>5, <1>6, <1>7, FreeWorker, IInvFrom DEF IInv, TypeOK

LEMMA DequeuePopIInv ==
  ASSUME IInv, DequeuePop
  PROVE  IInv'
  <1>1. UNCHANGED <<now, server, nextCleanup, request, issued, runs, promised, stops>>
        /\ raises' \in Nat
    BY DEF DequeuePop, Lost, Raise, history, faults, IInv, TypeOK
  <1>2. {nextCleanup', stops', raises'} \subseteq Nat
    BY <1>1 DEF IInv, TypeOK
  <1>3. CASE WorkerGoes("wait", NoJob) /\ (UNCHANGED redisVars \/ \E j \in JobId : LPop(j))
    <2>1. worker' \in Worker /\ worker'.pc \notin Holding
      BY <1>3, AtIsWorker DEF WorkerGoes, Holding, Busy
    <2>2. Store' /\ RedisTypeOK'
      <3>1. CASE UNCHANGED redisVars
        BY <1>1, <3>1, NothingStores DEF IInv, TypeOK, RedisTypeOK, redisVars
      <3>2. ASSUME NEW j \in JobId, LPop(j) PROVE Store' /\ RedisTypeOK'
        BY <1>1, <3>2, PopStores, CommandTypes DEF IInv, TypeOK
      <3> QED
        BY <1>3, <3>1, <3>2
    <2> QED
      BY <1>1, <1>2, <2>1, <2>2, FreeWorker, IInvFrom DEF IInv, TypeOK
  <1>4. ASSUME NEW j \in JobId, LPop(j), WorkerGoes("mark", j) PROVE IInv'
    <2>1. worker' \in Worker /\ worker'.pc = "mark" /\ worker'.job = j
      BY <1>4, AtIsWorker DEF WorkerGoes
    <2>2. Store' /\ ~Listed(j)' /\ IsIssued(j)' /\ hash'[j].whole /\ runs'[j] = 0
      BY <1>1, <1>4, PopStores
    <2>3. RedisTypeOK'
      BY <1>1, <1>4, CommandTypes DEF IInv, TypeOK
    <2>4. WorkerInv'
      BY <2>1, <2>2 DEF WorkerInv
    <2> QED
      BY <1>1, <1>2, <2>1, <2>2, <2>3, <2>4, IInvFrom DEF IInv, TypeOK
  <1> QED
    BY <1>3, <1>4 DEF DequeuePop, Lost

\* The job stays in hand, or is let go of, while its status is written, or not.
LEMMA InHandIInv ==
  ASSUME IInv, worker.pc \in {"mark"} \cup Busy,
         \/ UNCHANGED redisVars
         \/ DequeuePipeline(worker.job)
         \/ \E new \in JobStatus : UpdatePipeline(worker.job, worker.old, new),
         worker' \in Worker,
         \/ worker'.pc \notin Holding
         \/ worker'.pc \in Busy /\ worker'.job = worker.job /\ (worker'.pc = "begin" => worker.pc = "mark"),
         UNCHANGED <<now, server, nextCleanup, request, issued, runs, promised, stops>>,
         raises' \in Nat
  PROVE  IInv'
  <1> DEFINE j == worker.job
  <1>1. j \in JobId /\ IsIssued(j) /\ ~Listed(j) /\ hash[j].whole
        /\ (worker.pc = "mark" => runs[j] = 0)
        /\ worker.old \in JobStatus \cup {"none"}
    BY DEF IInv, WorkerInv, Holding, TypeOK, Worker
  <1>2. Store' /\ Calm
    <2>1. CASE UNCHANGED redisVars
      BY <2>1, NothingStores
    <2>2. ASSUME NEW s, SetStatus(j, s), UNCHANGED <<pending, byTime>> PROVE Store' /\ Calm
      BY <1>1, <2>2, MarkStores
    <2> QED
      BY <2>1, <2>2 DEF DequeuePipeline, UpdatePipeline
  <1>3. RedisTypeOK'
    BY <1>1, CommandTypes DEF IInv, TypeOK
  <1>4. WorkerInv'
    <2>1. CASE worker'.pc \notin Holding
      BY <2>1, FreeWorker
    <2>2. CASE worker'.pc \in Busy /\ worker'.job = j /\ (worker'.pc = "begin" => worker.pc = "mark")
      <3>1. PICK k \in JobId : k = j
        BY <1>1
      <3>2. IsIssued(k)' /\ ~Listed(k)' /\ hash'[k].whole
        BY <1>1, <1>2, <3>1 DEF Calm
      <3>3. worker'.job = k /\ (worker'.pc \in {"mark", "begin"} => runs'[k] = 0)
        BY <1>1, <2>2, <3>1 DEF Busy
      <3> QED
        BY <2>2, <3>2, <3>3 DEF WorkerInv, Busy
    <2> QED
      BY <2>1, <2>2
  <1>5. {nextCleanup', stops', raises'} \subseteq Nat
    BY DEF IInv, TypeOK
  <1> QED
    BY <1>2, <1>3, <1>4, <1>5, IInvFrom DEF IInv, TypeOK

LEMMA DequeueMarkIInv ==
  ASSUME IInv, DequeueMark
  PROVE  IInv'
  <1>1. worker.pc = "mark" /\ worker.job \in JobId
    BY DEF DequeueMark, AtWorker, IInv, WorkerInv, Holding
  <1>2. /\ worker' \in Worker
        /\ \/ worker'.pc \notin Holding
           \/ worker'.pc = "begin" /\ worker'.job = worker.job
    <2>1. worker' = At("begin", worker.job) \/ worker' = At("wait", NoJob)
      BY DEF DequeueMark, WorkerGoes
    <2>2. CASE worker' = At("begin", worker.job)
      BY <1>1, <2>2, AtIsWorker
    <2>3. CASE worker' = At("wait", NoJob)
      BY <2>3, AtIsWorker DEF Holding, Busy
    <2> QED
      BY <2>1, <2>2, <2>3
  <1>3. UNCHANGED <<now, server, nextCleanup, request, issued, runs, promised, stops>>
        /\ raises' \in Nat
    BY DEF DequeueMark, Lost, Raise, history, faults, IInv, TypeOK
  <1>4. UNCHANGED redisVars \/ DequeuePipeline(worker.job)
    BY DEF DequeueMark, Lost
  <1> QED
    BY <1>1, <1>2, <1>3, <1>4, InHandIInv DEF Busy

LEMMA EngineEndsIInv ==
  ASSUME IInv, EngineEnds
  PROVE  IInv'
  <1>1. worker.pc = "engine" /\ worker.job \in JobId
    BY DEF EngineEnds, AtWorker, IInv, WorkerInv, Holding, Busy
  <1>2. worker' \in Worker /\ worker'.pc \in {"complete", "fail"} /\ worker'.job = worker.job
    BY <1>1, AtIsWorker DEF EngineEnds, WorkerGoes
  <1>3. UNCHANGED <<redisVars, now, server, nextCleanup, request, issued, runs, promised, stops,
                    raises>>
    BY DEF EngineEnds, history, faults
  <1> QED
    BY <1>1, <1>2, <1>3, InHandIInv DEF Busy, IInv, TypeOK

LEMMA UpdateIInv ==
  ASSUME IInv, NEW read \in {"complete", "fail"}, NEW write \in {"completing", "failing"},
         NEW new \in {"completed", "failed"}, NEW raised,
         raised = At("fail", worker.job) \/ raised = At("wait", NoJob),
         UpdateRead(read, write, raised) \/ UpdateWrite(write, new, raised)
  PROVE  IInv'
  <1>1. worker.pc \in {read, write} /\ worker.job \in JobId /\ worker \in Worker
    BY DEF UpdateRead, UpdateWrite, AtWorker, IInv, WorkerInv, Holding, Busy, TypeOK
  <1>2. /\ raised \in Worker
        /\ \/ raised.pc \notin Holding
           \/ raised.pc = "fail" /\ raised.job = worker.job
    BY <1>1, AtIsWorker DEF Holding, Busy
  <1>3. At("loop", NoJob) \in Worker /\ At("loop", NoJob).pc \notin Holding
    BY AtIsWorker DEF Holding, Busy
  <1>4. Status(worker.job) \in JobStatus \cup {"none"}
    BY <1>1 DEF Status, IInv, TypeOK, RedisTypeOK, Hash
  <1>5. /\ worker' \in Worker
        /\ \/ worker'.pc \notin Holding
           \/ worker'.pc \in {write, "fail"} /\ worker'.job = worker.job
    <2>1. CASE worker' = [worker EXCEPT !.pc = write, !.old = Status(worker.job)]
      BY <1>1, <1>4, <2>1 DEF Worker
    <2>2. CASE worker' = raised
      BY <1>2, <2>2
    <2>3. CASE worker' = At("loop", NoJob)
      BY <1>3, <2>3
    <2> QED
      BY <2>1, <2>2, <2>3 DEF UpdateRead, UpdateWrite, WorkerGoes
  <1>6. UNCHANGED <<now, server, nextCleanup, request, issued, runs, promised, stops>>
        /\ raises' \in Nat
    BY DEF UpdateRead, UpdateWrite, Lost, Raise, history, faults, IInv, TypeOK
  <1>7. UNCHANGED redisVars \/ \E s \in JobStatus : UpdatePipeline(worker.job, worker.old, s)
    BY DEF UpdateRead, UpdateWrite, Lost, JobStatus, Finished
  <1> QED
    BY <1>1, <1>5, <1>6, <1>7, InHandIInv DEF Busy

LEMMA StartEngineIInv ==
  ASSUME IInv, StartEngine
  PROVE  IInv'
  <1> DEFINE j == worker.job
  <1>1. worker.pc = "begin" /\ j \in JobId /\ IsIssued(j) /\ ~Listed(j) /\ hash[j].whole /\ runs[j] = 0
    BY DEF StartEngine, AtWorker, IInv, WorkerInv, Holding, Busy
  <1>2. worker' \in Worker /\ worker'.pc = "engine" /\ worker'.job = j
    BY <1>1, AtIsWorker DEF StartEngine, WorkerGoes
  <1>3. UNCHANGED <<redisVars, now, server, nextCleanup, request, issued, promised, stops, raises>>
    BY DEF StartEngine, faults
  <1>4. runs \in [JobId -> Nat] /\ runs' = [runs EXCEPT ![j] = 1]
    BY <1>1 DEF StartEngine, IInv, TypeOK
  <1>5. TypeOK'
    BY <1>2, <1>3, <1>4 DEF IInv, TypeOK, RedisTypeOK, redisVars
  <1>6. IssuedInv'
    BY <1>1, <1>3, <1>4 DEF IInv, IssuedInv, IsIssued, redisVars
  <1>7. ListInv'
    <2>1. \A a \in 1 .. Len(pending) : pending[a] \in JobId \ {j}
      BY <1>1, ListIsSeq DEF IInv, Listed, Contains
    <2>2. \A a \in 1 .. Len(pending) : runs'[pending[a]] = runs[pending[a]]
      BY <1>4, <2>1
    <2> QED
      BY <1>3, <2>2 DEF IInv, ListInv, IsIssued, redisVars
  <1>8. WorkerInv' /\ RequestInv'
    BY <1>1, <1>2, <1>3 DEF WorkerInv, RequestInv, IInv, IsIssued, Listed, Busy, Holding, redisVars
  <1>9. RunAtMostOnce'
    BY <1>4 DEF IInv, RunAtMostOnce
  <1> QED
    BY <1>5, <1>6, <1>7, <1>8, <1>9 DEF IInv

LEMMA WorkerStepIInv ==
  ASSUME IInv, WorkerStep
  PROVE  IInv'
  <1>1. CASE MarkCompletedRead \/ MarkCompleted
    BY <1>1, UpdateIInv DEF MarkCompletedRead, MarkCompleted
  <1>2. CASE MarkFailedRead \/ MarkFailed
    BY <1>2, UpdateIInv DEF MarkFailedRead, MarkFailed
  <1> QED
    BY <1>1, <1>2, QuietWorkerIInv, CleanupExamineIInv, CleanupDeleteIInv, DequeuePopIInv,
       DequeueMarkIInv, StartEngineIInv, EngineEndsIInv DEF WorkerStep

\* A process that comes or goes leaves Redis as it is, and its worker with no job.
LEMMA LifecycleIInv ==
  ASSUME IInv, Lifecycle
  PROVE  IInv'
  <1>1. UNCHANGED <<redisVars, now, issued, runs, promised, raises>>
    BY DEF Lifecycle, Start, BeginStop, Exit, Crash, ProcessEnds, Stop, history, faults
  <1>2. Store' /\ Calm
    BY <1>1, NothingStores
  <1>3. worker' \in Worker /\ WorkerInv'
    <2>1. CASE Start \/ Exit \/ Crash
      <3>1. worker' = At("loop", NoJob) \/ worker' = At("exited", NoJob)
        BY <2>1 DEF Start, Exit, Crash, ProcessEnds, WorkerGoes
      <3>2. worker' \in Worker /\ worker'.pc \notin Holding
        BY <3>1, AtIsWorker DEF Holding, Busy
      <3> QED
        BY <3>2, FreeWorker
    <2>2. CASE BeginStop
      BY <1>1, <1>2, <2>2, WorkerStays DEF BeginStop, IInv, TypeOK
    <2> QED
      BY <2>1, <2>2 DEF Lifecycle
  <1>4. request' \in [Client -> Request] /\ RequestInv'
    <2>1. \A c \in Client : request'[c] = request[c] \/ request'[c] = NoRequest
      BY DEF Lifecycle, Start, BeginStop, Exit, Crash, ProcessEnds
    <2>2. DOMAIN request' = Client /\ request' = [c \in Client |-> request'[c]]
      BY DEF Lifecycle, Start, BeginStop, Exit, Crash, ProcessEnds, IInv, TypeOK
    <2>3. NoRequest \in Request /\ NoRequest.pc = "idle"
      BY DEF NoRequest, Request
    <2> QED
      BY <1>1, <2>1, <2>2, <2>3 DEF IInv, TypeOK, RequestInv, IsIssued
  <1>5. server' \in {"up", "stopping", "down"} /\ nextCleanup' \in Nat /\ stops' \in Nat
    BY DEF Lifecycle, Start, BeginStop, Exit, Crash, ProcessEnds, Stop, faults, IInv, TypeOK
  <1>6. TypeOK'
    BY <1>1, <1>3, <1>4, <1>5 DEF IInv, TypeOK, RedisTypeOK, redisVars
  <1> QED
    BY <1>1, <1>2, <1>3, <1>4, <1>6 DEF IInv, Store, RunAtMostOnce

LEMMA TickIInv ==
  ASSUME IInv, Tick \/ UNCHANGED vars
  PROVE  IInv'
  <1>1. UNCHANGED <<redisVars, server, worker, nextCleanup, request, issued, runs, promised, stops,
                    raises>>
    BY DEF Tick, vars, procVars, history, faults
  <1>2. now' \in Nat \ {0}
    BY DEF Tick, vars, IInv, TypeOK, RedisTypeOK
  <1>3. TypeOK'
    BY <1>1, <1>2 DEF IInv, TypeOK, RedisTypeOK, redisVars
  <1>4. Store' /\ Calm
    BY <1>1, NothingStores
  <1> QED
    BY <1>1, <1>3, <1>4, WorkerStays, RequestStays DEF IInv, Store, RunAtMostOnce

LEMMA NextIInv == IInv /\ [Next]_vars => IInv'
  BY ExecuteIInv, CancelCheckIInv, CancelReadIInv, CancelWriteIInv, WorkerStepIInv, LifecycleIInv,
     TickIInv DEF Next, CancelStep

LEMMA SpecIInv == Spec => []IInv
  BY InitIInv, NextIInv, PTL DEF Spec

-----------------------------------------------------------------------------
(* What follows.                                                           *)

\* Every variable keeps its type, whatever fails: no reply that is lost and no cancel
\* that races the worker writes a status that is none (update_status, cancel_job,
\* redis_queue.py).
THEOREM RedisTypesOK == Spec => []TypeOK
  <1>1. IInv => TypeOK
    BY DEF IInv
  <1> QED
    BY <1>1, SpecIInv, PTL

\* Whatever LPOP hands out may be run (dequeue, redis_queue.py): a listed job is
\* pending, has every field it was submitted with, and is listed once, although a
\* cancel that passed its check may write any hash at any time.
THEOREM RedisListedArePending == Spec => []ListedArePending
  <1>1. ASSUME IInv PROVE ListedArePending
    <2>1. \A j \in JobId : Listed(j) => hash[j] = [status |-> "pending", whole |-> TRUE]
      BY <1>1 DEF IInv, ListInv, Listed, Contains
    <2>2. DOMAIN pending = 1 .. Len(pending)
      BY <1>1, LenProperties DEF IInv, TypeOK, RedisTypeOK
    <2>3. \A i, k \in DOMAIN pending : pending[i] = pending[k] => i = k
      BY <1>1, <2>2, ListedOnce DEF IInv
    <2> QED
      BY <2>1, <2>3 DEF ListedArePending
  <1> QED
    BY <1>1, SpecIInv, PTL

\* No job's rules run twice on Redis either, over any number of stops, crashes and
\* lost replies: LPOP takes it off the list before anything else is done with it.
THEOREM RedisRunAtMostOnce == Spec => []RunAtMostOnce
  <1>1. IInv => RunAtMostOnce
    BY DEF IInv
  <1> QED
    BY <1>1, SpecIInv, PTL

\* The worker never runs a job whose context and dry_run fields are gone: between
\* the pop and the outcome no cleanup can take them (cleanup_old_jobs runs in the
\* same thread), and every other write leaves them alone.
THEOREM RedisRunsAsSubmitted == Spec => []RunsAsSubmitted
  <1>1. IInv => RunsAsSubmitted
    BY DEF IInv, WorkerInv, RunsAsSubmitted
  <1> QED
    BY <1>1, SpecIInv, PTL

-----------------------------------------------------------------------------
(* Jobs lost between the list and the worker, counted.  A stop is counted   *)
(* when it begins, and pays for the job the worker may lose until the       *)
(* process is gone.                                                         *)

LostJobs == {j \in JobId : Status(j) = "pending" /\ ~Listed(j) /\ ~InHands(j)}

Slack == stops + raises - (IF server = "stopping" THEN 1 ELSE 0)

LostInv == IsFiniteSet(LostJobs) /\ Cardinality(LostJobs) <= Slack

LEMMA SlackIsInt == (TypeOK => Slack \in Int) /\ (TypeOK' => Slack' \in Int)
  BY DEF TypeOK, Slack

\* A step of a running process; a lost reply pays for one job.
LEMMA SlackPays ==
  ASSUME TypeOK, UNCHANGED <<server, stops>>, raises' = raises + 1
  PROVE  Slack + 1 <= Slack'
  BY DEF TypeOK, Slack

LEMMA SlackWhileUp ==
  ASSUME TypeOK, UNCHANGED <<server, stops>>, raises' = raises \/ raises' = raises + 1
  PROVE  Slack <= Slack'
  <1>1. CASE raises' = raises
    BY <1>1 DEF TypeOK, Slack
  <1>2. CASE raises' = raises + 1
    BY <1>2 DEF TypeOK, Slack
  <1> QED
    BY <1>1, <1>2

LEMMA InitLostInv == Init => LostInv
  <1> SUFFICES ASSUME Init PROVE LostInv
    OBVIOUS
  <1>1. LostJobs = {}
    BY DEF Init, RedisInit, NoHash, LostJobs, Status
  <1> QED
    BY <1>1, FS_EmptySet DEF Init, LostInv, Slack

\* A step that loses nothing, and one that loses a job and pays for it.
LEMMA NothingLost ==
  ASSUME LostInv, TypeOK, TypeOK', LostJobs' \subseteq LostJobs, Slack <= Slack'
  PROVE  LostInv'
  <1>1. IsFiniteSet(LostJobs') /\ Cardinality(LostJobs') <= Cardinality(LostJobs)
    BY FS_Subset DEF LostInv
  <1>2. Cardinality(LostJobs) \in Nat /\ Cardinality(LostJobs') \in Nat
    BY <1>1, FS_CardinalityType DEF LostInv
  <1>3. Cardinality(LostJobs') <= Slack'
    BY <1>1, <1>2, SlackIsInt DEF LostInv
  <1> QED
    BY <1>1, <1>3 DEF LostInv

LEMMA OneLost ==
  ASSUME LostInv, TypeOK, TypeOK', NEW j, LostJobs' \subseteq LostJobs \cup {j},
         Slack + 1 <= Slack'
  PROVE  LostInv'
  <1>1. /\ IsFiniteSet(LostJobs \cup {j})
        /\ Cardinality(LostJobs \cup {j}) = Cardinality(LostJobs)
             \/ Cardinality(LostJobs \cup {j}) = Cardinality(LostJobs) + 1
    BY FS_AddElement DEF LostInv
  <1>2. /\ IsFiniteSet(LostJobs')
        /\ Cardinality(LostJobs') <= Cardinality(LostJobs \cup {j})
    BY <1>1, FS_Subset
  <1>3. /\ Cardinality(LostJobs) \in Nat /\ Cardinality(LostJobs') \in Nat
        /\ Cardinality(LostJobs \cup {j}) \in Nat
    BY <1>1, <1>2, FS_CardinalityType DEF LostInv
  <1>4. Cardinality(LostJobs) <= Slack
    BY DEF LostInv
  <1>5. Cardinality(LostJobs') <= Slack'
    BY <1>1, <1>2, <1>3, <1>4, SlackIsInt
  <1> QED
    BY <1>2, <1>5 DEF LostInv

\* A command is about one job: the hash of every other job stays, and so does its
\* place in the list.
OnlyAbout(j) == \A k \in JobId \ {j} : hash'[k] = hash[k] /\ (Listed(k)' <=> Listed(k))

LEMMA CommandIsAboutOne ==
  ASSUME IInv, NEW j \in JobId,
         \/ EnqueuePipeline(j) \/ LPop(j) \/ DequeuePipeline(j) \/ CancelPipeline(j)
         \/ \E old, new : UpdatePipeline(j, old, new) \/ DeletePipeline(j, old)
  PROVE  OnlyAbout(j)
  <1>1. pending \in Seq(JobId) /\ hash \in [JobId -> Hash]
    BY DEF IInv, TypeOK, RedisTypeOK
  <1>2. \A k \in JobId \ {j} : hash'[k] = hash[k]
    BY <1>1 DEF EnqueuePipeline, LPop, DequeuePipeline, CancelPipeline, UpdatePipeline,
       DeletePipeline, SetStatus
  <1>3. ASSUME NEW k \in JobId \ {j}, Listed(k) PROVE Listed(k)'
    <2>1. PICK a \in 1 .. Len(pending) : pending[a] = k
      BY <1>3 DEF Listed, Contains
    <2>2. CASE pending' = Append(pending, j)
      <3>1. pending'[a] = k /\ a \in 1 .. Len(pending')
        BY <1>1, <2>1, <2>2, AppendProperties, LenProperties
      <3> QED
        BY <3>1 DEF Listed, Contains
    <2>3. CASE LPop(j)
      <3>1. pending # <<>> /\ pending' = Tail(pending) /\ pending[1] = j
        BY <1>1, <2>3, HeadTailProperties DEF LPop
      <3>2. Len(pending') = Len(pending) - 1 /\ \A b \in 1 .. Len(pending') : pending'[b] = pending[b + 1]
        BY <1>1, <3>1, HeadTailProperties
      <3>3. a - 1 \in 1 .. Len(pending') /\ (a - 1) + 1 = a
        BY <1>1, <1>3, <2>1, <3>1, <3>2, LenProperties
      <3>4. pending'[a - 1] = k
        BY <2>1, <3>2, <3>3
      <3> QED
        BY <3>3, <3>4 DEF Listed, Contains
    <2>4. CASE pending' = Only(pending, JobId \ {j})
      <3>1. PickedFrom(pending', pending, JobId \ {j}, Len(pending))
        BY <1>1, <2>4, OnlyProperties
      <3> QED
        BY <1>3, <2>1, <3>1 DEF PickedFrom, Listed, Contains
    <2>5. CASE pending' = pending
      BY <1>3, <2>5 DEF Listed
    <2> QED
      BY <2>2, <2>3, <2>4, <2>5 DEF EnqueuePipeline, LPop, DequeuePipeline, CancelPipeline,
         UpdatePipeline, DeletePipeline
  <1>4. ASSUME NEW k \in JobId \ {j}, Listed(k)' PROVE Listed(k)
    <2>1. PICK a \in 1 .. Len(pending') : pending'[a] = k
      BY <1>4 DEF Listed, Contains
    <2>2. CASE pending' = Append(pending, j)
      <3>1. a \in 1 .. Len(pending) /\ pending[a] = k
        BY <1>1, <2>1, <2>2, AppendProperties, LenProperties
      <3> QED
        BY <3>1 DEF Listed, Contains
    <2>3. CASE LPop(j)
      <3>1. Len(pending') = Len(pending) - 1 /\ \A b \in 1 .. Len(pending') : pending'[b] = pending[b + 1]
        BY <1>1, <2>3, HeadTailProperties DEF LPop
      <3>2. a + 1 \in 1 .. Len(pending) /\ pending[a + 1] = k
        BY <1>1, <2>1, <3>1, LenProperties
      <3> QED
        BY <3>2 DEF Listed, Contains
    <2>4. CASE pending' = Only(pending, JobId \ {j})
      <3>1. PickedFrom(pending', pending, JobId \ {j}, Len(pending))
        BY <1>1, <2>4, OnlyProperties
      <3> QED
        BY <2>1, <3>1 DEF PickedFrom, Listed, Contains
    <2>5. CASE pending' = pending
      BY <1>4, <2>5 DEF Listed
    <2> QED
      BY <2>2, <2>3, <2>4, <2>5 DEF EnqueuePipeline, LPop, DequeuePipeline, CancelPipeline,
         UpdatePipeline, DeletePipeline
  <1> QED
    BY <1>2, <1>3, <1>4 DEF OnlyAbout

\* The job of a command is lost only if it is left pending, neither listed nor in hand.
LEMMA OthersAreKept ==
  ASSUME IInv, NEW j \in JobId, OnlyAbout(j),
         worker.pc = "mark" => worker.job = j \/ worker' = worker
  PROVE  LostJobs' \subseteq LostJobs \cup {j}
  BY DEF OnlyAbout, LostJobs, Status, InHands

LEMMA NothingMoves ==
  ASSUME UNCHANGED redisVars, worker.pc # "mark" \/ worker' = worker
  PROVE  LostJobs' \subseteq LostJobs
  BY DEF LostJobs, Status, Listed, InHands, redisVars

\* The steps that leave a job neither pending nor, if pending, out of the list.
LEMMA SettledLostInv ==
  ASSUME IInv, TypeOK', LostInv, NEW j \in JobId,
         OnlyAbout(j), j \notin LostJobs',
         worker.pc = "mark" => worker.job = j \/ worker' = worker,
         UNCHANGED <<server, stops>>, raises' = raises \/ raises' = raises + 1
  PROVE  LostInv'
  <1>1. LostJobs' \subseteq LostJobs
    BY OthersAreKept
  <1> QED
    BY <1>1, SlackWhileUp, NothingLost DEF IInv

LEMMA ExecuteLost ==
  ASSUME IInv, TypeOK', LostInv, NEW j \in JobId, Execute(j)
  PROVE  LostInv'
  <1>1. OnlyAbout(j)
    BY CommandIsAboutOne DEF Execute
  <1>2. Listed(j)'
    <2>1. pending \in Seq(JobId) /\ pending' = Append(pending, j)
      BY DEF Execute, EnqueuePipeline, IInv, TypeOK, RedisTypeOK
    <2>2. Len(pending') \in 1 .. Len(pending') /\ pending'[Len(pending')] = j
      BY <2>1, AppendProperties, LenProperties
    <2> QED
      BY <2>2 DEF Listed, Contains
  <1>3. UNCHANGED <<server, worker, stops, raises>> /\ j \notin LostJobs'
    BY <1>2 DEF Execute, procVars, faults, LostJobs
  <1> QED
    BY <1>1, <1>3, SettledLostInv

LEMMA CancelLost ==
  ASSUME IInv, TypeOK', LostInv, NEW c \in Client,
         CancelRead(c) \/ CancelWrite(c) \/ \E j \in JobId : CancelCheck(c, j)
  PROVE  LostInv'
  <1>1. /\ UNCHANGED <<server, worker, stops>>
        /\ raises' = raises \/ raises' = raises + 1
    BY DEF CancelRead, CancelWrite, CancelCheck, Lost, Raise, faults
  <1>2. CASE UNCHANGED redisVars
    <2>1. LostJobs' \subseteq LostJobs
      BY <1>1, <1>2, NothingMoves
    <2> QED
      BY <1>1, <2>1, SlackWhileUp, NothingLost DEF IInv
  <1>3. ASSUME NEW j \in JobId, CancelPipeline(j) PROVE LostInv'
    <2>1. j \notin LostJobs'
      BY <1>3 DEF CancelPipeline, SetStatus, LostJobs, Status, IInv, TypeOK, RedisTypeOK
    <2> QED
      BY <1>1, <1>3, <2>1, CommandIsAboutOne, SettledLostInv
  <1>4. request[c].pc = "read" => request[c].job \in JobId
    BY DEF IInv, RequestInv
  <1> QED
    BY <1>2, <1>3, <1>4 DEF CancelRead, CancelWrite, CancelCheck, Lost

\* LPOP with a lost reply, and a MULTI that never ran: the job is nobody's.
LEMMA DequeueLost ==
  ASSUME IInv, TypeOK', LostInv, DequeuePop \/ DequeueMark
  PROVE  LostInv'
  <1>1. UNCHANGED <<server, stops>> /\ (raises' = raises \/ raises' = raises + 1)
    BY DEF DequeuePop, DequeueMark, Lost, Raise, faults
  <1>2. CASE UNCHANGED redisVars /\ worker.pc # "mark"
    <2>1. LostJobs' \subseteq LostJobs
      BY <1>2, NothingMoves
    <2> QED
      BY <1>1, <2>1, SlackWhileUp, NothingLost DEF IInv
  <1>3. ASSUME NEW j \in JobId, LPop(j), WorkerGoes("mark", j), worker.pc = "pop" PROVE LostInv'
    <2>1. j \notin LostJobs'
      BY <1>3 DEF WorkerGoes, At, LostJobs, InHands
    <2> QED
      BY <1>1, <1>3, <2>1, CommandIsAboutOne, SettledLostInv
  <1>4. ASSUME NEW j \in JobId, Raise, worker.pc = "mark" => worker.job = j,
               LPop(j) \/ DequeuePipeline(j) \/ UNCHANGED redisVars
        PROVE  LostInv'
    <2>1. OnlyAbout(j)
      <3>1. CASE UNCHANGED redisVars
        BY <3>1 DEF OnlyAbout, Listed, redisVars
      <3> QED
        BY <1>4, <3>1, CommandIsAboutOne
    <2>2. LostJobs' \subseteq LostJobs \cup {j}
      BY <1>4, <2>1, OthersAreKept
    <2>3. Slack + 1 <= Slack'
      BY <1>1, <1>4, SlackPays DEF Raise, IInv
    <2> QED
      BY <2>2, <2>3, OneLost DEF IInv
  <1>5. ASSUME DequeuePipeline(worker.job), worker.pc = "mark" PROVE LostInv'
    <2>1. PICK j \in JobId : j = worker.job
      BY <1>5 DEF IInv, WorkerInv, Holding
    <2>2. j \notin LostJobs'
      BY <1>5, <2>1 DEF DequeuePipeline, SetStatus, LostJobs, Status, IInv, TypeOK, RedisTypeOK
    <2> QED
      BY <1>1, <1>5, <2>1, <2>2, CommandIsAboutOne, SettledLostInv
  <1>6. worker.pc = "mark" => worker.job \in JobId
    BY DEF IInv, WorkerInv, Holding
  <1>7. CASE DequeuePop
    BY <1>2, <1>3, <1>4, <1>7 DEF DequeuePop, AtWorker, Lost
  <1>8. CASE DequeueMark
    BY <1>4, <1>5, <1>6, <1>8 DEF DequeueMark, AtWorker, Lost
  <1> QED
    BY <1>7, <1>8

LEMMA WorkerStepLost ==
  ASSUME IInv, TypeOK', LostInv, WorkerStep
  PROVE  LostInv'
  <1>1. CASE DequeuePop \/ DequeueMark
    BY <1>1, DequeueLost
  <1>2. CASE \/ LoopTest \/ MaybeCleanup \/ CleanupExamine \/ StartEngine \/ EngineEnds
             \/ MarkCompletedRead \/ MarkFailedRead \/ WaitEnds
    <2>1. worker.pc # "mark" /\ UNCHANGED <<redisVars, server, stops>>
      BY <1>2 DEF LoopTest, MaybeCleanup, CleanupExamine, StartEngine, EngineEnds, AtWorker, Raise,
         MarkCompletedRead, MarkFailedRead, UpdateRead, WaitEnds, faults
    <2>2. raises' = raises \/ raises' = raises + 1
      BY <1>2 DEF LoopTest, MaybeCleanup, CleanupExamine, StartEngine, EngineEnds, Raise,
         MarkCompletedRead, MarkFailedRead, UpdateRead, WaitEnds, faults
    <2>3. LostJobs' \subseteq LostJobs
      BY <2>1, NothingMoves
    <2> QED
      BY <2>1, <2>2, <2>3, SlackWhileUp, NothingLost DEF IInv
  <1>3. CASE CleanupDelete \/ MarkCompleted \/ MarkFailed
    <2>1. worker.pc # "mark" /\ UNCHANGED <<server, stops>>
          /\ (raises' = raises \/ raises' = raises + 1)
      BY <1>3 DEF CleanupDelete, MarkCompleted, MarkFailed, UpdateWrite, AtWorker, Lost, Raise, faults
    <2>2. PICK j \in JobId : j = worker.job
      BY <1>3 DEF CleanupDelete, MarkCompleted, MarkFailed, UpdateWrite, AtWorker, IInv, WorkerInv,
         Holding, Busy
    <2>3. \/ UNCHANGED redisVars
          \/ DeletePipeline(j, worker.old)
          \/ \E new \in {"completed", "failed"} : UpdatePipeline(j, worker.old, new)
      BY <1>3, <2>2 DEF CleanupDelete, MarkCompleted, MarkFailed, UpdateWrite, Lost
    <2>4. CASE UNCHANGED redisVars
      BY <2>1, <2>4, NothingMoves, SlackWhileUp, NothingLost DEF IInv
    <2>5. CASE \/ DeletePipeline(j, worker.old)
               \/ \E new \in {"completed", "failed"} : UpdatePipeline(j, worker.old, new)
      <3>1. hash'[j].status # "pending"
        <4>1. hash \in [JobId -> Hash]
          BY DEF IInv, TypeOK, RedisTypeOK
        <4>2. CASE DeletePipeline(j, worker.old)
          BY <4>1, <4>2 DEF DeletePipeline, NoHash
        <4>3. CASE \E new \in {"completed", "failed"} : UpdatePipeline(j, worker.old, new)
          BY <4>1, <4>3 DEF UpdatePipeline, SetStatus, Hash
        <4> QED
          BY <2>5, <4>2, <4>3
      <3>2. OnlyAbout(j)
        BY <2>5, CommandIsAboutOne
      <3> QED
        BY <2>1, <3>1, <3>2, SettledLostInv DEF LostJobs, Status
    <2> QED
      BY <2>3, <2>4, <2>5
  <1> QED
    BY <1>1, <1>2, <1>3 DEF WorkerStep

\* With no process there is no worker.
DownInv == server = "down" => worker.pc = "exited"

LEMMA NextDownInv == DownInv /\ [Next]_vars => DownInv'
  <1> SUFFICES ASSUME DownInv, [Next]_vars PROVE DownInv'
    OBVIOUS
  <1> USE DEF DownInv
  <1>1. ASSUME NEW j \in JobId, Execute(j) \/ \E c \in Client : CancelCheck(c, j) PROVE DownInv'
    BY <1>1 DEF Execute, CancelCheck, procVars
  <1>2. CASE CancelStep
    BY <1>2 DEF CancelStep, CancelRead, CancelWrite
  <1>3. CASE WorkerStep
    <2>1. server # "down" /\ server' = server
      BY <1>3 DEF WorkerStep, LoopTest, MaybeCleanup, CleanupExamine, CleanupDelete, DequeuePop,
         DequeueMark, StartEngine, EngineEnds, MarkCompletedRead, MarkCompleted, MarkFailedRead,
         MarkFailed, UpdateRead, UpdateWrite, WaitEnds, AtWorker, Running
    <2> QED
      BY <2>1
  <1>4. CASE Lifecycle
    BY <1>4 DEF Lifecycle, Start, BeginStop, Exit, Crash, ProcessEnds, WorkerGoes, At
  <1>5. CASE Tick \/ UNCHANGED vars
    BY <1>5 DEF Tick, vars, procVars
  <1> QED
    BY <1>1, <1>2, <1>3, <1>4, <1>5 DEF Next

\* A process that ends takes the job that was popped and not yet marked with it.
LEMMA LifecycleLost ==
  ASSUME IInv, DownInv, TypeOK', LostInv, Lifecycle \/ Tick \/ UNCHANGED vars
  PROVE  LostInv'
  <1>1. UNCHANGED redisVars
    BY DEF Lifecycle, Start, BeginStop, Exit, Crash, ProcessEnds, Tick, vars
  <1>2. CASE Exit \/ Crash
    <2>1. LostJobs' \subseteq LostJobs \cup {worker.job}
      BY <1>1 DEF LostJobs, Status, Listed, InHands, redisVars
    <2>2. Slack + 1 <= Slack'
      <3>1. stops \in Nat /\ raises \in Nat
        BY DEF IInv, TypeOK
      <3>2. CASE Exit
        BY <3>1, <3>2 DEF Exit, ProcessEnds, faults, Slack
      <3>3. CASE Crash
        BY <3>1, <3>3 DEF Crash, ProcessEnds, Stop, Slack
      <3> QED
        BY <1>2, <3>2, <3>3
    <2> QED
      BY <2>1, <2>2, OneLost DEF IInv
  <1>3. CASE Start
    <2>1. LostJobs' \subseteq LostJobs
      BY <1>1, <1>3, NothingMoves DEF DownInv, Start
    <2>2. Slack <= Slack'
      BY <1>3 DEF Start, faults, Slack, IInv, TypeOK
    <2> QED
      BY <2>1, <2>2, NothingLost DEF IInv
  <1>4. CASE BeginStop \/ Tick \/ UNCHANGED vars
    <2>1. LostJobs' \subseteq LostJobs
      BY <1>1, <1>4, NothingMoves DEF BeginStop, Tick, vars, procVars
    <2>2. Slack <= Slack'
      <3>1. CASE BeginStop
        BY <3>1 DEF BeginStop, Stop, Slack, IInv, TypeOK
      <3>2. CASE Tick \/ UNCHANGED vars
        <4>1. UNCHANGED <<server, stops, raises>>
          BY <3>2 DEF Tick, vars, procVars, faults
        <4> QED
          BY <4>1, SlackWhileUp DEF IInv
      <3> QED
        BY <1>4, <3>1, <3>2
    <2> QED
      BY <2>1, <2>2, NothingLost DEF IInv
  <1> QED
    BY <1>2, <1>3, <1>4 DEF Lifecycle

\* A pending job that neither the list nor the worker has any more costs a stop, a
\* crash or a lost reply, one each (dequeue pops before it marks, redis_queue.py).
THEOREM RedisLosesOnlyByFaults == Spec => []LostOnlyByFaults
  <1>1. ASSUME IInv, DownInv, TypeOK', LostInv, [Next]_vars PROVE LostInv'
    BY <1>1, ExecuteLost, CancelLost, WorkerStepLost, LifecycleLost DEF Next, CancelStep
  <1>2. ASSUME TypeOK, LostInv PROVE LostOnlyByFaults
    <2>1. Cardinality(LostJobs) \in Nat
      BY <1>2, FS_CardinalityType DEF LostInv
    <2>2. Slack <= stops + raises /\ Slack \in Int /\ stops + raises \in Int
      BY <1>2 DEF Slack, TypeOK
    <2>3. Cardinality(LostJobs) <= stops + raises
      BY <1>2, <2>1, <2>2 DEF LostInv
    <2> QED
      BY <2>3 DEF LostOnlyByFaults, LostJobs
  <1>3. IInv => TypeOK
    BY DEF IInv
  <1>4. Init => DownInv
    BY DEF Init, At, DownInv
  <1> QED
    BY <1>1, <1>2, <1>3, <1>4, NextDownInv, InitLostInv, SpecIInv, PTL DEF Spec

-----------------------------------------------------------------------------
(* Where no cancel request comes in: the indexes.  A cancel that passed its *)
(* check takes its job out of the pending set, whatever set it is in by now; *)
(* everyone else writes only over the status it read.                       *)

HandInv ==
    /\ worker.pc = "mark" => Status(worker.job) = "pending"
    /\ worker.pc = "delete" => Status(worker.job) \in Finished
    /\ worker.pc \in {"completing", "failing", "delete"} =>
         Exists(worker.job) /\ worker.old = Status(worker.job)

AloneInv == IndexesAreExact /\ HandInv

LEMMA InitAlone == Init => AloneInv
  BY DEF Init, RedisInit, NoHash, At, JobStatus, Finished, AloneInv, IndexesAreExact, HandInv,
     Status, Exists

\* SREM from the set the job is in, SADD to the one of its new status.
LEMMA UpdateIsExact ==
  ASSUME IInv, IndexesAreExact, NEW j \in JobId, Exists(j), NEW s \in JobStatus,
         NEW old, old = Status(j), UpdatePipeline(j, old, s)
  PROVE  IndexesAreExact'
  <1>1. /\ hash \in [JobId -> Hash]
        /\ hash'[j].status = s
        /\ \A k \in JobId \ {j} : hash'[k].status = hash[k].status
    BY DEF UpdatePipeline, SetStatus, IInv, TypeOK, RedisTypeOK, Hash
  <1>2. s # "none"
    BY DEF JobStatus, Finished
  <1>3. \A k \in JobId : ~Exists(k)' => byTime'[k] = 0
    BY <1>1, <1>2 DEF UpdatePipeline, IndexesAreExact, Exists
  <1>4. ASSUME NEW t \in JobStatus PROVE index'[t] = {k \in JobId : hash'[k].status = t}
    <2>1. index[t] = {k \in JobId : hash[k].status = t}
      BY DEF IndexesAreExact, Status
    <2>2. CASE old # s
      <3>1. index'[t] = (IF t = hash[j].status THEN index[t] \ {j} ELSE index[t])
                          \cup (IF t = s THEN {j} ELSE {})
        BY <2>2 DEF UpdatePipeline, Reindex, Status
      <3> QED
        BY <1>1, <2>1, <3>1
    <2>3. CASE old = s
      BY <1>1, <2>1, <2>3 DEF UpdatePipeline, Status
    <2> QED
      BY <2>2, <2>3
  <1> QED
    BY <1>3, <1>4 DEF IndexesAreExact, Status

LEMMA SameIndexes ==
  ASSUME IndexesAreExact, UNCHANGED <<hash, index, byTime>>
  PROVE  IndexesAreExact'
  BY DEF IndexesAreExact, Status, Exists

LEMMA ExecuteAlone ==
  ASSUME IInv, AloneInv, NEW j \in JobId, Execute(j)
  PROVE  AloneInv'
  <1>1. hash[j] = NoHash /\ ~IsIssued(j)
    BY DEF Execute, IsIssued, IInv, IssuedInv
  <1>2. /\ hash'[j].status = "pending"
        /\ \A k \in JobId \ {j} : hash'[k] = hash[k] /\ byTime'[k] = byTime[k]
    BY DEF Execute, EnqueuePipeline, IInv, TypeOK, RedisTypeOK
  <1>3. \A k \in JobId : ~Exists(k)' => byTime'[k] = 0
    BY <1>2 DEF AloneInv, IndexesAreExact, Exists
  <1>4. ASSUME NEW s \in JobStatus PROVE index'[s] = {k \in JobId : hash'[k].status = s}
    <2>1. index[s] = {k \in JobId : hash[k].status = s} /\ j \notin index[s]
      BY <1>1 DEF AloneInv, IndexesAreExact, Status, NoHash, JobStatus, Finished
    <2>2. index'[s] = IF s = "pending" THEN index[s] \cup {j} ELSE index[s]
      BY DEF Execute, EnqueuePipeline, IInv, TypeOK, RedisTypeOK
    <2> QED
      BY <1>2, <2>1, <2>2
  <1>5. HandInv'
    <2>1. worker.pc \in Holding => worker.job \in JobId \ {j}
      BY <1>1 DEF IInv, WorkerInv
    <2>2. worker' = worker
      BY DEF Execute, procVars
    <2> QED
      BY <1>2, <2>1, <2>2 DEF AloneInv, HandInv, Status, Exists, Holding, Busy
  <1> QED
    BY <1>3, <1>4, <1>5 DEF AloneInv, IndexesAreExact, Status

\* The worker's hands hold nothing HandInv is about.
LEMMA EmptyHands ==
  ASSUME worker'.pc \notin {"mark", "delete", "completing", "failing"}
  PROVE  HandInv'
  BY DEF HandInv

LEMMA QuietAlone ==
  ASSUME IInv, AloneInv,
         \/ LoopTest \/ MaybeCleanup \/ StartEngine \/ EngineEnds \/ WaitEnds
         \/ Start \/ Exit \/ Crash
  PROVE  AloneInv'
  <1>1. UNCHANGED redisVars
    BY DEF LoopTest, MaybeCleanup, StartEngine, EngineEnds, WaitEnds, Start, Exit, Crash, ProcessEnds
  <1>2. worker'.pc \in {"loop", "cleanup", "examine", "pop", "exited", "engine", "complete", "fail"}
    BY DEF LoopTest, MaybeCleanup, StartEngine, EngineEnds, WaitEnds, Start, Exit, Crash, ProcessEnds,
       WorkerGoes, At
  <1> QED
    BY <1>1, <1>2, EmptyHands, SameIndexes DEF AloneInv, redisVars

LEMMA IdleAlone ==
  ASSUME AloneInv, UNCHANGED <<redisVars, worker>>
  PROVE  AloneInv'
  <1>1. HandInv'
    BY DEF AloneInv, HandInv, Status, Exists, redisVars
  <1> QED
    BY <1>1, SameIndexes DEF AloneInv, redisVars

LEMMA CleanupAlone ==
  ASSUME IInv, AloneInv, CleanupExamine \/ CleanupDelete
  PROVE  AloneInv'
  <1>1. CASE CleanupExamine
    <2>1. UNCHANGED redisVars
      BY <1>1 DEF CleanupExamine
    <2>2. worker \in Worker /\ worker.pc = "examine"
      BY <1>1 DEF CleanupExamine, AtWorker, IInv, TypeOK
    <2>3. ASSUME WorkerGoes("pop", NoJob) PROVE HandInv'
      BY <2>3, EmptyHands DEF WorkerGoes, At
    <2>4. ASSUME NEW j \in worker.todo, Status(j) \in Finished,
                 worker' = [worker EXCEPT !.pc = "delete", !.job = j, !.old = Status(j),
                                          !.todo = @ \ {j}]
          PROVE  HandInv'
      <3>1. worker'.pc = "delete" /\ worker'.job = j /\ worker'.old = Status(j)
        BY <2>2, <2>4 DEF Worker
      <3>2. Status(j) # "none" /\ hash' = hash
        BY <2>1, <2>4 DEF Finished, redisVars
      <3> QED
        BY <2>4, <3>1, <3>2 DEF HandInv, Status, Exists
    <2>5. ASSUME NEW j \in worker.todo, worker' = [worker EXCEPT !.todo = @ \ {j}]
          PROVE  HandInv'
      BY <2>2, <2>5, EmptyHands DEF Worker
    <2>6. HandInv'
      BY <1>1, <2>3, <2>4, <2>5 DEF CleanupExamine
    <2> QED
      BY <2>1, <2>6, SameIndexes DEF AloneInv, redisVars
  <1>2. CASE CleanupDelete
    <2>1. PICK j \in JobId : j = worker.job
      BY <1>2 DEF CleanupDelete, AtWorker, IInv, WorkerInv, Holding
    <2>2. HandInv'
      BY <1>2, EmptyHands DEF CleanupDelete, WorkerGoes, At
    <2>3. CASE UNCHANGED redisVars
      BY <2>2, <2>3, SameIndexes DEF AloneInv, redisVars
    <2>4. CASE DeletePipeline(j, worker.old)
      <3>1. worker.old = hash[j].status /\ worker.old \in JobStatus
        BY <1>2, <2>1 DEF CleanupDelete, AtWorker, AloneInv, HandInv, Status, JobStatus
      <3>2. /\ hash'[j].status = "none" /\ byTime'[j] = 0
            /\ \A k \in JobId \ {j} : hash'[k] = hash[k] /\ byTime'[k] = byTime[k]
        BY <2>4 DEF DeletePipeline, NoHash, IInv, TypeOK, RedisTypeOK
      <3>3. ASSUME NEW s \in JobStatus PROVE index'[s] = {k \in JobId : hash'[k].status = s}
        <4>1. index[s] = {k \in JobId : hash[k].status = s}
          BY DEF AloneInv, IndexesAreExact, Status
        <4>2. index'[s] = IF s = worker.old THEN index[s] \ {j} ELSE index[s]
          BY <2>4 DEF DeletePipeline, IInv, TypeOK, RedisTypeOK
        <4>3. s # "none"
          BY DEF JobStatus, Finished
        <4> QED
          BY <3>1, <3>2, <4>1, <4>2, <4>3
      <3>4. \A k \in JobId : ~Exists(k)' => byTime'[k] = 0
        BY <3>2 DEF AloneInv, IndexesAreExact, Exists
      <3> QED
        BY <2>2, <3>3, <3>4 DEF AloneInv, IndexesAreExact, Status
    <2> QED
      BY <1>2, <2>1, <2>2, <2>3, <2>4 DEF CleanupDelete, Lost
  <1> QED
    BY <1>1, <1>2

LEMMA DequeueAlone ==
  ASSUME IInv, AloneInv, DequeuePop \/ DequeueMark
  PROVE  AloneInv'
  <1>1. CASE DequeuePop
    <2>1. UNCHANGED <<hash, index, byTime>>
      BY <1>1 DEF DequeuePop, Lost, LPop, redisVars
    <2>2. ASSUME WorkerGoes("wait", NoJob) PROVE HandInv'
      BY <2>2, EmptyHands DEF WorkerGoes, At
    <2>3. ASSUME NEW j \in JobId, LPop(j), WorkerGoes("mark", j) PROVE HandInv'
      <3>1. j = pending[1] /\ 1 \in 1 .. Len(pending)
        BY <2>3, HeadTailProperties, LenProperties, EmptySeq DEF LPop, IInv, TypeOK, RedisTypeOK
      <3>2. hash[j].status = "pending"
        BY <3>1 DEF IInv, ListInv
      <3>3. worker'.pc = "mark" /\ worker'.job = j
        BY <2>3 DEF WorkerGoes, At
      <3> QED
        BY <2>1, <3>2, <3>3 DEF HandInv, Status
    <2>4. HandInv'
      BY <1>1, <2>2, <2>3 DEF DequeuePop
    <2> QED
      BY <2>1, <2>4, SameIndexes DEF AloneInv
  <1>2. CASE DequeueMark
    <2>1. PICK j \in JobId : j = worker.job
      BY <1>2 DEF DequeueMark, AtWorker, IInv, WorkerInv, Holding
    <2>2. Status(j) = "pending"
      BY <1>2, <2>1 DEF DequeueMark, AtWorker, AloneInv, HandInv
    <2>3. HandInv'
      BY <1>2, EmptyHands DEF DequeueMark, WorkerGoes, At
    <2>4. CASE UNCHANGED redisVars
      BY <2>3, <2>4, SameIndexes DEF AloneInv, redisVars
    <2>5. CASE DequeuePipeline(j)
      <3>1. UpdatePipeline(j, "pending", "processing")
        BY <2>5 DEF DequeuePipeline, UpdatePipeline
      <3>2. Exists(j) /\ "processing" \in JobStatus
        BY <2>2 DEF Exists, Status, JobStatus
      <3> QED
        BY <2>2, <2>3, <3>1, <3>2, UpdateIsExact DEF AloneInv
    <2> QED
      BY <1>2, <2>1, <2>4, <2>5 DEF DequeueMark, Lost
  <1> QED
    BY <1>1, <1>2

LEMMA UpdateAlone ==
  ASSUME IInv, AloneInv, MarkCompletedRead \/ MarkFailedRead \/ MarkCompleted \/ MarkFailed
  PROVE  AloneInv'
  <1>1. PICK j \in JobId : j = worker.job
    BY DEF MarkCompletedRead, MarkFailedRead, MarkCompleted, MarkFailed, UpdateRead, UpdateWrite,
       AtWorker, IInv, WorkerInv, Holding, Busy
  <1>2. CASE MarkCompletedRead \/ MarkFailedRead
    <2>1. UNCHANGED redisVars
      BY <1>2 DEF MarkCompletedRead, MarkFailedRead, UpdateRead
    <2>2. ASSUME \/ WorkerGoes("loop", NoJob)
                 \/ worker' = At("fail", j) \/ worker' = At("wait", NoJob)
          PROVE  HandInv'
      BY <2>2, EmptyHands DEF WorkerGoes, At
    <2>3. ASSUME NEW write \in {"completing", "failing"}, Exists(j),
                 worker' = [worker EXCEPT !.pc = write, !.old = Status(j)]
          PROVE  HandInv'
      <3>1. worker'.pc = write /\ worker'.job = j /\ worker'.old = Status(j)
        BY <1>1, <2>3 DEF IInv, TypeOK, Worker
      <3> QED
        BY <2>1, <2>3, <3>1 DEF HandInv, Status, Exists, redisVars
    <2>4. HandInv'
      BY <1>1, <1>2, <2>2, <2>3 DEF MarkCompletedRead, MarkFailedRead, UpdateRead
    <2> QED
      BY <2>1, <2>4, SameIndexes DEF AloneInv, redisVars
  <1>3. ASSUME NEW s \in {"completed", "failed"}, MarkCompleted \/ MarkFailed,
               UpdatePipeline(j, worker.old, s) \/ UNCHANGED redisVars
        PROVE  AloneInv'
    <2>1. Exists(j) /\ worker.old = Status(j)
      BY <1>1, <1>3 DEF MarkCompleted, MarkFailed, UpdateWrite, AtWorker, AloneInv, HandInv
    <2>2. HandInv'
      BY <1>3, EmptyHands DEF MarkCompleted, MarkFailed, UpdateWrite, WorkerGoes, At
    <2>3. CASE UNCHANGED redisVars
      BY <2>2, <2>3, SameIndexes DEF AloneInv, redisVars
    <2>4. CASE UpdatePipeline(j, worker.old, s)
      <3>1. s \in JobStatus
        BY DEF JobStatus, Finished
      <3> QED
        BY <2>1, <2>2, <2>4, <3>1, UpdateIsExact DEF AloneInv
    <2> QED
      BY <1>3, <2>3, <2>4
  <1> QED
    BY <1>1, <1>2, <1>3 DEF MarkCompleted, MarkFailed, UpdateWrite, Lost

LEMMA NextAlone ==
  ASSUME Client = {}, IInv, AloneInv, [Next]_vars
  PROVE  AloneInv'
  <1>1. CASE BeginStop \/ Tick \/ UNCHANGED vars
    <2>1. UNCHANGED <<redisVars, worker>>
      BY <1>1 DEF BeginStop, Tick, vars, procVars
    <2> QED
      BY <2>1, IdleAlone
  <1>2. CASE WorkerStep
    BY <1>2, QuietAlone, CleanupAlone, DequeueAlone, UpdateAlone DEF WorkerStep
  <1> QED
    BY <1>1, <1>2, ExecuteAlone, QuietAlone DEF Next, CancelStep, Lifecycle

LEMMA SpecAlone == ASSUME Client = {} PROVE Spec => []AloneInv
  BY InitAlone, NextAlone, SpecIInv, PTL DEF Spec

\* Where no cancel request races the worker, count_jobs counts exactly the jobs of a
\* status, and a cleaned-up job leaves nothing behind in jobs:by_time, over any
\* number of stops, crashes and lost replies: no set is written but with the status
\* that was read, and nobody writes in between.
THEOREM RedisIndexesAreExact == ASSUME Client = {} PROVE Spec => []IndexesAreExact
  <1>1. AloneInv => IndexesAreExact
    BY DEF AloneInv
  <1> QED
    BY <1>1, SpecAlone, PTL

-----------------------------------------------------------------------------
(* Refinement, where no cancel request comes in and no reply is lost.  A    *)
(* lost reply alone breaks it: an update to completed that took effect and   *)
(* was not acknowledged is followed by an update to failed.                  *)

\* The run is the worker's own.
RunInv == worker.pc \in Busy => Status(worker.job) = "processing"

LEMMA InitRun == Init => RunInv
  BY DEF Init, At, Busy, RunInv

LEMMA NoRaise == ASSUME MaxRaises = 0, TypeOK PROVE ~Raise
  BY DEF TypeOK, Raise

LEMMA NextRun ==
  ASSUME Client = {}, MaxRaises = 0, IInv, RunInv, [Next]_vars
  PROVE  RunInv'
  <1>1. ~Raise
    BY NoRaise DEF IInv
  <1>2. ASSUME NEW j \in JobId, Execute(j) PROVE RunInv'
    <2>1. worker.pc \in Busy => worker.job \in JobId \ {j}
      BY <1>2 DEF Execute, IInv, WorkerInv, Holding, IsIssued
    <2>2. worker' = worker /\ \A k \in JobId \ {j} : hash'[k] = hash[k]
      BY <1>2 DEF Execute, procVars, EnqueuePipeline, IInv, TypeOK, RedisTypeOK
    <2> QED
      BY <2>1, <2>2 DEF RunInv, Status
  <1>3. CASE DequeueMark
    <2>1. PICK j \in JobId : j = worker.job
      BY <1>3 DEF DequeueMark, AtWorker, IInv, WorkerInv, Holding
    <2>2. DequeuePipeline(j) /\ worker' = At("begin", j)
      BY <1>1, <1>3, <2>1 DEF DequeueMark, Lost, WorkerGoes
    <2>3. hash'[j].status = "processing" /\ worker'.job = j
      BY <2>2 DEF DequeuePipeline, SetStatus, At, IInv, TypeOK, RedisTypeOK, Hash
    <2> QED
      BY <2>3 DEF RunInv, Status
  <1>4. CASE StartEngine \/ EngineEnds \/ MarkCompletedRead \/ MarkFailedRead
    <2>1. worker.pc \in Busy /\ hash' = hash
      BY <1>4 DEF StartEngine, EngineEnds, MarkCompletedRead, MarkFailedRead, UpdateRead, AtWorker,
         Busy, redisVars
    <2>2. worker'.pc \notin Busy \/ worker'.job = worker.job
      <3>1. worker \in Worker
        BY DEF IInv, TypeOK
      <3>2. CASE StartEngine \/ EngineEnds
        BY <3>2 DEF StartEngine, EngineEnds, WorkerGoes, At
      <3>3. ASSUME NEW write \in {"completing", "failing"},
                   worker' = [worker EXCEPT !.pc = write, !.old = Status(worker.job)]
            PROVE  worker'.job = worker.job
        BY <3>1, <3>3 DEF Worker
      <3>4. ASSUME WorkerGoes("loop", NoJob) PROVE worker'.pc \notin Busy
        BY <3>4 DEF WorkerGoes, At, Busy
      <3> QED
        BY <1>1, <1>4, <3>2, <3>3, <3>4 DEF MarkCompletedRead, MarkFailedRead, UpdateRead
    <2> QED
      BY <2>1, <2>2 DEF RunInv, Status
  <1>5. CASE \/ LoopTest \/ MaybeCleanup \/ CleanupDelete \/ DequeuePop \/ WaitEnds
             \/ MarkCompleted \/ MarkFailed \/ Start \/ Exit \/ Crash
    <2>1. worker'.pc \in {"loop", "cleanup", "examine", "pop", "mark", "wait", "exited"}
      BY <1>1, <1>5 DEF LoopTest, MaybeCleanup, CleanupDelete, DequeuePop, WaitEnds, Lost,
         MarkCompleted, MarkFailed, UpdateWrite, Start, Exit, Crash, ProcessEnds, WorkerGoes, At
    <2> QED
      BY <2>1 DEF RunInv, Busy
  <1>6. CASE CleanupExamine
    <2>1. worker \in Worker /\ worker.pc = "examine"
      BY <1>6 DEF CleanupExamine, AtWorker, IInv, TypeOK
    <2>2. ASSUME WorkerGoes("pop", NoJob) PROVE worker'.pc = "pop"
      BY <2>2 DEF WorkerGoes, At
    <2>3. ASSUME NEW j \in worker.todo,
                 \/ worker' = [worker EXCEPT !.pc = "delete", !.job = j, !.old = Status(j),
                                             !.todo = @ \ {j}]
                 \/ worker' = [worker EXCEPT !.todo = @ \ {j}]
          PROVE  worker'.pc \in {"delete", "examine"}
      BY <2>1, <2>3 DEF Worker
    <2>4. worker'.pc \in {"pop", "delete", "examine"}
      BY <1>6, <2>2, <2>3 DEF CleanupExamine
    <2> QED
      BY <2>4 DEF RunInv, Busy
  <1>7. CASE BeginStop \/ Tick \/ UNCHANGED vars
    BY <1>7 DEF BeginStop, Tick, vars, procVars, redisVars, RunInv, Status
  <1> QED
    BY <1>2, <1>3, <1>4, <1>5, <1>6, <1>7 DEF Next, CancelStep, WorkerStep, Lifecycle

\* The place of an id in a sequence without repetition.
LEMMA PlaceIn ==
  ASSUME NEW s, DOMAIN s = 1 .. Len(s),
         \A i, k \in 1 .. Len(s) : s[i] = s[k] => i = k,
         NEW c \in 1 .. Len(s)
  PROVE  (CHOOSE i \in DOMAIN s : s[i] = s[c]) = c
  OBVIOUS

LEMMA PlaceIs ==
  ASSUME IInv, NEW c \in 1 .. Len(issued)
  PROVE  Place(issued[c]) = c
  <1>1. DOMAIN issued = 1 .. Len(issued)
    BY LenProperties DEF IInv, TypeOK
  <1> QED
    BY <1>1, PlaceIn DEF Place, IInv, IssuedInv

LEMMA InitRefines == Init => JQ!Init
  BY EmptySeq DEF Init, RedisInit, JQ!Init, AbstractStatus, Listed, Contains

\* The abstract state of a job depends on its hash and on the two lists it may be in.
LEMMA SameAbstract ==
  ASSUME NEW k \in JobId, hash'[k] = hash[k], Listed(k)' <=> Listed(k), IsIssued(k)' <=> IsIssued(k)
  PROVE  AbstractStatus(k)' = AbstractStatus(k)
  BY DEF AbstractStatus, Exists, Status, IsIssued

LEMMA ExecuteRefines ==
  ASSUME IInv, IInv', NEW j \in JobId, Execute(j)
  PROVE  JQ!Enqueue(j)
  <1>1. issued \in Seq(JobId) /\ pending \in Seq(JobId) /\ ~IsIssued(j)
        /\ issued' = Append(issued, j) /\ pending' = Append(pending, j)
    BY DEF Execute, EnqueuePipeline, IInv, TypeOK, RedisTypeOK, IsIssued
  <1>2. /\ Len(issued) \in Nat /\ Len(issued') = Len(issued) + 1
        /\ issued'[Len(issued) + 1] = j
        /\ \A i \in 1 .. Len(issued) : issued'[i] = issued[i]
        /\ Len(issued) + 1 \in 1 .. Len(issued') /\ 1 .. Len(issued) \subseteq 1 .. Len(issued')
        /\ \A i \in 1 .. Len(issued') : i \in 1 .. Len(issued) \/ i = Len(issued) + 1
    BY <1>1, AppendProperties, LenProperties
  <1>3. \A k : IsIssued(k)' <=> IsIssued(k) \/ k = j
    BY <1>2 DEF IsIssued, Contains
  <1>4. OnlyAbout(j) /\ Listed(j)' /\ ~Listed(j)
    <2>1. Len(pending') \in 1 .. Len(pending') /\ pending'[Len(pending')] = j
      BY <1>1, AppendProperties, LenProperties
    <2> QED
      BY <1>1, <2>1, CommandIsAboutOne DEF Execute, Listed, Contains, IInv, ListInv
  <1>5. hash'[j].status = "pending"
    BY DEF Execute, EnqueuePipeline, IInv, TypeOK, RedisTypeOK
  <1>6. \A k \in JobId : AbstractStatus(k)' = IF k = j THEN "pending" ELSE AbstractStatus(k)
    <2>1. AbstractStatus(j)' = "pending"
      BY <1>3, <1>4, <1>5 DEF AbstractStatus, IsIssued, Exists, Status
    <2>2. ASSUME NEW k \in JobId \ {j} PROVE AbstractStatus(k)' = AbstractStatus(k)
      BY <1>3, <1>4, SameAbstract DEF OnlyAbout
    <2> QED
      BY <2>1, <2>2
  <1>7. AbstractStatus(j) = "new"
    BY <1>1 DEF AbstractStatus, IsIssued
  <1>8. DOMAIN issued' = 1 .. Len(issued')
        /\ \A i, k \in 1 .. Len(issued') : issued'[i] = issued'[k] => i = k
    BY LenProperties DEF IInv, TypeOK, IssuedInv
  <1>9. Place(j)' = Len(issued) + 1
    BY <1>2, <1>8, PlaceIn DEF Place
  <1>10. ASSUME NEW k \in JobId, Listed(k) PROVE Place(k)' = Place(k)
    <2>1. IsIssued(k)
      BY <1>10 DEF Listed, Contains, IInv, ListInv
    <2>2. PICK c \in 1 .. Len(issued) : issued[c] = k
      BY <2>1 DEF IsIssued, Contains
    <2>3. Place(k) = c
      BY <2>2, PlaceIs
    <2>4. c \in 1 .. Len(issued') /\ issued'[c] = k
      BY <1>2, <2>2
    <2>5. Place(k)' = c
      BY <1>8, <2>4, PlaceIn DEF Place
    <2> QED
      BY <2>3, <2>5
  <1>11. \A k \in JobId : (IF Listed(k) THEN Place(k) ELSE 0)'
                            = IF k = j THEN Len(issued) + 1 ELSE IF Listed(k) THEN Place(k) ELSE 0
    BY <1>4, <1>9, <1>10 DEF OnlyAbout
  <1> QED
    BY <1>2, <1>6, <1>7, <1>11 DEF JQ!Enqueue

\* A job at the head of the list is first in line.
LEMMA PopRefines ==
  ASSUME IInv, NEW j \in JobId, LPop(j), UNCHANGED <<issued, runs>>
  PROVE  JQ!Dequeue(j)
  <1>1. OnlyAbout(j) /\ ~Listed(j)'
    BY CommandIsAboutOne, PopStores
  <1>2. 1 \in 1 .. Len(pending) /\ Len(pending) \in Nat /\ pending[1] = j
    BY HeadTailProperties, LenProperties, EmptySeq DEF LPop, IInv, TypeOK, RedisTypeOK
  <1>3. IsIssued(j) /\ hash[j].status = "pending" /\ Listed(j)
    BY <1>2 DEF IInv, ListInv, Listed, Contains
  <1>4. \A k \in JobId : IsIssued(k)' <=> IsIssued(k)
    BY DEF IsIssued
  <1>5. AbstractStatus(j) = "pending" /\ AbstractStatus(j)' = "processing"
    BY <1>1, <1>3, <1>4 DEF AbstractStatus, IsIssued, Exists, Status, LPop
  <1>6. \A k \in JobId : AbstractStatus(k)' = IF k = j THEN "processing" ELSE AbstractStatus(k)
    BY <1>1, <1>4, <1>5, SameAbstract DEF OnlyAbout
  <1>7. \A k \in JobId : (IF Listed(k) THEN Place(k) ELSE 0)'
                           = IF k = j THEN 0 ELSE IF Listed(k) THEN Place(k) ELSE 0
    BY <1>1 DEF OnlyAbout, Place
  <1>8. ASSUME NEW k \in JobId, AbstractStatus(k) = "pending"
        PROVE  Listed(k) /\ Place(j) <= Place(k)
    <2>1. Listed(k)
      BY <1>8 DEF AbstractStatus
    <2>2. PICK b \in 1 .. Len(pending) : pending[b] = k
      BY <2>1 DEF Listed, Contains
    <2>3. CASE b = 1
      <3>1. PICK c \in 1 .. Len(issued) : issued[c] = j
        BY <1>3 DEF IsIssued, Contains
      <3>2. Place(j) = c /\ c \in Int
        BY <3>1, PlaceIs
      <3> QED
        BY <1>2, <2>1, <2>2, <2>3, <3>2
    <2>4. CASE b # 1
      <3>1. 1 < b
        BY <1>2, <2>4
      <3>2. PICK c \in 1 .. Len(issued), d \in 1 .. Len(issued) : c < d /\ j = issued[c] /\ k = issued[d]
        BY <1>2, <2>2, <3>1 DEF IInv, ListInv
      <3>3. Place(j) = c /\ Place(k) = d
        BY <3>2, PlaceIs
      <3> QED
        BY <2>1, <3>2, <3>3
    <2> QED
      BY <2>3, <2>4
  <1>9. JQ!FirstInLine(j)
    BY <1>3, <1>5, <1>8 DEF JQ!FirstInLine
  <1> QED
    BY <1>6, <1>7, <1>9 DEF JQ!Dequeue

\* A command that leaves the two lists alone leaves the line of jobs alone.
LEMMA LineStays ==
  ASSUME UNCHANGED <<pending, issued>>
  PROVE  /\ \A k \in JobId : (IF Listed(k) THEN Place(k) ELSE 0)' = IF Listed(k) THEN Place(k) ELSE 0
         /\ \A k \in JobId : (Listed(k)' <=> Listed(k)) /\ (IsIssued(k)' <=> IsIssued(k))
  BY DEF Listed, Place, IsIssued

\* One status moves.
LEMMA OneStatusMoves ==
  ASSUME IInv, NEW j \in JobId, NEW s, UNCHANGED <<pending, issued>>,
         \A k \in JobId \ {j} : hash'[k] = hash[k], AbstractStatus(j)' = s
  PROVE  \A k \in JobId : AbstractStatus(k)' = IF k = j THEN s ELSE AbstractStatus(k)
  BY LineStays, SameAbstract

LEMMA FinishRefines ==
  ASSUME IInv, NEW j \in JobId, IsIssued(j), Status(j) = "processing", issued' = issued,
         NEW old, NEW s \in {"completed", "failed"}, UpdatePipeline(j, old, s)
  PROVE  JQ!Finish(j)
  <1>1. /\ hash'[j].status = s /\ UNCHANGED <<pending, issued>>
        /\ \A k \in JobId \ {j} : hash'[k] = hash[k]
    BY DEF UpdatePipeline, SetStatus, IInv, TypeOK, RedisTypeOK, Hash
  <1>2. AbstractStatus(j) = "processing"
    BY DEF AbstractStatus, IsIssued, Exists, Status
  <1>3. AbstractStatus(j)' = s
    BY <1>1 DEF AbstractStatus, IsIssued, Exists, Status
  <1>4. \A k \in JobId : AbstractStatus(k)' = IF k = j THEN s ELSE AbstractStatus(k)
    BY <1>1, <1>3, OneStatusMoves
  <1> QED
    BY <1>1, <1>2, <1>4, LineStays DEF JQ!Finish

LEMMA DeleteRefines ==
  ASSUME IInv, NEW j \in JobId, IsIssued(j), Status(j) \in Finished, issued' = issued,
         NEW old, DeletePipeline(j, old)
  PROVE  JQ!Cleanup({j})
  <1>1. /\ hash'[j].status = "none" /\ UNCHANGED <<pending, issued>>
        /\ \A k \in JobId \ {j} : hash'[k] = hash[k]
    BY DEF DeletePipeline, NoHash, IInv, TypeOK, RedisTypeOK
  <1>2. AbstractStatus(j) \in JQ!Finished
    BY DEF AbstractStatus, IsIssued, Exists, Status, Finished, JQ!Finished
  <1>3. AbstractStatus(j)' = "removed"
    BY <1>1 DEF AbstractStatus, IsIssued, Exists
  <1>4. \A k \in JobId : AbstractStatus(k)' = IF k = j THEN "removed" ELSE AbstractStatus(k)
    BY <1>1, <1>3, OneStatusMoves
  <1> QED
    BY <1>1, <1>2, <1>4, LineStays DEF JQ!Cleanup

\* To the callers a popped job is processing already.
LEMMA MarkRefines ==
  ASSUME IInv, NEW j \in JobId, IsIssued(j), ~Listed(j), Status(j) = "pending", issued' = issued,
         DequeuePipeline(j)
  PROVE  UNCHANGED JQ!vars
  <1>1. /\ hash'[j].status = "processing" /\ UNCHANGED <<pending, issued>>
        /\ \A k \in JobId \ {j} : hash'[k] = hash[k]
    BY DEF DequeuePipeline, SetStatus, IInv, TypeOK, RedisTypeOK, Hash
  <1>2. AbstractStatus(j) = "processing"
    BY DEF AbstractStatus, IsIssued, Exists, Status
  <1>3. AbstractStatus(j)' = "processing"
    BY <1>1 DEF AbstractStatus, IsIssued, Exists, Status
  <1>4. \A k \in JobId : AbstractStatus(k)' = AbstractStatus(k)
    BY <1>1, <1>2, <1>3, OneStatusMoves
  <1> QED
    BY <1>1, <1>4, LineStays DEF JQ!vars

LEMMA InvisibleRefines ==
  ASSUME UNCHANGED <<redisVars, issued>>
  PROVE  UNCHANGED JQ!vars
  BY DEF redisVars, JQ!vars, AbstractStatus, Exists, Status, Listed, Place

LEMMA WorkerStepRefines ==
  ASSUME IInv, AloneInv, RunInv, ~Raise, WorkerStep
  PROVE  [JQ!Next]_(JQ!vars)
  <1>1. issued' = issued
    BY DEF WorkerStep, LoopTest, MaybeCleanup, CleanupExamine, CleanupDelete, DequeuePop, DequeueMark,
       StartEngine, EngineEnds, MarkCompletedRead, MarkCompleted, MarkFailedRead, MarkFailed,
       UpdateRead, UpdateWrite, WaitEnds, history
  <1>2. CASE UNCHANGED redisVars
    BY <1>1, <1>2, InvisibleRefines
  <1>3. CASE DequeuePop
    <2>1. UNCHANGED redisVars \/ \E j \in JobId : LPop(j)
      BY <1>3 DEF DequeuePop, Lost
    <2>2. ASSUME NEW j \in JobId, LPop(j) PROVE JQ!Next
      BY <1>1, <1>3, <2>2, PopRefines DEF JQ!Next, DequeuePop, history
    <2> QED
      BY <1>2, <2>1, <2>2
  <1>4. CASE DequeueMark
    <2>1. PICK j \in JobId : j = worker.job /\ IsIssued(j) /\ ~Listed(j)
      BY <1>4 DEF DequeueMark, AtWorker, IInv, WorkerInv, Holding
    <2>2. Status(j) = "pending" /\ DequeuePipeline(j)
      BY <1>4, <2>1 DEF DequeueMark, AtWorker, AloneInv, HandInv, Lost
    <2> QED
      BY <1>1, <2>1, <2>2, MarkRefines
  <1>5. CASE MarkCompleted \/ MarkFailed
    <2>1. PICK j \in JobId : j = worker.job /\ IsIssued(j) /\ Status(j) = "processing"
      BY <1>5 DEF MarkCompleted, MarkFailed, UpdateWrite, AtWorker, IInv, WorkerInv, Holding, Busy,
         RunInv
    <2>2. \E s \in {"completed", "failed"} : UpdatePipeline(j, worker.old, s)
      BY <1>5, <2>1 DEF MarkCompleted, MarkFailed, UpdateWrite, Lost
    <2>3. JQ!Finish(j)
      BY <1>1, <2>1, <2>2, FinishRefines
    <2> QED
      BY <2>3 DEF JQ!Next
  <1>6. CASE CleanupDelete
    <2>1. PICK j \in JobId : j = worker.job /\ IsIssued(j) /\ Status(j) \in Finished
      BY <1>6 DEF CleanupDelete, AtWorker, IInv, WorkerInv, Holding, AloneInv, HandInv
    <2>2. DeletePipeline(j, worker.old)
      BY <1>6, <2>1 DEF CleanupDelete, Lost
    <2>3. JQ!Cleanup({j})
      BY <1>1, <2>1, <2>2, DeleteRefines
    <2>4. {j} \in SUBSET JobId
      OBVIOUS
    <2> QED
      BY <2>3, <2>4 DEF JQ!Next
  <1> QED
    BY <1>2, <1>3, <1>4, <1>5, <1>6 DEF WorkerStep, LoopTest, MaybeCleanup, CleanupExamine,
       StartEngine, EngineEnds, MarkCompletedRead, MarkFailedRead, UpdateRead, WaitEnds

LEMMA NextRefines ==
  ASSUME Client = {}, MaxRaises = 0, IInv, IInv', AloneInv, RunInv, [Next]_vars
  PROVE  [JQ!Next]_(JQ!vars)
  <1>1. ASSUME NEW j \in JobId, Execute(j) PROVE JQ!Next
    BY <1>1, ExecuteRefines DEF JQ!Next
  <1>2. CASE WorkerStep
    BY <1>2, NoRaise, WorkerStepRefines DEF IInv
  <1>3. CASE Lifecycle \/ Tick \/ UNCHANGED vars
    <2>1. UNCHANGED <<redisVars, issued>>
      BY <1>3 DEF Lifecycle, Start, BeginStop, Exit, Crash, ProcessEnds, Tick, vars, history
    <2> QED
      BY <2>1, InvisibleRefines
  <1> QED
    BY <1>1, <1>2, <1>3 DEF Next, CancelStep

\* Where no cancel request comes in and every command is answered, over any number
\* of stops and crashes, the Redis backend keeps the promises of JobQueue: jobs are
\* handed out in the order of their submission, a dequeue is one step although it is
\* two commands, and a cleanup takes finished jobs only.
THEOREM RedisImplementsJobQueue ==
  ASSUME Client = {}, MaxRaises = 0
  PROVE  Spec => ImplementsJobQueue
  <1>1. RunInv /\ IInv /\ [Next]_vars => RunInv'
    BY NextRun
  <1>2. IInv /\ IInv' /\ AloneInv /\ RunInv /\ [Next]_vars => [JQ!Next]_(JQ!vars)
    BY NextRefines
  <1> QED
    BY <1>1, <1>2, InitRun, InitRefines, SpecIInv, SpecAlone, PTL
       DEF Spec, JQ!Spec, ImplementsJobQueue
=============================================================================
