------------------------- MODULE SqliteServerProofs --------------------------
(***************************************************************************)
(* SqliteServer for every schedule and any number of restarts and faults:  *)
(* it implements SqliteService, so it has the invariants proved there, and *)
(* its scheduler fires each tick at most once, in time, and in the process *)
(* that was there for it.                                                  *)
(***************************************************************************)
EXTENDS SqliteServer, SqliteServiceProofs, WellFoundedInduction

serverAll == <<vars, serverVars>>

-----------------------------------------------------------------------------
(* The refinement.                                                         *)

LEMMA StepImplements ==
  ASSUME [ServerNext]_serverAll
  PROVE  [Next]_vars
  <1>1. CASE BootStep
    BY <1>1 DEF BootStep, ReadVersion, CreateTables, MarkVersion1, AlterTable, MarkVersion2, Boot
  <1>2. CASE BootDies
    BY <1>2 DEF BootDies
  <1>3. CASE Serve
    BY <1>3 DEF Serve, Next, Lifecycle
  <1>4. CASE ServerEnds
    BY <1>4 DEF ServerEnds, Next, Lifecycle
  <1>5. CASE \E j \in JobId : Submit(j)
    BY <1>5 DEF Submit, Next
  <1>6. CASE SchedulerStep
    BY <1>6 DEF SchedulerStep, Poll, PassEnds, FireRaises, Fire, Next
  <1>7. CASE ServiceStep /\ UNCHANGED serverVars
    BY <1>7 DEF ServiceStep, Next, Lifecycle
  <1>8. CASE UNCHANGED serverAll
    BY <1>8 DEF serverAll
  <1> QED
    BY <1>1, <1>2, <1>3, <1>4, <1>5, <1>6, <1>7, <1>8 DEF ServerNext

\* The process with its start-up and its scheduler is a SqliteService: a start's
\* statements are invisible, a fire is a submission.
THEOREM ServerImplementsService == ServerSpec => Spec
  <1>1. ServerInit => Init
    BY DEF ServerInit
  <1> QED
    BY <1>1, StepImplements, PTL DEF ServerSpec, Spec, serverAll

\* The queue and the hands of the worker stay as they should also while the
\* scheduler submits and starts are cut off.
THEOREM ServerKeepsTheQueue ==
  ServerSpec => [](QueueIsPending /\ RunAtMostOnce /\ CancelHonoured /\ WorkerOwnsItsJob)
  BY ServerImplementsService, SpecQueueIsPending, SpecRunAtMostOnce, SpecCancelHonoured,
     SpecWorkerOwnsItsJob, PTL

-----------------------------------------------------------------------------
(* croniter.get_next.                                                      *)

LEMMA Least ==
  ASSUME NEW S \in SUBSET Nat, S # {}
  PROVE  \E x \in S : \A y \in S : x <= y
  <1>1. PICK x \in S : \A y \in S : ~ (<<y, x>> \in OpToRel(<, Nat))
    BY NatLessThanWellFounded, WFMin, Zenon
  <1>2. \A y \in S : ~ (y < x)
    BY <1>1 DEF OpToRel
  <1> QED
    BY <1>2

LEMMA EntryCron ==
  ASSUME NEW e \in Entry
  PROVE  Cron[e] \in SUBSET Nat /\ Entry = 1 .. Len(Cron) /\ Len(Cron) \in Nat
  BY SqliteServerAssumption DEF Entry

\* A tick of the entry after t, or never.
LEMMA GetNextIsLater ==
  ASSUME NEW e \in Entry, NEW t \in Nat, t < Never
  PROVE  GetNext(e, t) \in Cron[e] \cup {Never} /\ GetNext(e, t) > t /\ GetNext(e, t) \in Nat
  <1>0. Never \in Nat
    BY SqliteServiceAssumption DEF Never
  <1> DEFINE Coming == {due \in Cron[e] : due > t}
  <1>1. CASE Coming = {}
    <2>1. GetNext(e, t) = Never
      BY <1>1 DEF GetNext
    <2> QED
      BY <1>0, <2>1
  <1>2. CASE Coming # {}
    <2>1. \E x \in Coming : \A y \in Coming : x <= y
      BY <1>2, Least, EntryCron
    <2>2. \E due \in Cron[e] : due > t /\ \A other \in Cron[e] : other > t => due <= other
      BY <2>1
    <2>3. GetNext(e, t) \in Cron[e] /\ GetNext(e, t) > t
      BY <1>2, <2>2 DEF GetNext
    <2> QED
      BY <2>3, EntryCron
  <1> QED
    BY <1>1, <1>2

-----------------------------------------------------------------------------
(* The inductive invariant of the schedule.                                *)

ClockInv == now \in Nat /\ now < Never

ProcessInv ==
    /\ server # "down" => boot = "ready"
    /\ server = "down" => scheduler.pc = "exited"
    /\ scheduler \in [pc : {"exited", "poll", "entries"}, now : Nat, at : 1 .. Len(Cron) + 1]
    /\ scheduler.pc = "entries" => scheduler.now <= now

FiredInv ==
    /\ firedAs \in [JobId -> [entry : Entry \cup {0}, tick : Nat, built : Nat]]
    /\ \A j \in JobId : Scheduled(j) => firedAs[j].entry \in Entry
    /\ FiresAsScheduled

\* What a built scheduler has ahead of it is later than all it has behind it.
AheadInv ==
    /\ nextFire \in [Entry -> Nat]
    /\ built \in Nat
    /\ boot = "ready" =>
         \A e \in Entry :
            /\ nextFire[e] \in Cron[e] \cup {Never}
            /\ built < nextFire[e]
            /\ \A j \in JobId : Scheduled(j) /\ firedAs[j].entry = e => firedAs[j].tick < nextFire[e]

ScheduleInv == ClockInv /\ ProcessInv /\ FiredInv /\ AheadInv

LEMMA InitScheduleInv == ServerInit => ScheduleInv
  <1> SUFFICES ASSUME ServerInit PROVE ScheduleInv
    OBVIOUS
  <1> USE SqliteServiceAssumption, SqliteServerAssumption
      DEF ServerInit, Init, DbInit
  <1>1. ClockInv
    BY DEF ClockInv, Never
  <1>2. ProcessInv
    BY DEF ProcessInv, NotScheduling
  <1>3. FiredInv
    BY DEF FiredInv, FiresAsScheduled, Scheduled, NoTick
  <1>4. AheadInv
    BY DEF AheadInv
  <1> QED
    BY <1>1, <1>2, <1>3, <1>4 DEF ScheduleInv

\* A step that leaves the schedule alone, at a clock that does not run back.
LEMMA QuietSchedule ==
  ASSUME ScheduleInv, UNCHANGED <<nextFire, built, firedAs>>, ClockInv', now <= now', ProcessInv',
         boot' = "ready" => boot = "ready"
  PROVE  ScheduleInv'
  <1> USE DEF ScheduleInv
  <1>1. FiredInv'
    BY EntryCron DEF FiredInv, FiresAsScheduled, Scheduled, ClockInv
  <1>2. AheadInv'
    BY DEF AheadInv, Scheduled
  <1> QED
    BY <1>1, <1>2

\* All a new scheduler has ahead is later than now, hence than all that fired.
LEMMA BuildInv ==
  ASSUME ScheduleInv, BuildScheduler, UNCHANGED <<vars, scheduler, firedAs>>, boot' = "ready"
  PROVE  ScheduleInv'
  <1> USE DEF ScheduleInv
  <1>1. ClockInv' /\ ProcessInv'
    BY DEF ClockInv, ProcessInv, vars, procVars
  <1>2. FiredInv'
    BY DEF FiredInv, FiresAsScheduled, Scheduled, vars
  <1>3. \A e \in Entry : GetNext(e, now) \in Cron[e] \cup {Never} /\ GetNext(e, now) > now
                         /\ GetNext(e, now) \in Nat
    BY GetNextIsLater DEF ClockInv
  <1>4. \A j \in JobId : Scheduled(j) => firedAs[j].tick <= now
    BY DEF FiredInv, FiresAsScheduled
  <1>5. AheadInv'
    BY <1>3, <1>4 DEF AheadInv, BuildScheduler, ClockInv, FiredInv, Scheduled
  <1> QED
    BY <1>1, <1>2, <1>5

LEMMA BootInv ==
  ASSUME ScheduleInv, BootStep
  PROVE  ScheduleInv'
  <1>1. CASE boot' = "ready"
    BY <1>1, BuildInv DEF BootStep, ReadVersion, CreateTables, MarkVersion1, AlterTable,
                          MarkVersion2, Boot
  <1>2. CASE boot' # "ready"
    <2>1. UNCHANGED <<vars, scheduler, firedAs, nextFire, built>>
      BY <1>2 DEF BootStep, ReadVersion, CreateTables, MarkVersion1, AlterTable, MarkVersion2, Boot
    <2>2. server = "down"
      BY DEF ScheduleInv, ProcessInv, BootStep, ReadVersion, CreateTables, MarkVersion1, AlterTable,
             MarkVersion2, Boot
    <2>3. ClockInv' /\ ProcessInv' /\ now <= now'
      BY <2>1, <2>2 DEF ScheduleInv, ClockInv, ProcessInv, vars, procVars
    <2> QED
      BY <1>2, <2>1, <2>3, QuietSchedule
  <1> QED
    BY <1>1, <1>2

\* A fire, or one that raises: the entry moves on to a later tick.
LEMMA MoveOnInv ==
  ASSUME ScheduleInv, NEW e \in Entry, AtScheduler("entries"), FirstDue(e), MoveOn(e),
         UNCHANGED <<now, server, boot, built>>,
         \/ UNCHANGED firedAs
         \/ \E j \in JobId :
              firedAs' = [firedAs EXCEPT ![j] = [entry |-> e, tick |-> nextFire[e], built |-> built]]
  PROVE  ScheduleInv'
  <1> USE DEF ScheduleInv
  <1> DEFINE tick == nextFire[e]
  <1>1. boot = "ready" /\ scheduler.pc = "entries" /\ scheduler.now <= now /\ tick <= scheduler.now
    BY DEF AtScheduler, ProcessInv, FirstDue, Due, AheadInv
  <1>2. tick \in Nat /\ tick <= now /\ tick < Never /\ scheduler.now \in Nat /\ Never \in Nat
    BY <1>1, SqliteServiceAssumption DEF AheadInv, ProcessInv, ClockInv, Never
  <1>3. tick \in Cron[e] /\ built < tick
    BY <1>1, <1>2 DEF AheadInv
  <1>4. /\ GetNext(e, tick) \in Cron[e] \cup {Never}
        /\ GetNext(e, tick) > tick /\ GetNext(e, tick) \in Nat
    BY <1>2, GetNextIsLater
  <1>5. nextFire' = [nextFire EXCEPT ![e] = GetNext(e, tick)]
    BY DEF MoveOn
  <1>6. ClockInv'
    BY DEF ClockInv
  <1>7. ProcessInv'
    <2>1. e + 1 \in 1 .. Len(Cron) + 1
      BY EntryCron
    <2> QED
      BY <2>1 DEF ProcessInv, MoveOn
  <1>8. CASE UNCHANGED firedAs
    <2>1. FiredInv'
      BY <1>8 DEF FiredInv, FiresAsScheduled, Scheduled
    <2>2. AheadInv'
      BY <1>1, <1>2, <1>3, <1>4, <1>5, <1>8 DEF AheadInv, FiredInv, Scheduled
    <2> QED
      BY <1>6, <1>7, <2>1, <2>2
  <1>9. ASSUME NEW j \in JobId,
               firedAs' = [firedAs EXCEPT ![j] = [entry |-> e, tick |-> tick, built |-> built]]
        PROVE  ScheduleInv'
    <2>1. e # 0 /\ e \in Nat
      BY EntryCron
    <2>2. \A k \in JobId \ {j} : firedAs'[k] = firedAs[k] /\ (Scheduled(k)' <=> Scheduled(k))
      BY <1>9 DEF Scheduled, FiredInv
    <2>3. firedAs'[j] = [entry |-> e, tick |-> tick, built |-> built] /\ Scheduled(j)'
      BY <1>9, <2>1 DEF Scheduled, FiredInv, NoTick
    <2>4. \A k \in JobId : Scheduled(k) /\ firedAs[k].entry = e => firedAs[k].tick < tick
      BY <1>1 DEF AheadInv
    <2>5. \A k \in JobId \ {j} :
            Scheduled(k) => firedAs[k].entry # e \/ firedAs[k].tick # tick
      BY <1>2, <2>4 DEF FiredInv
    <2>6. FiresAsScheduled'
      BY <1>2, <1>3, <2>2, <2>3, <2>5 DEF FiredInv, FiresAsScheduled
    <2>7. firedAs' \in [JobId -> [entry : Entry \cup {0}, tick : Nat, built : Nat]]
      BY <1>2, <1>9 DEF FiredInv, AheadInv
    <2>8. FiredInv'
      BY <2>2, <2>3, <2>6, <2>7 DEF FiredInv
    <2>9. \A f \in Entry, k \in JobId :
            Scheduled(k)' /\ firedAs'[k].entry = f => firedAs'[k].tick < nextFire'[f]
      <3>1. SUFFICES ASSUME NEW f \in Entry, NEW k \in JobId, Scheduled(k)', firedAs'[k].entry = f
                     PROVE  firedAs'[k].tick < nextFire'[f]
        OBVIOUS
      <3>2. CASE k = j
        BY <1>2, <1>4, <1>5, <2>3, <3>1, <3>2 DEF AheadInv
      <3>3. CASE k # j /\ f = e
        BY <1>2, <1>4, <1>5, <2>2, <2>4, <3>1, <3>3 DEF AheadInv, FiredInv
      <3>4. CASE k # j /\ f # e
        BY <1>1, <1>5, <2>2, <3>1, <3>4 DEF AheadInv
      <3> QED
        BY <3>2, <3>3, <3>4
    <2>10. AheadInv'
      BY <1>1, <1>2, <1>3, <1>4, <1>5, <2>9 DEF AheadInv
    <2> QED
      BY <1>6, <1>7, <2>8, <2>10
  <1> QED
    BY <1>8, <1>9

\* What SqliteService does to the clock and to the process.
LEMMA ServiceFrame ==
  ASSUME ClockInv, ServiceStep
  PROVE  ClockInv' /\ now <= now' /\ (server' = "down" <=> server = "down")
  <1>1. CASE Tick
    BY <1>1, SqliteServiceAssumption DEF Tick, procVars, ClockInv, Never
  <1>2. CASE ~Tick
    <2>1. now' = now /\ (server' = "down" <=> server = "down")
      BY <1>2 DEF ServiceStep, CancelCheck, CancelStep, CancelCommit, CancelRaises, WorkerStep,
                  LoopTest, MaybeCleanup, WorkerDequeue, DequeueRaises, WaitEnds, StartEngine,
                  EngineEnds, MarkCompleted, MarkCompletedRaises, MarkFailed, MarkFailedRaises,
                  BeginStop, CloseQueue
    <2> QED
      BY <2>1 DEF ClockInv
  <1> QED
    BY <1>1, <1>2

LEMMA NextScheduleInv ==
  ASSUME ScheduleInv, [ServerNext]_serverAll
  PROVE  ScheduleInv'
  <1>1. CASE BootStep
    BY <1>1, BootInv
  <1>2. ASSUME BootDies \/ Serve \/ ServerEnds \/ (\E j \in JobId : Submit(j)) \/ Poll \/ PassEnds
        PROVE  ScheduleInv'
    <2>1. UNCHANGED <<nextFire, built, firedAs, now>>
      BY <1>2 DEF BootDies, Serve, Start, ServerEnds, Exit, Crash, ProcessEnds, Submit, Execute,
                  Poll, PassEnds, vars, serverVars, scheduleVars
    <2>2. boot' = "ready" => boot = "ready"
      BY <1>2 DEF BootDies, Serve, ServerEnds, Submit, Poll, PassEnds, serverVars, schemaVars
    <2>3. ProcessInv'
      <3> USE SqliteServerAssumption
          DEF ScheduleInv, ProcessInv, ClockInv, NotScheduling
      <3>1. CASE BootDies
        BY <3>1 DEF BootDies, vars, procVars, scheduleVars
      <3>2. CASE Serve
        BY <3>2 DEF Serve, Start, schemaVars
      <3>3. CASE ServerEnds
        BY <3>3 DEF ServerEnds, Exit, Crash, ProcessEnds
      <3>4. CASE \E j \in JobId : Submit(j)
        BY <3>4 DEF Submit, Execute, procVars, serverVars, schemaVars, scheduleVars
      <3>5. CASE Poll
        BY <3>5 DEF Poll, AtScheduler, vars, procVars, schemaVars
      <3>6. CASE PassEnds
        BY <3>6 DEF PassEnds, AtScheduler, vars, procVars, schemaVars
      <3> QED
        BY <1>2, <3>1, <3>2, <3>3, <3>4, <3>5, <3>6
    <2>4. ClockInv' /\ now <= now'
      BY <2>1 DEF ScheduleInv, ClockInv
    <2> QED
      BY <2>1, <2>2, <2>3, <2>4, QuietSchedule
  <1>3. ASSUME NEW e \in Entry, FireRaises(e) \/ \E j \in JobId : Fire(e, j) PROVE ScheduleInv'
    <2>1. /\ AtScheduler("entries") /\ FirstDue(e) /\ MoveOn(e)
          /\ UNCHANGED <<now, server, boot, built>>
      BY <1>3 DEF FireRaises, Fire, Execute, vars, procVars, schemaVars
    <2>2. \/ UNCHANGED firedAs
          \/ \E j \in JobId :
               firedAs' = [firedAs EXCEPT ![j] = [entry |-> e, tick |-> nextFire[e], built |-> built]]
      BY <1>3 DEF FireRaises, Fire
    <2> QED
      BY <2>1, <2>2, MoveOnInv
  <1>4. CASE ServiceStep /\ UNCHANGED serverVars
    <2>1. ClockInv' /\ now <= now' /\ (server' = "down" <=> server = "down")
      BY <1>4, ServiceFrame DEF ScheduleInv
    <2>2. ProcessInv'
      BY <1>4, <2>1 DEF ScheduleInv, ProcessInv, ClockInv, serverVars, schemaVars, scheduleVars
    <2> QED
      BY <1>4, <2>1, <2>2, QuietSchedule DEF serverVars, schemaVars, scheduleVars
  <1>5. CASE UNCHANGED serverAll
    BY <1>5, QuietSchedule
    DEF serverAll, vars, procVars, serverVars, schemaVars, scheduleVars, ScheduleInv, ClockInv,
        ProcessInv
  <1> QED
    BY <1>1, <1>2, <1>3, <1>4, <1>5 DEF ServerNext, SchedulerStep

\* For every schedule: each tick enqueues at most one job, in time, in a process
\* that was there before it, whatever restarts and failing fires come in between.
THEOREM ServerFiresAsScheduled == ServerSpec => []FiresAsScheduled
  <1>1. ScheduleInv => FiresAsScheduled
    BY DEF ScheduleInv, FiredInv
  <1> QED
    BY <1>1, InitScheduleInv, NextScheduleInv, PTL DEF ServerSpec, serverAll

-----------------------------------------------------------------------------
(* The database a start leaves behind, wherever it is cut off.             *)

\* What each statement of _init_database finds, and what each version means.
SchemaInv ==
    /\ boot \in {"off", "create", "mark1", "alter", "mark2", "ready"}
    /\ version \in 0 .. 2
    /\ tables \in BOOLEAN /\ column \in BOOLEAN
    /\ serverFaults \in 0 .. MaxServerFaults
    /\ version # 0 \/ boot \in {"mark1", "alter", "mark2"} => tables
    /\ version = 2 \/ boot = "mark2" => column
    /\ boot = "ready" => version = 2

LEMMA InitSchemaInv == ServerInit => SchemaInv
  <1>1. ServerInit => tables \in BOOLEAN /\ (version # 0 => tables)
    <2> SUFFICES ASSUME tables = (version = 1), version \in {0, 1}
                 PROVE  tables \in BOOLEAN /\ (version # 0 => tables)
      BY DEF ServerInit
    <2> QED
      OBVIOUS
  <1>2. ServerInit => boot = "off" /\ version \in {0, 1} /\ serverFaults = 0
    BY DEF ServerInit
  <1>3. ServerInit => column \in BOOLEAN
    BY DEF ServerInit
  <1> QED
    BY <1>1, <1>2, <1>3, SqliteServerAssumption DEF SchemaInv

LEMMA NextSchemaInv ==
  ASSUME SchemaInv, [ServerNext]_serverAll
  PROVE  SchemaInv'
  <1> USE SqliteServerAssumption DEF SchemaInv
  <1>1. CASE ReadVersion
    BY <1>1 DEF ReadVersion, Boot
  <1>2. CASE CreateTables
    BY <1>2 DEF CreateTables, Boot
  <1>3. CASE MarkVersion1
    BY <1>3 DEF MarkVersion1, Boot
  <1>4. CASE AlterTable
    BY <1>4 DEF AlterTable, Boot
  <1>5. CASE MarkVersion2
    BY <1>5 DEF MarkVersion2, Boot
  <1>6. CASE BootDies
    BY <1>6 DEF BootDies, ServerFault
  <1>7. CASE ServerEnds
    BY <1>7 DEF ServerEnds
  <1>8. CASE SchedulerStep
    <2>1. UNCHANGED schemaVars
      BY <1>8 DEF SchedulerStep, Poll, PassEnds, Fire, FireRaises
    <2>2. ServerFault \/ UNCHANGED serverFaults
      BY <1>8 DEF SchedulerStep, Poll, PassEnds, Fire, FireRaises
    <2> QED
      BY <2>1, <2>2 DEF ServerFault, schemaVars
  <1>9. CASE UNCHANGED <<schemaVars, serverFaults>>
    BY <1>9 DEF schemaVars
  <1> QED
    BY <1>1, <1>2, <1>3, <1>4, <1>5, <1>6, <1>7, <1>8, <1>9
    DEF ServerNext, BootStep, Serve, Submit, serverVars, serverAll

\* Types; and the process serves only on tables that are there, with the column
\* the statements name, whichever start was cut off where.
THEOREM ServerTypesOK == ServerSpec => []ServerTypeOK
  <1>1. TypeOK /\ ScheduleInv /\ SchemaInv => ServerTypeOK
    BY DEF ServerTypeOK, ScheduleInv, ProcessInv, FiredInv, AheadInv, SchemaInv
  <1>2. ServerSpec => []TypeOK
    BY ServerImplementsService, SpecTypeOK, PTL
  <1>3. ServerSpec => []SchemaInv
    BY InitSchemaInv, NextSchemaInv, PTL DEF ServerSpec, serverAll
  <1>4. ServerSpec => []ScheduleInv
    BY InitScheduleInv, NextScheduleInv, PTL DEF ServerSpec, serverAll
  <1> QED
    BY <1>1, <1>2, <1>3, <1>4, PTL
=============================================================================
