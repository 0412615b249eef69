---------------------------- MODULE SqliteServer ----------------------------
(***************************************************************************)
(* The whole process on the SQLite backend: SqliteService with what it     *)
(* leaves out of a start, the statements that create and migrate the       *)
(* tables (sqlite_queue.py), and with the scheduler thread (scheduler.py), *)
(* whose _fire is one more submission.                                     *)
(*                                                                         *)
(* It implements SqliteService (SqliteServerProofs), so what holds of that *)
(* holds here.                                                             *)
(***************************************************************************)
EXTENDS SqliteService, Sequences

CONSTANTS
    Cron,               \* the schedule: for each entry, the clock ticks it is due at
    MaxServerFaults     \* bound on deaths during a start

ASSUME SqliteServerAssumption ==
    /\ Cron \in Seq(SUBSET (Nat \ {0}))
    /\ MaxServerFaults \in Nat

VARIABLES
    boot,           \* build_services: the statement _init_database is at
    version,        \* MAX(version) of table schema_version, 0 for none
    tables,         \* tables jobs and queue exist
    column,         \* jobs.dry_run exists
    scheduler,      \* the scheduler thread: where it is, its now, the entry it is at
    nextFire,       \* next_fire of each entry
    built,          \* the now of Scheduler.__init__
    firedAs,        \* history: the tick each scheduled job was enqueued for
    serverFaults    \* deaths during a start so far

schemaVars == <<boot, version, tables, column>>
scheduleVars == <<scheduler, nextFire, built, firedAs>>
serverVars == <<schemaVars, scheduleVars, serverFaults>>

Entry == DOMAIN Cron
NoTick == [entry |-> 0, tick |-> 0, built |-> 0]
NotScheduling == [pc |-> "exited", now |-> 0, at |-> 1]

ServerTypeOK ==
    /\ TypeOK
    /\ boot \in {"off", "create", "mark1", "alter", "mark2", "ready"}
    /\ version \in 0 .. 2
    /\ {tables, column} \subseteq BOOLEAN
    /\ scheduler \in [pc : {"exited", "poll", "entries"}, now : Nat, at : 1 .. Len(Cron) + 1]
    /\ nextFire \in [Entry -> Nat]
    /\ built \in Nat
    /\ firedAs \in [JobId -> [entry : Entry \cup {0}, tick : Nat, built : Nat]]
    /\ serverFaults \in 0 .. MaxServerFaults
    /\ server # "down" => version = 2 /\ tables /\ column

\* A new database, or one that an older version left.
ServerInit ==
    /\ Init
    /\ boot = "off"
    /\ version \in {0, 1}
    /\ tables = (version = 1)
    /\ column = FALSE
    /\ scheduler = NotScheduling
    /\ nextFire = [e \in Entry |-> 0]
    /\ built = 0
    /\ firedAs = [j \in JobId |-> NoTick]
    /\ serverFaults = 0

ServerFault == serverFaults < MaxServerFaults /\ serverFaults' = serverFaults + 1

-----------------------------------------------------------------------------
(* A start: _init_database, one autocommit statement per step.             *)

Boot(from, to) ==
    /\ boot = from
    /\ boot' = to
    /\ UNCHANGED <<vars, scheduler, firedAs, serverFaults>>

\* Scheduler.__init__, the last thing build_services does.  Never is a time the
\* clock does not get to.
Never == MaxTime + 2

\* croniter.get_next: the first tick after t.
GetNext(e, t) ==
    IF \E due \in Cron[e] : due > t
    THEN CHOOSE due \in Cron[e] : due > t /\ \A other \in Cron[e] : other > t => due <= other
    ELSE Never

BuildScheduler ==
    /\ built' = now
    /\ nextFire' = [e \in Entry |-> GetNext(e, now)]

\* Mutant of ReadVersion: the migration is taken for done.
ReadVersionSkips ==
    /\ server = "down"
    /\ \/ version = 0 /\ Boot("off", "create") /\ UNCHANGED <<nextFire, built>>
       \/ version # 0 /\ Boot("off", "ready") /\ BuildScheduler
    /\ UNCHANGED <<version, tables, column>>

ReadVersion ==
    /\ server = "down"
    /\ \/ version = 0 /\ Boot("off", "create") /\ UNCHANGED <<nextFire, built>>
       \/ version = 1 /\ Boot("off", "alter") /\ UNCHANGED <<nextFire, built>>
       \/ version = 2 /\ Boot("off", "ready") /\ BuildScheduler
    /\ UNCHANGED <<version, tables, column>>

\* Mutant of CreateTables: no IF NOT EXISTS.
CreateTablesOnce ==
    /\ IF tables THEN Boot("create", "off") ELSE Boot("create", "mark1")
    /\ tables' = TRUE
    /\ UNCHANGED <<version, column, nextFire, built>>

CreateTables ==
    /\ Boot("create", "mark1")
    /\ tables' = TRUE
    /\ UNCHANGED <<version, column, nextFire, built>>

MarkVersion1 ==
    /\ Boot("mark1", "alter")
    /\ version' = 1
    /\ UNCHANGED <<tables, column, nextFire, built>>

\* A column that is there already is an error, which ends the start.
AlterTable ==
    /\ IF column THEN Boot("alter", "off") ELSE Boot("alter", "mark2")
    /\ column' = TRUE
    /\ UNCHANGED <<version, tables, nextFire, built>>

MarkVersion2 ==
    /\ Boot("mark2", "ready")
    /\ version' = 2
    /\ BuildScheduler
    /\ UNCHANGED <<tables, column>>

\* Killed before it serves.
BootDies ==
    /\ boot # "off" /\ server = "down"
    /\ boot' = "off"
    /\ ServerFault
    /\ UNCHANGED <<vars, version, tables, column, scheduleVars>>

-----------------------------------------------------------------------------
(* The process around SqliteService: its threads start and end together.   *)

Serve ==
    /\ boot = "ready"
    /\ Start
    /\ scheduler' = [NotScheduling EXCEPT !.pc = IF Entry = {} THEN "exited" ELSE "poll"]
    /\ UNCHANGED <<schemaVars, nextFire, built, firedAs, serverFaults>>

ServerEnds ==
    /\ Exit \/ Crash
    /\ boot' = "off"
    /\ scheduler' = NotScheduling
    /\ UNCHANGED <<version, tables, column, nextFire, built, firedAs, serverFaults>>

\* Bound on the jobs submitted over HTTP: an id is left for each tick to come.
TicksAhead ==
    UNION {{<<e, t>> : t \in {due \in Cron[e] : due >= nextFire[e]}} : e \in Entry}
IdLeft == Cardinality(JobId \ issued) > Cardinality(TicksAhead)

Submit(j) ==
    /\ IdLeft
    /\ Execute(j)
    /\ UNCHANGED serverVars

-----------------------------------------------------------------------------
(* The scheduler thread: _run_loop and _fire.                              *)

AtScheduler(pc) == scheduler.pc = pc /\ server # "down"

\* Between two polls; then while not stop.is_set(), and one now for all the entries.
Poll ==
    /\ AtScheduler("poll")
    /\ scheduler' = IF StopIsSet THEN NotScheduling ELSE [pc |-> "entries", now |-> now, at |-> 1]
    /\ UNCHANGED <<vars, schemaVars, nextFire, built, firedAs, serverFaults>>

Due == {e \in Entry : e >= scheduler.at /\ scheduler.now >= nextFire[e]}
FirstDue(e) == e \in Due /\ \A other \in Due : e <= other

\* Mutant of MoveOn: the entry stays due.
MoveOnNowhere(e) ==
    /\ scheduler' = [scheduler EXCEPT !.at = e + 1]
    /\ UNCHANGED nextFire

\* However long it is overdue, an entry fires once per pass and moves by one tick.
MoveOn(e) ==
    /\ nextFire' = [nextFire EXCEPT ![e] = GetNext(e, nextFire[e])]
    /\ scheduler' = [scheduler EXCEPT !.at = e + 1]

Fire(e, j) ==
    /\ AtScheduler("entries")
    /\ FirstDue(e)
    /\ Execute(j)
    /\ MoveOn(e)
    /\ firedAs' = [firedAs EXCEPT ![j] = [entry |-> e, tick |-> nextFire[e], built |-> built]]
    /\ UNCHANGED <<schemaVars, built, serverFaults>>

\* Mutant of FireRaises: _fire does not catch.  _run_loop does, but the pass is
\* over, the entry stays due, and is the first to be tried by the next one.
FireRaisesUncaught(e) ==
    /\ AtScheduler("entries")
    /\ FirstDue(e)
    /\ scheduler' = [NotScheduling EXCEPT !.pc = "poll"]
    /\ UNCHANGED <<vars, schemaVars, nextFire, built, firedAs, serverFaults>>

\* enqueue raises, once or every time: logged, and the tick counts as done.
FireRaises(e) ==
    /\ AtScheduler("entries")
    /\ FirstDue(e)
    /\ MoveOn(e)
    /\ UNCHANGED <<vars, schemaVars, built, firedAs, serverFaults>>

PassEnds ==
    /\ AtScheduler("entries")
    /\ Due = {}
    /\ scheduler' = [NotScheduling EXCEPT !.pc = "poll"]
    /\ UNCHANGED <<vars, schemaVars, nextFire, built, firedAs, serverFaults>>

-----------------------------------------------------------------------------
BootStep == ReadVersion \/ CreateTables \/ MarkVersion1 \/ AlterTable \/ MarkVersion2

SchedulerStep ==
    \/ Poll \/ PassEnds
    \/ \E e \in Entry : FireRaises(e) \/ \E j \in JobId : Fire(e, j)

ServiceStep ==
    \/ \E c \in Client, j \in JobId : CancelCheck(c, j)
    \/ CancelStep \/ WorkerStep \/ BeginStop \/ CloseQueue \/ Tick

ServerNext ==
    \/ BootStep \/ BootDies \/ Serve \/ ServerEnds
    \/ \E j \in JobId : Submit(j)
    \/ SchedulerStep
    \/ ServiceStep /\ UNCHANGED serverVars

ServerSpec == ServerInit /\ [][ServerNext]_<<vars, serverVars>>

\* Every thread runs whenever it can, a stop goes through, and the container's
\* restart policy starts the process again.
FairServerSpec ==
    /\ ServerSpec
    /\ WF_<<vars, serverVars>>(WorkerStep /\ UNCHANGED serverVars)
    /\ WF_<<vars, serverVars>>(CancelStep /\ UNCHANGED serverVars)
    /\ WF_<<vars, serverVars>>(SchedulerStep)
    /\ WF_<<vars, serverVars>>(BootStep \/ Serve \/ (CloseQueue /\ UNCHANGED serverVars)
                               \/ (Exit /\ ServerEnds))

-----------------------------------------------------------------------------
(* Correctness.                                                            *)

Scheduled(j) == firedAs[j] # NoTick

\* A tick of the schedule enqueues at most one job, over any number of restarts;
\* never before its time, and never for a time the process was not there for:
\* "if the process was down when a fire time passed, it's simply skipped" (_fire).
FiresAsScheduled ==
    /\ \A j, k \in JobId :
         Scheduled(j) /\ Scheduled(k)
            /\ firedAs[j].entry = firedAs[k].entry /\ firedAs[j].tick = firedAs[k].tick => j = k
    /\ \A j \in JobId :
         Scheduled(j) => /\ firedAs[j].tick \in Cron[firedAs[j].entry]
                         /\ firedAs[j].built < firedAs[j].tick /\ firedAs[j].tick <= now

\* A tick that comes while the server is up is gone through, whatever raises, how
\* often, and whatever is overdue: neither the next tick of an entry nor the entries
\* behind it wait for ever for one whose enqueue fails (_run_loop, _fire).
EveryTickIsGoneThrough ==
    \A e \in Entry : \A t \in Cron[e] :
        server = "up" /\ nextFire[e] = t /\ now >= t ~> server # "up" \/ nextFire[e] # t

\* ALTER TABLE is done, its version is not recorded: every start fails on it.
Wedged == column /\ version = 1 /\ boot # "mark2"

\* A process that is down comes up again, whatever killed the starts before it,
\* except in one gap: between ALTER TABLE and its version (_migrate_schema).
ComesUpUnlessWedged == server = "down" ~> server = "up" \/ Wedged
=============================================================================
