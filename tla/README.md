# Formal models of qbt-rules

qbt-rules runs automation rules against a qBittorrent server. Jobs ("run the rules of
context X") are submitted over HTTP, by a scheduler or by qBittorrent's own webhooks; they
wait in a persistent queue; one worker thread takes them out and runs the rules engine.
This directory holds TLA+ specifications of that program, small instances of them for TLC,
and proofs for TLAPS. Paths below are relative to `src/src/qbt_rules/` unless they start
with `docs/`, `README.md` or `CHANGELOG.md`. `PROJECT.json` maps every definition that models
code to its lines, and lists the runs, the mutants, the hazards, the findings and the theorems.

    tlc -workers 2 -config SqliteService_safety.cfg MCSqliteService
    tlapm SqliteServiceProofs.tla

## 1. Inventory

### Threads and processes

One process (`server.py` refuses more than one uvicorn worker) with these threads:

- the **event loop and its request threads**: FastAPI handlers run concurrently;
- the **worker** thread (`worker.py`): `while not stop`: clean up now and then, dequeue,
  process, or wait a second;
- the **scheduler** thread (`scheduler.py`), when cron entries are configured;
- the **lifespan** (`api.py:506`) that starts both, and on SIGTERM sets the stop event,
  joins each for at most five seconds, and closes the queue. The threads are daemons: one
  that misses its join is cut off when the process exits.

Outside: qBittorrent (and its other users), the Radarr/Sonarr APIs, the file system with
whoever edits `rules.yml`, Redis, and a container runtime that restarts the process.

### Components

| Component | State | Operations | What makes it correct |
| --- | --- | --- | --- |
| Queue contract, `queue_manager.py` | job status, FIFO line | enqueue, dequeue, update_status, cancel_job, cleanup_old_jobs | a job is dequeued once, in order; only pending jobs are cancelled; only finished ones are deleted |
| SQLite backend, `queue_backends/sqlite_queue.py` | tables `jobs`, `queue`, `schema_version`; a connection per thread | the same, each in one `BEGIN IMMEDIATE` transaction; migration; vacuum; close | the two tables agree after every step, whatever fails |
| Redis backend, `queue_backends/redis_queue.py` | a hash per job, the pending list, a set per status and context, `by_time` | the same, as several commands and pipelines each | as above, under interleavings of the commands, lost replies and crashes |
| Worker, `worker.py` | stop event, the job in hand, next cleanup | `_run_loop`, `_maybe_cleanup`, `_process_job` | outlives every error; every job in hand gets an outcome; never two runs of a job |
| Job API, `api.py` | none of its own | execute, list, get, cancel, stats, health | the answer is true of the job, also when the worker moves in between |
| Server lifecycle, `server.py`, `api.py:147-189` | thread list, stop event | start, shutdown, close | a restart loses and repeats nothing |
| Rules file, `config_loader.py` | rules, resolver, resolved cache, stamp | get_rules, reload_rules | what is served is a version that loaded, resolved against its own refs, and the latest one in the end |
| Rules editor, `api_rules.py`, `config_store.py` | `rules.yml`, its history directory | read, validate, save with etag, prune backups | no lost update, no half-written file, a save applies at once |
| Rules engine, `engine.py` | torrent copies, `stats`, `processed_torrents`, totals | run, evaluate, execute, re-fetch | order, stop_on_match, idempotence, quotas by live stats, dry run, termination |
| qBittorrent client, `qbittorrent.py` | connected flag | one method per command | every request ends, by an answer or a timeout |
| Resolver, `resolver.py` | refs, instances | `$ref` and `${vars.}` expansion | a `$ref` means its block, every cycle and every missing name is an error and nothing else is |
| Scheduler, `scheduler.py` | next fire time per entry | tick loop, `_fire` | at most one job per tick, none from before the start; no error stops the loop |
| trackie, `trackie.py`, `engine.py:456-470` | one snapshot per run, or the error of the one attempt | fetch on first use, lookup | every rule of a run sees the same snapshot; what is unknown is never guessed |
| Client, `cli.py`, `api_client.py` | none | submit, wait, dry run with cancel | answers what the server did |
| Validation, schema, `rules_validation.py`, `schema.py` | none | a pure function of a text | a file without errors does what its text says |
| Settings, `config.py` | none | a pure function of file and environment | precedence |
| Dashboard, metrics, logging, `web.py`, `sessions.py`, `metrics.py`, `log_setup.py`, `errors.py`, `utils.py` | sessions, counters | presentation | no influence on jobs |

### Where it is hard

- **Cancel against dequeue.** The handler reads a status, then cancels in a second call. On
  SQLite the second call looks again; on Redis it looks again but writes in a third step.
- **Dequeue and crash.** SQLite marks a job in one transaction; Redis pops it and then marks it.
- **Stop and crash during a job.** Nothing looks for jobs left in `processing`.
- **Shutdown under a running worker.** The queue's connections are closed while a worker that
  missed its join still uses them: its last update raises, and so does the one after it. A thread that
  had no connection yet opens one of its own, and goes on.
- **Cleanup against everything else**, in particular a late pipeline that brings a deleted
  Redis hash back without its fields.
- **Config without a lock**: the worker, the dashboard and a save are all inside `get_rules`
  and `reload_rules`, which read and write four attributes.
- **A start that is cut off**: tables are created and migrated by separate autocommit statements.
- **Ticks of the schedule** that come while the process is down, paused, or failing to enqueue.
- **Requests to Sonarr and Radarr** made one by one, over a queue that moves under the paging.
- **A save answered late**: the page's reads and saves are answered in any order.
- **Four readings of one file**: validator, loader, resolver and engine each take a node of
  `rules.yml` apart on their own, and must agree.
- **The engine's own view of the fleet**: copies of torrents and counts are fetched once and
  kept up action by action, over failing requests and changes by other users; of the counts some are kept up
  and some are not.

`PROJECT.json` "hazards" lists these one by one, each at its line.

## 2. Modules

    JobQueue            what a queue promises                            (abstract)
      ^ implemented by
    SqliteService  EXTENDS SqliteQueue      worker + API + lifecycle over the SQLite tables
    RedisService   EXTENDS RedisQueue EXTENDS Sublists
                                            the same over the Redis keys
      ^ SqliteService is implemented by
    SqliteServer   EXTENDS SqliteService    the start statement by statement, the scheduler thread

    ConfigReload                            rules.yml with hot reload
    ConfigStore                             rules.yml under the editor's saves and reads
    RulesEngine    EXTENDS ArrBlocklist EXTENDS Sublists
                                            one run of the engine; the requests to an arr
    RulesFile      EXTENDS RulesStructure, RuleReferences, ConditionEvaluator
                                            one file: validated, loaded, resolved, run on a torrent
    RulesMeaning   EXTENDS RulesFile, RulesValidation
                                            the same against what the file says by its text
      RulesValidation EXTENDS RuleResolver, RulesStructure;  RuleResolver EXTENDS RuleReferences;
      RulesStructure, RuleReferences, ConditionEvaluator EXTEND RuleTree

    SqliteServiceProofs EXTENDS SqliteService, FiniteSetTheorems, TLAPS
    SqliteServerProofs  EXTENDS SqliteServer, SqliteServiceProofs
    SublistProofs       EXTENDS Sublists, SequenceTheorems, WellFoundedInduction, TLAPS
    RedisServiceProofs  EXTENDS RedisService, SublistProofs, FiniteSetTheorems
    ConfigReloadProofs  EXTENDS ConfigReload, TLAPS
    ConfigStoreProofs   EXTENDS ConfigStore, FiniteSetTheorems, SequenceTheorems, TLAPS
    RulesEngineProofs   EXTENDS RulesEngine, SublistProofs, FiniteSetTheorems
    RulesFileProofs     EXTENDS RulesFile, SublistProofs
    MCxxx EXTENDS xxx                       symmetry sets, rules files: what the .cfg files name

The systems meet in few places. `EngineEnds` of the services stands for a whole run of
`RulesEngine`: it returns or raises, which is what `RunEnds` of `RulesEngine` says. The
rules that a run starts with are what a `get_rules` of `ConfigReload` answers; what is in them
and what they come to for a torrent is `RulesFile`. They share no other state, which is why they
are specifications of their own. `SaveFile` of `ConfigReload` is a save of `ConfigStore` seen from
the process that then reloads: for it, the file has one version and then another.

Operators whose comment begins "Mutant of" are not part of the model: each is a plausible bug in
the operator after it, and shows that some property notices it.

### JobQueue

`status` is the life of each job (`JobStatus`, plus `new` and `removed`), `ticket` its place in
the line. One action per operation of `QueueManager`. `Finish` is `update_status`
as the worker uses it; nothing takes a job from `processing` back to `pending`.

### SqliteQueue and SqliteService

`jobs[j]` is the row of table `jobs` (status, created_at, completed_at; the other columns are
the submission's and no property depends on them), `queue[j]` the AUTOINCREMENT id of its row in
table `queue`. Every method is one `BEGIN IMMEDIATE` transaction (`_transaction`) or one
autocommit statement, hence one action. A timestamp is taken before the write lock is waited for,
so it may be up to `MaxLockWait` old when it reaches the table (`Stamp`): the order of the line
must not, and does not, depend on it.

`SqliteService` adds the threads. `worker` holds where the worker thread is and the job in its
hands; each action is what it does up to the next point where somebody else can come in.

| Action | Code |
| --- | --- |
| `Execute` | `POST /api/execute`, scheduler `_fire`: one enqueue |
| `CancelCheck`, `CancelCommit`, `CancelRaises` | `DELETE /api/jobs/{id}`: get_job, then cancel_job; 404, 400, 200, 500 |
| `LoopTest`, `MaybeCleanup`, `WorkerDequeue`, `DequeueRaises`, `WaitEnds` | `_run_loop`, `_maybe_cleanup` |
| `StartEngine`, `EngineEnds`, `MarkCompleted`, `MarkCompletedRaises`, `MarkFailed`, `MarkFailedRaises` | `_process_job`; the except clause covers the update to completed, nothing covers the update to failed |
| `Start`, `BeginStop`, `CloseQueue`, `Exit`, `Crash` | lifespan, `BackgroundThreads`, the end of the process |

`server = "closed"` is the time between the closing of the connections and the exit: a worker that
missed its join is still running, and a queue call raises in every thread that had a connection; a thread
without one opens one of its own (`_get_connection`). Which threads had one is not kept, so after the close any
call may raise or succeed (`CallRaises`). A queue call can raise
while the connections are open too (locked for longer than busy_timeout, disk full); it
leaves the tables as they were, because the transaction rolls back.

### SqliteServer

What `SqliteService` takes for granted, made explicit, and proved not to disturb it: each step of
`SqliteServer` is a step of `SqliteService` or changes none of its variables.

- **The start.** `boot` is the statement `_init_database` is at: `ReadVersion`, `CreateTables`,
  `MarkVersion1`, `AlterTable`, `MarkVersion2`. Each commits by itself; `BootDies` is a death between
  any two. `Serve` is the `Start` of the service, possible only behind the last of them. The database is
  new or of version 1 to begin with. A column that is there already makes `AlterTable` an error
  that ends the start.
- **The scheduler thread.** `scheduler` holds its position, the `now` of its pass, and the entry
  it is at. `BuildScheduler` is `Scheduler.__init__`, `Poll` the test of the stop event and the new
  `now`, `Fire` and `FireRaises` are `_fire` for the first entry due, `PassEnds` the end of the `for`. An enqueue of the
  scheduler may fail any number of times, which keeps every tick from being fired but none from being gone through. A
  cron entry is the set of clock ticks it is due at (`croniter` is external: `GetNext`).
  `firedAs` is history: for which tick, of which process, a job was enqueued.

`Submit` is an `Execute` of the HTTP API; it leaves a job id for each tick that is still to come
(`IdLeft`), a bound and nothing else.

### RedisQueue and RedisService

The keys as variables: `hash` (status, and whether the fields enqueue wrote are still there),
`pending` (a sequence), `index` (a set per status), `byTime`. A pipeline is MULTI/EXEC, one step; everything
between two commands is a point of interleaving, so dequeue is `DequeuePop` then `DequeueMark`,
update_status is `...Read` then the pipeline, cancel_job is `CancelRead` then `CancelWrite`,
cleanup examines and deletes job by job. A command whose reply is lost (`Lost`) may have been
executed or not; the caller sees an exception either way. `worker.old` is `old_status`, read before
the pipeline that uses it. `LREM` is `Only` of `Sublists`: the list without the id. It is a recursive function rather than
`SelectSeq`, so that `SublistProofs` can reason about it.

### ConfigReload

A version number stands for a content of `rules.yml` and for its stamp. Two writes
never leave the same mtime, size and inode (assumption; the code compares all three). `call[t]` holds
the locals of each thread's call. One action per read or write of a shared attribute:
stat, compare, read and validate, assign `rules`, assign `_resolver`, empty the cache, assign
`_rules_stamp`; test the cache, resolve the rules one by one (reading `_resolver` anew each time, two
rules standing for any number), store, answer. `SaveFile` is `_save` (only a text that validates is
written) followed by its forced reload. `Broken` versions do not load; `Unresolvable` ones load and raise
in the resolver, and so may rules of one version with the refs of another.

### RulesEngine and ArrBlocklist

`fleet` is what qBittorrent has, `local` the copies of the one `get_torrents`, `stats` the counts
conditions can ask for, `at` the position in the nested loops. A torrent is its state, its category and its set
of tags, and `notify` stands for the action types
that change none of them (recheck, reannounce, limits, priorities, file priorities). A
condition is what it says of the state, the category, the tags and `stats.tag`. A re-fetch (`RefetchTorrent`) updates
`stats.state` and `stats.tag` and leaves `stats.category` as it was; a torrent found gone (`RefetchNothing`) is taken off
all of them, under the category it had last. The sums in `stats.*` (speeds, seeds, leechs), which the fetch sets and
nothing updates, are left out. A run is asked for all torrents or for
the one of a hash (`Scopes`). Torrents are taken in any order, which covers every order qBittorrent
may answer in. Requests fail before or after they were obeyed; set_tags is two requests and can
fail between them. `ChangeOutside` is another user. The raw totals per rule are left out (they
repeat `totals`).

`ArrBlocklist` is the action arr_blocklist, one HTTP request per step, over the queue of a Sonarr or
Radarr (`arrQueue`; `DownloadOf` is a record's downloadId):

| Action | Code |
| --- | --- |
| `BeginBlocklist` | `_execute_arr_blocklist`, what precedes the first request |
| `QueryPage` | one page of `_find_arr_queue_records`, and whether it was the last |
| `DeleteRecord`, `RecordGone` | one `DELETE /queue/{id}`; 404 ends the action |
| `Search` | the one search for the episodes, or the film, of all the records found |
| `RequestFails` | any of the requests, obeyed or not; the action ends |
| `LeavesArr` | the arr imports a download, or somebody removes it |

`RulesEngine` starts it (`Begin`), goes on when it has ended (`BlocklistSucceeds`, `BlocklistFails`), and lets
it remove the torrent from qBittorrent when asked to (`remove_from_client`). `MaxMishaps` bounds the failing
requests and the changes made by others together.

A page is a `SubSeq` of `arrQueue`; the records of a torrent on it, and the queue without a record, are `Only` of
`Sublists`, as in RedisQueue. A queue lists no record twice (`ArrBlocklistAssumption`).

`QuotaHolds` allows a quota to be exceeded once somebody has interfered, and says by how much: for each failed request or
change by others, one torrent, or as many as a rule has further actions (`Slips`). A torrent that somebody else deletes
while a rule with k actions is at work on it is found gone, and taken off the counts, by each of them. In `engine_runs` a quota
of one, a mishap and three torrents leave the bound below the fleet. Without the mishap charged, TLC refutes it.

What the documents say of `stats.*` is not of one piece, so there are three properties. `StatsFollowTheFleet` is the comment in the code
and Advanced-Topics.md, about the total, the states and the tags; it holds but for finding 3. `CategoryCountsFollow` is the rest
of the same sentence of Advanced-Topics.md, and `StatsAreASnapshot` what Conditions.md says instead; TLC refutes both (section 4, also seen).

### ConfigStore

`file` is `rules.yml` (a text, missing, or half written), `history` the backups, newest first, `lock`
the flock in the history directory. `editor[c]` is a browser tab: the ETag and the text of its
baseline, the locals of its save in progress, and a read on its way to it; the tabs may be of two
servers on the same files. A text stands for its hash. `replaceable` is fixed at the start: FALSE where
the file is a bind mount or its directory cannot be written, so that `os.replace` fails and the file is
rewritten in place. The history may be full to begin with.

| Action | Code |
| --- | --- |
| `Open` | the first `loadSource` of `static/editor.js` |
| `Shown`, `Arrives` | the read when the tab is shown again: the server answers now, the page takes it later, whatever it did in between (`editor.js:1028`) |
| `Save` | the PUT of `doSave` |
| `NotWritable`, `NotValid` | 403 and 422 (`_save`, `writable`) |
| `Lock`, `Check` | `_lock`; exists, read, compare: 412 (`Conflict`), unchanged, or go on |
| `Backup`, `Prune` | `_backup` |
| `Replace`, `Rewrite`, `ReplaceNothing` | `_replace`: the temporary file takes the place of the file; rewritten in place; nothing there any more |
| `Create`, `Rewrite` | `_create`: exclusive open, then the text |
| `Answer` | the read after the write, the answer, and what the page does with it |
| `EditFile` | an editor on the host, `docker cp`, git: at any moment, without the lock |
| `SaveDies` | death, or an exception of the operating system, under the lock |

Taken as given: the clock is not set back between two backups, whose names order the history; a
torn text is still UTF-8. Temporary files left by a death are not modelled, nothing reads them.

### RulesFile

One `rules.yml`, from its text to what it did to a torrent, through the four parts of the program that
read it. The parts are modules of operators:

| Module | Code | What it gives |
| --- | --- | --- |
| `RuleTree` | `schema.py`, the parsed YAML | nodes by their kind: leaf, list, groups, groups with a condition beside them in one mapping, `$ref`, action, null, text; the operators and fields |
| `RuleReferences` | `resolver.py` | `Fails`: whether a rule resolves, as the places `_expand_refs` visits and the blocks it stands in there |
| `RuleResolver` | `resolver.py` | `ResolveRule`: what a rule that resolves comes to, with `$ref`s expanded and spliced and tokens replaced |
| `RulesStructure` | `rules_validation.py:225` | `CheckRulesStructure`: the first layer, which the loader applies too |
| `RulesValidation` | `rules_validation.py` | `ValidateRulesText`: the set of issues of the three layers; `Valid` when none is an error |
| `ConditionEvaluator` | `engine.py:143-629`, `trackie.py` | `Evaluate`: yes, no, an exception, not ready, or a fetch that has to come first |

`RulesFile` composes them: `Validate`, `Load` (the first layer alone, as the loader does: a file edited
on disk is loaded whatever the linter says), `GetRules`, then rule by rule `BadMeta`, `SkipRule`,
`EvaluateRule`, with trackie going down and coming up in between (`TrackieChanges`). What a rule resolves to and what
the validator reports are its constants `Resolved` and `Report`: no property of `RulesFile` depends on which they
are, and the runs give them the values `ResolveRule` and `ValidateRulesText`. `Broken` is what a `$ref` gets to by the
text of the file, against which `Fails` is held. `PossibleSnapshots` and `PossibleTorrents` are what could be true where
something is not known. `RulesMeaning` adds the reference for the whole way: `Means` and `WrittenEffects` are what the
text says, by its structure alone, without resolving or validating anything.

The resolver and the evaluator walk down a document, and Python's recursion limit ends a walk that gets too deep:
`MaxNesting`. It makes every walk a recursion over depths, which proofs can follow: `VisitsAt` has the visits so many
steps from a rule, `Level` the conditions so many groups below the outermost, `Outcomes` what those come to from the
deepest on.

Values are few: the field kinds are one of a torrent that may be missing, one that may be unset, one of the file
list, one of a trackie record and one of a trackie account; one operator represents each kind that
`schema.py` distinguishes, with its opposite.

## 3. Runs

Every passing run explores all reachable states of its instance.

| Run | Instance | What it shows |
| --- | --- | --- |
| `sqlite_safety` | 2 jobs, 2 cancel requests, 1 stop or crash, 1 raising call, clock 1..3, lock wait 1 | the tables agree; no job runs twice; a confirmed cancel is kept; stranded jobs are explained by faults; the whole implements `JobQueue` |
| `server_live` | 2 jobs, 1 stop, 1 raising call, 1 death in a start, any number of failing fires, clock 1..3, one cron entry due at 2 and 3 and one behind it due at 3, a database new or of version 1, fair | a tick enqueues at most one job, in time, in a process that was there; no tick of a running server is stuck, on one that fails before it or in an entry before it; every pending job leaves the line; a process comes up again, but for one gap in the migration |
| `redis_safety` | 2 jobs, 1 request, 1 stop, 1 lost reply, clock 1..2 | what survives every interleaving of the commands: the list holds only pending, whole jobs, once each; no job runs twice or without its fields; lost jobs are explained by faults |
| `redis_sequential` | 3 jobs, no request, 1 stop, clock 1..3, fair | with no cancellation the backend implements `JobQueue`, its sets are exact, and every listed job is served |
| `redis_cancelrace` | 1 job, 1 request | **violated**: a cancel confirmed with 200 for a job whose rules run |
| `reload_safety` | 2 threads, 3 writes, one broken and one unresolvable | no rule of a file that failed to load is served; one undisturbed reload repairs everything; no edit is missed |
| `reload_stale` | 2 threads, 1 write | **violated**: after a save the old rules stay in the cache |
| `engine_runs` | 6 rules files, 3 torrents, 1 mishap, an arr queue of 3 records on pages of 2, all torrents or one, fair | the total, the states and the tags in stats follow the fleet; a quota is exceeded by no more than the mishap, so never by the whole fleet; a torrent out of scope, spared, or in a dry run is left alone; success means the desired state; a blocklisted download is replaced whole, or the action failed; the run ends |
| `engine_stats` | delete_torrent followed by another action | **violated**: stats count the deleted torrent out twice |
| `store_safety` | 2 editors, 2 texts, 2 saves, 1 late read, 1 edit from outside, 1 death, history of 2 (empty or full), fair | a save overwrites only a text its page showed, or an outside edit that ran into it; the ETag a page holds is that of its text; a torn file has its backup; every save is answered |
| `rules_file` | about 10,000 documents, torrents and answers of trackie, 1 change of trackie | a file without errors does what its text says, but for three constructions; a rule never matches on what is not known; two opposite rules never both match; a job fails on its rules just when they are broken |
| `rules_misfire` | the documents about conditions | **violated**: a valid file whose rule matches every torrent |

### Bounds

- **Jobs.** Two are needed for FIFO, for a job stranded while another is served, and for a
  cleanup of one during the life of another; the Redis implementation run takes three, so that the middle of the
  list is exercised. Ids are never used again (uuid4).
- **Clients.** Two concurrent cancellations of the same job are the most that differ: each is
  get then cancel, and a third would repeat one of the two. `server_live` has none: cancellation is
  `sqlite_safety`'s, and what it adds to the server's steps is covered by the refinement proof.
- **Clock.** `Retention = 1` and `CleanupInterval = 1`; a job is deleted when it is older than the
  retention, so three clock values let a job finish, expire and be cleaned up. With
  `MaxLockWait = 1` stamps can run backwards.
- **Faults.** `MaxStops` and `MaxRaises` are 1: the properties that count faults
  (`StrandedOnlyByFaults`, `LostOnlyByFaults`) have one to charge and a second
  kind to combine with it. `QuotaHolds` charges one over three torrents, so that what it allows is less than the fleet.
  `redis_sequential` has no lost replies (section 5 says which of its properties do without). The proofs have no such bound.
- **Schedule.** Two ticks of one entry can be overdue at once, and one of them can fail while the other
  waits. A second entry has its turn behind it, due at the same time as the later tick: the first can fail, in this pass and in the one
  before, with the second to come. Any number of entries are in the theorem `ServerFiresAsScheduled`.
- **Versions.** Three writes give a thread an old, a current and a newer version at once, with a
  broken and an unresolvable one among them.
- **Saves.** With a history that may be full, pruning happens at the first save, and a death can be
  followed by another save; two texts are enough for the properties, which compare one text with another.
  One late read is enough to arrive before, during and after a save.
- **Engine.** Two torrents make a quota of one bind and let one torrent's actions change what the
  other's conditions see; with a third, a mishap that lets in one too many still leaves one that must stay out. Of the three, one starts in any
  state and category, tagged or not, one without category and tag, and one stopped (`AnyBesidePlain`); the rules move them through the rest.
  The rules files of `MCRulesEngine` use every action type. Three records on
  pages of two put the records of one torrent on both pages. The theorems have any `Fleets`.
- **Documents.** `MCRulesFile` combines two blocks of conditions that mention each other and themselves with
  all lists of up to two items; a condition beside every kind of group, at the top, nested and in a block; the same lists for actions; every operator with every kind of value and token;
  pairs of rules with stop_on_match, disabled, and misspelt; and, for what is unknown, pairs of leaves over all answers of
  trackie. Deeper documents repeat these: each function recurses on one node at a time. With `MaxNesting = 11` the
  deepest of them is gone through; the theorems of `RulesFileProofs` have documents of any size.

Symmetry of jobs, clients and threads is used only in runs without liveness properties. No cfg
replaces a definition.

### Deadlock

TLC checks for deadlock except in the runs of `RulesEngine` and `RulesFile`, whose subject ends. A server never
stops for good: it can always be started again.

### Fairness

- `WF(WorkerStep)`: a Python thread that can run does, and nothing it waits for is unbounded: queue
  calls have a busy_timeout (5 s) or a socket_timeout (5 s), `stop.wait` has the poll
  interval, and a run of the engine ends (`RunEnds`).
- `WF(SchedulerStep)`: likewise.
- `WF(CancelStep)`: a request in progress goes on to its answer.
- `WF(BootStep \/ Serve \/ CloseQueue \/ Exit)` (`Start` in the place of the first two where the start is one
  step): a shutdown that began goes through (the joins have a timeout), and the
  process is started again, by the restart policy of the documented deployments (docs/wiki/Deployment.md:73).
- `WF(SaveStep)`, `SF(Lock)` for saves: file operations return, and the kernel gives a flock to
  those who wait for it.
- `WF(RunStep)` for the engine: every request to qBittorrent has a timeout (`qbittorrent.py:31`), and those
  to Radarr, Sonarr and webhooks one of 10 s.

Submissions, cancellations, edits, stops, crashes, ticks of the clock and failures are never owed.

## 4. Findings

1. **Redis: a confirmed cancel that runs** (`redis_cancelrace`): check and write are two steps.
   The worker's update later turns cancelled into completed.
2. **A save that does not apply** (`reload_stale`): a `get_rules` that was resolving the old rules stores
   them after the save's reload emptied the cache. The stamp is that of the new file, so the
   old rules stay until the next change, against `api_rules.py:8`.
3. **stats counted out twice** (`engine_stats`): every further action after delete_torrent in the same rule,
   which docs/wiki/Actions.md:941 recommends, decrements the counts again; a quota then admits too
   many torrents.
4. **A valid file that misfires** (`rules_misfire`): `conditions: {$ref: conditions.x}`, where block `x` is a
   single condition, passes the validator and matches every torrent; `actions: {$ref: actions.x}` to a
   single action passes and fails the job. Against `rules_validation.py:953`. There are
   two more kinds of such files. A mapping that holds a group and, beside it, `field`, `operator` and `value`
   passes without an issue when it is nested or a block, and with a warning at the top (`rules_validation.py:567-574`); the engine evaluates only
   the group (`engine.py:306`), so the condition is dropped. And
   a value `${rule.*}` is not looked into (`rules_validation.py:389`), and a comparison that would be reported with the value written out (a size
   that is no size, say) passes. `ValidMeansAsWritten` says that these three are the only such files (`EscapesValidation`).

Also seen, without a run of their own:

- *stats.category is not kept up.* docs/wiki/Advanced-Topics.md:69 says "The same applies to `stats.category.*` and `stats.tag.*` after
  `set_category`/`add_tag`/`remove_tag`"; `engine.py:1474-1483` updates the states and the tags only (`CategoryCountsFollow`
  of `RulesEngine`, refuted by TLC on the rules file `Sort`). A quota on a category admits every match of the run, and a deletion
  later in the run is taken off the category that the torrent was moved to (`engine.py:1496-1499`).
- *stats is no snapshot.* docs/wiki/Conditions.md:479 and the comments at `engine.py:436` and `engine.py:1368` say that
  no action updates it; since v0.7.1 every executed action does (`StatsAreASnapshot`, refuted on any rules file that tags).
- *Jobs cut off stay in processing.* CHANGELOG.md:565 says "Jobs survive server restarts and crashes"; no
  code looks for jobs in processing at startup. Such a job is neither run again nor failed nor cleaned up.
  `StrandedOnlyByFaults` shows the loss is one job per fault, and `RunAtMostOnce` what the choice buys.
- *Redis: a crash inside dequeue loses a pending job*, against docs/wiki/Deployment.md:12 and
  `queue_manager.py:67`; `LostOnlyByFaults` bounds it by the faults.
- *A cancel that loses the race against a dequeue* answers 500 where docs/wiki/HTTP-API-Reference.md:140
  promises 400 (`StartedJobAnswers400` of `SqliteService`, refuted by TLC within a few steps).
- *A start cut off between ALTER TABLE and its version* makes every later start fail (`Wedged` of
  `SqliteServer`; `ComesUpUnlessWedged` says that there is no other such gap).
- *Overdue ticks.* A process that was there but late (a paused container) fires every overdue tick, one per poll, where the
  docstring of `_fire` says there is no catch-up: it holds for ticks from before the start, which is what
  `FiresAsScheduled` says. An enqueue that fails uses up its tick.
- *arr_blocklist after a disturbance.* A request that fails loses the search for good: what was deleted is not
  found again, and after delete_torrent no later run sees the torrent. A record that leaves the queue between two
  pages moves another one out of sight. A 404 on one record abandons the others.
  docs/wiki/Actions.md:945 promises every record and a search for all of them; `ReplacesEveryRecord` says that
  in a run without failing requests and without changes by others it is so.
- *On qBittorrent 5*, whose stopped torrents are `stoppedUP` and `stoppedDL`, the action start is
  taken for already applied on every stopped torrent (`engine.py:743` looks for "paused"), against docs/wiki/Actions.md:77.
  That naming is a fact about qBittorrent and not in this repository: `RulesEngine` with `NamedPaused = {}`
  violates `SuccessMeansDesiredState`.
- *An editor on the host that writes between a save and the read that answers it*
  (`config_store.py:212`): the page is given the ETag of a text it does not show, and its next save
  overwrites that text, against `static/editor.js:9`. `AnsweredEtagIsOfTheText` says that
  nothing else leads there.
- *A 403 replaces the page's baseline but not its buffer* (`editor.js:706`): once the file is writable again, the next
  save overwrites, without a conflict, a text that the page showed only as the other side of its diff.
- *trackie down can delete.* `trackie.py:15` says "A delete rule can therefore never fire because trackie was down". The
  rule that asks trackie is skipped; when it is a protecting rule with stop_on_match, the delete rule behind it
  fires (`DownNeverDeletes` of `RulesMeaning`, refuted on the documents of `UnknownScenario`).
- *Empty groups.* docs/wiki/In-Depth-Configuration.md:388 calls empty groups always true, and so they are at the top of a
  rule; `any: []` inside a list never matches, and `conditions: {}` is refused by the validator.
- *Several groups in one nested mapping* are an error to the validator (`rules_validation.py:639`), which says that only the first is
  evaluated; the engine evaluates all of them (`engine.py:240-258`), as docs/wiki/Conditions.md:20 says.

## 5. Proofs

### SqliteServiceProofs

For any sets of jobs and clients and any bounds, from the assumptions of
`SqliteQueue` and `SqliteService` alone:

| Theorem | States |
| --- | --- |
| `SpecTypeOK` | the type invariant |
| `SpecQueueIsPending` | the queue table is exactly the pending jobs |
| `SpecWorkerOwnsItsJob` | the job in the worker's hands is processing |
| `SpecRunAtMostOnce` | no job runs twice |
| `SpecCancelHonoured` | a confirmed cancel is kept |
| `SpecOutcomeMeansRun` | no outcome without a run |
| `SpecFinishedIsFinal` | a finished job keeps its outcome until it is deleted |
| `SpecImplementsJobQueue` | the service implements `JobQueue` |
| `SpecStrandedOnlyByFaults` | no more jobs are stranded in processing than there were faults |

None of the properties is inductive alone. `CancelHonoured` needs to know that a job in promised is
neither pending nor in the worker's hands; `RunAtMostOnce` that a job in front of its run has not run; both
need the tables to agree, and that in turn needs ids given out from the sequence to be new. The inductive
invariant is

    IInv == TypeOK /\ QueueInv /\ WorkerInv /\ HistoryInv /\ RequestInv

where `QueueInv` relates the two tables and bounds queue ids by the sequence, `WorkerInv` ties
the job in hand to its row and says whether it has run yet, `HistoryInv` relates each job's status to the
runs and promises of the past, and `RequestInv` keeps requests about known jobs. There is a lemma per
action, or per family of actions that leave the tables alone (`QuietIInv`), then `NextIInv`. The
refinement proof maps each action of the service to a step of `JobQueue` or a stutter, under `IInv`.

`SpecStrandedOnlyByFaults` counts, and rests on `StrandedInv`: the jobs in processing are at most `Slack`,
which is the faults so far, plus the job the worker holds, less one while a stop is under way that may still cost a
job: as long as the worker has one, or may still take one up (`Holding`). A stop is counted when it begins and costs a job
only when the queue is closed under the worker or the process exits with a job in its hands; the
property as stated would let the stop pay for one job and the worker's hands hold another, and is not inductive. A worker that
still reaches its loop pays no more: it has let go of its job by an outcome, or has lost it for the stop (`LetsGo`).
A dequeue raises both sides by one, an outcome lowers both, and every other step leaves the set of
jobs in processing alone (`SameStranded`) and `Slack` no smaller (`SlackWhileUp`, `SlackWhenItEnds`).

### SqliteServerProofs

For any schedule as well (`Cron`, any number of entries) and any number of restarts:

| Theorem | States |
| --- | --- |
| `ServerImplementsService` | `ServerSpec => Spec`: every step of the process is one of the service, or leaves it alone |
| `ServerKeepsTheQueue` | hence the tables agree, no job runs twice, a confirmed cancel is kept, in the whole process |
| `ServerTypesOK` | types, and: the server serves only on tables of the current schema |
| `ServerFiresAsScheduled` | a tick enqueues at most one job, in time, never from before the start |

`ServerTypesOK` needs `SchemaInv`: what each statement of the start has behind it, so that version 2 is only
reached with the column. `ServerFiresAsScheduled` is not inductive: that a tick fires once depends on `next_fire` being
later than all that its entry has fired. `ScheduleInv == ClockInv /\ ProcessInv /\ FiredInv /\ AheadInv`;
`AheadInv` says that, and holds across a restart because a new scheduler looks ahead from a clock that all fired ticks are
behind. It is claimed only where the scheduler has been built (`boot = "ready"`): a process that is
starting still has the `next_fire` of the last one in the model, which the code does not have at all.

### RedisServiceProofs

For any sets of jobs and clients and any bounds; the last two under the hypotheses they name:

| Theorem | States |
| --- | --- |
| `RedisTypesOK` | the type invariant |
| `RedisListedArePending` | what LPOP can hand out is pending, whole, and listed once |
| `RedisRunAtMostOnce` | no job runs twice |
| `RedisRunsAsSubmitted` | a job runs with the fields it was submitted with |
| `RedisLosesOnlyByFaults` | no more jobs are lost between list and worker than there were faults |
| `RedisIndexesAreExact` | `Client = {}`: the status sets agree with the hashes at every step |
| `RedisImplementsJobQueue` | `Client = {}`, `MaxRaises = 0`: the service implements `JobQueue` |

The hash of a job says little in this backend: a cancel that passed its check writes it at any time, over any status, and
brings it back after a cleanup (finding 1). What can be relied on is the list. `IInv == TypeOK /\ IssuedInv /\ ListInv /\
WorkerInv /\ RequestInv /\ RunAtMostOnce` says so: ids are handed out once and nothing is written under others
(`IssuedInv`); the list is a part of what was handed out, in that order, and nobody has touched or run any of it
(`ListInv`: a cancel takes the id off the list in the pipeline that writes the hash, which is why that holds); the job in hand
is off the list, whole until its outcome, and has not run before its run (`WorkerInv`); a request past its check is about an id
that was handed out, hence can bring no unknown id into being (`RequestInv`). That LREM keeps the order and leaves nothing else out
is `OnlyProperties` of `SublistProofs`.

`LostOnlyByFaults` counts like `StrandedOnlyByFaults` above: `LostInv` bounds the lost jobs by `Slack`, the faults so far less
the stop that is under way, which pays only once the process is gone.

With clients the indexes are not exact: the cancel race takes a job out of the pending set although it is in another by then.
Without, everybody writes over the status it read (`HandInv`), any replies lost. A lost reply by itself still breaks the
implementation of `JobQueue`: an update to completed that took effect and was not acknowledged is followed by an update
to failed, and a finished job changes its outcome. TLC refutes the one with a client and the other with
`MaxRaises = 1`; both hypotheses are needed, and stops and crashes are allowed under both. The refinement uses
`IInv`, `AloneInv` and `RunInv` (between begin and outcome the job is processing).

The library's induction theorems take an operator as a parameter and cannot be used here. `NatSetInduction` of `SublistProofs`
states induction for a set of numbers; it follows from the well-foundedness of `<` by taking the least number outside the
set, and `KeepsExists` builds with it the function that `Only` is defined by. That is induction on the length of a list,
and all that is needed.

### ConfigReloadProofs

For any number of threads in `Config`, any number of versions of the file, and any choice of those
that do not load or do not resolve:

| Theorem | States |
| --- | --- |
| `ReloadTypesOK` | the type invariant |
| `ReloadServesLoadedRules` | nothing of a version that failed to load is served |
| `ReloadRepairs` | a reload without company makes the four attributes agree |
| `ReloadMissesNoEdit` | the stamp it leaves is not newer than what it loaded |

The inductive invariant is `IInv == TypeOK /\ LoadedInv /\ QuietInv`. `LoadedInv` adds to the first property
that what a thread carries in its locals, to assign or to store later, has been loaded too (`CarriedInv`).
`QuietInv` follows one call without company step by step: before its reload has ended (`Reloads`) and after
(`Reloaded`), what the attributes it has already assigned hold. That is inductive because a call
that is still quiet is alone (`Alone`): no other thread is inside to change what it has assigned, and a thread
that enters ends its quiet. Only the file changes under it, and only to newer versions.

### ConfigStoreProofs

For any number of editors, any texts, any `Keep`, and any bounds on saves, reads, edits and deaths:

| Theorem | States |
| --- | --- |
| `StoreTypesOK` | the type invariant, with the length of the history |
| `StoreAnswersItsText` | the ETag a page holds is that of the text it shows |
| `StoreKeepsABackup` | while the file is torn, the last whole text is in the history |
| `StoreOverwritesOnlyWhatItShowed` | a save overwrites only what its page showed |

`IInv == Typed /\ LockInv /\ SeenInv /\ LengthInv /\ BackupInv`. `LockInv`: the flock is held by the save
that is past it and by no other, so that one save at a time is between its check and its answer. `SeenInv` says what
such a save knows of the file at each step, as long as nobody outside wrote it meanwhile: still the text of
its `If-Match`, then half of its own, then its own. `LengthInv` counts the backup that is being pruned
and one for every save that died before pruning. `BackupInv` is the hard one: while the file is torn, or a save
is under way that found it torn, the last whole text stands no further back in the history than the dead saves and the
backup of the save under way have pushed it, hence within what pruning keeps while fewer than `Keep` saves have died.
The property alone is not inductive, since a save over a torn file backs up the torn text first.

### RulesEngineProofs

`EngineLeavesAlone` states `LeavesAlone` for any torrents, any rules files, any scope and any number of failures and
changes by others. `IInv == Shape /\ ScopeInv /\ DryRunInv /\ FreshInv`: of the types only what the
argument looks at (no rule is looked into), the torrents still to be visited are in scope, only a run for real gets
past its first action, and nothing is marked before the fetch makes the dicts. There is a lemma for the steps that only
move the run on (`MovesOn`), one for those that command the torrent in hand (`Commands`), and one each for
the end of the actions, the fetch, the re-fetch, and the others.

What a run gets right as long as nothing interferes, for any fleet, any rules files and any queue of an arr:

| Theorem | Hypotheses | States |
| --- | --- | --- |
| `EngineTypesOK` | | the type invariant; the loops stand at a rule and an action there are |
| `EngineReplacesEveryRecord` | | arr_blocklist reports success only with every record of the torrent off the queue and searched for |
| `EngineSuccessMeansDesiredState` | `NamedPaused = {"paused"}` | an action counted as executed or already applied has left its torrent as asked |
| `EngineStatsFollowTheFleet` | `DeletesLast` | whenever a rule looks at a torrent, the total and the counts of states and of tags are those of qBittorrent; nothing is claimed of `stats.category`, which the code does not keep up |
| `EngineWithinQuota` | `DeletesLast` | a tag whose every rule has a quota is added to no more torrents than it allows, until something interferes |
| `EngineQuotaHolds` | `DeletesLast`, `MaxMishaps = 0` | hence `QuotaHolds` in a run without interference |

`DeletesLast` says of the rules files that no action follows, in its rule, one that takes the torrent out of
qBittorrent. It is no more than what finding 3 forces: with an action behind a deletion the counts are wrong, which
`engine_stats` shows. `NamedPaused = {"paused"}` is the naming of qBittorrent 4; of 5 the property is false (section 4).
Rules files with and without either exist, so neither hypothesis is empty; the programs of `engine_runs` satisfy both.

    Inv == IInv /\ Typed /\ CallInv /\ ArrInv /\ SyncInv /\ MarkedInv /\ StatsInv

- `Typed` adds to the types that the loops stand at a rule and an action there are (`PlaceInv`), without which
  `rule` and `action` mean nothing.
- `CallInv` follows arr_blocklist request by request, over any number of pages: what of the torrent's records the pages
  so far have shown is found, once each, in the order of the queue; then what is found is what is left to delete or has been
  blocklisted; then what is found is blocklisted and off the queue. It rests on lemmas of
  `SublistProofs` about concatenation: what `Only` picks from one page after another is what it picks from the whole.
- `SyncInv`: the engine's copy of a torrent that is there is right, but for the torrent whose re-fetch is due.
- `MarkedInv`: a copy is marked deleted exactly when the torrent is gone, but for the one in hand, whose
  deletion is the last thing its rule does. This is where `DeletesLast` is needed.
- `StatsInv`: the total and the counts of states and tags are the cardinalities of the copies that are not marked. A re-fetch changes one copy, and each
  count by what that copy was and is (`CountOne`). `StatsFollowTheFleet` compares the counts with the fleet instead,
  and is not inductive: between a command and its re-fetch it is false.

All but `IInv`, the types and `ArrInv` are claimed for as long as no request has failed and nobody else has changed anything. `QuotaInv`, for the last
two theorems, says what a match buys: as long as the torrent in hand has actions to come, the others with the tag of a
quota are fewer than it allows. It holds at the match because the counts are the fleet's then, and lasts
because no other torrent changes before the next one is looked at.

### RulesFileProofs

For any documents, however nested and however their blocks name each other, any resolver and validator, any torrents,
and any number of changes of trackie:

| Theorem | States |
| --- | --- |
| `EvaluateKeeps` | what the evaluator decides on some data it decides the same on more |
| `RulesFileTypesOK` | the type invariant |
| `RulesFileNeverGuesses` | a rule that matched on missing data matches whatever the data turn out to be |
| `RulesFileNoContradiction` | two opposite rules never both match in a run |
| `RulesFileResolvesUnlessBroken` | a job fails on its rules exactly when the text of a rule breaks them |

`RulesFileAssumption` says what documents, torrents and answers are: `rules` is a list; a rule that resolves keeps its id, and
its actions, if a list, are one; an answer of trackie is a failure or a record; a field is no value, one, or several. Nothing is
assumed of the conditions and actions themselves, which may be any data, well formed or not.

The evaluator is recursive over data, and its proof is an induction over heights. `KnowsMore(t, snap, t2, snap2)` orders what
is known: every field that reads as a value in the one reads as the same in the other. An outcome is *kept* if it was not a yes
or a no, or is the same. `LeafKeeps` has that for one condition; `FirstOtherKeeps` for all, any and none, where it matters that
an exception ends the evaluation where it occurs (what comes before the first deciding condition was decided, hence
kept); `OutcomesKeep` carries it up from the deepest conditions, and `EvaluateKeeps` to a rule. The inductive invariant is

    IInv == Typed /\ Evaluated

`Evaluated` says that a rule that matched matches on what is known *now*, although the one fetch of the run may have come
in between: a snapshot says more than none (`FetchKnowsMore`). From there, `NeverGuesses` is `EvaluateKeeps` once more (every possible torrent
and snapshot says more than the ones at hand, `PossibleKnowsMore`), and `NoContradiction` follows because both rules match on
one snapshot (`OppositeContradicts` for a condition and its negation, `GroupsContradict` for any and none of the same).

`RulesFileResolvesUnlessBroken` compares two descriptions of the same graph. That a broken rule fails (`BrokenFails`): where no
visit is faulty, what stands in a visited block is visited with the block's stack (`NodesAreVisited`), so the blocks named
in visited places are closed under naming (`ReachedAreNamed`) and hold all that the rule gets to; the blocks named beneath a block `b` are
closed too, and hold all that `b` gets to, but `b` itself would be among its own stack there. That only broken rules fail (`FailsBroken`):
by induction on the depth, each visit is in the rule or in a block it gets to, which every block of the stack is or
gets to (`VisitsAtHome`); so a `$ref` to a block of the stack closes a cycle. The last disjunct of the property, `TooDeep`, is a
walk that ends at Python's recursion limit, which a file may do without being broken; none of the documents of the runs does.

### Only model-checked

- All of liveness, which is outside TLAPS: `ListedLeaves`, `PendingLeavesTheLine`, `EveryTickIsGoneThrough`,
  `ComesUpUnlessWedged`, `SaveEnds`, `RunEnds`.
- That `CategoryCountsFollow` and `StatsAreASnapshot` do not hold is the finding of TLC; no theorem speaks of `stats.category`.
- `QuotaHolds` with failing requests and other users, whose bound counts what each of them may add to the error of the counts.
- `StatsFollowTheFleet` of single rules files that have an action behind a deletion and never reach it.
- `ValidMeansAsWritten` of `RulesMeaning`, which compares the validator, the resolved rule and the run with the meaning of the
  text. What a rule resolves to, what the linter finds and what a text means are RECURSIVE operators over documents, about
  which TLAPS proves nothing; it is checked over documents enumerated up to a size.

The theorems `SpecTypeOK`, `SpecOutcomeMeansRun`, `SpecFinishedIsFinal` and `EvaluateKeeps` have no run: they are proved.

## 6. Not modelled

- Settings (`config.py`), the command line, its client and its output: parsed once, or outside the server.
- Dashboard pages, sessions, metrics, logging, errors, utilities: nothing that a job's life depends on.
- Of the engine: file priorities and the payloads of notifications (commands that succeed or fail), the
  comparison of numbers, sizes, dates and regular expressions (one value per outcome), the sums in `stats.*`.
- Of the validator: unknown keys (but for a condition beside groups), unused blocks, duplicate YAML keys, contexts, the params of actions other
  than delete_files, and positions of issues. Of the resolver: tokens inside longer text. A value put in for a
  variable is not looked into again, in the model as in the code.
- Of arr_blocklist: records without an episodeId, the look-up of the service's configuration.
- Of the editor's storage: listing and reading of history entries, the redacted view of `config.yaml`.
- SQLite itself (isolation, durability) and Redis' MULTI/EXEC are taken at their word.
- The context index and get_stats of the backends: reports.
- Connection state and re-authentication of the qBittorrent client: a failure to connect is a failing request.

## 7. Plan

Done, in order of importance: `JobQueue`, `SqliteQueue`, `SqliteService`, `RedisQueue`,
`RedisService`, `ConfigReload`, `RulesEngine`, `ConfigStore`, `SqliteServiceProofs`, `SqliteServer`,
`SqliteServerProofs`, `RuleTree`, `RuleReferences`, `RuleResolver`, `RulesStructure`, `RulesValidation`, `ConditionEvaluator`,
`RulesFile`, `RulesMeaning`, `ArrBlocklist`, `ConfigReloadProofs`, `ConfigStoreProofs`, `RulesEngineProofs`, `Sublists`,
`SublistProofs`, `RedisServiceProofs`, `RulesFileProofs`.

What would come next:

1. **ApiClient**: wait and dry-run-with-cancel over the job API (`api_client.py:94-174`): a wait that
   times out, a dry run cancelled while it starts.
2. Compositions: ConfigStore with ConfigReload (what a save answered is what the next job
   runs); the `EngineEnds` of the services with `RulesEngine`; `SqliteServer` on the Redis backend.
3. Proofs: `QuotaHolds` with mishaps, from a bound on how far the counts are from the fleet after each; the expansion of `$ref`s
   and the meaning of a text by depth, as `VisitsAt` and `Outcomes` are, and with them `ValidMeansAsWritten`.
