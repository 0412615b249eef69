---------------------------- MODULE RulesEngine -----------------------------
(***************************************************************************)
(* One run of the rules engine (engine.RulesEngine.run): rules in file     *)
(* order over the torrents of one fetch, against a qBittorrent that obeys  *)
(* commands, loses some, and has other users.                              *)
(*                                                                         *)
(* A torrent is its state, its category and its tags; "notify" stands for  *)
(* every action that leaves these alone (recheck, reannounce, limits,      *)
(* priorities, file priorities), but for arr_blocklist (ArrBlocklist).  A  *)
(* condition is what it says of the state, the category, the tags and the  *)
(* stats.tag counts.  The sums in stats.* (speeds, seeds, leechs), which   *)
(* the fetch sets and nothing updates, are left out.                       *)
(***************************************************************************)
EXTENDS Integers, ArrBlocklist

CONSTANTS
    Tag, Category,
    NoCategory,     \* the category "" of a torrent that has none
    Programs,       \* the rules files considered: sequences of rules
    Fleets,         \* what runs may find in qBittorrent
    Scopes,         \* what runs are asked for: all torrents, or the one of a hash
    NamedPaused,    \* the states whose name contains "paused"
    MaxMishaps      \* bound on requests that fail and changes made by others

State == {"paused", "running", "forced"}

InCategory == Category \cup {NoCategory}

InClient == [alive : BOOLEAN, state : State, category : InCategory, tags : SUBSET Tag]

ActionType == {"stop", "start", "force_start", "release_force_start", "set_category", "add_tag",
               "remove_tag", "set_tags", "delete_torrent", "notify", "arr_blocklist"}
Action == [type : ActionType, tags : SUBSET Tag, category : InCategory,
           params : SUBSET {"search", "remove_from_client"}]

\* contexts = {} is a rule without a context requirement.
Rule == [enabled : BOOLEAN, contexts : SUBSET {"cleanup", "import"},
         states : SUBSET State, categories : SUBSET InCategory, lacks : SUBSET Tag,
         quotas : SUBSET [tag : Tag, max : 0 .. Cardinality(Torrent)],
         actions : Seq(Action), stop_on_match : BOOLEAN]

ASSUME RulesEngineAssumption ==
    /\ IsFiniteSet(Torrent)
    /\ NoCategory \notin Category
    /\ Programs \subseteq Seq(Rule)
    /\ Fleets \subseteq [Torrent -> InClient]
    /\ \A f \in Fleets, t \in Torrent : f[t].alive
    /\ Scopes \subseteq {Torrent} \cup {{t} : t \in Torrent}
    /\ NamedPaused \subseteq State
    /\ MaxMishaps \in Nat

VARIABLES
    fleet,          \* the torrents in qBittorrent
    program,        \* the rules get_rules answered
    job,            \* the run's context and dry_run, and the torrents in scope
    local,          \* the torrent dicts of the one get_torrents call
    stats,          \* evaluator.stats: the counts conditions can ask for
    processed,      \* processed_torrents
    totals,         \* RuleStats, and ActionExecutor.already_applied
    at,             \* where the run is
    faults,         \* requests that failed so far
    outside         \* changes by others so far

runVars == <<program, job>>
engineVars == <<fleet, runVars, local, stats, processed, totals, at, faults, outside>>
vars == <<engineVars, arrVars>>

Local == [state : State, category : InCategory, tags : SUBSET Tag, deleted : BOOLEAN]

TypeOK ==
    /\ ArrTypeOK
    /\ fleet \in [Torrent -> InClient]
    /\ program \in Programs
    /\ job \in [context : {"cleanup", "import", "none"}, dry_run : BOOLEAN,
                scope : SUBSET Torrent]
    /\ local \in [Torrent -> Local]
    /\ stats \in [state : [State -> Int], category : [Category -> Int], tag : [Tag -> Int],
                  total : Int]
    /\ processed \subseteq Torrent
    /\ totals \in [matched : Nat, executed : Nat, skipped : Nat, errors : Nat,
                   already : Nat]
    /\ at \in [pc : {"fetch", "rule", "torrent", "action", "arr", "refetch", "done",
                     "raised"},
               rule : Nat, left : SUBSET Torrent, torrent : Torrent \cup {NoTorrent},
               action : Nat]
    /\ faults \in Nat
    /\ outside \in Nat

Alive == {t \in Torrent : fleet[t].alive}
CountState(s) == Cardinality({t \in Alive : fleet[t].state = s})
CountCategory(c) == Cardinality({t \in Alive : fleet[t].category = c})
CountTag(g) == Cardinality({t \in Alive : g \in fleet[t].tags})

Fetched(t) == [state |-> fleet[t].state, category |-> fleet[t].category, tags |-> fleet[t].tags,
               deleted |-> FALSE]

Init ==
    /\ ArrInit
    /\ fleet \in Fleets
    /\ program \in Programs
    /\ job \in [context : {"cleanup", "none"}, dry_run : BOOLEAN,
                scope : Scopes]
    /\ local = [t \in Torrent |-> Fetched(t)]
    /\ stats = [state |-> [s \in State |-> 0], category |-> [c \in Category |-> 0],
                tag |-> [g \in Tag |-> 0], total |-> 0]
    /\ processed = {}
    /\ totals = [matched |-> 0, executed |-> 0, skipped |-> 0, errors |-> 0, already |-> 0]
    /\ at = [pc |-> "fetch", rule |-> 1, left |-> {}, torrent |-> NoTorrent, action |-> 1]
    /\ faults = 0
    /\ outside = 0

Fault == faults + outside < MaxMishaps /\ faults' = faults + 1
Outside == faults + outside < MaxMishaps /\ outside' = outside + 1
Goes(pc) == at' = [at EXCEPT !.pc = pc]
Counts(f) == totals' = [totals EXCEPT ![f] = @ + 1]

rule == program[at.rule]
action == rule.actions[at.action]
known == local[at.torrent]

NextAction == at' = [at EXCEPT !.pc = "action", !.action = @ + 1]

-----------------------------------------------------------------------------
(* The run.                                                                *)

\* stats.* counts every torrent, whatever the scope.  A torrent asked for by
\* hash that is not there ends the run.
FetchTorrents ==
    /\ at.pc = "fetch"
    /\ local' = [t \in Torrent |-> Fetched(t)]
    /\ job' = [job EXCEPT !.scope = @ \cap Alive]
    /\ stats' = [state |-> [s \in State |-> CountState(s)],
                 category |-> [c \in Category |-> CountCategory(c)],
                 tag |-> [g \in Tag |-> CountTag(g)],
                 total |-> Cardinality(Alive)]
    /\ Goes(IF job.scope \cap Alive = {} THEN "done" ELSE "rule")
    /\ UNCHANGED <<fleet, program, processed, totals, faults, outside>>

\* qBittorrent does not answer: run raises, and the job fails.
FetchFails ==
    /\ at.pc = "fetch"
    /\ Fault
    /\ Goes("raised")
    /\ UNCHANGED <<fleet, runVars, local, stats, processed, totals, outside>>

\* Mutant of NextRule: a disabled rule is looked at again.
NextRuleStuck ==
    /\ at.pc = "rule"
    /\ at' = IF at.rule > Len(program) THEN [at EXCEPT !.pc = "done"]
             ELSE IF rule.enabled
                  THEN [at EXCEPT !.pc = "torrent", !.left = job.scope]
                  ELSE at
    /\ UNCHANGED <<fleet, runVars, local, stats, processed, totals, faults, outside>>

NextRule ==
    /\ at.pc = "rule"
    /\ at' = IF at.rule > Len(program) THEN [at EXCEPT !.pc = "done"]
             ELSE IF rule.enabled
                  THEN [at EXCEPT !.pc = "torrent", !.left = job.scope]
                  ELSE [at EXCEPT !.rule = @ + 1]
    /\ UNCHANGED <<fleet, runVars, local, stats, processed, totals, faults, outside>>

RuleEnds ==
    /\ at.pc = "torrent"
    /\ at.left = {}
    /\ at' = [at EXCEPT !.pc = "rule", !.rule = @ + 1]
    /\ UNCHANGED <<fleet, runVars, local, stats, processed, totals, faults, outside>>

\* Mutant of Spared: _deleted is not looked at.
SparedIfProcessed(t) == t \in processed

Spared(t) == t \in processed \/ local[t].deleted

EvaluateContext == rule.contexts = {} \/ job.context \in rule.contexts

Evaluate(t) ==
    /\ EvaluateContext
    /\ local[t].state \in rule.states
    /\ local[t].category \in rule.categories
    /\ local[t].tags \cap rule.lacks = {}
    /\ \A q \in rule.quotas : stats.tag[q.tag] < q.max

SkipTorrent(t) ==
    /\ at.pc = "torrent"
    /\ t \in at.left
    /\ Spared(t) \/ ~Evaluate(t)
    /\ at' = [at EXCEPT !.left = @ \ {t}]
    /\ UNCHANGED <<fleet, runVars, local, stats, processed, totals, faults, outside>>

\* A condition that cannot be evaluated (a request failed, data not ready)
\* makes the rule not match, inside a none group too.
EvaluationFails(t) ==
    /\ at.pc = "torrent"
    /\ t \in at.left
    /\ ~Spared(t) /\ EvaluateContext
    /\ Fault
    /\ at' = [at EXCEPT !.left = @ \ {t}]
    /\ UNCHANGED <<fleet, runVars, local, stats, processed, totals, outside>>

MatchTorrent(t) ==
    /\ at.pc = "torrent"
    /\ t \in at.left
    /\ ~Spared(t) /\ Evaluate(t)
    /\ Counts("matched")
    /\ at' = [at EXCEPT !.pc = "action", !.left = @ \ {t}, !.torrent = t, !.action = 1]
    /\ UNCHANGED <<fleet, runVars, local, stats, processed, faults, outside>>

ActionsEnd ==
    /\ at.pc = "action"
    /\ at.action > Len(rule.actions)
    /\ processed' = IF rule.stop_on_match THEN processed \cup {at.torrent} ELSE processed
    /\ at' = [at EXCEPT !.pc = "torrent", !.torrent = NoTorrent, !.action = 1]
    /\ UNCHANGED <<fleet, runVars, local, stats, totals, faults, outside>>

-----------------------------------------------------------------------------
(* One action: ActionExecutor.execute.                                     *)

AtAction == at.pc = "action" /\ at.action <= Len(rule.actions)

AlreadyApplied ==
    CASE action.type = "stop" -> known.state \in NamedPaused
      [] action.type = "start" -> known.state \notin NamedPaused
      [] action.type = "force_start" -> known.state = "forced"
      [] action.type = "release_force_start" -> known.state # "forced"
      [] action.type = "set_category" -> known.category = action.category
      [] action.type = "add_tag" -> action.tags \subseteq known.tags
      [] action.type = "remove_tag" -> action.tags \cap known.tags = {}
      [] OTHER -> FALSE

SkipApplied ==
    /\ AtAction
    /\ AlreadyApplied
    /\ totals' = [totals EXCEPT !.skipped = @ + 1, !.already = @ + 1]
    /\ NextAction
    /\ UNCHANGED <<fleet, runVars, local, stats, processed, faults, outside>>

DryRun ==
    /\ AtAction
    /\ ~AlreadyApplied
    /\ job.dry_run
    /\ Counts("skipped")
    /\ NextAction
    /\ UNCHANGED <<fleet, runVars, local, stats, processed, faults, outside>>

\* What qBittorrent makes of the command; one for a hash it does not have is
\* accepted and does nothing.  set_tags removes the tags the engine knows of.
Commanded(f) ==
    IF ~f.alive THEN f
    ELSE CASE action.type = "stop" -> [f EXCEPT !.state = "paused"]
           [] action.type = "start" ->
                [f EXCEPT !.state = IF @ = "paused" THEN "running" ELSE @]
           [] action.type = "force_start" -> [f EXCEPT !.state = "forced"]
           [] action.type = "release_force_start" ->
                [f EXCEPT !.state = IF @ = "forced" THEN "running" ELSE @]
           [] action.type = "set_category" -> [f EXCEPT !.category = action.category]
           [] action.type = "add_tag" -> [f EXCEPT !.tags = @ \cup action.tags]
           [] action.type = "remove_tag" -> [f EXCEPT !.tags = @ \ action.tags]
           [] action.type = "set_tags" ->
                [f EXCEPT !.tags = (@ \ known.tags) \cup action.tags]
           [] action.type = "delete_torrent" -> [f EXCEPT !.alive = FALSE]
           [] action.type \in {"notify", "arr_blocklist"} -> f

\* A failing command may have been obeyed; set_tags may have stopped half way.
FailedCommand(f) ==
    {f, Commanded(f)} \cup
    (IF action.type = "set_tags" THEN {[f EXCEPT !.tags = @ \ known.tags]} ELSE {})

ExecuteAction ==
    /\ AtAction
    /\ ~AlreadyApplied /\ ~job.dry_run
    /\ action.type # "arr_blocklist"
    /\ fleet' = [fleet EXCEPT ![at.torrent] = Commanded(@)]
    /\ Counts("executed")
    /\ Goes("refetch")
    /\ UNCHANGED <<runVars, local, stats, processed, faults, outside>>

\* Counted as an error, without a re-fetch; the rule goes on.  Also an arr_blocklist
\* for an arr that is not configured.
ActionFails ==
    /\ AtAction
    /\ ~AlreadyApplied /\ ~job.dry_run
    /\ Fault
    /\ \E f \in FailedCommand(fleet[at.torrent]) :
         fleet' = [fleet EXCEPT ![at.torrent] = f]
    /\ Counts("errors")
    /\ NextAction
    /\ UNCHANGED <<runVars, local, stats, processed, outside>>

-----------------------------------------------------------------------------
(* The requests of arr_blocklist; the run waits for each of them.          *)

Begin ==
    /\ AtAction
    /\ action.type = "arr_blocklist" /\ ~job.dry_run
    /\ BeginBlocklist
    /\ Goes("arr")
    /\ UNCHANGED <<fleet, runVars, local, stats, processed, totals, faults, outside>>

\* The arr takes the torrent out of qBittorrent together with its record.
RemovedFromClient ==
    fleet' = IF "remove_from_client" \in action.params /\ blocklisted' # blocklisted
             THEN [fleet EXCEPT ![at.torrent].alive = FALSE] ELSE fleet

BlocklistStep ==
    /\ at.pc = "arr"
    /\ QueryPage(at.torrent) \/ DeleteRecord("search" \in action.params) \/ Search
    /\ RemovedFromClient
    /\ UNCHANGED <<runVars, local, stats, processed, totals, at, faults, outside>>

BlocklistSucceeds ==
    /\ at.pc = "arr"
    /\ call.step = "done"
    /\ call' = NoCall
    /\ Counts("executed")
    /\ Goes("refetch")
    /\ UNCHANGED <<fleet, runVars, local, stats, processed, faults, outside>>
    /\ UNCHANGED <<arrQueue, blocklisted, searched>>

BlocklistFails ==
    /\ at.pc = "arr"
    /\ \/ RecordGone /\ UNCHANGED faults
       \/ RequestFails /\ Fault
    /\ RemovedFromClient
    /\ Counts("errors")
    /\ NextAction
    /\ UNCHANGED <<runVars, local, stats, processed, outside>>

\* The arr's queue moves on, which makes a difference between two requests.
ArrMovesOn ==
    /\ at.pc = "arr"
    /\ Outside
    /\ \E r \in Record : LeavesArr(r)
    /\ UNCHANGED <<fleet, runVars, local, stats, processed, totals, at, faults>>

-----------------------------------------------------------------------------
(* The re-fetch after every executed action, and the counts it keeps.      *)

One(b) == IF b THEN 1 ELSE 0

\* Mutants of RefetchTorrent: stats stay the snapshot of the fetch; the copy is
\* not updated.
RefetchKeepsStats ==
    /\ at.pc = "refetch"
    /\ fleet[at.torrent].alive
    /\ local' = [local EXCEPT ![at.torrent] = Fetched(at.torrent)]
    /\ NextAction
    /\ UNCHANGED <<fleet, runVars, stats, processed, totals, faults, outside>>
RefetchKeepsCopy ==
    /\ at.pc = "refetch"
    /\ fleet[at.torrent].alive
    /\ NextAction
    /\ UNCHANGED <<fleet, runVars, local, stats, processed, totals, faults, outside>>

\* stats.category stays as it was.
RefetchTorrent ==
    /\ at.pc = "refetch"
    /\ fleet[at.torrent].alive
    /\ LET new == fleet[at.torrent] IN
         /\ local' = [local EXCEPT ![at.torrent] =
              [@ EXCEPT !.state = new.state, !.category = new.category, !.tags = new.tags]]
         /\ stats' = [stats EXCEPT
              !.state = [s \in State |-> @[s] - One(s = known.state) + One(s = new.state)],
              !.tag = [g \in Tag |-> @[g] - One(g \in known.tags) + One(g \in new.tags)]]
    /\ NextAction
    /\ UNCHANGED <<fleet, runVars, processed, totals, faults, outside>>

\* Mutants of RefetchNothing: the tags stay counted; the dict becomes the None
\* that was answered.
RefetchNothingKeepsTags ==
    /\ at.pc = "refetch"
    /\ ~fleet[at.torrent].alive
    /\ local' = [local EXCEPT ![at.torrent].deleted = TRUE]
    /\ stats' = [stats EXCEPT !.state[known.state] = @ - 1, !.total = @ - 1]
    /\ NextAction
    /\ UNCHANGED <<fleet, runVars, processed, totals, faults, outside>>
RefetchNothingAssigns ==
    /\ at.pc = "refetch"
    /\ ~fleet[at.torrent].alive
    /\ local' = [local EXCEPT ![at.torrent] = NoTorrent]
    /\ NextAction
    /\ UNCHANGED <<fleet, runVars, stats, processed, totals, faults, outside>>

RefetchNothing ==
    /\ at.pc = "refetch"
    /\ ~fleet[at.torrent].alive
    /\ local' = [local EXCEPT ![at.torrent].deleted = TRUE]
    /\ stats' = [state |-> [stats.state EXCEPT ![known.state] = @ - 1],
                 category |-> [c \in Category |-> stats.category[c] - One(c = known.category)],
                 tag |-> [g \in Tag |-> stats.tag[g] - One(g \in known.tags)],
                 total |-> stats.total - 1]
    /\ NextAction
    /\ UNCHANGED <<fleet, runVars, processed, totals, faults, outside>>

\* Logged; local and stats stay as they were.
RefetchFails ==
    /\ at.pc = "refetch"
    /\ Fault
    /\ NextAction
    /\ UNCHANGED <<fleet, runVars, local, stats, processed, totals, outside>>

-----------------------------------------------------------------------------
\* Someone else deletes, moves, tags, stops or starts a torrent during the run.
ChangeOutside ==
    /\ at.pc \notin {"done", "raised"}
    /\ Outside
    /\ \E t \in Alive :
         \/ fleet' = [fleet EXCEPT ![t].alive = FALSE]
         \/ \E c \in InCategory \ {fleet[t].category} :
              fleet' = [fleet EXCEPT ![t].category = c]
         \/ \E g \in Tag : fleet' = [fleet EXCEPT ![t].tags = @ \cup {g}]
         \/ fleet' = [fleet EXCEPT ![t].state = IF @ = "paused" THEN "running" ELSE "paused"]
    /\ UNCHANGED <<runVars, local, stats, processed, totals, at, faults>>

EngineStep ==
    \/ FetchTorrents \/ FetchFails \/ NextRule \/ RuleEnds
    \/ \E t \in Torrent : SkipTorrent(t) \/ EvaluationFails(t) \/ MatchTorrent(t)
    \/ ActionsEnd \/ SkipApplied \/ DryRun \/ ExecuteAction \/ ActionFails
    \/ RefetchTorrent \/ RefetchNothing \/ RefetchFails

RunStep ==
    \/ EngineStep /\ UNCHANGED arrVars
    \/ Begin \/ BlocklistStep \/ BlocklistSucceeds \/ BlocklistFails

Next ==
    \/ RunStep
    \/ ChangeOutside /\ UNCHANGED arrVars
    \/ ArrMovesOn

Spec == Init /\ [][Next]_vars

\* The worker thread runs it, and every request to qBittorrent has a timeout.
FairSpec == Spec /\ WF_vars(RunStep)

-----------------------------------------------------------------------------
(* Correctness.                                                            *)

Undisturbed == faults = 0 /\ outside = 0

\* "Kept live for the rest of THIS run" (run, engine.py:1441): whenever a rule
\* is about to look at a torrent, stats.total, stats.state and stats.tag count the
\* torrents qBittorrent has, whatever the actions before it did.  (Failed requests
\* and other users aside; stats.category is another matter, see below.)
StatsFollowTheFleet ==
    at.pc = "torrent" /\ Undisturbed =>
        /\ stats.total = Cardinality(Alive)
        /\ \A s \in State : stats.state[s] = CountState(s)
        /\ \A g \in Tag : stats.tag[g] = CountTag(g)

\* "The same applies to stats.category.* and stats.tag.* after set_category/add_tag/
\* remove_tag" (docs/wiki/Advanced-Topics.md:69): the category counts, too, are
\* those of the torrents qBittorrent has, whenever a rule is about to look at one.
CategoryCountsFollow ==
    at.pc = "torrent" /\ Undisturbed => \A c \in Category : stats.category[c] = CountCategory(c)

\* "stats.* is computed once, before any rule in the run executes, and is not updated
\* by actions earlier rules take in that same run" (docs/wiki/Conditions.md:479).
StatsAreASnapshot == [][at.pc # "fetch" => stats' = stats]_vars

\* Every rule that adds tag g admits at most max torrents to it.
GuardedBy(g, max) ==
    \A i \in DOMAIN program :
        (\E k \in DOMAIN program[i].actions :
            /\ program[i].actions[k].type \in {"add_tag", "set_tags"}
            /\ g \in program[i].actions[k].tags)
        => \E q \in program[i].quotas : q.tag = g /\ q.max <= max

\* What the counts may be out by for one request that failed or one change by
\* someone else: a torrent; but one found gone is taken off them again by each
\* further action of the rule.
Slips == {1} \cup {Len(program[i].actions) - 1 : i \in DOMAIN program}

\* "A budget check that should stop admitting new torrents once full"
\* (engine.py:1445): a rule with a stats.tag quota never tags past it in one
\* run, but for as many torrents as the counts may be out by.
QuotaHolds ==
    [][\A g \in Tag : \A max \in 0 .. Cardinality(Torrent) :
         GuardedBy(g, max) /\ outside' = outside /\ CountTag(g)' > CountTag(g)
            => \E s \in Slips : CountTag(g)' <= max + (faults' + outside') * s]_vars

\* What a run leaves alone: all of qBittorrent in a dry run, whatever is not in its
\* scope, and from the next rule on, a torrent that a stop_on_match rule matched or
\* that was seen to be deleted.
LeavesAlone ==
    [][\A t \in Torrent :
         /\ job.dry_run \/ t \notin job.scope =>
               fleet'[t] = fleet[t] \/ outside' > outside
         /\ (t \in processed \/ local[t].deleted) /\ at.torrent # t =>
               at'.torrent # t /\ (t \in processed' \/ local'[t].deleted)]_vars

Satisfied(f, a) ==
    CASE a.type = "stop" -> f.state = "paused"
      [] a.type = "start" -> f.state # "paused"
      [] a.type = "force_start" -> f.state = "forced"
      [] a.type = "release_force_start" -> f.state # "forced"
      [] a.type = "set_category" -> f.category = a.category
      [] a.type = "add_tag" -> a.tags \subseteq f.tags
      [] a.type = "remove_tag" -> a.tags \cap f.tags = {}
      [] a.type = "set_tags" -> f.tags = a.tags
      [] a.type = "delete_torrent" -> FALSE
      [] OTHER -> TRUE

\* "Skipped if already in desired state" (docs/wiki/Actions.md:34): an action
\* that is counted as executed or already applied leaves the torrent as asked;
\* the copy the check looks at never misleads it.
SuccessMeansDesiredState ==
    [][(/\ AtAction /\ Undisturbed' /\ ~job.dry_run
        /\ totals'.executed + totals'.skipped > totals.executed + totals.skipped)
       => LET f == fleet[at.torrent]' IN f.alive => Satisfied(f, action)]_vars

\* "Collects all of them, blocklists every record, and triggers one combined
\* search covering every affected episode -- not just the first" (docs/wiki/
\* Actions.md:945): when arr_blocklist reports success, no record of the torrent
\* is queued any more, and all that it took off the queue is searched for.  A
\* failed request takes the search with it, for this run and for later ones; a
\* record that leaves the queue moves one of the next page out of sight.
ReplacesEveryRecord ==
    [][at.pc = "arr" /\ at'.pc = "refetch" /\ Undisturbed
         => /\ RecordsOf(at.torrent) \cap Range(arrQueue) = {}
            /\ "search" \in action.params => Range(call.found) \subseteq blocklisted \cap searched]_vars

\* The run comes to an end, however many actions fail ("engine" never keeps the
\* worker: what SqliteService and RedisService assume of EngineEnds).
RunEnds == <>(at.pc \in {"done", "raised"})
=============================================================================
