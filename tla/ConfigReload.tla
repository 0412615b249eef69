---------------------------- MODULE ConfigReload ----------------------------
(***************************************************************************)
(* rules.yml with hot reload (config_loader.Config): one object, without a *)
(* lock, shared by the worker thread (engine.run), the dashboard's request *)
(* threads (web.py) and the editor's save (api_rules._save), over a file   *)
(* that the editor and anything else on the host may replace at any time.  *)
(*                                                                         *)
(* A version number stands for one content of the file and for its stamp:  *)
(* no two writes leave the same mtime, size and inode.  Each action is one *)
(* read or write of what the threads share.                                *)
(***************************************************************************)
EXTENDS Naturals

CONSTANTS
    Thread,         \* the threads that may be inside Config at once
    MaxVersion,     \* bound on the writes of rules.yml
    Broken,         \* versions load_yaml_file or check_rules_structure rejects
    Unresolvable    \* versions that load, and whose $refs do not resolve

Version == 0 .. MaxVersion
Loadable == Version \ Broken
Good == Loadable \ Unresolvable

ASSUME ConfigReloadAssumption ==
    MaxVersion \in Nat /\ Broken \subseteq Version /\ Unresolvable \subseteq Loadable

VARIABLES
    disk,           \* rules.yml
    rules,          \* Config.rules
    resolver,       \* Config._resolver
    cache,          \* Config._resolved_rules_cache
    rulesStamp,     \* Config._rules_stamp
    call,           \* each thread's call in progress: its locals
    answered        \* history: the newest version a save was answered for

shared == <<rules, resolver, cache, rulesStamp>>
vars == <<disk, shared, call, answered>>

None == [raw |-> MaxVersion + 1, via |-> {}]
NoStamp == MaxVersion + 1

\* The raw rules of one version, each resolved against some version's refs.
Resolved == [raw : Version, via : SUBSET Version]

\* Beside the locals: quiet says no other thread was in Config during the call,
\* reloaded that the call replaced the rules, owed what answered was at its start.
Call == [pc : {"idle", "stat", "compare", "read", "rules", "resolver", "drop", "stamp",
               "cached", "first", "second", "store", "answer"},
         force : BOOLEAN, stamp : Version, content : Version,
         result : Resolved, quiet : BOOLEAN, reloaded : BOOLEAN, owed : Version]

TypeOK ==
    /\ disk \in Version
    /\ rules \in Version
    /\ resolver \in Version
    /\ cache \in Resolved \cup {None}
    /\ rulesStamp \in Version \cup {NoStamp}
    /\ call \in [Thread -> Call]
    /\ answered \in Version

NoCall == [pc |-> "idle", force |-> FALSE, stamp |-> 0, content |-> 0,
           result |-> [raw |-> 0, via |-> {}],
           quiet |-> TRUE, reloaded |-> FALSE, owed |-> 0]

\* __init__ loads the file and leaves the stamp to the first get_rules.
Init ==
    /\ disk \in Loadable
    /\ rules = disk
    /\ resolver = disk
    /\ cache = None
    /\ rulesStamp = NoStamp
    /\ call = [t \in Thread |-> NoCall]
    /\ answered = 0

At(t, pc) == call[t].pc = pc
Goes(t, pc) == call' = [call EXCEPT ![t].pc = pc]
Returns(t) == call' = [call EXCEPT ![t] = NoCall]

\* reload_rules is over, one way or the other.
ReloadEnds(t) == IF call[t].force THEN Returns(t) ELSE Goes(t, "cached")

Enters(t, force) ==
    /\ At(t, "idle")
    /\ LET quiet == \A u \in Thread \ {t} : At(u, "idle") IN
         call' = [u \in Thread |->
                    IF u = t THEN [NoCall EXCEPT !.pc = "stat", !.force = force,
                                                 !.quiet = quiet, !.owed = answered]
                    ELSE IF At(u, "idle") THEN call[u] ELSE [call[u] EXCEPT !.quiet = FALSE]]

-----------------------------------------------------------------------------
(* rules.yml changes on disk.                                              *)

\* An editor, a deployment, a restored backup: anything, at any time.
EditFile ==
    /\ \E v \in Version : v > disk /\ disk' = v
    /\ UNCHANGED <<shared, call, answered>>

\* _save: validate_rules_text lets only a good text through to store.write.
SaveFile(t) ==
    /\ \E v \in Good : v > disk /\ disk' = v
    /\ Enters(t, TRUE)
    /\ UNCHANGED <<shared, answered>>

-----------------------------------------------------------------------------
(* get_rules(), and reload_rules(force=True) after a save.                 *)

GetRules(t) ==
    /\ Enters(t, FALSE)
    /\ UNCHANGED <<disk, shared, answered>>

\* Mutant of CurrentRulesStamp: a missing file has the stamp None.
StampOfMissingIsNone(t) ==
    /\ At(t, "stat")
    /\ call' = [call EXCEPT ![t].pc = "compare",
                            ![t].stamp = IF disk = 0 THEN NoStamp ELSE disk]
    /\ UNCHANGED <<disk, shared, answered>>

CurrentRulesStamp(t) ==
    /\ At(t, "stat")
    /\ call' = [call EXCEPT ![t].pc = "compare", ![t].stamp = disk]
    /\ UNCHANGED <<disk, shared, answered>>

CompareStamp(t) ==
    /\ At(t, "compare")
    /\ IF ~call[t].force /\ call[t].stamp = rulesStamp
       THEN ReloadEnds(t)
       ELSE Goes(t, "read")
    /\ UNCHANGED <<disk, shared, answered>>

\* Mutant of LoadRules: assigned before it is validated.
LoadRulesUnchecked(t) ==
    /\ At(t, "read")
    /\ call' = [call EXCEPT ![t].pc = "rules", ![t].content = disk]
    /\ UNCHANGED <<disk, shared, answered>>

\* Everything is validated before any of it is assigned; a failure is logged,
\* by get_rules and by _save alike.
LoadRules(t) ==
    /\ At(t, "read")
    /\ IF disk \in Broken
       THEN ReloadEnds(t)
       ELSE call' = [call EXCEPT ![t].pc = "rules", ![t].content = disk]
    /\ UNCHANGED <<disk, shared, answered>>

AssignRules(t) ==
    /\ At(t, "rules")
    /\ rules' = call[t].content
    /\ Goes(t, "resolver")
    /\ UNCHANGED <<disk, resolver, cache, rulesStamp, answered>>

AssignResolver(t) ==
    /\ At(t, "resolver")
    /\ resolver' = call[t].content
    /\ Goes(t, "drop")
    /\ UNCHANGED <<disk, rules, cache, rulesStamp, answered>>

\* Mutant of DropCache: the resolved rules stay cached.
KeepCache(t) ==
    /\ At(t, "drop")
    /\ Goes(t, "stamp")
    /\ UNCHANGED <<disk, shared, answered>>

DropCache(t) ==
    /\ At(t, "drop")
    /\ cache' = None
    /\ Goes(t, "stamp")
    /\ UNCHANGED <<disk, rules, resolver, rulesStamp, answered>>

\* Mutant of AssignStamp: the stamp is taken after the load.
StampAfterLoad(t) ==
    /\ At(t, "stamp")
    /\ rulesStamp' = disk
    /\ IF call[t].force
       THEN /\ Returns(t)
            /\ answered' = IF call[t].content > answered THEN call[t].content ELSE answered
       ELSE /\ call' = [call EXCEPT ![t].pc = "cached", ![t].reloaded = TRUE]
            /\ UNCHANGED answered
    /\ UNCHANGED <<disk, rules, resolver, cache>>

\* A forced reload ends here, and with it the save.
AssignStamp(t) ==
    /\ At(t, "stamp")
    /\ rulesStamp' = call[t].stamp
    /\ IF call[t].force
       THEN /\ Returns(t)
            /\ answered' = IF call[t].content > answered THEN call[t].content ELSE answered
       ELSE /\ call' = [call EXCEPT ![t].pc = "cached", ![t].reloaded = TRUE]
            /\ UNCHANGED answered
    /\ UNCHANGED <<disk, rules, resolver, cache>>

\* The test of the cache, or the loop's one read of self.rules.
TestCache(t) ==
    /\ At(t, "cached")
    /\ IF cache # None
       THEN Goes(t, "answer")
       ELSE call' = [call EXCEPT ![t].pc = "first",
                                 ![t].result = [raw |-> rules, via |-> {}]]
    /\ UNCHANGED <<disk, shared, answered>>

\* self._resolver is read again for every rule: two stand for any number.  An
\* unresolvable $ref raises, and rules of one version may miss another's refs.
ResolveRule(t) ==
    /\ At(t, "first") \/ At(t, "second")
    /\ \/ /\ resolver \in Unresolvable \/ resolver # call[t].result.raw
          /\ Returns(t)
       \/ /\ ~(resolver \in Unresolvable /\ resolver = call[t].result.raw)
          /\ call' = [call EXCEPT ![t].pc = IF @ = "first" THEN "second" ELSE "store",
                                  ![t].result.via = @ \cup {resolver}]
    /\ UNCHANGED <<disk, shared, answered>>

StoreCache(t) ==
    /\ At(t, "store")
    /\ cache' = call[t].result
    /\ Goes(t, "answer")
    /\ UNCHANGED <<disk, rules, resolver, rulesStamp, answered>>

\* Both returns read self._resolved_rules_cache anew.
AnswerCache(t) ==
    /\ At(t, "answer")
    /\ Returns(t)
    /\ UNCHANGED <<disk, shared, answered>>

-----------------------------------------------------------------------------
Next ==
    \/ EditFile
    \/ \E t \in Thread :
         \/ SaveFile(t) \/ GetRules(t)
         \/ CurrentRulesStamp(t) \/ CompareStamp(t) \/ LoadRules(t)
         \/ AssignRules(t) \/ AssignResolver(t) \/ DropCache(t) \/ AssignStamp(t)
         \/ TestCache(t) \/ ResolveRule(t) \/ StoreCache(t) \/ AnswerCache(t)

Spec == Init /\ [][Next]_vars

-----------------------------------------------------------------------------
(* Correctness.                                                            *)

Answering(t) == At(t, "answer")

\* However the threads interleave, no rule of a file that failed to load is ever
\* in use, and none is resolved with the refs of one ("the server keeps using
\* the last known-good rules", CHANGELOG.md:291).
OnlyLoadedRulesServed ==
    /\ {rules, resolver} \subseteq Loadable
    /\ cache # None => {cache.raw} \cup cache.via \subseteq Loadable

\* One call without company repairs whatever races left behind: it answers a
\* list, resolved against its own refs, of the version it reloaded.
QuietReloadServesTheFile ==
    \A t \in Thread :
        Answering(t) /\ call[t].quiet /\ call[t].reloaded =>
            cache = [raw |-> call[t].content, via |-> {call[t].content}]

\* The stamp is taken before the content: an edit that lands in the middle of a
\* load is never recorded as loaded, so the next call sees it.
NoEditGoesUnnoticed ==
    \A t \in Thread :
        Answering(t) /\ call[t].quiet /\ call[t].reloaded =>
            rulesStamp <= rules

\* "A save applies to the next job without a restart" (api_rules.py:8): a call
\* that begins after a save was answered, with no other thread in Config, serves
\* the saved version or a newer one.
SavedRulesApply ==
    \A t \in Thread :
        Answering(t) /\ call[t].quiet => cache.raw >= call[t].owed
=============================================================================
