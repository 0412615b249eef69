------------------------- MODULE ConditionEvaluator -------------------------
(***************************************************************************)
(* engine.ConditionEvaluator and trackie.py: what a resolved condition     *)
(* comes to for one torrent.  The evaluation of a part ends in "yes", in   *)
(* "no", or in an exception, "raise" or "not ready", which ends it there;  *)
(* evaluate() takes both for no match.                                     *)
(*                                                                         *)
(* A torrent is [info, files, hosts]: its fields, the names in its file    *)
(* list (<<>> until qBittorrent has indexed them), and whether one of its  *)
(* tracker URLs is a host of the account trackie knows.                    *)
(*                                                                         *)
(* A snapshot is what trackie answered this run: nothing yet, a failure,   *)
(* or the torrent's record there, if any, whether that tracker's data is   *)
(* within max_age, and the account's ratio_ok.  "fetch" is the outcome of  *)
(* an evaluation that gets to a tracker.* field before the one fetch of    *)
(* the run.                                                                *)
(***************************************************************************)
EXTENDS RuleTree, FiniteSetsExt

None == [k |-> "none"]
One(v) == [k |-> "one", v |-> v]
Many(items) == [k |-> "many", items |-> items]
NotReady == [k |-> "not ready"]
Raise == [k |-> "raise"]
Fetch == [k |-> "fetch"]
Ends == {"not ready", "raise", "fetch"}

NotFetched == [reply |-> "none yet"]
Unreachable == [reply |-> "failed"]
Answered(record, fresh, account) ==
    [reply |-> "ok", record |-> record, fresh |-> fresh, account |-> account]

-----------------------------------------------------------------------------
(* _get_field_value and _get_tracker_field.                                *)

\* A record may lack the key, and then reads as None.
OfRecord(v) == IF v = "lacks it" THEN None ELSE One(v)

\* The account is that of the record's tracker, or of one the torrent announces to.
HasData(torrent, snap, field) ==
    /\ snap.fresh
    /\ \/ snap.record # "no record"
       \/ field = "tracker.account.ratio_ok" /\ torrent.hosts
    /\ field = "tracker.account.ratio_ok" => snap.account # "no account"

TrackerField(torrent, snap, field) ==
    IF field \notin TrackerFieldNames THEN Raise
    ELSE IF snap = NotFetched THEN Fetch
    ELSE IF snap = Unreachable \/ ~HasData(torrent, snap, field) THEN NotReady
    ELSE OfRecord(IF field = "tracker.status" THEN snap.record ELSE snap.account)

\* Mutant of FilesField: no files yet is an empty list.
FilesFieldEmpty(files) == Many(files)

\* "Returning [] here would let none: [...] conditions vacuously match."
FilesField(files) == IF files = <<>> THEN NotReady ELSE Many(files)

FieldValue(torrent, snap, field) ==
    CASE Namespace(field) = "info" -> torrent.info[field]
      [] Namespace(field) = "files" -> FilesField(torrent.files)
      [] Namespace(field) = "tracker" -> TrackerField(torrent, snap, field)
      [] OTHER -> Raise

-----------------------------------------------------------------------------
(* _apply_operator.                                                        *)

YesNo(b) == IF b THEN "yes" ELSE "no"
Not(outcome) == CASE outcome = "yes" -> "no" [] outcome = "no" -> "yes" [] OTHER -> outcome

\* One value against the rule's.  A malformed number never compares, a
\* malformed size or duration is 0, a malformed regex or text raises; a runtime
\* token is a text like any other here, and no number.
NoNumber == RuntimeTokens \cup {"junk"}
CompareOne(v, op, expected) ==
    IF op \notin Operators THEN "raise"
    ELSE CASE OperatorKind[op] \in {"string", "regex"} /\ expected = "junk" -> "raise"
           [] OperatorKind[op] = "number" /\ expected \in NoNumber -> "no"
           [] OperatorKind[op] \in {"size", "duration"} /\ expected \in NoNumber -> "yes"
           [] OTHER -> YesNo((v = expected) # (op \in Negations))

\* The first of several outcomes that is not the expected one decides.
FirstOther(outcomes, usual) ==
    LET others == {i \in DOMAIN outcomes : outcomes[i] # usual}
    IN IF others = {} THEN usual ELSE outcomes[Min(others)]

\* A missing value satisfies only the negations; of a list, any item satisfies
\* an operator, but all of them must a negation.
ApplyOperator(actual, op, expected) ==
    IF actual \in {None, Many(<<>>)} THEN YesNo(op \in Negations)
    ELSE CASE actual.k = "one" -> CompareOne(actual.v, op, expected)
           [] actual.k = "many" -> FirstOther(
                  [i \in 1 .. Len(actual.items) |-> CompareOne(actual.items[i], op, expected)],
                  IF op \in Negations THEN "yes" ELSE "no")

-----------------------------------------------------------------------------
(* _evaluate_condition, _evaluate_groups, _evaluate_all, _any and _none.   *)

EvaluateLeaf(torrent, snap, leaf) ==
    IF Missing \in {leaf.field, leaf.op, leaf.value} THEN "raise"
    ELSE LET actual == FieldValue(torrent, snap, leaf.field)
         IN IF actual.k \in Ends THEN actual.k
            ELSE ApplyOperator(actual, leaf.op, leaf.value)

\* all, any or none over a group's value, by the outcome of each condition in
\* it; what is not a list cannot be gone through.
EvaluateGroup(group, node, outcome) ==
    IF node.k # "list" THEN "raise"
    ELSE LET outcomes == [i \in 1 .. Len(node.items) |-> outcome[node.items[i]]]
         IN CASE group = "all" -> FirstOther(outcomes, "yes")
              [] group = "any" -> FirstOther(outcomes, "no")
              [] group = "none" -> Not(FirstOther(outcomes, "no"))

\* Every group that is there must pass; no group is no objection.
EvaluateGroups(of, outcome) ==
    FirstOther([i \in 1 .. 3 |->
        LET group == ConditionGroups[i]
        IN IF group \in DOMAIN of THEN EvaluateGroup(group, of[group], outcome) ELSE "yes"], "yes")

\* outcome has those of the conditions in the groups of node; a condition
\* beside the groups is not looked at.
EvaluateCondition(torrent, snap, node, outcome) ==
    CASE HasGroups(node) -> EvaluateGroups(node.of, outcome)
      [] node.k = "leaf" -> EvaluateLeaf(torrent, snap, node)
      [] OTHER -> "raise"

\* The conditions a list or the groups of a mapping hold.
Listed(node) == IF node.k = "list" THEN {node.items[i] : i \in 1 .. Len(node.items)} ELSE {}
Within(node) ==
    CASE node.k = "list" -> Listed(node)
      [] node.k = "groups" -> UNION {Listed(node.of[g]) : g \in GroupsOf(node)}
      [] OTHER -> {}

\* Those that are depth groups below the outermost.
Level(conditions) ==
    LET level[depth \in 0 .. MaxNesting] ==
          IF depth = 0 THEN Within(conditions)
          ELSE UNION {Within(node) : node \in level[depth - 1]}
    IN level

\* What the outermost conditions come to, from the deepest on: at height groups
\* above MaxNesting.  Whoever gets to MaxNesting gets a RecursionError.
Outcomes(torrent, snap, conditions) ==
    LET outcomes[height \in 0 .. MaxNesting] ==
          LET nodes == Level(conditions)[MaxNesting - height] IN
          IF height = 0 THEN [node \in nodes |-> "raise"]
          ELSE LET below == outcomes[height - 1]
               IN [node \in nodes |-> EvaluateCondition(torrent, snap, node, below)]
    IN outcomes[MaxNesting]

\* A rule's conditions: a list is an implicit all; of anything else only the
\* groups are looked at, also where it has none: a mapping without them, or a
\* text, matches every torrent.
Evaluate(torrent, snap, conditions) ==
    LET outcome == Outcomes(torrent, snap, conditions) IN
    CASE conditions.k = "list" -> EvaluateGroup("all", conditions, outcome)
      [] conditions.k = "groups" -> EvaluateGroups(conditions.of, outcome)
      [] conditions.k \in {"leaf", "text"} -> "yes"
      [] OTHER -> "raise"

\* Does the evaluation get to a tracker.* field?
AsksTrackie(torrent, conditions) == Evaluate(torrent, NotFetched, conditions) = "fetch"
=============================================================================
