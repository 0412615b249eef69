----------------------------- MODULE RulesFile ------------------------------
(***************************************************************************)
(* The way of one rules.yml: validated (rules_validation.py), loaded       *)
(* (config_loader.py), resolved (resolver.py), and run on one torrent      *)
(* (engine.py, trackie.py), while trackie comes and goes.  A file edited   *)
(* on disk is loaded whatever the validator says of it.                    *)
(*                                                                         *)
(* RulesEngine has what this leaves out of a run: many torrents, what an   *)
(* action does in qBittorrent, contexts, statistics, failing requests.     *)
(* RulesMeaning has what a file means by its text, and gives Resolved and  *)
(* Report their values: the resolver, and the validator.                   *)
(***************************************************************************)
EXTENDS RulesStructure, RuleReferences, ConditionEvaluator

CONSTANTS
    Scenarios,      \* [documents, torrents, answers]: files, and what they meet
    MaxChanges,     \* bound on changes of trackie's answer during a run
    Resolved(_, _), \* a library and a rule that resolves to what it resolves to
    Report(_)       \* a document to the issues the validator finds in it

IsSeq(s) == Len(s) \in Nat /\ s = [i \in 1 .. Len(s) |-> s[i]]

\* A field of a torrent: no value, one value, or a list of values.
IsValue(v) == v = None \/ v.k \in {"one", "many"}

\* What qBittorrent and trackie answer.
IsTorrent(t) ==
    /\ t = [info |-> t.info, files |-> t.files, hosts |-> t.hosts]
    /\ t.hosts \in BOOLEAN
    /\ \A field \in {"info.p", "info.q"} : IsValue(t.info[field])
IsAnswer(a) ==
    a = Unreachable \/ (a = Answered(a.record, a.fresh, a.account) /\ a.fresh \in BOOLEAN)

\* The resolver leaves a rule its id, and a list of actions a list.
IsRule(rule, id) ==
    /\ rule.id = id
    /\ rule.actions.k = "list" => IsSeq(rule.actions.items)
IsDocument(d) ==
    /\ IsSeq(d.rules)
    /\ \A i \in DOMAIN d.rules :
         Fails(d.refs, d.rules[i]) \/ IsRule(Resolved(d.refs, d.rules[i]), d.rules[i].id)
    /\ Report(d) \subseteq IssueType

ASSUME RulesFileAssumption ==
    /\ MaxChanges \in Nat
    /\ \A s \in Scenarios :
         /\ \A d \in s.documents : IsDocument(d)
         /\ \A t \in s.torrents : IsTorrent(t)
         /\ \A a \in s.answers : IsAnswer(a)

VARIABLES
    doc,            \* the document
    stage,          \* how far it has come
    report,         \* the issues the validator found
    rules,          \* the resolved rules of the run
    torrent,        \* the torrent the job is about
    trackie,        \* what trackie would answer now
    snapshot,       \* ConditionEvaluator._trackie_snapshot and _trackie_error
    at,             \* the rule whose turn it is
    matched,        \* the rules that matched
    effects,        \* what the actions did, in order
    spared,         \* a stop_on_match rule matched, or the torrent was deleted
    changes         \* changes of trackie's answer so far

runVars == <<rules, torrent, snapshot, at, matched, effects, spared>>
vars == <<doc, stage, report, trackie, changes, runVars>>

Stages == {"written", "checked", "refused", "loaded", "unresolvable", "running",
           "failed", "done"}
Effects == {"tagged", "deleted with files", "deleted", "error"}

TypeOK ==
    /\ \E s \in Scenarios : doc \in s.documents
    /\ stage \in Stages
    /\ report \subseteq IssueType
    /\ \A i \in DOMAIN rules : rules[i].id = doc.rules[i].id
    /\ at \in 1 .. Len(doc.rules) + 1
    /\ matched \subseteq 1 .. Len(doc.rules)
    /\ \A i \in DOMAIN effects : effects[i] \in Effects
    /\ spared \in BOOLEAN
    /\ changes \in 0 .. MaxChanges

NoTorrent == [k |-> "no torrent"]

Init ==
    /\ \E s \in Scenarios : doc \in s.documents
    /\ stage = "written"
    /\ report = {}
    /\ rules = <<>>
    /\ torrent = NoTorrent
    /\ trackie = Unreachable
    /\ snapshot = NotFetched
    /\ at = 1
    /\ matched = {}
    /\ effects = <<>>
    /\ spared = FALSE
    /\ changes = 0

-----------------------------------------------------------------------------
(* From the text to the rules of a run.                                    *)

Validate ==
    /\ stage = "written"
    /\ report' = Report(doc)
    /\ stage' = "checked"
    /\ UNCHANGED <<doc, trackie, changes, runVars>>

\* The loader applies the first layer alone.
Load ==
    /\ stage = "checked"
    /\ stage' = IF CheckRulesStructure(doc) = {} THEN "loaded" ELSE "refused"
    /\ UNCHANGED <<doc, report, trackie, changes, runVars>>

\* get_rules, at the start of a job: one rule that does not resolve fails it.
GetRules ==
    /\ stage = "loaded"
    /\ IF \E i \in DOMAIN doc.rules : Fails(doc.refs, doc.rules[i])
       THEN /\ stage' = "unresolvable"
            /\ UNCHANGED <<doc, report, trackie, changes, runVars>>
       ELSE /\ stage' = "running"
            /\ rules' = [i \in DOMAIN doc.rules |-> Resolved(doc.refs, doc.rules[i])]
            /\ \E s \in Scenarios : /\ doc \in s.documents
                                    /\ torrent' \in s.torrents
                                    /\ trackie' \in s.answers
            /\ UNCHANGED <<doc, report, changes, snapshot, at, matched, effects, spared>>

-----------------------------------------------------------------------------
(* The run.                                                                *)

\* trackie goes down, comes up, or reads the tracker's pages anew.
TrackieChanges ==
    /\ stage = "running"
    /\ changes < MaxChanges
    /\ changes' = changes + 1
    /\ \E s \in Scenarios : doc \in s.documents /\ trackie' \in s.answers \ {trackie}
    /\ UNCHANGED <<doc, stage, report, runVars>>

\* Mutant of SnapshotFor: every rule that asks asks trackie.
SnapshotForRule(conditions) ==
    IF AsksTrackie(torrent, conditions) THEN trackie ELSE snapshot

\* Fetched when a rule first asks, then kept for the run.
SnapshotFor(conditions) ==
    IF snapshot = NotFetched /\ AsksTrackie(torrent, conditions) THEN trackie ELSE snapshot

\* An item of actions that ends the job instead of the action: no mapping, or
\* one without a type.
Unusable(item) == item.k # "action" \/ item.type = Missing

\* Mutant of Executed: an unknown type is passed over.
ExecutedOrIgnored(action) ==
    CASE action.type = "add_tag" -> "tagged"
      [] action.type = "delete_torrent" -> "deleted"
      [] OTHER -> "ignored"

Executed(action) ==
    CASE action.type = "add_tag" -> "tagged"
      [] action.type = "delete_torrent" ->
           IF action.files = Missing \/ Truthy(action.files) THEN "deleted with files" ELSE "deleted"
      [] OTHER -> "error"

\* What there is to go through before the first unusable item.
Usable(actions) ==
    IF actions.k # "list" THEN <<>>
    ELSE LET bad == {i \in DOMAIN actions.items : Unusable(actions.items[i])}
         IN IF bad = {} THEN actions.items ELSE SubSeq(actions.items, 1, Min(bad) - 1)

FailsJob(actions) ==
    \/ actions.k # "list"
    \/ \E i \in DOMAIN actions.items : Unusable(actions.items[i])

Deletes(done) == \E i \in DOMAIN done : done[i] \in {"deleted", "deleted with files"}

rule == rules[at]

Running == stage = "running" /\ at <= Len(rules)
Skip == ~Truthy(rule.enabled) \/ spared

\* rule.get("meta", {}).get(...), before anything else.
BadMeta ==
    /\ Running
    /\ rule.meta # "mapping"
    /\ stage' = "failed"
    /\ UNCHANGED <<doc, report, trackie, changes, runVars>>

SkipRule ==
    /\ Running
    /\ rule.meta = "mapping"
    /\ Skip
    /\ at' = at + 1
    /\ UNCHANGED <<doc, stage, report, trackie, changes, rules, torrent, snapshot, matched,
                   effects, spared>>

EvaluateRule ==
    /\ Running
    /\ rule.meta = "mapping" /\ ~Skip
    /\ snapshot' = SnapshotFor(rule.conditions)
    /\ IF Evaluate(torrent, snapshot', rule.conditions) # "yes"
       THEN at' = at + 1 /\ UNCHANGED <<stage, matched, effects, spared>>
       ELSE LET done == [i \in DOMAIN Usable(rule.actions) |-> Executed(Usable(rule.actions)[i])] IN
              /\ matched' = matched \cup {at}
              /\ effects' = effects \o done
              /\ IF FailsJob(rule.actions)
                 THEN stage' = "failed" /\ UNCHANGED <<at, spared>>
                 ELSE /\ at' = at + 1
                      /\ spared' = (rule.stop \/ Deletes(done))
                      /\ UNCHANGED stage
    /\ UNCHANGED <<doc, report, trackie, changes, rules, torrent>>

RunEnds ==
    /\ stage = "running"
    /\ at > Len(rules)
    /\ stage' = "done"
    /\ UNCHANGED <<doc, report, trackie, changes, runVars>>

Next ==
    \/ Validate \/ Load \/ GetRules
    \/ TrackieChanges \/ BadMeta \/ SkipRule \/ EvaluateRule \/ RunEnds

Spec == Init /\ [][Next]_vars

-----------------------------------------------------------------------------
(* What could be, where something is not known.                            *)

KnowsRecord == snapshot.reply = "ok" /\ HasData(torrent, snapshot, "tracker.status")
KnowsAccount == snapshot.reply = "ok" /\ HasData(torrent, snapshot, "tracker.account.ratio_ok")

PossibleSnapshots ==
    [reply : {"ok"}, fresh : {TRUE},
     record : IF KnowsRecord THEN {snapshot.record} ELSE {"x", "y", "lacks it"},
     account : IF KnowsAccount THEN {snapshot.account} ELSE {"yes", "no", "lacks it"}]

PossibleTorrents ==
    {[torrent EXCEPT !.files = files] :
        files \in IF torrent.files = <<>> THEN {<<"x">>, <<"y">>, <<"x", "y">>}
                 ELSE {torrent.files}}

-----------------------------------------------------------------------------
(* What a $ref gets to, by the text of the file.                           *)

\* What a list or a mapping holds; what stands in it so many levels down, or
\* fewer; and what stands in it at all.
Parts(node) ==
    CASE node.k = "list" -> {node.items[i] : i \in DOMAIN node.items}
      [] node.k = "groups" -> {node.of[g] : g \in DOMAIN node.of}
      [] OTHER -> {}

NodesTo(node) ==
    LET nodes[depth \in 0 .. MaxNesting] ==
          IF depth = 0 THEN {node}
          ELSE LET above == nodes[depth - 1] IN above \cup UNION {Parts(n) : n \in above}
    IN nodes

Nodes(node) == NodesTo(node)[MaxNesting]

Mentions(node) == {n.to : n \in {m \in Nodes(node) : IsRef(m)}}

UnknownTokenIn(refs, node) ==
    \E n \in Nodes(node) : \/ n.k = "leaf" /\ Unresolvable(refs, n.value)
                           \/ n.k = "action" /\ Unresolvable(refs, n.files)

Exists(refs, b) == b[1] \in {"conditions", "actions"} /\ b[2] \in DOMAIN refs[b[1]]
Block(refs, b) == refs[b[1]][b[2]]
MentionedBy(refs, b) == IF Exists(refs, b) THEN Mentions(Block(refs, b)) ELSE {}

\* The least set of blocks that has these and those mentioned in them.
Reached(refs, blocks) ==
    LET mentioned(kind) == UNION {Mentions(refs[kind][name]) : name \in DOMAIN refs[kind]}
        all == blocks \cup mentioned("conditions") \cup mentioned("actions")
        closed == {s \in SUBSET all : /\ blocks \subseteq s
                                      /\ \A b \in s : MentionedBy(refs, b) \subseteq s}
    IN {b \in all : \A s \in closed : b \in s}

Broken(refs, node, kind) ==
    LET reached == Reached(refs, Mentions(node)) IN
    \/ \E b \in reached : b[1] # kind \/ ~Exists(refs, b)
    \/ \E b \in reached : b \in Reached(refs, MentionedBy(refs, b))
    \/ UnknownTokenIn(refs, node)
    \/ \E b \in reached : Exists(refs, b) /\ UnknownTokenIn(refs, Block(refs, b))

-----------------------------------------------------------------------------
(* Correctness.                                                            *)

\* A rule matches only on what is known: whatever the files turn out to be that
\* qBittorrent has not listed yet, and whatever trackie would say had it answered,
\* the rule matches as well.
NeverGuesses ==
    \A i \in matched : \A t \in PossibleTorrents, snap \in PossibleSnapshots :
        Evaluate(t, snap, rules[i].conditions) = "yes"

Opposite(leaf, other) ==
    /\ leaf.field = other.field /\ leaf.value = other.value
    /\ <<leaf.op, other.op>> \in {<<"is", "is_not">>, <<"in", "not_in">>,
                                  <<"contains", "not_contains">>}

IsSingle(conditions) ==
    conditions.k = "list" /\ Len(conditions.items) = 1 /\ conditions.items[1].k = "leaf"

IsGroup(conditions, group) == conditions.k = "groups" /\ DOMAIN conditions.of = {group}

\* A condition and its negation, or any and none of the same.
Contradict(conditions, others) ==
    \/ /\ IsSingle(conditions) /\ IsSingle(others)
       /\ Opposite(conditions.items[1], others.items[1])
    \/ /\ IsGroup(conditions, "any") /\ IsGroup(others, "none")
       /\ conditions.of["any"] = others.of["none"]

\* The rules of a run see one and the same trackie: two rules whose conditions are
\* each other's opposite never both match, however trackie changes in between.
NoContradiction ==
    \A i, j \in matched : ~Contradict(rules[i].conditions, rules[j].conditions)

\* A job fails on its rules just when a rule gets, through $refs, to a block that
\* is not there, is of the other kind, or gets back to itself, or to an unknown
\* variable, or deeper than Python goes; a block used twice is none of these.
ResolvesUnlessBroken ==
    stage \in {"unresolvable", "running", "failed", "done"} =>
        (stage = "unresolvable" <=>
            \E i \in DOMAIN doc.rules :
                LET conditions == doc.rules[i].conditions
                    actions == doc.rules[i].actions
                IN \/ Broken(doc.refs, conditions, "conditions")
                   \/ TooDeep(doc.refs, conditions, "conditions")
                   \/ Broken(doc.refs, actions, "actions")
                   \/ TooDeep(doc.refs, actions, "actions"))
=============================================================================
