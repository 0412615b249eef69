-------------------------- MODULE RulesValidation ---------------------------
(***************************************************************************)
(* rules_validation.py: the issues the rules editor and `qbt-rules         *)
(* validate` report for a document, as a set of [severity, what].  Where   *)
(* an issue is, and its wording, are left out.  The first of the three     *)
(* layers, which the loader applies as well, is RulesStructure.            *)
(***************************************************************************)
EXTENDS RuleResolver, RulesStructure

WARNING(what) == Issue("warning", what)
INFO(what) == Issue("info", what)

Of(node, Issues(_)) == UNION {Issues(node.items[i]) : i \in DOMAIN node.items}

-----------------------------------------------------------------------------
(* Layer 2: every rule resolved as get_rules does.                         *)

CheckResolution(doc) ==
    When(\E i \in DOMAIN doc.rules : Fails(doc.refs, doc.rules[i]), ERROR("does not resolve"))

-----------------------------------------------------------------------------
(* Layer 3: the linter.                                                    *)

\* A token's value, as far as it is known here; ${rule.*} is not looked into.
Known(refs, value) == value \notin RuleTokens /\ ~Unresolvable(refs, value)
Effective(refs, value) == ResolveToken(refs, [id |-> "x"], value)

\* Mutant of BoolValue: quoted booleans pass.
BoolValueLenient(refs, value) ==
    When(Known(refs, value) /\ Effective(refs, value) \notin {"yes", "no", "'false'"},
         WARNING("not a boolean"))

\* "The engine only tests truthiness, so a quoted false is true."
BoolValue(refs, value) ==
    IF ~Known(refs, value) \/ IsBool(Effective(refs, value)) THEN {}
    ELSE IF Effective(refs, value) = "'false'" THEN {ERROR("quoted false")}
    ELSE {WARNING("not a boolean")}

RefSiblings(ref) == When(ref.beside, ERROR("ignored beside $ref"))

Value(refs, op, value) ==
    LET effective == Effective(refs, value)
        wrong == effective \in RuntimeTokens \cup {"junk"}
    IN IF ~Known(refs, value) THEN {}
       ELSE When(effective \in RuntimeTokens, WARNING("runtime token"))
            \cup When(wrong /\ OperatorKind[op] \in {"number", "duration", "size"},
                      ERROR("wrong kind of value"))
            \cup When(effective = "junk" /\ OperatorKind[op] \in {"string", "regex"},
                      ERROR("wrong kind of value"))

Field(field) ==
    IF Namespace(field) = "unknown" THEN {ERROR("unknown namespace")}
    ELSE When(Namespace(field) = "tracker" /\ field \notin TrackerFieldNames,
              ERROR("unknown trackie field"))

LeafIssues(refs, leaf) ==
    When(Missing \in {leaf.field, leaf.op, leaf.value}, ERROR("missing key"))
    \cup (IF leaf.field = Missing THEN {} ELSE Field(leaf.field))
    \cup When(leaf.op \notin Operators \cup {Missing}, ERROR("unknown operator"))
    \cup (IF leaf.op \in Operators /\ leaf.value # Missing
          THEN Value(refs, leaf.op, leaf.value) ELSE {})

RECURSIVE Condition(_, _)

GroupIssues(refs, group, node) ==
    IF node.k # "list" THEN {ERROR("group is not a list")}
    ELSE When(node.items = <<>>, WARNING("empty group"))
         \cup Of(node, LAMBDA item : Condition(refs, item))

EveryGroup(refs, node) ==
    UNION {GroupIssues(refs, g, node.of[g]) : g \in GroupsOf(node)}

\* One item of a group.  Of a mapping with groups only these are looked at.
Condition(refs, node) ==
    CASE IsRef(node) -> RefSiblings(node)
      [] HasGroups(node) ->
           When(Cardinality(GroupsOf(node)) > 1, ERROR("several groups nested"))
           \cup EveryGroup(refs, node)
      [] node.k = "leaf" -> LeafIssues(refs, node)
      [] node.k = "groups" /\ ~HasGroups(node) -> {ERROR("missing key")}
      [] OTHER -> {ERROR("not a mapping")}

\* A rule's conditions.
TopConditions(refs, node) ==
    CASE IsRef(node) -> RefSiblings(node)
      [] node.k = "list" ->
           When(node.items = <<>>, WARNING("matches every torrent"))
           \cup Of(node, LAMBDA item : Condition(refs, item))
      [] node.k = "groups" ->
           When(~HasGroups(node), ERROR("no group: matches every torrent"))
           \cup When("beside" \in DOMAIN node.of, WARNING("ignored beside the groups"))
           \cup EveryGroup(refs, node)
      [] node.k = "leaf" -> {ERROR("no group: matches every torrent")}
      [] OTHER -> {ERROR("not a list or mapping")}

\* A block of refs.conditions.
ConditionBlock(refs, node) ==
    CASE IsRef(node) -> RefSiblings(node)
      [] node.k = "list" -> Of(node, LAMBDA item : Condition(refs, item))
      [] HasGroups(node) ->
           When(Cardinality(GroupsOf(node)) > 1, INFO("several groups")) \cup EveryGroup(refs, node)
      [] node.k = "leaf" \/ node = Groups(<<>>) -> Condition(refs, node)
      [] OTHER -> {ERROR("not a list or mapping")}

\* One action.
ActionIssues(refs, node) ==
    CASE IsRef(node) -> RefSiblings(node)
      [] node.k = "action" ->
           IF node.type = Missing THEN {ERROR("no type")}
           ELSE IF node.type \notin ActionTypes THEN {ERROR("unknown type")}
           ELSE IF node.files = Missing THEN {} ELSE BoolValue(refs, node.files)
      [] OTHER -> {ERROR("not a mapping with a type")}

\* A rule's actions, or a block of refs.actions, which may be a single action.
ActionList(refs, node, inRule) ==
    CASE IsRef(node) -> RefSiblings(node)
      [] node.k = "action" /\ node.type # Missing /\ ~inRule -> ActionIssues(refs, node)
      [] node.k = "list" ->
           When(inRule /\ node.items = <<>>, WARNING("no actions"))
           \cup Of(node, LAMBDA item : ActionIssues(refs, item))
      [] OTHER -> {ERROR("not a list")}

RuleIssues(refs, rule) ==
    BoolValue(refs, rule.enabled)
    \cup When(rule.meta # "mapping", ERROR("meta is not a mapping"))
    \cup (IF rule.conditions = Absent THEN {} ELSE TopConditions(refs, rule.conditions))
    \cup (IF rule.actions = Absent THEN {} ELSE ActionList(refs, rule.actions, TRUE))

LintRules(doc) ==
    LET refs == doc.refs IN
    UNION {ConditionBlock(refs, refs.conditions[b]) : b \in DOMAIN refs.conditions}
    \cup UNION {ActionList(refs, refs.actions[b], FALSE) : b \in DOMAIN refs.actions}
    \cup UNION {RuleIssues(refs, doc.rules[i]) : i \in DOMAIN doc.rules}

-----------------------------------------------------------------------------
ValidateRulesText(doc) ==
    CheckRulesStructure(doc)
    \cup (IF CheckRulesStructure(doc) = {} THEN CheckResolution(doc) ELSE {})
    \cup LintRules(doc)

Valid(issues) == \A issue \in issues : issue.severity # "error"
=============================================================================
