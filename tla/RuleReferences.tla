--------------------------- MODULE RuleReferences ---------------------------
(***************************************************************************)
(* resolver.RuleResolver: where _expand_refs gets to from a rule, and      *)
(* whether something there ends it, or the substitution of tokens after    *)
(* it, in an error.  What a rule without errors comes to is RuleResolver;  *)
(* which of several errors is raised is left out.                          *)
(*                                                                         *)
(* Only the conditions and the actions of a rule are gone through here;    *)
(* $refs in its other keys, and the instance overrides no caller asks for, *)
(* are left out.                                                           *)
(***************************************************************************)
EXTENDS RuleTree

\* A token of a variable or a rule field that is not there.
Unresolvable(refs, value) ==
    \/ value = "${rule.gone}"
    \/ value \in VarTokens /\ VarName(value) \notin DOMAIN refs.vars

\* A node, and the blocks it stands in: the stack of _expand_refs.
Visit(node, stack) == [node |-> node, stack |-> stack]

\* A $ref to no such group or to one of the other kind, to a block it stands in
\* itself, or to none there is.
FaultyRef(refs, visit, kind) ==
    \/ visit.node.to[1] # kind
    \/ visit.node.to \in visit.stack
    \/ visit.node.to[2] \notin DOMAIN refs[kind]

Faulty(refs, visit, kind) ==
    \/ IsRef(visit.node) /\ FaultyRef(refs, visit, kind)
    \/ visit.node.k = "leaf" /\ Unresolvable(refs, visit.node.value)
    \/ visit.node.k = "action" /\ Unresolvable(refs, visit.node.files)

\* Mutant of ItemVisits: one stack for all the items of a list.
ItemVisitsSharedStack(items, stack) ==
    {Visit(items[i], stack \cup {items[j].to : j \in {k \in 1 .. i - 1 : IsRef(items[k])}}) :
        i \in DOMAIN items}

\* Each item has the stack of the list: a block may be used twice.
ItemVisits(items, stack) == {Visit(items[i], stack) : i \in DOMAIN items}

\* Where a visit goes on to.
Onward(refs, visit, kind) ==
    LET node == visit.node IN
    CASE IsRef(node) ->
           IF FaultyRef(refs, visit, kind) THEN {}
           ELSE {Visit(refs[kind][node.to[2]], visit.stack \cup {node.to})}
      [] node.k = "list" -> ItemVisits(node.items, visit.stack)
      [] node.k = "groups" -> {Visit(node.of[g], visit.stack) : g \in DOMAIN node.of}
      [] OTHER -> {}

VisitsAt(refs, node, kind) ==
    LET visits[depth \in 0 .. MaxNesting] ==
          IF depth = 0 THEN {Visit(node, {})}
          ELSE UNION {Onward(refs, visit, kind) : visit \in visits[depth - 1]}
    IN visits

\* A RecursionError.
TooDeep(refs, node, kind) == VisitsAt(refs, node, kind)[MaxNesting] # {}

FailsOn(refs, node, kind) ==
    LET visits == VisitsAt(refs, node, kind) IN
    \/ TooDeep(refs, node, kind)
    \/ \E depth \in 0 .. MaxNesting : \E visit \in visits[depth] : Faulty(refs, visit, kind)

\* Does resolve_rule raise?
Fails(refs, rule) ==
    FailsOn(refs, rule.conditions, "conditions") \/ FailsOn(refs, rule.actions, "actions")
=============================================================================
