---------------------------- MODULE RuleResolver ----------------------------
(***************************************************************************)
(* resolver.RuleResolver: a rule with every $ref replaced by the block it  *)
(* names and every ${vars.*} and ${rule.*} by its value, where nothing     *)
(* fails (RuleReferences).                                                 *)
(***************************************************************************)
EXTENDS RuleReferences, SequencesExt

-----------------------------------------------------------------------------
(* Phase 1: expansion.                                                     *)

\* Mutant of Splice: the block's list stays a list inside the list.
SpliceNested(items, parts) == parts

\* A $ref that turned out to be a list joins the list it stands in; a list
\* written in place does not.
Splice(items, parts) ==
    FlattenSeq([i \in DOMAIN items |->
        IF IsRef(items[i]) /\ parts[i].k = "list" THEN parts[i].items ELSE <<parts[i]>>])

\* Keys beside the $ref are dropped.
RECURSIVE ExpandRefs(_, _)
ExpandRefs(refs, node) ==
    CASE IsRef(node) -> ExpandRefs(refs, refs[node.to[1]][node.to[2]])
      [] node.k = "groups" -> Groups([g \in DOMAIN node.of |-> ExpandRefs(refs, node.of[g])])
      [] node.k = "list" ->
           List(Splice(node.items, [i \in DOMAIN node.items |-> ExpandRefs(refs, node.items[i])]))
      [] OTHER -> node

-----------------------------------------------------------------------------
(* Phase 2: tokens.                                                        *)

\* A whole-string token keeps the type of the value; runtime tokens stay.
ResolveToken(refs, rule, value) ==
    CASE value = "${rule.id}" -> rule.id
      [] value \in VarTokens -> refs.vars[VarName(value)]
      [] OTHER -> value

RECURSIVE SubstituteTokens(_, _, _)
SubstituteTokens(refs, rule, node) ==
    CASE node.k = "leaf" -> [node EXCEPT !.value = ResolveToken(refs, rule, node.value)]
      [] node.k = "action" -> [node EXCEPT !.files = ResolveToken(refs, rule, node.files)]
      [] node.k = "groups" ->
           Groups([g \in DOMAIN node.of |-> SubstituteTokens(refs, rule, node.of[g])])
      [] node.k = "list" ->
           List([i \in DOMAIN node.items |-> SubstituteTokens(refs, rule, node.items[i])])
      [] OTHER -> node

-----------------------------------------------------------------------------
\* First the $refs, then the tokens of what they stand for.
ResolveRule(refs, rule) ==
    LET Resolve(node) == SubstituteTokens(refs, rule, ExpandRefs(refs, node))
    IN [rule EXCEPT !.conditions = Resolve(rule.conditions), !.actions = Resolve(rule.actions)]
=============================================================================
