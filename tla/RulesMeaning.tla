---------------------------- MODULE RulesMeaning ----------------------------
(***************************************************************************)
(* What a rules.yml means by its text, against what comes of it: whether   *)
(* the validator (RulesValidation), the resolver (RuleResolver) and the    *)
(* run (RulesFile) agree with each other on what a file says.              *)
(***************************************************************************)
EXTENDS RulesFile, RulesValidation

-----------------------------------------------------------------------------
(* What a file says, by its text: a $ref means its block, a list all of    *)
(* its items, a mapping all of its keys, a negation the opposite, and a    *)
(* quoted false no.                                                        *)

RECURSIVE Target(_, _)
Target(refs, node) ==
    IF IsRef(node) THEN Target(refs, refs[node.to[1]][node.to[2]]) ELSE node

\* The items of a list; those of a list block stand in place of its $ref.
RECURSIVE Items(_, _)
Items(refs, list) ==
    UNION {LET target == Target(refs, item)
           IN IF IsRef(item) /\ target.k = "list" THEN Items(refs, target) ELSE {target}
           : item \in ToSet(list.items)}

\* Variables stand for their values; ${rule.id} is that of the one rule of its file.
Written(refs, value) ==
    CASE value = "${vars.v}" -> refs.vars.v
      [] value = "${rule.id}" -> doc.rules[1].id
      [] OTHER -> value

LeafMeans(refs, t, snap, leaf) ==
    LET actual == FieldValue(t, snap, leaf.field)
        values == CASE actual = None -> {}
                    [] actual.k = "one" -> {actual.v}
                    [] actual.k = "many" -> ToSet(actual.items)
        holds == Written(refs, leaf.value) \in values
    IN holds # (leaf.op \in Negations)

RECURSIVE Means(_, _, _, _)
Means(refs, t, snap, node) ==
    CASE node.k = "leaf" -> LeafMeans(refs, t, snap, node)
      [] node.k = "list" -> \A item \in Items(refs, node) : Means(refs, t, snap, item)
      [] node.k = "groups" ->
           \A g \in DOMAIN node.of :
             CASE g = "all" -> \A item \in Items(refs, node.of[g]) : Means(refs, t, snap, item)
               [] g = "any" -> \E item \in Items(refs, node.of[g]) : Means(refs, t, snap, item)
               [] g = "none" -> \A item \in Items(refs, node.of[g]) : ~Means(refs, t, snap, item)
               [] g = "beside" -> LeafMeans(refs, t, snap, node.of[g])

RECURSIVE WrittenActions(_, _)
WrittenActions(refs, node) ==
    LET target == Target(refs, node) IN
    IF target.k = "list"
    THEN FlattenSeq([i \in DOMAIN target.items |-> WrittenActions(refs, target.items[i])])
    ELSE <<CASE target.type = "add_tag" -> "tagged"
             [] target.type = "delete_torrent" ->
                  IF Written(refs, target.files) \in {"no", "'false'"}
                  THEN "deleted" ELSE "deleted with files">>

WrittenEffects(t, snap) ==
    LET applies(i) == /\ doc.rules[i].enabled = "yes"
                      /\ Means(doc.refs, t, snap, Target(doc.refs, doc.rules[i].conditions))
        actions(i) == WrittenActions(doc.refs, doc.rules[i].actions)
        ends(i) == applies(i) /\ (doc.rules[i].stop \/ Deletes(actions(i)))
    IN FlattenSeq([i \in DOMAIN doc.rules |->
         IF applies(i) /\ \A j \in 1 .. i - 1 : ~ends(j) THEN actions(i) ELSE <<>>])

AllKnown == torrent.files # <<>> /\ (snapshot = NotFetched \/ (KnowsRecord /\ KnowsAccount))

-----------------------------------------------------------------------------
(* Correctness.                                                            *)

Ended == stage \in {"refused", "unresolvable", "failed", "done"}

AsWritten ==
    /\ stage = "done"
    /\ AllKnown => \E snap \in PossibleSnapshots : effects = WrittenEffects(torrent, snap)

\* A rule whose conditions, or actions, are a $ref and nothing else, to a block
\* that is a single condition, or action: the validator looks no further.
BareRefToSingle(i) ==
    LET refs == doc.refs IN
    \/ /\ IsRef(doc.rules[i].conditions)
       /\ Target(refs, doc.rules[i].conditions).k \in {"leaf", "null"}
    \/ IsRef(doc.rules[i].actions) /\ Target(refs, doc.rules[i].actions).k = "action"

\* What stands in a rule's conditions, and in the blocks they get to.
ConditionNodes(i) ==
    LET refs == doc.refs
        blocks == {b \in Reached(refs, Mentions(doc.rules[i].conditions)) : Exists(refs, b)}
    IN Nodes(doc.rules[i].conditions) \cup UNION {Nodes(Block(refs, b)) : b \in blocks}

\* A condition in one mapping with groups, which alone are evaluated.
DropsACondition(i) == \E n \in ConditionNodes(i) : n.k = "groups" /\ "beside" \in DOMAIN n.of

\* A comparison with ${rule.id} that the validator would report, had it put the
\* id in: a token of the rule's own keys it lets pass.
MiscomparesWithOwnKey(i) ==
    \E n \in ConditionNodes(i) : /\ n.k = "leaf" /\ n.value = "${rule.id}" /\ n.op \in Operators
                                 /\ Value(doc.refs, n.op, doc.rules[i].id) # {}

EscapesValidation(i) == BareRefToSingle(i) \/ DropsACondition(i) \/ MiscomparesWithOwnKey(i)

\* A file without errors does what its text says: it loads, every rule resolves,
\* no job fails on it, and the torrents acted on, and how, are those that its
\* conditions and actions, $refs and variables describe.  Three kinds of rules
\* escape the validator: a bare $ref to a single condition or action, a condition
\* beside groups, and a comparison with a key of the rule itself.
ValidMeansAsWritten ==
    Ended /\ Valid(report) /\ (stage = "refused" \/ \A i \in DOMAIN doc.rules : ~EscapesValidation(i))
        => AsWritten

\* "valid is True when there are no errors -- i.e. the server would load it, every
\* rule resolves, and nothing in it is known to fail or misfire"
\* (validate_rules_text, rules_validation.py:953).
ValidNeverMisfires == Ended /\ Valid(report) => AsWritten

\* "A delete rule can therefore never fire because trackie was down."
\* (trackie.py:15): a torrent deleted while trackie was down would be deleted
\* whatever trackie had answered.
DownNeverDeletes ==
    snapshot = Unreachable /\ Deletes(effects) =>
        \A snap \in PossibleSnapshots : Deletes(WrittenEffects(torrent, snap))
=============================================================================
