---------------------------- MODULE MCRulesFile -----------------------------
(* Small instances of RulesFile, with the resolver and the validator: the    *)
(* documents worth reading, and what they meet.                              *)
EXTENDS RulesMeaning

P == Leaf("info.p", "is", "x")
Q == Leaf("info.q", "is_not", "x")
A == Ref("conditions", "a")
B == Ref("conditions", "b")

\* Conditions that can be a block of the library, those of b plainer than those of a.
BlocksA == {P, List(<<P, Q>>), B, List(<<B, P>>), Groups([none |-> List(<<B>>)]),
            Groups([all |-> List(<<P>>), any |-> List(<<B, Q>>)]), List(<<A>>), Null,
            Leaf("info.p", "older_than", "junk")}
BlocksB == {Q, List(<<Q, P>>), Groups([any |-> List(<<Q, B>>)]), A, Groups([none |-> List(<<P>>)]),
            Groups([all |-> List(<<>>)])}

Items1 == {P, Q, A, B, Groups([any |-> List(<<A, Q>>)]), Groups([none |-> List(<<B>>)]),
           Groups([any |-> List(<<P, Q>>), none |-> List(<<A>>)])}
BadItems == {Leaf("info.p", "like", "x"), Leaf("info.p", "is", Missing), Text, Groups(<<>>),
           Leaf("nowhere.p", "is", "x"), RefBeside("conditions", "a"), Ref("conditions", "gone"),
           Ref("actions", "p"), Ref("vars", "v"), List(<<P>>)}

Lists == {<<>>} \cup {<<i>> : i \in Items1 \cup BadItems} \cup (Items1 \X Items1)

Conditions ==
    {List(s) : s \in Lists}
    \cup {Groups([any |-> List(s)]) : s \in Items1 \X {Q, A, B}}
    \cup {Groups([none |-> List(s)]) : s \in {<<A>>, <<B>>, <<P, A>>, <<A, B>>}}
    \cup {Groups([all |-> List(<<A>>), any |-> List(<<Q, B>>)]), Groups([all |-> P])}
    \cup {A, B, P, Null, Text, Absent, Groups(<<>>), RefBeside("conditions", "a")}

Tag == Action("add_tag", Missing)
Delete == Action("delete_torrent", Missing)

Refs(v, a, b, p, q) ==
    [vars |-> [v |-> v], conditions |-> [a |-> a, b |-> b], actions |-> [p |-> p, q |-> q]]

ConditionDocuments ==
    {[refs |-> Refs("x", a, b, Tag, List(<<Delete>>)),
      rules |-> <<Rule("r", c, List(<<Tag>>))>>] : a \in BlocksA, b \in BlocksB, c \in Conditions}

Torrents == {[info |-> ("info.p" :> One(p) @@ "info.q" :> q), files |-> <<"x">>, hosts |-> FALSE]
               : p \in {"x", "y"}, q \in {One("x"), None}}

StructureScenario ==
    [documents |-> ConditionDocuments, torrents |-> Torrents,
     answers |-> {Answered("x", TRUE, "yes")}]

\* A condition in one mapping with groups: in a list, in a group, in a block, as
\* all of a rule's conditions, and with a token of its own.
Besides == {P, Leaf("info.p", "is", "y"), Leaf("info.p", "is_not", "${vars.gone}"),
            Leaf("info.p", "is", "${vars.v}"), Leaf("info.p", "like", "x")}
Mixed ==
    {GroupsBeside(of, leaf) : leaf \in Besides,
        of \in {[any |-> List(<<Q, B>>)], [none |-> List(<<P>>)], [all |-> List(<<B>>)],
                [all |-> List(<<Q>>), any |-> List(<<P, B>>)]}}
BesideDocuments ==
    {[refs |-> Refs("y", a, b, Tag, Tag), rules |-> <<Rule("r", c, List(<<Delete>>))>>] :
        a \in Mixed, b \in {Q, List(<<Q, P>>)},
        c \in {List(<<A>>), List(<<P, A>>), Groups([none |-> List(<<A>>)]), A, List(<<Q>>)}}
    \cup {[refs |-> Refs("y", P, Q, Tag, Tag), rules |-> <<Rule("r", c, List(<<Delete>>))>>] :
            c \in Mixed \cup {List(<<m>>) : m \in Mixed}}

BesideScenario ==
    [documents |-> BesideDocuments, torrents |-> Torrents,
     answers |-> {Answered("x", TRUE, "yes")}]

\* Actions of the rule and of the library.
DeleteWith(files) == Action("delete_torrent", files)
ActionItems ==
    {Tag, Delete, DeleteWith("no"), DeleteWith("'false'"), DeleteWith("${vars.v}"),
     DeleteWith("${vars.gone}"), Action(Missing, Missing), Action("bogus", Missing), Text,
     Ref("actions", "p"), Ref("actions", "q"), RefBeside("actions", "p"), Ref("conditions", "a")}
ActionLists ==
    {<<>>} \cup {<<i>> : i \in ActionItems}
    \cup (ActionItems \X {Tag, DeleteWith("no"), Text, Ref("actions", "p"), Ref("actions", "q")})
BlocksP == {Tag, DeleteWith("'false'"), List(<<DeleteWith("no"), Tag>>), Ref("actions", "q"),
            List(<<Ref("actions", "q"), Ref("actions", "q")>>)}
BlocksQ == {List(<<Delete>>), Tag, Ref("actions", "p"), List(<<DeleteWith("${vars.v}")>>)}

ActionDocuments ==
    {[refs |-> Refs(v, P, Q, p, q), rules |-> <<Rule("r", List(<<P>>), actions)>>] :
        v \in {"no", "'false'"}, p \in BlocksP, q \in BlocksQ,
        actions \in {List(s) : s \in ActionLists}
                    \cup {Ref("actions", "p"), Ref("actions", "q"), Tag, Null, Absent}}

\* Variables in conditions.
ValueDocuments ==
    {[refs |-> Refs(v, Leaf("info.p", op, value), Q, Tag, Tag),
      rules |-> <<Rule("x", conditions, List(<<Tag>>))>>] :
        v \in {"x", "junk"}, op \in Operators,
        value \in {"y", "junk", "${vars.v}", "${vars.gone}", "${rule.gone}", "${info.name}"},
        conditions \in {List(<<A>>), Groups([none |-> List(<<A>>)])}}
    \cup {[refs |-> Refs("x", Leaf("info.p", op, "${rule.id}"), Q, Tag, Tag),
           rules |-> <<Rule(id, List(<<A>>), List(<<Tag>>))>>] :
             op \in Operators, id \in {"x", "junk"}}

\* Two rules, and what stands beside their conditions and actions.
RuleDocuments ==
    {[refs |-> Refs("x", P, Q, Tag, Tag),
      rules |-> <<[Rule("r", List(<<P>>), List(<<action>>)) EXCEPT !.stop = stop, !.enabled = enabled,
                                                                   !.meta = meta],
                  Rule(id, conditions, List(<<Delete>>))>>] :
        action \in {Tag, DeleteWith("no")}, stop \in BOOLEAN, enabled \in {"yes", "no", "'false'"},
        meta \in {"mapping", "null"}, id \in {"r", "s", Missing}, conditions \in {List(<<Q>>), Absent}}

LibraryScenario ==
    [documents |-> ActionDocuments \cup ValueDocuments \cup RuleDocuments, torrents |-> Torrents,
     answers |-> {Answered("x", TRUE, "yes")}]

\* What is not known: files not listed yet, trackie down, behind, or without the torrent.
UnknownLeaves ==
    {Leaf("tracker.status", op, "x") : op \in {"is", "is_not"}}
    \cup {Leaf("files.name", op, "x") : op \in {"contains", "not_contains"}}
    \cup {Leaf("tracker.account.ratio_ok", "is_not", "yes"), P}
UnknownConditions ==
    {List(<<leaf>>) : leaf \in UnknownLeaves} \cup {List(s) : s \in UnknownLeaves \X UnknownLeaves}
    \cup {Groups([any |-> List(s)]) : s \in UnknownLeaves \X UnknownLeaves}
    \cup {Groups([none |-> List(s)]) : s \in UnknownLeaves \X UnknownLeaves}
    \cup {Groups([any |-> List(<<l>>), none |-> List(<<m>>)]) : l, m \in UnknownLeaves}
SingleConditions == {List(<<leaf>>) : leaf \in UnknownLeaves \ {P}}

UnknownDocuments ==
    {[refs |-> Refs("x", P, Q, Tag, Tag), rules |-> <<Rule("r", conditions, List(<<Delete>>))>>] :
        conditions \in UnknownConditions}
    \cup {[refs |-> Refs("x", P, Q, Tag, Tag),
           rules |-> <<[Rule("r", c, List(<<Tag>>)) EXCEPT !.stop = stop],
                       Rule("s", d, List(<<Delete>>))>>] :
             c \in SingleConditions, d \in SingleConditions, stop \in BOOLEAN}
    \cup {[refs |-> Refs("x", P, Q, Tag, Tag),
           rules |-> <<Rule("r", Groups([any |-> List(s)]), List(<<Tag>>)),
                       Rule("s", Groups([none |-> List(s)]), List(<<Tag>>))>>] :
             s \in UnknownLeaves \X UnknownLeaves}

UnknownTorrents ==
    {[info |-> ("info.p" :> One("y") @@ "info.q" :> None), files |-> files, hosts |-> hosts] :
        files \in {<<>>, <<"x">>, <<"x", "y">>}, hosts \in BOOLEAN}

UnknownScenario ==
    [documents |-> UnknownDocuments, torrents |-> UnknownTorrents,
     answers |-> {Unreachable, Answered("x", TRUE, "yes"), Answered("y", TRUE, "no"),
                  Answered("lacks it", TRUE, "no account"), Answered("no record", TRUE, "no"),
                  Answered("x", FALSE, "yes")}]

\* Values for Scenarios.
AllScenarios == {StructureScenario, BesideScenario, LibraryScenario, UnknownScenario}
Structure == {StructureScenario}
=============================================================================
