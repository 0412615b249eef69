-------------------------- MODULE RulesFileProofs ---------------------------
(***************************************************************************)
(* RulesFile for any documents, any resolver and validator, any torrents,  *)
(* and any number of changes of trackie: a rule that matches on what is    *)
(* known matches whatever else comes to be known, and the rules of a run   *)
(* see one trackie.                                                        *)
(***************************************************************************)
EXTENDS RulesFile, SublistProofs

-----------------------------------------------------------------------------
(* The evaluator: its recursions.                                          *)

LEMMA MinIsLeast ==
  ASSUME NEW S \in SUBSET Nat, S # {}
  PROVE  Min(S) \in S /\ \A i \in S : Min(S) <= i
  <1>1. PICK m \in S : \A i \in S : <<i, m>> \notin Below
    BY BelowIsWellFounded, WFMin
  <1>2. ASSUME NEW i \in S PROVE m <= i
    <2>1. i \in Nat /\ m \in Nat
      OBVIOUS
    <2>2. CASE i < m
      <3>1. <<i, m>> \in Below
        BY <2>1, <2>2 DEF Below
      <3> QED
        BY <1>1, <3>1
    <2> QED
      BY <2>1, <2>2
  <1> QED
    BY <1>2 DEF Min

\* l has the conditions 0, 1, ... m groups below the outermost.
Levels(l, conditions, m) ==
    l = [depth \in 0 .. m |->
           IF depth = 0 THEN Within(conditions)
           ELSE UNION {Within(node) : node \in l[depth - 1]}]

LEMMA LevelsExist ==
  ASSUME NEW conditions, NEW n \in Nat
  PROVE  \E l : Levels(l, conditions, n)
  <1> DEFINE S == {m \in Nat : \E l : Levels(l, conditions, m)}
  <1>1. 0 \in S
    <2>1. Levels([depth \in 0 .. 0 |-> Within(conditions)], conditions, 0)
      BY DEF Levels
    <2> QED
      BY <2>1
  <1>2. ASSUME NEW m \in Nat, m \in S PROVE m + 1 \in S
    <2>1. PICK l : Levels(l, conditions, m)
      BY <1>2
    <2> DEFINE next == UNION {Within(node) : node \in l[m]}
               h == [depth \in 0 .. m + 1 |-> IF depth <= m THEN l[depth] ELSE next]
    <2>2. /\ \A depth \in 0 .. m : h[depth] = l[depth]
          /\ h[m + 1] = next
      <3> HIDE DEF next
      <3> QED
        OBVIOUS
    <2>3. h = [depth \in 0 .. m + 1 |-> h[depth]]
      OBVIOUS
    <2> HIDE DEF h
    <2>4. ASSUME NEW depth \in 0 .. m + 1
          PROVE  h[depth] = IF depth = 0 THEN Within(conditions)
                            ELSE UNION {Within(node) : node \in h[depth - 1]}
      <3>1. depth = 0 \/ depth - 1 \in 0 .. m
        OBVIOUS
      <3>2. depth # 0 => h[depth - 1] = l[depth - 1]
        BY <2>2, <3>1
      <3>3. CASE depth \in 0 .. m
        <4>1. h[depth] = l[depth]
          BY <3>3, <2>2
        <4>2. l[depth] = IF depth = 0 THEN Within(conditions)
                         ELSE UNION {Within(node) : node \in l[depth - 1]}
          BY <2>1, <3>3 DEF Levels
        <4> QED
          BY <4>1, <4>2, <3>2
      <3>4. CASE depth = m + 1
        <4>1. depth # 0 /\ depth - 1 = m
          BY <3>4
        <4>2. h[depth - 1] = l[m] /\ h[depth] = next
          BY <2>2, <3>2, <3>4, <4>1
        <4> QED
          BY <4>1, <4>2
      <3> QED
        BY <3>3, <3>4
    <2>5. Levels(h, conditions, m + 1)
      BY <2>3, <2>4 DEF Levels
    <2> QED
      BY <2>5
  <1> HIDE DEF S
  <1>3. n \in S
    BY <1>1, <1>2, NatSetInduction
  <1> QED
    BY <1>3 DEF S

LEMMA LevelIsLevels ==
  ASSUME NEW conditions
  PROVE  Levels(Level(conditions), conditions, MaxNesting)
  <1>1. \E l : Levels(l, conditions, MaxNesting)
    BY LevelsExist, RuleTreeAssumption
  <1> QED
    BY <1>1, Zenon DEF Level, Levels

\* The conditions in a condition that is not the deepest are one level down.
LEMMA LevelsGoDown ==
  ASSUME NEW conditions
  PROVE  /\ Level(conditions)[0] = Within(conditions)
         /\ \A height \in 1 .. MaxNesting :
              \A node \in Level(conditions)[MaxNesting - height] :
                Within(node) \subseteq Level(conditions)[MaxNesting - (height - 1)]
  <1> DEFINE level == Level(conditions)
  <1>1. Levels(level, conditions, MaxNesting)
    BY LevelIsLevels
  <1> HIDE DEF level
  <1>2. \A depth \in 0 .. MaxNesting :
          level[depth] = IF depth = 0 THEN Within(conditions)
                         ELSE UNION {Within(node) : node \in level[depth - 1]}
    BY <1>1 DEF Levels
  <1>3. level[0] = Within(conditions)
    <2>1. 0 \in 0 .. MaxNesting
      BY RuleTreeAssumption
    <2> QED
      BY <1>2, <2>1
  <1>4. ASSUME NEW height \in 1 .. MaxNesting, NEW node \in level[MaxNesting - height]
        PROVE  Within(node) \subseteq level[MaxNesting - (height - 1)]
    <2> DEFINE depth == MaxNesting - (height - 1)
    <2>1. depth \in 0 .. MaxNesting /\ depth # 0 /\ depth - 1 = MaxNesting - height
      BY RuleTreeAssumption
    <2> HIDE DEF depth
    <2>2. level[depth] = UNION {Within(n) : n \in level[depth - 1]}
      BY <1>2, <2>1
    <2>3. node \in level[depth - 1]
      BY <1>4, <2>1
    <2>4. Within(node) \subseteq level[depth]
      BY <2>2, <2>3
    <2> QED
      BY <2>4 DEF depth
  <1> QED
    BY <1>3, <1>4 DEF level
\* o has what the conditions come to at the heights 0, 1, ... m.
AtHeight(o, t, snap, conditions, height) ==
    LET nodes == Level(conditions)[MaxNesting - height] IN
    IF height = 0 THEN [node \in nodes |-> "raise"]
    ELSE LET below == o[height - 1]
         IN [node \in nodes |-> EvaluateCondition(t, snap, node, below)]

AtHeights(o, t, snap, conditions, m) ==
    o = [height \in 0 .. m |-> AtHeight(o, t, snap, conditions, height)]

LEMMA AtHeightOfEqual ==
  ASSUME NEW o, NEW p, NEW t, NEW snap, NEW conditions, NEW height,
         height # 0 => o[height - 1] = p[height - 1]
  PROVE  AtHeight(o, t, snap, conditions, height) = AtHeight(p, t, snap, conditions, height)
  BY Zenon DEF AtHeight

LEMMA AtHeightsExist ==
  ASSUME NEW t, NEW snap, NEW conditions, NEW n \in Nat
  PROVE  \E o : AtHeights(o, t, snap, conditions, n)
  <1> DEFINE S == {m \in Nat : \E o : AtHeights(o, t, snap, conditions, m)}
             Here(o, height) == AtHeight(o, t, snap, conditions, height)
  <1>1. 0 \in S
    <2> DEFINE none == [height \in {} |-> 0]
               only == [height \in 0 .. 0 |-> Here(none, height)]
    <2>1. \A height \in 0 .. 0 : Here(none, height) = Here(only, height)
      <3> HIDE DEF only, none
      <3> QED
        BY AtHeightOfEqual
    <2>2. only = [height \in 0 .. 0 |-> only[height]] /\ \A height \in 0 .. 0 : only[height] = Here(none, height)
      <3> HIDE DEF Here, none
      <3> QED
        OBVIOUS
    <2> HIDE DEF only, none
    <2>3. AtHeights(only, t, snap, conditions, 0)
      BY <2>1, <2>2 DEF AtHeights
    <2> QED
      BY <2>3
  <1>2. ASSUME NEW m \in Nat, m \in S PROVE m + 1 \in S
    <2>1. PICK o : AtHeights(o, t, snap, conditions, m)
      BY <1>2
    <2> DEFINE next == Here(o, m + 1)
               h == [height \in 0 .. m + 1 |-> IF height <= m THEN o[height] ELSE next]
    <2>2. /\ \A height \in 0 .. m : h[height] = o[height]
          /\ h[m + 1] = next
      <3> HIDE DEF next
      <3> QED
        OBVIOUS
    <2>3. h = [height \in 0 .. m + 1 |-> h[height]]
      <3> HIDE DEF next
      <3> QED
        OBVIOUS
    <2> HIDE DEF h
    <2>4. ASSUME NEW height \in 0 .. m + 1
          PROVE  h[height] = Here(h, height)
      <3>1. height = 0 \/ height - 1 \in 0 .. m
        OBVIOUS
      <3>2. height # 0 => h[height - 1] = o[height - 1]
        BY <2>2, <3>1
      <3>3. Here(h, height) = Here(o, height)
        BY <3>2, AtHeightOfEqual
      <3>4. CASE height \in 0 .. m
        <4>1. h[height] = o[height]
          BY <3>4, <2>2
        <4>2. o[height] = Here(o, height)
          BY <2>1, <3>4 DEF AtHeights
        <4> QED
          BY <4>1, <4>2, <3>3
      <3>5. CASE height = m + 1
        <4>1. h[height] = Here(o, height)
          BY <2>2, <3>5
        <4> QED
          BY <4>1, <3>3
      <3> QED
        BY <3>4, <3>5
    <2>5. AtHeights(h, t, snap, conditions, m + 1)
      BY <2>3, <2>4 DEF AtHeights
    <2> QED
      BY <2>5
  <1> HIDE DEF S
  <1>3. n \in S
    BY <1>1, <1>2, NatSetInduction
  <1> QED
    BY <1>3 DEF S

LEMMA OutcomesAreAtHeights ==
  ASSUME NEW t, NEW snap, NEW conditions
  PROVE  \E o : /\ AtHeights(o, t, snap, conditions, MaxNesting)
                /\ Outcomes(t, snap, conditions) = o[MaxNesting]
  <1>1. \E o : AtHeights(o, t, snap, conditions, MaxNesting)
    BY AtHeightsExist, RuleTreeAssumption
  <1> QED
    BY <1>1, Zenon DEF Outcomes, AtHeights, AtHeight
-----------------------------------------------------------------------------
(* Knowing more.  An outcome is kept when, if it is yes or no, it is the   *)
(* same where more is known.                                               *)

Decided == {"yes", "no"}
Kept(less, more) == less \in Decided => more = less

LEMMA FirstOtherKeeps ==
  ASSUME NEW D \in SUBSET Nat, NEW less, NEW more, DOMAIN less = D, DOMAIN more = D,
         \A i \in D : Kept(less[i], more[i]), NEW usual \in Decided
  PROVE  Kept(FirstOther(less, usual), FirstOther(more, usual))
  <1> DEFINE others(o) == {i \in D : o[i] # usual}
  <1>1. /\ FirstOther(less, usual) = IF others(less) = {} THEN usual ELSE less[Min(others(less))]
        /\ FirstOther(more, usual) = IF others(more) = {} THEN usual ELSE more[Min(others(more))]
    BY DEF FirstOther
  <1>2. CASE others(less) = {}
    <2>1. \A i \in D : more[i] = less[i]
      BY <1>2 DEF Kept
    <2>2. others(more) = {}
      BY <1>2, <2>1
    <2> QED
      BY <1>1, <1>2, <2>2 DEF Kept
  <1>3. CASE others(less) # {}
    <2> DEFINE m == Min(others(less))
    <2>1. m \in others(less) /\ \A i \in others(less) : m <= i
      BY <1>3, MinIsLeast
    <2> HIDE DEF m
    <2>2. SUFFICES ASSUME less[m] \in Decided PROVE FirstOther(more, usual) = less[m]
      BY <1>1, <1>3 DEF Kept, m
    <2>3. more[m] = less[m] /\ m \in others(more)
      BY <2>1, <2>2 DEF Kept
    <2>4. ASSUME NEW i \in others(more) PROVE m <= i
      <3>1. CASE i \in others(less)
        BY <3>1, <2>1
      <3>2. CASE i \notin others(less)
        <4>1. less[i] = usual /\ more[i] # usual /\ i \in D
          BY <3>2, <2>4
        <4> QED
          BY <4>1 DEF Kept
      <3> QED
        BY <3>1, <3>2
    <2> DEFINE n == Min(others(more))
    <2>5. others(more) # {} /\ n \in others(more) /\ \A i \in others(more) : n <= i
      BY <2>3, MinIsLeast
    <2> HIDE DEF n
    <2>6. n = m
      <3>1. m \in Nat /\ n \in Nat /\ m <= n /\ n <= m
        BY <2>1, <2>3, <2>4, <2>5
      <3> QED
        BY <3>1
    <2> QED
      BY <1>1, <2>3, <2>5, <2>6 DEF n
  <1> QED
    BY <1>2, <1>3

\* Every field that has a value, or none, keeps it.
KnowsMore(t, snap, t2, snap2) ==
    \A field : \/ FieldValue(t, snap, field).k \in Ends
               \/ FieldValue(t2, snap2, field) = FieldValue(t, snap, field)

LEMMA LeafKeeps ==
  ASSUME NEW t, NEW snap, NEW t2, NEW snap2, KnowsMore(t, snap, t2, snap2), NEW leaf
  PROVE  Kept(EvaluateLeaf(t, snap, leaf), EvaluateLeaf(t2, snap2, leaf))
  <1>1. CASE FieldValue(t, snap, leaf.field).k \in Ends
    <2>1. EvaluateLeaf(t, snap, leaf) \in {"raise", FieldValue(t, snap, leaf.field).k}
      BY <1>1, Zenon DEF EvaluateLeaf
    <2>2. EvaluateLeaf(t, snap, leaf) \notin Decided
      BY <1>1, <2>1 DEF Ends, Decided
    <2> QED
      BY <2>2 DEF Kept
  <1>2. CASE FieldValue(t2, snap2, leaf.field) = FieldValue(t, snap, leaf.field)
    BY <1>2, Zenon DEF EvaluateLeaf, Kept
  <1> QED
    BY <1>1, <1>2 DEF KnowsMore

\* less and more have the outcomes of the conditions listed in node.
LEMMA GroupKeeps ==
  ASSUME NEW group \in {"all", "any", "none"}, NEW node, NEW less, NEW more,
         \A item \in Listed(node) : Kept(less[item], more[item])
  PROVE  Kept(EvaluateGroup(group, node, less), EvaluateGroup(group, node, more))
  <1>1. CASE node.k # "list"
    BY <1>1 DEF EvaluateGroup, Kept
  <1>2. CASE node.k = "list"
    <2> DEFINE outs(o) == [i \in 1 .. Len(node.items) |-> o[node.items[i]]]
    <2>1. \A i \in 1 .. Len(node.items) : Kept(less[node.items[i]], more[node.items[i]])
      BY <1>2 DEF Listed
    <2>2. \A usual \in Decided : Kept(FirstOther(outs(less), usual), FirstOther(outs(more), usual))
      <3>1. 1 .. Len(node.items) \in SUBSET Nat
        OBVIOUS
      <3>2. \A i \in 1 .. Len(node.items) : Kept(outs(less)[i], outs(more)[i])
        BY <2>1
      <3>3. DOMAIN outs(less) = 1 .. Len(node.items) /\ DOMAIN outs(more) = 1 .. Len(node.items)
        OBVIOUS
      <3> HIDE DEF outs
      <3> QED
        BY <3>1, <3>2, <3>3, FirstOtherKeeps
    <2>3. "yes" \in Decided /\ "no" \in Decided
      BY DEF Decided
    <2>4. \A o : /\ EvaluateGroup("all", node, o) = FirstOther(outs(o), "yes")
                 /\ EvaluateGroup("any", node, o) = FirstOther(outs(o), "no")
                 /\ EvaluateGroup("none", node, o) = Not(FirstOther(outs(o), "no"))
      BY <1>2 DEF EvaluateGroup
    <2> HIDE DEF outs
    <2>5. \A a, b : Kept(a, b) => Kept(Not(a), Not(b))
      BY DEF Kept, Not, Decided
    <2> QED
      BY <2>2, <2>3, <2>4, <2>5
  <1> QED
    BY <1>1, <1>2

LEMMA GroupsKeep ==
  ASSUME NEW of, NEW less, NEW more,
         \A g \in DOMAIN of \ {"beside"} :
           \A item \in Listed(of[g]) : Kept(less[item], more[item])
  PROVE  Kept(EvaluateGroups(of, less), EvaluateGroups(of, more))
  <1> DEFINE one(o, g) == IF g \in DOMAIN of THEN EvaluateGroup(g, of[g], o) ELSE "yes"
             outs(o) == [i \in 1 .. 3 |-> one(o, ConditionGroups[i])]
  <1>1. \A i \in 1 .. 3 : ConditionGroups[i] \in {"all", "any", "none"}
    BY DEF ConditionGroups
  <1>2. \A g \in {"all", "any", "none"} : Kept(one(less, g), one(more, g))
    BY GroupKeeps DEF Kept
  <1>3. \A o : EvaluateGroups(of, o) = FirstOther(outs(o), "yes")
    BY Zenon DEF EvaluateGroups
  <1>4. \A i \in 1 .. 3 : Kept(outs(less)[i], outs(more)[i])
    <2> HIDE DEF one
    <2> QED
      BY <1>1, <1>2
  <1>5. DOMAIN outs(less) = 1 .. 3 /\ DOMAIN outs(more) = 1 .. 3 /\ 1 .. 3 \in SUBSET Nat
    OBVIOUS
  <1>6. "yes" \in Decided
    BY DEF Decided
  <1> HIDE DEF outs
  <1> QED
    BY <1>3, <1>4, <1>5, <1>6, FirstOtherKeeps

LEMMA ConditionKeeps ==
  ASSUME NEW t, NEW snap, NEW t2, NEW snap2, KnowsMore(t, snap, t2, snap2),
         NEW node, NEW less, NEW more,
         \A item \in Within(node) : Kept(less[item], more[item])
  PROVE  Kept(EvaluateCondition(t, snap, node, less), EvaluateCondition(t2, snap2, node, more))
  <1>1. CASE HasGroups(node)
    <2>1. \A g \in GroupsOf(node) : \A item \in Listed(node.of[g]) : Kept(less[item], more[item])
      BY <1>1 DEF Within, HasGroups
    <2>2. /\ EvaluateCondition(t, snap, node, less) = EvaluateGroups(node.of, less)
          /\ EvaluateCondition(t2, snap2, node, more) = EvaluateGroups(node.of, more)
      BY <1>1 DEF EvaluateCondition, HasGroups
    <2> QED
      BY <2>1, <2>2, GroupsKeep DEF GroupsOf
  <1>2. CASE ~HasGroups(node) /\ node.k = "leaf"
    BY <1>2, LeafKeeps DEF EvaluateCondition
  <1>3. CASE ~HasGroups(node) /\ node.k # "leaf"
    BY <1>3 DEF EvaluateCondition, Kept
  <1> QED
    BY <1>1, <1>2, <1>3
LEMMA OutcomesKeep ==
  ASSUME NEW t, NEW snap, NEW t2, NEW snap2, KnowsMore(t, snap, t2, snap2), NEW conditions
  PROVE  \A node \in Within(conditions) :
           Kept(Outcomes(t, snap, conditions)[node], Outcomes(t2, snap2, conditions)[node])
  <1>1. PICK o : /\ AtHeights(o, t, snap, conditions, MaxNesting)
                 /\ Outcomes(t, snap, conditions) = o[MaxNesting]
    BY OutcomesAreAtHeights
  <1>2. PICK o2 : /\ AtHeights(o2, t2, snap2, conditions, MaxNesting)
                  /\ Outcomes(t2, snap2, conditions) = o2[MaxNesting]
    BY OutcomesAreAtHeights
  <1> DEFINE level == Level(conditions)
             S == {h \in Nat : h <= MaxNesting =>
                     \A node \in level[MaxNesting - h] : Kept(o[h][node], o2[h][node])}
  <1>3. \A h \in 0 .. MaxNesting : /\ o[h] = AtHeight(o, t, snap, conditions, h)
                                   /\ o2[h] = AtHeight(o2, t2, snap2, conditions, h)
    BY <1>1, <1>2 DEF AtHeights
  <1>4. 0 \in S
    <2>1. /\ AtHeight(o, t, snap, conditions, 0) = [node \in level[MaxNesting - 0] |-> "raise"]
          /\ AtHeight(o2, t2, snap2, conditions, 0) = [node \in level[MaxNesting - 0] |-> "raise"]
      BY Zenon DEF AtHeight
    <2>2. 0 \in 0 .. MaxNesting
      BY RuleTreeAssumption
    <2> HIDE DEF level
    <2> QED
      BY <1>3, <2>1, <2>2 DEF Kept
  <1>5. ASSUME NEW h \in Nat, h \in S PROVE h + 1 \in S
    <2>1. SUFFICES ASSUME h + 1 <= MaxNesting, NEW node \in level[MaxNesting - (h + 1)]
                   PROVE  Kept(o[h + 1][node], o2[h + 1][node])
      OBVIOUS
    <2>2. h \in 0 .. MaxNesting /\ h + 1 \in 1 .. MaxNesting /\ (h + 1) - 1 = h /\ h + 1 # 0
          /\ h + 1 \in 0 .. MaxNesting
      BY <2>1, RuleTreeAssumption
    <2>3. Within(node) \subseteq level[MaxNesting - h]
      <3>1. Within(node) \subseteq level[MaxNesting - ((h + 1) - 1)]
        BY <2>2, <2>1, LevelsGoDown
      <3> QED
        BY <3>1, <2>2
    <2>4. \A item \in Within(node) : Kept(o[h][item], o2[h][item])
      BY <1>5, <2>2, <2>3
    <2>5. /\ o[h + 1] = [n \in level[MaxNesting - (h + 1)] |-> EvaluateCondition(t, snap, n, o[h])]
          /\ o2[h + 1] = [n \in level[MaxNesting - (h + 1)] |-> EvaluateCondition(t2, snap2, n, o2[h])]
      <3>1. \A k : k # 0 =>
              /\ AtHeight(o, t, snap, conditions, k)
                   = [n \in level[MaxNesting - k] |-> EvaluateCondition(t, snap, n, o[k - 1])]
              /\ AtHeight(o2, t2, snap2, conditions, k)
                   = [n \in level[MaxNesting - k] |-> EvaluateCondition(t2, snap2, n, o2[k - 1])]
        BY Zenon DEF AtHeight
      <3> HIDE DEF level
      <3> QED
        BY <3>1, <1>3, <2>2
    <2> HIDE DEF level
    <2>6. /\ o[h + 1][node] = EvaluateCondition(t, snap, node, o[h])
          /\ o2[h + 1][node] = EvaluateCondition(t2, snap2, node, o2[h])
      BY <2>1, <2>5
    <2> QED
      BY <2>4, <2>6, ConditionKeeps
  <1>6. MaxNesting \in S
    <2> HIDE DEF S
    <2> QED
      BY <1>4, <1>5, NatSetInduction, RuleTreeAssumption
  <1>7. level[MaxNesting - MaxNesting] = Within(conditions)
    <2>1. MaxNesting - MaxNesting = 0
      BY RuleTreeAssumption
    <2> QED
      BY <2>1, LevelsGoDown
  <1> HIDE DEF level
  <1>8. \A node \in level[MaxNesting - MaxNesting] : Kept(o[MaxNesting][node], o2[MaxNesting][node])
    BY <1>6, RuleTreeAssumption
  <1> QED
    BY <1>1, <1>2, <1>7, <1>8

\* What evaluate (engine.py) decides on some data it decides the same on more: for any
\* conditions, nested in any way up to the recursion limit, where a torrent and a
\* snapshot that say more than t and snap leave the outcome open or confirm it.
THEOREM EvaluateKeeps ==
  ASSUME NEW t, NEW snap, NEW t2, NEW snap2, KnowsMore(t, snap, t2, snap2), NEW conditions
  PROVE  Kept(Evaluate(t, snap, conditions), Evaluate(t2, snap2, conditions))
  <1> DEFINE less == Outcomes(t, snap, conditions)
             more == Outcomes(t2, snap2, conditions)
  <1>1. \A node \in Within(conditions) : Kept(less[node], more[node])
    BY OutcomesKeep
  <1> HIDE DEF less, more
  <1>2. CASE conditions.k = "list"
    <2>1. \A item \in Listed(conditions) : Kept(less[item], more[item])
      BY <1>1, <1>2 DEF Within
    <2>2. Kept(EvaluateGroup("all", conditions, less), EvaluateGroup("all", conditions, more))
      BY <2>1, GroupKeeps
    <2> QED
      BY <1>2, <2>2 DEF Evaluate, less, more
  <1>3. CASE conditions.k = "groups"
    <2>1. \A g \in GroupsOf(conditions) : \A item \in Listed(conditions.of[g]) :
            Kept(less[item], more[item])
      BY <1>1, <1>3 DEF Within
    <2>2. Kept(EvaluateGroups(conditions.of, less), EvaluateGroups(conditions.of, more))
      BY <2>1, GroupsKeep DEF GroupsOf
    <2> QED
      BY <1>3, <2>2 DEF Evaluate, less, more
  <1>4. CASE conditions.k \notin {"list", "groups"}
    BY <1>4 DEF Evaluate, Kept
  <1> QED
    BY <1>2, <1>3, <1>4

\* Before the fetch nothing of trackie is known.
LEMMA FetchKnowsMore ==
  ASSUME NEW t, NEW snap
  PROVE  KnowsMore(t, NotFetched, t, snap)
  <1> SUFFICES ASSUME NEW field
               PROVE  \/ FieldValue(t, NotFetched, field).k \in Ends
                      \/ FieldValue(t, snap, field) = FieldValue(t, NotFetched, field)
    BY DEF KnowsMore
  <1>1. CASE Namespace(field) = "tracker"
    <2>1. FieldValue(t, NotFetched, field) = TrackerField(t, NotFetched, field)
      BY <1>1 DEF FieldValue
    <2>2. TrackerField(t, NotFetched, field) \in {Raise, Fetch}
      BY Zenon DEF TrackerField
    <2>3. Raise.k \in Ends /\ Fetch.k \in Ends
      BY DEF Raise, Fetch, Ends
    <2> QED
      BY <2>1, <2>2, <2>3
  <1>2. CASE Namespace(field) # "tracker"
    BY <1>2, Zenon DEF FieldValue
  <1> QED
    BY <1>1, <1>2
\* What trackie says is kept by whatever it could say.
LEMMA TrackerFieldKept ==
  ASSUME snapshot = NotFetched \/ IsAnswer(snapshot),
         NEW t, NEW snap \in PossibleSnapshots, NEW field
  PROVE  \/ TrackerField(torrent, snapshot, field).k \in Ends
         \/ TrackerField(t, snap, field) = TrackerField(torrent, snapshot, field)
  <1>1. Raise.k \in Ends /\ Fetch.k \in Ends /\ NotReady.k \in Ends
    BY DEF Raise, Fetch, NotReady, Ends
  <1>2. CASE field \notin TrackerFieldNames
    BY <1>1, <1>2 DEF TrackerField
  <1>3. CASE snapshot = NotFetched
    BY <1>1, <1>2, <1>3 DEF TrackerField
  <1>4. CASE snapshot = Unreachable \/ ~HasData(torrent, snapshot, field)
    BY <1>1, <1>2, <1>3, <1>4 DEF TrackerField
  <1>5. CASE /\ field \in TrackerFieldNames
             /\ snapshot # NotFetched /\ snapshot # Unreachable
             /\ HasData(torrent, snapshot, field)
    <2>1. snapshot.reply = "ok"
      <3>1. snapshot = Answered(snapshot.record, snapshot.fresh, snapshot.account)
        BY <1>5 DEF IsAnswer
      <3> QED
        BY <3>1 DEF Answered
    <2> DEFINE record == snap.record
               account == snap.account
    <2>2. /\ snap.reply = "ok" /\ snap.fresh = TRUE
          /\ record \in IF KnowsRecord THEN {snapshot.record} ELSE {"x", "y", "lacks it"}
          /\ account \in IF KnowsAccount THEN {snapshot.account} ELSE {"yes", "no", "lacks it"}
      BY DEF PossibleSnapshots
    <2>3. snap # NotFetched /\ snap # Unreachable
      <3>1. NotFetched.reply # "ok" /\ Unreachable.reply # "ok"
        BY DEF NotFetched, Unreachable
      <3> QED
        BY <2>2, <3>1
    <2>4. record # "no record"
      BY <2>2 DEF KnowsRecord, HasData
    <2>5. /\ TrackerField(torrent, snapshot, field)
               = OfRecord(IF field = "tracker.status" THEN snapshot.record ELSE snapshot.account)
          /\ HasData(t, snap, field) => TrackerField(t, snap, field)
               = OfRecord(IF field = "tracker.status" THEN record ELSE account)
      BY <1>5, <2>3, Zenon DEF TrackerField
    <2>6. CASE field = "tracker.status"
      <3>1. KnowsRecord
        BY <1>5, <2>1, <2>6 DEF KnowsRecord
      <3>2. record = snapshot.record
        BY <2>2, <3>1
      <3>3. HasData(t, snap, field)
        BY <2>2, <2>4, <2>6 DEF HasData
      <3> QED
        BY <2>5, <2>6, <3>2, <3>3
    <2>7. CASE field = "tracker.account.ratio_ok"
      <3>1. KnowsAccount
        BY <1>5, <2>1, <2>7 DEF KnowsAccount
      <3>2. account = snapshot.account
        BY <2>2, <3>1
      <3>3. account # "no account"
        BY <3>1, <3>2 DEF KnowsAccount, HasData
      <3>4. HasData(t, snap, field)
        BY <2>2, <2>4, <2>7, <3>3 DEF HasData
      <3> QED
        BY <2>5, <2>7, <3>2, <3>4
    <2> QED
      BY <1>5, <2>6, <2>7 DEF TrackerFieldNames
  <1> QED
    BY <1>2, <1>3, <1>4, <1>5

LEMMA PossibleKnowsMore ==
  ASSUME snapshot = NotFetched \/ IsAnswer(snapshot), IsTorrent(torrent),
         NEW t \in PossibleTorrents, NEW snap \in PossibleSnapshots
  PROVE  KnowsMore(torrent, snapshot, t, snap)
  <1>1. /\ t.info = torrent.info
        /\ torrent.files # <<>> => t.files = torrent.files
    <2>1. PICK files : /\ t = [torrent EXCEPT !.files = files]
                       /\ torrent.files # <<>> => files = torrent.files
      BY DEF PossibleTorrents
    <2>2. torrent = [info |-> torrent.info, files |-> torrent.files, hosts |-> torrent.hosts]
      BY DEF IsTorrent
    <2>3. "info" \in DOMAIN torrent /\ "files" \in DOMAIN torrent
      BY <2>2
    <2> QED
      BY <2>1, <2>3
  <1> SUFFICES ASSUME NEW field
               PROVE  \/ FieldValue(torrent, snapshot, field).k \in Ends
                      \/ FieldValue(t, snap, field) = FieldValue(torrent, snapshot, field)
    BY DEF KnowsMore
  <1>2. CASE Namespace(field) = "info"
    BY <1>1, <1>2 DEF FieldValue
  <1>3. CASE Namespace(field) = "files"
    <2>1. /\ FieldValue(torrent, snapshot, field) = FilesField(torrent.files)
          /\ FieldValue(t, snap, field) = FilesField(t.files)
      BY <1>3 DEF FieldValue
    <2>2. NotReady.k \in Ends
      BY DEF NotReady, Ends
    <2>3. torrent.files = <<>> => FilesField(torrent.files) = NotReady
      BY DEF FilesField
    <2> QED
      BY <1>1, <2>1, <2>2, <2>3
  <1>4. CASE Namespace(field) = "tracker"
    <2>1. /\ FieldValue(torrent, snapshot, field) = TrackerField(torrent, snapshot, field)
          /\ FieldValue(t, snap, field) = TrackerField(t, snap, field)
      BY <1>4 DEF FieldValue
    <2> QED
      BY <2>1, TrackerFieldKept
  <1>5. CASE Namespace(field) \notin {"info", "files", "tracker"}
    BY <1>5 DEF FieldValue
  <1> QED
    BY <1>2, <1>3, <1>4, <1>5
-----------------------------------------------------------------------------
(* The types, and what the matched rules come to.                          *)

InRun == {"running", "failed", "done"}

Typed ==
    /\ TypeOK
    /\ effects \in Seq(Effects)
    /\ snapshot = NotFetched \/ IsAnswer(snapshot)
    /\ IsAnswer(trackie)
    /\ stage \notin InRun => matched = {}
    /\ stage \in InRun =>
         /\ IsTorrent(torrent)
         /\ IsSeq(rules) /\ Len(rules) = Len(doc.rules)
         /\ \A i \in DOMAIN rules : IsRule(rules[i], doc.rules[i].id)

\* A rule that matched matches on what is known now, and not only then.
Evaluated == \A i \in matched : Evaluate(torrent, snapshot, rules[i].conditions) = "yes"

IInv == Typed /\ Evaluated

LEMMA SeqIsSeq ==
  ASSUME NEW s, IsSeq(s)
  PROVE  /\ Len(s) \in Nat /\ DOMAIN s = 1 .. Len(s)
         /\ s \in Seq({s[i] : i \in 1 .. Len(s)})
  <1> DEFINE S == {s[i] : i \in 1 .. Len(s)}
  <1>1. Len(s) \in Nat /\ s = [i \in 1 .. Len(s) |-> s[i]]
    BY DEF IsSeq
  <1>2. s \in [1 .. Len(s) -> S]
    BY <1>1
  <1>3. DOMAIN s = 1 .. Len(s)
    BY <1>1
  <1> HIDE DEF S
  <1>4. s \in Seq(S)
    BY <1>1, <1>2, SeqDef
  <1> QED
    BY <1>1, <1>3, <1>4 DEF S

LEMMA SeqOfMapped ==
  ASSUME NEW n \in Nat, NEW S, NEW f, f = [i \in 1 .. n |-> f[i]], \A i \in 1 .. n : f[i] \in S
  PROVE  f \in Seq(S) /\ Len(f) = n /\ IsSeq(f)
  <1>1. f \in [1 .. n -> S]
    BY SMT
  <1>2. f \in Seq(S)
    BY <1>1, SeqDef
  <1>3. Len(f) = n
    BY <1>1, <1>2, LenProperties
  <1> QED
    BY <1>2, <1>3 DEF IsSeq

LEMMA ExecutedTyped == ASSUME NEW action PROVE Executed(action) \in Effects
  BY DEF Executed, Effects

LEMMA DoneTyped ==
  ASSUME NEW actions, actions.k = "list" => IsSeq(actions.items)
  PROVE  [i \in DOMAIN Usable(actions) |-> Executed(Usable(actions)[i])] \in Seq(Effects)
  <1> DEFINE usable == Usable(actions)
             done == [i \in DOMAIN usable |-> Executed(usable[i])]
  <1>1. \E n \in Nat : DOMAIN usable = 1 .. n
    <2>1. CASE actions.k # "list"
      <3>1. usable = <<>>
        BY <2>1 DEF Usable
      <3>2. DOMAIN usable = 1 .. 0
        BY <3>1
      <3> QED
        BY <3>2
    <2>2. CASE actions.k = "list"
      <3> DEFINE items == actions.items
                 bad == {i \in DOMAIN items : Unusable(items[i])}
      <3>1. /\ Len(items) \in Nat /\ DOMAIN items = 1 .. Len(items)
            /\ items \in Seq({items[i] : i \in 1 .. Len(items)})
        BY <2>2, SeqIsSeq
      <3>2. usable = IF bad = {} THEN items ELSE SubSeq(items, 1, Min(bad) - 1)
        BY <2>2 DEF Usable
      <3>3. CASE bad = {}
        BY <3>1, <3>2, <3>3
      <3>4. CASE bad # {}
        <4>1. Min(bad) \in 1 .. Len(items)
          <5>1. bad \in SUBSET Nat /\ bad \subseteq 1 .. Len(items)
            BY <3>1
          <5> HIDE DEF bad, items
          <5> QED
            BY <5>1, <3>4, MinIsLeast
        <4> DEFINE m == Min(bad) - 1
        <4>2. m \in Nat /\ m <= Len(items)
          BY <4>1, <3>1
        <4>3. usable = SubSeq(items, 1, m)
          BY <3>2, <3>4
        <4> HIDE DEF m, items, usable
        <4>4. DOMAIN usable = 1 .. m
          BY <4>2, <4>3, <3>1, SubSeqProperties
        <4> QED
          BY <4>2, <4>4
      <3> QED
        BY <3>3, <3>4
    <2> QED
      BY <2>1, <2>2
  <1>2. PICK n \in Nat : DOMAIN usable = 1 .. n
    BY <1>1
  <1> HIDE DEF usable
  <1>3. done = [i \in 1 .. n |-> done[i]] /\ \A i \in 1 .. n : done[i] \in Effects
    BY <1>2, ExecutedTyped
  <1> HIDE DEF done
  <1>4. done \in Seq(Effects)
    BY <1>3, SeqOfMapped
  <1> QED
    BY <1>4 DEF done, usable
LEMMA DocIsDocument ==
  ASSUME TypeOK
  PROVE  IsDocument(doc) /\ IsSeq(doc.rules) /\ Len(doc.rules) \in Nat
         /\ DOMAIN doc.rules = 1 .. Len(doc.rules)
  <1>1. IsDocument(doc)
    BY RulesFileAssumption DEF TypeOK
  <1> QED
    BY <1>1, SeqIsSeq DEF IsDocument

LEMMA InitIInv == Init => IInv
  <1> SUFFICES ASSUME Init PROVE IInv
    OBVIOUS
  <1>1. /\ \E s \in Scenarios : doc \in s.documents
        /\ stage = "written" /\ report = {} /\ rules = <<>> /\ trackie = Unreachable
        /\ snapshot = NotFetched /\ at = 1 /\ matched = {} /\ effects = <<>>
        /\ spared = FALSE /\ changes = 0
    BY DEF Init
  <1>2. IsDocument(doc)
    BY <1>1, RulesFileAssumption
  <1>3. Len(doc.rules) \in Nat
    BY <1>2, SeqIsSeq DEF IsDocument
  <1>4. at \in 1 .. Len(doc.rules) + 1
    BY <1>1, <1>3
  <1>5. TypeOK
    <2>1. DOMAIN rules = {} /\ DOMAIN effects = {}
      BY <1>1
    <2>2. report \subseteq IssueType /\ matched \subseteq 1 .. Len(doc.rules)
      BY <1>1
    <2>3. changes \in 0 .. MaxChanges
      BY <1>1, RulesFileAssumption
    <2>4. stage \in Stages
      BY <1>1 DEF Stages
    <2> QED
      BY <1>1, <1>4, <2>1, <2>2, <2>3, <2>4 DEF TypeOK
  <1>6. Typed
    BY <1>1, <1>5 DEF Typed, InRun, IsAnswer
  <1> QED
    BY <1>1, <1>6 DEF IInv, Evaluated

LEMMA ValidateKeeps == IInv /\ Validate => IInv'
  <1> SUFFICES ASSUME IInv, Validate PROVE IInv'
    OBVIOUS
  <1>1. stage = "written" /\ stage' = "checked" /\ report' = Report(doc)
        /\ UNCHANGED <<doc, trackie, changes, runVars>>
    BY DEF Validate
  <1>2. Report(doc) \subseteq IssueType
    BY DocIsDocument DEF IInv, Typed, IsDocument
  <1>3. TypeOK'
    BY <1>1, <1>2 DEF IInv, Typed, TypeOK, Stages, runVars
  <1>4. Typed'
    BY <1>1, <1>3 DEF IInv, Typed, InRun, runVars
  <1> QED
    BY <1>1, <1>4 DEF IInv, Evaluated, runVars

LEMMA LoadKeeps == IInv /\ Load => IInv'
  <1> SUFFICES ASSUME IInv, Load PROVE IInv'
    OBVIOUS
  <1>1. stage = "checked" /\ stage' \in {"loaded", "refused"}
        /\ UNCHANGED <<doc, report, trackie, changes, runVars>>
    BY DEF Load
  <1>2. TypeOK'
    BY <1>1 DEF IInv, Typed, TypeOK, Stages, runVars
  <1>3. Typed'
    BY <1>1, <1>2 DEF IInv, Typed, InRun, runVars
  <1> QED
    BY <1>1, <1>3 DEF IInv, Evaluated, runVars

LEMMA GetRulesKeeps == IInv /\ GetRules => IInv'
  <1> SUFFICES ASSUME IInv, GetRules PROVE IInv'
    OBVIOUS
  <1> DEFINE resolved == [i \in DOMAIN doc.rules |-> Resolved(doc.refs, doc.rules[i])]
             n == Len(doc.rules)
  <1>1. TypeOK /\ Typed /\ stage = "loaded"
    BY DEF IInv, Typed, GetRules
  <1>2. IsDocument(doc) /\ n \in Nat /\ DOMAIN doc.rules = 1 .. n
    BY <1>1, DocIsDocument
  <1>3. matched = {}
    BY <1>1 DEF Typed, InRun
  <1>4. CASE /\ \E i \in DOMAIN doc.rules : Fails(doc.refs, doc.rules[i])
             /\ stage' = "unresolvable"
             /\ UNCHANGED <<doc, report, trackie, changes, runVars>>
    <2>1. TypeOK'
      BY <1>1, <1>4 DEF TypeOK, Stages, runVars
    <2>2. Typed'
      BY <1>1, <1>4, <2>1 DEF Typed, InRun, runVars
    <2> QED
      BY <1>3, <1>4, <2>2 DEF IInv, Evaluated, runVars
  <1>5. CASE /\ ~ \E i \in DOMAIN doc.rules : Fails(doc.refs, doc.rules[i])
             /\ stage' = "running"
             /\ rules' = resolved
             /\ \E s \in Scenarios : /\ doc \in s.documents
                                     /\ torrent' \in s.torrents
                                     /\ trackie' \in s.answers
             /\ UNCHANGED <<doc, report, changes, snapshot, at, matched, effects, spared>>
    <2>1. IsTorrent(torrent') /\ IsAnswer(trackie')
      BY <1>5, RulesFileAssumption
    <2>2. DOMAIN resolved = 1 .. n
      BY <1>2
    <2>3. ASSUME NEW i \in 1 .. n PROVE IsRule(resolved[i], doc.rules[i].id)
      <3>1. ~Fails(doc.refs, doc.rules[i]) /\ resolved[i] = Resolved(doc.refs, doc.rules[i])
        BY <1>2, <1>5, <2>2
      <3> QED
        BY <1>2, <3>1 DEF IsDocument
    <2>4. resolved = [i \in 1 .. n |-> resolved[i]]
      BY <2>2
    <2> HIDE DEF resolved
    <2>5. rules' = [i \in 1 .. n |-> rules'[i]] /\ \A i \in 1 .. n : rules'[i] = resolved[i]
      BY <1>5, <2>4
    <2>6. IsSeq(rules') /\ Len(rules') = n
      <3> DEFINE r == rules'
                 S == {r[i] : i \in 1 .. n}
      <3>1. r = [i \in 1 .. n |-> r[i]] /\ \A i \in 1 .. n : r[i] \in S
        BY <2>5
      <3> HIDE DEF r, S
      <3>2. IsSeq(r) /\ Len(r) = n
        BY <1>2, <3>1, SeqOfMapped
      <3> QED
        BY <3>2 DEF r
    <2>7. DOMAIN rules' = 1 .. n /\ \A i \in 1 .. n : IsRule(rules'[i], doc.rules[i].id)
      BY <2>3, <2>5
    <2>8. doc' = doc /\ n' = n
      BY <1>5
    <2>9. \A i \in DOMAIN rules' : rules'[i].id = doc.rules[i].id
      BY <2>7 DEF IsRule
    <2>10. TypeOK'
      BY <1>1, <1>5, <2>9 DEF TypeOK, Stages
    <2>11. Typed'
      BY <1>1, <1>5, <2>1, <2>6, <2>7, <2>8, <2>10 DEF Typed, InRun
    <2> QED
      BY <1>3, <1>5, <2>11 DEF IInv, Evaluated
  <1> QED
    BY <1>4, <1>5, Zenon DEF GetRules

LEMMA TrackieChangesKeeps == IInv /\ TrackieChanges => IInv'
  <1> SUFFICES ASSUME IInv, TrackieChanges PROVE IInv'
    OBVIOUS
  <1>1. changes < MaxChanges /\ changes' = changes + 1
        /\ UNCHANGED <<doc, stage, report, runVars>>
    BY DEF TrackieChanges
  <1>2. IsAnswer(trackie')
    BY RulesFileAssumption DEF TrackieChanges
  <1>3. changes' \in 0 .. MaxChanges
    BY <1>1, RulesFileAssumption DEF IInv, Typed, TypeOK
  <1>4. TypeOK'
    BY <1>1, <1>3 DEF IInv, Typed, TypeOK, runVars
  <1>5. Typed'
    BY <1>1, <1>2, <1>4 DEF IInv, Typed, runVars
  <1> QED
    BY <1>1, <1>5 DEF IInv, Evaluated, runVars
LEMMA BadMetaKeeps == IInv /\ BadMeta => IInv'
  <1> SUFFICES ASSUME IInv, BadMeta PROVE IInv'
    OBVIOUS
  <1>1. stage = "running" /\ stage' = "failed"
        /\ UNCHANGED <<doc, report, trackie, changes, runVars>>
    BY DEF BadMeta, Running
  <1>2. TypeOK'
    BY <1>1 DEF IInv, Typed, TypeOK, Stages, runVars
  <1>3. Typed'
    BY <1>1, <1>2 DEF IInv, Typed, InRun, runVars
  <1> QED
    BY <1>1, <1>3 DEF IInv, Evaluated, runVars

LEMMA RunEndsKeeps == IInv /\ RunEnds => IInv'
  <1> SUFFICES ASSUME IInv, RunEnds PROVE IInv'
    OBVIOUS
  <1>1. stage = "running" /\ stage' = "done"
        /\ UNCHANGED <<doc, report, trackie, changes, runVars>>
    BY DEF RunEnds
  <1>2. TypeOK'
    BY <1>1 DEF IInv, Typed, TypeOK, Stages, runVars
  <1>3. Typed'
    BY <1>1, <1>2 DEF IInv, Typed, InRun, runVars
  <1> QED
    BY <1>1, <1>3 DEF IInv, Evaluated, runVars

\* The rule whose turn it is, and the turn after it.
LEMMA AtRule ==
  ASSUME Typed, Running
  PROVE  /\ at \in 1 .. Len(doc.rules) /\ at + 1 \in 1 .. Len(doc.rules) + 1
         /\ rule.actions.k = "list" => IsSeq(rule.actions.items)
  <1>1. stage = "running" /\ at <= Len(rules)
    BY DEF Running
  <1>2. IsSeq(rules) /\ Len(rules) = Len(doc.rules)
        /\ \A i \in DOMAIN rules : IsRule(rules[i], doc.rules[i].id)
    BY <1>1 DEF Typed, InRun
  <1>3. Len(doc.rules) \in Nat /\ DOMAIN rules = 1 .. Len(doc.rules)
    BY <1>2, SeqIsSeq
  <1>4. at \in 1 .. Len(doc.rules) + 1
    BY DEF Typed, TypeOK
  <1>5. at \in 1 .. Len(doc.rules) /\ at + 1 \in 1 .. Len(doc.rules) + 1
    BY <1>1, <1>2, <1>3, <1>4
  <1>6. IsRule(rules[at], doc.rules[at].id)
    BY <1>2, <1>3, <1>5
  <1> QED
    BY <1>5, <1>6 DEF IsRule, rule

LEMMA SkipRuleKeeps == IInv /\ SkipRule => IInv'
  <1> SUFFICES ASSUME IInv, SkipRule PROVE IInv'
    OBVIOUS
  <1>1. at' = at + 1
        /\ UNCHANGED <<doc, stage, report, trackie, changes, rules, torrent, snapshot, matched,
                       effects, spared>>
    BY DEF SkipRule
  <1>2. at' \in 1 .. Len(doc.rules) + 1
    BY <1>1, AtRule DEF IInv, SkipRule
  <1>3. TypeOK'
    BY <1>1, <1>2 DEF IInv, Typed, TypeOK
  <1>4. Typed'
    BY <1>1, <1>3 DEF IInv, Typed
  <1> QED
    BY <1>1, <1>4 DEF IInv, Evaluated

LEMMA EvaluateRuleKeeps == IInv /\ EvaluateRule => IInv'
  <1> SUFFICES ASSUME IInv, EvaluateRule PROVE IInv'
    OBVIOUS
  <1> DEFINE done == [i \in DOMAIN Usable(rule.actions) |-> Executed(Usable(rule.actions)[i])]
             top == Len(doc.rules)
  <1>1. Typed /\ TypeOK /\ Evaluated /\ Running /\ stage = "running"
    BY DEF IInv, Typed, EvaluateRule, Running
  <1>2. /\ at \in 1 .. top /\ at + 1 \in 1 .. top + 1
        /\ rule.actions.k = "list" => IsSeq(rule.actions.items)
    BY <1>1, AtRule
  <1>3. UNCHANGED <<doc, report, trackie, changes, rules, torrent>>
    BY DEF EvaluateRule
  <1>4. snapshot' = SnapshotFor(rule.conditions)
    BY DEF EvaluateRule
  <1>5. /\ snapshot' = snapshot \/ (snapshot = NotFetched /\ snapshot' = trackie)
        /\ snapshot' = NotFetched \/ IsAnswer(snapshot')
    BY <1>1, <1>4 DEF SnapshotFor, Typed
  <1>6. \A i \in matched : Evaluate(torrent', snapshot', rules'[i].conditions) = "yes"
    <2> SUFFICES ASSUME NEW i \in matched
                 PROVE  Evaluate(torrent, snapshot', rules[i].conditions) = "yes"
      BY <1>3
    <2>1. Evaluate(torrent, snapshot, rules[i].conditions) = "yes"
      BY <1>1 DEF Evaluated
    <2>2. CASE snapshot' = snapshot
      BY <2>1, <2>2
    <2>3. CASE snapshot = NotFetched
      <3>1. KnowsMore(torrent, NotFetched, torrent, snapshot')
        BY FetchKnowsMore
      <3>2. Kept(Evaluate(torrent, NotFetched, rules[i].conditions),
                 Evaluate(torrent, snapshot', rules[i].conditions))
        BY <3>1, EvaluateKeeps
      <3> QED
        BY <2>1, <2>3, <3>2 DEF Kept, Decided
    <2> QED
      BY <1>5, <2>2, <2>3
  <1>7. CASE /\ Evaluate(torrent, snapshot', rule.conditions) # "yes"
             /\ at' = at + 1 /\ UNCHANGED <<stage, matched, effects, spared>>
    <2>1. TypeOK'
      BY <1>1, <1>2, <1>3, <1>7 DEF TypeOK
    <2>2. Typed'
      BY <1>1, <1>3, <1>5, <1>7, <2>1 DEF Typed
    <2> QED
      BY <1>6, <1>7, <2>2 DEF IInv, Evaluated
  <1>8. CASE /\ Evaluate(torrent, snapshot', rule.conditions) = "yes"
             /\ matched' = matched \cup {at}
             /\ effects' = effects \o done
             /\ \/ stage' = "failed" /\ UNCHANGED <<at, spared>>
                \/ at' = at + 1 /\ spared' = (rule.stop \/ Deletes(done)) /\ UNCHANGED stage
    <2>1. effects' \in Seq(Effects)
      <3>1. done \in Seq(Effects)
        BY <1>2, DoneTyped
      <3> HIDE DEF done
      <3> QED
        BY <1>1, <1>8, <3>1, ConcatProperties DEF Typed
    <2>2. \A i \in DOMAIN effects' : effects'[i] \in Effects
      BY <2>1, LenProperties
    <2>3. matched' \subseteq 1 .. top
      BY <1>1, <1>2, <1>8 DEF TypeOK
    <2>4. stage' \in Stages /\ stage' \in InRun
      BY <1>1, <1>8 DEF Stages, InRun
    <2>5. at' \in 1 .. top + 1 /\ spared' \in BOOLEAN
      <3>1. at \in 1 .. top + 1 /\ spared \in BOOLEAN
        BY <1>1 DEF TypeOK
      <3>2. (rule.stop \/ Deletes(done)) \in BOOLEAN
        OBVIOUS
      <3> HIDE DEF done
      <3> QED
        BY <1>2, <1>8, <3>1, <3>2
    <2>6. TypeOK'
      BY <1>1, <1>3, <2>2, <2>3, <2>4, <2>5 DEF TypeOK
    <2>7. Typed'
      BY <1>1, <1>3, <1>5, <2>1, <2>4, <2>6 DEF Typed, InRun
    <2>8. Evaluate(torrent', snapshot', rules'[at].conditions) = "yes"
      BY <1>3, <1>8 DEF rule
    <2>9. Evaluated'
      BY <1>6, <1>8, <2>8 DEF Evaluated
    <2> QED
      BY <2>7, <2>9 DEF IInv
  <1> QED
    BY <1>7, <1>8, Zenon DEF EvaluateRule

LEMMA NextKeeps == IInv /\ [Next]_vars => IInv'
  <1> SUFFICES ASSUME IInv, [Next]_vars PROVE IInv'
    OBVIOUS
  <1>1. CASE UNCHANGED vars
    <2>1. TypeOK'
      BY <1>1 DEF IInv, Typed, TypeOK, vars, runVars
    <2>2. Typed'
      BY <1>1, <2>1 DEF IInv, Typed, vars, runVars
    <2> QED
      BY <1>1, <2>2 DEF IInv, Evaluated, vars, runVars
  <1> QED
    BY <1>1, ValidateKeeps, LoadKeeps, GetRulesKeeps, TrackieChangesKeeps, BadMetaKeeps,
       SkipRuleKeeps, EvaluateRuleKeeps, RunEndsKeeps DEF Next
\* For any documents, resolver and validator a file on its way from text to run is
\* well typed: the issues are issues, the rules of a run keep the ids of the file's
\* (resolve_rule, resolver.py), a job ends, skips or goes on within the file
\* (RulesEngine.run), and an action tags, deletes or is an error.
THEOREM RulesFileTypesOK == Spec => []TypeOK
  <1>1. Spec => []IInv
    BY InitIInv, NextKeeps, PTL DEF Spec
  <1>2. IInv => TypeOK
    BY DEF IInv, Typed
  <1> QED
    BY <1>1, <1>2, PTL

-----------------------------------------------------------------------------
(* Nothing matches on a guess.                                             *)

LEMMA EvaluatedNeverGuesses == IInv => NeverGuesses
  <1> SUFFICES ASSUME IInv, NEW i \in matched,
                      NEW t \in PossibleTorrents, NEW snap \in PossibleSnapshots
               PROVE  Evaluate(t, snap, rules[i].conditions) = "yes"
    BY DEF NeverGuesses
  <1>1. IsTorrent(torrent) /\ (snapshot = NotFetched \/ IsAnswer(snapshot))
    BY DEF IInv, Typed
  <1>2. KnowsMore(torrent, snapshot, t, snap)
    BY <1>1, PossibleKnowsMore
  <1>3. Kept(Evaluate(torrent, snapshot, rules[i].conditions), Evaluate(t, snap, rules[i].conditions))
    BY <1>2, EvaluateKeeps
  <1> QED
    BY <1>3 DEF IInv, Evaluated, Kept, Decided

\* Data that is missing ends the evaluation of a rule (DataNotReadyError in evaluate,
\* engine.py) and never counts for or against a condition: for any conditions, nested
\* in any way up to the recursion limit, any torrent and anything trackie answers, a
\* rule that matched while files or trackie's data were missing matches with whatever
\* they turn out to be.
THEOREM RulesFileNeverGuesses == Spec => []NeverGuesses
  <1>1. Spec => []IInv
    BY InitIInv, NextKeeps, PTL DEF Spec
  <1> QED
    BY <1>1, EvaluatedNeverGuesses, PTL

-----------------------------------------------------------------------------
(* A condition and its opposite.                                           *)

LEMMA FirstOtherDecides ==
  ASSUME NEW outcomes, DOMAIN outcomes \in SUBSET Nat
  PROVE  /\ FirstOther(outcomes, "yes") = "yes" => \A i \in DOMAIN outcomes : outcomes[i] = "yes"
         /\ FirstOther(outcomes, "no") = "yes" => \E i \in DOMAIN outcomes : outcomes[i] = "yes"
  <1> DEFINE others(usual) == {i \in DOMAIN outcomes : outcomes[i] # usual}
  <1>1. \A usual : FirstOther(outcomes, usual)
                    = IF others(usual) = {} THEN usual ELSE outcomes[Min(others(usual))]
    BY DEF FirstOther
  <1>2. \A usual : others(usual) # {} => Min(others(usual)) \in others(usual)
    BY MinIsLeast
  <1>3. ASSUME FirstOther(outcomes, "yes") = "yes" PROVE \A i \in DOMAIN outcomes : outcomes[i] = "yes"
    <2>1. others("yes") = {}
      BY <1>1, <1>2, <1>3
    <2> QED
      BY <2>1
  <1>4. ASSUME FirstOther(outcomes, "no") = "yes" PROVE \E i \in DOMAIN outcomes : outcomes[i] = "yes"
    <2>1. others("no") # {} /\ outcomes[Min(others("no"))] = "yes"
      BY <1>1, <1>4
    <2>2. Min(others("no")) \in DOMAIN outcomes
      BY <1>2, <2>1
    <2> QED
      BY <2>1, <2>2
  <1> QED
    BY <1>3, <1>4

\* A list of one leaf comes to what the leaf comes to.
LEMMA SingleIsLeaf ==
  ASSUME NEW t, NEW snap, NEW conditions, IsSingle(conditions),
         Evaluate(t, snap, conditions) = "yes"
  PROVE  EvaluateLeaf(t, snap, conditions.items[1]) = "yes"
  <1> DEFINE leaf == conditions.items[1]
             outcome == Outcomes(t, snap, conditions)
             outs == [i \in 1 .. Len(conditions.items) |-> outcome[conditions.items[i]]]
  <1>1. conditions.k = "list" /\ Len(conditions.items) = 1 /\ leaf.k = "leaf"
    BY DEF IsSingle
  <1>2. Evaluate(t, snap, conditions) = FirstOther(outs, "yes")
    <2> HIDE DEF outcome
    <2>1. Evaluate(t, snap, conditions) = EvaluateGroup("all", conditions, outcome)
      BY <1>1 DEF Evaluate, outcome
    <2>2. EvaluateGroup("all", conditions, outcome) = FirstOther(outs, "yes")
      BY <1>1 DEF EvaluateGroup
    <2> QED
      BY <2>1, <2>2
  <1>3. outcome[leaf] = "yes"
    <2> HIDE DEF outcome
    <2>1. DOMAIN outs = 1 .. 1 /\ outs[1] = outcome[leaf]
      BY <1>1
    <2> HIDE DEF outs
    <2>2. 1 \in DOMAIN outs /\ DOMAIN outs \in SUBSET Nat
      BY <2>1
    <2>3. FirstOther(outs, "yes") = "yes"
      BY <1>2
    <2>4. outs[1] = "yes"
      BY <2>2, <2>3, FirstOtherDecides
    <2> QED
      BY <2>1, <2>4
  <1>4. PICK o : /\ AtHeights(o, t, snap, conditions, MaxNesting)
                 /\ outcome = o[MaxNesting]
    BY OutcomesAreAtHeights
  <1>5. leaf \in Level(conditions)[MaxNesting - MaxNesting]
    <2>1. leaf \in Within(conditions)
      BY <1>1 DEF Within, Listed
    <2>2. MaxNesting - MaxNesting = 0
      BY RuleTreeAssumption
    <2> QED
      BY <2>1, <2>2, LevelsGoDown
  <1> HIDE DEF leaf, outcome
  <1>6. outcome = AtHeight(o, t, snap, conditions, MaxNesting)
    BY <1>4, RuleTreeAssumption DEF AtHeights
  <1>7. outcome[leaf] \in {"raise", EvaluateCondition(t, snap, leaf, o[MaxNesting - 1])}
    BY <1>5, <1>6 DEF AtHeight
  <1>8. EvaluateCondition(t, snap, leaf, o[MaxNesting - 1]) = EvaluateLeaf(t, snap, leaf)
    BY <1>1 DEF EvaluateCondition, HasGroups
  <1> QED
    BY <1>3, <1>7, <1>8 DEF leaf

LEMMA FieldIsValue ==
  ASSUME NEW t, NEW snap, NEW field, IsTorrent(t), FieldValue(t, snap, field).k \notin Ends
  PROVE  IsValue(FieldValue(t, snap, field))
  <1>1. Raise.k \in Ends /\ Fetch.k \in Ends /\ NotReady.k \in Ends
    BY DEF Raise, Fetch, NotReady, Ends
  <1>2. \A v : IsValue(One(v)) /\ IsValue(Many(v)) /\ IsValue(None)
    BY DEF IsValue, One, Many
  <1>3. CASE Namespace(field) = "info"
    <2>1. field \in {"info.p", "info.q"}
      BY <1>3 DEF Namespace
    <2>2. FieldValue(t, snap, field) = t.info[field]
      BY <1>3 DEF FieldValue
    <2> QED
      BY <2>1, <2>2 DEF IsTorrent
  <1>4. CASE Namespace(field) = "files"
    <2>1. FieldValue(t, snap, field) \in {NotReady, Many(t.files)}
      BY <1>4 DEF FieldValue, FilesField
    <2> QED
      BY <1>1, <1>2, <2>1
  <1>5. CASE Namespace(field) = "tracker"
    <2>1. FieldValue(t, snap, field) = TrackerField(t, snap, field)
      BY <1>5 DEF FieldValue
    <2>2. \A v : IsValue(OfRecord(v))
      BY <1>2 DEF OfRecord
    <2>3. IsValue(TrackerField(t, snap, field)) \/ TrackerField(t, snap, field).k \in Ends
      BY <1>1, <2>2 DEF TrackerField
    <2> QED
      BY <2>1, <2>3
  <1>6. CASE Namespace(field) \notin {"info", "files", "tracker"}
    BY <1>1, <1>6 DEF FieldValue
  <1> QED
    BY <1>3, <1>4, <1>5, <1>6
LEMMA OppositeOperators ==
  ASSUME NEW leaf, NEW other, Opposite(leaf, other)
  PROVE  /\ leaf.field = other.field /\ leaf.value = other.value
         /\ leaf.op \in Operators /\ leaf.op \notin Negations
         /\ other.op \in Operators /\ other.op \in Negations
         /\ OperatorKind[other.op] = OperatorKind[leaf.op]
         /\ OperatorKind[leaf.op] \in {"any", "list", "string"}
  <1>1. \/ leaf.op = "is" /\ other.op = "is_not"
        \/ leaf.op = "in" /\ other.op = "not_in"
        \/ leaf.op = "contains" /\ other.op = "not_contains"
    BY DEF Opposite
  <1>2. leaf.field = other.field /\ leaf.value = other.value
    BY DEF Opposite
  <1> QED
    BY <1>1, <1>2 DEF Operators, Negations, OperatorKind

\* One value satisfies an operator or its opposite, not both.
LEMMA OneContradicts ==
  ASSUME NEW leaf, NEW other, Opposite(leaf, other), NEW v,
         CompareOne(v, leaf.op, leaf.value) = "yes"
  PROVE  CompareOne(v, other.op, leaf.value) # "yes"
  <1>1. /\ leaf.op \in Operators /\ leaf.op \notin Negations
        /\ other.op \in Operators /\ other.op \in Negations
        /\ OperatorKind[other.op] = OperatorKind[leaf.op]
        /\ OperatorKind[leaf.op] \in {"any", "list", "string"}
    BY OppositeOperators
  <1>2. CASE leaf.value # "junk" \/ OperatorKind[leaf.op] \in {"any", "list"}
    <2>1. /\ CompareOne(v, leaf.op, leaf.value) = YesNo(v = leaf.value)
          /\ CompareOne(v, other.op, leaf.value) = YesNo(v # leaf.value)
      BY <1>1, <1>2 DEF CompareOne
    <2> QED
      BY <2>1 DEF YesNo
  <1>3. CASE leaf.value = "junk" /\ OperatorKind[leaf.op] = "string"
    BY <1>1, <1>3 DEF CompareOne
  <1> QED
    BY <1>1, <1>2, <1>3

LEMMA OppositeContradicts ==
  ASSUME NEW leaf, NEW other, Opposite(leaf, other), NEW actual, IsValue(actual),
         ApplyOperator(actual, leaf.op, leaf.value) = "yes",
         ApplyOperator(actual, other.op, leaf.value) = "yes"
  PROVE  FALSE
  <1>1. leaf.op \notin Negations /\ other.op \in Negations
    BY OppositeOperators
  <1>2. CASE actual \in {None, Many(<<>>)}
    BY <1>1, <1>2 DEF ApplyOperator, YesNo
  <1>3. CASE actual \notin {None, Many(<<>>)} /\ actual.k = "one"
    BY <1>3, OneContradicts DEF ApplyOperator
  <1>4. CASE actual \notin {None, Many(<<>>)} /\ actual.k = "many"
    <2> DEFINE outs(op) == [i \in 1 .. Len(actual.items) |-> CompareOne(actual.items[i], op, leaf.value)]
    <2>1. /\ FirstOther(outs(leaf.op), "no") = "yes"
          /\ FirstOther(outs(other.op), "yes") = "yes"
      BY <1>1, <1>4 DEF ApplyOperator
    <2>2. \A op : DOMAIN outs(op) = 1 .. Len(actual.items) /\ DOMAIN outs(op) \in SUBSET Nat
      OBVIOUS
    <2>3. \A op : \A i \in 1 .. Len(actual.items) :
            outs(op)[i] = CompareOne(actual.items[i], op, leaf.value)
      OBVIOUS
    <2> HIDE DEF outs
    <2>4. PICK i \in 1 .. Len(actual.items) : outs(leaf.op)[i] = "yes"
      BY <2>1, <2>2, FirstOtherDecides
    <2>5. outs(other.op)[i] = "yes"
      BY <2>1, <2>2, <2>4, FirstOtherDecides
    <2> QED
      BY <2>3, <2>4, <2>5, OneContradicts
  <1> QED
    BY <1>2, <1>3, <1>4 DEF IsValue

LEMMA LeafIsApplied ==
  ASSUME NEW t, NEW snap, NEW leaf, EvaluateLeaf(t, snap, leaf) = "yes"
  PROVE  /\ FieldValue(t, snap, leaf.field).k \notin Ends
         /\ ApplyOperator(FieldValue(t, snap, leaf.field), leaf.op, leaf.value) = "yes"
  <1>1. Missing \notin {leaf.field, leaf.op, leaf.value}
    BY DEF EvaluateLeaf
  <1>2. FieldValue(t, snap, leaf.field).k \notin Ends
    BY <1>1 DEF EvaluateLeaf, Ends
  <1> QED
    BY <1>1, <1>2 DEF EvaluateLeaf

LEMMA SinglesContradict ==
  ASSUME NEW t, NEW snap, IsTorrent(t), NEW conditions, NEW others,
         IsSingle(conditions), IsSingle(others), Opposite(conditions.items[1], others.items[1]),
         Evaluate(t, snap, conditions) = "yes", Evaluate(t, snap, others) = "yes"
  PROVE  FALSE
  <1> DEFINE leaf == conditions.items[1]
             other == others.items[1]
             actual == FieldValue(t, snap, leaf.field)
  <1>1. EvaluateLeaf(t, snap, leaf) = "yes" /\ EvaluateLeaf(t, snap, other) = "yes"
    BY SingleIsLeaf
  <1> HIDE DEF leaf, other
  <1>2. Opposite(leaf, other)
    BY DEF leaf, other
  <1>3. leaf.field = other.field /\ leaf.value = other.value
    BY <1>2, OppositeOperators
  <1>4. /\ actual.k \notin Ends
        /\ ApplyOperator(actual, leaf.op, leaf.value) = "yes"
        /\ ApplyOperator(actual, other.op, leaf.value) = "yes"
    BY <1>1, <1>3, LeafIsApplied
  <1>5. IsValue(actual)
    BY <1>4, FieldIsValue
  <1> HIDE DEF actual
  <1> QED
    BY <1>2, <1>4, <1>5, OppositeContradicts

\* The groups of a mapping all come to yes where the mapping does.
LEMMA EveryGroupIsYes ==
  ASSUME NEW of, NEW outcome, EvaluateGroups(of, outcome) = "yes",
         NEW group \in {"any", "none"}, group \in DOMAIN of
  PROVE  EvaluateGroup(group, of[group], outcome) = "yes"
  <1> DEFINE one(g) == IF g \in DOMAIN of THEN EvaluateGroup(g, of[g], outcome) ELSE "yes"
             outs == [i \in 1 .. 3 |-> one(ConditionGroups[i])]
  <1>1. FirstOther(outs, "yes") = "yes"
    BY Zenon DEF EvaluateGroups
  <1>2. DOMAIN outs = 1 .. 3 /\ DOMAIN outs \in SUBSET Nat
    OBVIOUS
  <1>3. \A i \in 1 .. 3 : outs[i] = one(ConditionGroups[i])
    OBVIOUS
  <1> HIDE DEF outs, one
  <1>4. \A i \in 1 .. 3 : outs[i] = "yes"
    BY <1>1, <1>2, FirstOtherDecides
  <1>5. ConditionGroups[2] = "any" /\ ConditionGroups[3] = "none"
    BY DEF ConditionGroups
  <1>6. one(group) = "yes"
    <2>1. 2 \in 1 .. 3 /\ 3 \in 1 .. 3
      OBVIOUS
    <2> QED
      BY <1>3, <1>4, <1>5, <2>1
  <1> QED
    BY <1>6 DEF one

\* What an evaluation comes to depends on the conditions in the groups only.
LEMMA SameWithin ==
  ASSUME NEW t, NEW snap, NEW conditions, NEW others, Within(conditions) = Within(others)
  PROVE  Outcomes(t, snap, conditions) = Outcomes(t, snap, others)
  <1>1. Level(conditions) = Level(others)
    BY Zenon DEF Level
  <1> QED
    BY <1>1, Zenon DEF Outcomes

LEMMA GroupsContradict ==
  ASSUME NEW t, NEW snap, NEW conditions, NEW others,
         IsGroup(conditions, "any"), IsGroup(others, "none"),
         conditions.of["any"] = others.of["none"],
         Evaluate(t, snap, conditions) = "yes", Evaluate(t, snap, others) = "yes"
  PROVE  FALSE
  <1> DEFINE node == conditions.of["any"]
             outcome == Outcomes(t, snap, conditions)
  <1>1. /\ conditions.k = "groups" /\ DOMAIN conditions.of = {"any"}
        /\ others.k = "groups" /\ DOMAIN others.of = {"none"} /\ others.of["none"] = node
    BY DEF IsGroup
  <1>2. Within(conditions) = Listed(node) /\ Within(others) = Listed(node)
    BY <1>1 DEF Within, GroupsOf
  <1>3. outcome = Outcomes(t, snap, others)
    BY <1>2, SameWithin
  <1>4. /\ EvaluateGroups(conditions.of, outcome) = "yes"
        /\ EvaluateGroups(others.of, outcome) = "yes"
    BY <1>1, <1>3 DEF Evaluate
  <1> HIDE DEF outcome
  <1>5. /\ EvaluateGroup("any", node, outcome) = "yes"
        /\ EvaluateGroup("none", node, outcome) = "yes"
    BY <1>1, <1>4, EveryGroupIsYes
  <1> HIDE DEF node
  <1>6. CASE node.k # "list"
    BY <1>5, <1>6 DEF EvaluateGroup
  <1>7. CASE node.k = "list"
    <2>1. EvaluateGroup("none", node, outcome) = Not(EvaluateGroup("any", node, outcome))
      BY <1>7 DEF EvaluateGroup
    <2>2. Not("yes") = "no"
      BY DEF Not
    <2> QED
      BY <1>5, <2>1, <2>2
  <1> QED
    BY <1>6, <1>7

LEMMA EvaluatedNoContradiction == IInv => NoContradiction
  <1> SUFFICES ASSUME IInv, NEW i \in matched, NEW j \in matched,
                      Contradict(rules[i].conditions, rules[j].conditions)
               PROVE  FALSE
    BY DEF NoContradiction
  <1> DEFINE conditions == rules[i].conditions
             others == rules[j].conditions
  <1>1. IsTorrent(torrent)
    BY DEF IInv, Typed
  <1>2. /\ Evaluate(torrent, snapshot, conditions) = "yes"
        /\ Evaluate(torrent, snapshot, others) = "yes"
    BY DEF IInv, Evaluated
  <1> QED
    BY <1>1, <1>2, SinglesContradict, GroupsContradict DEF Contradict

\* ConditionEvaluator keeps one trackie snapshot for a run (_trackie, engine.py): for
\* any rules and any number of changes of trackie between them, no two rules of one
\* run match on a condition and its opposite, or on any and none of the same list.
THEOREM RulesFileNoContradiction == Spec => []NoContradiction
  <1>1. Spec => []IInv
    BY InitIInv, NextKeeps, PTL DEF Spec
  <1> QED
    BY <1>1, EvaluatedNoContradiction, PTL

-----------------------------------------------------------------------------
(* The references: their recursions.                                       *)

\* v has the visits 0, 1, ... m steps from the rule.
Visited(v, refs, node, kind, m) ==
    v = [depth \in 0 .. m |->
           IF depth = 0 THEN {Visit(node, {})}
           ELSE UNION {Onward(refs, visit, kind) : visit \in v[depth - 1]}]

LEMMA VisitedExist ==
  ASSUME NEW refs, NEW node, NEW kind, NEW n \in Nat
  PROVE  \E v : Visited(v, refs, node, kind, n)
  <1> DEFINE S == {m \in Nat : \E v : Visited(v, refs, node, kind, m)}
  <1>1. 0 \in S
    <2>1. Visited([depth \in 0 .. 0 |-> {Visit(node, {})}], refs, node, kind, 0)
      BY DEF Visited
    <2> QED
      BY <2>1
  <1>2. ASSUME NEW m \in Nat, m \in S PROVE m + 1 \in S
    <2>1. PICK v : Visited(v, refs, node, kind, m)
      BY <1>2
    <2> DEFINE next == UNION {Onward(refs, visit, kind) : visit \in v[m]}
               h == [depth \in 0 .. m + 1 |-> IF depth <= m THEN v[depth] ELSE next]
    <2>2. /\ \A depth \in 0 .. m : h[depth] = v[depth]
          /\ h[m + 1] = next
      <3> HIDE DEF next
      <3> QED
        OBVIOUS
    <2>3. h = [depth \in 0 .. m + 1 |-> h[depth]]
      OBVIOUS
    <2> HIDE DEF h
    <2>4. ASSUME NEW depth \in 0 .. m + 1
          PROVE  h[depth] = IF depth = 0 THEN {Visit(node, {})}
                            ELSE UNION {Onward(refs, visit, kind) : visit \in h[depth - 1]}
      <3>1. depth = 0 \/ depth - 1 \in 0 .. m
        OBVIOUS
      <3>2. depth # 0 => h[depth - 1] = v[depth - 1]
        BY <2>2, <3>1
      <3>3. CASE depth \in 0 .. m
        <4>1. h[depth] = v[depth]
          BY <3>3, <2>2
        <4>2. v[depth] = IF depth = 0 THEN {Visit(node, {})}
                         ELSE UNION {Onward(refs, visit, kind) : visit \in v[depth - 1]}
          BY <2>1, <3>3 DEF Visited
        <4> QED
          BY <4>1, <4>2, <3>2
      <3>4. CASE depth = m + 1
        <4>1. depth # 0 /\ depth - 1 = m
          BY <3>4
        <4>2. h[depth - 1] = v[m] /\ h[depth] = next
          BY <2>2, <3>2, <3>4, <4>1
        <4> QED
          BY <4>1, <4>2
      <3> QED
        BY <3>3, <3>4
    <2>5. Visited(h, refs, node, kind, m + 1)
      BY <2>3, <2>4 DEF Visited
    <2> QED
      BY <2>5
  <1> HIDE DEF S
  <1>3. n \in S
    BY <1>1, <1>2, NatSetInduction
  <1> QED
    BY <1>3 DEF S

LEMMA VisitsAtVisited ==
  ASSUME NEW refs, NEW node, NEW kind
  PROVE  /\ VisitsAt(refs, node, kind)[0] = {Visit(node, {})}
         /\ \A depth \in 1 .. MaxNesting :
              VisitsAt(refs, node, kind)[depth] =
                UNION {Onward(refs, visit, kind) : visit \in VisitsAt(refs, node, kind)[depth - 1]}
  <1> DEFINE visits == VisitsAt(refs, node, kind)
  <1>1. \E v : Visited(v, refs, node, kind, MaxNesting)
    BY VisitedExist, RuleTreeAssumption
  <1>2. Visited(visits, refs, node, kind, MaxNesting)
    BY <1>1, Zenon DEF VisitsAt, Visited
  <1> HIDE DEF visits
  <1>3. \A depth \in 0 .. MaxNesting :
          visits[depth] = IF depth = 0 THEN {Visit(node, {})}
                          ELSE UNION {Onward(refs, visit, kind) : visit \in visits[depth - 1]}
    BY <1>2 DEF Visited
  <1>4. 0 \in 0 .. MaxNesting
    BY RuleTreeAssumption
  <1>5. ASSUME NEW depth \in 1 .. MaxNesting
        PROVE  visits[depth] = UNION {Onward(refs, visit, kind) : visit \in visits[depth - 1]}
    <2>1. depth \in 0 .. MaxNesting /\ depth # 0
      BY RuleTreeAssumption
    <2> QED
      BY <1>3, <2>1
  <1> QED
    BY <1>3, <1>4, <1>5 DEF visits

\* f has what stands in node 0, 1, ... m levels down, or fewer.
DownTo(f, node, m) ==
    f = [depth \in 0 .. m |->
           IF depth = 0 THEN {node} ELSE f[depth - 1] \cup UNION {Parts(n) : n \in f[depth - 1]}]

LEMMA DownToExist ==
  ASSUME NEW node, NEW n \in Nat
  PROVE  \E f : DownTo(f, node, n)
  <1> DEFINE S == {m \in Nat : \E f : DownTo(f, node, m)}
  <1>1. 0 \in S
    <2>1. DownTo([depth \in 0 .. 0 |-> {node}], node, 0)
      BY DEF DownTo
    <2> QED
      BY <2>1
  <1>2. ASSUME NEW m \in Nat, m \in S PROVE m + 1 \in S
    <2>1. PICK f : DownTo(f, node, m)
      BY <1>2
    <2> DEFINE next == f[m] \cup UNION {Parts(p) : p \in f[m]}
               h == [depth \in 0 .. m + 1 |-> IF depth <= m THEN f[depth] ELSE next]
    <2>2. /\ \A depth \in 0 .. m : h[depth] = f[depth]
          /\ h[m + 1] = next
      <3> HIDE DEF next
      <3> QED
        OBVIOUS
    <2>3. h = [depth \in 0 .. m + 1 |-> h[depth]]
      OBVIOUS
    <2> HIDE DEF h
    <2>4. ASSUME NEW depth \in 0 .. m + 1
          PROVE  h[depth] = IF depth = 0 THEN {node}
                            ELSE h[depth - 1] \cup UNION {Parts(p) : p \in h[depth - 1]}
      <3>1. depth = 0 \/ depth - 1 \in 0 .. m
        OBVIOUS
      <3>2. depth # 0 => h[depth - 1] = f[depth - 1]
        BY <2>2, <3>1
      <3>3. CASE depth \in 0 .. m
        <4>1. h[depth] = f[depth]
          BY <3>3, <2>2
        <4>2. f[depth] = IF depth = 0 THEN {node}
                         ELSE f[depth - 1] \cup UNION {Parts(p) : p \in f[depth - 1]}
          BY <2>1, <3>3 DEF DownTo
        <4> QED
          BY <4>1, <4>2, <3>2
      <3>4. CASE depth = m + 1
        <4>1. depth # 0 /\ depth - 1 = m
          BY <3>4
        <4>2. h[depth - 1] = f[m] /\ h[depth] = next
          BY <2>2, <3>2, <3>4, <4>1
        <4> QED
          BY <4>1, <4>2
      <3> QED
        BY <3>3, <3>4
    <2>5. DownTo(h, node, m + 1)
      BY <2>3, <2>4 DEF DownTo
    <2> QED
      BY <2>5
  <1> HIDE DEF S
  <1>3. n \in S
    BY <1>1, <1>2, NatSetInduction
  <1> QED
    BY <1>3 DEF S

LEMMA NodesToDown ==
  ASSUME NEW node
  PROVE  /\ NodesTo(node)[0] = {node}
         /\ \A depth \in 1 .. MaxNesting :
              NodesTo(node)[depth] =
                NodesTo(node)[depth - 1] \cup UNION {Parts(n) : n \in NodesTo(node)[depth - 1]}
  <1> DEFINE nodes == NodesTo(node)
  <1>1. \E f : DownTo(f, node, MaxNesting)
    BY DownToExist, RuleTreeAssumption
  <1>2. DownTo(nodes, node, MaxNesting)
    BY <1>1, Zenon DEF NodesTo, DownTo
  <1> HIDE DEF nodes
  <1>3. \A depth \in 0 .. MaxNesting :
          nodes[depth] = IF depth = 0 THEN {node}
                         ELSE nodes[depth - 1] \cup UNION {Parts(n) : n \in nodes[depth - 1]}
    BY <1>2 DEF DownTo
  <1>4. 0 \in 0 .. MaxNesting
    BY RuleTreeAssumption
  <1>5. ASSUME NEW depth \in 1 .. MaxNesting
        PROVE  nodes[depth] = nodes[depth - 1] \cup UNION {Parts(n) : n \in nodes[depth - 1]}
    <2>1. depth \in 0 .. MaxNesting /\ depth # 0
      BY RuleTreeAssumption
    <2> QED
      BY <1>3, <2>1
  <1> QED
    BY <1>3, <1>4, <1>5 DEF nodes

\* What stands in a node some levels down stands in it.
LEMMA NodesHave ==
  ASSUME NEW node, NEW depth \in 0 .. MaxNesting
  PROVE  NodesTo(node)[depth] \subseteq Nodes(node)
  <1> DEFINE nodes == NodesTo(node)
             S == {j \in Nat : depth + j <= MaxNesting => nodes[depth] \subseteq nodes[depth + j]}
  <1>1. \A d \in 1 .. MaxNesting : nodes[d] = nodes[d - 1] \cup UNION {Parts(n) : n \in nodes[d - 1]}
    BY NodesToDown
  <1> HIDE DEF nodes
  <1>2. 0 \in S
    OBVIOUS
  <1>3. ASSUME NEW j \in Nat, j \in S PROVE j + 1 \in S
    <2> SUFFICES ASSUME depth + (j + 1) <= MaxNesting
                 PROVE  nodes[depth] \subseteq nodes[depth + (j + 1)]
      OBVIOUS
    <2> DEFINE d == depth + (j + 1)
    <2>1. d \in 1 .. MaxNesting /\ d - 1 = depth + j /\ depth + j <= MaxNesting
      BY RuleTreeAssumption
    <2> HIDE DEF d
    <2>2. nodes[d - 1] \subseteq nodes[d]
      BY <1>1, <2>1
    <2>3. nodes[depth] \subseteq nodes[d]
      BY <1>3, <2>1, <2>2
    <2> QED
      BY <2>3 DEF d
  <1>4. Nat \subseteq S
    <2> HIDE DEF S
    <2> QED
      BY <1>2, <1>3, NatSetInduction
  <1>5. MaxNesting - depth \in S /\ depth + (MaxNesting - depth) = MaxNesting
    BY <1>4, RuleTreeAssumption
  <1> QED
    BY <1>5 DEF Nodes, nodes

-----------------------------------------------------------------------------
(* Visits.                                                                 *)

\* A part of a node is visited next, with the same stack.
LEMMA PartIsOnward ==
  ASSUME NEW refs, NEW kind, NEW node, NEW stack, NEW part \in Parts(node)
  PROVE  Visit(part, stack) \in Onward(refs, Visit(node, stack), kind)
  <1>1. Visit(node, stack).node = node /\ Visit(node, stack).stack = stack
    BY DEF Visit
  <1>2. CASE node.k = "list"
    <2>1. Onward(refs, Visit(node, stack), kind) = ItemVisits(node.items, stack)
      BY <1>1, <1>2, Zenon DEF Onward, IsRef
    <2>2. PICK i \in DOMAIN node.items : part = node.items[i]
      BY <1>2 DEF Parts
    <2> QED
      BY <2>1, <2>2 DEF ItemVisits
  <1>3. CASE node.k = "groups"
    <2>1. Onward(refs, Visit(node, stack), kind) = {Visit(node.of[g], stack) : g \in DOMAIN node.of}
      BY <1>1, <1>3 DEF Onward, IsRef
    <2>2. PICK g \in DOMAIN node.of : part = node.of[g]
      BY <1>3 DEF Parts
    <2> QED
      BY <2>1, <2>2
  <1>4. node.k \in {"list", "groups"}
    BY DEF Parts
  <1> QED
    BY <1>2, <1>3, <1>4

\* Next is a part of the node, or the block of a sound $ref.
LEMMA OnwardIsPartOrBlock ==
  ASSUME NEW refs, NEW kind, NEW visit, NEW next \in Onward(refs, visit, kind)
  PROVE  \/ next.node \in Parts(visit.node) /\ next.stack = visit.stack
         \/ /\ IsRef(visit.node) /\ ~FaultyRef(refs, visit, kind)
            /\ next.node = refs[kind][visit.node.to[2]]
            /\ next.stack = visit.stack \cup {visit.node.to}
  <1> DEFINE node == visit.node
  <1>1. CASE IsRef(node)
    <2>1. /\ ~FaultyRef(refs, visit, kind)
          /\ next = Visit(refs[kind][node.to[2]], visit.stack \cup {node.to})
      <3> DEFINE block == {Visit(refs[kind][node.to[2]], visit.stack \cup {node.to})}
      <3>1. node.k = "ref"
        BY <1>1 DEF IsRef
      <3>2. Onward(refs, visit, kind) = IF FaultyRef(refs, visit, kind) THEN {} ELSE block
        BY <3>1 DEF Onward, IsRef
      <3> QED
        BY <3>2
    <2> QED
      BY <1>1, <2>1 DEF Visit
  <1>2. CASE node.k = "list"
    <2>1. PICK i \in DOMAIN node.items : next = Visit(node.items[i], visit.stack)
      BY <1>2 DEF Onward, IsRef, ItemVisits
    <2> QED
      BY <1>2, <2>1 DEF Visit, Parts
  <1>3. CASE node.k = "groups"
    <2>1. PICK g \in DOMAIN node.of : next = Visit(node.of[g], visit.stack)
      BY <1>3 DEF Onward, IsRef
    <2> QED
      BY <1>3, <2>1 DEF Visit, Parts
  <1>4. IsRef(node) \/ node.k \in {"list", "groups"}
    BY DEF Onward
  <1> QED
    BY <1>1, <1>2, <1>3, <1>4

\* Where nothing is too deep, all there is to visit from a rule.
LEMMA VisitsAreClosed ==
  ASSUME NEW refs, NEW node, NEW kind, ~TooDeep(refs, node, kind)
  PROVE  LET visits == UNION {VisitsAt(refs, node, kind)[depth] : depth \in 0 .. MaxNesting}
         IN /\ Visit(node, {}) \in visits
            /\ \A visit \in visits : Onward(refs, visit, kind) \subseteq visits
  <1> DEFINE v == VisitsAt(refs, node, kind)
             visits == UNION {v[depth] : depth \in 0 .. MaxNesting}
  <1>1. v[0] = {Visit(node, {})}
        /\ \A depth \in 1 .. MaxNesting :
             v[depth] = UNION {Onward(refs, visit, kind) : visit \in v[depth - 1]}
    BY VisitsAtVisited
  <1>2. v[MaxNesting] = {}
    BY DEF TooDeep
  <1> HIDE DEF v
  <1>3. Visit(node, {}) \in visits
    <2>1. 0 \in 0 .. MaxNesting
      BY RuleTreeAssumption
    <2> QED
      BY <1>1, <2>1
  <1>4. ASSUME NEW depth \in 0 .. MaxNesting, NEW visit \in v[depth]
        PROVE  Onward(refs, visit, kind) \subseteq visits
    <2>1. depth # MaxNesting
      BY <1>2, <1>4
    <2> DEFINE d == depth + 1
    <2>2. d \in 1 .. MaxNesting /\ d \in 0 .. MaxNesting /\ d - 1 = depth
      BY <2>1, RuleTreeAssumption
    <2> HIDE DEF d
    <2>3. Onward(refs, visit, kind) \subseteq v[d]
      BY <1>1, <1>4, <2>2
    <2> QED
      BY <2>2, <2>3
  <1> QED
    BY <1>3, <1>4 DEF v

\* What stands in a visited node is visited, with the same stack.
LEMMA NodesAreVisited ==
  ASSUME NEW refs, NEW kind, NEW visits, NEW node, NEW stack,
         \A visit \in visits : Onward(refs, visit, kind) \subseteq visits,
         Visit(node, stack) \in visits
  PROVE  \A n \in Nodes(node) : Visit(n, stack) \in visits
  <1> DEFINE nodes == NodesTo(node)
             S == {m \in Nat : m <= MaxNesting => \A n \in nodes[m] : Visit(n, stack) \in visits}
  <1>1. nodes[0] = {node}
        /\ \A d \in 1 .. MaxNesting :
             nodes[d] = nodes[d - 1] \cup UNION {Parts(n) : n \in nodes[d - 1]}
    BY NodesToDown
  <1> HIDE DEF nodes
  <1>2. 0 \in S
    BY <1>1
  <1>3. ASSUME NEW m \in Nat, m \in S PROVE m + 1 \in S
    <2> SUFFICES ASSUME m + 1 <= MaxNesting, NEW n \in nodes[m + 1]
                 PROVE  Visit(n, stack) \in visits
      OBVIOUS
    <2> DEFINE d == m + 1
    <2>1. d \in 1 .. MaxNesting /\ d - 1 = m /\ m <= MaxNesting
      BY RuleTreeAssumption
    <2>2. n \in nodes[d]
      OBVIOUS
    <2> HIDE DEF d
    <2>3. nodes[d] = nodes[m] \cup UNION {Parts(p) : p \in nodes[m]}
      BY <1>1, <2>1
    <2>4. \A p \in nodes[m] : Visit(p, stack) \in visits
      BY <1>3, <2>1
    <2>5. ASSUME NEW p \in nodes[m], n \in Parts(p) PROVE Visit(n, stack) \in visits
      <3>1. Visit(n, stack) \in Onward(refs, Visit(p, stack), kind)
        BY <2>5, PartIsOnward
      <3> QED
        BY <2>4, <3>1
    <2> QED
      BY <2>2, <2>3, <2>4, <2>5
  <1>4. MaxNesting \in S
    <2> HIDE DEF S
    <2> QED
      BY <1>2, <1>3, NatSetInduction, RuleTreeAssumption
  <1> QED
    BY <1>4, RuleTreeAssumption DEF Nodes, nodes

-----------------------------------------------------------------------------
(* What blocks get to.                                                     *)

LEMMA ReachedIsLeast ==
  ASSUME NEW refs, NEW blocks
  PROVE  /\ blocks \subseteq Reached(refs, blocks)
         /\ \A b \in Reached(refs, blocks) : MentionedBy(refs, b) \subseteq Reached(refs, blocks)
         /\ \A s : blocks \subseteq s /\ (\A b \in s : MentionedBy(refs, b) \subseteq s)
                     => Reached(refs, blocks) \subseteq s
  <1> DEFINE mentioned(kind) == UNION {Mentions(refs[kind][name]) : name \in DOMAIN refs[kind]}
             all == blocks \cup mentioned("conditions") \cup mentioned("actions")
             IsClosed(s) == blocks \subseteq s /\ \A b \in s : MentionedBy(refs, b) \subseteq s
             reached == Reached(refs, blocks)
  <1>1. reached = {b \in all : \A s \in SUBSET all : IsClosed(s) => b \in s}
    BY DEF Reached
  <1>2. ASSUME NEW b PROVE MentionedBy(refs, b) \subseteq all
    <2>1. CASE Exists(refs, b)
      <3>1. b[1] \in {"conditions", "actions"} /\ b[2] \in DOMAIN refs[b[1]]
            /\ MentionedBy(refs, b) = Mentions(refs[b[1]][b[2]])
        BY <2>1 DEF Exists, MentionedBy, Block
      <3>2. MentionedBy(refs, b) \subseteq mentioned(b[1])
        BY <3>1
      <3> HIDE DEF mentioned
      <3> QED
        BY <3>1, <3>2
    <2> QED
      BY <2>1 DEF MentionedBy
  <1>3. blocks \subseteq all
    OBVIOUS
  <1> HIDE DEF all, reached
  <1>4. blocks \subseteq reached
    BY <1>1, <1>3
  <1>5. ASSUME NEW b \in reached, NEW c \in MentionedBy(refs, b) PROVE c \in reached
    BY <1>1, <1>2, <1>5
  <1>6. ASSUME NEW s, IsClosed(s) PROVE reached \subseteq s
    <2>1. s \cap all \in SUBSET all /\ IsClosed(s \cap all)
      BY <1>2, <1>3, <1>6
    <2> QED
      BY <1>1, <2>1
  <1> QED
    BY <1>4, <1>5, <1>6 DEF reached

\* Visits that go on only among themselves, with nothing faulty.
Sound(refs, visits, kind) ==
    /\ \A visit \in visits : Onward(refs, visit, kind) \subseteq visits
    /\ \A visit \in visits : ~Faulty(refs, visit, kind)

\* The blocks named by $refs that stand beneath some others.
Named(visits, beneath) ==
    {visit.node.to : visit \in {v \in visits : IsRef(v.node) /\ beneath \subseteq v.stack}}

\* A block that is there, of the right kind, and visited beneath some others, which
\* it is none of.
SoundBlock(refs, visits, kind, beneath, b) ==
    /\ b[1] = kind /\ Exists(refs, b)
    /\ \E stack : /\ Visit(Block(refs, b), stack \cup {b}) \in visits
                  /\ b \notin stack /\ beneath \subseteq stack

LEMMA NamedAreSound ==
  ASSUME NEW refs, NEW kind \in {"conditions", "actions"}, NEW visits, NEW beneath,
         NEW b \in Named(visits, beneath), Sound(refs, visits, kind)
  PROVE  SoundBlock(refs, visits, kind, beneath, b)
  <1>1. PICK visit \in visits : IsRef(visit.node) /\ beneath \subseteq visit.stack /\ b = visit.node.to
    BY DEF Named
  <1>2. ~FaultyRef(refs, visit, kind) /\ Onward(refs, visit, kind) \subseteq visits
    BY <1>1 DEF Sound, Faulty
  <1>3. b[1] = kind /\ b \notin visit.stack /\ b[2] \in DOMAIN refs[kind]
    BY <1>1, <1>2 DEF FaultyRef
  <1>4. Exists(refs, b) /\ Block(refs, b) = refs[kind][b[2]]
    BY <1>3 DEF Exists, Block
  <1>5. Visit(refs[kind][b[2]], visit.stack \cup {b}) \in Onward(refs, visit, kind)
    <2> DEFINE block == {Visit(refs[kind][visit.node.to[2]], visit.stack \cup {visit.node.to})}
    <2>1. visit.node.k = "ref"
      BY <1>1 DEF IsRef
    <2>2. Onward(refs, visit, kind) = IF FaultyRef(refs, visit, kind) THEN {} ELSE block
      BY <2>1 DEF Onward, IsRef
    <2> QED
      BY <1>1, <1>2, <2>2
  <1> QED
    BY <1>1, <1>2, <1>3, <1>4, <1>5 DEF SoundBlock

\* What blocks that are named there get to is named there.
LEMMA ReachedAreNamed ==
  ASSUME NEW refs, NEW kind \in {"conditions", "actions"}, NEW visits, NEW beneath, NEW blocks,
         Sound(refs, visits, kind), blocks \subseteq Named(visits, beneath)
  PROVE  Reached(refs, blocks) \subseteq Named(visits, beneath)
  <1> DEFINE named == Named(visits, beneath)
  <1>1. ASSUME NEW b \in named PROVE MentionedBy(refs, b) \subseteq named
    <2> SoundBlock(refs, visits, kind, beneath, b)
      BY NamedAreSound
    <2>1. PICK stack : Visit(Block(refs, b), stack \cup {b}) \in visits /\ beneath \subseteq stack
      BY DEF SoundBlock
    <2>2. \A n \in Nodes(Block(refs, b)) : Visit(n, stack \cup {b}) \in visits
      BY <2>1, NodesAreVisited DEF Sound
    <2> SUFFICES ASSUME NEW c \in MentionedBy(refs, b) PROVE c \in named
      OBVIOUS
    <2>3. PICK n \in Nodes(Block(refs, b)) : IsRef(n) /\ c = n.to
      BY DEF MentionedBy, Mentions
    <2>4. Visit(n, stack \cup {b}) \in visits
          /\ Visit(n, stack \cup {b}).node = n /\ Visit(n, stack \cup {b}).stack = stack \cup {b}
      BY <2>2 DEF Visit
    <2> QED
      BY <2>1, <2>3, <2>4 DEF Named
  <1> HIDE DEF named
  <1>2. blocks \subseteq named
    BY DEF named
  <1> QED
    <2>1. Reached(refs, blocks) \subseteq named
      BY <1>1, <1>2, ReachedIsLeast, Zenon
    <2> QED
      BY <2>1 DEF named

\* A rule that resolves is not broken.
LEMMA BrokenFails ==
  ASSUME NEW refs, NEW node, NEW kind \in {"conditions", "actions"},
         ~FailsOn(refs, node, kind)
  PROVE  ~Broken(refs, node, kind)
  <1> DEFINE v == VisitsAt(refs, node, kind)
             visits == UNION {v[depth] : depth \in 0 .. MaxNesting}
             reached == Reached(refs, Mentions(node))
  <1>1. ~TooDeep(refs, node, kind)
        /\ \A depth \in 0 .. MaxNesting : \A visit \in v[depth] : ~Faulty(refs, visit, kind)
    BY DEF FailsOn
  <1>2. Visit(node, {}) \in visits /\ \A visit \in visits : Onward(refs, visit, kind) \subseteq visits
    BY <1>1, VisitsAreClosed
  <1>3. Sound(refs, visits, kind)
    BY <1>1, <1>2 DEF Sound
  <1> HIDE DEF v, visits
  <1>4. ASSUME NEW n, NEW stack, Visit(n, stack) \in visits
        PROVE  /\ ~UnknownTokenIn(refs, n)
               /\ \A beneath : beneath \subseteq stack => Mentions(n) \subseteq Named(visits, beneath)
    <2>1. ASSUME NEW m \in Nodes(n)
          PROVE  /\ Visit(m, stack) \in visits /\ ~Faulty(refs, Visit(m, stack), kind)
                 /\ Visit(m, stack).node = m /\ Visit(m, stack).stack = stack
      <3>1. Visit(m, stack) \in visits
        BY <1>2, <1>4, NodesAreVisited
      <3> QED
        BY <1>3, <3>1 DEF Visit, Sound
    <2>2. ~UnknownTokenIn(refs, n)
      BY <2>1 DEF UnknownTokenIn, Faulty
    <2>3. ASSUME NEW beneath, beneath \subseteq stack, NEW b \in Mentions(n)
          PROVE  b \in Named(visits, beneath)
      <3>1. PICK m \in Nodes(n) : IsRef(m) /\ b = m.to
        BY DEF Mentions
      <3> QED
        BY <2>1, <2>3, <3>1 DEF Named
    <2> QED
      BY <2>2, <2>3
  <1>5. ASSUME NEW b \in reached
        PROVE  /\ b[1] = kind /\ Exists(refs, b)
               /\ \E stack : Visit(Block(refs, b), stack \cup {b}) \in visits /\ b \notin stack
    <2>1. Mentions(node) \subseteq Named(visits, {})
      BY <1>2, <1>4
    <2>2. reached \subseteq Named(visits, {})
      BY <1>3, <2>1, ReachedAreNamed
    <2>3. b \in Named(visits, {})
      BY <2>2
    <2>4. SoundBlock(refs, visits, kind, {}, b)
      BY <1>3, <2>3, NamedAreSound
    <2> QED
      BY <2>4 DEF SoundBlock
  <1>6. ASSUME NEW b \in reached PROVE b \notin Reached(refs, MentionedBy(refs, b))
    <2>1. PICK stack : Visit(Block(refs, b), stack \cup {b}) \in visits
      BY <1>5
    <2>2. Mentions(Block(refs, b)) \subseteq Named(visits, {b})
      BY <1>4, <2>1
    <2>3. MentionedBy(refs, b) \subseteq Named(visits, {b})
      BY <2>2 DEF MentionedBy
    <2>4. Reached(refs, MentionedBy(refs, b)) \subseteq Named(visits, {b})
      BY <1>3, <2>3, ReachedAreNamed
    <2>5. ASSUME b \in Named(visits, {b}) PROVE FALSE
      <3>1. SoundBlock(refs, visits, kind, {b}, b)
        BY <1>3, <2>5, NamedAreSound
      <3> QED
        BY <3>1 DEF SoundBlock
    <2> QED
      BY <2>4, <2>5
  <1>7. ~UnknownTokenIn(refs, node) /\ \A b \in reached : ~UnknownTokenIn(refs, Block(refs, b))
    BY <1>2, <1>4, <1>5
  <1> QED
    BY <1>5, <1>6, <1>7 DEF Broken

\* A visit at some depth is in the rule, or in a block the rule gets to, which every
\* block of the stack is or gets to.
In(node, visit, depth) == \E d \in 0 .. depth : visit.node \in NodesTo(node)[d]
InBlock(refs, visit, depth, c) ==
    /\ Exists(refs, c) /\ In(Block(refs, c), visit, depth)
    /\ \A b \in visit.stack : b = c \/ c \in Reached(refs, MentionedBy(refs, b))
AtHome(refs, node, visit, depth) ==
    LET reached == Reached(refs, Mentions(node)) IN
    /\ visit.stack \subseteq reached
    /\ \/ visit.stack = {} /\ In(node, visit, depth)
       \/ \E c \in reached : InBlock(refs, visit, depth, c)

LEMMA InIsOfNodes ==
  ASSUME NEW node, NEW visit, NEW depth \in 0 .. MaxNesting, In(node, visit, depth)
  PROVE  visit.node \in Nodes(node)
  <1>1. PICK d \in 0 .. depth : visit.node \in NodesTo(node)[d]
    BY DEF In
  <1>2. d \in 0 .. MaxNesting
    BY RuleTreeAssumption
  <1> QED
    BY <1>1, <1>2, NodesHave

LEMMA InGoesDown ==
  ASSUME NEW node, NEW visit, NEW next, NEW depth \in 0 .. MaxNesting - 1,
         In(node, visit, depth), next.node \in Parts(visit.node)
  PROVE  In(node, next, depth + 1)
  <1>1. PICK d \in 0 .. depth : visit.node \in NodesTo(node)[d]
    BY DEF In
  <1> DEFINE e == d + 1
  <1>2. e \in 1 .. MaxNesting /\ e - 1 = d /\ e \in 0 .. depth + 1
    BY RuleTreeAssumption
  <1> HIDE DEF e
  <1>3. NodesTo(node)[e] = NodesTo(node)[d] \cup UNION {Parts(n) : n \in NodesTo(node)[d]}
    BY <1>2, NodesToDown
  <1>4. next.node \in NodesTo(node)[e]
    BY <1>1, <1>3
  <1> QED
    BY <1>2, <1>4 DEF In

\* A $ref names a block that the rule gets to, and so does every block of its stack.
LEMMA NamedAtHome ==
  ASSUME NEW refs, NEW node, NEW visit, NEW depth \in 0 .. MaxNesting,
         AtHome(refs, node, visit, depth), IsRef(visit.node)
  PROVE  /\ visit.node.to \in Reached(refs, Mentions(node))
         /\ \A b \in visit.stack : visit.node.to \in Reached(refs, MentionedBy(refs, b))
  <1> DEFINE reached == Reached(refs, Mentions(node))
             to == visit.node.to
  <1>1. \A n : visit.node \in Nodes(n) => to \in Mentions(n)
    BY DEF Mentions
  <1>2. CASE visit.stack = {} /\ In(node, visit, depth)
    <2>1. to \in Mentions(node)
      BY <1>1, <1>2, InIsOfNodes
    <2> QED
      BY <1>2, <2>1, ReachedIsLeast
  <1>3. ASSUME NEW c \in reached, InBlock(refs, visit, depth, c)
        PROVE  to \in reached /\ \A b \in visit.stack : to \in Reached(refs, MentionedBy(refs, b))
    <2>1. to \in MentionedBy(refs, c)
      BY <1>1, <1>3, InIsOfNodes DEF InBlock, MentionedBy
    <2>2. \A blocks : c \in Reached(refs, blocks) => to \in Reached(refs, blocks)
      BY <2>1, ReachedIsLeast
    <2>3. MentionedBy(refs, c) \subseteq Reached(refs, MentionedBy(refs, c))
      BY ReachedIsLeast
    <2> QED
      BY <1>3, <2>1, <2>2, <2>3 DEF InBlock
  <1> QED
    BY <1>2, <1>3 DEF AtHome

LEMMA OnwardAtHome ==
  ASSUME NEW refs, NEW node, NEW kind \in {"conditions", "actions"}, NEW visit,
         NEW depth \in 0 .. MaxNesting - 1, NEW next \in Onward(refs, visit, kind),
         AtHome(refs, node, visit, depth)
  PROVE  AtHome(refs, node, next, depth + 1)
  <1> DEFINE reached == Reached(refs, Mentions(node))
             to == visit.node.to
  <1>1. CASE next.node \in Parts(visit.node) /\ next.stack = visit.stack
    <2>1. \A n : In(n, visit, depth) => In(n, next, depth + 1)
      BY <1>1, InGoesDown
    <2> QED
      BY <1>1, <2>1 DEF AtHome, InBlock
  <1>2. CASE /\ IsRef(visit.node) /\ ~FaultyRef(refs, visit, kind)
             /\ next.node = refs[kind][to[2]] /\ next.stack = visit.stack \cup {to}
    <2>1. to \in reached /\ \A b \in visit.stack : to \in Reached(refs, MentionedBy(refs, b))
      <3>1. depth \in 0 .. MaxNesting
        BY RuleTreeAssumption
      <3> QED
        BY <1>2, <3>1, NamedAtHome
    <2>2. Exists(refs, to) /\ next.node = Block(refs, to)
      BY <1>2 DEF FaultyRef, Exists, Block
    <2>3. In(Block(refs, to), next, depth + 1)
      <3>1. 0 \in 0 .. depth + 1
        OBVIOUS
      <3>2. next.node \in NodesTo(Block(refs, to))[0]
        BY <2>2, NodesToDown
      <3> QED
        BY <3>1, <3>2 DEF In
    <2>4. InBlock(refs, next, depth + 1, to)
      BY <1>2, <2>1, <2>2, <2>3 DEF InBlock
    <2>5. next.stack \subseteq reached
      BY <1>2, <2>1 DEF AtHome
    <2> QED
      BY <2>1, <2>4, <2>5 DEF AtHome
  <1> QED
    BY <1>1, <1>2, OnwardIsPartOrBlock

LEMMA VisitsAtHome ==
  ASSUME NEW refs, NEW node, NEW kind \in {"conditions", "actions"}
  PROVE  \A depth \in 0 .. MaxNesting : \A visit \in VisitsAt(refs, node, kind)[depth] :
            AtHome(refs, node, visit, depth)
  <1> DEFINE v == VisitsAt(refs, node, kind)
             S == {m \in Nat : m <= MaxNesting =>
                     \A visit \in v[m] : AtHome(refs, node, visit, m)}
  <1>1. /\ v[0] = {Visit(node, {})}
        /\ \A d \in 1 .. MaxNesting :
             v[d] = UNION {Onward(refs, visit, kind) : visit \in v[d - 1]}
    BY VisitsAtVisited
  <1> HIDE DEF v
  <1>2. 0 \in S
    <2>1. Visit(node, {}).node = node /\ Visit(node, {}).stack = {}
      BY DEF Visit
    <2>2. node \in NodesTo(node)[0]
      BY NodesToDown
    <2>3. In(node, Visit(node, {}), 0)
      BY <2>1, <2>2 DEF In
    <2>4. AtHome(refs, node, Visit(node, {}), 0)
      BY <2>1, <2>3 DEF AtHome
    <2> QED
      BY <1>1, <2>4
  <1>3. ASSUME NEW m \in Nat, m \in S PROVE m + 1 \in S
    <2> SUFFICES ASSUME m + 1 <= MaxNesting, NEW next \in v[m + 1]
                 PROVE  AtHome(refs, node, next, m + 1)
      OBVIOUS
    <2>1. m + 1 \in 1 .. MaxNesting /\ (m + 1) - 1 = m /\ m \in 0 .. MaxNesting - 1
          /\ m <= MaxNesting
      BY RuleTreeAssumption
    <2>2. PICK visit \in v[m] : next \in Onward(refs, visit, kind)
      BY <1>1, <2>1
    <2>3. AtHome(refs, node, visit, m)
      BY <1>3, <2>1
    <2> QED
      BY <2>1, <2>2, <2>3, OnwardAtHome
  <1>4. Nat \subseteq S
    <2> HIDE DEF S
    <2> QED
      BY <1>2, <1>3, NatSetInduction
  <1> QED
    BY <1>4, RuleTreeAssumption DEF v

\* What makes a rule fail is what breaks it, or too deep.
LEMMA FailsBroken ==
  ASSUME NEW refs, NEW node, NEW kind \in {"conditions", "actions"}, FailsOn(refs, node, kind)
  PROVE  Broken(refs, node, kind) \/ TooDeep(refs, node, kind)
  <1> DEFINE reached == Reached(refs, Mentions(node))
  <1> SUFFICES ASSUME NEW depth \in 0 .. MaxNesting,
                      NEW visit \in VisitsAt(refs, node, kind)[depth], Faulty(refs, visit, kind)
               PROVE  Broken(refs, node, kind)
    BY DEF FailsOn
  <1>1. AtHome(refs, node, visit, depth)
    BY VisitsAtHome
  <1>2. CASE IsRef(visit.node)
    <2> DEFINE to == visit.node.to
    <2>1. FaultyRef(refs, visit, kind)
      BY <1>2 DEF Faulty, IsRef
    <2>2. to \in reached /\ \A b \in visit.stack : to \in Reached(refs, MentionedBy(refs, b))
      BY <1>1, <1>2, NamedAtHome
    <2>3. to[1] # kind \/ ~Exists(refs, to) \/ to \in visit.stack
      BY <2>1 DEF FaultyRef, Exists
    <2> QED
      BY <2>2, <2>3 DEF Broken
  <1>3. CASE ~IsRef(visit.node)
    <2>1. \A n : visit.node \in Nodes(n) => UnknownTokenIn(refs, n)
      BY <1>3 DEF Faulty, UnknownTokenIn
    <2>2. CASE In(node, visit, depth)
      BY <2>1, <2>2, InIsOfNodes DEF Broken
    <2>3. ASSUME NEW c \in reached, InBlock(refs, visit, depth, c) PROVE Broken(refs, node, kind)
      <3>1. Exists(refs, c) /\ UnknownTokenIn(refs, Block(refs, c))
        BY <2>1, <2>3, InIsOfNodes DEF InBlock
      <3> QED
        BY <3>1 DEF Broken
    <2> QED
      BY <1>1, <2>2, <2>3 DEF AtHome
  <1> QED
    BY <1>2, <1>3

-----------------------------------------------------------------------------
(* A job fails on its rules just when one of them is broken.               *)

\* How far a file got says whether its rules resolve.
Settled ==
    /\ stage = "unresolvable" => \E i \in DOMAIN doc.rules : Fails(doc.refs, doc.rules[i])
    /\ stage \in InRun => \A i \in DOMAIN doc.rules : ~Fails(doc.refs, doc.rules[i])

LEMMA InitSettled == Init => Settled
  BY DEF Init, Settled, InRun

LEMMA NextSettled == Settled /\ [Next]_vars => Settled'
  <1> SUFFICES ASSUME Settled, [Next]_vars PROVE Settled'
    OBVIOUS
  <1>1. CASE Validate
    BY <1>1 DEF Validate, Settled, InRun
  <1>2. CASE Load
    BY <1>2 DEF Load, Settled, InRun
  <1>3. CASE GetRules
    <2>1. doc' = doc
      BY <1>3 DEF GetRules
    <2>2. CASE \E i \in DOMAIN doc.rules : Fails(doc.refs, doc.rules[i])
      <3>1. stage' = "unresolvable"
        BY <1>3, <2>2 DEF GetRules
      <3> QED
        BY <2>1, <2>2, <3>1 DEF Settled, InRun
    <2>3. CASE ~ \E i \in DOMAIN doc.rules : Fails(doc.refs, doc.rules[i])
      <3>1. stage' = "running"
        BY <1>3, <2>3 DEF GetRules
      <3> QED
        BY <2>1, <2>3, <3>1 DEF Settled, InRun
    <2> QED
      BY <2>2, <2>3
  <1>4. CASE TrackieChanges
    BY <1>4 DEF TrackieChanges, Settled, InRun
  <1>5. CASE BadMeta
    BY <1>5 DEF BadMeta, Running, Settled, InRun
  <1>6. CASE SkipRule
    BY <1>6 DEF SkipRule, Settled
  <1>7. CASE EvaluateRule
    <2>1. stage = "running" /\ stage' \in InRun /\ doc' = doc
      BY <1>7 DEF EvaluateRule, Running, InRun
    <2> QED
      BY <2>1 DEF Settled, InRun
  <1>8. CASE RunEnds
    BY <1>8 DEF RunEnds, Settled, InRun
  <1>9. CASE UNCHANGED vars
    BY <1>9 DEF vars, Settled
  <1> QED
    BY <1>1, <1>2, <1>3, <1>4, <1>5, <1>6, <1>7, <1>8, <1>9 DEF Next

LEMMA SettledResolves == Settled => ResolvesUnlessBroken
  <1> SUFFICES ASSUME Settled PROVE ResolvesUnlessBroken
    OBVIOUS
  <1>1. ASSUME NEW i \in DOMAIN doc.rules
        PROVE  LET conditions == doc.rules[i].conditions
                   actions == doc.rules[i].actions
               IN Fails(doc.refs, doc.rules[i])
                    <=> \/ Broken(doc.refs, conditions, "conditions")
                        \/ TooDeep(doc.refs, conditions, "conditions")
                        \/ Broken(doc.refs, actions, "actions")
                        \/ TooDeep(doc.refs, actions, "actions")
    <2>1. ASSUME NEW node, NEW kind \in {"conditions", "actions"}
          PROVE  FailsOn(doc.refs, node, kind)
                   <=> Broken(doc.refs, node, kind) \/ TooDeep(doc.refs, node, kind)
      <3>1. TooDeep(doc.refs, node, kind) => FailsOn(doc.refs, node, kind)
        BY DEF FailsOn
      <3> QED
        BY <3>1, BrokenFails, FailsBroken
    <2> QED
      BY <2>1 DEF Fails
  <1> QED
    BY <1>1 DEF ResolvesUnlessBroken, Settled, InRun

\* The resolver raises on a rule just when the text of the file breaks it
\* (_expand_refs and _resolve_token, resolver.py): for any library, with blocks that
\* name each other in any way, and any rules, a job fails on its rules exactly when
\* one of them gets to a block that is missing or of the other kind, to one that gets
\* back to itself, or to an unknown variable, or deeper than Python goes; so the stack
\* of _expand_refs is taken for a cycle only where there is one.
THEOREM RulesFileResolvesUnlessBroken == Spec => []ResolvesUnlessBroken
  <1>1. Spec => []Settled
    BY InitSettled, NextSettled, PTL DEF Spec
  <1> QED
    BY <1>1, SettledResolves, PTL
=============================================================================
