------------------------------ MODULE RuleTree ------------------------------
(***************************************************************************)
(* The parsed rules.yml, as far as the resolver, the validator and the     *)
(* engine tell documents apart: what kind of node stands where, not the    *)
(* words in it.  The vocabulary is that of schema.py.                      *)
(*                                                                         *)
(* A document is [refs |-> [vars, conditions, actions], rules |-> Seq].    *)
(***************************************************************************)
EXTENDS Naturals, Sequences, FiniteSets

CONSTANT
    MaxNesting      \* how deep a walk over a document gets before Python's recursion limit

ASSUME RuleTreeAssumption == MaxNesting \in Nat

ConditionGroups == <<"all", "any", "none">>

\* A key that is not there.
Missing == "-"

Null == [k |-> "null"]              \* a blank value
Absent == [k |-> "absent"]          \* no such key in the rule
Text == [k |-> "text"]              \* a scalar where a structure belongs
List(items) == [k |-> "list", items |-> items]

\* A mapping with some of the keys all, any and none; {} has none of them.
Groups(of) == [k |-> "groups", of |-> of]

Leaf(field, op, value) ==
    [k |-> "leaf", field |-> field, op |-> op, value |-> value]

\* The keys of both in one mapping: groups, and beside them a condition.
GroupsBeside(of, leaf) ==
    Groups([key \in DOMAIN of \cup {"beside"} |-> IF key = "beside" THEN leaf ELSE of[key]])

\* {$ref: group.name}, alone or with other keys beside it.
Ref(group, name) == [k |-> "ref", to |-> <<group, name>>, beside |-> FALSE]
RefBeside(group, name) == [Ref(group, name) EXCEPT !.beside = TRUE]

\* params.delete_files of a delete_torrent; no property tells other params apart.
Action(type, files) == [k |-> "action", type |-> type, files |-> files]

Rule(id, conditions, actions) ==
    [id |-> id, enabled |-> "yes", stop |-> FALSE, meta |-> "mapping",
     conditions |-> conditions, actions |-> actions]

IsRef(node) == node.k = "ref"
GroupsOf(node) == DOMAIN node.of \ {"beside"}
HasGroups(node) == node.k = "groups" /\ GroupsOf(node) # {}

-----------------------------------------------------------------------------
(* schema.py: one operator per kind of value it takes, and its opposite.   *)

OperatorKind ==
    [is |-> "any", is_not |-> "any", in |-> "list", not_in |-> "list",
     contains |-> "string", not_contains |-> "string", matches |-> "regex",
     above |-> "number", larger_than |-> "size", older_than |-> "duration"]

Operators == DOMAIN OperatorKind
Negations == {"is_not", "not_in", "not_contains"}

Namespace(field) ==
    CASE field \in {"info.p", "info.q"} -> "info"
      [] field \in {"files.name"} -> "files"
      [] field \in {"tracker.status", "tracker.account.ratio_ok", "tracker.bogus"} -> "tracker"
      [] OTHER -> "unknown"

TrackerFieldNames == {"tracker.status", "tracker.account.ratio_ok"}

ActionTypes == {"add_tag", "delete_torrent"}

-----------------------------------------------------------------------------
(* Values.  "x" is a value every operator understands and "y" another one; *)
(* "junk" is of the wrong kind for every operator that minds; "false" in   *)
(* quotes is the text, "no" the boolean.  ${...} are tokens.               *)

Literals == {"x", "y", "junk", "yes", "no", "'false'"}
Tokens == {"${vars.v}", "${vars.gone}", "${rule.id}", "${rule.gone}", "${info.name}"}

RuntimeTokens == {"${info.name}"}
VarTokens == {"${vars.v}", "${vars.gone}"}
RuleTokens == {"${rule.id}", "${rule.gone}"}
VarName(token) == IF token = "${vars.v}" THEN "v" ELSE "gone"

\* bool() of a YAML scalar: every text but the empty one counts as true.
Truthy(value) == value # "no"
IsBool(value) == value \in {"yes", "no"}
=============================================================================
