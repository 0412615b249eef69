--------------------------- MODULE RulesStructure ---------------------------
(***************************************************************************)
(* The first layer of rules_validation.py, check_rules_structure: what the *)
(* loader refuses a document for.  The rules editor and `qbt-rules         *)
(* validate` report it with the other layers (RulesValidation).            *)
(***************************************************************************)
EXTENDS RuleTree

Issue(severity, what) == [severity |-> severity, what |-> what]
ERROR(what) == Issue("error", what)

IssueType == [severity : {"error", "warning", "info"}, what : STRING]

When(condition, issue) == IF condition THEN {issue} ELSE {}

StructureOf(rules, i) ==
    IF rules[i].id = Missing THEN {ERROR("no id")}
    ELSE When(\E j \in 1 .. i - 1 : rules[j].id = rules[i].id, ERROR("duplicate id"))
         \cup When(Absent \in {rules[i].conditions, rules[i].actions}, ERROR("no such field"))

CheckRulesStructure(doc) ==
    UNION {StructureOf(doc.rules, i) : i \in DOMAIN doc.rules}
=============================================================================
