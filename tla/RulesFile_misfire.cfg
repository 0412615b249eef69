SPECIFICATION Spec
CONSTANTS
    Scenarios <- Structure
    MaxChanges = 0
    MaxNesting = 11
    Resolved <- ResolveRule
    Report <- ValidateRulesText
INVARIANT ValidNeverMisfires
CHECK_DEADLOCK FALSE
