SPECIFICATION Spec
CONSTANTS
    Scenarios <- AllScenarios
    MaxChanges = 1
    MaxNesting = 11
    Resolved <- ResolveRule
    Report <- ValidateRulesText
INVARIANTS
    TypeOK
    ValidMeansAsWritten
    NeverGuesses
    NoContradiction
    ResolvesUnlessBroken
CHECK_DEADLOCK FALSE
