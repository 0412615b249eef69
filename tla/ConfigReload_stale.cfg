SPECIFICATION Spec
CONSTANTS
  Thread = {t1, t2}
  MaxVersion = 1
  Broken = {}
  Unresolvable = {}
INVARIANT
  SavedRulesApply
