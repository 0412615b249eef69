SPECIFICATION Spec
CONSTANTS
  Thread = {t1, t2}
  MaxVersion = 3
  Broken = {2}
  Unresolvable = {1}
SYMMETRY Symmetry
INVARIANTS
  TypeOK
  OnlyLoadedRulesServed
  QuietReloadServesTheFile
  NoEditGoesUnnoticed
