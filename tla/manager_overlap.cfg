CONSTANTS
  a = a
  b = b
  c = c
  CRs <- OneCR
  NoKey = NoKey
  Kinds = {"ChiaNode"}
  Kind <- OneKind
  Fates <- GoodFate
  Parts <- OnePart
  Procs = {p, q}
  Elections = {TRUE, FALSE}
  MaxEdits = 1
  MaxReplacements = 2
  MaxCrashes = 1
SPECIFICATION Spec
INVARIANTS TypeOK LeaderLosesNoWork
PROPERTIES NoRollback Convergence
CHECK_DEADLOCK FALSE
