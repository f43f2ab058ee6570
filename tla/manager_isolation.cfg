CONSTANTS
  a = a
  b = b
  c = c
  CRs = {a, b, c}
  NoKey = NoKey
  Kinds = {"ChiaNode", "ChiaWallet"}
  Kind <- TwoKinds
  Fates <- AllFates
  Parts <- OnePart
  Procs = {p}
  Elections = {TRUE}
  MaxEdits = 1
  MaxReplacements = 0
  MaxCrashes = 0
SPECIFICATION Spec
INVARIANT LeaderLosesNoWork
PROPERTY Convergence
CHECK_DEADLOCK FALSE
