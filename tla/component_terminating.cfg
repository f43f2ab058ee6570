CONSTANTS
  CRs = {a}
  NoKey = NoKey
  Plan <- NodePlan
  Finalizers = {"statefulset"}
  BadSpecs <- NoBadSpecs
  Resyncs = TRUE
  MaxEdits = 3
  MaxMeddles = 0
  MaxFaults = 0
  MaxCrashes = 0
SPECIFICATION Safety
INVARIANT ReadyAfterApplied
