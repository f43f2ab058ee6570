CONSTANTS
  CRs = {a}
  NoKey = NoKey
  Plan <- FarmerPlan
  Finalizers = {}
  BadSpecs <- NoBadSpecs
  Resyncs = FALSE
  MaxEdits = 3
  MaxMeddles = 0
  MaxFaults = 1
  MaxCrashes = 1
SPECIFICATION Spec
INVARIANTS TypeOK ReadyAfterApplied 
PROPERTIES  ImplementsDesired
CHECK_DEADLOCK FALSE
