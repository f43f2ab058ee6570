CONSTANTS
  CRs = {a}
  NoKey = NoKey
  Plan <- FarmerPlan
  Finalizers = {"deployment"}
  BadSpecs <- BadDeployment
  Resyncs = TRUE
  MaxEdits = 2
  MaxMeddles = 1
  MaxFaults = 0
  MaxCrashes = 1
SPECIFICATION Spec
PROPERTY Convergence
