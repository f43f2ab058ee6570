CONSTANTS
  CAs = {a}
  NoKey = NoKey
  Secrets = {s, t}
  MaxPolls = 1
  BackoffLimit = 0
  Resyncs = TRUE
  MaxEdits = 3
  MaxMeddles = 1
  MaxFaults = 1
  MaxPodFailures = 1
  MaxCrashes = 1
SPECIFICATION Safety
INVARIANTS TypeOK JobHasRBAC
PROPERTIES CAMaterialStable ReadyRaisedOnSecret
SYMMETRY Symmetry
CHECK_DEADLOCK FALSE
