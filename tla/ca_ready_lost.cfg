CONSTANTS
  CAs = {a}
  NoKey = NoKey
  Secrets = {s, t}
  MaxPolls = 2
  BackoffLimit = 0
  Resyncs = TRUE
  MaxEdits = 1
  MaxMeddles = 0
  MaxFaults = 0
  MaxPodFailures = 0
  MaxCrashes = 1
SPECIFICATION Spec
PROPERTY ReadyWhenSecret
