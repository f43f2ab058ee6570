CONSTANTS
  CAs = {a}
  NoKey = NoKey
  Secrets = {s, t}
  MaxPolls = 2
  BackoffLimit = 0
  Resyncs = TRUE
  MaxEdits = 2
  MaxMeddles = 0
  MaxFaults = 0
  MaxPodFailures = 0
  MaxCrashes = 0
SPECIFICATION Spec
PROPERTY SecretMade
