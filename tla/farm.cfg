CONSTANTS
  mainnet = mainnet
  node = node
  farmer = farmer
  CAs = {a, b}
  NoKey = NoKey
  Secrets = {mainnet, other}
  Members = {node, farmer}
  Trusts <- SameSecret
  MaxPolls = 2
  BackoffLimit = 0
  Resyncs = FALSE
  MaxEdits = 2
  MaxMeddles = 0
  MaxFaults = 0
  MaxPodFailures = 1
  MaxCrashes = 0
SPECIFICATION FarmSpec
INVARIANTS FarmTypeOK OneCA
PROPERTY EveryoneStarts
CHECK_DEADLOCK FALSE
