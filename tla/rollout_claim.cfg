CONSTANTS
  CRs <- Farmers
  Options <- StorageOptions
  Initial <- AtFirst
  MaxEdits = 1
SPECIFICATION Spec
INVARIANT ClaimRespected
CHECK_DEADLOCK FALSE
