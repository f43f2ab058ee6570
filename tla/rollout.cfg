CONSTANTS
  CRs <- AllKinds
  Options <- AllOptions
  Initial <- AtFirst
  MaxEdits = 1
SPECIFICATION Spec
INVARIANTS TypeOK PodsKeptApart WorkloadAccepted EndsMeet ServedAtRest
PROPERTY EveryoneServed
CHECK_DEADLOCK FALSE
