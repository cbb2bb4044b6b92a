SPECIFICATION FairSpec
CONSTANTS
  TargetCount = 4
  MaxWorkers = 5
  HardCap = 3
INVARIANTS SlotOwnership PoolIsComplete
PROPERTIES ScannedOnce Terminates
CHECK_DEADLOCK FALSE
