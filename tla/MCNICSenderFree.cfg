CONSTANTS
  Cores = {1}
  NumberOfCores = 1
  BoardsPerCore = 1
  BurstSize = 3
  Batch = 3
SPECIFICATION Spec
INVARIANT FreesOnlyUnsent
CHECK_DEADLOCK FALSE
