CONSTANTS
  Cores = {1, 2}
  NumberOfCores = 2
  BoardsPerCore = 1
  BurstSize = 2
  Batch = 4
SPECIFICATION FairSpec
INVARIANTS
  TypeOK
  HandedOverOnce
PROPERTIES StopEnds LaunchedEndsInTerminate
CHECK_DEADLOCK FALSE
