CONSTANTS
  BurstSize = 2
  Garbage = Garbage
  MaxFrames = 3
SPECIFICATION FairSpec
INVARIANTS TypeOK XStatsCountedOnce GarbageBeganBeforeSetUp MaxBurstCovered CrashBeganBeforeStart
PROPERTY PacketsPublished
CHECK_DEADLOCK FALSE
