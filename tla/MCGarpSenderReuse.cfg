CONSTANTS
  Addresses <- MCAddresses
  RingSize = 3
  SleepDrains = TRUE
SPECIFICATION Spec
INVARIANT AnnouncesWhatWasQueued
CHECK_DEADLOCK FALSE
