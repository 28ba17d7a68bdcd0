CONSTANTS
  Addresses <- MCAddresses
  RingSize = 3
  SleepDrains = TRUE
SPECIFICATION FairSpec
INVARIANTS TypeOK LastAddressAnnounced
PROPERTY LastAddressAnnouncedAgain
CHECK_DEADLOCK FALSE
