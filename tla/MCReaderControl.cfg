CONSTANTS
  i1 = i1
  i2 = i2
  l1 = l1
  l2 = l2
  l3 = l3
  Ifaces = {i1, i2}
  Lcores = {l1, l2, l3}
  LcoresOf <- MCLcoresOf
  Sources = {"queue", "cb"}
  CallbackSources = {"cb"}
  MaxBurst = 2
  ExitWithoutScrap = FALSE
  NoIface = NoIface
SPECIFICATION FairSpec
INVARIANTS
  TypeOK
  NoNullCallback
  AtMostOneLateFrame
  QuietWhenNotRunning
  EveryQueuePolled
  StoppedWhenDestroyed
PROPERTIES CommandsReturn ScrapIsFinal
CHECK_DEADLOCK FALSE
