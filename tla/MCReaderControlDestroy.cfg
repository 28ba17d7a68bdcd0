CONSTANTS
  i1 = i1
  i2 = i2
  l1 = l1
  l2 = l2
  l3 = l3
  Ifaces = {i1, i2}
  Lcores = {l1, l2}
  LcoresOf <- MCLcoresOfSmall
  Sources = {"queue", "cb"}
  CallbackSources = {"cb"}
  MaxBurst = 2
  ExitWithoutScrap = TRUE
  NoIface = NoIface
SPECIFICATION Spec
INVARIANT StoppedWhenDestroyed
CHECK_DEADLOCK FALSE
