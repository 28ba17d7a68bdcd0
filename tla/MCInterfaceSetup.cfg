CONSTANTS
  Ips = {1, 2, 3}
  Streams = {a, b}
  SourceIds = {s1, s2}
  Cores = {c1, c2}
  Devices = {d1, d2}
  MaxConns = 3
  MaxCores = 2
  MaxEarlier = 1
SPECIFICATION SetupSpec
SYMMETRY MCSymmetry
INVARIANTS
  TypeOK
  SetupTypeOK
  RoutedAsConfigured
  OneLcorePerQueue
  QueuesBalanced
  SteeredAsConfigured
  DeviceSetUpOnce
CHECK_DEADLOCK FALSE
