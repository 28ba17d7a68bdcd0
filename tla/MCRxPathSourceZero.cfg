CONSTANTS
  Lcores = {"l1"}
  Queues = {1}
  QueuesOf <- MCOneQueue
  Streams = {"a", "b"}
  Arriving <- MCJumbo
  StreamMap <- MCStreamMap
  Sources = {0, 10}
  CallbackSources = {}
  RingSize = 2
  BurstSize = 2
  NumMbufs = 3
  SinkSize = 1
  MaxFrames <- MCTwoFrames
SPECIFICATION Spec
INVARIANT UnknownStreamNotHandedOver
CHECK_DEADLOCK FALSE
