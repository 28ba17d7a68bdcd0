CONSTANTS
  Lcores = {"l1", "l2"}
  Queues = {1, 2, 3}
  QueuesOf <- MCQueuesOf
  Streams = {"a", "b"}
  Arriving <- MCArriving
  StreamMap <- MCStreamMap
  Sources = {10, 20, 30}
  CallbackSources = {30}
  RingSize = 2
  BurstSize = 2
  NumMbufs = 4
  SinkSize = 1
  MaxFrames <- MCMaxFrames
SPECIFICATION FairSpec
INVARIANTS TypeOK MbufsConserved FramesCounted UnexpectedIdRecorded
PROPERTIES DeliversInOrder PassesEnd EveryFrameProcessed
CHECK_DEADLOCK FALSE
