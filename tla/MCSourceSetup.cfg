CONSTANTS
  Uids = {"q1", "q2"}
  Ids = {1, 2}
  OutputLists <- MCOutputLists
  NoModel = NoModel
SPECIFICATION Spec
INVARIANTS TypeOK DeliversToConfiguredSink CrashHasCause
CHECK_DEADLOCK FALSE
