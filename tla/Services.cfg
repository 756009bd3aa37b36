SPECIFICATION MCSpec
CONSTANTS
  None = None
  Services = {"sync", "digest"}
  Lanes <- TwoLanes
  LaneOf <- SmallLaneOf
  Gates <- SmallGates
  FailureLimit = 2
  Capacity = 2
  Oldest = 3
  Room = 2
  Budget = 6
  Events = {"e1", "e2", "e3"}
  Watched = 2
  Interval = 2
  EveryNth = 3
  MostLines = 11
  MostRecords = 3
  MostTime = 2
  MostRefusals = 2
INVARIANTS
  RunsAlone
  NoTriggerForgotten
  LogReadsAsOne
  GapsAreTold
PROPERTIES
  TriggersAreServed
  StartSound
CHECK_DEADLOCK FALSE
