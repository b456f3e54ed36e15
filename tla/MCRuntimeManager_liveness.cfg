SPECIFICATION FairSpec
CONSTANTS
  Calls = {c1, c2}
  None = None
  Operations = {"Start", "Stop", "Request", "Status"}
  MaxInFlight = 1
  CommandQueueCapacity = 1
  MaxGeneration = 1
  MaxRequestId = 2
  MaxBacklog = 1
CHECK_DEADLOCK FALSE
PROPERTIES
  EveryCallAnswered
  NoChildSurvivesManager
