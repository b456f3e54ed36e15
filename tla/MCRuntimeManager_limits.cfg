SPECIFICATION Spec
CONSTANTS
  Calls = {c1, c2, c3, c4}
  None = None
  Operations = {"Start", "Stop", "Request"}
  MaxInFlight = 2
  CommandQueueCapacity = 1
  MaxGeneration = 1
  MaxRequestId = 2
  MaxBacklog = 1
CHECK_DEADLOCK FALSE
SYMMETRY Symmetry
INVARIANTS
  RequestIdsFresh
  Bounded
