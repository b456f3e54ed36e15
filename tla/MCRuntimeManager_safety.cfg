SPECIFICATION Spec
CONSTANTS
  Calls = {c1, c2, c3}
  None = None
  Operations = {"Start", "Stop", "Request", "Status", "Observe", "NotEvaluated"}
  MaxInFlight = 1
  CommandQueueCapacity = 1
  MaxGeneration = 2
  MaxRequestId = 2
  MaxBacklog = 1
CHECK_DEADLOCK FALSE
SYMMETRY Symmetry
INVARIANTS
  TypeOK
  NoOrphan
  ReplyAfterReap
  ReplyConservation
  StateMatchesContexts
PROPERTIES
  StopLeavesNoChild
  GracefulMeansComplete
  ImplementsService
