SPECIFICATION Spec
CONSTANTS
  MaxTimeout = 3
  MaxInFlight = 2
  MaxQueue = 3
  MaxStderr = 4
  MaxWork = 12
  MaxDirectory = 3
  MaxPath = 9
  MaxWord = 25
CHECK_DEADLOCK FALSE
INVARIANTS
  LoadedIsEnough
  ConfigurationReachesRuntime
  AcceptsExactlyTheAdmitted
