SPECIFICATION DesktopSpec
CONSTANTS
  Calls = {t1, exit}
  ExitCall = exit
  None = None
  Operations = {"Start", "Stop", "Request", "Status", "Observe"}
  MaxGeneration = 2
  MaxWaiters = 2
CHECK_DEADLOCK FALSE
INVARIANT ProfileIsCurrent
