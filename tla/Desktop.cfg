SPECIFICATION DesktopSpec
CONSTANTS
  Calls = {t1, t2, exit}
  ExitCall = exit
  None = None
  Operations = {"Start", "Stop", "Request", "Status", "Observe"}
  MaxGeneration = 2
  MaxWaiters = 2
CHECK_DEADLOCK FALSE
INVARIANTS
  NotRunningMeansGone
  ProfileOfOneConnection
  ExitLeavesNoChild
PROPERTIES
  ShownNeverGoesBack
  ExitHappens
