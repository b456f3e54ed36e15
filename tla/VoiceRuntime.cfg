SPECIFICATION FairSpec
CONSTANTS
  MaxFrames = 3
  MaxRoom = 2
CHECK_DEADLOCK FALSE
INVARIANTS
  AnswersInOrder
  ShutdownIsLast
  ExitVerdict
  SessionAgrees
PROPERTIES
  Ends
  Settles
