SPECIFICATION Spec
CONSTANTS
  MaxGeneration = 7
  MaxFrames = 2
  MaxCalls = 5
  MaxRuns = 5
  Faults = {"initialize", "load_model", "prepare_stream", "process_audio", "get_metrics", "reset", "shutdown"}
CHECK_DEADLOCK FALSE
INVARIANTS
  ReadyBetweenRuns
  WedgedForGood
  OnlyExhaustionWedges
  SummaryIsCurrent
