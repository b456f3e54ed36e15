SPECIFICATION EngineSpec
CONSTANTS
  MaxGeneration = 3
  MaxFrames = 1
  MaxCalls = 2
CHECK_DEADLOCK FALSE
INVARIANTS
  EpochParity
  EpochsNeverReused
  CountersAddUp
  SnapshotExact
