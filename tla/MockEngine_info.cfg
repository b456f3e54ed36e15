SPECIFICATION EngineSpec
CONSTANTS
  MaxGeneration = 3
  MaxFrames = 1
  MaxCalls = 1
CHECK_DEADLOCK FALSE
PROPERTIES
  InfoRefusedWhenPrepared
