\* Three engines of one plugin, each called by its own threads.
CONSTANT
  Instances = {e1, e2, e3}
SPECIFICATION Spec
\* Every reference may be gone.
CHECK_DEADLOCK FALSE
INVARIANTS
  PinnedWhileUsed
  UnloadedWhenUnused
  CallsReachLiveEngines
