SPECIFICATION Spec
CONSTANTS
  PROC_MAX = 4
  PROC_PRIORITY_DEF = 2
  Status = {0}
INVARIANTS
  SleepersAreQueued
