SPECIFICATION FairSpec
CONSTANTS
  PROC_MAX = 4
  PROC_PRIORITY_DEF = 2
  Status = {0}
INVARIANTS
  OnlyRunnableRuns
  NoMissedExit
  StrangersAreOrphans
PROPERTIES
  DeadStayDead
  YieldingIsFair
