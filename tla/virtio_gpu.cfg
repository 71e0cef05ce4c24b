\* The shell and a user process share the GPU.
SPECIFICATION FairSpec
CONSTANTS
  Shell = shell
  Users = {u1}
  Sleeps = 1
  MaxDrawn = 1
  MaxEvents = 1
  MaxPending = 1
INVARIANTS  FailuresHaveACause BackingIsHeld
PROPERTIES FlushReturns
CHECK_DEADLOCK FALSE
