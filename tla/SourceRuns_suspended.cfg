SPECIFICATION Spec
CONSTANTS
  Scheduled = {daemon}
  Manual = {admin}
  LeaseTicks = 2
  Threshold = 3
  MaxRev = 1
  NoRunner = NoRunner
INVARIANTS
  SuspendedIsNotFetched
