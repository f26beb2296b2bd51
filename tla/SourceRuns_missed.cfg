SPECIFICATION Spec
CONSTANTS
  Scheduled = {daemon}
  Manual = {}
  LeaseTicks = 2
  Threshold = 3
  MaxRev = 1
  NoRunner = NoRunner
INVARIANTS
  HealthyIsUpToDate
