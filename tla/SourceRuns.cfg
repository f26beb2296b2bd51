SPECIFICATION FairSpec
CONSTANTS
  Scheduled = {daemon}
  Manual = {admin}
  LeaseTicks = 2
  Threshold = 2
  MaxRev = 2
  NoRunner = NoRunner
INVARIANTS
  TypeOK
  LeaseUntilOverrun
  SuspendedAtThreshold
  SuccessStoredAll
PROPERTIES
  LeakedLeaseComesBack
