SPECIFICATION Spec
CONSTANTS
  da1 = da1
  da2 = da2
  db1 = db1
  dc1 = dc1
  da = da
  db = db
  dc = dc
  Versions = {da1, da2, db1}
  Documents = {da, db}
  DocOf <- MCDocOf
  ContentOf <- MCContentOf
  Reclassified = {}
  Media = {db}
  Legacy = {}
  Scheduled = {daemon}
  Operators = {admin}
  Limit = 2
  LeaseTicks = 1
  RetryTicks = 1
  MaxAttempts = 2
  NoVersion = NoVersion
  NoWorker = NoWorker
INVARIANTS
  TypeOK
  AnalysisMatchesJob
  DuplicateHasCanonical
  RedactedHasNoOpenJob
  LeaseMatchesClaim
PROPERTIES
  SettledForGood
