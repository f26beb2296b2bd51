SPECIFICATION Spec
CONSTANTS
  da1 = da1
  da2 = da2
  db1 = db1
  dc1 = dc1
  da = da
  db = db
  dc = dc
  Versions = {da1, da2}
  Documents = {da}
  DocOf <- MCDocOf
  ContentOf <- MCContentOf
  Reclassified = {}
  Media = {}
  Legacy = {}
  Scheduled = {daemon}
  Operators = {}
  Limit = 1
  LeaseTicks = 1
  RetryTicks = 1
  MaxAttempts = 2
  NoVersion = NoVersion
  NoWorker = NoWorker
INVARIANTS
  DuplicateHasSameContent
