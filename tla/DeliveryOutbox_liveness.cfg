SPECIFICATION FairSpec
CONSTANTS
  r1 = r1
  m1 = m1
  g1 = g1
  g2 = g2
  Reports = {r1}
  Messages = {m1}
  Payloads = {pa}
  CardRefused = {}
  Groups = {g1, g2}
  GroupOf <- MCGroupOf
  Drainers = {daemon}
  Senders = {admin}
  Previewers = {preview}
  LeaseTicks = 1
  RetryDelays <- MCDelays1
  MaxAttempts = 2
  NoGroup = NoGroup
  NoPayload = NoPayload
  NoWorker = NoWorker
  NoKey = NoKey
  NoReport = NoReport
PROPERTIES
  EventuallySettled
