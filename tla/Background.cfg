SPECIFICATION BackgroundSpec
CONSTANTS
  Versions = {1, 2, 3}
  Analysis <- MCAnalysis
  DayTicks = 2
  MaxHour = 2
  MaxAlerts = 2
  Articles = {1, 2, 3}
  Article <- MCArticle
  StoredBefore = {1}
  Registries <- MCRegistries
  Platforms = {"temu", "shein"}
  Priority <- MCPriority
  Questions <- MCQuestions
  MaxItems = 1
  PageSize = 2
  MaxResults = 2
  Materials = {m1}
  LastWindow = 1
  ByHand = {0}
  Groups = {g1, g2}
  NoWindow = NoWindow
  NoGroup = NoGroup
  Snapshots = {v1, v2}
  Legacy = {v1}
  Runners = {daemon, admin}
  MediaRegistries = {{}, {v1, v2}}
  TicksPerDay = 2
  Retention = 2
  MaxMoment = 4
  Mails = {1, 2, 3}
  Letter <- MCLetter
  Notices <- MCNotices
  Accounts <- MCAccounts
  MaxHand = 1
  MaxRestarts = 1
  f1 = f1
  f2 = f2
  h1 = h1
  h2 = h2
  s1 = s1
  s2 = s2
  Fetches = {f1, f2}
  Hosts = {h1, h2}
  Sources = {s1, s2}
  SourceOf <- MCSourceOf
  Slots = 2
  Interval = 1
  MaxRetries = 1
  MaxRedirects = 1
  NoFetch = NoFetch
  Scrapes = {c1, c2}
  Permits = 1
  MinInterval = 2
  MaxPosts = 2
INVARIANTS
  BackgroundTypeOK
  AlertedOnce
  NoAlertSwallowed
  ReportTops
  DayIsReported
  MailSubmittedOnce
  PermitsAccounted
  WorkHasItsMeans
  NothingLeftOpen
PROPERTIES
  SearchMatches
  ForgottenPathHasNoFile
  ArchiveIsKept
  NoSendAfterTrip
  SpacedStarts
SYMMETRY MCSymmetry
CHECK_DEADLOCK FALSE
