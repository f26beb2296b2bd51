SPECIFICATION FairSpec
CONSTANTS
  t1 = t1
  Handlers = {h1, h2, h3}
  Questions = {q1, q2}
  Tests = {ai}
  Threads = {t1}
  ThreadOf <- MCThreadOf
  QaConcurrency = 2
  MaxTurns = 1
  NoHandler = NoHandler
  NoMessage = NoMessage
INVARIANTS
  TypeOK
  SlotsMatchWork
  ClosedTasksAreCancelled
  AnsweredOnce
  ContextHoldsAnswers
PROPERTIES
  SlotComesBack
