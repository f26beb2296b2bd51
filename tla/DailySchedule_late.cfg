SPECIFICATION ScheduleSpec
CONSTANTS
  Materials = {m1}
  LastWindow = 1
  ByHand = {}
  Groups = {g1}
  NoWindow = NoWindow
  NoGroup = NoGroup
PROPERTIES
  LateGoesIntoNext
CHECK_DEADLOCK FALSE
