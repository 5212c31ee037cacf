CONSTANTS
  Item <- MCItem
  Course <- MCCourse
  LastTick = 5
  Interval = 2
  Files <- MCFiles
  MaxInbox = 4
  None = None
SPECIFICATION Spec
INVARIANTS
  TypeOK
  MirrorsMatch
  ShowsItsTime
PROPERTIES
  LogIsWhole
