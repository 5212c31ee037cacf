CONSTANTS
  NumPlayers = 3
  Difficulty = "nightmare"
  n1 = n1
  n2 = n2
  n3 = n3
  n4 = n4
  a1 = a1
  a2 = a2
  b1 = b1
  b2 = b2
  c1 = c1
  c2 = c2
  d1 = d1
  Sector <- MCSector
  Dot <- MCDot
  DotsIn <- MCDotsIn
  InvaderCounts <- MCInvaders
  TickRate = 2
  GraceTicks <- MCGrace
  DotCost = 2600000
  TimeLimit = 6
  CollapseAfter = 4
SPECIFICATION Spec
SYMMETRY Alike
INVARIANTS
  TypeOK
  CountsDots
  Hysteresis
  OnlyOpenMatchesGoOn
PROPERTIES
  GraceKept
\* The match ends.
CHECK_DEADLOCK FALSE
