CONSTANTS
  Boards <- MCBoards
  DotsForAwaken = 2
  MaxAwakenStock = 1
  PowerTicks = 2
  AwakenTicks = 1
  RescueTicks = 2
  RespawnGraceTicks = 1
  AppleGraceTicks = 1
  StunTicks = 1
  AuraRadius = 1
  StunRadius = 2
  SafeDistance = 1
  BossHp = 2
  FruitLimit = 1
  GhostTargets = {1}
  GhostSlack = 0
SPECIFICATION Spec
INVARIANTS
  TypeOK
  ClocksAgree
  SectorsAgree
PROPERTIES
  CrossingTakesThree
\* The match ends.
CHECK_DEADLOCK FALSE
