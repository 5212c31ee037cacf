CONSTANTS
  NumPlayers = 2
  NumGhosts = 1
  Cell <- MCCell
  Neighbours <- MCNeighbours
  Near <- MCNear
  Home <- MCHome
  SpawnCell = {1, 3}
  GhostCell = {2}
  DotCell = {2}
  PelletCell = {1}
  Kind = {"other"}
  FirstKind = {"other"}
  AiPlayer = {}
  Leaver = {1}
  DotsForAwaken = 2
  MaxAwakenStock = 1
  PowerTicks = 2
  AwakenTicks = 1
  RescueTicks = 2
  SpawnGraceTicks = 1
  RespawnGraceTicks = 1
  StunTicks = 1
SPECIFICATION Spec
PROPERTIES
  DownCosts
  PowerIsPaid
\* The match ends.
CHECK_DEADLOCK FALSE
