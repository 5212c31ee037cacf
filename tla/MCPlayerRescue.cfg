CONSTANTS
  NumPlayers = 3
  NumGhosts = 1
  Cell <- MCCell
  Neighbours <- MCNeighbours
  Near <- MCNear
  Home <- MCHome
  SpawnCell = {1, 3}
  GhostCell = {2}
  DotCell = {}
  PelletCell = {2}
  Kind = {"boss", "other"}
  FirstKind = {"other"}
  AiPlayer = {1, 2, 3}
  Leaver = {}
  DotsForAwaken = 2
  MaxAwakenStock = 1
  PowerTicks = 2
  AwakenTicks = 1
  RescueTicks = 2
  SpawnGraceTicks = 1
  RespawnGraceTicks = 1
  StunTicks = 1
SPECIFICATION FairSpec
INVARIANTS
  TypeOK
  ClocksAgree
PROPERTIES
  DownEnds
\* The match ends.
CHECK_DEADLOCK FALSE
