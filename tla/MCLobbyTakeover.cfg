CONSTANTS
  Client = {c1, c2}
  NoClient = NoClient
  MaxPlayer = 2
  AiCounts = {0}
SPECIFICATION Spec
INVARIANTS
  AbsentSeatHasAI
CHECK_DEADLOCK FALSE
