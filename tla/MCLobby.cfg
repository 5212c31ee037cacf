CONSTANTS
  Client = {c1, c2, c3}
  NoClient = NoClient
  MaxPlayer = 2
  AiCounts = {0, 1}
SPECIFICATION Spec
SYMMETRY ConnectionSymmetry
INVARIANTS
  TypeOK
  BindingAgrees
  HostIsConnected
  SeatsAgree
PROPERTIES
  HostIsStable
  SeatsAreKept
  ImplementsRoster
\* Every id of the finite set may end up unusable, then nothing is left to do.
CHECK_DEADLOCK FALSE
