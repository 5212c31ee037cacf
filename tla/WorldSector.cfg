SPECIFICATION Spec
CONSTANTS
  Size = 9
  DoorRange = 1
  Sides = {"right", "down"}
INVARIANTS
  TypeOK
  PlacesApart
  OnlyPillarsCutOff
CHECK_DEADLOCK FALSE
