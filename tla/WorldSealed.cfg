SPECIFICATION Spec
CONSTANTS
  Size = 9
  DoorRange = 0
  Sides = {"left", "right", "up", "down"}
INVARIANT DotsInReach
CHECK_DEADLOCK FALSE
