SPECIFICATION Spec
CONSTANTS
  Names <- LinkNames
  Objects <- MCObjects
  Rooms <- MCRooms
  Plenty = 10000
  Shapes = {"both", "empty", "note"}
  MaxRounds = 2
INVARIANTS
  WriteReported
CHECK_DEADLOCK FALSE
