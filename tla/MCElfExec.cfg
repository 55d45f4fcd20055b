SPECIFICATION Spec
CONSTANTS
  Names <- LinkNames
  Images <- MCImages
  ElfPage = 8
  Addresses = {16, 18, 21, 24, 30}
  Sizes = {0, 2, 9}
INVARIANTS
  OffsetsTight
  LoadsInOrder
CHECK_DEADLOCK FALSE
