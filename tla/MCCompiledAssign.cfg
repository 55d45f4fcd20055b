SPECIFICATION Spec
CONSTANTS
  MaxRegArgs = 6
  WordSize = 8
  StackAlign = 16
  ByteBase = 4
  StackLow = 1024
  StackHigh = 2048
  RodataBase = 256
  RodataEnd = 512
  Programs <- NarrowPrograms
  Fills <- MCFills
INVARIANT
  AssignmentHasValue
CHECK_DEADLOCK FALSE
