SPECIFICATION Spec
CONSTANTS
  MaxRegArgs = 6
  WordSize = 8
  StackAlign = 16
  ByteBase = 4
  StackLow = 1024
  StackHigh = 2048
  RodataBase = 256
  RodataEnd = 512
  Programs <- MCPrograms
  Fills <- MCFills
INVARIANTS
  ResultCorrect CallsAligned TemporariesPopped LabelsResolve 
PROPERTIES
  CallersIntact Ends
CHECK_DEADLOCK FALSE
