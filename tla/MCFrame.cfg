CONSTANTS
  MaxRegArgs = 2
  WordSize = 8
  StackAlign = 16
  Names = {"a", "b", "c"}
  ParamTypes <- MCParamTypes
  LocalTypes <- MCLocalTypes
  MaxParams = 3
  MaxVars = 3
  MaxSpills = 4
SPECIFICATION FairFrameSpec
CHECK_DEADLOCK FALSE
INVARIANT FrameTypeOK
INVARIANT SlotsSound
INVARIANT ArgumentsLand
PROPERTY PrologueEnds
