SPECIFICATION Spec
CONSTANTS
  Texts <- MCTexts
  MaxStrings = 2
INVARIANTS
  BlockScope
CHECK_DEADLOCK FALSE
