SPECIFICATION Spec
CONSTANTS
  Texts <- MCTexts
  MaxStrings = 2
INVARIANTS
  ConflictFree ParsesAsC
CHECK_DEADLOCK FALSE
