SPECIFICATION Spec
CONSTANTS
  ByteBase = 4
  Addresses = {16, 60, 200}
  Lists <- MCLists
  Texts <- MCTexts
  Literals <- MCLiterals
INVARIANTS
  ObjectSound SaysItsItems BranchesArrive NamesResolve SameObject StringsKept
CHECK_DEADLOCK FALSE
