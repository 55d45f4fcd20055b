SPECIFICATION Spec
CONSTANTS
  Bad = Bad
  Names <- LinkNames
  UnitSeqs <- MCUnitSeqs
  Unreadable <- Bad
  LinkOptions <- MCLinkOptions
  ByteBase = 4
  LinkBase = 64
  LinkPage = 16
  MaxPlaces = 2
  OldFiles <- MCOldFiles
INVARIANTS
  FieldsReach
  BytesSurvive
  FailureKeepsOutput
  SuccessDelivers
PROPERTIES
  ImplementsLink
  Exits
CHECK_DEADLOCK FALSE
