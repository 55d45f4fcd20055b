SPECIFICATION ExecSpec
CONSTANTS
  Names <- LinkNames
  MergedObjects <- MCMergedObjects
  LinkOptions <- MCLinkOptions
  ByteBase = 2
  LinkBase = 32
  LinkPage = 8
INVARIANTS
  ExecTypeOK
  UnplacedIsFree
  NoOverlapUnrequested
CHECK_DEADLOCK FALSE
