SPECIFICATION Spec
CONSTANTS
  Base = 9
  RamSize = 28
  AllocAlign = 2
  DirtyPageSize = 64
  PermBytes = 4
  NumCores = 2
  StackSize = 7
  BrkStep = 4
  WordBytes = 1
  Images <- MCImages
  Argv0 = 1
  Argv1 = {2, NoArg}
  NoArg = NoArg
INVARIANTS
  TypeOK
  BlocksDisjoint
  ImageInPlace
  StartsWithArguments
PROPERTY MainReachesCore
CHECK_DEADLOCK FALSE
