SPECIFICATION Spec
CONSTANTS
  Base = 1
  RamSize = 5
  AllocAlign = 2
  DirtyPageSize = 2
  PermBytes = 4
  Segments <- MCSegments
  AllocSizes = {1}
  BrkStep = 2
  BrkRequests = {3, 6}
  AccessSizes = {1, 2}
  Junk <- MCJunk
INVARIANT BreakIsGranted
CHECK_DEADLOCK FALSE
