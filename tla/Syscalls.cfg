SPECIFICATION Spec
CONSTANTS
  Base = 1
  RamSize = 5
  AllocAlign = 1
  DirtyPageSize = 8
  PermBytes = 4
  Bytes = {0, 1}
  Image <- MCImage
  StackSize = 1
  BrkStep = 1
  BufSize = 3
  StatSize = 2
  WordMod = 10
  MaxFd = 3
  MaxTransfer = 3
  MaxPos = 11
  Disk <- MCDisk
  CsrAddresses = {8}
  Addresses = {1, 3, 4, 5, 7, 8}
  Sizes = {0, 2, 3}
  Descriptors = {2, 3}
  Offsets = {0, 9}
INVARIANTS
  TypeOK
  ReadDelivers
  OutputIsGuests
  PositionAsReported
  StdStreamsOpen
  PathIsGuests
PROPERTY GuestMemoryKept
CHECK_DEADLOCK FALSE
