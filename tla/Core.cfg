SPECIFICATION FairSpec
CONSTANTS
  WordMod = 14
  NUMREGS = 3
  A0 = 2
  PREFETCH_SIZE = 3
  RamAddr = {0, 1, 2, 3, 4, 5, 6}
  WritableAddr = {0, 1, 2, 3, 6}
  CsrAddr = {7}
  Buffers = {{2}}
  Grants = {{6}}
  Results = {0, 4}
  Decode <- MCDecode
  Images <- MCImages
  Unwritten = {6}
  InitPc = 0
  InitRegs <- MCInitRegs
  BADCODE = 13
INVARIANTS
  TypeOK
  PrefetchCoherent
PROPERTIES
  ImplementsIsa
  InstructionsFinish
CHECK_DEADLOCK FALSE
