SPECIFICATION Spec
CONSTANTS
  XLEN <- MCXLEN
  Programs <- MCPrograms
  Values <- MCValues
  Pcs <- MCPcs
INVARIANTS
  TypeOK
  Computes
  Jumps
  Accesses
  Traps
CHECK_DEADLOCK FALSE
