SPECIFICATION Spec
CONSTANTS
  XLEN <- MCXLEN
  Programs <- MCPrograms
  Values <- MCValues
  Pcs <- MCPcs
INVARIANT BaseSetImplemented
CHECK_DEADLOCK FALSE
