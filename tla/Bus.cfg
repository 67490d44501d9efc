SPECIFICATION FairSpec
CONSTANTS
  NUMCORES = 1
  SetupOps <- MCSetupOps
INVARIANTS
  TypeOK
  StatusIsOwn
PROPERTY CallsReturn
CHECK_DEADLOCK FALSE
