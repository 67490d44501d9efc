SPECIFICATION FairSpec
CONSTANTS
  NUMCORES = 2
  SetupOps <- MCShortSetupOps
INVARIANTS
  BusyUnderLock
  NotReadyMeansRefused
PROPERTY BusIsReleased
CHECK_DEADLOCK FALSE
