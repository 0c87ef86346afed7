SPECIFICATION ISpec
CONSTANTS
  t1 = t1
  t2 = t2
  NoTask = NoTask
  NoFile = NoFile
  Tasks <- MCTasks
  Pets <- MCPets
  Names <- MCNames
  Kept <- MCKept
  Size <- MCSize
  Asks <- MCSlugs
  Window = 1
  TxMax = 2
  Timely = FALSE
  MaxFaults = 1
  MaxUserCmds = 1
CHECK_DEADLOCK FALSE
INVARIANTS
  ITypeOK
  WholePets
  RebootShowsSame
PROPERTY
  EveryInstallEnds
