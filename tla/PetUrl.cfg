SPECIFICATION ISpec
CONSTANTS
  t1 = t1
  t2 = t2
  NoTask = NoTask
  NoFile = NoFile
  Tasks <- MCTasks
  Pets <- MCPets
  Names <- MCNames
  Kept <- MCKept
  Size <- MCSize
  Asks <- MCAsks
  Window = 1
  TxMax = 2
  Timely = TRUE
  MaxFaults = 1
  MaxUserCmds = 0
CHECK_DEADLOCK FALSE
INVARIANT InstallsWork
