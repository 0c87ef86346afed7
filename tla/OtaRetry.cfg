SPECIFICATION USpec
CONSTANTS
  b1 = b1
  b2 = b2
  t1 = t1
  t2 = t2
  NoTask = NoTask
  Garbage = Garbage
  Blocks <- MCBlocks
  Images <- MCImages
  Boots <- MCBoots
  Factory <- MCFactory
  Tasks <- MCTasks
  Release <- MCRelease
  SlotBlocks = 2
  TxMax = 2
  Timely = TRUE
  MaxFaults = 1
  MaxAborts = 0
CHECK_DEADLOCK FALSE
INVARIANT RetryFindsDeviceFree
