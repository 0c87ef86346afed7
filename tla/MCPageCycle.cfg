SPECIFICATION Spec
CONSTANTS
  PageCount = 4
  Deprecated = {1}
  MinInterval = 2
  MaxInterval = 3
  Stored <- MCStored
  Masks <- MCMasks
  Orders <- MCOrders
  Intervals <- MCIntervals
  MaxCmds = 2
  MaxPresses = 1
  MaxReboots = 1
INVARIANTS
  BagFollowsSettings
  RebootKeepsCycle
PROPERTIES
  ManualGetsFullInterval
  CycleShowsEveryPage
  WalksLandEnabled
