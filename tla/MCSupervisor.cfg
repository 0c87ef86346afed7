SPECIFICATION Spec
CONSTANTS
  Pids = {p1, p2, p3}
  Modes = {cable, bluetooth}
  MaxCrashes = 1
  MaxRestarts = 2
  MaxOthers = 1
INVARIANTS
  OneAgent
  NeverIdle
  QuitCovers
PROPERTIES
  AgentAgain
  ClientReaches
CHECK_DEADLOCK FALSE
