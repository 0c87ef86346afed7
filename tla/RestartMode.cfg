SPECIFICATION Spec
CONSTANTS
  Pids = {p1, p2, p3}
  Modes = {cable, bluetooth}
  MaxCrashes = 1
  MaxRestarts = 1
  MaxOthers = 0
PROPERTIES
  RestartAppliesMode
CHECK_DEADLOCK FALSE
