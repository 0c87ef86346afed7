SPECIFICATION Spec
CONSTANTS
  Clients = {c1}
  Link = link
  QueueSize = 2
  TxSize = 2
  MaxLost = 2
  MaxOthers = 1
INVARIANTS
  StatusKnown
  NoReplay
  NoMissedWakeup
PROPERTIES
  DeviceFed
  StopCompletes
CHECK_DEADLOCK FALSE
