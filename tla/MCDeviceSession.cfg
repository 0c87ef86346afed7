SPECIFICATION Spec
CONSTANTS
  Kinds <- MCKinds
  StreamMax = 3
  LineMax = 2
  MaxLines = 2
  MaxSessions = 2
INVARIANTS
  RepliesGoHome
  AppliedOnceInOrder
PROPERTY
  OneAtATime
