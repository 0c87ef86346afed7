SPECIFICATION Spec
CONSTANTS
  Sessions = {s1, s2}
  Codes = {q1, q2}
  TrustSlots = 2
  MaxMints = 3
  MaxFaults = 1
INVARIANTS
  NoLeak
  CodeIsHeard
  TrustKnown
  LiveMeansAuthorized
PROPERTIES
  LinkComesUp
CHECK_DEADLOCK FALSE
