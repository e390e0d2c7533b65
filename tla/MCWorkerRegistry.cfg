CONSTANTS
  Worker = {w1}
  Hash = {a}
  DegradedAt = 2
  SuspectAt = 4
  Penalty = 2
  FaultBound = 3
  FailureBound = 2
SPECIFICATION Spec
INVARIANTS RegTypeOK IndexDual AckedIsIndexed TrustedSeen
PROPERTIES Recovers AssetsPublished
CHECK_DEADLOCK FALSE
