CONSTANTS
  Worker = {w1}
  Hash = {a}
  DegradedAt = 2
  SuspectAt = 4
  Penalty = 2
  FaultBound = 1
  FailureBound = 0
SPECIFICATION Spec
PROPERTIES ForcedToReRegister
CHECK_DEADLOCK FALSE
