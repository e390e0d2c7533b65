CONSTANTS
  w1 = w1
  h = h
  Attempt = {a1, a2}
  NoAttempt = NoAttempt
  Workload = {w1}
  WorkloadOf <- OneWorkloadTwice
  Asset = {h}
  InputOf <- SharedInput
  Expects = {w1}
  Sources = 2
SPECIFICATION Spec
PROPERTY CancelStops
CHECK_DEADLOCK FALSE
