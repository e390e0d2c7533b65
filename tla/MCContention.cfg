SPECIFICATION Spec
CONSTANTS
  w1 = w1
  w2 = w2
  w3 = w3
  Workloads = {w1, w2, w3}
  Workers = {k1}
  DependsOn <- Independent
  RuntimePinned = {w3}
  Capacity = 1
  MaxAttempts = 1
  MaxDispatchTasks = 2
  WorkerOutcomes = {"SUCCESS"}
  ServerErrors = TRUE
  AttemptBound = 2
  FaultBound = 1
  NoWorker = NoWorker
SYMMETRY PairSymmetry
INVARIANTS CapacityRespected DispatchBounded OverrunBounded
CHECK_DEADLOCK FALSE
