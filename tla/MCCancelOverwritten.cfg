SPECIFICATION Spec
CONSTANTS
  w1 = w1
  w2 = w2
  w3 = w3
  Workloads = {w1}
  Workers = {k1}
  DependsOn <- Independent
  RuntimePinned = {}
  Capacity = 1
  MaxAttempts = 2
  MaxDispatchTasks = 2
  WorkerOutcomes = {"SUCCESS", "CHECKPOINT", "EXECUTION_TIMEOUT", "TEMPORARY_CAS_FAILURE", "EXECUTION_FAILURE"}
  ServerErrors = FALSE
  AttemptBound = 2
  FaultBound = 0
  NoWorker = NoWorker
PROPERTY CancelFinal
CHECK_DEADLOCK FALSE
