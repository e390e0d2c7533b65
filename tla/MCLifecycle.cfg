SPECIFICATION Spec
CONSTANTS
  w1 = w1
  w2 = w2
  w3 = w3
  Workloads = {w1}
  Workers = {k1, k2}
  DependsOn <- Independent
  RuntimePinned = {}
  Capacity = 1
  MaxAttempts = 2
  MaxDispatchTasks = 2
  WorkerOutcomes = {"SUCCESS", "CHECKPOINT", "EXECUTION_TIMEOUT", "TEMPORARY_CAS_FAILURE", "EXECUTION_FAILURE"}
  ServerErrors = FALSE
  AttemptBound = 3
  FaultBound = 2
  NoWorker = NoWorker
SYMMETRY WorkerSymmetry
INVARIANTS TypeOK NoLostWakeup ActiveAttemptOwned NoFalseSuccess NoRepeatOnFailedWorker BudgetRespected
PROPERTY SettledForever
CHECK_DEADLOCK FALSE
