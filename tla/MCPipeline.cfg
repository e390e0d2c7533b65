SPECIFICATION FairSpec
CONSTANTS
  w1 = w1
  w2 = w2
  w3 = w3
  Workloads = {w1, w2}
  Workers = {k1}
  DependsOn <- Pipeline
  RuntimePinned = {}
  Capacity = 1
  MaxAttempts = 2
  MaxDispatchTasks = 2
  WorkerOutcomes = {"SUCCESS", "TEMPORARY_CAS_FAILURE"}
  ServerErrors = FALSE
  AttemptBound = 2
  FaultBound = 1
  NoWorker = NoWorker
INVARIANT DependencyRan
PROPERTIES ImplementsVerdict AllSettle
CHECK_DEADLOCK FALSE
