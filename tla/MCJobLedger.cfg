CONSTANTS
  j1 = j1
  j2 = j2
  a = a
  b = b
  r1 = r1
  r2 = r2
  h = h
  NoJob = NoJob
  Job = {j1, j2}
  Workload = {a, b}
  Hash = {h}
  OutputOf <- SameOutput
  Request = {r1, r2}
  JobOf <- Target
  SpecsOf <- Specs
  PolicyOf <- Asked
  Threshold = 1
  FaultBound = 1
  Fragile = {j2}
SPECIFICATION Spec
INVARIANTS LedgerTypeOK OutputsHeld NoGhostRows
PROPERTIES VerdictStays GarbageCollected
