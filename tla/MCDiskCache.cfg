SPECIFICATION Spec
CONSTANTS
  big = big
  small = small
  Hash = {big, small, tiny}
  SizeOf <- Sizes
  Quota = 2
  Proc = {p1, p2}
  NoProc = NoProc
  Lockable = {small}
  FaultBound = 1
INVARIANTS CacheTypeOK QuotaRespected RowsSettled FilesAccounted ScrubSound
PROPERTY OpsReturn
CHECK_DEADLOCK FALSE
