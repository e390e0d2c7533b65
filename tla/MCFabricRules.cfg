CONSTANTS
  Byte = {0, 1}
  MaxLen = 2
  ChunkSize = 1
  NoFile = NoFile
  Missing = Missing
  Absent = Absent
  Opaque = Opaque
  NaN = NaN
SPECIFICATION Spec
INVARIANTS
  CommittedIsVerified
  PlansSound
  AdaptersSound
  IntelligenceSound
