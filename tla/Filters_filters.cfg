CONSTANTS
  cBuffers = 1
  MaxFlushes = 2
  Nobody = Nobody
  Types = {1, 2}
  Sizes = {1, 2}
  None = None
  MaxConnects = 3
  MaxUses = 2
  Plain = {"SyncPoint"}
  cbBuffer = 2
  Lengths = {1, 3}
  Objects = {m1, m2}
  Blocks = {1, 2}
  FormatLengths = {1, 2}
  Byte = {0, 1}
  GUID = {Video, GUID_NULL}
  GUID_NULL = GUID_NULL
SPECIFICATION Spec
INVARIANTS StreamHolds AllocatorHolds RegistrationHolds SampleHolds TypesHold
PROPERTIES FiltersProgress
CHECK_DEADLOCK FALSE
