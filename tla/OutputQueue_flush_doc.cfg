CONSTANTS
  m_lBatchSize = 2
  Careful = FALSE
  MaxSample = 2
  MaxList = 2
  MaxFlush = 1
SPECIFICATION Spec
INVARIANT NothingStale
