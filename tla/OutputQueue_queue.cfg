CONSTANTS
  m_lBatchSize = 2
  Careful = TRUE
  MaxSample = 3
  MaxList = 2
  MaxFlush = 2
SPECIFICATION FairSpec
INVARIANTS QueueHolds NoMissedWork
PROPERTIES QueueProgress
