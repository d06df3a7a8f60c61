CONSTANTS
  Threads = {t1, t2, t3}
  Samples = {s1, s2}
  MaxWaiting = 4
SPECIFICATION FairSpec
INVARIANTS PoolHolds
PROPERTIES DecommitReleases
CHECK_DEADLOCK FALSE
