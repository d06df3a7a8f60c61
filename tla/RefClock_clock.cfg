CONSTANTS
  Offsets = {2, 5}
  Times <- OffsetTimes
  Periods = {3}
  Deltas <- BackAndForth
  Cycle = 8
  Start = 6
  dwCacheMax = 1
  MaxAdvises = 2
  MaxDeltas = 1
  MaxNow = 9
SPECIFICATION FairSpec
INVARIANTS ScheduleHolds
PROPERTIES DueIsFired DestructorReturns
CHECK_DEADLOCK FALSE
