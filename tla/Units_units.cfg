CONSTANTS
  Thread = {t1, t2, t3}
  Item = {a, b}
  m_size = 2
  Filters = {"splitter", "sink"}
  PinsOf <- SplitterPins
  Downstream <- SplitterOut
  MediaTypes = {"A", "B"}
  Accepts <- TypesTaken
  Proposes <- TypesOffered
  TryMine = {"o"}
  Reconnects = {}
  None = None
  Addr = {"a", "b"}
  Enums = {e1, e2}
  MaxPins = 2
  MaxVersion = 3
  TypeCounts = {1, 2}
  MaxSkip = 3
  Levels <- CornerLevels
  Latenesses <- EarlyToLate
  Corner = {7, 8, 11, 12, 13, 14, 15, 16, 23, 24, 25, 29, 30}
  WaitFrames = 3
  MaxGroup = 3
  Silly = 3
  IntMax = 7
  Lates = {0, 2, 4, 9}
  Durations = {3}
  Second = 8
  AlmostSecond = 7
  Bias = 1
  Delays = {4, 5}
  MaxTime = 14
  FrameTimes = {33, 900}
  MaxFrames = 6
  Nodes = {n1, n2, n3, n4}
  NULL = NULL
  Lists = {"foo", "bar"}
  Objects = {"o1", "o2"}
  iCacheSize = 1
  Clients = {c1, c2}
  MaxRefs = 3
SPECIFICATION PartsSpec
INVARIANTS Drained NoLostWakeup PinsHold EnumerationExact ConversionExact
  NoOrphanShown FramesDrawn StatisticsExact ListsExact CountsHold
PROPERTIES ImplementsFifo FlushReleasesUnlessReopened
