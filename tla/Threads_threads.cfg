CONSTANTS
  NoCommand = NoCommand
  Total = 5
  BufferSize = 2
  cbAlign = 2
  cBuffers = 2
  Positions <- SeekPositions
  Restarts = 3
  NoReader = NoReader
  MaxMessages = 3
  Streamers = {s1, s2}
  Blockers = {b1, b2}
  Formats = {1, 2}
  Nobody = Nobody
SPECIFICATION Spec
INVARIANTS RequestsArrive PullHolds BlockHolds
PROPERTIES CallsReturn WaitersLeave
CHECK_DEADLOCK FALSE
