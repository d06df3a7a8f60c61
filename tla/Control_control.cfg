CONSTANTS
  Parts = {"stream", "cmd", "seek"}
  MAX_TIME = 3
  Samples <- SampleTimes
  Apps = {a1, a2}
  Hops = 1
  MaxRuns = 2
  Nobody = Nobody
  Cmds = {c1, c2}
  CmdTimes = {1, 2}
  m_StreamTimeOffset = 1
  MaxTime = 2
  NoCmd = NoCmd
SPECIFICATION Spec
INVARIANTS ControlHolds CommandsHold PositionHolds
PROPERTIES ControlProgress
CHECK_DEADLOCK FALSE
