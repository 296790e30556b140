SPECIFICATION AllSpec
CONSTANTS
  p1 = p1
  p2 = p2
  p3 = p3
  f1 = f1
  f2 = f2
  f3 = f3
  None = None
  Absent = Absent
  Procs = {p1, p2}
  Names = {f1}
  Inodes = {1, 2}
  Objects = {1, 2}
  Fds = {1, 2}
  Modes <- MCModes
  Uses = {"lock", "unlink"}
  Sizes = {}
  Offsets = {}
  MaxFaults = 0
  MaxCalls = 0
  MaxLength = 0
  MsPerS = 2
  UsPerMs = 3
  NsPerUs = 2
  Int64Max = 190
  Int32Max = 20
  EpochDelta = 5
  YearLength = 6
  Offset = 1
  DstStart <- MCDstStart
  DstEnd = 4
  Hour = 2
  DayUs = 48
  HourUs = 24
  MinuteUs = 12
  Seconds <- MCSeconds
  StampSeconds <- MCStampSeconds
  Walls <- MCWalls
INVARIANT TimesSinceUnixEpoch
CHECK_DEADLOCK FALSE
