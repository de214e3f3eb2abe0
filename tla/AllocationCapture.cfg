SPECIFICATION CaptureSpec
CONSTANTS
  Threads = {t1, t2}
  Late = late
  Kinds = {"alloc"}
  MaxCalls = 2
  Pool = 1
  BufCap = 2
  RowBatch = 2
  Chunk = 1
  ChanCap = 1
  Commands = {"Pause", "Resume"}
  MaxCommands = 2
  MayKill = TRUE
SYMMETRY ThreadSymmetry
INVARIANTS
  CompleteIsExact
  FooterBalances
  LossIsNotCorruption
CHECK_DEADLOCK FALSE
