SPECIFICATION Spec
CONSTANTS
  Threads = {t1}
  Late = late
  Kinds = {"event"}
  MaxCalls = 3
  Pool = 1
  BufCap = 2
  RowBatch = 2
  Chunk = 2
  ChanCap = 1
  Commands = {}
  MaxCommands = 0
INVARIANTS
  LossesSurface
CHECK_DEADLOCK FALSE
