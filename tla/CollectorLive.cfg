SPECIFICATION FairSpec
CONSTANTS
  Threads = {t1, t2}
  Late = late
  Kinds = {"event"}
  MaxCalls = 2
  Pool = 2
  BufCap = 2
  RowBatch = 2
  Chunk = 2
  ChanCap = 1
  Commands = {"Flush"}
  MaxCommands = 1
INVARIANTS
  Conserved
PROPERTIES
  ShutdownCompletes
  EventuallyParsed
CHECK_DEADLOCK FALSE
