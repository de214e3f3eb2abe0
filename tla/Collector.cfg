SPECIFICATION Spec
CONSTANTS
  Threads = {t1, t2}
  Late = late
  Kinds = {"event", "alloc"}
  MaxCalls = 3
  Pool = 1
  BufCap = 2
  RowBatch = 2
  Chunk = 2
  ChanCap = 1
  Commands = {}
  MaxCommands = 0
SYMMETRY ThreadSymmetry
INVARIANTS
  TypeOK
  WithinCapacity
  BuffersAccounted
  DrainedAtClose
  DropsCounted
CHECK_DEADLOCK FALSE
