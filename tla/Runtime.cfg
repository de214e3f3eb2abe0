SPECIFICATION RuntimeSpec
CONSTANTS
  Size = 4
  Wraps = 2
  MaxSend = 4
  Lengths = {0, 1, 3, 4}
  Modes = {"try_recv", "poll", "recv_sync", "recv"}
  MayCrash = TRUE
  Threads = {t1, t2}
  MaxForks = 2
  MaxCalls = 5
INVARIANTS
  StreamIntact
  EndOfStream
  RecordsDrained
  OneCollector
PROPERTIES
  ImplementsFifo
  Delivered
CHECK_DEADLOCK FALSE
