SPECIFICATION ForkSpec
CONSTANTS
  Threads = {t1, t2}
  MaxForks = 1
  MaxCalls = 5
INVARIANTS
  Reinitialized
CHECK_DEADLOCK FALSE
