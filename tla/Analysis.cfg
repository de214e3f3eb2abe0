SPECIFICATION AnalysisSpec
CONSTANTS
  SetCount = 2
  Ways = 2
  MruWays = 2
  Addresses = {0, 1, 2, 4}
  Invalid = Invalid
  MaxAccesses = 5
  None = None
  Tids = {u1, u2}
  Blocks = {1, 2, 3}
  Handles = {"loop", "call", "return"}
  BlockOf <- MCBlockOf
  FlowOf <- MCFlowOf
  MaxRecords = 5
  MaxAccessed = 2
  Graphs <- MCGraphs
  LineSize = 3
  Lines = {0, 1, 2, 3}
  Vcpus = {0, 1}
  Tracked = 2
  Requests <- MCRequests
  Priorities = {1, 2}
  Width = 2
  MaxSamples = 2
  MaxRefs = 5
  Threads = {t1, t2}
  MaxAddr = 2
  MaxOps = 3
  MaxClock = 1
SYMMETRY AnyThreads
INVARIANTS
  RecentHitsAreCurrent
  AccountingExact
  LoopsFound
  MemoryExact
  ReplayExact
  UncertainOnlyAtShutdown
PROPERTY
  ImplementsLru
CHECK_DEADLOCK FALSE
