SPECIFICATION MCSpec
CONSTANTS
  None = None
  Root = 1
  Others = {2, 3}
  Reaper = 0
  FailingStarts = {"pmu", "precise", "telemetry", "procfs"}
  Rings = 2
  Tids = {1, 2}
  RingCap = 2
  Targets = {"child", "process", "self"}
  MaxRecords <- RecordBounds
  MaxMaps = 0
  MaxReuse = 0
  MayFail = TRUE
INVARIANTS
  RootIsMeasured
  RootIsCollected
  OkMeansSampled
PROPERTIES
  RecordReturns
