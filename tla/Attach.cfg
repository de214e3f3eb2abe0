SPECIFICATION MCSpec
CONSTANTS
  None = None
  Root = 1
  Others = {2}
  Reaper = 0
  FailingStarts = {}
  Rings = 2
  Tids = {1}
  RingCap = 2
  Targets = {"process"}
  MaxRecords <- RecordBounds
  MaxMaps = 1
  MaxReuse = 0
  MayFail = FALSE
INVARIANTS
  AttachedIsSampled
CHECK_DEADLOCK FALSE
