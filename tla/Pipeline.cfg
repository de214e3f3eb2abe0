SPECIFICATION Spec
CONSTANTS
  Rings = 1
  Tids = {1}
  RingCap = 2
  Targets = {"child", "self"}
  MaxRecords <- RecordBounds
  MaxMaps = 1
  MaxReuse = 1
  MayFail = TRUE
  QueueCap = 1
  BatchRows = 2
  SegmentRows = 2
  MaxRows <- RowBounds
  MaxFaults = 1
INVARIANTS
  StreamFaithful
  DeltasTelescope
  NoReadAfterUnmap
  RecordsAccounted
  RowsInOrder
  CrashLosesTail
  FinishWritesAll
  AllocationsHonest
PROPERTIES
  ClosedSegmentsStay
CHECK_DEADLOCK FALSE
