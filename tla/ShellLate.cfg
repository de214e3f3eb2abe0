SPECIFICATION Spec
CONSTANTS
  None = None
  Recordings = {"a", "b"}
  ViewsOf <- TwoWithCores
  Frames = {}
  Styles = {0}
  Empty = {}
  MaxGeneration = 2
  MaxJobs = 3
INVARIANTS
  LanesAreRight
CHECK_DEADLOCK FALSE
