SPECIFICATION FairSpec
CONSTANTS
  None = None
  Recordings = {"a", "b"}
  ViewsOf <- TwoRecordings
  Frames = {1, 2}
  Styles = {0, 2}
  Empty = {1}
  MaxGeneration = 3
  MaxJobs = 2
INVARIANTS
  CurrentIsRight
  ActiveTabExists
PROPERTIES
  AnalysisSettles
CHECK_DEADLOCK FALSE
