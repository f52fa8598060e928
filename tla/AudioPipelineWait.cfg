CONSTANTS
  N = 2
  RingCap = 1
  TrackLen = 2
  Impatient = {}
  OpenFails = FALSE
  QueueLen = 5
  PipeOps = {"run","stop","wait"}
  MaxOps = 3
  Patient = TRUE
SPECIFICATION FairSpec
PROPERTY OpsReturn
CHECK_DEADLOCK FALSE
