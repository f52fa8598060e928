CONSTANTS
  N = 2
  RingCap = 1
  TrackLen = 2
  Impatient = {2}
  OpenFails = TRUE
  QueueLen = 5
  PipeOps = {"run","pause","stop","wait","resume","terminate"}
  MaxOps = 3
  Patient = TRUE
SPECIFICATION FairSpec
INVARIANT StreamKept
PROPERTY Completes
CHECK_DEADLOCK FALSE
