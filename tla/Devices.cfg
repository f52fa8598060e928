CONSTANTS
  Years <- YearsMC
  MaxFailures = 3
  Tubes = 2 MaxPrints = 3
  PowerUp = {0, 255} MaxCalls = 3
  Records = 3 Settings63 = 2 MaxPolls = 2 MaxStarts = 4
  Registers = {52, 246, 510, 512, 65022} WordCounts = {1, 2, 126, 127} Targets <- TargetsMC MaxAccesses = 2
SPECIFICATION Spec
INVARIANTS DatesKept TimeKept PrintShows DoneAsAsked UploadIsWhole
PROPERTY SyncEnds
CHECK_DEADLOCK FALSE
