CONSTANTS
  Size = 5
  Align = 4
  Word = 64
  ReadLens = {1, 5}
  WriteLens = {2, 5}
  Timed = TRUE
  MaxBytes = 7
  MaxAborts = 1
  MaxResets = 1
SPECIFICATION FairSpec
INVARIANTS
  FilledSlots
  Contents
  NoWakeUpLost
PROPERTIES Implements GoesOn
