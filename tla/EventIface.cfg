CONSTANTS
  Sources = {s1, s2}
  QueueLen = 2
  FirstSet = 2
  MaxEvents = 4
  MaxChanges = 3
SPECIFICATION FairSpec
INVARIANT InStep
PROPERTY HeardUnlessRaced
CHECK_DEADLOCK FALSE
