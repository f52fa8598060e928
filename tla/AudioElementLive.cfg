CONSTANTS
  Elements = {x}
  Tasks = {1, 2}
  Callers = {c}
  QueueLen = 2
  Timed = FALSE
  OpenFails = TRUE
  BufferFails = FALSE
  Outcomes = {"done", "abort", "process fails", "input fails", "output timeout"}
  Ops = {"run", "resume", "pause", "stop", "wait", "terminate", "deinit"}
  MaxCalls = 5
SPECIFICATION FairSpec
INVARIANT OneTask
PROPERTY Obeyed
CHECK_DEADLOCK FALSE
