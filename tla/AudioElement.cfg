CONSTANTS
  Elements = {x}
  Tasks = {1}
  Callers = {c, d}
  QueueLen = 2
  Timed = TRUE
  OpenFails = TRUE
  BufferFails = TRUE
  Outcomes = {"ok", "done", "abort", "input fails", "process fails", "input timeout", "output timeout", "next track"}
  Ops = {"run", "resume", "pause", "stop", "wait", "terminate", "deinit"}
  MaxCalls = 4
SPECIFICATION Spec
INVARIANTS DeviceInStep FlagsInStep
CHECK_DEADLOCK FALSE
