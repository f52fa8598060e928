SPECIFICATION Spec
CONSTANTS
  Boards = {{"button"}, {"touch"}, {"sdcard"}, {"led"}, {"wifi"}, {"bt"}, {"console"}}
  CmdLen = 2
  MaxCalls = 4
  LongPress = 2
  MaxEdges = 4
  Readings = {2, 6, 9}
  TapPercent = 60
  LongTap = 2
  MaxReadings = 3
  MaxFlips = 2
  MaxFails = 2
  Channels = 2
  Pins = {4, 5, 6}
  Counts = {1}
  MaxDrops = 1
  Phones = {"a", "b"}
  Keys = {"play", "next"}
  Labels = 4
  MaxKeys = 2
  LineSize = 3
  MaxArguments = 1
  MaxLines = 2
INVARIANTS FreedIsOver InputsTold BlinksWhole BitsTell PhoneHoldsOne
PROPERTIES Settles DestroyEnds
CHECK_DEADLOCK FALSE
