CONSTANTS
  Web <- WebMC Lists <- ListsMC
  FirstUrls = {"song", "radio", "moved", "gone", "list", "odd", "circle", "locked", "shut"} Jammed = {"odd"}
  KeepTrack = 1 MaxTrack = 2 ReadLen = 2
  MaxRedirect = 2 BufferSize = 2
  MaxLosses = 1 MaxJobs = 2 MaxOpens = 2 MaxRestarts = 2 MaxPauses = 1
  HeaderBuffer = 12 HeaderSizes = {1, 4, 6} MaxHeaders = 3
  MaxEdits = 2
  LineMax = 4 TextMax = 6
  Places <- PlacesMC Fds = {1, 2} MaxUses = 6 Pieces = {1, 2}
  FileSize = 3 Space = 4 MaxOrders = 6
  Kinds = {"wav_decoder", "wav_encoder", "rsp_decoder", "rsp_encoder"} PointNum = 3 SongLen = 4 MaxTurns = 4
  Widths = {16, 24, 32} Levels <- LevelsMC MaxSamples = 4
  DmaBufCount = 2 Music = 2 Rates = {16, 44} MaxClocks = 1 MaxHolds = 1
  Elements = {"in", "filter", "out"} Chains <- ChainsMC MaxSetUps = 4
SPECIFICATION Spec
INVARIANTS BodiesInOrder PlaysOnce CutsWhole TransportKept FileKept PlayedOut LinkKept
PROPERTY CallsEnd
CHECK_DEADLOCK FALSE
