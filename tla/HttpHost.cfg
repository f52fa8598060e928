CONSTANTS
  Web <- WebMC Lists <- ListsMC
  FirstUrls = {"song", "moved"} Jammed = {"odd"}
  KeepTrack = 2 MaxTrack = 3 ReadLen = 2
  MaxRedirect = 2 BufferSize = 2
  MaxLosses = 1 MaxJobs = 2 MaxOpens = 2 MaxRestarts = 2 MaxPauses = 1
  HeaderBuffer = 12 HeaderSizes = {1, 4, 6} MaxHeaders = 3
  MaxEdits = 2
  LineMax = 4 TextMax = 0
  Places <- PlacesMC Fds = {} MaxUses = 0 Pieces = {1}
  FileSize = 0 Space = 0 MaxOrders = 0
  Kinds = {"wav_decoder", "wav_encoder", "rsp_decoder", "rsp_encoder"} PointNum = 3 SongLen = 4 MaxTurns = 4
  Widths = {16, 24, 32} Levels <- LevelsMC MaxSamples = 4
  DmaBufCount = 1 Music = 0 Rates = {44} MaxClocks = 0 MaxHolds = 0
  Elements = {"in"} Chains = {} MaxSetUps = 0
SPECIFICATION Spec
INVARIANT HostFollowsUrl
CHECK_DEADLOCK FALSE
