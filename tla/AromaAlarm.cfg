CONSTANTS
  PerHour = 8 HoursPerDay = 3
  Window = 2 Back = 2
  LightAt = 1 MusicAt = 1 RepeatAt = 2 HoldAt = 3
  SleepMid = 3
  Over = 4
  GetupLead = 3 SleepLead = 7 PauseTime = 1 ConfigTime = 1 Stride = 3 ClockSlack = 5
  Starts = {30}
  MaxTicks = 9 MaxPresses = 2 MaxSteps = 1 MaxCrashes = 1
  SpellTime = 2 MaxSteps5 = 9 MaxSets = 4
  Top = 2 MaxLamps = 5
  GetupLength = 5 SleepLength = 3 Chunk = 2 MaxOrders = 2
SPECIFICATION Spec


CHECK_DEADLOCK FALSE
PROPERTY HalfHourBefore
