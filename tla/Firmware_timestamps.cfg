SPECIFICATION Spec
CONSTANTS
  MinValidTime = 3
  UploadPeriod = 2
  MaxStall = 1
  BootTime = 1
  Epoch = 6
  MaxWall = 12
  MaxDrops = 1
  MaxRestarts = 0
  Durations <- MCDurations
INVARIANT TimestampsAreReal
