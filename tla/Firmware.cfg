SPECIFICATION FairSpec
CONSTANTS
  MinValidTime = 3
  UploadPeriod = 2
  MaxStall = 1
  BootTime = 1
  Epoch = 6
  MaxWall = 11
  MaxDrops = 2
  MaxRestarts = 1
  Durations <- MCDurations
INVARIANTS TypeOK ReportedOnce LossAccounted Separated
PROPERTIES ImplementsLedger OverwriteOnlyAtSync CounterIsFlushed
