SPECIFICATION FairSpec
CONSTANTS
  Reasons <- MCReasons
  QueueLen = 2
  MaxFaults = 2
INVARIANTS TypeOK StatusIsRight StrandsOnlyFor
PROPERTY BackOnline
CHECK_DEADLOCK FALSE
