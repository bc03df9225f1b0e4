SPECIFICATION FairSpec
CONSTANTS
  p1 = p1
  p2 = p2
  Paths <- MCPaths
  MaxVer = 1
  MaxFaults = 2
INVARIANTS TypeOK OneEvent
PROPERTIES CatchesUp 
