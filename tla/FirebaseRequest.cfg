SPECIFICATION FairSpec
CONSTANTS
  BodyLen = 2
  MaxCalls = 3
  MaxFaults = 2
INVARIANTS TypeOK SuccessIsTrue NoValueOnError
PROPERTY Returns
CHECK_DEADLOCK FALSE
