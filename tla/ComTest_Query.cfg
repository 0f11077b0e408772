SPECIFICATION FairSpec
CONSTANTS
  Offered <- MCOffered
  NoNumber = NoNumber
  Numbers <- MCNumbers
  Chunk = 2
  AskFrom = 1
  AskTo = 3
  Budget <- Rough
INVARIANTS TypeOK FieldsStayTogether OnlyEarlyReturnsMislead
PROPERTIES EveryWindowIsAskedFor QueryReturns
CHECK_DEADLOCK FALSE
