SPECIFICATION Spec
CONSTANTS
  Offered <- MCOffered
  NoNumber = NoNumber
  Numbers <- MCNumbers
  Chunk = 2
  AskFrom = 1
  AskTo = 3
  Budget <- Calm
INVARIANTS StartSucceeds
CHECK_DEADLOCK FALSE
