SPECIFICATION FairSpec
CONSTANTS
  MaxLives = 2
  Greeting = 2
  CallbackMay <- Anything
  Budget <- Twice
INVARIANTS TypeOK OrphanNeedsRace
PROPERTIES FirstIdleIsServed WaitEnds StopReturns
CHECK_DEADLOCK FALSE
