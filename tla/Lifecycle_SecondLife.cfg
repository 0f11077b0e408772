SPECIFICATION Spec
CONSTANTS
  MaxLives = 2
  Greeting = 2
  CallbackMay = {"return"}
  Budget <- Twice
PROPERTY IdleIsServed
CHECK_DEADLOCK FALSE
