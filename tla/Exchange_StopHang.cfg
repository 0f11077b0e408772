SPECIFICATION FairSpec
CONSTANTS
  Kinds <- MCKinds
  CmdOf <- MCCmdOf
  Startup <- MCStartup
  AppKinds <- MCAppKinds
  Exit = "exit"
  FollowUp <- MCFollowUp
  MaxWait = 1
  Prompt = TRUE
  StopWhen = "any"
  Budget <- Losing
  MaxTelegrams = 1
PROPERTY StopReturns
CHECK_DEADLOCK FALSE
