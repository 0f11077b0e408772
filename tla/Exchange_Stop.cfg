SPECIFICATION FairSpec
CONSTANTS
  Kinds <- MCKinds
  CmdOf <- MCCmdOf
  Startup <- MCStartup
  AppKinds <- MCAppKinds
  Exit = "exit"
  FollowUp <- MCFollowUp
  MaxWait = 1
  Prompt = TRUE
  StopWhen = "any"
  Budget <- Unruly
  MaxTelegrams = 0
INVARIANTS TypeOK SocketOutlivesThread
PROPERTY StopReturns
