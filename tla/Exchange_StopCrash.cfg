SPECIFICATION Spec
CONSTANTS
  Kinds <- MCKinds
  CmdOf <- MCCmdOf
  Startup <- MCStartup
  AppKinds <- MCAppKinds
  Exit = "exit"
  FollowUp <- MCFollowUp
  MaxWait = 1
  Prompt = TRUE
  StopWhen = "idle"
  Budget <- OneConnection
  MaxTelegrams = 2
INVARIANT StopIsClean
