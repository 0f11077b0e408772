SPECIFICATION Spec
CONSTANTS
  Kinds <- MCKinds
  CmdOf <- MCCmdOf
  Startup <- MCStartup
  AppKinds <- MCAppKinds
  Exit = "exit"
  FollowUp <- MCFollowUp
  MaxWait = 1
  Prompt = FALSE
  StopWhen = "never"
  Budget <- OneConnection
  MaxTelegrams = 2
PROPERTY WaitsForOwnResponse
