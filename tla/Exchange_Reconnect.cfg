SPECIFICATION LiveSpec
CONSTANTS
  Kinds <- MCKinds
  CmdOf <- MCCmdOf
  Startup <- MCStartup
  AppKinds <- MCAppKinds
  Exit = "exit"
  FollowUp <- MCFollowUp
  MaxWait = 1
  Prompt = TRUE
  StopWhen = "never"
  Budget <- Reconnecting
  MaxTelegrams = 2
INVARIANTS CrashNeedsStop ExclusiveExchange
PROPERTIES IdleMissesAtMostOne ServesInLine EveryTelegramSettles
