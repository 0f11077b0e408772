SPECIFICATION FairSpec
CONSTANTS
  MaxReady = 3
  Budget <- MCBudget
INVARIANTS TypeOK OneChainPerExpiry ThreadNeedsSocket
PROPERTY StaysConnected
