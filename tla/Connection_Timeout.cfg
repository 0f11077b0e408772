SPECIFICATION FairSpec
CONSTANTS
  MaxReady = 3
  Budget <- OneExpiry
PROPERTY BecomesReady
