SPECIFICATION Spec
CONSTANTS
  Radix = 8
  Words <- MCWords
  Floats <- MCFloats
  Texts <- Names
  Counts <- MCCounts
  MaxSent = 2
INVARIANTS TypeOK ReadsWhatWasSent ValuesFindTheirNames DamageShows SmallSumsAccepted
CHECK_DEADLOCK FALSE
