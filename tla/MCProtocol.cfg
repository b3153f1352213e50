SPECIFICATION Spec
CONSTANTS
  IoBufLen = 2
  BigArg = 4
  InlineMax = 8
  MaxBulks = 9
  MaxBulkLen = 9
  Numeral <- MCNumeral
  Quit <- MCQuit
  Sessions <- MixedSessions
INVARIANTS
  RunsWhatArrived
  RefusesOnlyMalformed
  ClosesOnMalformed
  AsksForBytes
CHECK_DEADLOCK FALSE
