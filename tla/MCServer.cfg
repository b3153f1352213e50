SPECIFICATION Spec
CONSTANTS
  Files <- MCFiles
  CommandLines <- MCCommandLines
  Limits <- MCLimits
  Units <- MCUnits
  Garbage <- MCGarbage
  Levels = {"info"}
  MaxFrequency = 4
  MaxPort = 10
  MaxPerm = 511
  ReservedFds = 32
  DecrStep = 16
  AssumedLimit = 1024
  UIntMod = 4096
  LongLongMod = 512
  FirstFd = 3
  MsPerSec = 4
  MaxLag = 6
  NoTimer = NoTimer
  NULL = NULL
CHECK_DEADLOCK FALSE
INVARIANTS LimitHonoured SleepExact
PROPERTY CronRuns
