SPECIFICATION FairSpec
CONSTANTS
  Addr = {a1, a2}
  NULL = NULL
  MaxClients = 6
  BaseFd = 5
  ListenFds = {4}
  NumFds = 7
  MaxOut = 2
  CtlFailures = {"MOD"}
  ReadMayEnd = FALSE
PROPERTIES
  QuitCloses
  AsyncCloses
  SignalExits
CHECK_DEADLOCK FALSE
