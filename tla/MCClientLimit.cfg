SPECIFICATION Spec
CONSTANTS
  Addr = {a1, a2, a3}
  NULL = NULL
  MaxClients = 7
  BaseFd = 5
  ListenFds = {4}
  NumFds = 8
  MaxOut = 2
  CtlFailures = {}
  ReadMayEnd = TRUE
PROPERTY DropOnlyAtLimit
CHECK_DEADLOCK FALSE
