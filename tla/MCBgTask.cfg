SPECIFICATION FairBgtSpec
CONSTANTS
  Tasks = {t1, t2, t3, t4}
  NoTask = NoTask
INVARIANTS
  HeldNodeIsHead
  NoLostWakeup
  ReleasedOnce
PROPERTIES
  Implements
  ImplementsFairly
