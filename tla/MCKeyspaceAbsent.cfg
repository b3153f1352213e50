SPECIFICATION Spec
CONSTANTS
  Keys = {k1, k2}
  Fields = {f1, f2}
  Values = {small, text}
  SmallInts = {small}
  Addr = {a1, a2, a3, a4}
  Collections = {"trie", "heapq", "fts"}
  Self = self
  Tasks = {t1, t2}
  LazyfreeThreshold = 1
  NULL = NULL
  NullBulk = NullBulk
SYMMETRY Symmetry
CHECK_DEADLOCK FALSE
PROPERTY AbsentIsNil
