SPECIFICATION MCSpec
CONSTANTS
  Keys <- MCKeys
  Asked <- MCPrefixes
  Values = {v1, v2}
  Objects = {a1, a2, a3, a4, a5}
  Scores = {1, 2, 3}
  InitSlots = 1
  NULL = NULL
  Titles = {t1, t2, t3, t42}
  IntTitles = {t42}
  Words = {"cat", "cats", "dog", "the"}
  NoTerm = NoTerm
  TermOf <- MCTermOf
  Texts <- MCTexts
  Docs = {a1, a2, a3, a4, a5}
  Nil = Nil
  NullBulk = NullBulk
SYMMETRY Symmetry
INVARIANTS
  SizeExact
  ValuesReferenced
  CritBits
  ListsMatching
  HasPrefixExact
  HeapOrdered
  ReferencesExact
  IndexMirrorsDocs
  ScoreDefined
PROPERTIES
  ImplementsMap
  Implements
  ImplementsStore
CHECK_DEADLOCK FALSE
