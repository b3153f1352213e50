SPECIFICATION FairSpec
CONSTANTS
  ReplyMaxLen = 2
  WriteCap = 2
  MaxReply = 3
  MaxBytes = 7
INVARIANTS
  CursorInChunk
  RepliedLenExact
PROPERTIES
  DeliversStream
  DeliversAll
CHECK_DEADLOCK FALSE
