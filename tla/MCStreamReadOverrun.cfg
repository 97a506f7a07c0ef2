\* The reader falls behind: bytes go on arriving when no block is free.
SPECIFICATION Spec
CONSTANTS
  chCnt = 2
  READ_BUFF_CNT = 4
  wSetTime = 1
  MaxBytes = 6
  ReaderKeepsUp = FALSE
  IsrIsPrompt = TRUE
  NULL = NULL
INVARIANTS
  ReadOnce
