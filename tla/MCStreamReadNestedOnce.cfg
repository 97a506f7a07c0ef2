\* Four blocks and five bytes: what the reader gets when one flush preempts the other.
SPECIFICATION NestedSpec
CONSTANTS
  chCnt = 4
  READ_BUFF_CNT = 4
  wSetTime = 1
  MaxBytes = 5
  ReaderKeepsUp = TRUE
  IsrIsPrompt = FALSE
  NULL = NULL
INVARIANT
  ReadOnce
\* The model ends where a block is linked twice.
CHECK_DEADLOCK FALSE
