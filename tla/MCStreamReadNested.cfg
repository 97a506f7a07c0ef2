\* Five blocks of four bytes and four bytes on the line: one block read, one queued, one
\* filled, and one for each flush.
SPECIFICATION NestedSpec
CONSTANTS
  chCnt = 5
  READ_BUFF_CNT = 4
  wSetTime = 1
  MaxBytes = 4
  ReaderKeepsUp = TRUE
  IsrIsPrompt = FALSE
  NULL = NULL
INVARIANTS
  NestedConserved
\* The model ends where a block is linked twice.
CHECK_DEADLOCK FALSE
