\* Three blocks of four bytes and six bytes on the line, a reader that keeps
\* up, and interrupts served as late as the line and the channel allow.
SPECIFICATION Spec
CONSTANTS
  chCnt = 3
  READ_BUFF_CNT = 4
  wSetTime = 2
  MaxBytes = 6
  ReaderKeepsUp = TRUE
  IsrIsPrompt = FALSE
  NULL = NULL
INVARIANTS
  BlocksConserved
  QueuedHoldBytes
  ReadOnce
