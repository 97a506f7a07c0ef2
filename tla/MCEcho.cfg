\* Three blocks of four bytes to read into, two of one byte to write from, three
\* bytes on the line: flushes by both interrupts, refusals and drops.
SPECIFICATION EchoFairSpec
CONSTANTS
  chCnt = 3
  READ_BUFF_CNT = 4
  wSetTime = 2
  MaxBytes = 3
  ReaderKeepsUp = TRUE
  IsrIsPrompt = TRUE
  wChCnt = 2
  WRITE_BUFF_CNT = 1
  NULL = NULL
INVARIANT
  EchoInOrder
PROPERTIES
  DropsOnlyWhenFull
  ArrivedAreHandled
