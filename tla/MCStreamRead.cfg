\* Three blocks of four bytes and seven bytes on the line, a reader that keeps
\* up and prompt interrupts.
SPECIFICATION Spec
CONSTANTS
  chCnt = 3
  READ_BUFF_CNT = 4
  wSetTime = 2
  MaxBytes = 7
  ReaderKeepsUp = TRUE
  IsrIsPrompt = TRUE
  NULL = NULL
INVARIANTS
  TypeOK
PROPERTIES
  FalseMeansNoData
  TimeoutOnlyWhenQuiet
  PipeSpec
