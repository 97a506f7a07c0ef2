\* Two blocks of two bytes, under fairness: the caller may stop at any byte.
SPECIFICATION FairSpec
CONSTANTS
  chCnt = 2
  WRITE_BUFF_CNT = 2
  MaxBytes = 3
  NULL = NULL
PROPERTY
  AcceptedAreSent
\* The caller may stop writing.
CHECK_DEADLOCK FALSE
