\* Three blocks of four bytes, as zero_strm_cfg.h has them, and 25 writes: the pool goes round twice.
SPECIFICATION FairSpec
CONSTANTS
  chCnt = 3
  WRITE_BUFF_CNT = 4
  MaxBytes = 25
  NULL = NULL
INVARIANTS
  TypeOK
  BlocksConserved
  BusyOwner
  NoStall
  RecycledFull
  BytesInPlace
  SentInOrder
PROPERTIES
  DmaExclusive
  FalseMeansFull
  PipeSpec
  QueuedAreSent
  RefusedIsRetried
\* The caller may stop writing.
CHECK_DEADLOCK FALSE
