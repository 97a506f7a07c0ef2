\* A queue; a pool whose count has two bits, so that it wraps and frees come at 0; a
\* delegate, whose running handler may unregister another one and where the last of a
\* list is not registered again (README.md says what becomes of the rest); machines; a
\* locker (two handlers over the main program, sections two deep); printers; statements;
\* the initialisers (the sizes of zero_strm_cfg.h and those around them: no block, one,
\* two, three, the documented ones, 255, 256 and 257 blocks).
SPECIFICATION PartsSpec
CONSTANTS
  Values = {v1, v2}
  Sizes = {1, 2, 3}
  MaxBlock = 3
  NoItem = NoItem
  NULL = NULL
  Depth = 5
  LastState = 4
  CALLS = 2
  NONE = NONE
  Priorities = 2
  MaxNest = 2
  Instances = 5
  Length <- Strings
  PoolSize = 4
  CounterMod = 4
  DATA = DATA
  Handlers = {h1, h2, h3}
  Registers = {"new", "inner"}
  Nested = {"unregister"}
  MaxChanges = 7
  Arrays = {1, 2, 3, 6}
  Regions = {DEFAULT_ATOM_CODE, DEFAULT_NONE}
  Exits = {}
  Header = 8
  WRITE_BUFF_CNT = 4
  READ_BUFF_CNT = 16
  WriteSizes = {0, 11, 12, 23, 24, 35, 48, 1024, 3059, 3071, 3084}
  ReadSizes = {0, 23, 24, 47, 48, 71, 96, 1024, 6119, 6143, 6192}
  EarlyBytes = 8
INVARIANTS
  RefStaysIntact
  InnerStartsFresh
  ListsWhole
  ListsAndCursor
  MaskIsNesting
  LockExclusive
  BodyRunsOnce
  InitOutcome
PROPERTIES
  QueueSpec
  LeavesCompleted
  NoneOvertaken
  StringsWhole
  Repeats
\* Expansion and initialisation end.
CHECK_DEADLOCK FALSE
