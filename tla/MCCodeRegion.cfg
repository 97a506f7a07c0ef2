\* A region given as NULL, as arm/signal.h allows, and bodies left in every way.
SPECIFICATION StmtSpec
CONSTANTS
  Arrays = {1, 3}
  Regions = {NULL, DEFAULT_NONE}
  Exits = {"break", "return"}
  NULL = NULL
INVARIANT
  NullRunsBody
