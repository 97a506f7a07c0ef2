\* Three blocks and every call by both contexts, none interrupted.
SPECIFICATION Spec
CONSTANTS
  NULL = NULL
  Blocks = {b1, b2, b3}
  MainOps = {"free", "new", "append", "fetch"}
  IsrOps = {"free", "new", "append", "fetch"}
  Preempts = FALSE
INVARIANTS
  TailIsLast
PROPERTIES
  StoreSpec
