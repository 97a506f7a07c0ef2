\* The calls of the writer, the interrupt taken inside them: the main program
\* queues the full block and takes a new one, the completion handler frees the
\* block sent and fetches the next.
SPECIFICATION Spec
CONSTANTS
  NULL = NULL
  Blocks = {b1, b2, b3}
  MainOps = {"new", "append"}
  IsrOps = {"free", "fetch"}
  Preempts = TRUE
INVARIANT
  NoBlockLost
\* After a fault nothing runs.
CHECK_DEADLOCK FALSE
