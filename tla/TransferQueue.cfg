CONSTANTS
  n1 = n1 n2 = n2 c1 = c1 c2 = c2 c3 = c3 tl = tl tq = tq
  Names = {n1, n2}
  Calls = {c1, c2, c3}
  Kinds = {"ensure", "enqueue", "insertLog"}
  LogTrigger = tl
  QueueTrigger = tq
SPECIFICATION Spec
SYMMETRY Symmetry
INVARIANTS QueuedIsLogged
PROPERTIES CreatorQueuesOldWork EnqueueAddsUnrecordedOnce
CHECK_DEADLOCK FALSE
