CONSTANTS
  Threads = {p1, w1, w2}
  Patchers = {p1}
  HeapUsers = {}
  None = None
  kAttempts = 4
  MaxOutside = 0
  ThreadsStart = TRUE
SPECIFICATION Spec
INVARIANT OthersSuspended
CHECK_DEADLOCK FALSE
