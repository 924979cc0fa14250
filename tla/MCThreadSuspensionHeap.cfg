CONSTANTS
  Threads = {p1, w1, w2}
  Patchers = {p1}
  HeapUsers = {w1, w2}
  None = None
  kAttempts = 4
  MaxOutside = 0
  ThreadsStart = FALSE
SPECIFICATION FairSpec
PROPERTY SuspendedThreadsResumed
CHECK_DEADLOCK FALSE
