CONSTANTS
  Threads = {p1, w1, w2}
  Patchers = {p1}
  HeapUsers = {w1}
  None = None
  kAttempts = 4
  MaxOutside = 1
  ThreadsStart = TRUE
  Cells <- MCCells
  Image <- MCImage
  PageOf <- MCPageOf
  Candidates <- AllSites
  NoCandidate = NoCandidate
  RestoreMayFail = TRUE
  MixedPages = FALSE
SPECIFICATION WindowSpec
INVARIANTS PatchTypeOK SuspensionsBalanced WindowOrNothing OnlyNewcomersRun OutcomesTellTheBytes ProtectionRestored
PROPERTIES ResumedUnlessHeapSuspended NoBlindWrite ReplacesWholeSites
CHECK_DEADLOCK FALSE
