CONSTANTS
  Threads = {t1, t2}
  None = None
  MaxCalls = 2
  MaxMeddling = 3
SPECIFICATION FairSpec
INVARIANTS TypeOK DetoursFindOriginal RetriesCanSucceed OnlyFirstBlocked
PROPERTY EntryRestored
CHECK_DEADLOCK FALSE
