CONSTANTS
  Threads = {t1, t2}
  Entries = {e1}
  Functions = {f1, f2}
  Gadgets = {g1}
  Unreadable = {u1}
  Null = Null
  NoopJob = NoopJob
  InsertMayFail = FALSE
  EntryMayFault = TRUE
SPECIFICATION Spec
INVARIANT CacheHoldsLastFunction
