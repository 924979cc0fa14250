CONSTANTS
  Threads = {t1, t2}
  Entries = {e1, e2}
  Functions = {f1, f2}
  Gadgets = {g1}
  Unreadable = {u1}
  Null = Null
  NoopJob = NoopJob
  InsertMayFail = TRUE
  EntryMayFault = TRUE
SPECIFICATION Spec
SYMMETRY Symmetry
INVARIANTS TypeOK CallsTrusted
PROPERTY RepairKeepsNewerJob
