CONSTANTS
  Regions = {r1}
  Modules = {m1}
  Nowhere = Nowhere
  MaxMoves = 4
  MaxFailures = 1
SPECIFICATION FairSpec
INVARIANTS TypeOK FillsOnlyAimed RestoresWhatItNeutralized NothingLeftWritable
PROPERTY RedirectRemoved
CHECK_DEADLOCK FALSE
