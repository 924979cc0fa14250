CONSTANTS
  Renderers = {r1, r2}
  Offsets = {o1, o2}
  None = None
  kConfirmationsNeeded = 3
  Warmup = 1
  FaultLimit = 2
  MaxFrame = 9
  Calm = 5
  Beats = o1
SPECIFICATION CalmingSpec
INVARIANTS TypeOK ConfirmedByScans AtMostOneStaleWrite WritesConfirmedCluster
PROPERTIES ImplementsSync EventuallySynchronized
CHECK_DEADLOCK FALSE
