SPECIFICATION Spec
CHECK_DEADLOCK FALSE
CONSTANTS
  k1 = k1
  k2 = k2
  scanner = scanner
  crasher1 = crasher1
  selector1 = selector1
  selector2 = selector2
  h1 = h1
  d1 = d1
  d2 = d2
  j1 = j1
  Scanner = scanner
  Dd2Constants <- MCDd2Constants
  Re9Constants <- MCRe9Constants
  Destroyers <- MCDestroyers
  CallSites <- MCCallSites
  Headers <- MCHeader
  Crashers <- MCCrasher
  Selectors <- MCSelector
  MaxCalls = 2
  MaxRewrites = 1
SYMMETRY DestroyerSymmetry
INVARIANTS
  TypeOK
  OneShot
  Complete
PROPERTIES
  IdempotentCalls ReplacesOnlyOriginals
