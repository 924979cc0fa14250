CONSTANTS
  Renderers = {r1, r2}
  None = None
  Image <- MCImage
  PageSize = 4
  Wild = "?"
  Patterns <- MCPatterns
  MaxChanges = 1
  ContextPattern <- MCContextPattern
  EncodedPattern <- MCEncodedPattern
  kDisplacement = 1
  kInstruction = 3
  kThreshold = 1
  InModule <- MCInModule
  GlobalContext = "x"
  Signature <- MCSignature
  Margin = 5
  Addresses <- MCAddresses
  Code <- MCCode
  maxSize = 3
  globalBudget = 6
SPECIFICATION SearchSpec
PROPERTY NotReadyIsNotForEver
CHECK_DEADLOCK FALSE
