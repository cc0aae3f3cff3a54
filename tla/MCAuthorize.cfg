SPECIFICATION AuthSpec
CONSTANTS
  empty = empty
  p1 = p1
  l1 = l1
  s1 = s1
  s2 = s2
  k1 = k1
  k2 = k2
  k3 = k3
  k4 = k4
  k5 = k5
  Empty = empty
  PolicyTexts <- MCPolicyTexts
  LabelTexts = {l1}
  SchemaTexts = {s1, s2}
  Compiles <- MCPolicyTexts
  ValidLabels = {l1}
  RuleFree = {}
  ValidSchemas = {s1, s2}
  PolicyFits <- MCPolicyFits
  LabelsFit <- MCLabelsFit
  Bundles <- MCBundles
  NoBundle = NoBundle
  Endpoints = {}
  NoSource = NoSource
  NoLabelers = NoLabelers
  ListKeys = {}
  CacheLimit = 1
  Checks = {k1, k2, k3, k4, k5}
  Batches <- MCBatches
  Context <- MCContext
  NoContext = NoContext
  Nonconforming <- MCNonconforming
  NoDecision = NoDecision
  MaxBatchSize = 2
  MaxContextKeys = 2
  MaxContextBytes = 16
  MaxContextDepth = 2
  Values <- MCValues
  Contexts <- MCContexts
  KeyBytes = 3
  ScalarBytes = 1
  SetBytes = 2
  Clients = {c1, c2}
  AllowParallel = TRUE
  ParThreshold = 2
  None = None
INVARIANTS
  StrictContextsMeetSchema
  LimitsAreExact
PROPERTY
  ImplementsAtomicAuthorize
CHECK_DEADLOCK FALSE
