SPECIFICATION Spec
CONSTANTS
  empty = empty
  p1 = p1
  p2 = p2
  pBad = pBad
  l1 = l1
  lNone = lNone
  s1 = s1
  s2 = s2
  k1 = k1
  k2 = k2
  k3 = k3
  url = url
  Empty = empty
  PolicyTexts <- MCPolicyTexts
  LabelTexts <- MCLabelTexts
  SchemaTexts <- MCSchemaTexts
  Compiles <- MCCompiles
  ValidLabels <- MCLabelTexts
  RuleFree = {lNone}
  ValidSchemas <- MCSchemaTexts
  PolicyFits <- MCPolicyFits
  LabelsFit <- MCLabelsFit
  Bundles <- MCBundles
  NoBundle = NoBundle
  Endpoints = {url}
  NoSource = NoSource
  NoLabelers = NoLabelers
  ListKeys = {k1, k2, k3}
  CacheLimit = 2
INVARIANTS
  TypeOK
  EngineMatchesMetadata
  StrictStatesHaveCompatibleSchema
  LabelsFitActiveSchema
  BundleDescribesActiveState
  CachedListingsAreCurrent
  ReadyMeansRemotesLoaded
PROPERTIES
  ReadinessIsKept
  ImplementsActiveState
CHECK_DEADLOCK FALSE
