SPECIFICATION LiveFetchSpec
CONSTANTS
  empty = empty
  p1 = p1
  p2 = p2
  pBad = pBad
  l1 = l1
  s1 = s1
  s2 = s2
  url = url
  Empty = empty
  PolicyTexts <- MCPolicyTexts
  LabelTexts = {l1}
  SchemaTexts = {s1, s2}
  Compiles <- MCCompiles
  ValidLabels = {l1}
  RuleFree = {}
  ValidSchemas = {s1, s2}
  PolicyFits <- MCPolicyFits
  LabelsFit <- MCLabelsFit
  Bundles <- MCBundles
  NoBundle = NoBundle
  Endpoints = {url}
  NoSource = NoSource
  NoLabelers = NoLabelers
  ListKeys = {}
  CacheLimit = 1
  None = None
  Sources = {"policies", "schema"}
  SendsValidators = {"schema"}
  MaxPublications = 1
INVARIANTS
  LoadedMeansBodyApplied
  RememberedBodyIsServed
PROPERTIES
  PollsKeepUploads
  PublishedDocumentsAreServed
CHECK_DEADLOCK FALSE
