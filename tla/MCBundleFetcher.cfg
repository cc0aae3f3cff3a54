SPECIFICATION LiveBundleSpec
CONSTANTS
  empty = empty
  p1 = p1
  p2 = p2
  l1 = l1
  lNone = lNone
  s1 = s1
  url = url
  bad = bad
  t1 = t1
  t2 = t2
  t3 = t3
  t4 = t4
  Empty = empty
  PolicyTexts <- MCPolicyTexts
  LabelTexts <- MCLabelTexts
  SchemaTexts = {s1}
  Compiles <- MCPolicyTexts
  ValidLabels <- MCLabelTexts
  RuleFree = {lNone}
  ValidSchemas = {s1}
  PolicyFits <- MCPolicyFits
  LabelsFit <- MCLabelsFit
  Bundles <- MCBundles
  NoBundle = NoBundle
  Endpoints = {url}
  NoSource = NoSource
  NoLabelers = NoLabelers
  ListKeys = {}
  CacheLimit = 1
  Tags <- MCTags
  ArchiveOf <- MCArchiveOf
  BadArchives = {bad}
  None = None
  Uploaders = {u1, u2}
  MaxPublications = 3
INVARIANTS
  ValidatorsMeanApplied
  LoadedMeansArchiveApplied
  ActiveStateIsOneBundle
  RememberedArchiveIsServed
PROPERTY
  PublishedBundleIsServed
CHECK_DEADLOCK FALSE
