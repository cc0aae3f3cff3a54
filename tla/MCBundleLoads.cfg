SPECIFICATION FairLoadsSpec
CONSTANTS
  MaxPolls = 2
  Uploads = {u1}
  k1 = k1
  k2 = k2
  u1 = u1
  bad = bad
  Keys = {k1, k2}
  BadKey = bad
  Archives <- MCArchives
  Configs <- MCConfigs
  None = None
INVARIANTS
  LoadsTypeOK
  ActiveBundleIsAdmissible
  CountersAreHonest
PROPERTY
  PollsReturn
CHECK_DEADLOCK FALSE
