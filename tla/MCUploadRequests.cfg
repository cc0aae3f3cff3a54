SPECIFICATION UploadSpec
CONSTANTS
  Clients = {c1, c2}
  p1 = p1
  s1 = s1
  s2 = s2
  Policies = {p1}
  Schemas = {s1, s2}
  Fits <- MCFits
  Empty = empty
  Blank = blank
  Junk = junk
  Bodies <- MCBodies
  MaxRestarts = 1
  Nil = Nil
SYMMETRY ClientSymmetry
INVARIANTS
  UploadTypeOK
  AnswersAreJustified
PROPERTY
  UploadsArePermitted
CHECK_DEADLOCK FALSE
