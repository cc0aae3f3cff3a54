SPECIFICATION AdmissionSpec
CONSTANTS
  a = a
  b = b
  p = p
  q = q
  n1 = n1
  n2 = n2
  t1 = t1
  t2 = t2
  Addresses = {a, b, p, q}
  Networks = {n1, n2}
  Covers <- MCCovers
  Tokens = {t1, t2}
  Malformed = Malformed
  Blank = Blank
  Star = Star
  Unset = Unset
  Settings <- MCSettings
  Claims <- MCClaims
  Authorizations <- MCAuthorizations
  MaxHops = 2
  None = None
INVARIANTS
  AdmittedClientsArePermitted
  RejectionsAreJustified
  RecordedClientIsSender
CHECK_DEADLOCK FALSE
