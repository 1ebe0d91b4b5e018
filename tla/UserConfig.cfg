CONSTANTS
  r1 = r1
  r2 = r2
  old = old
  new = new
  none = none
  Requests = {r1, r2}
  Kids = {old, new}
  NoKid = none
  TTL = 2
  MinRefreshInterval = 2
  Timeout = 1
  Documents <- MCDocuments
  Tokens <- MCTokens
SPECIFICATION Spec
PROPERTIES FreshUnlessDown OutageKeepsKeys GenuineIsNotRefused RotatedKeyServed
