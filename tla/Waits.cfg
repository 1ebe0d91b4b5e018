CONSTANTS
  Signers = {s1, s2}
  Keys = {1, 2, 3, 4, 5}
  RequestOptions <- MCRequestOptions
  Settings <- MCSettings
  Codes = {200, 403, 408, 429, 503}
  RetryAfters <- MCRetryAfters
  MaxInt = 63
  MaxSeconds = 1
  EventIDs = {added}
  Publications = {p1, p2}
  MaxID = 1
  HandlersMayFail = TRUE
  CanEnd = TRUE
  Lookers = {l1, l2}
  PluralNames = {n1, n2}
  NamesTTL = 2
  MaxInstalls = 3
SPECIFICATION WaitsSpec
INVARIANTS
  SignUpIsSound Accounting  DelaysInRange WatchedOnce
PROPERTIES EveryCallReturns NamesFollow
