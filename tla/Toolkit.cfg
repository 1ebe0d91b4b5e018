CONSTANTS
  None = None
  Added = Added
  Changed = Changed
  Removed = Removed
  EventIDs = {Added, Changed, Removed}
  Publications = {1, 2, 3}
  MaxID = 2
  HandlersMayFail = TRUE
  CanEnd = TRUE
  Resources = {ra, rb}
  Snapshots = {1, 2}
  MaxChurn = 4
  Nodes = {a, b, c, d}
  Goroutines = {r1, r2}
  Generators = {1, 2}
  Worker <- MCWorker
  First = 1
  ABC <- MCABC
  Seed = 1
  MsSymbols = 1
  Digits = 1
  CountDigits = 1
  MaxMs = 2
  MaxCount = 2
  Calls <- MCCalls
  Options <- MCOptions
  CelIdents = {"x", "y", "z"}
  Depth = 5
  CorsOptions <- MCCorsOptions
  Pages <- MCPages
  Chains <- MCChains
  Trusted <- MCTrusted
SPECIFICATION ToolkitSpec
SYMMETRY ResourceSymmetry
INVARIANTS
   DiscoveryIsComplete Acyclic SortIsTopological IdsAreUnique
  DeclaredFieldsKept  GenerateIsDeterministic 
CHECK_DEADLOCK FALSE
