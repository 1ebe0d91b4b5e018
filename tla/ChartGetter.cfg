CONSTANTS
  Callers = {c1, c2}
  Names <- MCNames
  Bodies <- MCBodies
  Queries <- MCQueries
  Released <- MCReleased
  Coming <- MCComing
  TTL = 0
  MaxCrashes = 1
  Indexes <- MCIndexes
  Asked <- MCAsked
  MaxEntryCount = 4
SPECIFICATION Spec
INVARIANTS  FirstIsNewest
PROPERTIES LeftoversRemoved GetReturns 
