CONSTANTS
  Checkers = {k1, k2}
  Users = {ann}
  Targets <- MCTargets
  Requests <- MCRequests
  Policies <- MCPolicies
  TTL = 1
  Appliers = {a1, a2}
  retryAttempts = 2
  MaxVersion = 3
  Reporters = {r1, r2}
  Streams = {s1}
  Messages = {up, down}
  MaxSilence = 2
  MaxLag = 1
  MaxTurns = 2
SPECIFICATION KubeSpec
 
PROPERTIES  EventsVisible
