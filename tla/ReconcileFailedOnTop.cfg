CONSTANTS
  custom = custom
  secret = secret
  a = a
  b = b
  helm = helm
  srv = srv
  tp1 = tp1
  tp2 = tp2
  none = none
  None = none
  HelmOwner = helm
  ServerValue = srv
  Children = {custom, secret}
  KrateoChildren = {custom}
  Versions = {1, 2}
  Values = {a, b}
  Stamps = {tp1}
  Charts <- BumpCharts
  TakeOwnership = TRUE
  MaxDisturbances = 3
  MaxFaults = 1
SPECIFICATION Spec
INVARIANTS RepairUnblocksBuild
