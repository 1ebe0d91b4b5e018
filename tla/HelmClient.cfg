CONSTANTS
  k1 = k1
  k2 = k2
  c1 = c1
  c2 = c2
  Kinds = {k1, k2}
  Callers = {c1, c2}
  Charts <- MCCharts
  MaxChanges = 3
SPECIFICATION Spec
SYMMETRY CallerSymmetry
INVARIANTS MissIsReal GoneIsUnmapped
