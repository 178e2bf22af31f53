SPECIFICATION Spec
CONSTANTS
  basic = basic
  plus = plus
  Skus = {basic, plus}
  Included <- MCIncluded
  Trials = {basic}
  Items = {i1, i2}
  Workers = {w1, w2}
  MaxRows = 2
  MaxTick = 3
  PlanChanges = TRUE
  Crashes = TRUE
  None = None
SYMMETRY MCSymmetry
INVARIANTS ItemUsageKept
