SPECIFICATION Spec
CONSTANTS
  basic = basic
  plus = plus
  Skus = {basic}
  Included <- MCIncluded
  Trials = {basic}
  Items = {i1, i2}
  Workers = {w1, w2}
  MaxRows = 1
  MaxTick = 4
  PlanChanges = FALSE
  Crashes = TRUE
  None = None
SYMMETRY MCSymmetry
INVARIANTS TypeOK UsageResetOncePerPeriod
PROPERTIES PeriodNeverRewinds
