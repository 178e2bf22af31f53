SPECIFICATION Spec
CONSTANTS
  basic = basic
  plus = plus
  Skus = {basic, plus}
  Included <- MCIncluded
  Trials = {basic}
  Items = {i1, i2}
  Workers = {w1}
  MaxRows = 2
  MaxTick = 5
  PlanChanges = TRUE
  Crashes = FALSE
  None = None
INVARIANT AcknowledgedEventApplied
