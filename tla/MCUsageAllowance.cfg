SPECIFICATION Spec
CONSTANTS
  basic = basic
  plus = plus
  Skus = {basic, plus}
  Included <- MCIncluded
  Sources = {s1, s2, s3, s4}
  Manual = manual
  MaxPeriod = 3
  MaxGranted = 1
  None = None
CHECK_DEADLOCK FALSE
SYMMETRY MCSymmetry
INVARIANTS TypeOK NeverOversold UsedIsHeld PaidOnce
