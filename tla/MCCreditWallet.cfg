SPECIFICATION Spec
CONSTANTS
  productBalance = productBalance
  skuBalance = skuBalance
  goodwill = goodwill
  launch = launch
  Balances = {productBalance, skuBalance}
  Grants <- MCGrants
  Sources = {s1, s2}
  Workers = {w1, w2}
  None = None
INVARIANTS TypeOK CountersMatchLedger ChargedAtMostOnce
PROPERTIES ImplementsLedger
