SPECIFICATION Spec
CONSTANTS
  Customers = {c1}
  Handlers = {h1, h2}
  Amounts = {1, 2}
  Limits = {1, 3}
  MaxTurnover = 4
SYMMETRY CreditSymmetry
INVARIANTS
  TypeOK
  BalanceIsLedger
  CreditSettingsFit
PROPERTIES
  OrderRespectsRule
  DebitRespectsLimit
