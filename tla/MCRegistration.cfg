SPECIFICATION Spec
CONSTANTS
  a1 = a1
  c1 = c1
  c2 = c2
  NoAmount = NoAmount
  Accounts = {a1}
  Operator = a1
  Currencies = {c1, c2}
  NumSlots = 2
  Cooldown = 1
  UserAllowance = 3
  VaultAllowance = 3
  TxFees = 1
  MaxBalance = 3
  Configs <- MCConfigs
  MaxFaults = 2
INVARIANTS CooldownKept BalanceBounded PutUpOnce
PROPERTY ComesUp
