SPECIFICATION ClientsSpec
CONSTANTS
    j1 = j1
    j2 = j2
    Clients = {"a"}
    Jobs = {j1, j2}
    ClientOf <- OneClient
    Amount <- MCAmount
    NumKeys = 2
    OwnKey = 2
    Deposits <- MCDeposits
    Rates = {1, 3}
    MaxTxs = 4
    MaxChanges = 1
    MaxFaults = 1
    Calls = {"p", "q"}
    NumCoins = 1
    MaxSent = 3
    MaxUpsets = 2
INVARIANTS PaidOnce FeeIsRight CorePaidOnce
PROPERTIES NoDoubleSpend CoreNoDoubleSpend CallsReturn
CHECK_DEADLOCK FALSE
