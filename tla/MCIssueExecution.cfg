SPECIFICATION FairSpec
CONSTANTS
  Issues = {i1}
  Transactions = {t1}
  Confirmations = 1
  MaxOutputs = 1
  MaxHeight = 3
  MaxFaults = 1
INVARIANTS TypeOK NothingOverlooked
PROPERTY EventuallyExecuted
CHECK_DEADLOCK FALSE
