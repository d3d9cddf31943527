SPECIFICATION RelayFairSpec
CONSTANTS
  Forks = {0, 1}
  StartHeight = 1
  Confirmations = 1
  MaxBatchSize = 2
  TopHeight = 5
  MaxFaults = 2
INVARIANTS OnlyConfirmed NothingInVain
PROPERTY CatchesUp
