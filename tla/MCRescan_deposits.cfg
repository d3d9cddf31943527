SPECIFICATION FairSpec
CONSTANTS
  Issues = {i1, i2}
  MaxHeight = 3
  MaxChunk = 4
  MaxKeyFaults = 1
  MaxCrashes = 1
INVARIANTS NoDepositOverlooked RangeScannable
PROPERTY ComesUp
