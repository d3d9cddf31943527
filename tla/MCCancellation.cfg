SPECIFICATION FairSpec
CONSTANTS
  Requests = {r1}
  ParachainPeriod = 0
  BitcoinPeriod = 0
  ChannelSize = 1
  MaxHeight = 1
  MaxQueryFaults = 1
  MaxCancelFaults = 1
  MaxCrashes = 1
INVARIANTS TypeOK NothingForgotten
PROPERTY EventuallyClosed
