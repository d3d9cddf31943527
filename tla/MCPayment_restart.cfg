SPECIFICATION FairSpec
CONSTANTS
  Redeems = {r1}
  Replaces = {}
  FullNodes = {TRUE, FALSE}
  MaxPayments = 2
  MaxVersions = 2
  MaxFaults = 2
INVARIANTS TypeOK  ExecutedWasPaid
PROPERTY EventuallySettled
