SPECIFICATION Spec
CONSTANTS
  Redeems = {r1}
  Replaces = {}
  FullNodes = {TRUE}
  MaxPayments = 2
  MaxVersions = 1
  MaxFaults = 0
INVARIANT PaidAtMostOnce
