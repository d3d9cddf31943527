SPECIFICATION Spec
CONSTANTS
  btc = btc
  usd = usd
  dot = dot
  ksm = ksm
  Currencies = {btc, usd, dot, ksm}
  Worth <- MCWorth
  Decimals <- MCDecimals
  MaxHops = 3
  Fee = fee
  Jobs = {fee, p1, p2}
  MaxRounds = 2
  MaxFaults = 1
INVARIANTS RoutesRight
PROPERTIES ImplementsFeed RunsOn
