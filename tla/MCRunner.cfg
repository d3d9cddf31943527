SPECIFICATION RunnerSpec
CONSTANTS
  NumReleases = 3
  BinName <- MCBinName
  NumPids = 5
  MaxFaults = 3
INVARIANTS GracefulMeansOneVault PidFileGuards
PROPERTY SettlesOnRelease
