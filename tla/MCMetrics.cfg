SPECIFICATION Spec
CONSTANTS
    Assets = {1, 2}
    Symbols = {11, 12}
    FirstSymbol <- MCFirstSymbol
    Issues = {"i"}
    Redeems = {"r"}
    VaultOf <- MCVaultOf
    RedeemPeriod = 1
    PeriodOf <- MCPeriodOf
    ParaPerBtc = 2
    MaxPara = 2
    MaxBtc = 2
    MaxChanges = 3
    MaxFaults = 1
PROPERTIES RegistriesSettle GaugesSettle DeadlineSettles
