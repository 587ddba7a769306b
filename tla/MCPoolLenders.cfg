\* One lender's withdrawal against the others' claims.
CONSTANTS
    NumUsers = 2
    Assets = {xlm}
    Operators = {controller}
    Amounts = {4}
    RateConfigs <- MCRateConfigs
    IndexScale = 2
    VirtualUnits = 1
    Year = 5
    U64 = 200000
    MaxUnits = 8
    MaxLedger = 1
    MaxListings = 1
SPECIFICATION Spec
PROPERTIES
    WithdrawalSparesOthers
