\* What a lender's shares are worth after a borrower paid interest.
CONSTANTS
    NumUsers = 2
    Assets = {xlm}
    Operators = {controller}
    Amounts = {4, 8}
    RateConfigs <- MCRateConfigs
    IndexScale = 2
    VirtualUnits = 1
    Year = 5
    U64 = 200000
    MaxUnits = 16
    MaxLedger = 1
    MaxListings = 1
SPECIFICATION Spec
PROPERTIES
    InterestReachesLenders
