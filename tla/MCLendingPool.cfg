\* The pool's accounting over every sequence of calls of two users, an
\* operator and the admin, across three ledgers and a second listing.
CONSTANTS
    NumUsers = 2
    Assets = {xlm}
    Operators = {controller}
    Amounts = {2}
    RateConfigs <- MCRateConfigs
    IndexScale = 2
    VirtualUnits = 3
    Year = 5
    U64 = 200000
    MaxUnits = 5
    MaxLedger = 2
    MaxListings = 2
SPECIFICATION Spec
INVARIANTS
    TypeOK
    CashMatchesBooks
PROPERTIES
    DebtsMoveWithTokens
    IndexNeverFalls
    SupplyNeverProfits
