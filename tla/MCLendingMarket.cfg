\* The flows of the controller and the liquidation engine over vault, pool
\* and prices, with a lender who calls the pool directly.
CONSTANTS
    NumUsers = 2
    Assets = {xlm, usdc}
    Tokens = {xlm, usdc}
    NoToken = none
    Operators = {controller, engine}
    Amounts = {2, 4}
    Thresholds = {}
    MaxUnits = 4
    RateConfigs <- MCRateConfigs
    IndexScale = 2
    VirtualUnits = 1
    Year = 5
    U64 = 200000
    MaxLedger = 1
    MaxListings = 1
    Controller = controller
    Engine = engine
    Treasury = 2
    TokenOf <- MCTokenOf
    LtvBps <- MCLtvBps
    Prices <- MCPrices
    UnitScale = 1
    LiqConfigs <- MCLiqConfigs
    FlowUsers = {1}
    PoolUsers = {2}
    PoolAmounts = {4}
    PoolAssets = {usdc}
SPECIFICATION MarketSpec
PROPERTIES
    SeizureIsPaidFor
    NoInstantLiquidation
