\* Two ticks at once, one fault; a deposit on each of two chains, both
\* with one salt; one chain's poll skips what it cannot save, the other's fails.
CONSTANTS
    ethereum = ethereum
    polygon = polygon
    d1 = d1
    d2 = d2
    s1 = s1
    Order <- MCOrder
    Lenient = {ethereum}
    Ticks = {t1, t2}
    Deposits = {d1, d2}
    ChainOf <- MCChainOf
    SaltOf <- MCSaltOf
    Invalid = {}
    Confirmations = 1
    PageSize = 1
    MaxAttempts = 2
    BatchSize = 2
    MaxFaults = 1
SPECIFICATION FairSpec
INVARIANTS
    NothingLostUnprovoked
    MintsAreDeposits
PROPERTIES
    MintQueueDrains
    EveryDepositMinted
