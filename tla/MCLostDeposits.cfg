\* One deposit on each chain, one of them invalid; the process may end once.
CONSTANTS
    ethereum = ethereum
    polygon = polygon
    d1 = d1
    d2 = d2
    s1 = s1
    Order <- MCOrder
    Lenient = {ethereum}
    Ticks = {t1, t2}
    Deposits = {d1, d2}
    ChainOf <- MCChainOf
    SaltOf <- MCSaltOf
    Invalid = {d2}
    Confirmations = 1
    PageSize = 1
    MaxAttempts = 2
    BatchSize = 2
    MaxFaults = 1
SPECIFICATION Spec
PROPERTIES
    ExitLosesNothing
\* Under Spec ticks may stop.
CHECK_DEADLOCK FALSE
