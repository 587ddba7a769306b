SPECIFICATION FairSpec
CONSTANTS
    u1 = u1
    u2 = u2
    u3 = u3
    u4 = u4
    x1 = x1
    x2 = x2
    a1 = a1
    a2 = a2
    a3 = a3
    Addresses = {a1, a2, a3}
    Salts = {s1}
    Amounts = {2}
    Txs = {x1, x2}
    AttesterSets <- MCAttesterSets
    FirstAttesters <- MCFirstAttesters
    TokenConfigs <- MCTokenConfigs
    FirstConfig <- MCFirstConfig
    MaxSignatures = 20
    Ticks = {t1, t2}
    Unwraps = {u1, u2, u3, u4}
    TxOf <- MCTxOf
    LedgerOf <- MCLedgerOf
    AmountOf <- MCAmountOf
    Unsupported = {u2}
    BadRecipient = {u3}
    Unconfigured = {u4}
    RelayerKeys <- MCRelayerKeys
    MaxAttempts = 2
    BatchSize = 1
    PageSize = 1
    MaxUpsets = 1
INVARIANTS
    PipelineTypeOK
    CursorNeverSkips
PROPERTIES
    RowsNeverReopen
    SettlesOnce
    QueueDrains
    EveryUnwrapReleased
