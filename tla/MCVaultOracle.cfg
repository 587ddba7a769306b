\* The vault: every sequence of calls of the admin and an operator on two
\* assets.  The oracle: publishers come and go, report and fall silent over a
\* few ledgers.
CONSTANTS
    NumUsers = 3
    Assets = {xlm, usdc}
    Tokens = {sac}
    NoToken = none
    Operators = {controller}
    Amounts = {0, 1, 2}
    Thresholds = {9000, 10001}
    MaxUnits = 2
    pub1 = pub1
    pub2 = pub2
    pub3 = pub3
    Publishers <- AllPublishers
    Prices = {0, 1, 2, 3}
    Heartbeats = {0, 2}
    Quorums = {0, 1, 2}
    DEFAULT_TTL = 1
    Slots = 3
    FirstLedger = 3
    LastLedger = 5
    MaxListed = 4
SPECIFICATION BothSpec
INVARIANTS
    VaultTypeOK
    TotalsMatchPositions
    OracleTypeOK
    MedianIsReference
    MinorityCannotStray
    ViewsAgree
SYMMETRY PublisherSymmetry
