\* Wraps, unwraps and the admins' changes of the attesters, with two admins,
\* two attester keys and two salts.
CONSTANTS
    NumUsers = 2
    Minters = {controller, retired}
    UnderlyingTokens = {usdc}
    Amounts = {1, 2}
    MaxUnits = 3
    Controller = controller
    Accounts = {alice, bob}
    Keys = {k1, k2}
    k1 = k1
    k2 = k2
    eth = eth
    BridgeSets <- MCBridgeSets
    FirstBridge <- MCFirstBridge
    NumSalts = 2
    Messages <- MCMessages
    Attestations <- MCAttestations
    I64 = 4
    WindowLedgers = 1
    TimelockLedgers = 1
    MaxPerHour = 2
    Caps = {0, 1}
    Unset = Unset
    MaxLedger = 2
SPECIFICATION BridgeSpec
INVARIANTS
    BridgeTypeOK
    SupplyMatchesBalances
    SupplyIsBacked
    MintedOnce
    AdminsReachQuorum
PROPERTIES
    QuorumSigned
    MintRateBounded
    BridgeStaysUsable
