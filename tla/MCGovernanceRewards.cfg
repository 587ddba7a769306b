\* Governance: two proposals, three voters, periods of one ledger.  Rewards:
\* every sequence of calls of two users and the admin over a few ledgers.
CONSTANTS
    admin = admin
    alice = alice
    bob = bob
    Accounts <- AllAccounts
    Admin = admin
    VOTING_PERIOD = 1
    QUORUM_BPS = 500
    MaxProposals = 2
    MaxLedger = 3
    NumUsers = 2
    SCALE = 3
    DURATION = 2
    StakeAmounts = {1, 2}
    NotifyAmounts = {20, 31}
    MaxUnits = 1000
    MaxSequence = 3
    MaxStaked = 3
    MaxNotified = 51
    Parts = 6
SPECIFICATION BothSpec
INVARIANTS
    TallyCountsBallots
    ExecutedByMajority
    RewardsTypeOK
    EarnedWithinEmission
    PoolCoversEarned
    FairShares
PROPERTIES
    VerdictIsFinal
    CallsMoveNoReward
SYMMETRY AccountSymmetry
\* With every proposal executed and the bounds reached, no call is left.
CHECK_DEADLOCK FALSE
