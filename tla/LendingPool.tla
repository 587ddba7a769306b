---------------------------- MODULE LendingPool ----------------------------
(***************************************************************************)
(* The lending pool contract (contracts/lending/soroban): deposits against *)
(* virtual shares, borrows against a per-asset borrow index, repayments,   *)
(* and the admin's listing of assets.  A Soroban transaction is atomic and *)
(* a panic reverts it, so each entry point is one action whose conjuncts   *)
(* are the calls and checks of the code in their order; a call that would  *)
(* panic is an action that is not enabled.                                 *)
(*                                                                         *)
(* Tokens: only what the pool itself holds is kept (cash).  A transfer     *)
(* from a user's wallet that the wallet cannot cover is a transaction that *)
(* reverts, which is the action not being taken.  The accounting mode of   *)
(* the tests (SkipTokenTransfers) is off, its default.                     *)
(***************************************************************************)
EXTENDS AccountSums

CONSTANTS
    NumUsers,       \* the accounts are 1..NumUsers
    Assets,         \* asset symbols
    Operators,      \* addresses the admin may authorise as operators
    Amounts,        \* amounts passed to the entry points
    RateConfigs,    \* rate parameters the admin may list an asset with
    IndexScale,     \* 10^18: the borrow index of a fresh market
    VirtualUnits,   \* VIRTUAL_SHARES = VIRTUAL_DEPOSIT = 10^6
    Year,           \* seconds in a year, 31_536_000
    U64,            \* 2^64: the casts in borrow_apy_bps
    MaxUnits,       \* i128::MAX: where checked_add and subtraction panic
    MaxLedger,      \* bound of a run on the ledger sequence
    MaxListings     \* bound of a run on the add_asset calls per asset

Users == 1..NumUsers
BPS == 10000
LedgerTimeSecs == 5

\* A rate configuration, all u32: base_rate_bps, slope1_bps, slope2_bps, kink_bps.
RateConfig == [base : Nat, slope1 : Nat, slope2 : Nat, kink : Nat]

ASSUME NumUsersAssumption == NumUsers \in Nat
ASSUME ScaleAssumption ==
    /\ IndexScale \in Nat \ {0}
    /\ VirtualUnits \in Nat \ {0}
    /\ Year \in Nat \ {0}
    /\ U64 \in Nat \ {0}
ASSUME InputAssumption ==
    /\ Amounts \subseteq Int
    /\ RateConfigs \subseteq RateConfig
    /\ RateConfigs # {}
ASSUME BoundAssumption ==
    /\ MaxUnits \in Nat
    /\ MaxLedger \in Nat
    /\ MaxListings \in Nat

VARIABLES
    listings,           \* times add_asset listed the asset (0: not in Assets)
    config,             \* AssetConfig's rate parameters
    totalDeposit,       \* TotalDeposit
    totalDepositShares, \* TotalDepositShares
    totalBorrow,        \* TotalBorrow
    borrowIndex,        \* BorrowIndex, the default for an asset not listed
    lastAccrual,        \* LastAccrual
    depositShares,      \* DepositShares, by asset and user
    principal,          \* Borrower.principal, by asset and user
    snapIndex,          \* Borrower.index, by asset and user
    operators,          \* Operator flags
    paused,             \* PauseKey::Paused
    cash,               \* the asset tokens the pool's address holds
    ledger              \* env.ledger().sequence()

market == <<totalDeposit, totalDepositShares, totalBorrow>>
accrual == <<borrowIndex, lastAccrual>>
accounts == <<depositShares, principal, snapIndex>>
admin == <<listings, config, operators, paused>>
vars == <<market, accrual, accounts, admin, cash, ledger>>

----------------------------------------------------------------------------
\* Arithmetic of the contract.

AtLeastOne(x) == IF x < 1 THEN 1 ELSE x

Lesser(x, y) == IF x <= y THEN x ELSE y

\* Division of i128 by a positive divisor: rounds toward zero.
Truncated(x, y) == IF x >= 0 THEN x \div y ELSE -((-x) \div y)

\* The result of an addition or subtraction that does not overflow.
Fits(x) == x \in (-MaxUnits)..MaxUnits

\* "x as u64"
AsU64(x) == x % U64

\* Shares minted for amount, and units paid for shares, in a market with
\* deposits td and total shares ts.
MintFor(td, ts, amount) ==
    (amount * (ts + VirtualUnits)) \div AtLeastOne(td + VirtualUnits)

RedeemForWithoutOffset(td, ts, shares) ==  \* variant: no virtual shares below the line
    Truncated(shares * (td + VirtualUnits), AtLeastOne(ts))

RedeemFor(td, ts, shares) ==
    Truncated(shares * (td + VirtualUnits), AtLeastOne(ts + VirtualUnits))

\* What principal taken at index snap has grown to at index idx.
Owed(amount, snap, idx) ==
    IF amount = 0 THEN 0 ELSE (amount * idx) \div AtLeastOne(snap)

----------------------------------------------------------------------------
\* The rate model and accrue_interest.

Listed(a) == listings[a] > 0

\* total_b as u64, capped by total_d as u64: what the utilisation divides.
UtilisedUnits(a) == Lesser(AsU64(totalBorrow[a]), AsU64(totalDeposit[a]))

Utilisation(a) ==
    IF totalDeposit[a] = 0
    THEN 0
    ELSE (UtilisedUnits(a) * BPS) \div AsU64(totalDeposit[a])

\* The u64 product and quotient of the utilisation do not panic.
UtilisationDefined(a) ==
    totalDeposit[a] # 0 => /\ UtilisedUnits(a) * BPS < U64
                           /\ AsU64(totalDeposit[a]) # 0

BorrowApyBps(a) ==
    LET u == Utilisation(a)
        cfg == config[a]
    IN  IF u <= cfg.kink
        THEN cfg.base + (cfg.slope1 * u) \div AtLeastOne(cfg.kink)
        ELSE cfg.base + cfg.slope1
                + (cfg.slope2 * (u - cfg.kink)) \div AtLeastOne(BPS - cfg.kink)

\* accrue_interest changes something: never while total_borrow is 0, so the
\* clock of an idle market stands still.  A market that was never listed has
\* no LastAccrual, which reads as the current ledger.
AccrualDue(a) ==
    /\ totalBorrow[a] # 0
    /\ Listed(a)
    /\ ledger > lastAccrual[a]

IndexDelta(a) ==
    ((ledger - lastAccrual[a]) * (BorrowApyBps(a) * LedgerTimeSecs) * IndexScale)
        \div (BPS * Year)

AccruedIndexFromScale(a) ==  \* variant: the growth so far is dropped
    IF AccrualDue(a) THEN IndexScale + IndexDelta(a) ELSE borrowIndex[a]

AccruedIndex(a) ==
    IF AccrualDue(a) THEN borrowIndex[a] + IndexDelta(a) ELSE borrowIndex[a]

AccrueInterest(a) ==
    /\ AccrualDue(a) => UtilisationDefined(a)
    /\ borrowIndex' = [borrowIndex EXCEPT ![a] = AccruedIndex(a)]
    /\ lastAccrual' = [lastAccrual EXCEPT ![a] = IF AccrualDue(a) THEN ledger ELSE @]

----------------------------------------------------------------------------
\* Who may act, and when.

RequireNotPaused == ~paused

RequireOperator(op) == op \in operators

----------------------------------------------------------------------------
\* Token transfers need the asset's configuration; the token contract refuses a
\* negative amount and one the payer does not hold.

TokensIn(a, amount) ==
    /\ Listed(a)
    /\ amount >= 0
    /\ cash' = [cash EXCEPT ![a] = @ + amount]

TokensOut(a, amount) ==
    /\ Listed(a)
    /\ amount \in 0..cash[a]
    /\ cash' = [cash EXCEPT ![a] = @ - amount]

----------------------------------------------------------------------------
\* Entry points of the admin.

\* Listing an asset again replaces its configuration and starts its totals and
\* its index afresh, but leaves the shares and the borrowers' snapshots.  The
\* rates are what changes here; the token is taken to stay the same.
AddAsset(a, cfg) ==
    /\ listings[a] < MaxListings
    /\ listings' = [listings EXCEPT ![a] = @ + 1]
    /\ config' = [config EXCEPT ![a] = cfg]
    /\ totalDeposit' = [totalDeposit EXCEPT ![a] = 0]
    /\ totalBorrow' = [totalBorrow EXCEPT ![a] = 0]
    /\ borrowIndex' = [borrowIndex EXCEPT ![a] = IndexScale]
    /\ lastAccrual' = [lastAccrual EXCEPT ![a] = ledger]
    /\ UNCHANGED <<totalDepositShares, accounts, operators, paused, cash, ledger>>

SetPaused(p) ==
    /\ paused' = p
    /\ UNCHANGED <<market, accrual, accounts, listings, config, operators, cash, ledger>>

AddOperator(op) ==
    /\ operators' = operators \union {op}
    /\ UNCHANGED <<market, accrual, accounts, listings, config, paused, cash, ledger>>

----------------------------------------------------------------------------
\* Deposits.

Supply(u, a, amount) ==
    LET minted == MintFor(totalDeposit[a], totalDepositShares[a], amount)
    IN  /\ RequireNotPaused
        /\ amount > 0
        /\ AccrueInterest(a)
        /\ TokensIn(a, amount)
        /\ Fits(depositShares[a][u] + minted)
        /\ Fits(totalDepositShares[a] + minted)
        /\ Fits(totalDeposit[a] + amount)
        /\ depositShares' = [depositShares EXCEPT ![a][u] = @ + minted]
        /\ totalDepositShares' = [totalDepositShares EXCEPT ![a] = @ + minted]
        /\ totalDeposit' = [totalDeposit EXCEPT ![a] = @ + amount]
        /\ UNCHANGED <<totalBorrow, principal, snapIndex, admin, ledger>>

\* The shares leave the user, but not TotalDepositShares.
Withdraw(u, a, shares) ==
    LET amount == RedeemFor(totalDeposit[a], totalDepositShares[a], shares)
    IN  /\ RequireNotPaused
        /\ shares > 0
        /\ AccrueInterest(a)
        /\ depositShares[a][u] >= shares
        /\ TokensOut(a, amount)
        /\ Fits(totalDeposit[a] - amount)
        /\ depositShares' = [depositShares EXCEPT ![a][u] = @ - shares]
        /\ totalDeposit' = [totalDeposit EXCEPT ![a] = @ - amount]
        /\ UNCHANGED <<totalDepositShares, totalBorrow, principal, snapIndex, admin, ledger>>

\* Collateral is booked under the same key as deposit shares; no token moves
\* and the totals stay.
SupplyCollateral(u, a, amount) ==
    /\ RequireNotPaused
    /\ amount > 0
    /\ Listed(a)
    /\ Fits(depositShares[a][u] + amount)
    /\ depositShares' = [depositShares EXCEPT ![a][u] = @ + amount]
    /\ UNCHANGED <<market, accrual, principal, snapIndex, admin, cash, ledger>>

WithdrawCollateralUnchecked(u, a, amount) ==  \* variant: the balance is not checked
    /\ RequireNotPaused
    /\ amount > 0
    /\ Fits(depositShares[a][u] - amount)
    /\ depositShares' = [depositShares EXCEPT ![a][u] = @ - amount]
    /\ UNCHANGED <<market, accrual, principal, snapIndex, admin, cash, ledger>>

WithdrawCollateral(u, a, amount) ==
    /\ RequireNotPaused
    /\ amount > 0
    /\ depositShares[a][u] >= amount
    /\ depositShares' = [depositShares EXCEPT ![a][u] = @ - amount]
    /\ UNCHANGED <<market, accrual, principal, snapIndex, admin, cash, ledger>>

----------------------------------------------------------------------------
\* Borrows and repayments.

\* The collateral of a user is kept, and read, as the user's deposit shares.
CollateralOf(u, a) == depositShares[a][u]

\* collateral_of covers the debt, the new amount included (check_hf).
HealthyAfter(u, a, amount) ==
    LET debt == Owed(principal[a][u], snapIndex[a][u], AccruedIndex(a)) + amount
    IN  debt > 0 => CollateralOf(u, a) >= debt

\* The snapshot moves to the current index with the old principal plus amount.
BorrowInternal(u, a, amount, checkHf) ==
    /\ RequireNotPaused
    /\ amount > 0
    /\ AccrueInterest(a)
    /\ checkHf => HealthyAfter(u, a, amount)
    /\ TokensOut(a, amount)
    /\ Fits(principal[a][u] + amount)
    /\ Fits(totalBorrow[a] + amount)
    /\ principal' = [principal EXCEPT ![a][u] = @ + amount]
    /\ snapIndex' = [snapIndex EXCEPT ![a][u] = AccruedIndex(a)]
    /\ totalBorrow' = [totalBorrow EXCEPT ![a] = @ + amount]
    /\ UNCHANGED <<totalDeposit, totalDepositShares, depositShares, admin, ledger>>

RepayBookingAll(u, a, amount) ==  \* variant: the whole amount is booked, not what was owed
    LET owed == Owed(principal[a][u], snapIndex[a][u], AccruedIndex(a))
        repaid == Lesser(amount, owed)
    IN  /\ RequireNotPaused
        /\ amount > 0
        /\ AccrueInterest(a)
        /\ IF repaid > 0 THEN TokensIn(a, repaid) ELSE UNCHANGED cash
        /\ Fits(totalBorrow[a] - amount)
        /\ principal' = [principal EXCEPT ![a][u] = owed - repaid]
        /\ snapIndex' = [snapIndex EXCEPT ![a][u] = AccruedIndex(a)]
        /\ totalBorrow' = [totalBorrow EXCEPT ![a] = @ - amount]
        /\ UNCHANGED <<totalDeposit, totalDepositShares, depositShares, admin, ledger>>

RepayKeepingSnapshot(u, a, amount) ==  \* variant: the index of the snapshot is not updated
    LET owed == Owed(principal[a][u], snapIndex[a][u], AccruedIndex(a))
        repaid == Lesser(amount, owed)
    IN  /\ RequireNotPaused
        /\ amount > 0
        /\ AccrueInterest(a)
        /\ IF repaid > 0 THEN TokensIn(a, repaid) ELSE UNCHANGED cash
        /\ Fits(totalBorrow[a] - repaid)
        /\ principal' = [principal EXCEPT ![a][u] = owed - repaid]
        /\ totalBorrow' = [totalBorrow EXCEPT ![a] = @ - repaid]
        /\ UNCHANGED <<totalDeposit, totalDepositShares, depositShares, snapIndex, admin, ledger>>

\* What remains owed becomes the new principal; all that was paid, interest
\* included, leaves TotalBorrow.
RepayInternal(u, a, amount) ==
    LET owed == Owed(principal[a][u], snapIndex[a][u], AccruedIndex(a))
        repaid == Lesser(amount, owed)
    IN  /\ RequireNotPaused
        /\ amount > 0
        /\ AccrueInterest(a)
        /\ IF repaid > 0 THEN TokensIn(a, repaid) ELSE UNCHANGED cash
        /\ Fits(totalBorrow[a] - repaid)
        /\ principal' = [principal EXCEPT ![a][u] = owed - repaid]
        /\ snapIndex' = [snapIndex EXCEPT ![a][u] = AccruedIndex(a)]
        /\ totalBorrow' = [totalBorrow EXCEPT ![a] = @ - repaid]
        /\ UNCHANGED <<totalDeposit, totalDepositShares, depositShares, admin, ledger>>

Borrow(u, a, amount) == BorrowInternal(u, a, amount, TRUE)

BorrowRaw(op, u, a, amount) ==
    /\ RequireOperator(op)
    /\ BorrowInternal(u, a, amount, FALSE)

Repay(u, a, amount) == RepayInternal(u, a, amount)

RepayOnBehalf(op, u, a, amount) ==
    /\ RequireOperator(op)
    /\ RepayInternal(u, a, amount)

----------------------------------------------------------------------------
\* The network closes a ledger.
CloseLedger ==
    /\ ledger < MaxLedger
    /\ ledger' = ledger + 1
    /\ UNCHANGED <<market, accrual, accounts, admin, cash>>

Init ==
    /\ listings = [a \in Assets |-> 0]
    /\ config = [a \in Assets |-> CHOOSE cfg \in RateConfigs : TRUE]
    /\ totalDeposit = [a \in Assets |-> 0]
    /\ totalDepositShares = [a \in Assets |-> 0]
    /\ totalBorrow = [a \in Assets |-> 0]
    /\ borrowIndex = [a \in Assets |-> IndexScale]
    /\ lastAccrual = [a \in Assets |-> 0]
    /\ depositShares = [a \in Assets |-> [u \in Users |-> 0]]
    /\ principal = [a \in Assets |-> [u \in Users |-> 0]]
    /\ snapIndex = [a \in Assets |-> [u \in Users |-> IndexScale]]
    /\ operators = {}
    /\ paused = FALSE
    /\ cash = [a \in Assets |-> 0]
    /\ ledger = 0

Next ==
    \/ \E a \in Assets, cfg \in RateConfigs : AddAsset(a, cfg)
    \/ \E p \in BOOLEAN : SetPaused(p)
    \/ \E op \in Operators : AddOperator(op)
    \/ \E u \in Users, a \in Assets, amount \in Amounts : Supply(u, a, amount)
    \/ \E u \in Users, a \in Assets, shares \in Amounts : Withdraw(u, a, shares)
    \/ \E u \in Users, a \in Assets, amount \in Amounts : SupplyCollateral(u, a, amount)
    \/ \E u \in Users, a \in Assets, amount \in Amounts : WithdrawCollateral(u, a, amount)
    \/ \E u \in Users, a \in Assets, amount \in Amounts : Borrow(u, a, amount)
    \/ \E op \in Operators, u \in Users, a \in Assets, amount \in Amounts :
           BorrowRaw(op, u, a, amount)
    \/ \E u \in Users, a \in Assets, amount \in Amounts : Repay(u, a, amount)
    \/ \E op \in Operators, u \in Users, a \in Assets, amount \in Amounts :
           RepayOnBehalf(op, u, a, amount)
    \/ CloseLedger

Spec == Init /\ [][Next]_vars

----------------------------------------------------------------------------
\* Properties.

\* Types: TotalBorrow may go negative, since repayments take interest out of it
\* that no accrual added; what belongs to a user and what the pool holds may not.
TypeOK ==
    /\ listings \in [Assets -> 0..MaxListings]
    /\ config \in [Assets -> RateConfigs]
    /\ totalDeposit \in [Assets -> Int]
    /\ totalDepositShares \in [Assets -> Nat]
    /\ totalBorrow \in [Assets -> Int]
    /\ borrowIndex \in [Assets -> Nat]
    /\ lastAccrual \in [Assets -> 0..ledger]
    /\ depositShares \in [Assets -> [Users -> Nat]]
    /\ principal \in [Assets -> [Users -> Nat]]
    /\ snapIndex \in [Assets -> [Users -> Nat \ {0}]]
    /\ operators \subseteq Operators
    /\ paused \in BOOLEAN
    /\ cash \in [Assets -> Nat]
    /\ ledger \in 0..MaxLedger

\* The books stand for tokens (L-1 of docs/invariants.md and what supply,
\* withdraw, borrow and repay must agree on): as long as the asset was
\* listed once, what the pool holds is its deposits less its borrows, so borrows
\* never exceed deposits.
CashMatchesBooks ==
    \A a \in Assets :
        listings[a] <= 1 => cash[a] = totalDeposit[a] - totalBorrow[a]

\* What all borrowers of an asset owe at an index.
DebtsAt(a, idx) ==
    Total([u \in Users |-> Owed(principal[a][u], snapIndex[a][u], idx)], NumUsers)

\* Debts move only with tokens, whatever interest accrues in the same call:
\* priced at the index after the call, the debts of an asset listed once rise by
\* no more than what was lent (what left the pool beyond what left the
\* deposits), and a call that lends nothing lowers them by exactly the tokens it
\* brings in.  For a further borrow it is "no more" (borrow_internal forgets
\* the interest since the last one).
DebtsMoveWithTokens ==
    [][\A a \in Assets :
           LET grown == DebtsAt(a, borrowIndex[a])' - DebtsAt(a, borrowIndex'[a])
               lent == (cash[a] - totalDeposit[a]) - (cash'[a] - totalDeposit'[a])
           IN  listings'[a] <= 1 => /\ grown <= lent
                                    /\ lent <= 0 => grown = lent]_vars

\* L-2, but for a second listing, which starts the index afresh: the borrow
\* index never falls, whatever sequence of calls moves the utilisation.
IndexNeverFalls ==
    [][\A a \in Assets :
           borrowIndex'[a] < borrowIndex[a] => listings'[a] > 1]_vars

\* L-4 and the virtual offset: shares minted for an amount redeem for no more
\* than the amount, at any share price that earlier calls can have produced.
SupplyNeverProfits ==
    [][\A u \in Users, a \in Assets, amount \in Amounts :
           Supply(u, a, amount) =>
               RedeemFor(totalDeposit'[a], totalDepositShares'[a],
                         depositShares'[a][u] - depositShares[a][u]) <= amount]_vars

\* "Issues interest-bearing share tokens" (lib.rs:3-4), with the supply rate of
\* docs/rate-model.md: when a borrower pays interest that accrued in this very
\* call, more than a rounding of it, what the deposit shares divide has grown.
InterestReachesLenders ==
    [][\A u \in Users, a \in Assets, amount \in Amounts :
           LET owed == Owed(principal[a][u], snapIndex[a][u], AccruedIndex(a))
               interest == Lesser(amount, owed) - principal[a][u]
           IN  (/\ Repay(u, a, amount)
                /\ snapIndex[a][u] = borrowIndex[a]
                /\ interest > 1)
               => totalDeposit'[a] > totalDeposit[a]]_vars

\* "withdraw(asset, shares) -> burns shares, returns assets"
\* (docs/architecture.md): a withdrawal redeems the shares it burns, so what
\* another user's shares would redeem for does not fall by more than rounding.
WithdrawalSparesOthers ==
    [][\A u \in Users, a \in Assets, shares \in Amounts :
           Withdraw(u, a, shares) =>
               \A v \in Users \ {u} :
                   RedeemFor(totalDeposit'[a], totalDepositShares'[a], depositShares'[a][v])
                     >= RedeemFor(totalDeposit[a], totalDepositShares[a], depositShares[a][v]) - 1]_vars

============================================================================
