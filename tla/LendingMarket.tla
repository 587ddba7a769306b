--------------------------- MODULE LendingMarket ---------------------------
(***************************************************************************)
(* The lending market: the controller's user flows and the liquidation     *)
(* engine over the collateral vault (extended here), the lending pool      *)
(* (Pool) and the oracle's prices.  A cross-contract call runs inside the  *)
(* caller's transaction, so a flow is the conjunction of the called        *)
(* contracts' actions, and a call that panics in one of them disables it.  *)
(*                                                                         *)
(* The contracts are deployed and wired as contracts/scripts/e2e-testnet   *)
(* and the integration tests do it: every asset listed once, with its      *)
(* token known to the vault, and the controller and the liquidation engine *)
(* operators of both.                                                      *)
(***************************************************************************)
EXTENDS CollateralVault, FiniteSets, Functions

CONSTANTS
    RateConfigs, IndexScale, VirtualUnits, Year, U64,   \* as in LendingPool
    MaxLedger, MaxListings,
    Controller,     \* address of the lending controller
    Engine,         \* address of the liquidation contract
    Treasury,       \* the account that receives liquidation fees
    TokenOf,        \* the token contract of each asset
    LtvBps,         \* AssetConfig.ltv_bps, by asset
    Prices,         \* prices the oracle can come to, by asset
    UnitScale,      \* 10^7: token units per priced unit
    LiqConfigs,     \* bonus_bps, fee_bps and close_factor_bps the admin may set
    FlowUsers,      \* accounts that call the controller
    PoolUsers,      \* accounts that call the pool's own entry points
    PoolAmounts,    \* the amounts they call it with
    PoolAssets      \* the assets they call it for

MAX_LTV_BPS == 7500
NoPrice == 0        \* get_price panics: not enough fresh reports

LiqConfig == [bonus : Nat, fee : Nat, close : Nat]

ASSUME MarketAssumption ==
    /\ IsFiniteSet(Assets)
    /\ {Controller, Engine} \subseteq Operators
    /\ Treasury \in Users
    /\ TokenOf \in [Assets -> Tokens]
    /\ LtvBps \in [Assets -> Nat]
    /\ Prices \in [Assets -> SUBSET (Nat \ {NoPrice})]
    /\ UnitScale \in Nat \ {0}
    /\ LiqConfigs \subseteq LiqConfig
    /\ LiqConfigs # {}
    /\ FlowUsers \union PoolUsers \subseteq Users
    /\ PoolAmounts \subseteq Amounts
    /\ PoolAssets \subseteq Assets

VARIABLES
    listings, config, totalDeposit, totalDepositShares, totalBorrow, borrowIndex,
    lastAccrual, depositShares, principal, snapIndex, operators, paused, cash,
    ledger,             \* those of LendingPool
    price,              \* get_price of the oracle, by asset
    halted,             \* DataKey::Paused of the controller
    liqConfig           \* the liquidation engine's Config

Pool == INSTANCE LendingPool

\* What LendingPool assumes of these, and at least the one listing of the wiring.
ASSUME PoolAssumption ==
    /\ {IndexScale, VirtualUnits, Year, U64} \subseteq Nat \ {0}
    /\ RateConfigs \subseteq Pool!RateConfig
    /\ RateConfigs # {}
    /\ MaxLedger \in Nat
    /\ MaxListings \in Nat \ {0}

poolVars == <<listings, config, totalDeposit, totalDepositShares, totalBorrow,
              borrowIndex, lastAccrual, depositShares, principal, snapIndex,
              operators, paused, cash, ledger>>
marketVars == <<price, halted, liqConfig>>

----------------------------------------------------------------------------
\* What the contracts read from one another.

Priced(a) == price[a] # NoPrice

\* oracle.value_of
ValueOf(a, amount) == (amount * price[a]) \div UnitScale

\* pool.debt_of: at the index of the last accrual.
DebtOf(u, a) == Pool!Owed(principal[a][u], snapIndex[a][u], borrowIndex[a])

EffectiveLtv(a) == Pool!Lesser(LtvBps[a], MAX_LTV_BPS)

\* A debt of this value is within the LTV of collateral of this value.
WithinLtv(debtValue, collateralValue, a) ==
    debtValue * 10000 <= collateralValue * EffectiveLtv(a)

\* total_debt_value, over the assets of the pool the user owes.
Configured == {a \in Assets : listings[a] > 0}

Owing(u) == {a \in Configured : DebtOf(u, a) > 0}

TotalDebtValue(u) == SumFunction([a \in Owing(u) |-> ValueOf(a, DebtOf(u, a))])

----------------------------------------------------------------------------
\* The controller's user flows.

\* The vault takes the tokens and the pool books the amount as collateral.
FlowSupplyCollateral(u, a, amount) ==
    /\ amount > 0
    /\ ~halted
    /\ VaultDeposit(Controller, u, a, amount)
    /\ Pool!SupplyCollateral(u, a, amount)
    /\ UNCHANGED marketVars

FlowBorrowMarginalDebt(u, c, posted, d, amount) ==  \* variant: the debt so far is not counted
    /\ amount > 0 /\ posted > 0
    /\ ~halted
    /\ Priced(c) /\ Priced(d)
    /\ WithinLtv(ValueOf(d, amount), ValueOf(c, position[c][u] + posted), c)
    /\ VaultDeposit(Controller, u, c, posted)
    /\ Pool!BorrowRaw(Controller, u, d, amount)
    /\ UNCHANGED marketVars

\* The LTV check counts all of the user's collateral in c and the user's debt
\* in d, as of the pool's last accrual; what is posted goes to the vault only.
FlowBorrow(u, c, posted, d, amount) ==
    /\ amount > 0 /\ posted > 0
    /\ ~halted
    /\ Priced(c) /\ Priced(d)
    /\ WithinLtv(ValueOf(d, DebtOf(u, d) + amount),
                 ValueOf(c, position[c][u] + posted), c)
    /\ VaultDeposit(Controller, u, c, posted)
    /\ Pool!BorrowRaw(Controller, u, d, amount)
    /\ UNCHANGED marketVars

FlowRepay(u, a, amount) ==
    /\ amount > 0
    /\ ~halted
    /\ Pool!Repay(u, a, amount)
    /\ UNCHANGED <<vaultVars, marketVars>>

\* What remains in c must cover the user's debts in all assets.  The vault
\* pays out; the pool's books of collateral stay as they are.
FlowWithdrawCollateral(u, c, amount) ==
    /\ amount > 0
    /\ ~halted
    /\ position[c][u] >= amount
    /\ Priced(c) /\ \A a \in Owing(u) : Priced(a)
    /\ WithinLtv(TotalDebtValue(u), ValueOf(c, position[c][u] - amount), c)
    /\ VaultWithdraw(Controller, u, c, amount)
    /\ UNCHANGED <<poolVars, marketVars>>

SetHalted(p) ==
    /\ halted' = p
    /\ UNCHANGED <<vaultVars, poolVars, price, liqConfig>>

----------------------------------------------------------------------------
\* The liquidation engine.

SetLiqConfig(cfg) ==
    /\ liqConfig' = cfg
    /\ UNCHANGED <<vaultVars, poolVars, price, halted>>

\* What the engine reads from pool, vault and oracle, the debt as of the
\* last accrual.
EngineReads(u, d, c) ==
    [debt |-> DebtOf(u, d), collateral |-> position[c][u],
     debtValue |-> ValueOf(d, DebtOf(u, d)), collateralValue |-> ValueOf(c, position[c][u])]

\* The debt is worth more than the LTV of the collateral allows.
Liquidatable(u, d, c) ==
    LET reads == EngineReads(u, d, c)
    IN  /\ reads.debtValue > 0
        /\ reads.debtValue > (reads.collateralValue * EffectiveLtv(c)) \div 10000

\* Units of c the borrower loses for a repayment of amount of d, and the part
\* of them that is the protocol's fee, taken out of the bonus.
SeizedUnits(d, c, amount) ==
    LET value == (ValueOf(d, amount) * (10000 + liqConfig.bonus)) \div 10000
    IN  (value * UnitScale) \div price[c]

FeeUnits(d, c, amount) ==
    LET bonus == (ValueOf(d, amount) * liqConfig.bonus) \div 10000
        fee == (bonus * liqConfig.fee) \div 10000
    IN  (fee * UnitScale) \div price[c]

\* The engine's calls of the pool and of the vault, whose operator it is.
EngineRepays(b, d, amount) == Pool!RepayOnBehalf(Engine, b, d, amount)

EngineSeizes(pos, c, b, taker, amount) == CanSeize(pos, Engine, c, b, taker, amount)

\* The one or two seizures of a liquidation: to the liquidator, then the fee
\* to the treasury.
SeizeShares(l, b, c, amount, fee) ==
    LET paid == Moved(position, c, b, l, amount)
    IN  /\ EngineSeizes(position, c, b, l, amount)
        /\ fee > 0 => EngineSeizes(paid, c, b, Treasury, fee)
        /\ VaultTokensOut(c, amount + fee)
        /\ position' = IF fee > 0 THEN Moved(paid, c, b, Treasury, fee) ELSE paid
        /\ UNCHANGED <<totalByAsset, vaultAdmin>>

LiquidateAnyAmount(l, b, d, c, amount) ==  \* variant: no close factor
    LET seized == SeizedUnits(d, c, amount)
        fee == FeeUnits(d, c, amount)
    IN  /\ amount > 0
        /\ Priced(d) /\ Priced(c)
        /\ Liquidatable(b, d, c)
        /\ seized > fee
        /\ seized <= position[c][b]
        /\ EngineRepays(b, d, amount)
        /\ SeizeShares(l, b, c, seized - fee, fee)
        /\ UNCHANGED marketVars

\* The repayment accrues, after the debt was read.
Liquidate(l, b, d, c, amount) ==
    LET reads == EngineReads(b, d, c)
        seized == SeizedUnits(d, c, amount)
        fee == FeeUnits(d, c, amount)
    IN  /\ amount > 0
        /\ Priced(d) /\ Priced(c)
        /\ Liquidatable(b, d, c)
        /\ amount <= (reads.debt * liqConfig.close) \div 10000
        /\ seized > fee
        /\ seized <= reads.collateral
        /\ EngineRepays(b, d, amount)
        /\ SeizeShares(l, b, c, seized - fee, fee)
        /\ UNCHANGED marketVars

----------------------------------------------------------------------------
\* The oracle's price of an asset changes, or its reports go stale.
MovePrice(a, p) ==
    /\ p # price[a]
    /\ price' = [price EXCEPT ![a] = p]
    /\ UNCHANGED <<vaultVars, poolVars, halted, liqConfig>>

\* A call of the pool's own entry points, or a closed ledger.
PoolOnly(step) == step /\ UNCHANGED <<vaultVars, marketVars>>

\* The liquidation engine is initialized with a configuration.
EngineInit == liqConfig \in LiqConfigs

\* The contracts as they are deployed and wired together (the integration
\* tests' deployment also turns the transfers off, the testnet's does not).
Wired ==
    /\ tokenOf = TokenOf
    /\ vaultOperators = {Controller, Engine}
    /\ listings = [a \in Assets |-> 1]
    /\ config \in [Assets -> RateConfigs]
    /\ operators = {Controller, Engine}
    /\ EngineInit

MarketInit ==
    /\ Wired
    /\ position = [a \in Assets |-> [u \in Users |-> 0]]
    /\ totalByAsset = [a \in Assets |-> 0]
    /\ liqThreshold = [a \in Assets |-> DefaultLiqThreshold]
    /\ vaultSkips = FALSE
    /\ vaultCash = [t \in Tokens |-> 0]
    /\ totalDeposit = [a \in Assets |-> 0]
    /\ totalDepositShares = [a \in Assets |-> 0]
    /\ totalBorrow = [a \in Assets |-> 0]
    /\ borrowIndex = [a \in Assets |-> IndexScale]
    /\ lastAccrual = [a \in Assets |-> 0]
    /\ depositShares = [a \in Assets |-> [u \in Users |-> 0]]
    /\ principal = [a \in Assets |-> [u \in Users |-> 0]]
    /\ snapIndex = [a \in Assets |-> [u \in Users |-> IndexScale]]
    /\ paused = FALSE
    /\ cash = [a \in Assets |-> 0]
    /\ ledger = 0
    /\ price = [a \in Assets |-> NoPrice]
    /\ halted = FALSE

MarketNext ==
    \/ \E u \in FlowUsers, a \in Assets, amount \in Amounts :
           \/ FlowSupplyCollateral(u, a, amount)
           \/ FlowRepay(u, a, amount)
           \/ FlowWithdrawCollateral(u, a, amount)
    \/ \E u \in FlowUsers, c, d \in Assets, posted, amount \in Amounts :
           FlowBorrow(u, c, posted, d, amount)
    \/ \E l, b \in Users, d, c \in Assets, amount \in Amounts :
           Liquidate(l, b, d, c, amount)
    \/ \E p \in BOOLEAN : SetHalted(p)
    \/ \E cfg \in LiqConfigs : SetLiqConfig(cfg)
    \/ \E a \in Assets : \E p \in Prices[a] \union {NoPrice} : MovePrice(a, p)
    \/ \E u \in PoolUsers, a \in PoolAssets, amount \in PoolAmounts :
           \/ PoolOnly(Pool!Supply(u, a, amount))
           \/ PoolOnly(Pool!Withdraw(u, a, amount))
           \/ PoolOnly(Pool!SupplyCollateral(u, a, amount))
           \/ PoolOnly(Pool!WithdrawCollateral(u, a, amount))
           \/ PoolOnly(Pool!Borrow(u, a, amount))
           \/ PoolOnly(Pool!Repay(u, a, amount))
    \/ PoolOnly(Pool!CloseLedger)

allVars == <<vaultVars, poolVars, marketVars>>

MarketSpec == MarketInit /\ [][MarketNext]_allVars

----------------------------------------------------------------------------
\* Properties.

\* Types of what the market adds to the vault and the pool.
MarketTypeOK ==
    /\ price \in [Assets -> Nat]
    /\ \A a \in Assets : price[a] \in Prices[a] \union {NoPrice}
    /\ halted \in BOOLEAN
    /\ liqConfig \in LiqConfigs

\* A seizure moves positions of c and leaves their total alone.
Seizes(c) == position'[c] # position[c] /\ totalByAsset'[c] = totalByAsset[c]

\* Q-2 to Q-4 together, across the pool, the vault and the engine: what a
\* borrower loses in a seizure is worth at most what came into the pool with
\* it plus the bonus, so nothing is seized for a repayment the pool capped.
SeizureIsPaidFor ==
    [][\A c \in Assets : Seizes(c) =>
           \A b \in Users :
               (position[c][b] - position'[c][b]) * price[c] * 10000
                 <= SumFunction([d \in Assets |-> (cash'[d] - cash[d]) * price[d]])
                       * (10000 + liqConfig.bonus)]_allVars

\* "This is the inverse of the controller's borrow-time LTV check"
\* (liquidation lib.rs): a user who just posted c and borrowed d, or just
\* withdrew part of c, cannot be liquidated on the spot.
NoInstantLiquidation ==
    [][\A u \in FlowUsers, c, d \in Assets :
           \/ /\ totalByAsset'[c] > totalByAsset[c]
              /\ totalBorrow'[d] > totalBorrow[d]
              /\ position'[c][u] > position[c][u]
           \/ /\ totalByAsset'[c] < totalByAsset[c]
              /\ position'[c][u] < position[c][u]
           => ~ Liquidatable(u, d, c)']_allVars

============================================================================
