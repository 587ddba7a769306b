# A verification of the StellarPay lending gateway

TLA+ models of the contracts of this repository and of the relayer between the
chains, TLC configurations that check
them on small instances, and theorems about them that TLAPS proves for every
value of the constants.  `PROJECT.json` holds the inventory in machine-readable
form: the components, the runs, the mutants that show that each property can be
broken, the lines each definition stands for, the findings, the hazards and the
theorems.

    cd tla
    tlc -workers 2 -config MCLendingPool.cfg MCLendingPool.tla
    tlapm LendingPool_proofs.tla

## 1. The system

Paths are relative to the repository.

| Part | State it keeps | Operations | Talks to |
| --- | --- | --- | --- |
| Lending pool (`contracts/lending/soroban`) | per asset: configuration, TotalDeposit, TotalDepositShares, TotalBorrow, BorrowIndex, LastAccrual; per user: deposit shares, principal and index snapshot; operators, pause flag | add_asset, supply, withdraw, supply/withdraw_collateral, borrow, borrow_raw, repay, repay_on_behalf, add_operator, set_paused | asset tokens |
| Collateral vault (`contracts/collateral/soroban`) | position per user and asset, total per asset, token address, liquidation threshold, operators, whether token transfers are skipped | deposit, withdraw, seize, the admin's setters | asset tokens |
| Lending controller (`contracts/lending/controller`), lending flows | pause flag | supply_collateral, borrow, repay, withdraw_collateral | pool, vault, oracle |
| Lending controller, bridge side | attester set, pending set with its ledger, used salts, mint window, mint cap, admin set and threshold | wrap, unwrap, propose/execute/set_bridge, set_mint_rate_limit, add/remove_admin, set_threshold | wrapped asset |
| Wrapped asset (`contracts/treasury`) | balances, total supply, minter, underlying token | mint, burn, set_minter, set_underlying_token | - |
| Liquidation engine (`contracts/liquidation`) | bonus, fee and close factor | liquidate, set_config | pool, vault, oracle |
| Oracle (`contracts/oracle`) | whitelist and list of publishers, their last reports per asset, heartbeat and quorum per asset | set_price, get_price, peek_price, value_of, publisher_count, admin's setters | - |
| Governance (`contracts/governance`) | proposals, votes | propose, vote, execute, cancel | - |
| Rewards (`contracts/rewards`) | per user: stake, accrued reward, snapshot; reward per token, rate, ledger of the last update, total staked, reward pool | stake, unstake, claim, notify_reward, earned | - (books only) |
| EVM escrow (`contracts/lending/evm/Bridge.sol`) | attesters, used salts, released hashes, limits, pause flag | lock, burn, release, the owner's setters, withdrawStuck | ERC-20 tokens |
| Relayer (`services/payment`), releases | cursor of the Stellar watcher in memory and in the database, a row per unwrap with status and attempts, what each running tick is doing | ticks of a timer: poll a page, save its unwraps, move the cursor, list pending rows, check, submit, await, mark | both chains, database |
| Relayer, mints | cursors of the source watchers in memory and in the database, a row per mint request with status and attempts, what each running tick is doing | the same ticks: poll all chains at once, enqueue, list pending rows, submit wrap, mark | both chains, database |
| Indexer (`services/indexer`) | cursors, events, reconciliation runs | streams, reconcile | both chains |
| Cron, notification, analytics, API, apps, packages, scripts | no state of the protocol (the API's rate limiter apart) | | database, chains |

A contract call runs inside one transaction: a call that panics anywhere,
also in a contract it calls, changes nothing.  So contracts do not interleave
inside a call; what is hard about them is

- *sequences*: each call is simple, but the books they keep (running totals
  beside per-user entries, an index beside snapshots, shares beside units) have
  to agree after any sequence of calls by any users, including admin calls
  nobody expects late (listing an asset again, a new token address, a lower
  cap);
- *several contracts in one flow*: a flow reads one contract, computes, and
  calls two others; what it read may be stale (debts before accrual), counted
  twice, or not told to the contract that keeps its own copy;
- *rounding and width*: integer division in share, index and seizure
  arithmetic, casts to 64 bits;
- *time*: accrual by ledgers, timelocks, rate windows.

Off chain (relayer, indexer) it is crashes between two steps, retries, lost and
repeated events, and ticks that overlap.

### What makes each part correct

- Pool: tokens held = deposits - borrows (L-1 follows); the index never falls
  (L-2); nobody gains from rounding (L-4); debts grow by the index from the last
  change (L-3); repayment is capped and booked as taken (L-6); a withdrawal
  takes what its shares are worth and leaves the others theirs.
- Vault: the total of an asset is the sum of its positions (V-1), never
  negative (V-2); a seizure moves value once (V-4).
- Controller flows: no borrow or withdrawal leaves a user beyond the LTV or
  liquidatable on the spot.
- Liquidation: what is seized is paid for (Q-2 to Q-4), only from positions
  under water (Q-1), in one transaction (Q-5, Q-6).
- Bridge side: the supply is the balances (W-1) and is backed by wraps (X-1);
  a salt mints once (C-2), by a quorum of distinct attesters (C-1) that signed
  that amount (C-6), at a limited rate (C-3) that recovers; admins can always
  reach their quorum, attesters theirs.
- Oracle: a price is a median of enough fresh reports of current publishers,
  which a minority of the entries cannot move, and its views agree.
- Governance: one vote per account, counted once; what is executed had its
  period and a majority; a verdict is final.
- Rewards: no call moves what anybody has earned; all earn together at most what
  was emitted, each their part of the stakes in each ledger; a funded pool can
  pay everybody in any order.
- Escrow, relayer: every deposit is minted exactly once and every unwrap
  released exactly once (X-2, X-3), across crashes and retries.
- Indexer: no event is missed or stored twice; a transfer in flight is no
  mismatch.

## 2. The modules

| Module | Models | Extends / composes |
| --- | --- | --- |
| `AccountSums` | the sum behind a running total | - |
| `StakingRewards` | the rewards contract for one asset | AccountSums |
| `PriceOracle` | the oracle for one asset | - |
| `Governance` | proposals and votes | - |
| `LendingPool` | the pool | AccountSums |
| `CollateralVault` | the vault | AccountSums |
| `LendingMarket` | the controller's lending flows, the liquidation engine and the oracle's prices | extends CollateralVault, `Pool == INSTANCE LendingPool` |
| `WrappedAsset` | the wrapped asset | AccountSums |
| `BridgeController` | the controller's bridge side, admin set included | extends WrappedAsset |
| `BridgeEscrow` | Bridge.sol for one token | - |
| `UnwrapSettlement` | abstract: what the way back promises | - |
| `ReleasePipeline` | the relayer's unwrap watcher and release queue, with the escrow and the log of unwraps | extends BridgeEscrow, `Settlement == INSTANCE UnwrapSettlement WITH ...` |
| `DepositPipeline` | the relayer's source watchers and mint queue, with the source chains' logs and the salts of wrap | - |
| `MC...` | instances for TLC | the module in their name; `MCVaultOracle` and `MCGovernanceRewards` two modules each |
| `..._proofs` | theorems and lemmas | the module in their name |

How state corresponds to code: a storage map is a function by its keys (a
persistent entry that is absent reads as the default the code passes to
`unwrap_or`), an instance key is a variable of the same name, and a key whose
absence matters (a pending proposal, the window's start) can be `Unset`.  An
entry point is one action; its panics are guards, in the code's order where
order matters (nothing is kept of a call that panics).  `require_auth` is the
choice of the account that acts, or a guard where the contract demands a
particular one.  A cross-contract call is the conjunction of the callee's
action.  Integer widths appear where the code can feel them: `MaxUnits` is where
`checked_add` panics, `U64` the width of the pool's utilisation casts, `I64` of
the amount in the attested payload.  A definition whose comment begins with
"variant" is a plausible bug; no specification uses it, the mutants do.

**LendingPool.**  `AccrueInterest` is conjoined into every action that calls
accrue_interest and the later conjuncts use `AccruedIndex` where the code uses
the new index.  `cash` is what the pool's address holds in the token contract:
the code does not store it, but transfers fail without it.  Amounts come in
units small enough that the index (scale 2 in the runs) moves by visible steps.
`HealthyAfter` is check_hf of the pool's own borrow.  The pool keeps collateral
under the deposit-share key, which is what SupplyCollateral does.

**CollateralVault.**  `vaultCash` is by token, because an asset may be pointed
at another token while positions exist and two assets may share one.  `Moved`
writes the giver's position before it reads the taker's, as seize does.
`vaultSkips` is the admin's flag that switches token transfers off; `HasToken`
is the test in front of each transfer.

**LendingMarket.**  The initial state (`Wired`) is the wiring that
`contracts/scripts/e2e-testnet.mjs` and `contracts/integration-tests` deploy.
`FlowBorrow` checks the debt in one asset against all collateral in another,
with the debt as of the last accrual; `FlowWithdrawCollateral` sums all debts.
The pool's copy of the collateral is touched only by supply_collateral, as in
the code.  Prices are what get_price answers; each moves freely within its
asset's set and may be missing (`NoPrice`). PriceOracle shows where such an
answer comes from.  `EngineReads`, `EngineRepays` and `EngineSeizes` are the
engine's calls.  Accounts in `PoolUsers` also call the pool directly.

**BridgeController.**  A message stands for wrap's arguments; chain, source
address and nonce, which nothing here tells apart, are its `origin`.  A
signature is its signer and what it signs; `SignedBy` compares payloads, and
`Payload` has the amount modulo `I64`, which is what the cast does.  Approvals
that pass require_admin_multisig are distinct admins, so they are a set;
attestations stay lists, because that their indices increase is what the
quorum rests on.  The histories `mintedFor`, `unwrapped` and `wrapsAt` sum up
the Wrap and Unwrap events.  Of the wrapped asset's minters only the controller
mints here.  The attesters sign as the integration test's `attest` does.

**BridgeEscrow.**  One token.  A signature is the address that it recovers to;
attesters sign only what the relayer asks them to.  `books` and `releases` sum
up the events.  setAttesters wants a threshold below the number of attesters,
while initialize takes one equal to it, and both are modelled so.

**ReleasePipeline.**  The timer (`setInterval`) does not wait for the tick
before, so `Ticks` of them run at once, and what a tick does between two awaits
is one step.  A tick's record says before which await it stands (`at`), the page
it saves (`next`, `upto`), the rows it listed with the attempts read *then*
(`todo`; the row at hand is the oldest left), and the release it waits for
(`tx`).  The page is identified with its end in the log, the cursor with the
number of events behind it; the start ledger of a cold start is taken to be
before the first unwrap.  saveUnwrap is called twice for an event, by the watcher
and by the enqueuer: `SaveUnwrapFails` covers every way in which these writes
and markUnwrapFailed can fail.  A release is mined while a tick waits for it
(`MineAwaited`) or after everybody gave it up (`MineOrphan`: a timeout, a lost
answer or a crash leaves it in flight).  A revert by the replay guard may or may
not be recognised by its text (`Confirm`).  A crash drops all ticks and reads the
stored cursor back.  Reorganisations beyond the awaited confirmations are left
out, and the mints of the same tick are DepositPipeline's: a tick that fails in
one of those is a tick that never leaves "idle" or "list".  The log stands for the controller's
Unwrap events: `Unwrap` asks only that what was unwrapped was deposited, which
is what BridgeController's SupplyIsBacked gives if every wrap has its deposit.

**DepositPipeline.**  The other half of the same tick, in the same form.  A tick
polls all source chains at once, so its polls have places of their own
(`polls[c].at`); the tick ends with the first that is rejected, while the others
run on and still move their cursors.  A log is by chain, one deposit to a block;
the page ends where pollOnce ends it, REQUIRED_CONFIRMATIONS behind the head but
at least one block on.  `minted` counts the accepted wraps of each deposit.  A
watcher without a stored cursor starts 50 or 100 blocks behind the head
(ethereum.ts:39, polygon.ts:31).  As for releases, that cold start is taken to be
before the first deposit, also the one after an `Exit` that comes before any
cursor was stored: blocks that a late cold start skips are not modelled.
`queue` holds the events to enqueue, `todo` the rows as
listed, attempts of that time included.  `Wrap` is the salt check of
BridgeController's wrap, the only part of it that tells deposits apart; what else
can refuse a wrap (the pause flag, a full mint window, a lacking quorum) is a
failed attempt (`AttemptFails`).  So is a submission that the network refuses
because another tick's carried the same sequence number of the relayer's account
(both load the account, stellarMinter.ts:253): overlapping ticks can meet this
without a fault, and the model counts it as one.  An answer that is lost leaves the transaction
in flight (`orphans`).  A replay is recognised by the text of an error, or not
(`Confirm`).  `Exit` is a crash and also the shutdown, which waits five seconds
but for no tick.  The table of source events is written and never read by this
service, so a page is saved in one step.

**StakingRewards.**  A call brings the accumulator up to date (`UpdateReward`),
credits the user (`Credit`) and then changes stakes, as in the code.  The
histories are the reference: `emitted` sums the rate of every ledger with a
stake, `entitled` each user's part of it in fractions (1/`Parts`) that come out
even, ledger by ledger and without an accumulator.

**Governance.**  Stored votes are records in `ballots` and proposals carry the
running tallies, two keys in the code.  An execution records the outcome and
calls nothing, as in the code.

**PriceOracle.**  `whitelist` is the Publisher keys, `list` the enumeration that
add_publisher appends to and remove_from_publisher_list swaps and pops.
`FreshEntries` gathers as collect_median does, a publisher as often as it is
listed; `ExchangeSort` is its sort as a fold over the pairs of its loops, and
MedianIsReference compares the result with the definition of a median.  What was
never reported reads as price 0 at ledger 0; DeploymentAssumption says that the
network is older than a report may be.

## 3. The runs

| Run | What it asks | Bounds, and why they are enough |
| --- | --- | --- |
| `lending_pool` | the pool's books, debts against tokens, the index and rounding over all calls | 2 users, one asset (assets do not interact in the pool), 3 ledgers, a second listing; amounts of 2 against an index of scale 2 and 3 virtual units: interest, capped repayments and negative totals, and supplies at share prices that a withdrawal has moved off 1, where shares and amounts round down |
| `pool_lenders` | whether a withdrawal burns what it redeems (section 5) | one listing, 2 ledgers |
| `pool_yield` | whether interest that a borrower pays reaches the lenders (section 5) | one listing, 2 ledgers, amounts of 4 and 8, so that the interest of a ledger is more than a rounding |
| `vault_oracle` | vault: totals and types over all calls; oracle: median, minority, views, list | vault: 3 users (giver, taker, bystander), 2 assets on one token, thresholds on both sides of the bound; oracle: 3 publishers in a list of up to 4 entries (so one is listed twice) against 3 slots, 4 prices, 2 heartbeats, quorums 0 to 2, 3 ledgers, so that reports are fresh, stale and renewed |
| `lending_market` | payment of seizures, no instant liquidation | a borrower and a lender who liquidates and is the treasury; one asset is lent and is the measure, the other is collateral at price 2, 1 or none: one halving makes a full position liquidatable, and bonus and fee are whole units |
| `bridge_controller` | supply, backing, salts, quorum, rate, admins and attesters | 2 admins, 2 keys, sets with thresholds 2, 1 and unreachable, 2 salts, a window and a timelock of one ledger over 3 ledgers, caps of 1 and 2: rotations, a lowered cap and re-used salts all happen |
| `mint_window` | whether the rate window reopens | as above |
| `release_pipeline` | safety, refinement and liveness of the way back | two overlapping ticks, one upset (a failing call, a crash or an act of the owner) at any point; a good, an unsupported, an ill-addressed and an unconfigured unwrap, two in the log at a time; two attempts, pages of one event, batches of one row: stale counts of attempts, double submissions, lost answers, dead letters, rows that wait behind others and cursors moved backwards all happen.  A batch of several rows is the theorems' only |
| `starved_queue` | whether a stuck unwrap can starve the queue (section 5) | as above with one tick and no upset |
| `deposit_pipeline` | nothing lost without a fault, one mint for a deposit and for a salt, the queue drains, every salt deposited is minted | two overlapping ticks, two chains (one lenient, one strict), a deposit on each, both with one salt, one fault at any point (a failing call, a lost answer, a crash or shutdown), two attempts, one confirmation: stale rows, rejected polls, double submissions, replays and dead letters all happen.  Deposits are not promised, so behaviours with one of the two are among those checked, in which it must itself be minted.  A page of two blocks and a cursor moved back take more deposits on a chain than TLC can follow, and are the theorems' only |
| `lost_deposits` | whether an end of the process can lose a deposit | as above, one deposit invalid, safety only |
| `governance_rewards` | governance: tallies, majority, finality; rewards: the accumulator against its reference, the pool against the claims | governance: 3 accounts (won, lost and tied votes), 2 overlapping proposals, a period of one ledger over 3 ledgers; rewards: 2 users, stakes of 1 to 3, rates that do not divide, scale 3 and duration 2, so that rate, accumulator and credit all round, 3 ledgers, with stakers and without |

`vault_oracle` and `governance_rewards` check two contracts each that share no
state: a behaviour exercises one of them and leaves the other as deployed, so
that each is checked over all of its own behaviours and over no products.

The runs check deadlock but for two: with every proposal executed and the bounds
reached no call of governance is left, and the specification of `lost_deposits`
promises no tick.  The other models never stop, as admin calls, queries or ticks are always
possible.  The contracts only act when called, and no call is promised,
so their runs assume no fairness.  `FairSpec` of ReleasePipeline assumes weak
fairness of the steps of each tick: the timer starts ticks for ever (index.ts
catches whatever a tick throws), every awaited call is answered, be it by an
error, and a release somebody waits for is executed.  Nothing is assumed of
users, the owner, faults or abandoned releases.  EveryUnwrapReleased needs fewer
faults than attempts (one and two here), and excuses an unwrap when the owner
stepped in, tokens were burnt and not locked, or the unwrap could not be saved.
FairSpec of DepositPipeline assumes the same of its ticks, and EveryDepositMinted
excuses a deposit that a fault lost before it had a row.
QueueDrains and EveryUnwrapReleased except a row with a whole batch of unconfigured
ones in front of it, which is never listed; `starved_queue` shows one.

`MaxUnits`, `MaxLedger`, `LastLedger`, `MaxListings`, `MaxUpsets`, `MaxFaults`,
`MaxSequence`, `MaxStaked`, `MaxNotified`, `MaxProposals`, `MaxListed`, the salts and the sets of
amounts bound the runs; every one is a CONSTANT, and the theorems hold for all
their values.

## 4. The proofs

TLAPS checks the modules `AccountSums_proofs`, `LendingPool_proofs`,
`LendingMarket_proofs` (with the vault), `BridgeController_proofs`,
`ReleasePipeline_proofs`, `DepositPipeline_proofs`, `StakingRewards_proofs` and
`Majorities_proofs` (governance and oracle, the contracts that decide by
counting).  Every invariant and every action property that a passing run checks
is a theorem.  They assume the named assumptions of the modules
(`...Assumption`), which TLC evaluates in the passing runs.  These say that
bounds are naturals, scales positive and inputs integers, and two things more:
`DeploymentAssumption`, that the oracle was deployed in a ledger later than the
longest time a report lives (used for ViewsAgree), and `PartsAssumption`, that the
unit in which FairShares counts exact parts divides by every total stake (it is
part of the reference, not of the code).

- *Sums.*  `Total` is a recursive function, so that its unfolding can be proved
  by induction over a set (`InductionTo`): writing one account changes the sum
  by as much, a member of a sum of naturals is at most the sum.  The folds of
  the community modules are unfolded likewise, over the subsets of a finite set
  (`SubsetInduction`): a new element adds its term, a part sums to no more than
  the whole.  All conservation proofs rest on these.
- *Pool.*  The inductive invariant is `IInv`: the types, the books and
  `MarketFacts`.  The last says that the index is at least its scale and every
  snapshot index at most the market's, and that a market never listed is empty.
  From it follow the types, CashMatchesBooks, L-1 as a corollary, L-2,
  DebtsMoveWithTokens and SupplyNeverProfits.  *DebtsMoveWithTokens* weighs all
  debts at one index: a call changes one snapshot (`DebtsOfOneMoved`), a
  repayment by exactly what it takes (`RepayMoves`), while a further borrow may
  forget interest but never adds more than it lends (`BorrowMoves`), as
  principal * index / snapshot is at least the principal.  *SupplyNeverProfits* is a statement
  about floor division at any share price (`RoundTrip`).
- *Vault.*  Types and sums are inductive together: that a withdrawal leaves the
  total non-negative takes the sum.  A self-seizure is covered by `Moved`
  reading after writing.
- *Market.*  The vault's invariant holds through the flows and double
  seizures.  Every step of the market is a step of the pool or leaves it alone
  (`MarketStepPool`), and the initial market is a state of the pool's
  invariant, so the pool's books hold behind the flows and liquidations.  With
  the types and the facts about the index that is `MarketFactsInv`, from which the
  two action properties follow.  *NoInstantLiquidation*: the LTV check of the
  controller and the engine's test are compared as the code computes them, with
  their different divisions, at the index that the borrow's accrual leaves.
  *SeizureIsPaidFor*: what is seized is worth at most the repayment plus the
  bonus after three floors, the sum over the assets' tokens has one term that
  moved, and what the engine names is what the pool books, since the repayment
  does not exceed the debt.  The last needs a premise, `CloseFactorIsFraction`:
  liquidation lib.rs:43-44 calls the close factor a fraction, set_config
  (56-74) does not look, and with a close factor of 200% TLC finds a seizure
  that is not paid for.
- *Bridge.*  Three inductive invariants that do not depend on one another
  except for the ledger's type: the books (supply = balances; backing; an
  unused salt has minted nothing, which makes MintedOnce inductive), the admin
  set (distinct and at least the threshold), the attester sets (what is pending
  could have been set).  MintsCarryQuorum counts: increasing indices into
  distinct keys are an injection of the attestations into the signers.
- *Mint rate.*  MintRateBounded speaks of a sliding window, the code of a window
  with a start.  The proof shows why the two agree: the start is stored only by
  a call that finds the window expired, which needs a start, so it stays
  unset and `windowCount` counts *all* wraps (`WindowCountsAll`), of which a
  window has no more (`WindowWithinTotal`).  The theorem thus holds for the
  reason that makes `mint_window` fail; code that reopened its window would need
  another proof.
- *Releases.*  The inductive invariant is `PipelineInv`, for any number of
  ticks, unwraps, attempts and faults.  What makes it inductive is `TickKnows`
  (a tick about to mark a row stands there because the bridge released
  its transaction, which nothing undoes), `PageSaved` (a tick that saves a page
  has left a trace of all events before its next, even where another tick moved
  the cursor meanwhile), and `GuardCounts` (the replay guard counts the
  releases).  `Grows` collects what no step undoes, so that a tick that does not
  move keeps what it knows (`OthersKnow`); each action then needs to speak of
  the tick that moves only.  From the invariant follow the types,
  CursorNeverSkips, RowsNeverReopen as an action property, and, step by step
  (`NextMaps`), that the pipeline implements UnwrapSettlement.
  `UnitsInv` adds the units: there is a set of logged unwraps, no two of one
  transaction, each with its guard taken, whose amounts sum to what was released
  (`ReleaseUnits` puts one more into it), and the claims are within what was
  locked or burnt, which the model takes from the minting side (the guard of
  Unwrap).  With `FoldOfAddition` and `FoldOfPart` it yields EscrowCoversClaims:
  the escrow holds what was locked less what was released and withdrawn, no more
  is released than was unwrapped, and what is still owed is in the bridge, but
  for what was burnt or withdrawn.  TLC agreed on the run's instance before
  it was proved; it is no property of a run.

- *Rewards.*  The heart is `EmissionInv`: what everybody was paid, has accrued
  and could be credited at the *stored* accumulator, plus what the ledgers since
  the last update may still bring, is at most what was emitted.  Bringing the
  accumulator up to date moves from the last part into the first, and rounds
  down both in the accumulator (`UpdateWithinEmission`, a sum over users times a
  floor) and in the credit (`SettlingLowers`).  It implies EarnedWithinEmission;
  with `PoolInv` (the pool and what was claimed are what was notified) it gives
  PoolCoversEarned.  CallsMoveNoReward is one lemma per kind of call
  (`...Settles`): a call leaves claimed plus earned of everybody alone.
  FairShares takes `ShareInv`, for each user on their own: counted to the last
  update (`paid`, `lastUpdate`), how far they are behind their exact part is at
  least nothing and at most what the roundings of the accumulator (up to the
  stake, per update) and of the credits (up to one unit, per change of the
  snapshot) explain.  It is inductive only with the bound on the total stake.
- *Deposits.*  `MintInv` is what holds whatever fails: rows come from the logs,
  a deposit is minted at most once and alone under its salt, and a tick that
  is about to mark a request minted stands there because the salt was used,
  which nothing undoes.  MintsAreDeposits follows.  `PipelineInv` adds, as
  long as nothing failed, that each tick has ahead of it all that its polls
  found, and that everything before the end of a page or before a cursor has a
  row or is carried by a running tick; each action hands it on from log to
  poll, queue and row.  NothingLostUnprovoked follows.
- *Governance.*  `GovernanceInv` has the tallies as cardinalities of the sets of
  ballots, together with what a verdict implies at the time it is given; that
  no ballot comes after the period keeps it true.  `QuorumIsExact` takes the
  rounding out of the quorum.
- *Oracle.*  The recursive functions of the sort and of the gathering are unwound
  once (`PassUnwinds`, `FreshUnwinds`) into the sequence of their values;
  induction on the index then shows that a pass puts the smallest of what is
  left in its place and keeps, for every x, the number of reports below x
  (`PassPutsInPlace`), so that the passes sort (`SortPutsInPlace`) and the middle
  entry divides the unsorted reports (`MiddleIsMedian`).  MinorityCannotStray is
  counting from there (`MajorityEncloses`).  ViewsAgree takes that a publisher who
  never reported is not fresh, hence the invariant that no price means no
  update and `DeploymentAssumption`.  OracleTypeOK is nearly inductive; its core is
  that the entry that moves into a removed one's place keeps its publisher listed.

Only model-checked: QueueDrains, EveryUnwrapReleased, MintQueueDrains and
EveryDepositMinted, which are liveness under fairness, and the five violations.
Liveness and ENABLED are out of the prover's reach, as is induction with an
operator as its parameter; induction over a set of naturals (`InductionTo`) and
over subsets (`SubsetInduction`) takes its place.

## 5. Where the code and what is said of it differ

With a run that shows it, and a finding in `PROJECT.json` with the lines:

1. `withdraw` of the pool never lowers TotalDepositShares: each withdrawal
   dilutes the remaining lenders (`pool_lenders`).
2. Interest reaches no lender.  A repayment takes the interest in tokens and
   subtracts all of it from TotalBorrow, to which interest was never added;
   TotalDeposit, which prices the shares, never grows by it (pool lib.rs:593-596).
   No interest makes a share worth more than a unit, where lib.rs:3-4 calls the shares
   interest-bearing and docs/rate-model.md:32-46 promises a supply rate, and what
   borrowers paid stays in the pool as tokens of no share (`pool_yield`).
3. The mint-rate window never expires, because its start is stored only when it
   has expired: after as many wraps as the cap, none goes through until the cap
   is raised (`mint_window`).
4. Pending releases of a chain without a release context are skipped without
   counting an attempt, and as the oldest rows they are listed for ever: a batch of
   25 of them keeps every younger row out, where services/payment/README.md:37-38
   says that "one stuck unwrap cannot starve the queue" (`starved_queue`, with a
   batch of one).
5. A source watcher stores its cursor before its deposits are queued, and
   shutdown waits for no tick: an end of the process in between loses the
   deposits, where index.ts:99 says that shutdown prevents it (`lost_deposits`).

The passing properties are stated so that they are true beside these:
CashMatchesBooks holds *with* numbers 1 and 2, QueueDrains and
EveryUnwrapReleased except the starved rows of number 4, and NothingLostUnprovoked
and EveryDepositMinted hold with number 5.

Seen while modelling, without a run of its own.  Paths are those of section 1.

Lending:

- A second borrow stores principal + amount with the current index, without
  scaling the principal first (pool lib.rs:525), so the interest on the first is
  forgotten; docs/rate-model.md:53-55 has the debt grow from the last borrow.
  DebtsMoveWithTokens therefore bounds what a borrow adds only from above.
- Through number 2 TotalBorrow can pass below zero, and borrow_apy_bps casts it to
  u64 (474): a number just below 2^64 gives a utilisation of 100% and the highest
  rate, even when nothing is borrowed.
- supply_collateral of the pool adds to the deposit shares and takes no tokens
  (300-304), where its comments at 288 and 297-299 have the vault hold them.
- `seize` sends the receiver the tokens and also credits the receiver's position
  (vault lib.rs:163-183), where docs/invariants.md:47 has it gain the amount once.
- borrow's LTV check counts the debt in debt_asset only (controller
  lib.rs:370-376), so borrows of several assets stack against one collateral,
  which the comment at 356-359 wants to prevent.  NoInstantLiquidation is about
  one debt and one collateral.
- withdraw_collateral of the controller leaves the pool's copy of the collateral
  as it was (536), and the pool's own borrow counts it.
- The liquidation check weighs one debt against one collateral (liquidation
  lib.rs:111), whatever else the position holds.

Bridge and relayer:

- The attested payload holds the low 64 bits of the amount, where a comment says
  that the cast saturates (controller lib.rs:941); docs/invariants.md:135 has the
  amount bound.  QuorumSigned therefore speaks of payloads.
- Two unwraps of one Stellar transaction have the same nonce (1005-1014), so
  the second gets no row and is never released (SettlesOnce is by
  transaction), where schema.prisma:58-60 says that the nonce keeps them
  apart.  Bridge.release is keyed by the transaction alone.
- A row that one tick marked released can still be set to status "failed" by
  another (markUnwrapReleaseFailed looks at nothing), though its `released` flag
  stays; RowsNeverReopen is stated accordingly.  The comment at store/db.ts:112
  calls a released row terminal.  A mint request has no such flag: a late tick's
  dead letter makes a minted one "failed" (stellarMinter.ts:146-150).
- Whether a replay is recognised depends on the text of an error
  (evmRelease.ts:140, stellarMinter.ts:289).  For releases a pre-check in the next
  tick makes up for it, unless it was the last attempt; for mints nothing does,
  and a deposit that was minted can end as "failed".
- The salt is unique within one chain's bridge, and the controller keys its
  replay guard by the salt alone: of two deposits with one salt on two chains the
  second is marked minted as "replayed-salt", with the comment "the wrap did
  happen" (stellarMinter.ts:285-288), and is never paid.  MintsAreDeposits says of
  such a row that its salt was used, EveryDepositMinted that its salt is minted.
- propose_bridge and set_bridge accept a set that lists a key twice (controller
  lib.rs:601-613, 659-680), and attestations are told apart by their index into the
  set: one attester then counts as two, where the comment at 893-894 says that the
  increasing indices prevent it.  QuorumSigned has the premise (`DistinctKeys`).
- set_bridge, meant for emergencies, leaves a pending proposal in place
  (659-680): execute_bridge can install that older set over it later.
- `to` is at least `from` (ethereum.ts:45), so the first block after the cursor
  is taken without confirmations, against the comment at 41-43.
- One rejected poll ends the tick (Promise.all), and the events that the other
  polls return are dropped behind cursors that have moved.
- The ethereum watcher skips an event that it cannot save and moves its cursor
  past it (81-86); the polygon watcher fails the poll and comes back to it.

Oracle, governance, rewards:

- A publisher that is added twice is listed twice: it counts twice in the median
  and in the quorum, and stays listed after one removal.
- With two reports the lower one is the answer, so one of two publishers decides,
  where oracle lib.rs:10-13 says that none can.
- The TTL described as five minutes is counted in ledgers; a heartbeat below it
  has no effect; a 17th fresh entry makes every read panic; a publisher that never
  reported is counted by publisher_count while the ledger is below the TTL.
- Votes weigh 1 per account and no token is read; no timelock is enforced though
  governance lib.rs:3-4 and 205 name one; the quorum is a share of the votes
  cast, so that a majority of a single vote meets it; an execution calls nothing.
- The reward rate does not end with its period: after DURATION ledgers the
  accumulator promises more than was notified, and a claim then panics with
  "insufficient reward pool".  PoolCoversEarned has the premise.  The DataKey
  comment gives the rate per second; it is per ledger.

## 6. The plan

Done, in the order of importance: pool; vault; market with liquidation; bridge
side of the controller with the wrapped asset; escrow and release pipeline;
deposit pipeline; rewards; oracle; governance.

Left, in this order:

1. `EventIndexer`: pages, cursor and inserts as separate steps, with a stop
   between them, undecodable events and the node's retention; no event lost or
   doubled.
2. An abstract specification of the way in, as UnwrapSettlement is of the way
   back, and its refinement by DepositPipeline.

### Not modelled

- The indexer: it reads the chains and reports, and nothing in the protocol or
  the relayer reads what it stores, so it comes last.  Its reconciliation compares
  sums that it reads over HTTP from several services, one after another, and what
  they answer is outside of this repository's control flow.
- Reorganisations of the source chains beyond the awaited confirmations: the
  watchers have no code for them.
- The solana watcher, which is a scaffold that returns no events.
- The pool's accounting-only mode (`SkipTokenTransfers`), a switch for unit tests
  with which it books tokens that it does not hold; the vault's is modelled.
- User interfaces, the SDK, types and helpers keep no state of the protocol; the
  cron service registers jobs with an external queue; notification and analytics
  only read; the API reads, and keeps a counter per client for its rate limit;
  scripts and infrastructure deploy.
- Upgrades of the contracts' code, and token contracts beyond what a transfer
  needs.
