--------------------------- MODULE StakingRewards ---------------------------
(***************************************************************************)
(* The rewards contract (contracts/rewards/soroban) for one asset; assets  *)
(* share nothing in it.  What a unit of stake has earned so far is kept in *)
(* one accumulator (RewardPerToken, scaled), brought up to date by every   *)
(* call before it changes a stake, and a snapshot of it per user.  A call  *)
(* that would panic is an action that is not enabled.  The contract only   *)
(* keeps books: neither stakes nor rewards are transferred.                *)
(* The variables after "histories" are no state of the contract: they sum  *)
(* up its events and what each ledger should have brought, so that the     *)
(* properties can compare.                                                 *)
(***************************************************************************)
EXTENDS AccountSums

CONSTANTS
    NumUsers,       \* the accounts are 1..NumUsers
    SCALE,          \* the accumulator's scale, 10^18 in the code
    DURATION,       \* ledgers over which a reward is spread, 120960 in the code
    StakeAmounts,   \* amounts passed to stake and unstake
    NotifyAmounts,  \* amounts passed to notify_reward
    MaxUnits,       \* i128::MAX: where the checked arithmetic panics
    MaxSequence,    \* bound on the ledgers that close
    MaxStaked,      \* bound on what is staked
    MaxNotified,    \* bound on what is notified
    Parts           \* unit of the reference shares: 1/Parts

ASSUME RewardsAssumption ==
    /\ NumUsers \in Nat
    /\ SCALE \in Nat \ {0}
    /\ DURATION \in Nat \ {0}
    /\ StakeAmounts \subseteq Int
    /\ NotifyAmounts \subseteq Int
    /\ MaxUnits \in Nat
    /\ MaxSequence \in Nat
    /\ MaxStaked \in Nat
    /\ MaxNotified \in Nat
    /\ Parts \in Nat \ {0}

\* The unit of the reference is fine enough for every user's part of any total.
ASSUME PartsAssumption == \A t \in 1..MaxStaked : Parts % t = 0

Users == 1..NumUsers

VARIABLES
    totalStaked, rewardPool, rewardRate, lastUpdate, rewardPerToken,
    stake, paid, accrued,   \* Stake, RewardPerTokenPaid, Accrued, by user
    sequence,               \* the ledger's sequence number
    \* histories
    claimed,                \* what claim has paid, by user
    notified,               \* what notify_reward has brought
    emitted,                \* the rates of the ledgers with stakers, summed
    entitled                \* each user's part of them, in 1/Parts

rewardsStorage == <<totalStaked, rewardPool, rewardRate, lastUpdate, rewardPerToken,
                    stake, paid, accrued>>
histories == <<claimed, notified, emitted, entitled>>
rewardsVars == <<rewardsStorage, sequence, histories>>

----------------------------------------------------------------------------
\* update_reward.  LastUpdate is set in every case; without stakers, or
\* without a rate, the ledgers since then bring nothing.

AccruesNow == sequence > lastUpdate /\ totalStaked # 0 /\ rewardRate # 0

UpdatedReward ==
    IF AccruesNow
    THEN rewardPerToken + ((sequence - lastUpdate) * rewardRate) \div totalStaked
    ELSE rewardPerToken

UpdateRewardIfAccruing ==  \* variant: ledgers without stakers stay to be made up for
    /\ rewardPerToken' = UpdatedReward
    /\ lastUpdate' = IF AccruesNow THEN sequence ELSE lastUpdate

UpdateReward ==
    /\ AccruesNow => (sequence - lastUpdate) * rewardRate <= MaxUnits
    /\ UpdatedReward <= MaxUnits
    /\ rewardPerToken' = UpdatedReward
    /\ lastUpdate' = sequence

\* What u's stake has earned since u's snapshot, as of an up-to-date accumulator.
PendingUnfloored(u) ==  \* variant: the last unit is rounded up
    IF stake[u] > 0
    THEN (stake[u] * (UpdatedReward - paid[u]) + SCALE - 1) \div SCALE ELSE 0

Pending(u) ==
    IF stake[u] > 0 THEN (stake[u] * (UpdatedReward - paid[u])) \div SCALE ELSE 0

PendingFits(u) == stake[u] * (UpdatedReward - paid[u]) <= MaxUnits

Earned(u) == accrued[u] + Pending(u)

----------------------------------------------------------------------------
\* Entry points.

\* The events whose amounts the histories sum.
RewardNotified(amount) == notified' = notified + amount

Claimed(u, amount) == claimed' = [claimed EXCEPT ![u] = @ + amount]

NotifyRewardFirst(amount) ==  \* variant: the new rate also applies to the past
    /\ amount > 0
    /\ UNCHANGED <<rewardPerToken, lastUpdate>>
    /\ rewardPool' = rewardPool + amount
    /\ rewardRate' = (amount * SCALE) \div DURATION
    /\ RewardNotified(amount)
    /\ UNCHANGED <<totalStaked, stake, paid, accrued, claimed>>

\* The new rate replaces the old one, and nothing ends it.
NotifyReward(amount) ==
    /\ amount > 0
    /\ UpdateReward
    /\ rewardPool + amount <= MaxUnits
    /\ amount * SCALE <= MaxUnits
    /\ rewardPool' = rewardPool + amount
    /\ rewardRate' = (amount * SCALE) \div DURATION
    /\ RewardNotified(amount)
    /\ UNCHANGED <<totalStaked, stake, paid, accrued, claimed>>

\* Both changes of a stake credit what it earned before.
CreditWithoutSnapshot(u) ==  \* variant: the snapshot is not renewed
    /\ accrued' = [accrued EXCEPT ![u] = Earned(u)]
    /\ UNCHANGED paid

Credit(u) ==
    /\ PendingFits(u)
    /\ Earned(u) <= MaxUnits
    /\ accrued' = [accrued EXCEPT ![u] = Earned(u)]
    /\ paid' = [paid EXCEPT ![u] = UpdatedReward]

Stake(u, amount) ==
    /\ amount > 0
    /\ UpdateReward
    /\ Credit(u)
    /\ totalStaked + amount <= MaxUnits
    /\ stake' = [stake EXCEPT ![u] = @ + amount]
    /\ totalStaked' = totalStaked + amount
    /\ UNCHANGED <<rewardPool, rewardRate, claimed, notified>>

Unstake(u, amount) ==
    /\ amount > 0
    /\ UpdateReward
    /\ stake[u] >= amount
    /\ Credit(u)
    /\ stake' = [stake EXCEPT ![u] = @ - amount]
    /\ totalStaked' = totalStaked - amount
    /\ UNCHANGED <<rewardPool, rewardRate, claimed, notified>>

\* A claim of nothing keeps only the update.
ClaimNothing(u) ==
    /\ Earned(u) = 0
    /\ UNCHANGED <<rewardPool, accrued, paid, claimed>>

ClaimAllUnchecked(u) ==  \* variant: the pool is not asked
    /\ Earned(u) # 0
    /\ rewardPool' = rewardPool - Earned(u)
    /\ accrued' = [accrued EXCEPT ![u] = 0]
    /\ paid' = [paid EXCEPT ![u] = UpdatedReward]
    /\ Claimed(u, Earned(u))

ClaimAll(u) ==
    /\ Earned(u) # 0
    /\ rewardPool >= Earned(u)
    /\ rewardPool' = rewardPool - Earned(u)
    /\ accrued' = [accrued EXCEPT ![u] = 0]
    /\ paid' = [paid EXCEPT ![u] = UpdatedReward]
    /\ Claimed(u, Earned(u))

Claim(u) ==
    /\ UpdateReward
    /\ PendingFits(u)
    /\ Earned(u) <= MaxUnits
    /\ ClaimNothing(u) \/ ClaimAll(u)
    /\ UNCHANGED <<totalStaked, rewardRate, stake, notified>>

\* The view earned, called in a transaction, keeps its update.
QueryEarned(u) ==
    /\ UpdateReward
    /\ PendingFits(u)
    /\ Earned(u) <= MaxUnits
    /\ UNCHANGED <<totalStaked, rewardPool, rewardRate, stake, paid, accrued,
                   claimed, notified>>

----------------------------------------------------------------------------
\* A ledger closes.  What it should bring: the rate, to the stakers by stake.

ShareOfLedger(u) ==
    IF totalStaked = 0 THEN 0 ELSE (Parts * rewardRate * stake[u]) \div totalStaked

CloseRewardsLedger ==
    /\ sequence < MaxSequence
    /\ sequence' = sequence + 1
    /\ emitted' = IF totalStaked = 0 THEN emitted ELSE emitted + rewardRate
    /\ entitled' = [u \in Users |-> entitled[u] + ShareOfLedger(u)]
    /\ UNCHANGED <<rewardsStorage, claimed, notified>>

RewardsInit ==
    /\ totalStaked = 0 /\ rewardPool = 0 /\ rewardRate = 0
    /\ lastUpdate = 0 /\ rewardPerToken = 0
    /\ stake = [u \in Users |-> 0]
    /\ paid = [u \in Users |-> 0]
    /\ accrued = [u \in Users |-> 0]
    /\ sequence = 0
    /\ claimed = [u \in Users |-> 0]
    /\ notified = 0 /\ emitted = 0
    /\ entitled = [u \in Users |-> 0]

RewardsCall ==
    \/ \E amount \in NotifyAmounts :
          notified + amount <= MaxNotified /\ NotifyReward(amount)
    \/ \E u \in Users :
          \/ \E amount \in StakeAmounts :
                \/ totalStaked + amount <= MaxStaked /\ Stake(u, amount)
                \/ Unstake(u, amount)
          \/ Claim(u)
          \/ QueryEarned(u)

RewardsNext == (RewardsCall /\ UNCHANGED <<sequence, emitted, entitled>>) \/ CloseRewardsLedger

RewardsSpec == RewardsInit /\ [][RewardsNext]_rewardsVars

----------------------------------------------------------------------------
\* Properties.

\* The types; amounts and the accumulator never become negative.
RewardsTypeOK ==
    /\ totalStaked \in Nat /\ rewardPool \in Nat /\ rewardRate \in Nat
    /\ lastUpdate \in Nat /\ rewardPerToken \in Nat
    /\ stake \in [Users -> Nat]
    /\ paid \in [Users -> Nat]
    /\ accrued \in [Users -> Nat]
    /\ sequence \in Nat
    /\ claimed \in [Users -> Nat]
    /\ notified \in Nat /\ emitted \in Nat
    /\ entitled \in [Users -> Nat]

\* The running total is the sum of the stakes, by which every ledger's reward
\* is divided, after any sequence of calls (integration-tests rewards.rs:267).
StakesAddUp == totalStaked = Total(stake, NumUsers)

\* No call moves a reward: whatever anybody calls, each user's claim plus what
\* was paid to them stays as it was; it grows only as ledgers close.  A stake
\* made just before a claim earns nothing of the past, a change of the total or
\* of the rate does not reach back, and no reward is credited twice or lost.
CallsMoveNoReward ==
    [][sequence' = sequence =>
         \A u \in Users : Earned(u)' + claimed'[u] = Earned(u) + claimed[u]]_rewardsVars

\* All users together never earn more than the rates of the ledgers in which
\* somebody had a stake, however calls and roundings fall.
TotalEarned == Total([u \in Users |-> claimed[u] + Earned(u)], NumUsers)

EarnedWithinEmission == SCALE * TotalEarned <= emitted

\* As long as no more was emitted than notified, the pool can pay everybody,
\* in any order of the claims.  The premise is needed: the rate of
\* notify_reward does not end with its period (README, section 5).
PoolCoversEarned ==
    emitted <= SCALE * notified =>
        Total([u \in Users |-> Earned(u)], NumUsers) <= rewardPool

\* The accumulator against its reference, the sum over the ledgers of the rate
\* times the user's part of the stakes then: nobody gets more, and nobody gets
\* less by more than one rounding of the accumulator and one of the credit for
\* each ledger.
FairShares ==
    \A u \in Users :
        LET got == Parts * SCALE * (claimed[u] + Earned(u))
        IN  /\ got <= entitled[u]
            /\ entitled[u] - got <= Parts * sequence * (MaxStaked + SCALE)

============================================================================
