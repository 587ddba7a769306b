----------------------- MODULE StakingRewards_proofs -----------------------
(***************************************************************************)
(* The rewards contract for any number of users, any scale and duration:   *)
(* its types and books, that calls move no reward, that all rewards        *)
(* together stay within what the ledgers emitted, and that everybody gets  *)
(* the share of their stakes up to roundings.                              *)
(* Everything rests on one fact about the calls (CallSettles): each brings *)
(* the accumulator up to date, and of each user it either touches nothing  *)
(* or books what is pending and renews the snapshot.                       *)
(***************************************************************************)
EXTENDS StakingRewards, AccountSums_proofs

----------------------------------------------------------------------------
\* Arithmetic.

LEMMA QuotientBounds ==
    ASSUME NEW x \in Nat, NEW y \in Nat \ {0}
    PROVE  x \div y \in Nat /\ y * (x \div y) <= x
OBVIOUS

LEMMA ProductOfNats ==
    ASSUME NEW x \in Nat, NEW y \in Nat
    PROVE  x * y \in Nat
OBVIOUS

LEMMA CancelFactor ==
    ASSUME NEW s \in Nat \ {0}, NEW x \in Int, NEW y \in Int, s * x <= s * y
    PROVE  x <= y
<1> SUFFICES ASSUME y < x
             PROVE  FALSE
  OBVIOUS
<1> DEFINE d == x - y
<1>1. d \in Nat \ {0} /\ x = y + d
  OBVIOUS
<1> HIDE DEF d
<1>2. s * x = s * y + s * d
  BY <1>1, ProductOverSum
<1>3. s * d \in Nat \ {0}
  BY <1>1
<1>4. s * y \in Int
  OBVIOUS
<1> QED BY <1>2, <1>3, <1>4

\* Rounding down leaves less than one divisor.
LEMMA QuotientRest ==
    ASSUME NEW x \in Nat, NEW y \in Nat \ {0}
    PROVE  x - y * (x \div y) \in 0..y - 1
OBVIOUS

LEMMA ExactQuotient ==
    ASSUME NEW t \in Nat \ {0}, NEW y \in Nat
    PROVE  (t * y) \div t = y
OBVIOUS

LEMMA Divides ==
    ASSUME NEW t \in Nat \ {0}, NEW y \in Nat, y % t = 0
    PROVE  \E q \in Nat : y = t * q
<1> DEFINE q == y \div t
<1>1. q \in Nat /\ y = t * q
  OBVIOUS
<1> HIDE DEF q
<1> QED BY <1>1

LEMMA Regroup ==
    ASSUME NEW a \in Int, NEW b \in Int, NEW c \in Int, NEW d \in Int
    PROVE  (a * b) * (c * d) = (b * c) * (a * d)
OBVIOUS

LEMMA MonotoneFactor ==
    ASSUME NEW x \in Nat, NEW y \in Int, NEW z \in Int, y <= z
    PROVE  x * y <= x * z /\ x * y \in Int /\ x * z \in Int
OBVIOUS

LEMMA ProductOverDifference ==
    ASSUME NEW d \in Int, NEW x \in Int, NEW y \in Int
    PROVE  /\ d * x \in Int /\ d * y \in Int
           /\ d * (x - y) = d * x - d * y
OBVIOUS

\* Rounding the accumulator down costs a stake at most as many parts as it holds.
LEMMA AccumulatorRounding ==
    ASSUME NEW t \in Nat \ {0}, NEW q \in Nat, NEW r \in Nat, NEW s \in Nat, NEW l \in Nat,
           NEW d, d = (l * r) \div t
    PROVE  /\ (t * q) * (s * d) \in Int /\ l * (q * (r * s)) \in Int
           /\ l * (q * (r * s)) - (t * q) * (s * d) \in 0..(t * q) * s
<1> DEFINE e == l * r
           k == q * s
           rest == e - t * d
<1>1. e \in Nat /\ k \in Nat /\ d \in Nat /\ t * d \in Nat
  <2>1. e \in Nat /\ k \in Nat
    BY ProductOfNats
  <2>2. d \in Nat
    <3> HIDE DEF e
    <3> QED BY <2>1, QuotientBounds DEF e
  <2> QED BY <2>1, <2>2, ProductOfNats
<1>2. rest \in 0..t - 1
  <2> HIDE DEF e
  <2> QED BY <1>1, QuotientRest DEF e
<1>3. l * (q * (r * s)) = k * e
  <2>1. \A a, b, x, y \in Nat : a * (b * (x * y)) = (b * y) * (a * x)
    OBVIOUS
  <2> QED BY <2>1
<1>4. (t * q) * (s * d) = k * (t * d)
  BY <1>1, Regroup
<1>5. (t * q) * s = k * t
  OBVIOUS
<1>6. k * rest = k * e - k * (t * d) /\ k * e \in Int /\ k * (t * d) \in Int
  <2> DEFINE x == t * d
  <2>1. x \in Int /\ rest = e - x
    BY <1>1
  <2> HIDE DEF x, k, e, rest
  <2>2. k * (e - x) = k * e - k * x /\ k * e \in Int /\ k * x \in Int
    BY <1>1, <2>1, ProductOverDifference
  <2> QED BY <2>1, <2>2 DEF x
<1>7. k * rest \in 0..k * t
  <2> HIDE DEF k, rest
  <2>1. rest \in Nat /\ rest <= t /\ k * t \in Int
    BY <1>1, <1>2
  <2>2. k * rest <= k * t /\ k * rest \in Nat
    BY <1>1, <2>1, MonotoneFactor, ProductOfNats
  <2> QED BY <2>1, <2>2
<1> HIDE DEF k, e, rest
<1> QED BY <1>3, <1>4, <1>5, <1>6, <1>7

----------------------------------------------------------------------------
\* The invariant of the books, and what the operators return under it.

BooksInv ==
    /\ RewardsTypeOK
    /\ StakesAddUp
    /\ lastUpdate <= sequence
    /\ \A u \in Users : paid[u] <= rewardPerToken

\* The accumulator only grows, by at most the rates divided among all stakes.
LEMMA UpdatedGrows ==
    ASSUME BooksInv
    PROVE  /\ UpdatedReward \in Nat
           /\ rewardPerToken <= UpdatedReward
           /\ totalStaked = 0 => UpdatedReward = rewardPerToken
           /\ totalStaked # 0 => totalStaked * (UpdatedReward - rewardPerToken)
                                   <= (sequence - lastUpdate) * rewardRate
<1> USE DEF BooksInv, RewardsTypeOK
<1> DEFINE L == sequence - lastUpdate
           E == L * rewardRate
           d == E \div totalStaked
<1>1. L \in Nat /\ E \in Nat
  BY ProductOfNats
<1>2. CASE AccruesNow
  <2>1. totalStaked \in Nat \ {0}
    BY <1>2 DEF AccruesNow
  <2>2. d \in Nat /\ totalStaked * d <= E
    BY <1>1, <2>1, QuotientBounds
  <2>3. UpdatedReward = rewardPerToken + d
    BY <1>2 DEF UpdatedReward
  <2>4. UpdatedReward - rewardPerToken = d /\ UpdatedReward \in Nat
        /\ rewardPerToken <= UpdatedReward
    <3> HIDE DEF d
    <3> QED BY <2>2, <2>3
  <2> QED BY <2>1, <2>2, <2>4
<1>3. CASE ~ AccruesNow
  <2>1. UpdatedReward = rewardPerToken
    BY <1>3 DEF UpdatedReward
  <2>2. totalStaked * (UpdatedReward - rewardPerToken) = 0
    <3>1. UpdatedReward - rewardPerToken = 0
      BY <2>1
    <3> QED BY <3>1
  <2> HIDE DEF E
  <2> QED BY <1>1, <2>1, <2>2 DEF E
<1> QED BY <1>2, <1>3

\* What is pending is a natural, rounded in the pool's favour.
LEMMA PendingBounds ==
    ASSUME BooksInv, NEW u \in Users
    PROVE  /\ UpdatedReward - paid[u] \in Nat
           /\ Pending(u) \in Nat
           /\ SCALE * Pending(u) <= stake[u] * (UpdatedReward - paid[u])
           /\ Earned(u) \in Nat
           /\ Earned(u) = accrued[u] + Pending(u)
<1>1. /\ stake[u] \in Nat /\ paid[u] \in Nat /\ accrued[u] \in Nat
      /\ rewardPerToken \in Nat /\ paid[u] <= rewardPerToken
      /\ SCALE \in Nat \ {0}
  BY RewardsAssumption DEF BooksInv, RewardsTypeOK
<1>2. UpdatedReward \in Nat /\ rewardPerToken <= UpdatedReward
  BY UpdatedGrows
<1> DEFINE d == UpdatedReward - paid[u]
           x == stake[u] * d
<1>3. d \in Nat /\ x \in Nat
  BY <1>1, <1>2, ProductOfNats
<1>4. x \div SCALE \in Nat /\ SCALE * (x \div SCALE) <= x
  BY <1>1, <1>3, QuotientBounds
<1>5. Pending(u) \in Nat /\ SCALE * Pending(u) <= x
  <2>1. CASE stake[u] > 0
    <3>1. Pending(u) = x \div SCALE
      BY <2>1 DEF Pending
    <3> QED BY <1>4, <3>1
  <2>2. CASE ~ (stake[u] > 0)
    <3>1. Pending(u) = 0 /\ SCALE * 0 = 0
      BY <1>1, <2>2 DEF Pending
    <3> HIDE DEF x
    <3> QED BY <1>3, <3>1
  <2> QED BY <2>1, <2>2
<1>6. Earned(u) = accrued[u] + Pending(u)
  BY DEF Earned
<1> QED BY <1>1, <1>3, <1>5, <1>6

----------------------------------------------------------------------------
\* The shape of a call.

Untouched(u) ==
    /\ stake'[u] = stake[u] /\ paid'[u] = paid[u]
    /\ accrued'[u] = accrued[u] /\ claimed'[u] = claimed[u]

Settled(u) ==
    /\ paid'[u] = UpdatedReward
    /\ claimed'[u] + accrued'[u] = claimed[u] + Earned(u)

UserTypes ==
    /\ stake' \in [Users -> Nat] /\ paid' \in [Users -> Nat]
    /\ accrued' \in [Users -> Nat] /\ claimed' \in [Users -> Nat]

CallShape ==
    /\ UpdateReward
    /\ UserTypes
    /\ \A u \in Users : Untouched(u) \/ Settled(u)

LEMMA NotifySettles ==
    ASSUME BooksInv, NEW amount \in NotifyAmounts, NotifyReward(amount)
    PROVE  CallShape
BY DEF NotifyReward, RewardNotified, CallShape, UserTypes, Untouched, BooksInv, RewardsTypeOK

LEMMA CreditSettles ==
    ASSUME BooksInv, NEW u \in Users, Credit(u), UNCHANGED claimed
    PROVE  /\ paid' \in [Users -> Nat] /\ accrued' \in [Users -> Nat]
           /\ claimed' \in [Users -> Nat]
           /\ Settled(u)
           /\ \A v \in Users \ {u} : /\ paid'[v] = paid[v] /\ accrued'[v] = accrued[v]
                                     /\ claimed'[v] = claimed[v]
<1>1. Earned(u) \in Nat /\ UpdatedReward \in Nat
  BY PendingBounds, UpdatedGrows
<1>2. /\ paid \in [Users -> Nat] /\ accrued \in [Users -> Nat]
      /\ claimed \in [Users -> Nat]
  BY DEF BooksInv, RewardsTypeOK
<1>3. /\ paid' = [paid EXCEPT ![u] = UpdatedReward]
      /\ accrued' = [accrued EXCEPT ![u] = Earned(u)]
      /\ claimed' = claimed
  BY DEF Credit
<1> QED BY <1>1, <1>2, <1>3 DEF Settled

LEMMA StakeSettles ==
    ASSUME BooksInv, NEW u \in Users, NEW amount \in StakeAmounts,
           Stake(u, amount) \/ Unstake(u, amount)
    PROVE  CallShape
<1>1. UpdateReward /\ Credit(u) /\ UNCHANGED claimed /\ amount \in Nat
  BY RewardsAssumption DEF Stake, Unstake
<1>2. /\ stake' \in [Users -> Nat]
      /\ \A v \in Users \ {u} : stake'[v] = stake[v]
  BY <1>1 DEF Stake, Unstake, BooksInv, RewardsTypeOK
<1>3. /\ paid' \in [Users -> Nat] /\ accrued' \in [Users -> Nat]
      /\ claimed' \in [Users -> Nat]
      /\ Settled(u)
      /\ \A v \in Users \ {u} : /\ paid'[v] = paid[v] /\ accrued'[v] = accrued[v]
                                /\ claimed'[v] = claimed[v]
  BY <1>1, CreditSettles
<1>4. \A v \in Users \ {u} : Untouched(v)
  BY <1>2, <1>3, Zenon DEF Untouched
<1> QED BY <1>1, <1>2, <1>3, <1>4 DEF CallShape, UserTypes

LEMMA ClaimSettles ==
    ASSUME BooksInv, NEW u \in Users, Claim(u)
    PROVE  CallShape
<1>1. UpdateReward /\ UNCHANGED stake
  BY DEF Claim
<1>2. Earned(u) \in Nat /\ UpdatedReward \in Nat
  BY PendingBounds, UpdatedGrows
<1>3. /\ stake \in [Users -> Nat] /\ paid \in [Users -> Nat]
      /\ accrued \in [Users -> Nat] /\ claimed \in [Users -> Nat]
  BY DEF BooksInv, RewardsTypeOK
<1>4. CASE ClaimNothing(u)
  BY <1>1, <1>3, <1>4 DEF ClaimNothing, CallShape, UserTypes, Untouched
<1>5. CASE ClaimAll(u)
  <2>1. /\ accrued' = [accrued EXCEPT ![u] = 0]
        /\ paid' = [paid EXCEPT ![u] = UpdatedReward]
        /\ claimed' = [claimed EXCEPT ![u] = claimed[u] + Earned(u)]
    BY <1>5 DEF ClaimAll, Claimed
  <2>2. UserTypes
    BY <1>1, <1>2, <1>3, <2>1 DEF UserTypes
  <2>3. Settled(u)
    BY <1>2, <1>3, <2>1 DEF Settled
  <2>4. \A v \in Users \ {u} : Untouched(v)
    BY <1>1, <1>3, <2>1 DEF Untouched
  <2> QED BY <1>1, <2>2, <2>3, <2>4 DEF CallShape
<1> QED BY <1>4, <1>5 DEF Claim

LEMMA QuerySettles ==
    ASSUME BooksInv, NEW u \in Users, QueryEarned(u)
    PROVE  CallShape
BY DEF QueryEarned, CallShape, UserTypes, Untouched, BooksInv, RewardsTypeOK

LEMMA CallSettles ==
    ASSUME BooksInv, RewardsCall
    PROVE  CallShape
BY NotifySettles, StakeSettles, ClaimSettles, QuerySettles DEF RewardsCall

\* After a call the accumulator is up to date.
LEMMA UpToDate ==
    ASSUME BooksInv, UpdateReward, sequence' = sequence
    PROVE  /\ rewardPerToken' = UpdatedReward
           /\ lastUpdate' = sequence
           /\ UpdatedReward' = UpdatedReward
<1>1. rewardPerToken' = UpdatedReward /\ lastUpdate' = sequence
  BY DEF UpdateReward
<1>2. sequence \in Nat
  BY DEF BooksInv, RewardsTypeOK
<1>3. ~ AccruesNow'
  BY <1>1, <1>2 DEF AccruesNow
<1> QED BY <1>1, <1>3 DEF UpdatedReward

----------------------------------------------------------------------------
\* The books.

LEMMA InitBooks == RewardsInit => BooksInv
<1> SUFFICES ASSUME RewardsInit PROVE BooksInv
  OBVIOUS
<1>1. RewardsTypeOK
  BY DEF RewardsInit, RewardsTypeOK
<1>2. StakesAddUp
  BY RewardsAssumption, TotalOfZeros DEF RewardsInit, StakesAddUp, Users
<1>3. lastUpdate <= sequence /\ \A u \in Users : paid[u] <= rewardPerToken
  BY DEF RewardsInit
<1> QED BY <1>1, <1>2, <1>3 DEF BooksInv

\* What the calls do to the rest of the types.
LEMMA CallTypes ==
    ASSUME BooksInv, RewardsCall
    PROVE  /\ rewardPool' \in Nat /\ rewardRate' \in Nat
           /\ notified' \in Nat
<1>1. rewardPool \in Nat /\ rewardRate \in Nat /\ notified \in Nat
  BY DEF BooksInv, RewardsTypeOK
<1>2. ASSUME NEW amount \in NotifyAmounts, NotifyReward(amount)
      PROVE  rewardPool' \in Nat /\ rewardRate' \in Nat /\ notified' \in Nat
  <2>1. amount \in Nat /\ SCALE \in Nat /\ DURATION \in Nat \ {0}
    BY <1>2, RewardsAssumption DEF NotifyReward, RewardNotified
  <2>2. amount * SCALE \in Nat
    BY <2>1, ProductOfNats
  <2>3. (amount * SCALE) \div DURATION \in Nat
    BY <2>1, <2>2, QuotientBounds
  <2> QED BY <1>1, <1>2, <2>1, <2>3 DEF NotifyReward, RewardNotified
<1>3. ASSUME NEW u \in Users, Claim(u)
      PROVE  rewardPool' \in Nat /\ rewardRate' \in Nat /\ notified' \in Nat
  <2>1. Earned(u) \in Nat
    BY PendingBounds
  <2> QED BY <1>1, <1>3, <2>1 DEF Claim, ClaimNothing, ClaimAll, Claimed
<1> QED BY <1>1, <1>2, <1>3 DEF RewardsCall, Stake, Unstake, QueryEarned

\* The total follows the stakes.
LEMMA CallStakes ==
    ASSUME BooksInv, RewardsCall
    PROVE  totalStaked' \in Nat /\ StakesAddUp'
<1>1. /\ NumUsers \in Nat /\ stake \in [1..NumUsers -> Int]
      /\ stake \in [1..NumUsers -> Nat]
      /\ totalStaked \in Nat /\ totalStaked = Total(stake, NumUsers)
  BY RewardsAssumption DEF BooksInv, RewardsTypeOK, StakesAddUp, Users
<1>2. ASSUME NEW u \in Users, NEW amount \in StakeAmounts, Stake(u, amount)
      PROVE  totalStaked' \in Nat /\ StakesAddUp'
  <2>1. amount \in Nat /\ u \in 1..NumUsers
    BY <1>2, RewardsAssumption DEF Stake, Users
  <2>2. Adds(stake', stake, u, amount) /\ totalStaked' = totalStaked + amount
    BY <1>2 DEF Stake, Adds
  <2>3. Total(stake', NumUsers) = Total(stake, NumUsers) + amount
    BY <1>1, <2>1, <2>2, TotalOfAddition
  <2> QED BY <1>1, <2>1, <2>2, <2>3 DEF StakesAddUp
<1>3. ASSUME NEW u \in Users, NEW amount \in StakeAmounts, Unstake(u, amount)
      PROVE  totalStaked' \in Nat /\ StakesAddUp'
  <2>1. /\ amount \in Nat /\ u \in 1..NumUsers /\ -amount \in Int
        /\ stake[u] >= amount /\ stake[u] \in Nat
    BY <1>1, <1>3, RewardsAssumption DEF Unstake, Users
  <2>2. Adds(stake', stake, u, -amount) /\ totalStaked' = totalStaked - amount
    BY <1>1, <1>3, <2>1 DEF Unstake, Adds
  <2>3. Total(stake', NumUsers) = Total(stake, NumUsers) + (-amount)
    BY <1>1, <2>1, <2>2, TotalOfAddition
  <2>4. stake[u] <= totalStaked
    BY <1>1, <2>1, TotalDominates
  <2> QED BY <1>1, <2>1, <2>2, <2>3, <2>4 DEF StakesAddUp
<1>4. CASE UNCHANGED <<stake, totalStaked>>
  BY <1>1, <1>4 DEF StakesAddUp
<1> QED BY <1>2, <1>3, <1>4 DEF RewardsCall, NotifyReward, RewardNotified, Claim, QueryEarned

LEMMA CallBooks ==
    ASSUME BooksInv, RewardsCall, UNCHANGED <<sequence, emitted, entitled>>
    PROVE  BooksInv'
<1>1. CallShape
  BY CallSettles
<1>2. /\ rewardPerToken' = UpdatedReward /\ lastUpdate' = sequence
      /\ UserTypes /\ sequence' = sequence
  BY <1>1, UpToDate DEF CallShape
<1>3. UpdatedReward \in Nat /\ rewardPerToken <= UpdatedReward
  BY UpdatedGrows
<1>4. sequence \in Nat /\ emitted' \in Nat /\ entitled' \in [Users -> Nat]
  BY DEF BooksInv, RewardsTypeOK
<1>5. RewardsTypeOK'
  BY <1>2, <1>3, <1>4, CallTypes, CallStakes DEF RewardsTypeOK, UserTypes
<1>6. ASSUME NEW u \in Users
      PROVE  paid'[u] <= rewardPerToken'
  <2>1. paid[u] \in Nat /\ rewardPerToken \in Nat /\ paid[u] <= rewardPerToken
    BY DEF BooksInv, RewardsTypeOK
  <2>2. paid'[u] = paid[u] \/ paid'[u] = UpdatedReward
    BY <1>1 DEF CallShape, Untouched, Settled
  <2> QED BY <1>2, <1>3, <2>1, <2>2
<1> QED BY <1>2, <1>4, <1>5, <1>6, CallStakes DEF BooksInv

\* What a ledger brings a user is a natural.
LEMMA SharesAreNat ==
    ASSUME BooksInv, NEW u \in Users
    PROVE  ShareOfLedger(u) \in Nat
<1>1. /\ stake[u] \in Nat /\ totalStaked \in Nat /\ rewardRate \in Nat /\ Parts \in Nat
  BY RewardsAssumption DEF BooksInv, RewardsTypeOK
<1>2. CASE totalStaked = 0
  BY <1>2 DEF ShareOfLedger
<1>3. CASE totalStaked # 0
  <2>1. Parts * rewardRate * stake[u] \in Nat
    BY <1>1, ProductOfNats
  <2>2. (Parts * rewardRate * stake[u]) \div totalStaked \in Nat
    BY <1>1, <1>3, <2>1, QuotientBounds
  <2> QED BY <1>3, <2>2 DEF ShareOfLedger
<1> QED BY <1>2, <1>3

LEMMA LedgerBooks ==
    ASSUME BooksInv, CloseRewardsLedger
    PROVE  BooksInv'
<1>1. /\ stake \in [Users -> Nat] /\ totalStaked \in Nat /\ rewardRate \in Nat
      /\ Parts \in Nat /\ entitled \in [Users -> Nat] /\ emitted \in Nat
      /\ sequence \in Nat /\ lastUpdate \in Nat /\ lastUpdate <= sequence
  BY RewardsAssumption DEF BooksInv, RewardsTypeOK
<1>2. \A u \in Users : ShareOfLedger(u) \in Nat
  BY SharesAreNat
<1>3. entitled' \in [Users -> Nat]
  <2>1. entitled' = [u \in Users |-> entitled[u] + ShareOfLedger(u)]
    BY DEF CloseRewardsLedger
  <2> QED BY <1>1, <1>2, <2>1
<1>4. emitted' \in Nat /\ sequence' \in Nat /\ lastUpdate' <= sequence'
  BY <1>1 DEF CloseRewardsLedger, rewardsStorage
<1> QED BY <1>3, <1>4 DEF BooksInv, RewardsTypeOK, StakesAddUp, CloseRewardsLedger, rewardsStorage

LEMMA NextBooks == BooksInv /\ [RewardsNext]_rewardsVars => BooksInv'
<1> SUFFICES ASSUME BooksInv, [RewardsNext]_rewardsVars PROVE BooksInv'
  OBVIOUS
<1>1. CASE RewardsCall /\ UNCHANGED <<sequence, emitted, entitled>>
  BY <1>1, CallBooks
<1>2. CASE CloseRewardsLedger
  BY <1>2, LedgerBooks
<1>3. CASE UNCHANGED rewardsVars
  BY <1>3 DEF rewardsVars, rewardsStorage, histories, BooksInv, RewardsTypeOK, StakesAddUp
<1> QED BY <1>1, <1>2, <1>3 DEF RewardsNext

LEMMA SpecBooks == RewardsSpec => []BooksInv
<1>1. RewardsInit => BooksInv
  BY InitBooks
<1>2. BooksInv /\ [RewardsNext]_rewardsVars => BooksInv'
  BY NextBooks
<1> QED BY <1>1, <1>2, PTL DEF RewardsSpec

\* The types hold: no amount and no accumulator of the rewards contract is ever
\* negative, for any number of users and any amounts.
THEOREM RewardsTypes == RewardsSpec => []RewardsTypeOK
<1>1. BooksInv => RewardsTypeOK
  BY DEF BooksInv
<1> QED BY <1>1, SpecBooks, PTL

\* The total of the stakes is their sum after any sequence of calls.
THEOREM StakesAlwaysAddUp == RewardsSpec => []StakesAddUp
<1>1. BooksInv => StakesAddUp
  BY DEF BooksInv
<1> QED BY <1>1, SpecBooks, PTL

----------------------------------------------------------------------------
\* Calls move no reward.

LEMMA CallKeepsEarned ==
    ASSUME BooksInv, RewardsCall, UNCHANGED <<sequence, emitted, entitled>>, NEW u \in Users
    PROVE  Earned(u)' + claimed'[u] = Earned(u) + claimed[u]
<1>1. CallShape
  BY CallSettles
<1>2. /\ rewardPerToken' = UpdatedReward /\ lastUpdate' = sequence
      /\ UpdatedReward' = UpdatedReward
  BY <1>1, UpToDate DEF CallShape
<1>3. /\ UpdatedReward \in Nat /\ Earned(u) \in Nat /\ claimed[u] \in Nat
      /\ SCALE \in Nat \ {0}
  BY UpdatedGrows, PendingBounds, RewardsAssumption DEF BooksInv, RewardsTypeOK
<1>4. stake'[u] \in Nat /\ accrued'[u] \in Nat /\ claimed'[u] \in Nat
  BY <1>1 DEF CallShape, UserTypes
<1>5. CASE Untouched(u)
  <2>1. Pending(u)' = Pending(u)
    BY <1>2, <1>5 DEF Pending, Untouched
  <2> QED BY <1>5, <2>1 DEF Earned, Untouched
<1>6. CASE Settled(u)
  <2>1. UpdatedReward' - paid'[u] = 0
    BY <1>2, <1>3, <1>6 DEF Settled
  <2>2. stake'[u] * 0 = 0 /\ 0 \div SCALE = 0
    BY <1>3, <1>4
  <2>3. Pending(u)' = 0
    BY <2>1, <2>2 DEF Pending
  <2>4. Earned(u)' = accrued'[u]
    BY <1>4, <2>3 DEF Earned
  <2> QED BY <1>3, <1>4, <1>6, <2>4 DEF Settled
<1> QED BY <1>1, <1>5, <1>6 DEF CallShape

\* Whatever anybody calls, nobody's earned and paid rewards change; only ledgers
\* add to them.
THEOREM RewardsMoveOnlyWithLedgers == RewardsSpec => CallsMoveNoReward
<1> DEFINE Kept == sequence' = sequence =>
              \A u \in Users : Earned(u)' + claimed'[u] = Earned(u) + claimed[u]
<1>1. ASSUME BooksInv, [RewardsNext]_rewardsVars
      PROVE  [Kept]_rewardsVars
  <2>1. CASE RewardsCall /\ UNCHANGED <<sequence, emitted, entitled>>
    BY <1>1, <2>1, CallKeepsEarned
  <2>2. CASE CloseRewardsLedger
    <3>1. sequence \in Nat
      BY <1>1 DEF BooksInv, RewardsTypeOK
    <3>2. sequence' = sequence + 1
      BY <2>2 DEF CloseRewardsLedger
    <3>3. sequence' # sequence
      BY <3>1, <3>2
    <3> QED BY <3>3
  <2> QED BY <1>1, <2>1, <2>2 DEF RewardsNext
<1> HIDE DEF Kept
<1>2. RewardsSpec => [][Kept]_rewardsVars
  BY <1>1, SpecBooks, PTL DEF RewardsSpec
<1> QED BY <1>2 DEF CallsMoveNoReward, Kept

----------------------------------------------------------------------------
\* Rewards stay within the emission.  What each user has got or can still get
\* for the ledgers up to x on the accumulator, in units of 1/SCALE, unrounded.

Potential(cl, ac, st, pd, x) ==
    [u \in Users |-> SCALE * (cl[u] + ac[u]) + st[u] * (x - pd[u])]

PotentialAt(x) == Potential(claimed, accrued, stake, paid, x)

\* What the ledgers since the last update will add.
Unaccrued == IF totalStaked = 0 THEN 0 ELSE (sequence - lastUpdate) * rewardRate

EmissionInv == Total(PotentialAt(rewardPerToken), NumUsers) + Unaccrued <= emitted

LEMMA PotentialIsInt ==
    ASSUME NEW cl \in [Users -> Nat], NEW ac \in [Users -> Nat],
           NEW st \in [Users -> Nat], NEW pd \in [Users -> Nat], NEW x \in Nat
    PROVE  /\ Potential(cl, ac, st, pd, x) \in [1..NumUsers -> Int]
           /\ \A u \in Users : /\ SCALE * (cl[u] + ac[u]) \in Int
                               /\ st[u] * (x - pd[u]) \in Int
<1>1. ASSUME NEW u \in Users
      PROVE  SCALE * (cl[u] + ac[u]) \in Int /\ st[u] * (x - pd[u]) \in Int
  <2>1. /\ cl[u] + ac[u] \in Int /\ SCALE \in Int
        /\ st[u] \in Int /\ x - pd[u] \in Int
    BY RewardsAssumption
  <2>2. \A p, q \in Int : p * q \in Int
    OBVIOUS
  <2> QED BY <2>1, <2>2
<1> QED BY <1>1 DEF Potential, Users

\* Bringing the accumulator up to date hands out no more than is unaccrued.
LEMMA UpdateWithinEmission ==
    ASSUME BooksInv, EmissionInv
    PROVE  /\ PotentialAt(UpdatedReward) \in [1..NumUsers -> Int]
           /\ Total(PotentialAt(UpdatedReward), NumUsers) \in Int
           /\ Total(PotentialAt(UpdatedReward), NumUsers) <= emitted
<1> DEFINE d == UpdatedReward - rewardPerToken
           f == PotentialAt(rewardPerToken)
           h == PotentialAt(UpdatedReward)
<1>1. /\ claimed \in [Users -> Nat] /\ accrued \in [Users -> Nat]
      /\ stake \in [Users -> Nat] /\ paid \in [Users -> Nat]
      /\ rewardPerToken \in Nat /\ UpdatedReward \in Nat
      /\ NumUsers \in Nat /\ d \in Int
      /\ totalStaked \in Nat /\ sequence \in Nat /\ lastUpdate \in Nat
      /\ rewardRate \in Nat /\ emitted \in Nat /\ lastUpdate <= sequence
  BY UpdatedGrows, RewardsAssumption DEF BooksInv, RewardsTypeOK
<1>2. /\ f \in [1..NumUsers -> Int] /\ h \in [1..NumUsers -> Int]
      /\ \A u \in Users : /\ SCALE * (claimed[u] + accrued[u]) \in Int
                          /\ stake[u] * (rewardPerToken - paid[u]) \in Int
                          /\ stake[u] * (UpdatedReward - paid[u]) \in Int
  BY <1>1, PotentialIsInt DEF PotentialAt
<1>3. ASSUME NEW u \in Users
      PROVE  h[u] = f[u] + d * stake[u]
  <2> DEFINE g == SCALE * (claimed[u] + accrued[u])
             x == stake[u] * (rewardPerToken - paid[u])
             y == stake[u] * (UpdatedReward - paid[u])
             z == d * stake[u]
  <2>1. h[u] = g + y /\ f[u] = g + x /\ g \in Int /\ x \in Int /\ y \in Int
    BY <1>2 DEF PotentialAt, Potential
  <2>2. y = x + z /\ z \in Int
    <3> DEFINE e == rewardPerToken - paid[u]
    <3>1. e \in Int /\ d \in Int /\ stake[u] \in Int /\ UpdatedReward - paid[u] = e + d
      BY <1>1
    <3>2. stake[u] * (e + d) = stake[u] * e + stake[u] * d /\ stake[u] * d \in Int
      BY <3>1, ProductOverSum
    <3>3. stake[u] * d = d * stake[u]
      BY <3>1
    <3> QED BY <3>1, <3>2, <3>3, Zenon
  <2> HIDE DEF g, x, y, z, f, h
  <2>3. h[u] = f[u] + z
    BY <2>1, <2>2
  <2> QED BY <2>3 DEF z
<1>4. Combines(h, f, stake, d, NumUsers)
  BY <1>3 DEF Combines, Users
<1>5. /\ Total(f, NumUsers) \in Int
      /\ Total(h, NumUsers) = Total(f, NumUsers) + d * Total(stake, NumUsers)
  <2>1. stake \in [1..NumUsers -> Int]
    BY <1>1 DEF Users
  <2> HIDE DEF f, h, d
  <2> QED BY <1>1, <1>2, <1>4, <2>1, TotalOfCombination
<1>6. totalStaked = Total(stake, NumUsers)
  BY DEF BooksInv, StakesAddUp
<1>7. d * totalStaked \in Int /\ d * totalStaked <= Unaccrued /\ Unaccrued \in Int
  <2>1. CASE totalStaked = 0
    <3>1. d * totalStaked = 0
      BY <1>1, <2>1
    <3> QED BY <2>1, <3>1 DEF Unaccrued
  <2>2. CASE totalStaked # 0
    <3>1. totalStaked * d <= (sequence - lastUpdate) * rewardRate
      BY <2>2, UpdatedGrows
    <3>2. /\ totalStaked * d = d * totalStaked /\ d * totalStaked \in Int
      BY <1>1
    <3>3. (sequence - lastUpdate) * rewardRate \in Int
      BY <1>1
    <3> QED BY <2>2, <3>1, <3>2, <3>3 DEF Unaccrued
  <2> QED BY <2>1, <2>2
<1>8. Total(f, NumUsers) + Unaccrued <= emitted
  BY DEF EmissionInv
<1>9. Total(h, NumUsers) = Total(f, NumUsers) + d * totalStaked
  BY <1>5, <1>6, Zenon
<1>10. Total(h, NumUsers) \in Int /\ Total(h, NumUsers) <= emitted
  <2> DEFINE z == d * totalStaked
  <2>1. z \in Int /\ z <= Unaccrued /\ Total(h, NumUsers) = Total(f, NumUsers) + z
    BY <1>7, <1>9
  <2> HIDE DEF z, f, h
  <2> QED BY <1>1, <1>5, <1>7, <1>8, <2>1
<1> QED BY <1>2, <1>10

\* Settling rounds down, so it does not raise anybody's potential.
LEMMA SettlingLowers ==
    ASSUME BooksInv, CallShape, NEW u \in Users
    PROVE  Potential(claimed', accrued', stake', paid', UpdatedReward)[u]
             <= PotentialAt(UpdatedReward)[u]
<1>1. /\ claimed \in [Users -> Nat] /\ accrued \in [Users -> Nat]
      /\ stake \in [Users -> Nat] /\ paid \in [Users -> Nat]
      /\ UpdatedReward \in Nat /\ SCALE \in Nat \ {0}
  BY UpdatedGrows, RewardsAssumption DEF BooksInv, RewardsTypeOK
<1>2. UserTypes
  BY DEF CallShape
<1>3. CASE Untouched(u)
  <2>1. Potential(claimed', accrued', stake', paid', UpdatedReward)[u]
          = PotentialAt(UpdatedReward)[u]
    BY <1>3 DEF Untouched, Potential, PotentialAt
  <2>2. PotentialAt(UpdatedReward)[u] \in Int
    <3>1. PotentialAt(UpdatedReward) \in [1..NumUsers -> Int]
      BY <1>1, PotentialIsInt DEF PotentialAt
    <3> QED BY <3>1 DEF Users
  <2> QED BY <2>1, <2>2
<1>4. CASE Settled(u)
  <2> DEFINE c == claimed[u] + accrued[u]
             y == stake[u] * (UpdatedReward - paid[u])
             w == SCALE * Pending(u)
  <2>1. /\ Pending(u) \in Nat /\ w <= y
        /\ claimed'[u] + accrued'[u] = c + Pending(u)
    BY <1>1, <1>4, PendingBounds DEF Settled
  <2>2. c \in Int /\ SCALE \in Int /\ y \in Int
    BY <1>1, PotentialIsInt
  <2>3. /\ SCALE * (c + Pending(u)) = SCALE * c + w
        /\ w \in Int /\ SCALE * c \in Int
    BY <2>1, <2>2, ProductOverSum
  <2>4. stake'[u] * (UpdatedReward - paid'[u]) = 0
    <3>1. stake'[u] \in Nat /\ UpdatedReward - paid'[u] = 0
      BY <1>1, <1>2, <1>4 DEF UserTypes, Settled
    <3> QED BY <3>1
  <2>5. Potential(claimed', accrued', stake', paid', UpdatedReward)[u]
          = SCALE * (c + Pending(u)) + 0
    <3> HIDE DEF c
    <3> QED BY <2>1, <2>4, Zenon DEF Potential
  <2>6. PotentialAt(UpdatedReward)[u] = SCALE * c + y
    BY DEF PotentialAt, Potential
  <2> DEFINE v == SCALE * c
             l == Potential(claimed', accrued', stake', paid', UpdatedReward)[u]
             r == PotentialAt(UpdatedReward)[u]
  <2>7. v \in Int /\ l = (v + w) + 0 /\ r = v + y
    BY <2>3, <2>5, <2>6
  <2>8. l <= r
    <3> HIDE DEF v, w, y, l, r
    <3> QED BY <2>1, <2>2, <2>3, <2>7
  <2> QED BY <2>8
<1> QED BY <1>3, <1>4 DEF CallShape

LEMMA CallEmission ==
    ASSUME BooksInv, EmissionInv, RewardsCall, UNCHANGED <<sequence, emitted, entitled>>
    PROVE  EmissionInv'
<1>1. CallShape
  BY CallSettles
<1>2. rewardPerToken' = UpdatedReward /\ lastUpdate' = sequence /\ sequence' = sequence
  BY <1>1, UpToDate DEF CallShape
<1> DEFINE g == Potential(claimed', accrued', stake', paid', UpdatedReward)
           h == PotentialAt(UpdatedReward)
<1>3. /\ h \in [1..NumUsers -> Int] /\ Total(h, NumUsers) \in Int
      /\ Total(h, NumUsers) <= emitted
  BY UpdateWithinEmission
<1>4. g \in [1..NumUsers -> Int]
  BY <1>1, UpdatedGrows, PotentialIsInt DEF CallShape, UserTypes
<1>5. \A u \in 1..NumUsers : g[u] <= h[u]
  BY <1>1, SettlingLowers DEF Users
<1>6. NumUsers \in Nat
  BY RewardsAssumption
<1>7. Total(g, NumUsers) <= Total(h, NumUsers) /\ Total(g, NumUsers) \in Int
  <2> HIDE DEF g, h
  <2> QED BY <1>3, <1>4, <1>5, <1>6, TotalIsMonotone, TotalIsInt
<1>8. Unaccrued' = 0
  <2>1. rewardRate' \in Nat /\ sequence \in Nat
    BY CallTypes DEF BooksInv, RewardsTypeOK
  <2>2. sequence' - lastUpdate' = 0
    BY <1>2, <2>1
  <2>3. 0 * rewardRate' = 0
    <3>1. \A q \in Nat : 0 * q = 0
      OBVIOUS
    <3> QED BY <2>1, <3>1, Zenon
  <2> QED BY <2>2, <2>3 DEF Unaccrued
<1>9. PotentialAt(rewardPerToken)' = g
  BY <1>2 DEF PotentialAt, Potential
<1>10. emitted' = emitted /\ emitted \in Nat
  BY DEF BooksInv, RewardsTypeOK
<1>11. Total(g, NumUsers) + 0 <= emitted
  <2> HIDE DEF g, h
  <2> QED BY <1>3, <1>7, <1>10
<1> QED BY <1>8, <1>9, <1>10, <1>11 DEF EmissionInv

LEMMA LedgerEmission ==
    ASSUME BooksInv, EmissionInv, CloseRewardsLedger
    PROVE  EmissionInv'
<1>1. /\ totalStaked \in Nat /\ sequence \in Nat /\ lastUpdate \in Nat
      /\ rewardRate \in Nat /\ emitted \in Nat
      /\ claimed \in [Users -> Nat] /\ accrued \in [Users -> Nat]
      /\ stake \in [Users -> Nat] /\ paid \in [Users -> Nat]
      /\ rewardPerToken \in Nat /\ NumUsers \in Nat
  BY RewardsAssumption DEF BooksInv, RewardsTypeOK
<1> DEFINE t == Total(PotentialAt(rewardPerToken), NumUsers)
<1>2. t \in Int
  BY <1>1, PotentialIsInt, TotalIsInt DEF PotentialAt
<1>3. /\ UNCHANGED <<claimed, accrued, stake, paid, rewardPerToken>>
      /\ UNCHANGED <<totalStaked, lastUpdate, rewardRate>>
      /\ sequence' = sequence + 1
      /\ emitted' = IF totalStaked = 0 THEN emitted ELSE emitted + rewardRate
  BY DEF CloseRewardsLedger, rewardsStorage
<1>4. t' = t
  BY <1>3 DEF PotentialAt, Potential
<1>5. CASE totalStaked = 0
  BY <1>3, <1>4, <1>5 DEF EmissionInv, Unaccrued
<1>6. CASE totalStaked # 0
  <2> DEFINE e == (sequence - lastUpdate) * rewardRate
  <2>1. (sequence' - lastUpdate') * rewardRate' = e + rewardRate /\ e \in Int
    <3> DEFINE k == sequence - lastUpdate
    <3>1. sequence' - lastUpdate' = k + 1 /\ k \in Int
      BY <1>1, <1>3
    <3>2. /\ rewardRate * (k + 1) = rewardRate * k + rewardRate * 1
          /\ rewardRate * k \in Int
      BY <1>1, <3>1, ProductOverSum
    <3> HIDE DEF k
    <3>3. (k + 1) * rewardRate = k * rewardRate + rewardRate /\ k * rewardRate \in Int
      BY <1>1, <3>1, <3>2
    <3> QED BY <1>3, <3>1, <3>3 DEF k
  <2>2. Unaccrued' = e + rewardRate /\ Unaccrued = e
    BY <1>3, <1>6, <2>1 DEF Unaccrued
  <2>3. t + e <= emitted
    BY <2>2 DEF EmissionInv
  <2>4. t' + Unaccrued' <= emitted'
    <3> HIDE DEF t, e
    <3> QED BY <1>1, <1>2, <1>3, <1>4, <1>6, <2>1, <2>2, <2>3
  <2> QED BY <2>4 DEF EmissionInv
<1> QED BY <1>5, <1>6

LEMMA InitEmission == RewardsInit => EmissionInv
<1> SUFFICES ASSUME RewardsInit PROVE EmissionInv
  OBVIOUS
<1>1. SCALE * (0 + 0) + 0 * (0 - 0) = 0
  BY RewardsAssumption
<1>2. PotentialAt(rewardPerToken) = [u \in 1..NumUsers |-> 0]
  BY <1>1 DEF RewardsInit, PotentialAt, Potential, Users
<1>3. Total(PotentialAt(rewardPerToken), NumUsers) = 0
  BY <1>2, RewardsAssumption, TotalOfZeros
<1> QED BY <1>3 DEF RewardsInit, EmissionInv, Unaccrued

LEMMA SpecEmission == RewardsSpec => [](BooksInv /\ EmissionInv)
<1>1. RewardsInit => BooksInv /\ EmissionInv
  BY InitBooks, InitEmission
<1>2. BooksInv /\ EmissionInv /\ [RewardsNext]_rewardsVars => (BooksInv /\ EmissionInv)'
  <2> SUFFICES ASSUME BooksInv, EmissionInv, [RewardsNext]_rewardsVars
               PROVE  EmissionInv'
    BY NextBooks
  <2>1. CASE RewardsCall /\ UNCHANGED <<sequence, emitted, entitled>>
    BY <2>1, CallEmission
  <2>2. CASE CloseRewardsLedger
    BY <2>2, LedgerEmission
  <2>3. CASE UNCHANGED rewardsVars
    BY <2>3 DEF rewardsVars, rewardsStorage, histories, EmissionInv, Unaccrued, PotentialAt, Potential
  <2> QED BY <2>1, <2>2, <2>3 DEF RewardsNext
<1> QED BY <1>1, <1>2, PTL DEF RewardsSpec

Got == [u \in Users |-> claimed[u] + Earned(u)]

LEMMA EmissionImplies == BooksInv /\ EmissionInv => EarnedWithinEmission
<1> SUFFICES ASSUME BooksInv, EmissionInv PROVE EarnedWithinEmission
  OBVIOUS
<1> DEFINE z == [u \in 1..NumUsers |-> 0]
           h == [u \in 1..NumUsers |-> SCALE * Got[u]]
           r == PotentialAt(UpdatedReward)
<1>1. /\ claimed \in [Users -> Nat] /\ accrued \in [Users -> Nat]
      /\ stake \in [Users -> Nat] /\ paid \in [Users -> Nat]
      /\ UpdatedReward \in Nat /\ SCALE \in Int /\ NumUsers \in Nat /\ emitted \in Nat
  BY UpdatedGrows, RewardsAssumption DEF BooksInv, RewardsTypeOK
<1>2. Got \in [1..NumUsers -> Int]
  BY <1>1, PendingBounds DEF Got, Users
<1>3. z \in [1..NumUsers -> Int] /\ h \in [1..NumUsers -> Int]
  <2>1. \A p, q \in Int : p * q \in Int
    OBVIOUS
  <2> QED BY <1>1, <1>2, <2>1
<1>4. Combines(h, z, Got, SCALE, NumUsers)
  <2>1. ASSUME NEW u \in 1..NumUsers
        PROVE  h[u] = z[u] + SCALE * Got[u]
    <3>1. h[u] \in Int /\ h[u] = SCALE * Got[u] /\ z[u] = 0
      BY <1>3
    <3> HIDE DEF h, z
    <3>2. h[u] = z[u] + h[u]
      BY <3>1
    <3> QED BY <3>1, <3>2, Zenon
  <2> HIDE DEF h, z
  <2> QED BY <2>1 DEF Combines
<1>5. Total(h, NumUsers) = Total(z, NumUsers) + SCALE * Total(Got, NumUsers)
  <2> HIDE DEF h, z
  <2>1. SCALE \in Int /\ NumUsers \in Nat
    BY <1>1
  <2>2. ASSUME NEW d \in Int, Combines(h, z, Got, d, NumUsers)
        PROVE  Total(h, NumUsers) = Total(z, NumUsers) + d * Total(Got, NumUsers)
    BY <1>2, <1>3, <2>1, <2>2, TotalOfCombination, SMTT(20)
  <2> QED BY <1>4, <2>1, <2>2, Zenon
<1>6. Total(z, NumUsers) = 0
  BY <1>1, TotalOfZeros
<1>7. r \in [1..NumUsers -> Int] /\ Total(r, NumUsers) \in Int
      /\ Total(r, NumUsers) <= emitted
  BY UpdateWithinEmission
<1>8. ASSUME NEW u \in 1..NumUsers
      PROVE  h[u] <= r[u]
  <2> DEFINE c == claimed[u] + accrued[u]
             y == stake[u] * (UpdatedReward - paid[u])
             w == SCALE * Pending(u)
             v == SCALE * c
  <2>0. u \in Users
    BY DEF Users
  <2>1. Pending(u) \in Nat /\ w <= y /\ Got[u] = c + Pending(u)
    BY <1>1, <2>0, PendingBounds DEF Got
  <2>2. c \in Int /\ y \in Int
    BY <1>1, <2>0, PotentialIsInt
  <2>3. SCALE * (c + Pending(u)) = v + w /\ v \in Int /\ w \in Int
    BY <1>1, <2>1, <2>2, ProductOverSum
  <2>4. h[u] = v + w
    <3> HIDE DEF c, v, w
    <3> QED BY <2>1, <2>3
  <2>5. r[u] = v + y
    BY <2>0 DEF PotentialAt, Potential
  <2> HIDE DEF c, y, w, v, h, r
  <2> QED BY <2>1, <2>2, <2>3, <2>4, <2>5
<1>9. Total(h, NumUsers) <= Total(r, NumUsers) /\ Total(h, NumUsers) \in Int
  <2> HIDE DEF h, r
  <2> QED BY <1>1, <1>3, <1>7, <1>8, TotalIsMonotone, TotalIsInt
<1>10. TotalEarned = Total(Got, NumUsers)
  BY DEF TotalEarned, Got
<1>11. SCALE * Total(Got, NumUsers) = Total(h, NumUsers)
  <2> DEFINE q == SCALE * Total(Got, NumUsers)
  <2>1. q \in Int
    <3>1. Total(Got, NumUsers) \in Int
      BY <1>1, <1>2, TotalIsInt
    <3> QED BY <1>1, <3>1, ProductOverSum
  <2>2. Total(h, NumUsers) = Total(z, NumUsers) + q
    BY <1>5
  <2> HIDE DEF q, h, z
  <2>3. Total(h, NumUsers) = q
    BY <1>6, <2>1, <2>2
  <2> QED BY <2>3 DEF q
<1>12. Total(h, NumUsers) <= emitted
  <2> HIDE DEF h, r
  <2> QED BY <1>1, <1>7, <1>9
<1> QED BY <1>10, <1>11, <1>12, Zenon DEF EarnedWithinEmission

\* However calls interleave and round, all users together never earn more than
\* the rates of the ledgers in which somebody had a stake.
THEOREM EmissionCoversEarned == RewardsSpec => []EarnedWithinEmission
BY EmissionImplies, SpecEmission, PTL

----------------------------------------------------------------------------
\* The pool: what was notified and not yet claimed.

PoolInv == rewardPool + Total(claimed, NumUsers) = notified

LEMMA NextPool ==
    ASSUME BooksInv, PoolInv, [RewardsNext]_rewardsVars
    PROVE  PoolInv'
<1>1. /\ NumUsers \in Nat /\ claimed \in [1..NumUsers -> Int]
      /\ rewardPool \in Nat /\ notified \in Nat
  BY RewardsAssumption DEF BooksInv, RewardsTypeOK, Users
<1>2. Total(claimed, NumUsers) \in Int
  BY <1>1, TotalIsInt
<1>3. ASSUME NEW amount \in NotifyAmounts, NotifyReward(amount)
      PROVE  PoolInv'
  <2>1. /\ amount \in Nat /\ rewardPool' = rewardPool + amount
        /\ notified' = notified + amount /\ claimed' = claimed
    BY <1>3, RewardsAssumption DEF NotifyReward, RewardNotified
  <2> QED BY <1>1, <1>2, <2>1 DEF PoolInv
<1>4. ASSUME NEW u \in Users, ClaimAll(u), UNCHANGED notified
      PROVE  PoolInv'
  <2>1. Earned(u) \in Nat /\ u \in 1..NumUsers
    BY PendingBounds DEF Users
  <2>2. Adds(claimed', claimed, u, Earned(u)) /\ rewardPool' = rewardPool - Earned(u)
    BY <1>4 DEF ClaimAll, Claimed, Adds
  <2>3. Total(claimed', NumUsers) = Total(claimed, NumUsers) + Earned(u)
    BY <1>1, <2>1, <2>2, TotalOfAddition
  <2> QED BY <1>1, <1>2, <1>4, <2>1, <2>2, <2>3 DEF PoolInv
<1>5. CASE UNCHANGED <<rewardPool, claimed, notified>>
  BY <1>5 DEF PoolInv
<1> QED BY <1>3, <1>4, <1>5
        DEF RewardsNext, RewardsCall, Claim, ClaimNothing, Stake, Unstake, QueryEarned, CloseRewardsLedger,
            rewardsVars, rewardsStorage, histories

LEMMA SpecPool == RewardsSpec => [](BooksInv /\ PoolInv)
<1>1. RewardsInit => BooksInv /\ PoolInv
  <2>1. RewardsInit => Total(claimed, NumUsers) = 0
    BY RewardsAssumption, TotalOfZeros DEF RewardsInit, Users
  <2> QED BY <2>1, InitBooks DEF RewardsInit, PoolInv
<1>2. BooksInv /\ PoolInv /\ [RewardsNext]_rewardsVars => (BooksInv /\ PoolInv)'
  BY NextBooks, NextPool
<1> QED BY <1>1, <1>2, PTL DEF RewardsSpec

\* The sum of a sum.
LEMMA TotalOfSum ==
    ASSUME NEW n \in Nat, NEW f \in [1..n -> Int], NEW g \in [1..n -> Int],
           NEW h \in [1..n -> Int], \A i \in 1..n : h[i] = f[i] + g[i]
    PROVE  /\ Total(f, n) \in Int /\ Total(g, n) \in Int
           /\ Total(h, n) = Total(f, n) + Total(g, n)
<1>1. Combines(h, f, g, 1, n)
  <2>1. \A i \in 1..n : g[i] \in Int /\ h[i] = f[i] + g[i]
    OBVIOUS
  <2> QED BY <2>1 DEF Combines
<1>2. \A d \in Int : Combines(h, f, g, d, n) =>
          /\ Total(f, n) \in Int /\ Total(g, n) \in Int
          /\ Total(h, n) = Total(f, n) + d * Total(g, n)
  BY TotalOfCombination
<1>3. 1 \in Int
  OBVIOUS
<1>4. /\ Total(f, n) \in Int /\ Total(g, n) \in Int
      /\ Total(h, n) = Total(f, n) + 1 * Total(g, n)
  BY <1>1, <1>2, <1>3, Zenon
<1> QED BY <1>4

LEMMA PoolCovers ==
    ASSUME BooksInv, PoolInv, EarnedWithinEmission
    PROVE  PoolCoversEarned
<1> SUFFICES ASSUME emitted <= SCALE * notified
             PROVE  Total([u \in Users |-> Earned(u)], NumUsers) <= rewardPool
  BY DEF PoolCoversEarned
<1> DEFINE e == [u \in 1..NumUsers |-> Earned(u)]
<1>1. /\ NumUsers \in Nat /\ claimed \in [1..NumUsers -> Int]
      /\ rewardPool \in Nat /\ notified \in Nat /\ emitted \in Nat
      /\ SCALE \in Nat \ {0}
  BY RewardsAssumption DEF BooksInv, RewardsTypeOK, Users
<1>2. e \in [1..NumUsers -> Int] /\ Got \in [1..NumUsers -> Int]
  BY <1>1, PendingBounds DEF Got, Users
<1>3. \A u \in 1..NumUsers : Got[u] = claimed[u] + e[u]
  BY <1>2 DEF Got, Users
<1>4. /\ Total(claimed, NumUsers) \in Int /\ Total(e, NumUsers) \in Int
      /\ Total(Got, NumUsers) = Total(claimed, NumUsers) + Total(e, NumUsers)
  <2> HIDE DEF e
  <2> QED BY <1>1, <1>2, <1>3, TotalOfSum
<1>5. Total(Got, NumUsers) <= notified
  <2>1. TotalEarned = Total(Got, NumUsers)
    BY DEF TotalEarned, Got
  <2>2. Total(Got, NumUsers) \in Int
    BY <1>1, <1>2, TotalIsInt
  <2>3. SCALE * Total(Got, NumUsers) <= emitted
    BY <2>1, Zenon DEF EarnedWithinEmission
  <2> DEFINE p == SCALE * Total(Got, NumUsers)
             q == SCALE * notified
  <2>4. p \in Int /\ q \in Int
    BY <1>1, <2>2, ProductOverSum
  <2>5. p <= emitted /\ emitted <= q
    BY <2>3
  <2>6. p <= q
    <3> HIDE DEF p, q
    <3> QED BY <1>1, <2>4, <2>5
  <2> QED BY <1>1, <2>2, <2>6, CancelFactor
<1>6. Total(e, NumUsers) <= rewardPool
  <2> DEFINE t == Total(e, NumUsers)
  <2>1. t \in Int /\ Total(Got, NumUsers) = Total(claimed, NumUsers) + t
    BY <1>4
  <2>2. rewardPool + Total(claimed, NumUsers) = notified
    BY DEF PoolInv
  <2> HIDE DEF t
  <2>3. t <= rewardPool
    BY <1>1, <1>4, <1>5, <2>1, <2>2
  <2> QED BY <2>3 DEF t
<1> QED BY <1>6 DEF Users

\* As long as the ledgers emitted no more than was notified, the pool can pay
\* everybody what they have earned.
THEOREM FundedPoolPaysAll == RewardsSpec => []PoolCoversEarned
<1>1. BooksInv /\ EmissionInv /\ PoolInv => PoolCoversEarned
  BY PoolCovers, EmissionImplies
<1> QED BY <1>1, SpecEmission, SpecPool, PTL

----------------------------------------------------------------------------
\* Every user's rewards against the reference.  A user lags by what the reference
\* gives them over what they have at x on the accumulator.

Lag(u, x) == entitled[u] - Parts * PotentialAt(x)[u]

\* The lag that the ledgers since the last update do not explain: roundings.
Behind(u) == Lag(u, rewardPerToken) - (sequence - lastUpdate) * ShareOfLedger(u)

\* The most that ledgers can lose by one rounding of the accumulator and of a
\* credit each.
Roundings(ledgers) == Parts * (ledgers * (MaxStaked + SCALE))

\* Whoever has not been credited at x has had one credit less than ledgers.
MostBehind(u, x, ledgers) ==
    IF paid[u] = x THEN Roundings(ledgers) ELSE Roundings(ledgers) - Parts * SCALE

StakeBounded == totalStaked <= MaxStaked

ShareInv ==
    /\ StakeBounded
    /\ \A u \in Users : /\ 0 <= Behind(u)
                        /\ Behind(u) <= MostBehind(u, rewardPerToken, lastUpdate)

\* One more ledger is room for one more rounding of each kind.
LEMMA RoundingsGrow ==
    ASSUME NEW a \in Nat, NEW b \in Nat, a <= b
    PROVE  /\ Roundings(a) \in Int /\ Roundings(b) \in Int /\ Roundings(a) <= Roundings(b)
           /\ Parts * MaxStaked \in Nat /\ Parts * SCALE \in Nat
           /\ a < b => Roundings(a) + Parts * MaxStaked + Parts * SCALE <= Roundings(b)
<1> DEFINE m == MaxStaked + SCALE
           A == a * m
           B == b * m
<1>1. /\ Parts \in Nat /\ MaxStaked \in Nat /\ SCALE \in Nat /\ m \in Nat
      /\ A = m * a /\ B = m * b
  BY RewardsAssumption
<1>2. A <= B /\ A \in Int /\ B \in Int
  BY <1>1, MonotoneFactor
<1>3. Parts * A \in Int /\ Parts * B \in Int /\ Parts * A <= Parts * B
  <2> HIDE DEF A, B
  <2> QED BY <1>1, <1>2, MonotoneFactor
<1>4. Parts * MaxStaked \in Nat /\ Parts * SCALE \in Nat
  BY <1>1, ProductOfNats
<1>5. ASSUME a < b
      PROVE  Parts * A + Parts * MaxStaked + Parts * SCALE <= Parts * B
  <2>1. m * (a + 1) <= m * b /\ m * (a + 1) = m * a + m * 1
    BY <1>1, <1>5, MonotoneFactor, ProductOverSum
  <2>2. A + m <= B
    BY <1>1, <2>1
  <2>3. /\ Parts * (A + m) <= Parts * B
        /\ Parts * (A + m) = Parts * A + Parts * m
        /\ Parts * m = Parts * MaxStaked + Parts * SCALE
    <3> HIDE DEF A, B
    <3>1. Parts * (A + m) <= Parts * B /\ Parts * (A + m) = Parts * A + Parts * m
      <4> HIDE DEF m
      <4> QED BY <1>1, <1>2, <2>2, MonotoneFactor, ProductOverSum
    <3>2. Parts * m = Parts * MaxStaked + Parts * SCALE
      BY <1>1, ProductOverSum
    <3> QED BY <3>1, <3>2
  <2> DEFINE x == Parts * A  y == Parts * B  r == Parts * MaxStaked  s == Parts * SCALE
             z == Parts * (A + m)
  <2>4. z <= y /\ z = x + (r + s) /\ x \in Int /\ y \in Int /\ r \in Int /\ s \in Int
    BY <1>3, <1>4, <2>3
  <2>5. x + r + s <= y
    <3> HIDE DEF x, y, r, s, z
    <3> QED BY <2>4
  <2> QED BY <2>5
<1> QED BY <1>3, <1>4, <1>5 DEF Roundings

\* A share of a ledger is exact, as the unit of the reference is fine enough.
LEMMA ShareIsExact ==
    ASSUME BooksInv, StakeBounded, totalStaked # 0, NEW u \in Users
    PROVE  \E q \in Nat : /\ Parts = totalStaked * q
                          /\ ShareOfLedger(u) = q * (rewardRate * stake[u])
<1>1. /\ totalStaked \in Nat \ {0} /\ totalStaked \in 1..MaxStaked
      /\ rewardRate \in Nat /\ stake[u] \in Nat /\ Parts \in Nat
  BY RewardsAssumption DEF BooksInv, RewardsTypeOK, StakeBounded
<1>2. PICK q \in Nat : Parts = totalStaked * q
  BY <1>1, Divides, PartsAssumption
<1> DEFINE y == q * (rewardRate * stake[u])
<1>3. y \in Nat
  BY <1>1, ProductOfNats
<1>4. Parts * rewardRate * stake[u] = totalStaked * y
  <2>1. \A t, p, r, s \in Nat : ((t * p) * r) * s = t * (p * (r * s))
    OBVIOUS
  <2> QED BY <1>1, <1>2, <2>1
<1>5. ShareOfLedger(u) = y
  <2> HIDE DEF y
  <2> QED BY <1>1, <1>3, <1>4, ExactQuotient DEF ShareOfLedger
<1> QED BY <1>2, <1>5

LEMMA StakeWithinTotal ==
    ASSUME BooksInv, NEW u \in Users
    PROVE  stake[u] <= totalStaked
<1>1. stake \in [1..NumUsers -> Nat] /\ NumUsers \in Nat /\ u \in 1..NumUsers
  BY RewardsAssumption DEF BooksInv, RewardsTypeOK, Users
<1>2. stake[u] <= Total(stake, NumUsers)
  BY <1>1, TotalDominates
<1> QED BY <1>2 DEF BooksInv, StakesAddUp

\* What a user has in parts, and what is credited to them in parts.
LEMMA LagIsInt ==
    ASSUME BooksInv, NEW u \in Users, NEW x \in Nat
    PROVE  /\ PotentialAt(x)[u] \in Int /\ Lag(u, x) \in Int
           /\ PotentialAt(x)[u] = SCALE * (claimed[u] + accrued[u]) + stake[u] * (x - paid[u])
           /\ (sequence - lastUpdate) * ShareOfLedger(u) \in Int
           /\ Parts * PotentialAt(x)[u] \in Int
<1>1. /\ claimed \in [Users -> Nat] /\ accrued \in [Users -> Nat]
      /\ stake \in [Users -> Nat] /\ paid \in [Users -> Nat]
      /\ entitled \in [Users -> Nat]
  BY DEF BooksInv, RewardsTypeOK
<1>2. PotentialAt(x)[u] = SCALE * (claimed[u] + accrued[u]) + stake[u] * (x - paid[u])
  BY DEF PotentialAt, Potential
<1>3. PotentialAt(x)[u] \in Int
  <2>1. PotentialAt(x) \in [1..NumUsers -> Int]
    BY <1>1, PotentialIsInt DEF PotentialAt
  <2> QED BY <2>1 DEF Users
<1>4. Parts * PotentialAt(x)[u] \in Int
  <2>1. \A p, q \in Int : p * q \in Int
    OBVIOUS
  <2> QED BY <1>3, <2>1, RewardsAssumption
<1>5. (sequence - lastUpdate) * ShareOfLedger(u) \in Int
  <2>1. ShareOfLedger(u) \in Nat
    BY SharesAreNat
  <2>2. sequence - lastUpdate \in Int
    BY DEF BooksInv, RewardsTypeOK
  <2>3. \A p, q \in Int : p * q \in Int
    OBVIOUS
  <2> QED BY <2>1, <2>2, <2>3
<1>6. Lag(u, x) \in Int
  BY <1>1, <1>4 DEF Lag
<1> QED BY <1>2, <1>3, <1>4, <1>5, <1>6

\* Bringing the accumulator up to date rounds down once, if a ledger has closed
\* since: the lag at the new accumulator is within the roundings up to now.
LEMMA UpdateLag ==
    ASSUME BooksInv, ShareInv, NEW u \in Users
    PROVE  /\ Lag(u, UpdatedReward) \in Nat
           /\ Lag(u, UpdatedReward) <= MostBehind(u, UpdatedReward, sequence)
<1> DEFINE x == UpdatedReward
           d == x - rewardPerToken
           due == (sequence - lastUpdate) * ShareOfLedger(u)
           sd == stake[u] * d
           lost == Parts * sd
<1>1. /\ x \in Nat /\ rewardPerToken \in Nat /\ d \in Int
      /\ totalStaked \in Nat /\ rewardRate \in Nat /\ sequence \in Nat /\ lastUpdate \in Nat
      /\ lastUpdate <= sequence /\ stake[u] \in Nat /\ paid[u] \in Nat
      /\ Parts \in Nat /\ SCALE \in Nat /\ MaxStaked \in Nat
  BY UpdatedGrows, RewardsAssumption DEF BooksInv, RewardsTypeOK
<1>2. /\ Lag(u, rewardPerToken) \in Int /\ due \in Int /\ sd \in Int /\ lost \in Int
      /\ Lag(u, x) = Lag(u, rewardPerToken) - lost
      /\ Lag(u, x) \in Int
  <2>1. /\ Lag(u, rewardPerToken) \in Int /\ Lag(u, x) \in Int /\ due \in Int
        /\ PotentialAt(rewardPerToken)[u] \in Int
        /\ Parts * PotentialAt(rewardPerToken)[u] \in Int
    BY <1>1, LagIsInt
  <2>2. sd \in Int /\ lost \in Int
    <3>1. \A p, q \in Int : p * q \in Int
      OBVIOUS
    <3> HIDE DEF d
    <3> QED BY <1>1, <3>1
  <2>3. PotentialAt(x)[u] = PotentialAt(rewardPerToken)[u] + sd
    <3> DEFINE c == SCALE * (claimed[u] + accrued[u])
               e == rewardPerToken - paid[u]
               y == stake[u] * (x - paid[u])
               z == stake[u] * e
    <3>1. e \in Int /\ x - paid[u] = e + d
      BY <1>1
    <3>2. y = z + sd /\ z \in Int
      <4> HIDE DEF e, d
      <4>1. stake[u] * (e + d) = stake[u] * e + stake[u] * d /\ stake[u] * e \in Int
        BY <1>1, <3>1, ProductOverSum
      <4> QED BY <3>1, <4>1
    <3>3. PotentialAt(x)[u] = c + y /\ PotentialAt(rewardPerToken)[u] = c + z
      BY <1>1, LagIsInt
    <3>4. c \in Int
      <4>1. claimed[u] + accrued[u] \in Int
        BY DEF BooksInv, RewardsTypeOK
      <4>2. \A p, q \in Int : p * q \in Int
        OBVIOUS
      <4> QED BY <1>1, <4>1, <4>2
    <3> HIDE DEF c, y, z, sd
    <3> QED BY <2>2, <3>2, <3>3, <3>4
  <2>4. Parts * PotentialAt(x)[u] = Parts * PotentialAt(rewardPerToken)[u] + lost
    <3> HIDE DEF sd, x
    <3> QED BY <1>1, <2>1, <2>2, <2>3, ProductOverSum
  <2>5. entitled[u] \in Nat
    BY DEF BooksInv, RewardsTypeOK
  <2>6. Lag(u, x) = Lag(u, rewardPerToken) - lost
    <3> HIDE DEF lost, x
    <3> QED BY <2>1, <2>2, <2>4, <2>5 DEF Lag
  <2> QED BY <2>1, <2>2, <2>6
<1>3. /\ Behind(u) = Lag(u, rewardPerToken) - due
      /\ 0 <= Behind(u) /\ Behind(u) <= MostBehind(u, rewardPerToken, lastUpdate)
  BY DEF Behind, ShareInv
<1>4. /\ Roundings(lastUpdate) \in Int /\ Roundings(sequence) \in Int
      /\ Roundings(lastUpdate) <= Roundings(sequence)
      /\ Parts * MaxStaked \in Nat /\ Parts * SCALE \in Nat
      /\ lastUpdate < sequence => Roundings(lastUpdate) + Parts * MaxStaked + Parts * SCALE
                                 <= Roundings(sequence)
  BY <1>1, RoundingsGrow
<1>5. CASE AccruesNow
  <2>1. /\ totalStaked # 0 /\ lastUpdate < sequence
        /\ d = ((sequence - lastUpdate) * rewardRate) \div totalStaked
    <3>1. x = rewardPerToken + ((sequence - lastUpdate) * rewardRate) \div totalStaked
      BY <1>5 DEF UpdatedReward
    <3>2. totalStaked # 0 /\ lastUpdate < sequence
      BY <1>1, <1>5 DEF AccruesNow
    <3>3. ((sequence - lastUpdate) * rewardRate) \div totalStaked \in Int
      BY <1>1, <3>2, ProductOfNats
    <3> HIDE DEF x
    <3> DEFINE v == ((sequence - lastUpdate) * rewardRate) \div totalStaked
    <3>4. x = rewardPerToken + v /\ v \in Int
      BY <3>1, <3>3
    <3>5. d = v
      <4> HIDE DEF v
      <4> QED BY <1>1, <3>4
    <3> QED BY <3>2, <3>5
  <2>2. PICK q \in Nat : /\ Parts = totalStaked * q
                         /\ ShareOfLedger(u) = q * (rewardRate * stake[u])
    BY <2>1, ShareIsExact DEF ShareInv
  <2>3. due - lost \in 0..Parts * stake[u]
    <3> DEFINE l == sequence - lastUpdate
    <3>1. l \in Nat /\ totalStaked \in Nat \ {0} /\ d = (l * rewardRate) \div totalStaked
      BY <1>1, <2>1
    <3> HIDE DEF l, d
    <3>2. l * (q * (rewardRate * stake[u])) - (totalStaked * q) * (stake[u] * d)
              \in 0..(totalStaked * q) * stake[u]
      BY <1>1, <2>2, <3>1, AccumulatorRounding
    <3> QED BY <2>2, <3>2, Zenon DEF l
  <2>4. Parts * stake[u] \in Int /\ Parts * stake[u] <= Parts * MaxStaked
    <3>1. stake[u] <= totalStaked
      BY StakeWithinTotal
    <3>2. totalStaked <= MaxStaked
      BY DEF ShareInv, StakeBounded
    <3> QED BY <1>1, <3>1, <3>2, MonotoneFactor
  <2>5. Lag(u, x) = Behind(u) + (due - lost)
    <3> HIDE DEF due, lost
    <3> QED BY <1>2, <1>3
  <2>6. Behind(u) \in Int /\ Behind(u) <= Roundings(lastUpdate)
    <3>1. Behind(u) \in Int
      <4> HIDE DEF due
      <4> QED BY <1>2, <1>3
    <3>2. MostBehind(u, rewardPerToken, lastUpdate) \in Int
          /\ MostBehind(u, rewardPerToken, lastUpdate) <= Roundings(lastUpdate)
      BY <1>4 DEF MostBehind
    <3> QED BY <1>3, <1>4, <3>1, <3>2
  <2>7. 0 <= Lag(u, x) /\ Lag(u, x) <= Roundings(sequence) - Parts * SCALE
    <3> DEFINE y == due - lost
               r == Parts * MaxStaked
               s == Parts * SCALE
               p == Parts * stake[u]
    <3>1. /\ y \in 0..p /\ p \in Int /\ p <= r /\ r \in Nat /\ s \in Nat
          /\ Lag(u, x) = Behind(u) + y
          /\ Roundings(lastUpdate) + r + s <= Roundings(sequence)
      BY <1>4, <2>1, <2>3, <2>4, <2>5
    <3> HIDE DEF y, r, s, p, x
    <3>2. 0 <= Lag(u, x) /\ Lag(u, x) <= Roundings(sequence) - s
      BY <1>3, <1>4, <2>6, <3>1
    <3> QED BY <3>2 DEF s
  <2>8. Roundings(sequence) - Parts * SCALE <= MostBehind(u, x, sequence)
    BY <1>4 DEF MostBehind
  <2>9. MostBehind(u, x, sequence) \in Int /\ Parts * SCALE \in Int
    BY <1>4 DEF MostBehind
  <2> HIDE DEF x
  <2> QED BY <1>2, <1>4, <2>7, <2>8, <2>9 DEF x
<1>6. CASE ~ AccruesNow
  <2>1. x = rewardPerToken
    BY <1>6 DEF UpdatedReward
  <2>2. due = 0
    <3>1. CASE sequence = lastUpdate
      BY <1>1, <3>1, SharesAreNat
    <3>2. CASE totalStaked = 0 \/ rewardRate = 0
      <4>1. ShareOfLedger(u) = 0
        BY <1>1, <3>2 DEF ShareOfLedger
      <4> QED BY <1>1, <4>1
    <3> QED BY <1>1, <1>6, <3>1, <3>2 DEF AccruesNow
  <2>3. Lag(u, x) = Behind(u)
    <3> HIDE DEF due, x
    <3> QED BY <1>2, <1>3, <2>1, <2>2
  <2>4. /\ MostBehind(u, x, lastUpdate) \in Int /\ MostBehind(u, x, sequence) \in Int
        /\ MostBehind(u, x, lastUpdate) <= MostBehind(u, x, sequence)
    BY <1>4 DEF MostBehind
  <2> HIDE DEF x
  <2> QED BY <1>2, <1>3, <2>1, <2>3, <2>4 DEF x
<1> QED BY <1>5, <1>6

\* What a user has got or can get, in parts: crediting what is pending rounds down
\* once, unless the user has been credited at this accumulator already.
Credited(u) == Parts * (SCALE * (claimed[u] + Earned(u)))

LEMMA CreditLag ==
    ASSUME BooksInv, ShareInv, NEW u \in Users
    PROVE  /\ entitled[u] - Credited(u) \in Nat
           /\ entitled[u] - Credited(u) <= Roundings(sequence)
<1> DEFINE x == UpdatedReward
           c == claimed[u] + accrued[u]
           y == stake[u] * (x - paid[u])
           w == SCALE * Pending(u)
<1>1. /\ x \in Nat /\ stake[u] \in Nat /\ paid[u] \in Nat /\ accrued[u] \in Nat
      /\ claimed[u] \in Nat /\ entitled[u] \in Nat
      /\ Parts \in Nat /\ SCALE \in Nat \ {0} /\ MaxStaked \in Nat /\ sequence \in Nat
  BY UpdatedGrows, RewardsAssumption DEF BooksInv, RewardsTypeOK
<1>2. /\ x - paid[u] \in Nat /\ Pending(u) \in Nat /\ w <= y
      /\ Earned(u) = accrued[u] + Pending(u)
  BY PendingBounds
<1>3. y \in Nat /\ w \in Nat
  BY <1>1, <1>2, ProductOfNats
<1>4. y - w \in 0..SCALE /\ (paid[u] = x => y - w = 0)
  <2>1. CASE stake[u] > 0
    <3>1. Pending(u) = y \div SCALE
      BY <2>1 DEF Pending
    <3>2. y - w \in 0..SCALE - 1
      <4> HIDE DEF y
      <4> QED BY <1>1, <1>3, <3>1, QuotientRest
    <3>3. ASSUME paid[u] = x
          PROVE  y - w = 0
      <4>1. y = 0
        <5>1. x - paid[u] = 0
          BY <1>1, <3>3
        <5> QED BY <1>1, <5>1
      <4> HIDE DEF y, w
      <4> QED BY <1>2, <1>3, <4>1
    <3> QED BY <1>1, <3>2, <3>3
  <2>2. CASE stake[u] = 0
    <3>1. y = 0
      BY <1>1, <1>2, <2>2
    <3> HIDE DEF y, w
    <3> QED BY <1>1, <1>2, <1>3, <3>1
  <2> QED BY <1>1, <2>1, <2>2
<1> DEFINE r == y - w
           v == SCALE * c
<1>5. /\ SCALE * (claimed[u] + Earned(u)) = v + w
      /\ v \in Int
  <2>1. claimed[u] + Earned(u) = c + Pending(u) /\ c \in Int
    BY <1>1, <1>2
  <2> HIDE DEF c
  <2> QED BY <1>1, <1>2, <2>1, ProductOverSum
<1>6. PotentialAt(x)[u] = v + y
  BY DEF PotentialAt, Potential
<1>7. entitled[u] - Credited(u) = Lag(u, x) + Parts * r
  <2>1. Parts * ((v + w) + r) = Parts * (v + w) + Parts * r
        /\ Parts * (v + w) \in Int /\ Parts * r \in Int
    <3>1. v + w \in Int /\ r \in Int
      <4> HIDE DEF v, w, y
      <4> QED BY <1>3, <1>5
    <3> HIDE DEF v, w, r
    <3> QED BY <1>1, <3>1, ProductOverSum
  <2>2. (v + w) + r = v + y
    <3> HIDE DEF v, w, y
    <3> QED BY <1>3, <1>5
  <2>3. Credited(u) = Parts * (v + w)
    BY <1>5, Zenon DEF Credited
  <2>4. Lag(u, x) = entitled[u] - Parts * ((v + w) + r)
    BY <1>6, <2>2, Zenon DEF Lag
  <2> DEFINE a == Parts * (v + w)
             b == Parts * r
  <2>5. Credited(u) = a /\ Lag(u, x) = entitled[u] - (a + b) /\ a \in Int /\ b \in Int
    BY <2>1, <2>3, <2>4
  <2>6. entitled[u] - Credited(u) = Lag(u, x) + b
    <3> HIDE DEF a, b, x
    <3> QED BY <1>1, <2>5
  <2> QED BY <2>6
<1>8. /\ Lag(u, x) \in Nat /\ Lag(u, x) <= MostBehind(u, x, sequence)
  BY UpdateLag
<1>9. Roundings(sequence) \in Int /\ Parts * SCALE \in Nat
  BY <1>1, RoundingsGrow
<1>10. CASE paid[u] = x
  <2>1. Parts * r = 0
    BY <1>1, <1>4, <1>10
  <2>2. MostBehind(u, x, sequence) = Roundings(sequence)
    BY <1>10 DEF MostBehind
  <2> HIDE DEF r, x
  <2> QED BY <1>7, <1>8, <1>9, <2>1, <2>2
<1>11. CASE paid[u] # x
  <2>1. Parts * r \in Nat /\ Parts * r <= Parts * SCALE
    <3>1. r \in Nat /\ r <= SCALE
      <4> HIDE DEF y, w
      <4> QED BY <1>1, <1>4
    <3> HIDE DEF r
    <3> QED BY <1>1, <3>1, MonotoneFactor, ProductOfNats
  <2>2. MostBehind(u, x, sequence) = Roundings(sequence) - Parts * SCALE
    BY <1>11 DEF MostBehind
  <2> HIDE DEF r, x
  <2> QED BY <1>7, <1>8, <1>9, <2>1, <2>2
<1> QED BY <1>10, <1>11

\* A call books what the update owes, and leaves nothing due.
LEMMA CallShares ==
    ASSUME BooksInv, ShareInv, RewardsCall, UNCHANGED <<sequence, emitted, entitled>>, BooksInv',
           StakeBounded'
    PROVE  ShareInv'
<1>1. CallShape
  BY CallSettles
<1>2. rewardPerToken' = UpdatedReward /\ lastUpdate' = sequence /\ sequence' = sequence /\ entitled' = entitled
  BY <1>1, UpToDate DEF CallShape
<1>3. ASSUME NEW u \in Users
      PROVE  0 <= Behind(u)' /\ Behind(u)' <= MostBehind(u, rewardPerToken, lastUpdate)'
  <2>1. Behind(u)' = Lag(u, rewardPerToken)' /\ Lag(u, rewardPerToken)' \in Int
    <3>1. Lag(u, rewardPerToken)' \in Int
      <4>1. /\ claimed' \in [Users -> Nat] /\ accrued' \in [Users -> Nat]
            /\ stake' \in [Users -> Nat] /\ paid' \in [Users -> Nat]
            /\ entitled' \in [Users -> Nat] /\ rewardPerToken' \in Nat
        BY DEF BooksInv, RewardsTypeOK
      <4>2. Potential(claimed', accrued', stake', paid', rewardPerToken')[u] \in Int
        <5>1. Potential(claimed', accrued', stake', paid', rewardPerToken')
                  \in [1..NumUsers -> Int]
          BY <4>1, PotentialIsInt
        <5> QED BY <5>1 DEF Users
      <4>3. \A p, q \in Int : p * q \in Int
        OBVIOUS
      <4>4. Parts * Potential(claimed', accrued', stake', paid', rewardPerToken')[u] \in Int
        BY <4>2, <4>3, RewardsAssumption
      <4> QED BY <4>1, <4>4 DEF Lag, PotentialAt
    <3>2. (sequence' - lastUpdate') * ShareOfLedger(u)' = 0
      <4>1. sequence' - lastUpdate' = 0
        BY <1>2 DEF BooksInv, RewardsTypeOK
      <4>2. ShareOfLedger(u)' \in Int
        <5>1. /\ stake'[u] \in Nat /\ totalStaked' \in Nat /\ rewardRate' \in Nat
              /\ Parts \in Nat
          BY RewardsAssumption DEF BooksInv, RewardsTypeOK
        <5>2. Parts * rewardRate' * stake'[u] \in Nat
          BY <5>1, ProductOfNats
        <5> QED BY <5>1, <5>2, QuotientBounds DEF ShareOfLedger
      <4> QED BY <4>1, <4>2
    <3> QED BY <3>1, <3>2 DEF Behind
  <2>2. CASE Untouched(u)
    <3>1. Lag(u, rewardPerToken)' = Lag(u, UpdatedReward)
      BY <1>2, <2>2 DEF Lag, PotentialAt, Potential, Untouched
    <3>2. MostBehind(u, rewardPerToken, lastUpdate)' = MostBehind(u, UpdatedReward, sequence)
      BY <1>2, <2>2 DEF MostBehind, Untouched
    <3> QED BY <2>1, <3>1, <3>2, UpdateLag
  <2>3. CASE Settled(u)
    <3>1. Lag(u, rewardPerToken)' = entitled[u] - Credited(u)
      <4>1. stake'[u] * (rewardPerToken' - paid'[u]) = 0
        <5>1. rewardPerToken' - paid'[u] = 0 /\ stake'[u] \in Nat
          BY <1>2, <2>3, UpdatedGrows DEF Settled, BooksInv, RewardsTypeOK
        <5> QED BY <5>1
      <4>2. SCALE * (claimed'[u] + accrued'[u]) \in Int
        <5>1. claimed'[u] + accrued'[u] \in Int
          BY DEF BooksInv, RewardsTypeOK
        <5>2. \A p, q \in Int : p * q \in Int
          OBVIOUS
        <5> QED BY <5>1, <5>2, RewardsAssumption
      <4>3. PotentialAt(rewardPerToken)'[u] = SCALE * (claimed'[u] + accrued'[u])
        BY <4>1, <4>2 DEF PotentialAt, Potential
      <4>4. claimed'[u] + accrued'[u] = claimed[u] + Earned(u)
        BY <2>3 DEF Settled
      <4> QED BY <1>2, <4>3, <4>4 DEF Lag, Credited
    <3>2. MostBehind(u, rewardPerToken, lastUpdate)' = Roundings(sequence)
      BY <1>2, <2>3 DEF MostBehind, Settled, Roundings
    <3> QED BY <2>1, <3>1, <3>2, CreditLag
  <2> QED BY <1>1, <2>2, <2>3 DEF CallShape
<1> QED BY <1>3 DEF ShareInv

\* A ledger that closes brings everybody the share that becomes due.
LEMMA LedgerShares ==
    ASSUME BooksInv, ShareInv, CloseRewardsLedger
    PROVE  ShareInv'
<1>1. /\ UNCHANGED <<claimed, accrued, stake, paid, rewardPerToken>>
      /\ UNCHANGED <<totalStaked, lastUpdate, rewardRate>>
      /\ sequence' = sequence + 1
      /\ entitled' = [u \in Users |-> entitled[u] + ShareOfLedger(u)]
  BY DEF CloseRewardsLedger, rewardsStorage
<1>2. sequence \in Nat /\ lastUpdate \in Nat /\ rewardPerToken \in Nat
  BY DEF BooksInv, RewardsTypeOK
<1>3. ASSUME NEW u \in Users
      PROVE  Behind(u)' = Behind(u)
  <2> DEFINE k == sequence - lastUpdate
             s == ShareOfLedger(u)
             p == Parts * PotentialAt(rewardPerToken)[u]
  <2>1. k \in Int /\ s \in Int /\ entitled[u] \in Int /\ p \in Int /\ k * s \in Int
    BY <1>2, SharesAreNat, LagIsInt DEF BooksInv, RewardsTypeOK
  <2>2. sequence' - lastUpdate' = k + 1
    BY <1>1, <1>2
  <2>3. ShareOfLedger(u)' = s
    BY <1>1 DEF ShareOfLedger
  <2>4. Lag(u, rewardPerToken)' = (entitled[u] + s) - p
    BY <1>1 DEF Lag, PotentialAt, Potential
  <2>5. (k + 1) * s = k * s + s
    <3>1. \A a, b \in Int : (a + 1) * b = a * b + b
      OBVIOUS
    <3> HIDE DEF k, s
    <3> QED BY <2>1, <3>1
  <2>6. Behind(u)' = ((entitled[u] + s) - p) - (k * s + s)
    BY <2>2, <2>3, <2>4, <2>5, Zenon DEF Behind
  <2>7. Behind(u) = (entitled[u] - p) - k * s
    BY DEF Behind, Lag
  <2> DEFINE z == k * s
  <2>8. z \in Int /\ Behind(u)' = ((entitled[u] + s) - p) - (z + s)
        /\ Behind(u) = (entitled[u] - p) - z
    BY <2>1, <2>6, <2>7
  <2> HIDE DEF p, z, s, k
  <2> QED BY <2>1, <2>8
<1>4. ASSUME NEW u \in Users
      PROVE  MostBehind(u, rewardPerToken, lastUpdate)' = MostBehind(u, rewardPerToken, lastUpdate)
  BY <1>1 DEF MostBehind, Roundings
<1> QED BY <1>1, <1>3, <1>4 DEF ShareInv, StakeBounded

LEMMA CallBounded ==
    ASSUME BooksInv, StakeBounded, RewardsCall
    PROVE  StakeBounded'
<1>1. totalStaked \in Nat /\ MaxStaked \in Nat
  BY RewardsAssumption DEF BooksInv, RewardsTypeOK
<1>2. ASSUME NEW u \in Users, NEW amount \in StakeAmounts, Unstake(u, amount)
      PROVE  StakeBounded'
  BY <1>1, <1>2, RewardsAssumption DEF Unstake, StakeBounded
<1>3. ASSUME NEW u \in Users, NEW amount \in StakeAmounts,
             totalStaked + amount <= MaxStaked, Stake(u, amount)
      PROVE  StakeBounded'
  BY <1>3 DEF Stake, StakeBounded
<1> QED BY <1>2, <1>3 DEF RewardsCall, NotifyReward, Claim, QueryEarned, StakeBounded

LEMMA InitShares == RewardsInit => ShareInv
<1> SUFFICES ASSUME RewardsInit PROVE ShareInv
  OBVIOUS
<1>1. /\ SCALE * (0 + 0) + 0 * (0 - 0) = 0 /\ Parts * 0 = 0
      /\ 0 * (MaxStaked + SCALE) = 0 /\ (0 - 0) * 0 = 0
  BY RewardsAssumption
<1>2. ASSUME NEW u \in Users
      PROVE  0 <= Behind(u) /\ Behind(u) <= MostBehind(u, rewardPerToken, lastUpdate)
  <2>1. Lag(u, rewardPerToken) = 0
    BY <1>1 DEF RewardsInit, Lag, PotentialAt, Potential
  <2>2. ShareOfLedger(u) = 0
    BY DEF RewardsInit, ShareOfLedger
  <2>3. Behind(u) = 0
    BY <1>1, <2>1, <2>2 DEF RewardsInit, Behind
  <2>4. MostBehind(u, rewardPerToken, lastUpdate) = 0
    BY <1>1 DEF RewardsInit, MostBehind, Roundings
  <2> QED BY <2>3, <2>4
<1>3. StakeBounded
  BY RewardsAssumption DEF RewardsInit, StakeBounded
<1> QED BY <1>2, <1>3 DEF ShareInv

\* A user's rewards are the reference's within the roundings of the ledgers so
\* far, after any calls of anybody: the inductive invariant.
THEOREM RewardsFollowShares == RewardsSpec => [](BooksInv /\ ShareInv)
<1>1. RewardsInit => BooksInv /\ ShareInv
  BY InitBooks, InitShares
<1>2. BooksInv /\ ShareInv /\ [RewardsNext]_rewardsVars => (BooksInv /\ ShareInv)'
  <2> SUFFICES ASSUME BooksInv, ShareInv, [RewardsNext]_rewardsVars
               PROVE  BooksInv' /\ ShareInv'
    OBVIOUS
  <2>1. BooksInv'
    BY NextBooks
  <2>2. CASE RewardsCall /\ UNCHANGED <<sequence, emitted, entitled>>
    <3>1. StakeBounded'
      BY <2>2, CallBounded DEF ShareInv
    <3> QED BY <2>1, <2>2, <3>1, CallShares
  <2>3. CASE CloseRewardsLedger
    BY <2>1, <2>3, LedgerShares
  <2>4. CASE UNCHANGED rewardsVars
    BY <2>1, <2>4
       DEF rewardsVars, rewardsStorage, histories, ShareInv, StakeBounded, Behind, Lag, PotentialAt, Potential,
           ShareOfLedger, MostBehind, Roundings
  <2> QED BY <2>2, <2>3, <2>4 DEF RewardsNext
<1> QED BY <1>1, <1>2, PTL DEF RewardsSpec

\* Nobody gets more than the rates of the ledgers give them by stake, and nobody
\* less by more than two roundings for each ledger.
THEOREM SharesAreFair == RewardsSpec => []FairShares
<1>1. BooksInv /\ ShareInv => FairShares
  <2> SUFFICES ASSUME BooksInv, ShareInv, NEW u \in Users
               PROVE  /\ Parts * SCALE * (claimed[u] + Earned(u)) <= entitled[u]
                      /\ entitled[u] - Parts * SCALE * (claimed[u] + Earned(u))
                             <= Parts * sequence * (MaxStaked + SCALE)
    BY Zenon DEF FairShares
  <2> DEFINE got == claimed[u] + Earned(u)
  <2>1. /\ Parts \in Nat /\ SCALE \in Nat /\ MaxStaked + SCALE \in Nat /\ sequence \in Nat
        /\ got \in Nat /\ entitled[u] \in Nat
    BY RewardsAssumption, PendingBounds DEF BooksInv, RewardsTypeOK
  <2>2. \A a, b, c \in Nat : a * b * c = a * (b * c) /\ a * b * c \in Nat
    OBVIOUS
  <2>3. /\ Parts * SCALE * got = Credited(u) /\ Parts * SCALE * got \in Nat
        /\ Parts * sequence * (MaxStaked + SCALE) = Roundings(sequence)
    <3> HIDE DEF got
    <3> QED BY <2>1, <2>2 DEF Credited, Roundings, got
  <2>4. entitled[u] - Credited(u) \in Nat /\ entitled[u] - Credited(u) <= Roundings(sequence)
    BY CreditLag
  <2>5. Credited(u) \in Nat /\ Credited(u) <= entitled[u]
    <3> HIDE DEF got
    <3> QED BY <2>1, <2>3, <2>4
  <2> QED BY <2>3, <2>4, <2>5, Zenon
<1> QED BY <1>1, RewardsFollowShares, PTL

============
