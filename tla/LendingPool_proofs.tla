------------------------- MODULE LendingPool_proofs -------------------------
(***************************************************************************)
(* Invariance proofs for the lending pool, for every number of accounts,   *)
(* every rate configuration and every bound.                               *)
(***************************************************************************)
EXTENDS LendingPool, AccountSums_proofs

----------------------------------------------------------------------------
\* Arithmetic.

LEMMA DivIsNat ==
    ASSUME NEW x \in Nat, NEW y \in Nat \ {0}
    PROVE  x \div y \in Nat
OBVIOUS

LEMMA DivBounds ==
    ASSUME NEW x \in Nat, NEW y \in Nat \ {0}
    PROVE  /\ (x \div y) * y <= x
           /\ x < (x \div y) * y + y
OBVIOUS

LEMMA ProductIsNat ==
    ASSUME NEW x \in Nat, NEW y \in Nat
    PROVE  x * y \in Nat
OBVIOUS

LEMMA ProductMonotone ==
    ASSUME NEW x \in Nat, NEW y \in Nat, NEW z \in Nat, y <= z
    PROVE  x * y <= x * z
OBVIOUS

LEMMA ModIsNat ==
    ASSUME NEW x \in Int, NEW y \in Nat \ {0}
    PROVE  x % y \in 0..(y - 1)
OBVIOUS

\* Scaling by a ratio of at least one does not shrink, rounding down included.
LEMMA ScalingGrows ==
    ASSUME NEW m \in Nat, NEW x \in Nat \ {0}, NEW y \in Nat \ {0}, y <= x
    PROVE  m <= (m * x) \div y
<1> DEFINE q == (m * x) \div y
<1>1. m * x \in Nat /\ m * y \in Nat /\ m * y <= m * x
  BY ProductIsNat, ProductMonotone
<1>2. q \in Nat /\ m * x < q * y + y
  BY <1>1, DivIsNat, DivBounds
<1>3. ASSUME q < m
      PROVE  FALSE
  <2>1. q + 1 <= m
    BY <1>2, <1>3
  <2>2. y * (q + 1) <= y * m
    BY <1>2, <2>1, ProductMonotone
  <2>3. y * (q + 1) = q * y + y /\ y * m = m * y
    BY <1>2
  <2> HIDE DEF q
  <2> QED BY <1>1, <1>2, <2>2, <2>3
<1> QED BY <1>2, <1>3

----------------------------------------------------------------------------
\* What the operators of the pool return.

LEMMA IndexDeltaIsNat ==
    ASSUME TypeOK, NEW a \in Assets, AccrualDue(a), UtilisationDefined(a)
    PROVE  IndexDelta(a) \in Nat
<1>1. /\ totalDeposit[a] \in Int /\ totalBorrow[a] \in Int
      /\ U64 \in Nat \ {0} /\ IndexScale \in Nat /\ Year \in Nat \ {0}
      /\ ledger \in Nat /\ lastAccrual[a] \in Nat /\ lastAccrual[a] < ledger
      /\ config[a] \in RateConfig
  BY ScaleAssumption, InputAssumption, BoundAssumption DEF TypeOK, AccrualDue
<1>2. Utilisation(a) \in Nat
  <2>1. CASE totalDeposit[a] = 0
    BY <2>1 DEF Utilisation
  <2>2. CASE totalDeposit[a] # 0
    <3>1. AsU64(totalDeposit[a]) \in Nat \ {0} /\ AsU64(totalBorrow[a]) \in Nat
      <4>1. AsU64(totalDeposit[a]) # 0
        BY <2>2 DEF UtilisationDefined
      <4>2. \A x \in Int : AsU64(x) \in Nat
        BY <1>1, ModIsNat DEF AsU64
      <4> QED BY <1>1, <4>1, <4>2
    <3>2. UtilisedUnits(a) \in Nat
      BY <3>1 DEF UtilisedUnits, Lesser
    <3>3. UtilisedUnits(a) * BPS \in Nat
      BY <3>2 DEF BPS
    <3> QED BY <2>2, <3>1, <3>3, DivIsNat DEF Utilisation
  <2> QED BY <2>1, <2>2
<1>3. BorrowApyBps(a) \in Nat
  <2> DEFINE cfg == config[a]
             u == Utilisation(a)
  <2>1. cfg.base \in Nat /\ cfg.slope1 \in Nat /\ cfg.slope2 \in Nat /\ cfg.kink \in Nat
    BY <1>1 DEF RateConfig
  <2>2. u \in Nat
    BY <1>2
  <2>3. AtLeastOne(cfg.kink) \in Nat \ {0} /\ AtLeastOne(BPS - cfg.kink) \in Nat \ {0}
    BY <2>1 DEF AtLeastOne, BPS
  <2>4. (cfg.slope1 * u) \div AtLeastOne(cfg.kink) \in Nat
    BY <2>1, <2>2, <2>3, ProductIsNat, DivIsNat
  <2>5. ~ (u <= cfg.kink) => u - cfg.kink \in Nat
    BY <2>1, <2>2
  <2>6. ~ (u <= cfg.kink) =>
          (cfg.slope2 * (u - cfg.kink)) \div AtLeastOne(BPS - cfg.kink) \in Nat
    BY <2>1, <2>3, <2>5, ProductIsNat, DivIsNat
  <2> HIDE DEF cfg, u
  <2>7. IF u <= cfg.kink
        THEN cfg.base + (cfg.slope1 * u) \div AtLeastOne(cfg.kink) \in Nat
        ELSE cfg.base + cfg.slope1
               + (cfg.slope2 * (u - cfg.kink)) \div AtLeastOne(BPS - cfg.kink) \in Nat
    BY <2>1, <2>4, <2>6
  <2> QED BY <2>7 DEF BorrowApyBps, cfg, u
<1>4. (ledger - lastAccrual[a]) \in Nat /\ BorrowApyBps(a) * LedgerTimeSecs \in Nat
  BY <1>1, <1>3 DEF LedgerTimeSecs
<1>5. (ledger - lastAccrual[a]) * (BorrowApyBps(a) * LedgerTimeSecs) * IndexScale \in Nat
  BY <1>1, <1>4, ProductIsNat
<1>6. BPS * Year \in Nat \ {0}
  BY <1>1 DEF BPS
<1> QED BY <1>5, <1>6, DivIsNat DEF IndexDelta

\* accrue_interest moves no index but the asset's, and that one not down.
LEMMA AccrualGrows ==
    ASSUME TypeOK, NEW a \in Assets, AccrueInterest(a)
    PROVE  /\ AccruedIndex(a) \in Nat
           /\ borrowIndex[a] <= AccruedIndex(a)
           /\ ~ Listed(a) => AccruedIndex(a) = borrowIndex[a]
           /\ borrowIndex' \in [Assets -> Nat]
           /\ borrowIndex'[a] = AccruedIndex(a)
           /\ \A b \in Assets \ {a} : borrowIndex'[b] = borrowIndex[b]
           /\ lastAccrual' \in [Assets -> 0..ledger]
<1>1. borrowIndex \in [Assets -> Nat] /\ lastAccrual \in [Assets -> 0..ledger] /\ ledger \in Nat
  BY BoundAssumption DEF TypeOK
<1>2. AccrualDue(a) => IndexDelta(a) \in Nat
  BY IndexDeltaIsNat DEF AccrueInterest
<1>3. AccruedIndex(a) \in Nat /\ borrowIndex[a] <= AccruedIndex(a)
  BY <1>1, <1>2 DEF AccruedIndex
<1>4. ~ Listed(a) => AccruedIndex(a) = borrowIndex[a]
  BY DEF AccruedIndex, AccrualDue
<1> QED BY <1>1, <1>3, <1>4 DEF AccrueInterest

\* A debt at an index not below its snapshot is at least its principal.
LEMMA OwedGrows ==
    ASSUME NEW p \in Nat, NEW snap \in Nat \ {0}, NEW idx \in Nat
    PROVE  /\ Owed(p, snap, idx) \in Nat
           /\ snap <= idx => p <= Owed(p, snap, idx)
<1>1. AtLeastOne(snap) = snap
  BY DEF AtLeastOne
<1>2. p * idx \in Nat /\ (p * idx) \div snap \in Nat
  BY ProductIsNat, DivIsNat
<1>3. snap <= idx => p <= (p * idx) \div snap
  <2> SUFFICES ASSUME snap <= idx PROVE p <= (p * idx) \div snap
    OBVIOUS
  <2>1. idx \in Nat \ {0}
    OBVIOUS
  <2> QED BY <2>1, ScalingGrows
<1> QED BY <1>1, <1>2, <1>3 DEF Owed

LEMMA MintIsNat ==
    ASSUME NEW td \in Int, NEW ts \in Nat, NEW amount \in Nat
    PROVE  MintFor(td, ts, amount) \in Nat
<1> DEFINE x == ts + VirtualUnits
           y == AtLeastOne(td + VirtualUnits)
<1>1. x \in Nat /\ y \in Nat \ {0}
  BY ScaleAssumption DEF AtLeastOne
<1> HIDE DEF x, y
<1>2. amount * x \in Nat /\ (amount * x) \div y \in Nat
  BY <1>1, ProductIsNat, DivIsNat
<1> QED BY <1>2 DEF MintFor, x, y

\* Shares minted for an amount redeem for no more than the amount.
LEMMA RoundTrip ==
    ASSUME NEW td \in Int, NEW ts \in Nat, NEW amount \in Nat
    PROVE  LET m == MintFor(td, ts, amount)
           IN  RedeemFor(td + amount, ts + m, m) <= amount
<1> DEFINE m == MintFor(td, ts, amount)
           s == ts + VirtualUnits
           d == td + VirtualUnits
           dd == AtLeastOne(d)
           paid == m * (d + amount)
<1> SUFFICES RedeemFor(td + amount, ts + m, m) <= amount
  OBVIOUS
<1>1. s \in Nat \ {0} /\ d \in Int /\ dd \in Nat \ {0} /\ d <= dd
  BY ScaleAssumption DEF AtLeastOne
<1> HIDE DEF s, d, dd
<1>2. amount * s \in Nat
  BY <1>1, ProductIsNat
<1>3. m = (amount * s) \div dd
  BY DEF MintFor, s, d, dd
<1>4. m \in Nat /\ m * dd <= amount * s
  BY <1>1, <1>2, <1>3, DivIsNat, DivBounds
<1> HIDE DEF m
<1>5. m * d <= m * dd
  <2>1. dd - d \in Nat
    BY <1>1
  <2>2. m * (dd - d) \in Nat
    BY <1>4, <2>1, ProductIsNat
  <2>3. m * (dd - d) = m * dd - m * d
    BY <1>1, <1>4
  <2>4. m * dd \in Int /\ m * d \in Int
    BY <1>1, <1>4
  <2> QED BY <2>2, <2>3, <2>4
<1>6. paid = m * d + m * amount /\ paid \in Int
  BY <1>1, <1>4
<1>7. amount * (s + m) = amount * s + m * amount
  BY <1>1, <1>4
<1>8. m * d \in Int /\ m * dd \in Int /\ m * amount \in Int
  BY <1>1, <1>4
<1> HIDE DEF paid
<1>9. paid <= amount * (s + m)
  BY <1>2, <1>4, <1>5, <1>6, <1>7, <1>8
<1>10. s + m \in Nat \ {0}
  BY <1>1, <1>4
<1>11. RedeemFor(td + amount, ts + m, m) = Truncated(paid, s + m)
  <2>1. /\ m * (td + amount + VirtualUnits) = paid
        /\ AtLeastOne(ts + m + VirtualUnits) = s + m
    BY <1>1, <1>4, <1>10, ScaleAssumption DEF paid, d, s, AtLeastOne
  <2> QED BY <2>1 DEF RedeemFor
<1>12. CASE paid >= 0
  <2> DEFINE q == paid \div (s + m)
             n == s + m
  <2>1. paid \in Nat /\ q \in Nat /\ q * n <= paid
    BY <1>6, <1>10, <1>12, DivIsNat, DivBounds
  <2> HIDE DEF q, n
  <2>2. n \in Nat \ {0} /\ q * n <= amount * n
    <3>1. q * n \in Nat /\ amount * n \in Nat /\ paid <= amount * n /\ n \in Nat \ {0}
      BY <1>9, <1>10, <2>1, ProductIsNat DEF n
    <3> QED BY <2>1, <3>1
  <2>3. ASSUME q > amount PROVE FALSE
    <3>1. q - amount \in Nat \ {0}
      BY <2>1, <2>3
    <3>2. (q - amount) * n \in Nat \ {0}
      BY <2>2, <3>1
    <3>3. (q - amount) * n = q * n - amount * n
      BY <2>1, <2>2
    <3>4. q * n \in Int /\ amount * n \in Int
      BY <2>1, <2>2
    <3> QED BY <2>2, <3>2, <3>3, <3>4
  <2>4. q <= amount
    BY <2>1, <2>3
  <2> QED BY <1>11, <1>12, <2>4 DEF Truncated, q
<1>13. CASE ~ (paid >= 0)
  <2>1. (-paid) \in Nat
    BY <1>6, <1>13
  <2>2. (-paid) \div (s + m) \in Nat
    BY <1>10, <2>1, DivIsNat
  <2> QED BY <1>11, <1>13, <2>2 DEF Truncated
<1> QED BY <1>12, <1>13

----------------------------------------------------------------------------
\* The inductive invariant.

\* What ties the index to the snapshots, and what an asset that was never
\* listed still is.
MarketFacts ==
    \A a \in Assets :
        /\ borrowIndex[a] >= IndexScale
        /\ listings[a] = 0 => /\ cash[a] = 0
                              /\ totalDeposit[a] = 0
                              /\ totalBorrow[a] = 0
                              /\ borrowIndex[a] = IndexScale
        /\ listings[a] <= 1 => \A u \in Users : snapIndex[a][u] <= borrowIndex[a]

IInv ==
    /\ TypeOK
    /\ CashMatchesBooks
    /\ MarketFacts

LEMMA InitIInv == Init => IInv
<1> SUFFICES ASSUME Init PROVE IInv
  OBVIOUS
<1> USE DEF Init
<1>1. TypeOK
  <2>1. (CHOOSE cfg \in RateConfigs : TRUE) \in RateConfigs
    BY InputAssumption
  <2> DEFINE first == CHOOSE cfg \in RateConfigs : TRUE
  <2>2. config = [a \in Assets |-> first] /\ first \in RateConfigs
    BY <2>1
  <2> HIDE DEF first
  <2>3. config \in [Assets -> RateConfigs]
    BY <2>2
  <2>4. /\ listings \in [Assets -> 0..MaxListings] /\ ledger \in 0..MaxLedger
        /\ lastAccrual \in [Assets -> 0..ledger]
    BY BoundAssumption
  <2>5. /\ depositShares \in [Assets -> [Users -> Nat]]
        /\ principal \in [Assets -> [Users -> Nat]]
        /\ snapIndex \in [Assets -> [Users -> Nat \ {0}]]
        /\ borrowIndex \in [Assets -> Nat]
    BY ScaleAssumption
  <2>6. /\ totalDeposit \in [Assets -> Int]
        /\ totalDepositShares \in [Assets -> Nat]
        /\ totalBorrow \in [Assets -> Int]
        /\ cash \in [Assets -> Nat]
    OBVIOUS
  <2>7. operators \subseteq Operators /\ paused \in BOOLEAN
    BY Zenon
  <2> QED BY <2>3, <2>4, <2>5, <2>6, <2>7 DEF TypeOK
<1>2. CashMatchesBooks
  BY DEF CashMatchesBooks
<1>3. MarketFacts
  BY ScaleAssumption DEF MarketFacts
<1> QED BY <1>1, <1>2, <1>3 DEF IInv

LEMMA AddAssetIInv ==
    ASSUME IInv, NEW a \in Assets, NEW cfg \in RateConfigs, AddAsset(a, cfg)
    PROVE  IInv'
<1> USE DEF IInv
<1>1. /\ listings \in [Assets -> Nat] /\ listings[a] < MaxListings
      /\ listings' = [listings EXCEPT ![a] = @ + 1]
      /\ UNCHANGED <<totalDepositShares, depositShares, principal, snapIndex, operators,
                     paused, cash, ledger>>
  BY BoundAssumption DEF TypeOK, AddAsset, accounts
<1>2. /\ totalDeposit'[a] = 0 /\ totalBorrow'[a] = 0 /\ borrowIndex'[a] = IndexScale
      /\ listings'[a] = listings[a] + 1
      /\ \A b \in Assets \ {a} :
            /\ totalDeposit'[b] = totalDeposit[b]
            /\ totalBorrow'[b] = totalBorrow[b]
            /\ borrowIndex'[b] = borrowIndex[b]
            /\ listings'[b] = listings[b]
  BY DEF TypeOK, AddAsset
<1>3. TypeOK'
  BY ScaleAssumption, BoundAssumption DEF TypeOK, AddAsset, accounts
<1>4. CashMatchesBooks'
  <2>1. listings'[a] <= 1 => cash'[a] = totalDeposit'[a] - totalBorrow'[a]
    BY <1>1, <1>2 DEF MarketFacts
  <2> QED BY <1>1, <1>2, <2>1 DEF CashMatchesBooks
<1>5. MarketFacts'
  BY <1>1, <1>2, ScaleAssumption DEF MarketFacts
<1> QED BY <1>3, <1>4, <1>5

LEMMA AdminIInv ==
    ASSUME IInv,
           \/ \E p \in BOOLEAN : SetPaused(p)
           \/ \E op \in Operators : AddOperator(op)
           \/ CloseLedger
           \/ UNCHANGED vars
    PROVE  IInv'
<1> USE DEF SetPaused, AddOperator, CloseLedger, vars, market, accrual, accounts, admin, IInv
<1>1. TypeOK'
  BY BoundAssumption DEF TypeOK
<1>2. CashMatchesBooks' /\ MarketFacts'
  BY DEF CashMatchesBooks, MarketFacts
<1> QED BY <1>1, <1>2

LEMMA SupplyIInv ==
    ASSUME IInv, NEW u \in Users, NEW a \in Assets, NEW amount \in Amounts,
           Supply(u, a, amount)
    PROVE  IInv'
<1> DEFINE minted == MintFor(totalDeposit[a], totalDepositShares[a], amount)
<1> USE DEF accounts, admin, IInv
<1>1. amount \in Nat /\ minted \in Nat
  <2>1. totalDeposit[a] \in Int /\ totalDepositShares[a] \in Nat
    BY DEF TypeOK
  <2>2. amount \in Nat
    BY InputAssumption DEF Supply
  <2> QED BY <2>1, <2>2, MintIsNat
<1>2. AccrueInterest(a) /\ Listed(a)
  BY DEF Supply, TokensIn
<1>3. /\ borrowIndex[a] <= borrowIndex'[a]
      /\ borrowIndex' \in [Assets -> Nat]
      /\ lastAccrual' \in [Assets -> 0..ledger]
      /\ \A b \in Assets \ {a} : borrowIndex'[b] = borrowIndex[b]
  BY <1>2, AccrualGrows
<1> HIDE DEF minted
<1>4. /\ depositShares' = [depositShares EXCEPT ![a][u] = @ + minted]
      /\ totalDepositShares' = [totalDepositShares EXCEPT ![a] = @ + minted]
      /\ totalDeposit' = [totalDeposit EXCEPT ![a] = @ + amount]
      /\ cash' = [cash EXCEPT ![a] = @ + amount]
      /\ UNCHANGED <<totalBorrow, principal, snapIndex, admin, ledger>>
  BY DEF Supply, TokensIn, minted
<1>5. TypeOK'
  BY <1>1, <1>3, <1>4 DEF TypeOK
<1>6. CashMatchesBooks'
  BY <1>1, <1>4 DEF CashMatchesBooks, TypeOK
<1>7. MarketFacts'
  BY <1>1, <1>2, <1>3, <1>4, ScaleAssumption DEF MarketFacts, TypeOK, Listed
<1> QED BY <1>5, <1>6, <1>7

LEMMA WithdrawIInv ==
    ASSUME IInv, NEW u \in Users, NEW a \in Assets, NEW shares \in Amounts,
           Withdraw(u, a, shares)
    PROVE  IInv'
<1> DEFINE amount == RedeemFor(totalDeposit[a], totalDepositShares[a], shares)
<1> USE DEF accounts, admin, IInv
<1>1. AccrueInterest(a) /\ Listed(a) /\ amount \in 0..cash[a]
  BY DEF Withdraw, TokensOut
<1>2. /\ borrowIndex[a] <= borrowIndex'[a]
      /\ borrowIndex' \in [Assets -> Nat]
      /\ lastAccrual' \in [Assets -> 0..ledger]
      /\ \A b \in Assets \ {a} : borrowIndex'[b] = borrowIndex[b]
  BY <1>1, AccrualGrows
<1> HIDE DEF amount
<1>3. /\ depositShares[a][u] >= shares /\ shares \in Nat
      /\ depositShares' = [depositShares EXCEPT ![a][u] = @ - shares]
      /\ totalDeposit' = [totalDeposit EXCEPT ![a] = @ - amount]
      /\ cash' = [cash EXCEPT ![a] = @ - amount]
      /\ UNCHANGED <<totalDepositShares, totalBorrow, principal, snapIndex, admin, ledger>>
  BY InputAssumption DEF Withdraw, TokensOut, amount
<1>4. TypeOK'
  BY <1>1, <1>2, <1>3 DEF TypeOK
<1>5. CashMatchesBooks'
  BY <1>1, <1>3 DEF CashMatchesBooks, TypeOK
<1>6. MarketFacts'
  BY <1>1, <1>2, <1>3, ScaleAssumption DEF MarketFacts, TypeOK, Listed
<1> QED BY <1>4, <1>5, <1>6

LEMMA CollateralIInv ==
    ASSUME IInv, NEW u \in Users, NEW a \in Assets, NEW amount \in Amounts,
           SupplyCollateral(u, a, amount) \/ WithdrawCollateral(u, a, amount)
    PROVE  IInv'
<1> USE DEF SupplyCollateral, WithdrawCollateral, market, accrual, admin, IInv
<1>1. TypeOK'
  <2>1. amount \in Nat
    BY InputAssumption
  <2>2. depositShares' \in [Assets -> [Users -> Nat]]
    <3>1. CASE SupplyCollateral(u, a, amount)
      BY <2>1, <3>1 DEF TypeOK
    <3>2. CASE WithdrawCollateral(u, a, amount)
      BY <2>1, <3>2 DEF TypeOK
    <3> QED BY <3>1, <3>2
  <2> QED BY <2>2 DEF TypeOK
<1>2. CashMatchesBooks' /\ MarketFacts'
  BY DEF CashMatchesBooks, MarketFacts
<1> QED BY <1>1, <1>2

LEMMA BorrowIInv ==
    ASSUME IInv, NEW u \in Users, NEW a \in Assets, NEW amount \in Amounts,
           NEW checkHf, BorrowInternal(u, a, amount, checkHf)
    PROVE  IInv'
<1> DEFINE taken == principal[a][u] + amount
<1> USE DEF admin, IInv
<1>1. AccrueInterest(a) /\ Listed(a) /\ amount \in Nat /\ amount <= cash[a]
  BY InputAssumption DEF BorrowInternal, TokensOut, TypeOK
<1>2. /\ borrowIndex[a] <= borrowIndex'[a]
      /\ borrowIndex'[a] = AccruedIndex(a)
      /\ borrowIndex' \in [Assets -> Nat]
      /\ lastAccrual' \in [Assets -> 0..ledger]
      /\ \A b \in Assets \ {a} : borrowIndex'[b] = borrowIndex[b]
  BY <1>1, AccrualGrows
<1>3. /\ principal' = [principal EXCEPT ![a][u] = taken]
      /\ snapIndex' = [snapIndex EXCEPT ![a][u] = borrowIndex'[a]]
      /\ totalBorrow' = [totalBorrow EXCEPT ![a] = @ + amount]
      /\ cash' = [cash EXCEPT ![a] = @ - amount]
      /\ UNCHANGED <<totalDeposit, totalDepositShares, depositShares, admin, ledger>>
  BY <1>2 DEF BorrowInternal, TokensOut
<1>4. taken \in Nat /\ principal[a][u] \in Nat
  BY <1>1 DEF TypeOK
<1>5. borrowIndex'[a] \in Nat \ {0}
  BY <1>2, ScaleAssumption DEF MarketFacts, TypeOK
<1>6. TypeOK'
  BY <1>1, <1>2, <1>3, <1>4, <1>5 DEF TypeOK
<1>7. CashMatchesBooks'
  BY <1>1, <1>3 DEF CashMatchesBooks, TypeOK
<1>8. MarketFacts'
  BY <1>1, <1>2, <1>3, ScaleAssumption DEF MarketFacts, TypeOK, Listed
<1> QED BY <1>6, <1>7, <1>8

LEMMA RepayIInv ==
    ASSUME IInv, NEW u \in Users, NEW a \in Assets, NEW amount \in Amounts,
           RepayInternal(u, a, amount)
    PROVE  IInv'
<1> DEFINE owed == Owed(principal[a][u], snapIndex[a][u], AccruedIndex(a))
           repaid == Lesser(amount, owed)
           rest == owed - repaid
<1> USE DEF admin, IInv
<1>1. AccrueInterest(a) /\ amount \in Nat \ {0}
  BY InputAssumption DEF RepayInternal
<1>2. /\ borrowIndex[a] <= borrowIndex'[a]
      /\ borrowIndex'[a] = AccruedIndex(a)
      /\ ~ Listed(a) => borrowIndex'[a] = borrowIndex[a]
      /\ borrowIndex' \in [Assets -> Nat]
      /\ lastAccrual' \in [Assets -> 0..ledger]
      /\ \A b \in Assets \ {a} : borrowIndex'[b] = borrowIndex[b]
  BY <1>1, AccrualGrows
<1>3. principal[a][u] \in Nat /\ snapIndex[a][u] \in Nat \ {0} /\ borrowIndex'[a] \in Nat \ {0}
  BY <1>2, ScaleAssumption DEF MarketFacts, TypeOK
<1>4. /\ owed \in Nat
      /\ snapIndex[a][u] <= borrowIndex'[a] => principal[a][u] <= owed
  BY <1>2, <1>3, OwedGrows
<1> HIDE DEF owed
<1>5. repaid \in Nat /\ rest \in Nat /\ rest + repaid = owed
  BY <1>1, <1>4 DEF Lesser
<1>6. /\ principal' = [principal EXCEPT ![a][u] = rest]
      /\ snapIndex' = [snapIndex EXCEPT ![a][u] = borrowIndex'[a]]
      /\ totalBorrow' = [totalBorrow EXCEPT ![a] = @ - repaid]
      /\ UNCHANGED <<totalDeposit, totalDepositShares, depositShares, admin, ledger>>
  BY <1>2 DEF RepayInternal, owed
<1>7. /\ repaid # 0 => Listed(a)
      /\ cash' = [cash EXCEPT ![a] = @ + repaid]
  <2>1. CASE repaid > 0
    BY <2>1 DEF RepayInternal, TokensIn, owed
  <2>2. CASE ~ (repaid > 0)
    BY <1>5, <2>2 DEF RepayInternal, owed, TypeOK
  <2> QED BY <2>1, <2>2
<1> HIDE DEF repaid, rest
<1>8. TypeOK'
  BY <1>2, <1>3, <1>5, <1>6, <1>7 DEF TypeOK
<1>9. CashMatchesBooks'
  BY <1>5, <1>6, <1>7 DEF CashMatchesBooks, TypeOK
<1>10. MarketFacts'
  BY <1>2, <1>3, <1>5, <1>6, <1>7, ScaleAssumption DEF MarketFacts, TypeOK, Listed
<1> QED BY <1>8, <1>9, <1>10

LEMMA NextIInv == IInv /\ [Next]_vars => IInv'
<1> SUFFICES ASSUME IInv, [Next]_vars PROVE IInv'
  OBVIOUS
<1>1. CASE \E a \in Assets, cfg \in RateConfigs : AddAsset(a, cfg)
  BY <1>1, AddAssetIInv
<1>2. CASE \/ \E p \in BOOLEAN : SetPaused(p)
           \/ \E op \in Operators : AddOperator(op)
           \/ CloseLedger
           \/ UNCHANGED vars
  BY <1>2, AdminIInv
<1>3. CASE \E u \in Users, a \in Assets, amount \in Amounts : Supply(u, a, amount)
  BY <1>3, SupplyIInv
<1>4. CASE \E u \in Users, a \in Assets, shares \in Amounts : Withdraw(u, a, shares)
  BY <1>4, WithdrawIInv
<1>5. CASE \E u \in Users, a \in Assets, amount \in Amounts :
              SupplyCollateral(u, a, amount) \/ WithdrawCollateral(u, a, amount)
  BY <1>5, CollateralIInv
<1>6. CASE \E u \in Users, a \in Assets, amount \in Amounts : Borrow(u, a, amount)
  BY <1>6, BorrowIInv DEF Borrow
<1>7. CASE \E op \in Operators, u \in Users, a \in Assets, amount \in Amounts :
              BorrowRaw(op, u, a, amount)
  BY <1>7, BorrowIInv DEF BorrowRaw
<1>8. CASE \E u \in Users, a \in Assets, amount \in Amounts : Repay(u, a, amount)
  BY <1>8, RepayIInv DEF Repay
<1>9. CASE \E op \in Operators, u \in Users, a \in Assets, amount \in Amounts :
              RepayOnBehalf(op, u, a, amount)
  BY <1>9, RepayIInv DEF RepayOnBehalf
<1> QED BY <1>1, <1>2, <1>3, <1>4, <1>5, <1>6, <1>7, <1>8, <1>9 DEF Next

LEMMA SpecIInv == Spec => []IInv
BY InitIInv, NextIInv, PTL DEF Spec

----------------------------------------------------------------------------
\* The theorems.

\* The types: what belongs to a user and what the pool holds is never negative,
\* whatever supply, withdraw, borrow and repay do to the totals.
THEOREM PoolTypeOK == Spec => []TypeOK
<1>1. IInv => TypeOK
  BY DEF IInv
<1> QED BY <1>1, SpecIInv, PTL

\* What the pool holds is its deposits less its borrows, for every asset listed once.
THEOREM PoolCashMatchesBooks == Spec => []CashMatchesBooks
<1>1. IInv => CashMatchesBooks
  BY DEF IInv
<1> QED BY <1>1, SpecIInv, PTL

\* L-1: total_borrow never exceeds total_deposit, for every asset listed once:
\* the pool cannot hold less than nothing.
THEOREM PoolBorrowsWithinDeposits ==
    Spec => [](\A a \in Assets : listings[a] <= 1 => totalBorrow[a] <= totalDeposit[a])
<1>1. IInv => \A a \in Assets : listings[a] <= 1 => totalBorrow[a] <= totalDeposit[a]
  <2> SUFFICES ASSUME IInv, NEW a \in Assets, listings[a] <= 1
               PROVE  totalBorrow[a] <= totalDeposit[a]
    OBVIOUS
  <2>1. cash[a] \in Nat /\ totalDeposit[a] \in Int /\ totalBorrow[a] \in Int
    BY DEF IInv, TypeOK
  <2>2. cash[a] = totalDeposit[a] - totalBorrow[a]
    BY DEF IInv, CashMatchesBooks
  <2> QED BY <2>1, <2>2
<1> QED BY <1>1, SpecIInv, PTL

\* L-2: no call and no sequence of calls lowers the borrow index of an asset,
\* but for listing it again.
THEOREM PoolIndexNeverFalls == Spec => IndexNeverFalls
<1> DEFINE Kept == \A a \in Assets : borrowIndex'[a] < borrowIndex[a] => listings'[a] > 1
<1>1. IInv /\ [Next]_vars => [Kept]_vars
  <2> SUFFICES ASSUME IInv, Next, NEW a \in Assets, borrowIndex'[a] < borrowIndex[a]
               PROVE  listings'[a] > 1
    OBVIOUS
  <2>1. borrowIndex[a] \in Nat /\ listings[a] \in Nat /\ borrowIndex[a] >= IndexScale
    BY BoundAssumption DEF IInv, TypeOK, MarketFacts
  <2>2. CASE \E b \in Assets, cfg \in RateConfigs : AddAsset(b, cfg)
    <3>1. PICK b \in Assets, cfg \in RateConfigs : AddAsset(b, cfg)
      BY <2>2
    <3>2. b = a
      BY <3>1 DEF AddAsset, IInv, TypeOK
    <3>3. listings'[a] = listings[a] + 1 /\ borrowIndex'[a] = IndexScale
      BY <3>1, <3>2 DEF AddAsset, IInv, TypeOK
    <3>4. listings[a] # 0
      BY <2>1, <3>3 DEF IInv, MarketFacts
    <3> QED BY <2>1, <3>3, <3>4
  <2>3. CASE borrowIndex' = borrowIndex
    BY <2>1, <2>3
  <2>4. CASE \E b \in Assets : AccrueInterest(b)
    <3>1. PICK b \in Assets : AccrueInterest(b)
      BY <2>4
    <3>2. /\ borrowIndex[b] <= borrowIndex'[b]
          /\ \A c \in Assets \ {b} : borrowIndex'[c] = borrowIndex[c]
          /\ borrowIndex'[a] \in Nat
      BY <3>1, AccrualGrows DEF IInv
    <3> QED BY <2>1, <3>2
  <2> QED BY <2>2, <2>3, <2>4
          DEF Next, SetPaused, AddOperator, Supply, Withdraw, SupplyCollateral,
              WithdrawCollateral, Borrow, BorrowRaw, Repay, RepayOnBehalf,
              BorrowInternal, RepayInternal, CloseLedger, accrual
<1> QED BY <1>1, SpecIInv, PTL DEF Spec, IndexNeverFalls

\* Owed at the snapshot's own index is the principal.
LEMMA OwedAtSnapshot ==
    ASSUME NEW p \in Nat, NEW idx \in Nat \ {0}
    PROVE  Owed(p, idx, idx) = p
<1> DEFINE q == (p * idx) \div idx
<1>1. AtLeastOne(idx) = idx
  BY DEF AtLeastOne
<1>2. q \in Nat /\ q * idx <= p * idx /\ p <= q
  BY ProductIsNat, DivIsNat, DivBounds, ScalingGrows
<1>3. ASSUME p < q PROVE FALSE
  <2> HIDE DEF q
  <2>1. idx * (p + 1) <= idx * q
    BY <1>2, <1>3, ProductMonotone
  <2>2. idx * (p + 1) = p * idx + idx /\ idx * q = q * idx
    BY <1>2
  <2>3. p * idx \in Nat /\ q * idx \in Nat
    BY <1>2, ProductIsNat
  <2> QED BY <1>2, <2>1, <2>2, <2>3
<1>4. q = p
  BY <1>2, <1>3
<1> QED BY <1>1, <1>4 DEF Owed

\* The debts at the index after the step, before the step.
LEMMA DebtsBefore ==
    ASSUME IInv, NEW a \in Assets, borrowIndex'[a] \in Nat
    PROVE  /\ [v \in Users |-> Owed(principal[a][v], snapIndex[a][v], borrowIndex'[a])]
                 \in [1..NumUsers -> Int]
           /\ DebtsAt(a, borrowIndex'[a]) \in Int
<1> DEFINE f == [v \in Users |-> Owed(principal[a][v], snapIndex[a][v], borrowIndex'[a])]
<1>1. \A v \in Users : Owed(principal[a][v], snapIndex[a][v], borrowIndex'[a]) \in Nat
  BY OwedGrows DEF IInv, TypeOK
<1>2. f \in [1..NumUsers -> Int]
  BY <1>1 DEF Users
<1>3. DebtsAt(a, borrowIndex'[a]) = Total(f, NumUsers)
  BY DEF DebtsAt
<1> HIDE DEF f
<1>4. Total(f, NumUsers) \in Int
  BY <1>2, NumUsersAssumption, TotalIsInt
<1> QED BY <1>2, <1>3, <1>4 DEF f

\* A step that touches no borrower of the asset, priced at the index after it.
LEMMA DebtsUntouched ==
    ASSUME IInv, NEW a \in Assets, borrowIndex'[a] \in Nat,
           principal'[a] = principal[a], snapIndex'[a] = snapIndex[a]
    PROVE  DebtsAt(a, borrowIndex[a])' - DebtsAt(a, borrowIndex'[a]) = 0
<1>1. DebtsAt(a, borrowIndex'[a]) \in Int
  BY DebtsBefore
<1>2. DebtsAt(a, borrowIndex[a])' = DebtsAt(a, borrowIndex'[a])
  BY DEF DebtsAt, Users
<1> QED BY <1>1, <1>2

\* A step that gives one borrower a new principal at the current index.
LEMMA DebtsOfOneMoved ==
    ASSUME IInv, NEW a \in Assets, NEW u \in Users, NEW p \in Nat,
           borrowIndex'[a] \in Nat \ {0},
           principal' = [principal EXCEPT ![a][u] = p],
           snapIndex' = [snapIndex EXCEPT ![a][u] = borrowIndex'[a]]
    PROVE  DebtsAt(a, borrowIndex[a])' - DebtsAt(a, borrowIndex'[a])
             = p - Owed(principal[a][u], snapIndex[a][u], borrowIndex'[a])
<1> DEFINE idx == borrowIndex'[a]
           f == [v \in Users |-> Owed(principal[a][v], snapIndex[a][v], idx)]
           g == [v \in Users |-> Owed(principal'[a][v], snapIndex'[a][v], idx)]
<1>1. f \in [1..NumUsers -> Int] /\ DebtsAt(a, idx) \in Int
  BY DebtsBefore
<1>2. Owed(p, idx, idx) = p
  BY OwedAtSnapshot
<1>3. /\ principal'[a] = [principal[a] EXCEPT ![u] = p]
      /\ snapIndex'[a] = [snapIndex[a] EXCEPT ![u] = idx]
      /\ principal[a] \in [Users -> Nat] /\ snapIndex[a] \in [Users -> Nat \ {0}]
  BY DEF IInv, TypeOK
<1>4. ASSUME NEW v \in Users
      PROVE  g[v] = IF v = u THEN p ELSE f[v]
  <2>1. CASE v = u
    BY <1>2, <1>3, <2>1
  <2>2. CASE v # u
    BY <1>3, <2>2
  <2> QED BY <2>1, <2>2
<1>5. g = [f EXCEPT ![u] = p]
  <2>1. DOMAIN f = Users /\ DOMAIN g = Users
    OBVIOUS
  <2>2. g = [v \in Users |-> g[v]]
    OBVIOUS
  <2> HIDE DEF f, g
  <2> QED BY <1>4, <2>1, <2>2
<1>6. DebtsAt(a, borrowIndex[a])' = Total(g, NumUsers)
  BY DEF DebtsAt, Users
<1>7. DebtsAt(a, idx) = Total(f, NumUsers)
  BY DEF DebtsAt
<1>8. f[u] = Owed(principal[a][u], snapIndex[a][u], idx)
  OBVIOUS
<1> HIDE DEF f, g, idx
<1>9. Total([f EXCEPT ![u] = p], NumUsers) = Total(f, NumUsers) + p - f[u]
  <2>1. u \in 1..NumUsers /\ p \in Int
    BY DEF Users
  <2> QED BY <1>1, <2>1, NumUsersAssumption, TotalOfUpdate
<1>10. f[u] \in Int
  <2>1. u \in 1..NumUsers
    BY DEF Users
  <2> QED BY <1>1, <2>1
<1>11. DebtsAt(a, borrowIndex[a])' = DebtsAt(a, idx) + p - f[u]
  BY <1>5, <1>6, <1>7, <1>9
<1>12. DebtsAt(a, borrowIndex[a])' - DebtsAt(a, idx) = p - f[u]
  BY <1>1, <1>10, <1>11
<1> QED BY <1>8, <1>12 DEF idx

\* What DebtsMoveWithTokens says of one asset and one step.
MovedWithTokens(a) ==
    LET grown == DebtsAt(a, borrowIndex[a])' - DebtsAt(a, borrowIndex'[a])
        lent == (cash[a] - totalDeposit[a]) - (cash'[a] - totalDeposit'[a])
    IN  listings'[a] <= 1 => /\ grown <= lent
                             /\ lent <= 0 => grown = lent

LEMMA BorrowMoves ==
    ASSUME IInv, IInv', NEW u \in Users, NEW a \in Assets, NEW amount \in Amounts,
           NEW checkHf, BorrowInternal(u, a, amount, checkHf)
    PROVE  MovedWithTokens(a)
<1> DEFINE owed == Owed(principal[a][u], snapIndex[a][u], borrowIndex'[a])
           taken == principal[a][u] + amount
<1>1. AccrueInterest(a) /\ amount \in Nat \ {0}
  BY InputAssumption DEF BorrowInternal
<1>2. /\ borrowIndex'[a] = AccruedIndex(a) /\ borrowIndex[a] <= borrowIndex'[a]
      /\ borrowIndex'[a] \in Nat \ {0}
  <2>1. borrowIndex'[a] = AccruedIndex(a) /\ borrowIndex[a] <= borrowIndex'[a]
    BY <1>1, AccrualGrows DEF IInv
  <2>2. borrowIndex'[a] \in Nat \ {0}
    BY ScaleAssumption DEF IInv, TypeOK, MarketFacts
  <2> QED BY <2>1, <2>2
<1>3. /\ principal' = [principal EXCEPT ![a][u] = taken]
      /\ snapIndex' = [snapIndex EXCEPT ![a][u] = borrowIndex'[a]]
      /\ cash' = [cash EXCEPT ![a] = @ - amount]
      /\ totalDeposit' = totalDeposit /\ listings' = listings
  BY <1>2 DEF BorrowInternal, TokensOut, admin
<1>4. principal[a][u] \in Nat /\ snapIndex[a][u] \in Nat \ {0} /\ taken \in Nat
  BY <1>1 DEF IInv, TypeOK
<1>5. DebtsAt(a, borrowIndex[a])' - DebtsAt(a, borrowIndex'[a]) = taken - owed
  <2> HIDE DEF taken
  <2> QED BY <1>2, <1>3, <1>4, DebtsOfOneMoved
<1>6. listings[a] <= 1 => principal[a][u] <= owed
  <2>1. listings[a] <= 1 => snapIndex[a][u] <= borrowIndex[a]
    BY DEF IInv, MarketFacts
  <2>2. borrowIndex[a] \in Nat
    BY DEF IInv, TypeOK
  <2>3. snapIndex[a][u] <= borrowIndex'[a] => principal[a][u] <= owed
    BY <1>2, <1>4, OwedGrows
  <2> HIDE DEF owed
  <2> QED BY <1>2, <1>4, <2>1, <2>2, <2>3
<1>7. owed \in Nat
  BY <1>2, <1>4, OwedGrows
<1>8. (cash[a] - totalDeposit[a]) - (cash'[a] - totalDeposit'[a]) = amount
  BY <1>1, <1>3 DEF IInv, TypeOK
<1> HIDE DEF owed
<1>9. listings'[a] <= 1 => taken - owed <= amount
  BY <1>1, <1>3, <1>4, <1>6, <1>7
<1> HIDE DEF taken
<1> QED BY <1>1, <1>5, <1>8, <1>9 DEF MovedWithTokens

LEMMA RepayMoves ==
    ASSUME IInv, IInv', NEW u \in Users, NEW a \in Assets, NEW amount \in Amounts,
           RepayInternal(u, a, amount)
    PROVE  MovedWithTokens(a)
<1> DEFINE owed == Owed(principal[a][u], snapIndex[a][u], AccruedIndex(a))
           repaid == Lesser(amount, owed)
           rest == owed - repaid
<1>1. AccrueInterest(a) /\ amount \in Nat \ {0}
  BY InputAssumption DEF RepayInternal
<1>2. borrowIndex'[a] = AccruedIndex(a) /\ borrowIndex'[a] \in Nat \ {0}
  <2>1. borrowIndex'[a] = AccruedIndex(a)
    BY <1>1, AccrualGrows DEF IInv
  <2>2. borrowIndex'[a] \in Nat \ {0}
    BY ScaleAssumption DEF IInv, TypeOK, MarketFacts
  <2> QED BY <2>1, <2>2
<1>3. owed \in Nat
  <2>1. principal[a][u] \in Nat /\ snapIndex[a][u] \in Nat \ {0}
    BY DEF IInv, TypeOK
  <2> QED BY <1>2, <2>1, OwedGrows
<1>4. /\ principal' = [principal EXCEPT ![a][u] = rest]
      /\ snapIndex' = [snapIndex EXCEPT ![a][u] = borrowIndex'[a]]
      /\ totalDeposit' = totalDeposit /\ listings' = listings
  BY <1>2 DEF RepayInternal, admin
<1>5. repaid > 0 => cash' = [cash EXCEPT ![a] = @ + repaid]
  BY DEF RepayInternal, TokensIn
<1>6. ~ (repaid > 0) => cash' = cash
  BY DEF RepayInternal
<1>7. owed = Owed(principal[a][u], snapIndex[a][u], borrowIndex'[a])
  BY <1>2
<1> HIDE DEF owed
<1>8. repaid \in Nat /\ rest \in Nat /\ rest - owed = -repaid
  BY <1>1, <1>3 DEF Lesser
<1> HIDE DEF repaid, rest
<1>9. DebtsAt(a, borrowIndex[a])' - DebtsAt(a, borrowIndex'[a]) = rest - owed
  BY <1>2, <1>4, <1>7, <1>8, DebtsOfOneMoved
<1>10. cash'[a] = cash[a] + repaid
  BY <1>5, <1>6, <1>8 DEF IInv, TypeOK
<1>11. (cash[a] - totalDeposit[a]) - (cash'[a] - totalDeposit'[a]) = -repaid
  BY <1>4, <1>8, <1>10 DEF IInv, TypeOK
<1> QED BY <1>8, <1>9, <1>11 DEF MovedWithTokens

LEMMA OthersMove ==
    ASSUME IInv, NEW a \in Assets, borrowIndex'[a] \in Nat,
           principal'[a] = principal[a], snapIndex'[a] = snapIndex[a],
           listings'[a] <= 1 => cash'[a] - totalDeposit'[a] = cash[a] - totalDeposit[a]
    PROVE  MovedWithTokens(a)
<1>1. DebtsAt(a, borrowIndex[a])' - DebtsAt(a, borrowIndex'[a]) = 0
  BY DebtsUntouched
<1>2. cash[a] - totalDeposit[a] \in Int
  BY DEF IInv, TypeOK
<1> QED BY <1>1, <1>2 DEF MovedWithTokens

\* No call moves what borrowers owe but by the tokens it moves, whatever accrued
\* in the same call; borrow_internal may forget interest on top.
THEOREM PoolDebtsMoveWithTokens == Spec => DebtsMoveWithTokens
<1> DEFINE Moves == \A a \in Assets : MovedWithTokens(a)
<1>1. IInv /\ [Next]_vars => [Moves]_vars
  <2> SUFFICES ASSUME IInv, Next, NEW a \in Assets
               PROVE  MovedWithTokens(a)
    OBVIOUS
  <2>1. IInv' /\ borrowIndex'[a] \in Nat
    <3>1. IInv'
      BY NextIInv
    <3> QED BY <3>1 DEF IInv, TypeOK
  <2>2. CASE \E b \in Assets, cfg \in RateConfigs : AddAsset(b, cfg)
    <3>1. PICK b \in Assets, cfg \in RateConfigs : AddAsset(b, cfg)
      BY <2>2
    <3>2. principal' = principal /\ snapIndex' = snapIndex /\ cash' = cash
      BY <3>1 DEF AddAsset, accounts
    <3>3. listings'[a] <= 1 => totalDeposit'[a] = totalDeposit[a]
      <4>1. CASE b = a
        <5>1. listings'[a] = listings[a] + 1 /\ totalDeposit'[a] = 0 /\ listings[a] \in Nat
          BY <3>1, <4>1, BoundAssumption DEF AddAsset, IInv, TypeOK
        <5> QED BY <5>1 DEF IInv, MarketFacts
      <4>2. CASE b # a
        BY <3>1, <4>2 DEF AddAsset, IInv, TypeOK
      <4> QED BY <4>1, <4>2
    <3> QED BY <2>1, <3>2, <3>3, OthersMove
  <2>3. CASE \/ \E p \in BOOLEAN : SetPaused(p)
             \/ \E op \in Operators : AddOperator(op)
             \/ \E v \in Users, b \in Assets, amount \in Amounts : SupplyCollateral(v, b, amount)
             \/ \E v \in Users, b \in Assets, amount \in Amounts : WithdrawCollateral(v, b, amount)
             \/ CloseLedger
    <3>1. principal' = principal /\ snapIndex' = snapIndex /\ cash' = cash
          /\ totalDeposit' = totalDeposit
      BY <2>3 DEF SetPaused, AddOperator, SupplyCollateral, WithdrawCollateral, CloseLedger,
                  market, accounts
    <3> QED BY <2>1, <3>1, OthersMove
  <2>4. CASE \E v \in Users, b \in Assets, amount \in Amounts : Supply(v, b, amount)
    <3>1. PICK v \in Users, b \in Assets, amount \in Amounts : Supply(v, b, amount)
      BY <2>4
    <3>2. /\ principal' = principal /\ snapIndex' = snapIndex /\ amount \in Int
          /\ cash' = [cash EXCEPT ![b] = @ + amount]
          /\ totalDeposit' = [totalDeposit EXCEPT ![b] = @ + amount]
      BY <3>1, InputAssumption DEF Supply, TokensIn
    <3>3. cash'[a] - totalDeposit'[a] = cash[a] - totalDeposit[a]
      BY <3>2 DEF IInv, TypeOK
    <3> QED BY <2>1, <3>2, <3>3, OthersMove
  <2>5. CASE \E v \in Users, b \in Assets, shares \in Amounts : Withdraw(v, b, shares)
    <3>1. PICK v \in Users, b \in Assets, shares \in Amounts : Withdraw(v, b, shares)
      BY <2>5
    <3> DEFINE amount == RedeemFor(totalDeposit[b], totalDepositShares[b], shares)
    <3>2. /\ principal' = principal /\ snapIndex' = snapIndex /\ amount \in 0..cash[b]
          /\ cash' = [cash EXCEPT ![b] = @ - amount]
          /\ totalDeposit' = [totalDeposit EXCEPT ![b] = @ - amount]
      BY <3>1 DEF Withdraw, TokensOut
    <3> HIDE DEF amount
    <3>3. cash'[a] - totalDeposit'[a] = cash[a] - totalDeposit[a]
      BY <3>2 DEF IInv, TypeOK
    <3> QED BY <2>1, <3>2, <3>3, OthersMove
  <2>6. ASSUME NEW v \in Users, NEW b \in Assets, NEW amount \in Amounts, NEW checkHf,
               BorrowInternal(v, b, amount, checkHf)
        PROVE  MovedWithTokens(a)
    <3>1. CASE b = a
      BY <2>1, <2>6, <3>1, BorrowMoves
    <3>2. CASE b # a
      <4>1. /\ principal'[a] = principal[a] /\ snapIndex'[a] = snapIndex[a]
            /\ cash'[a] = cash[a] /\ totalDeposit'[a] = totalDeposit[a]
        BY <2>6, <3>2 DEF BorrowInternal, TokensOut, IInv, TypeOK
      <4> QED BY <2>1, <4>1, OthersMove
    <3> QED BY <3>1, <3>2
  <2>7. ASSUME NEW v \in Users, NEW b \in Assets, NEW amount \in Amounts,
               RepayInternal(v, b, amount)
        PROVE  MovedWithTokens(a)
    <3>1. CASE b = a
      BY <2>1, <2>7, <3>1, RepayMoves
    <3>2. CASE b # a
      <4>1. /\ principal'[a] = principal[a] /\ snapIndex'[a] = snapIndex[a]
            /\ totalDeposit'[a] = totalDeposit[a]
        BY <2>7, <3>2 DEF RepayInternal, IInv, TypeOK
      <4>2. cash'[a] = cash[a]
        BY <2>7, <3>2 DEF RepayInternal, TokensIn, IInv, TypeOK
      <4> QED BY <2>1, <4>1, <4>2, OthersMove
    <3> QED BY <3>1, <3>2
  <2> QED BY <2>2, <2>3, <2>4, <2>5, <2>6, <2>7
          DEF Next, Borrow, BorrowRaw, Repay, RepayOnBehalf
<1>2. [Moves]_vars <=>
        [\A a \in Assets :
           LET grown == DebtsAt(a, borrowIndex[a])' - DebtsAt(a, borrowIndex'[a])
               lent == (cash[a] - totalDeposit[a]) - (cash'[a] - totalDeposit'[a])
           IN  listings'[a] <= 1 => /\ grown <= lent
                                    /\ lent <= 0 => grown = lent]_vars
  BY DEF MovedWithTokens
<1> QED BY <1>1, <1>2, SpecIInv, PTL DEF Spec, DebtsMoveWithTokens

\* L-4 with the virtual offset: what supply mints redeems for no more than what
\* was supplied, whatever the share price and whoever moved it.
THEOREM PoolSupplyNeverProfits == Spec => SupplyNeverProfits
<1> DEFINE NoGain ==
        \A u \in Users, a \in Assets, amount \in Amounts :
           Supply(u, a, amount) =>
               RedeemFor(totalDeposit'[a], totalDepositShares'[a],
                         depositShares'[a][u] - depositShares[a][u]) <= amount
<1>1. IInv /\ [Next]_vars => [NoGain]_vars
  <2> SUFFICES ASSUME IInv, NEW u \in Users, NEW a \in Assets, NEW amount \in Amounts,
                      Supply(u, a, amount)
               PROVE  RedeemFor(totalDeposit'[a], totalDepositShares'[a],
                                depositShares'[a][u] - depositShares[a][u]) <= amount
    OBVIOUS
  <2> DEFINE td == totalDeposit[a]
             ts == totalDepositShares[a]
             m == MintFor(td, ts, amount)
  <2>1. td \in Int /\ ts \in Nat /\ amount \in Nat
    BY InputAssumption DEF IInv, TypeOK, Supply
  <2>2. m \in Nat
    BY <2>1, MintIsNat
  <2>3. /\ totalDeposit' = [totalDeposit EXCEPT ![a] = @ + amount]
        /\ totalDepositShares' = [totalDepositShares EXCEPT ![a] = @ + m]
        /\ depositShares' = [depositShares EXCEPT ![a][u] = @ + m]
    BY DEF Supply
  <2> HIDE DEF m
  <2>4. /\ totalDeposit'[a] = td + amount /\ totalDepositShares'[a] = ts + m
        /\ depositShares'[a][u] - depositShares[a][u] = m
    BY <2>1, <2>2, <2>3 DEF IInv, TypeOK
  <2>5. RedeemFor(td + amount, ts + m, m) <= amount
    BY <2>1, RoundTrip DEF m
  <2> QED BY <2>4, <2>5
<1> QED BY <1>1, SpecIInv, PTL DEF Spec, SupplyNeverProfits

============================================================================
