------------------------ MODULE LendingMarket_proofs ------------------------
(***************************************************************************)
(* First the vault alone: its totals are the sums of its positions, for    *)
(* every number of users and every set of assets.  Types and sums are      *)
(* inductive together: that a withdrawal leaves the total non-negative     *)
(* takes the sum.                                                          *)
(*                                                                         *)
(* Then the market.  The books of the vault and of the pool hold through   *)
(* every flow of the controller and every liquidation.  A flow is a        *)
(* conjunction of actions of the contracts it calls, so most steps are a   *)
(* step of the vault and a step of the pool; a liquidation seizes twice in *)
(* one step of the market, which is no step of the vault and has a lemma   *)
(* of its own.  With the types, the facts about the index and the listings *)
(* that makes MarketFactsInv, from which follow the two action properties: *)
(* seizures are paid for, and what the controller lets through cannot be   *)
(* liquidated on the spot.                                                 *)
(***************************************************************************)
EXTENDS LendingMarket, AccountSums_proofs

Positions == [Assets -> [Users -> Nat]]

VaultInv == VaultTypeOK /\ TotalsMatchPositions

----------------------------------------------------------------------------
\* What the calls do to the sums.

\* Writing one entry changes the sum of its asset by as much, and no other's.
LEMMA SumOfWrite ==
    ASSUME NumUsers \in Nat,
           NEW pos \in Positions, NEW a \in Assets, NEW u \in Users, NEW v \in Nat
    PROVE  LET new == [pos EXCEPT ![a][u] = v]
           IN  /\ new \in Positions
               /\ Total(pos[a], NumUsers) \in Int
               /\ Total(new[a], NumUsers) = Total(pos[a], NumUsers) + v - pos[a][u]
               /\ \A b \in Assets \ {a} : new[b] = pos[b]
<1> DEFINE new == [pos EXCEPT ![a][u] = v]
<1>1. pos[a] \in [1..NumUsers -> Int] /\ u \in 1..NumUsers /\ v \in Int
  BY DEF Positions, Users
<1>2. new \in Positions /\ new[a] = [pos[a] EXCEPT ![u] = v]
  BY DEF Positions
<1>3. \A b \in Assets \ {a} : new[b] = pos[b]
  BY DEF Positions
<1>4. Total(pos[a], NumUsers) \in Int
  BY <1>1, TotalIsInt
<1>5. Total([pos[a] EXCEPT ![u] = v], NumUsers) = Total(pos[a], NumUsers) + v - pos[a][u]
  BY <1>1, TotalOfUpdate
<1> QED BY <1>2, <1>3, <1>4, <1>5

\* A seizure moves value between two entries, or none when they are the same.
LEMMA MovedKeepsSums ==
    ASSUME NumUsers \in Nat,
           NEW pos \in Positions, NEW a \in Assets, NEW giver \in Users,
           NEW taker \in Users, NEW amount \in Nat, amount <= pos[a][giver]
    PROVE  /\ Moved(pos, a, giver, taker, amount) \in Positions
           /\ \A b \in Assets :
                 Total(Moved(pos, a, giver, taker, amount)[b], NumUsers)
                   = Total(pos[b], NumUsers)
<1> DEFINE less == pos[a][giver] - amount
           low == [pos EXCEPT ![a][giver] = less]
           more == low[a][taker] + amount
           new == [low EXCEPT ![a][taker] = more]
<1>1. less \in Nat /\ pos[a][giver] \in Nat /\ pos[a][giver] - less = amount
  BY DEF Positions
<1>2. Moved(pos, a, giver, taker, amount) = new
  BY DEF Moved
<1> HIDE DEF less
<1>3. /\ low \in Positions
      /\ Total(pos[a], NumUsers) \in Int
      /\ Total(low[a], NumUsers) = Total(pos[a], NumUsers) + less - pos[a][giver]
      /\ \A b \in Assets \ {a} : low[b] = pos[b]
  BY <1>1, SumOfWrite
<1> HIDE DEF low
<1>4. more \in Nat /\ low[a][taker] \in Nat /\ more - low[a][taker] = amount
  BY <1>3 DEF Positions
<1> HIDE DEF more
<1>5. /\ new \in Positions
      /\ Total(low[a], NumUsers) \in Int
      /\ Total(new[a], NumUsers) = Total(low[a], NumUsers) + more - low[a][taker]
      /\ \A b \in Assets \ {a} : new[b] = low[b]
  BY <1>3, <1>4, SumOfWrite
<1> HIDE DEF new
<1>6. Total(new[a], NumUsers) = Total(pos[a], NumUsers)
  BY <1>1, <1>3, <1>4, <1>5
<1>7. \A b \in Assets : Total(new[b], NumUsers) = Total(pos[b], NumUsers)
  BY <1>3, <1>5, <1>6
<1> QED BY <1>2, <1>5, <1>7

\* Transfers keep the vault's holdings non-negative and leave the books alone.
LEMMA TransferTypes ==
    ASSUME VaultTypeOK, NEW a \in Assets, NEW amount \in Nat,
           VaultTokensIn(a, amount) \/ VaultTokensOut(a, amount)
    PROVE  vaultCash' \in [Tokens -> Nat]
<1>1. CASE HasToken(a)
  <2>1. PICK t \in Tokens : t = tokenOf[a]
    BY <1>1 DEF VaultTypeOK, HasToken
  <2>2. vaultCash \in [Tokens -> Nat] /\ vaultCash[t] \in Nat
    BY <2>1 DEF VaultTypeOK
  <2>3. \A v \in Nat : [vaultCash EXCEPT ![t] = v] \in [Tokens -> Nat]
    BY <2>2
  <2>4. CASE VaultTokensIn(a, amount)
    <3>1. vaultCash' = [vaultCash EXCEPT ![t] = vaultCash[t] + amount]
      BY <1>1, <2>1, <2>4 DEF VaultTokensIn
    <3> QED BY <2>2, <2>3, <3>1
  <2>5. CASE VaultTokensOut(a, amount)
    <3>1. /\ vaultCash' = [vaultCash EXCEPT ![t] = vaultCash[t] - amount]
          /\ amount <= vaultCash[t]
      BY <1>1, <2>1, <2>5 DEF VaultTokensOut
    <3>2. vaultCash[t] - amount \in Nat
      BY <2>2, <3>1
    <3> QED BY <2>3, <3>1, <3>2
  <2> QED BY <2>4, <2>5
<1>2. CASE ~ HasToken(a)
  BY <1>2 DEF VaultTokensIn, VaultTokensOut, VaultTypeOK
<1> QED BY <1>1, <1>2

----------------------------------------------------------------------------
\* The induction.

LEMMA VaultInitInv == VaultInit => VaultInv
<1> SUFFICES ASSUME VaultInit PROVE VaultInv
  OBVIOUS
<1>1. VaultTypeOK
  <2>1. /\ position \in [Assets -> [Users -> Nat]] /\ totalByAsset \in [Assets -> Nat]
        /\ vaultOperators \subseteq Operators /\ vaultCash \in [Tokens -> Nat]
    BY DEF VaultInit
  <2>2. liqThreshold \in [Assets -> BpsRange]
    BY DEF VaultInit, DefaultLiqThreshold, BpsRange
  <2>3. tokenOf \in [Assets -> Tokens \union {NoToken}] /\ vaultSkips \in BOOLEAN
    BY DEF VaultInit
  <2> QED BY <2>1, <2>2, <2>3 DEF VaultTypeOK
<1>2. \A a \in Assets : position[a] = [u \in 1..NumUsers |-> 0] /\ totalByAsset[a] = 0
  BY DEF VaultInit, Users
<1>3. Total([u \in 1..NumUsers |-> 0], NumUsers) = 0
  BY VaultAssumption, TotalOfZeros
<1> QED BY <1>1, <1>2, <1>3 DEF VaultInv, TotalsMatchPositions

\* The types of the next state, one conjunct at a time.
LEMMA NextTypes ==
    ASSUME position' \in Positions, totalByAsset' \in [Assets -> Nat],
           liqThreshold' \in [Assets -> BpsRange],
           tokenOf' \in [Assets -> Tokens \union {NoToken}],
           vaultOperators' \subseteq Operators,
           vaultSkips' \in BOOLEAN,
           vaultCash' \in [Tokens -> Nat]
    PROVE  VaultTypeOK'
BY DEF VaultTypeOK, Positions

\* deposit and withdraw change a position and the total by the same amount.
Booked(a, u, v) ==
    /\ position' = [position EXCEPT ![a][u] = v]
    /\ totalByAsset' = [totalByAsset EXCEPT ![a] = @ + v - position[a][u]]
    /\ vaultCash' \in [Tokens -> Nat]
    /\ UNCHANGED vaultAdmin

LEMMA BookedInv ==
    ASSUME VaultInv, NEW a \in Assets, NEW u \in Users, NEW v \in Nat, Booked(a, u, v)
    PROVE  VaultInv'
<1>1. /\ position \in Positions /\ totalByAsset \in [Assets -> Nat]
      /\ NumUsers \in Nat
      /\ \A b \in Assets : totalByAsset[b] = Total(position[b], NumUsers)
  BY VaultAssumption DEF VaultInv, VaultTypeOK, TotalsMatchPositions, Positions
<1>2. /\ position' \in Positions
      /\ Total(position'[a], NumUsers) = Total(position[a], NumUsers) + v - position[a][u]
      /\ \A b \in Assets \ {a} : position'[b] = position[b]
  <2> DEFINE new == [position EXCEPT ![a][u] = v]
  <2>1. /\ new \in Positions
        /\ Total(new[a], NumUsers) = Total(position[a], NumUsers) + v - position[a][u]
        /\ \A b \in Assets \ {a} : new[b] = position[b]
    BY <1>1, SumOfWrite
  <2>2. position' = new
    BY DEF Booked
  <2> HIDE DEF new
  <2> QED BY <2>1, <2>2
<1>3. \A b \in Assets : totalByAsset'[b] = Total(position'[b], NumUsers)
  BY <1>1, <1>2 DEF Booked
<1>4. totalByAsset'[a] \in Nat
  <2>1. position'[a] \in [1..NumUsers -> Nat] /\ u \in 1..NumUsers
    BY <1>2 DEF Positions, Users
  <2>2. position'[a][u] <= Total(position'[a], NumUsers)
    <3>1. \A f \in [1..NumUsers -> Nat] : f[u] <= Total(f, NumUsers)
      BY <1>1, <2>1, TotalDominates
    <3> QED BY <2>1, <3>1
  <2>3. position'[a] \in [1..NumUsers -> Int]
    BY <2>1
  <2>4. Total(position'[a], NumUsers) \in Int
    <3>1. \A f \in [1..NumUsers -> Int] : Total(f, NumUsers) \in Int
      BY <1>1, TotalIsInt
    <3> QED BY <2>3, <3>1
  <2>5. totalByAsset'[a] = Total(position'[a], NumUsers) /\ position'[a][u] \in Nat
    BY <1>3, <2>1
  <2> QED BY <2>2, <2>4, <2>5
<1>5. totalByAsset' \in [Assets -> Nat]
  BY <1>1, <1>4 DEF Booked
<1>6. VaultTypeOK'
  <2>1. /\ liqThreshold' \in [Assets -> BpsRange]
        /\ tokenOf' \in [Assets -> Tokens \union {NoToken}]
        /\ vaultOperators' \subseteq Operators
        /\ vaultSkips' \in BOOLEAN
        /\ vaultCash' \in [Tokens -> Nat]
    <3>1. /\ UNCHANGED <<liqThreshold, tokenOf, vaultOperators, vaultSkips>>
          /\ vaultCash' \in [Tokens -> Nat]
      BY DEF Booked, vaultAdmin
    <3>2. /\ liqThreshold \in [Assets -> BpsRange]
          /\ tokenOf \in [Assets -> Tokens \union {NoToken}]
          /\ vaultOperators \subseteq Operators
          /\ vaultSkips \in BOOLEAN
      BY DEF VaultInv, VaultTypeOK
    <3> QED BY <3>1, <3>2
  <2> QED BY <1>2, <1>5, <2>1, NextTypes
<1>7. TotalsMatchPositions'
  BY <1>3 DEF TotalsMatchPositions
<1> QED BY <1>6, <1>7 DEF VaultInv

LEMMA DepositInv ==
    ASSUME VaultInv, NEW op, NEW u \in Users, NEW a \in Assets, NEW amount \in Amounts,
           VaultDeposit(op, u, a, amount)
    PROVE  VaultInv'
<1> DEFINE v == position[a][u] + amount
<1>1. amount \in Nat /\ position \in Positions /\ totalByAsset \in [Assets -> Nat]
  BY VaultAssumption DEF VaultDeposit, VaultInv, VaultTypeOK, Positions
<1>2. v \in Nat /\ v - position[a][u] = amount /\ position[a][u] \in Nat
  BY <1>1 DEF Positions
<1>3. position' = [position EXCEPT ![a][u] = v]
  BY <1>1 DEF VaultDeposit, Positions
<1>4. vaultCash' \in [Tokens -> Nat] /\ UNCHANGED vaultAdmin
  BY <1>1, TransferTypes DEF VaultDeposit, VaultInv
<1>5. totalByAsset' = [totalByAsset EXCEPT ![a] = @ + amount]
  BY DEF VaultDeposit
<1> HIDE DEF v
<1>6. totalByAsset[a] + v - position[a][u] = totalByAsset[a] + amount
  BY <1>1, <1>2
<1>7. totalByAsset' = [totalByAsset EXCEPT ![a] = @ + v - position[a][u]]
  BY <1>5, <1>6
<1> QED BY <1>2, <1>3, <1>4, <1>7, BookedInv DEF Booked

LEMMA WithdrawInv ==
    ASSUME VaultInv, NEW op, NEW u \in Users, NEW a \in Assets, NEW amount \in Amounts,
           VaultWithdraw(op, u, a, amount)
    PROVE  VaultInv'
<1> DEFINE v == position[a][u] - amount
<1>1. amount \in Nat /\ position \in Positions /\ totalByAsset \in [Assets -> Nat]
      /\ position[a][u] >= amount
  BY VaultAssumption DEF VaultWithdraw, VaultInv, VaultTypeOK, Positions
<1>2. v \in Nat /\ position[a][u] - v = amount /\ position[a][u] \in Nat
  BY <1>1 DEF Positions
<1>3. position' = [position EXCEPT ![a][u] = v]
  BY <1>1 DEF VaultWithdraw, Positions
<1>4. vaultCash' \in [Tokens -> Nat] /\ UNCHANGED vaultAdmin
  BY <1>1, TransferTypes DEF VaultWithdraw, VaultInv
<1>5. totalByAsset' = [totalByAsset EXCEPT ![a] = @ - amount]
  BY DEF VaultWithdraw
<1> HIDE DEF v
<1>6. totalByAsset[a] + v - position[a][u] = totalByAsset[a] - amount
  BY <1>1, <1>2
<1>7. totalByAsset' = [totalByAsset EXCEPT ![a] = @ + v - position[a][u]]
  BY <1>5, <1>6
<1> QED BY <1>2, <1>3, <1>4, <1>7, BookedInv DEF Booked

\* Positions that keep their sums keep the invariant; the totals stay.
LEMMA SeizedInv ==
    ASSUME VaultInv, vaultCash' \in [Tokens -> Nat], position' \in Positions,
           \A b \in Assets : Total(position'[b], NumUsers) = Total(position[b], NumUsers),
           UNCHANGED <<totalByAsset, vaultAdmin>>
    PROVE  VaultInv'
BY DEF VaultInv, VaultTypeOK, TotalsMatchPositions, Positions, vaultAdmin

LEMMA SeizeInv ==
    ASSUME VaultInv, NEW op, NEW giver \in Users, NEW taker \in Users, NEW a \in Assets,
           NEW amount \in Amounts, VaultSeize(op, giver, taker, a, amount)
    PROVE  VaultInv'
<1>1. /\ amount \in Nat /\ position \in Positions /\ amount <= position[a][giver]
      /\ NumUsers \in Nat /\ VaultTokensOut(a, amount)
      /\ position' = Moved(position, a, giver, taker, amount)
      /\ UNCHANGED <<totalByAsset, vaultAdmin>>
  BY VaultAssumption DEF VaultSeize, CanSeize, VaultInv, VaultTypeOK, Positions
<1>2. /\ position' \in Positions
      /\ \A b \in Assets : Total(position'[b], NumUsers) = Total(position[b], NumUsers)
  BY <1>1, MovedKeepsSums
<1>3. vaultCash' \in [Tokens -> Nat]
  BY <1>1, TransferTypes DEF VaultInv
<1> QED BY <1>1, <1>2, <1>3, SeizedInv

\* A step that leaves the books alone has only its types to keep.
LEMMA BooksKeptInv ==
    ASSUME VaultInv, UNCHANGED <<position, totalByAsset, vaultCash>>,
           liqThreshold' \in [Assets -> BpsRange],
           tokenOf' \in [Assets -> Tokens \union {NoToken}],
           vaultOperators' \subseteq Operators,
           vaultSkips' \in BOOLEAN
    PROVE  VaultInv'
<1>1. position \in Positions /\ totalByAsset \in [Assets -> Nat]
      /\ vaultCash \in [Tokens -> Nat]
  BY DEF VaultInv, VaultTypeOK, Positions
<1>2. VaultTypeOK'
  BY <1>1, NextTypes
<1> QED BY <1>2 DEF VaultInv, TotalsMatchPositions

LEMMA AdminInv ==
    ASSUME VaultInv
    PROVE  /\ \A op \in Operators : VaultAddOperator(op) => VaultInv'
           /\ \A a \in Assets, bps \in Thresholds : SetLiqThreshold(a, bps) => VaultInv'
           /\ \A a \in Assets, t \in Tokens : SetTokenAddress(a, t) => VaultInv'
           /\ \A skip \in BOOLEAN : SetSkipTokenTransfers(skip) => VaultInv'
           /\ UNCHANGED vaultVars => VaultInv'
<1>1. /\ liqThreshold \in [Assets -> BpsRange]
      /\ tokenOf \in [Assets -> Tokens \union {NoToken}]
      /\ vaultOperators \subseteq Operators
      /\ vaultSkips \in BOOLEAN
  BY DEF VaultInv, VaultTypeOK
<1>2. ASSUME NEW op \in Operators, VaultAddOperator(op)
      PROVE  VaultInv'
  <2>1. /\ UNCHANGED <<position, totalByAsset, vaultCash, liqThreshold, tokenOf, vaultSkips>>
        /\ vaultOperators' = vaultOperators \union {op}
    BY <1>2 DEF VaultAddOperator, vaultBooks
  <2>2. vaultOperators' \subseteq Operators
    BY <1>1, <2>1
  <2> QED BY <1>1, <2>1, <2>2, BooksKeptInv
<1>3. ASSUME NEW a \in Assets, NEW bps \in Thresholds, SetLiqThreshold(a, bps)
      PROVE  VaultInv'
  <2>1. /\ UNCHANGED <<position, totalByAsset, vaultCash, tokenOf, vaultOperators, vaultSkips>>
        /\ liqThreshold' = [liqThreshold EXCEPT ![a] = bps]
    BY <1>3 DEF SetLiqThreshold, vaultBooks
  <2>2. bps \in BpsRange
    <3>1. bps \in Nat
      BY VaultAssumption
    <3>2. bps <= 10000
      BY <1>3 DEF SetLiqThreshold
    <3>3. \A n \in Nat : n <= 10000 => n \in BpsRange
      BY DEF BpsRange
    <3> QED BY <3>1, <3>2, <3>3, SMT
  <2>3. liqThreshold' \in [Assets -> BpsRange]
    BY <1>1, <2>1, <2>2
  <2> QED BY <1>1, <2>1, <2>3, BooksKeptInv
<1>4. ASSUME NEW a \in Assets, NEW t \in Tokens, SetTokenAddress(a, t)
      PROVE  VaultInv'
  <2>1. /\ UNCHANGED <<position, totalByAsset, vaultCash, liqThreshold, vaultOperators,
                       vaultSkips>>
        /\ tokenOf' = [tokenOf EXCEPT ![a] = t]
    BY <1>4 DEF SetTokenAddress, vaultBooks
  <2>2. tokenOf' \in [Assets -> Tokens \union {NoToken}]
    BY <1>1, <2>1
  <2> QED BY <1>1, <2>1, <2>2, BooksKeptInv
<1>5. ASSUME UNCHANGED vaultVars
      PROVE  VaultInv'
  <2>1. UNCHANGED <<position, totalByAsset, vaultCash, liqThreshold, tokenOf, vaultOperators,
                    vaultSkips>>
    BY <1>5 DEF vaultVars, vaultBooks, vaultAdmin
  <2> QED BY <1>1, <2>1, BooksKeptInv
<1>6. ASSUME NEW skip \in BOOLEAN, SetSkipTokenTransfers(skip)
      PROVE  VaultInv'
  <2>1. /\ UNCHANGED <<position, totalByAsset, vaultCash, liqThreshold, tokenOf, vaultOperators>>
        /\ vaultSkips' \in BOOLEAN
    BY <1>6 DEF SetSkipTokenTransfers, vaultBooks
  <2> QED BY <1>1, <2>1, BooksKeptInv
<1> QED BY <1>2, <1>3, <1>4, <1>5, <1>6

LEMMA VaultNextInv == VaultInv /\ [VaultNext]_vaultVars => VaultInv'
<1> SUFFICES ASSUME VaultInv, [VaultNext]_vaultVars PROVE VaultInv'
  OBVIOUS
<1>1. CASE \E op \in Operators, u \in Users, a \in Assets, amount \in Amounts :
              VaultDeposit(op, u, a, amount)
  BY <1>1, DepositInv
<1>2. CASE \E op \in Operators, u \in Users, a \in Assets, amount \in Amounts :
              VaultWithdraw(op, u, a, amount)
  BY <1>2, WithdrawInv
<1>3. CASE \E op \in Operators, giver, taker \in Users, a \in Assets, amount \in Amounts :
              VaultSeize(op, giver, taker, a, amount)
  BY <1>3, SeizeInv
<1>4. CASE \/ \E op \in Operators : VaultAddOperator(op)
           \/ \E a \in Assets, bps \in Thresholds : SetLiqThreshold(a, bps)
           \/ \E a \in Assets, t \in Tokens : SetTokenAddress(a, t)
           \/ \E skip \in BOOLEAN : SetSkipTokenTransfers(skip)
           \/ UNCHANGED vaultVars
  BY <1>4, AdminInv
<1> QED BY <1>1, <1>2, <1>3, <1>4 DEF VaultNext

----------------------------------------------------------------------------
\* The theorems.

LEMMA VaultSpecInv == VaultSpec => []VaultInv
BY VaultInitInv, VaultNextInv, PTL DEF VaultSpec

\* V-2 and the types: no sequence of calls takes a position, a total or what
\* the vault holds below zero.
THEOREM VaultTypes == VaultSpec => []VaultTypeOK
<1>1. VaultInv => VaultTypeOK
  BY DEF VaultInv
<1> QED BY <1>1, VaultSpecInv, PTL

\* V-1: total_by_asset is the sum of the positions, self-seizures included.
THEOREM VaultTotals == VaultSpec => []TotalsMatchPositions
<1>1. VaultInv => TotalsMatchPositions
  BY DEF VaultInv
<1> QED BY <1>1, VaultSpecInv, PTL


----------------------------------------------------------------------------
\* The vault under the market's steps.

LEMMA MarketInitVault == MarketInit => VaultInv
<1> SUFFICES ASSUME MarketInit PROVE VaultInv
  OBVIOUS
<1>1. VaultTypeOK
  <2>1. /\ position \in Positions /\ totalByAsset \in [Assets -> Nat]
        /\ vaultCash \in [Tokens -> Nat]
    BY DEF MarketInit, Positions
  <2>2. liqThreshold \in [Assets -> BpsRange]
    BY DEF MarketInit, BpsRange, DefaultLiqThreshold
  <2>3. tokenOf \in [Assets -> Tokens \union {NoToken}]
    BY MarketAssumption DEF MarketInit, Wired
  <2>4. vaultOperators \subseteq Operators /\ vaultSkips \in BOOLEAN
    BY MarketAssumption DEF MarketInit, Wired
  <2> QED BY <2>1, <2>2, <2>3, <2>4 DEF VaultTypeOK, Positions
<1>2. \A a \in Assets : position[a] = [u \in 1..NumUsers |-> 0] /\ totalByAsset[a] = 0
  BY DEF MarketInit, Users
<1>3. Total([u \in 1..NumUsers |-> 0], NumUsers) = 0
  BY VaultAssumption, TotalOfZeros
<1> QED BY <1>1, <1>2, <1>3 DEF VaultInv, TotalsMatchPositions

\* The liquidator's seizure and the treasury's fee, the latter out of what the
\* former left of the borrower's position.
LEMMA SeizeSharesInv ==
    ASSUME VaultInv, NEW l \in Users, NEW b \in Users, NEW c \in Assets,
           NEW amount \in Int, NEW fee \in Nat, SeizeShares(l, b, c, amount, fee)
    PROVE  VaultInv'
<1> DEFINE paid == Moved(position, c, b, l, amount)
<1>1. /\ amount \in Nat /\ amount > 0 /\ amount <= position[c][b]
      /\ position \in Positions /\ NumUsers \in Nat /\ Treasury \in Users
      /\ UNCHANGED <<totalByAsset, vaultAdmin>>
  BY VaultAssumption, MarketAssumption
     DEF SeizeShares, EngineSeizes, CanSeize, VaultInv, VaultTypeOK, Positions
<1>2. /\ paid \in Positions
      /\ \A a \in Assets : Total(paid[a], NumUsers) = Total(position[a], NumUsers)
  BY <1>1, MovedKeepsSums
<1>3. /\ position' \in Positions
      /\ \A a \in Assets : Total(position'[a], NumUsers) = Total(position[a], NumUsers)
  <2>1. CASE fee > 0
    <3>1. /\ fee \in Nat /\ fee <= paid[c][b]
          /\ position' = Moved(paid, c, b, Treasury, fee)
      BY <1>2, <2>1 DEF SeizeShares, EngineSeizes, CanSeize, Positions
    <3> HIDE DEF paid
    <3>2. /\ Moved(paid, c, b, Treasury, fee) \in Positions
          /\ \A a \in Assets : Total(Moved(paid, c, b, Treasury, fee)[a], NumUsers)
                                 = Total(paid[a], NumUsers)
      BY <1>1, <1>2, <3>1, MovedKeepsSums
    <3> QED BY <1>2, <3>1, <3>2
  <2>2. CASE ~ (fee > 0)
    <3>1. position' = paid
      BY <2>2 DEF SeizeShares
    <3> QED BY <1>2, <3>1
  <2> QED BY <2>1, <2>2
<1>4. vaultCash' \in [Tokens -> Nat]
  <2>1. amount + fee \in Nat
    BY <1>1
  <2>2. VaultTokensOut(c, amount + fee)
    BY DEF SeizeShares
  <2> QED BY <2>1, <2>2, TransferTypes DEF VaultInv
<1> QED BY <1>1, <1>3, <1>4, SeizedInv

\* What a liquidation seizes and what of it is the fee.
LEMMA UnitsAreNat ==
    ASSUME MarketTypeOK, NEW d \in Assets, NEW c \in Assets, NEW amount \in Nat, Priced(c)
    PROVE  SeizedUnits(d, c, amount) \in Nat /\ FeeUnits(d, c, amount) \in Nat
<1>1. /\ price[d] \in Nat /\ price[c] \in Nat \ {0} /\ UnitScale \in Nat \ {0}
      /\ liqConfig.bonus \in Nat /\ liqConfig.fee \in Nat
  <2>1. UnitScale \in Nat \ {0} /\ LiqConfigs \subseteq LiqConfig
    BY MarketAssumption
  <2>2. price[d] \in Nat /\ price[c] \in Nat /\ price[c] # 0
    <3>1. price[d] \in Nat /\ price[c] \in Nat
      BY DEF MarketTypeOK
    <3>2. price[c] # NoPrice
      BY DEF Priced
    <3>3. price[c] # 0
      BY <3>2 DEF NoPrice
    <3> QED BY <3>1, <3>3
  <2>3. liqConfig \in LiqConfig
    BY <2>1 DEF MarketTypeOK
  <2>4. liqConfig.bonus \in Nat /\ liqConfig.fee \in Nat
    BY <2>3 DEF LiqConfig
  <2> QED BY <2>1, <2>2, <2>4
<1>2. /\ \A x, y \in Nat : x * y \in Nat
      /\ \A x \in Nat, y \in Nat \ {0} : x \div y \in Nat
  OBVIOUS
<1>3. ValueOf(d, amount) \in Nat
  BY <1>1, <1>2 DEF ValueOf
<1>4. SeizedUnits(d, c, amount) \in Nat
  <2>1. 10000 + liqConfig.bonus \in Nat /\ 10000 \in Nat \ {0}
    BY <1>1
  <2> QED BY <1>1, <1>2, <1>3, <2>1 DEF SeizedUnits
<1>5. FeeUnits(d, c, amount) \in Nat
  <2>1. (ValueOf(d, amount) * liqConfig.bonus) \div 10000 \in Nat
    BY <1>1, <1>2, <1>3
  <2>2. (((ValueOf(d, amount) * liqConfig.bonus) \div 10000) * liqConfig.fee) \div 10000 \in Nat
    BY <1>1, <1>2, <2>1
  <2> QED BY <1>1, <1>2, <2>2 DEF FeeUnits
<1> QED BY <1>4, <1>5

LEMMA LiquidateVault ==
    ASSUME VaultInv, MarketTypeOK, NEW l \in Users, NEW b \in Users, NEW d \in Assets,
           NEW c \in Assets, NEW amount \in Amounts, Liquidate(l, b, d, c, amount)
    PROVE  VaultInv'
<1> DEFINE seized == SeizedUnits(d, c, amount)
           fee == FeeUnits(d, c, amount)
<1>1. amount \in Nat /\ Priced(c)
  BY VaultAssumption DEF Liquidate
<1>2. seized \in Nat /\ fee \in Nat
  BY <1>1, UnitsAreNat
<1>3. SeizeShares(l, b, c, seized - fee, fee)
  BY DEF Liquidate
<1> HIDE DEF seized, fee
<1>4. seized - fee \in Int
  BY <1>2
<1> QED BY <1>2, <1>3, <1>4, SeizeSharesInv

MarketInv == VaultInv /\ MarketTypeOK

\* Every step of the market keeps the vault's books.
LEMMA MarketNextVault == MarketInv /\ [MarketNext]_allVars => MarketInv'
<1> SUFFICES ASSUME MarketInv, [MarketNext]_allVars PROVE MarketInv'
  OBVIOUS
<1> USE DEF MarketInv
<1>1. CASE \E u \in FlowUsers, a \in Assets, amount \in Amounts :
              FlowSupplyCollateral(u, a, amount)
  <2>1. PICK u \in Users, a \in Assets, amount \in Amounts :
            FlowSupplyCollateral(u, a, amount)
    BY <1>1, MarketAssumption
  <2>2. VaultDeposit(Controller, u, a, amount) /\ UNCHANGED marketVars
    BY <2>1 DEF FlowSupplyCollateral
  <2> QED BY <2>2, DepositInv DEF marketVars, MarketTypeOK
<1>2. CASE \E u \in FlowUsers, a \in Assets, amount \in Amounts :
              FlowWithdrawCollateral(u, a, amount)
  <2>1. PICK u \in Users, a \in Assets, amount \in Amounts :
            FlowWithdrawCollateral(u, a, amount)
    BY <1>2, MarketAssumption
  <2>2. VaultWithdraw(Controller, u, a, amount) /\ UNCHANGED marketVars
    BY <2>1 DEF FlowWithdrawCollateral
  <2> QED BY <2>2, WithdrawInv DEF marketVars, MarketTypeOK
<1>3. CASE \E u \in FlowUsers, c, d \in Assets, posted, amount \in Amounts :
              FlowBorrow(u, c, posted, d, amount)
  <2>1. PICK u \in Users, c \in Assets, d \in Assets, posted \in Amounts, amount \in Amounts :
            FlowBorrow(u, c, posted, d, amount)
    BY <1>3, MarketAssumption
  <2>2. VaultDeposit(Controller, u, c, posted) /\ UNCHANGED marketVars
    BY <2>1 DEF FlowBorrow
  <2> QED BY <2>2, DepositInv DEF marketVars, MarketTypeOK
<1>4. CASE \E l, b \in Users, d, c \in Assets, amount \in Amounts :
              Liquidate(l, b, d, c, amount)
  <2>1. PICK l \in Users, b \in Users, d \in Assets, c \in Assets, amount \in Amounts :
            Liquidate(l, b, d, c, amount)
    BY <1>4
  <2>2. VaultInv'
    BY <2>1, LiquidateVault
  <2>3. UNCHANGED marketVars
    BY <2>1 DEF Liquidate
  <2> QED BY <2>2, <2>3 DEF marketVars, MarketTypeOK
<1>5. CASE UNCHANGED <<vaultVars, marketVars>>
  <2>1. VaultInv'
    BY <1>5, AdminInv
  <2> QED BY <1>5, <2>1 DEF marketVars, MarketTypeOK
<1>6. CASE UNCHANGED vaultVars /\ MarketTypeOK'
  BY <1>6, AdminInv
<1>7. ASSUME \/ \E p \in BOOLEAN : SetHalted(p)
             \/ \E cfg \in LiqConfigs : SetLiqConfig(cfg)
             \/ \E a \in Assets : \E p \in Prices[a] \union {NoPrice} : MovePrice(a, p)
      PROVE  UNCHANGED vaultVars /\ MarketTypeOK'
  <2>1. CASE \E p \in BOOLEAN : SetHalted(p)
    BY <2>1 DEF SetHalted, MarketTypeOK
  <2>2. CASE \E cfg \in LiqConfigs : SetLiqConfig(cfg)
    BY <2>2 DEF SetLiqConfig, MarketTypeOK
  <2>3. CASE \E a \in Assets : \E p \in Prices[a] \union {NoPrice} : MovePrice(a, p)
    <3>1. PICK a \in Assets : \E p \in Prices[a] \union {NoPrice} : MovePrice(a, p)
      BY <2>3
    <3>2. PICK p \in Prices[a] \union {NoPrice} : MovePrice(a, p)
      BY <3>1
    <3>3. p \in Nat
      BY MarketAssumption DEF NoPrice
    <3> QED BY <3>2, <3>3 DEF MovePrice, MarketTypeOK
  <2> QED BY <1>7, <2>1, <2>2, <2>3
<1>8. CASE \/ \E u \in FlowUsers, a \in Assets, amount \in Amounts : FlowRepay(u, a, amount)
           \/ UNCHANGED allVars
           \/ PoolOnly(Pool!CloseLedger)
           \/ \E u \in PoolUsers, a \in PoolAssets, amount \in PoolAmounts :
                 \/ PoolOnly(Pool!Supply(u, a, amount))
                 \/ PoolOnly(Pool!Withdraw(u, a, amount))
                 \/ PoolOnly(Pool!SupplyCollateral(u, a, amount))
                 \/ PoolOnly(Pool!WithdrawCollateral(u, a, amount))
                 \/ PoolOnly(Pool!Borrow(u, a, amount))
                 \/ PoolOnly(Pool!Repay(u, a, amount))
  BY <1>5, <1>8 DEF FlowRepay, PoolOnly, allVars
<1> QED BY <1>1, <1>2, <1>3, <1>4, <1>6, <1>7, <1>8 DEF MarketNext

LEMMA MarketSpecInv == MarketSpec => []MarketInv
<1>1. MarketInit => MarketInv
  <2>1. MarketInit => /\ price = [a \in Assets |-> NoPrice]
                      /\ halted = FALSE
                      /\ liqConfig \in LiqConfigs
    BY DEF MarketInit, Wired, EngineInit
  <2>2. price = [a \in Assets |-> NoPrice] =>
            /\ price \in [Assets -> Nat]
            /\ \A a \in Assets : price[a] \in Prices[a] \union {NoPrice}
    BY DEF NoPrice
  <2> QED BY <2>1, <2>2, MarketInitVault DEF MarketInv, MarketTypeOK
<1> QED BY <1>1, MarketNextVault, PTL DEF MarketSpec

\* V-1 through the controller and the liquidation engine: the vault's totals
\* are the sums of its positions after any flows, liquidations included.
THEOREM MarketVaultTotals == MarketSpec => []TotalsMatchPositions
<1>1. MarketInv => TotalsMatchPositions
  BY DEF MarketInv, VaultInv
<1> QED BY <1>1, MarketSpecInv, PTL

----------------------------------------------------------------------------
\* The pool under the market's steps: each is a step of the pool, or leaves it
\* alone, so what LendingPool_proofs shows carries over.

PoolProofs == INSTANCE LendingPool_proofs

LEMMA MarketInitPool == MarketInit => PoolProofs!IInv
<1> SUFFICES ASSUME MarketInit PROVE PoolProofs!IInv
  OBVIOUS
<1>1. PoolProofs!TypeOK
  <2>1. /\ listings \in [Assets -> 0..MaxListings]
        /\ config \in [Assets -> RateConfigs]
        /\ paused \in BOOLEAN
        /\ ledger \in 0..MaxLedger
        /\ operators \subseteq Operators
    <3>1. 1 \in 0..MaxListings /\ 0 \in 0..MaxLedger
      BY PoolAssumption
    <3>2. listings \in [Assets -> 0..MaxListings] /\ ledger \in 0..MaxLedger
      BY <3>1 DEF MarketInit, Wired
    <3>3. config \in [Assets -> RateConfigs] /\ paused \in BOOLEAN
      BY DEF MarketInit, Wired
    <3>4. operators \subseteq Operators
      BY MarketAssumption DEF MarketInit, Wired
    <3> QED BY <3>2, <3>3, <3>4
  <2>2. /\ totalDeposit \in [Assets -> Int]
        /\ totalDepositShares \in [Assets -> Nat]
        /\ totalBorrow \in [Assets -> Int]
        /\ cash \in [Assets -> Nat]
        /\ borrowIndex \in [Assets -> Nat]
        /\ lastAccrual \in [Assets -> 0..ledger]
    BY PoolAssumption DEF MarketInit, Wired
  <2>3. /\ depositShares \in [Assets -> [Users -> Nat]]
        /\ principal \in [Assets -> [Users -> Nat]]
        /\ snapIndex \in [Assets -> [Users -> Nat \ {0}]]
    BY PoolAssumption DEF MarketInit, Wired
  <2> QED BY <2>1, <2>2, <2>3 DEF PoolProofs!TypeOK, PoolProofs!Users, Users
<1>2. PoolProofs!CashMatchesBooks
  BY DEF MarketInit, Wired, PoolProofs!CashMatchesBooks
<1>3. PoolProofs!MarketFacts
  BY PoolAssumption DEF MarketInit, Wired, PoolProofs!MarketFacts, PoolProofs!Users, Users
<1> QED BY <1>1, <1>2, <1>3 DEF PoolProofs!IInv

\* The pool's operators, under either of the two names.
LEMMA PoolOperators ==
    /\ \A x, y : Pool!Lesser(x, y) = PoolProofs!Lesser(x, y)
    /\ \A x : Pool!Fits(x) <=> PoolProofs!Fits(x)
    /\ \A a : Pool!Listed(a) <=> PoolProofs!Listed(a)
    /\ Pool!RequireNotPaused <=> PoolProofs!RequireNotPaused
    /\ \A op : Pool!RequireOperator(op) <=> PoolProofs!RequireOperator(op)
    /\ \A u, a : Pool!CollateralOf(u, a) = PoolProofs!CollateralOf(u, a)
    /\ \A td, ts, x : Pool!MintFor(td, ts, x) = PoolProofs!MintFor(td, ts, x)
    /\ \A td, ts, x : Pool!RedeemFor(td, ts, x) = PoolProofs!RedeemFor(td, ts, x)
    /\ \A x, snap, idx : Pool!Owed(x, snap, idx) = PoolProofs!Owed(x, snap, idx)
    /\ \A a : Pool!AccruedIndex(a) = PoolProofs!AccruedIndex(a)
    /\ \A a : Pool!AccrueInterest(a) <=> PoolProofs!AccrueInterest(a)
<1>1. /\ \A x : Pool!AtLeastOne(x) = PoolProofs!AtLeastOne(x)
      /\ \A x, y : Pool!Lesser(x, y) = PoolProofs!Lesser(x, y)
      /\ \A x, y : Pool!Truncated(x, y) = PoolProofs!Truncated(x, y)
      /\ \A x : Pool!Fits(x) <=> PoolProofs!Fits(x)
      /\ \A x : Pool!AsU64(x) = PoolProofs!AsU64(x)
      /\ \A a : Pool!Listed(a) <=> PoolProofs!Listed(a)
      /\ Pool!BPS = PoolProofs!BPS
      /\ Pool!LedgerTimeSecs = PoolProofs!LedgerTimeSecs
  BY DEF Pool!AtLeastOne, PoolProofs!AtLeastOne, Pool!Lesser, PoolProofs!Lesser,
       Pool!Truncated, PoolProofs!Truncated, Pool!Fits, PoolProofs!Fits, Pool!AsU64,
       PoolProofs!AsU64, Pool!Listed, PoolProofs!Listed, Pool!BPS, PoolProofs!BPS,
       Pool!LedgerTimeSecs, PoolProofs!LedgerTimeSecs
<1>0. /\ Pool!RequireNotPaused <=> PoolProofs!RequireNotPaused
      /\ \A op : Pool!RequireOperator(op) <=> PoolProofs!RequireOperator(op)
      /\ \A u, a : Pool!CollateralOf(u, a) = PoolProofs!CollateralOf(u, a)
  BY DEF Pool!RequireNotPaused, PoolProofs!RequireNotPaused, Pool!RequireOperator,
       PoolProofs!RequireOperator, Pool!CollateralOf, PoolProofs!CollateralOf
<1>2. /\ \A td, ts, x : Pool!MintFor(td, ts, x) = PoolProofs!MintFor(td, ts, x)
      /\ \A td, ts, x : Pool!RedeemFor(td, ts, x) = PoolProofs!RedeemFor(td, ts, x)
      /\ \A x, snap, idx : Pool!Owed(x, snap, idx) = PoolProofs!Owed(x, snap, idx)
  BY <1>1 DEF Pool!MintFor, PoolProofs!MintFor, Pool!RedeemFor, PoolProofs!RedeemFor,
       Pool!Owed, PoolProofs!Owed
<1>3. \A a : Pool!UtilisedUnits(a) = PoolProofs!UtilisedUnits(a)
  BY <1>1 DEF Pool!UtilisedUnits, PoolProofs!UtilisedUnits
<1>4. /\ \A a : Pool!Utilisation(a) = PoolProofs!Utilisation(a)
      /\ \A a : Pool!UtilisationDefined(a) <=> PoolProofs!UtilisationDefined(a)
  BY <1>1, <1>3 DEF Pool!Utilisation, PoolProofs!Utilisation, Pool!UtilisationDefined,
       PoolProofs!UtilisationDefined
<1>5. \A a : Pool!BorrowApyBps(a) = PoolProofs!BorrowApyBps(a)
  BY <1>1, <1>4 DEF Pool!BorrowApyBps, PoolProofs!BorrowApyBps
<1>6. \A a : Pool!IndexDelta(a) = PoolProofs!IndexDelta(a)
  BY <1>1, <1>5 DEF Pool!IndexDelta, PoolProofs!IndexDelta
<1>7. \A a : Pool!AccrualDue(a) <=> PoolProofs!AccrualDue(a)
  BY <1>1 DEF Pool!AccrualDue, PoolProofs!AccrualDue
<1>8. \A a : Pool!AccruedIndex(a) = PoolProofs!AccruedIndex(a)
  BY <1>6, <1>7 DEF Pool!AccruedIndex, PoolProofs!AccruedIndex
<1>9. \A a : Pool!AccrueInterest(a) <=> PoolProofs!AccrueInterest(a)
  BY <1>4, <1>7, <1>8 DEF Pool!AccrueInterest, PoolProofs!AccrueInterest
<1> QED BY <1>0, <1>1, <1>2, <1>8, <1>9

\* The pool's actions, under either of the two names.
LEMMA PoolActions ==
    /\ \A u, a, amount : Pool!Supply(u, a, amount) <=> PoolProofs!Supply(u, a, amount)
    /\ \A u, a, amount : Pool!Withdraw(u, a, amount) <=> PoolProofs!Withdraw(u, a, amount)
    /\ \A u, a, amount :
          Pool!SupplyCollateral(u, a, amount) <=> PoolProofs!SupplyCollateral(u, a, amount)
    /\ \A u, a, amount :
          Pool!WithdrawCollateral(u, a, amount) <=> PoolProofs!WithdrawCollateral(u, a, amount)
    /\ \A u, a, amount : Pool!Borrow(u, a, amount) <=> PoolProofs!Borrow(u, a, amount)
    /\ \A op, u, a, amount :
          Pool!BorrowRaw(op, u, a, amount) <=> PoolProofs!BorrowRaw(op, u, a, amount)
    /\ \A u, a, amount : Pool!Repay(u, a, amount) <=> PoolProofs!Repay(u, a, amount)
    /\ \A op, u, a, amount :
          Pool!RepayOnBehalf(op, u, a, amount) <=> PoolProofs!RepayOnBehalf(op, u, a, amount)
    /\ Pool!CloseLedger <=> PoolProofs!CloseLedger
<1>1. /\ \A a, x : Pool!TokensIn(a, x) <=> PoolProofs!TokensIn(a, x)
      /\ \A a, x : Pool!TokensOut(a, x) <=> PoolProofs!TokensOut(a, x)
  BY PoolOperators DEF Pool!TokensIn, PoolProofs!TokensIn, Pool!TokensOut, PoolProofs!TokensOut
<1>2. UNCHANGED Pool!admin <=> UNCHANGED PoolProofs!admin
  BY DEF Pool!admin, PoolProofs!admin
<1>3. /\ \A u, a, amount : Pool!Supply(u, a, amount) <=> PoolProofs!Supply(u, a, amount)
      /\ \A u, a, amount : Pool!Withdraw(u, a, amount) <=> PoolProofs!Withdraw(u, a, amount)
  BY PoolOperators, <1>1, <1>2 DEF Pool!Supply, PoolProofs!Supply, Pool!Withdraw,
       PoolProofs!Withdraw
<1>4. /\ \A u, a, amount :
             Pool!SupplyCollateral(u, a, amount) <=> PoolProofs!SupplyCollateral(u, a, amount)
      /\ \A u, a, amount :
             Pool!WithdrawCollateral(u, a, amount)
               <=> PoolProofs!WithdrawCollateral(u, a, amount)
      /\ Pool!CloseLedger <=> PoolProofs!CloseLedger
  BY PoolOperators, <1>2 DEF Pool!SupplyCollateral, PoolProofs!SupplyCollateral,
         Pool!WithdrawCollateral, PoolProofs!WithdrawCollateral, Pool!CloseLedger,
         PoolProofs!CloseLedger, Pool!market, PoolProofs!market, Pool!accrual,
         PoolProofs!accrual, Pool!accounts, PoolProofs!accounts, Pool!admin,
         PoolProofs!admin
<1>5. \A u, a, amount, check :
          Pool!BorrowInternal(u, a, amount, check) <=> PoolProofs!BorrowInternal(u, a, amount, check)
  <2>1. \A u, a, amount : Pool!HealthyAfter(u, a, amount) <=> PoolProofs!HealthyAfter(u, a, amount)
    BY PoolOperators DEF Pool!HealthyAfter, PoolProofs!HealthyAfter
  <2> QED
    BY <2>1, PoolOperators, <1>1, <1>2 DEF Pool!BorrowInternal,
           PoolProofs!BorrowInternal
<1>6. \A u, a, amount :
          Pool!RepayInternal(u, a, amount) <=> PoolProofs!RepayInternal(u, a, amount)
  BY PoolOperators, <1>1, <1>2 DEF Pool!RepayInternal, PoolProofs!RepayInternal
<1> QED
  BY PoolOperators, <1>3, <1>4, <1>5, <1>6 DEF Pool!Borrow, PoolProofs!Borrow, Pool!BorrowRaw,
         PoolProofs!BorrowRaw, Pool!Repay, PoolProofs!Repay, Pool!RepayOnBehalf,
         PoolProofs!RepayOnBehalf

\* A step of the market is a step of the pool or none.
LEMMA MarketStepPool == [MarketNext]_allVars => [PoolProofs!Next]_poolVars
<1> SUFFICES ASSUME [MarketNext]_allVars PROVE [PoolProofs!Next]_poolVars
  OBVIOUS
<1>1. /\ FlowUsers \subseteq Users /\ PoolUsers \subseteq Users
      /\ PoolAmounts \subseteq Amounts /\ PoolAssets \subseteq Assets
      /\ Controller \in Operators /\ Engine \in Operators
      /\ PoolProofs!Users = Users
  BY MarketAssumption DEF PoolProofs!Users, Users
<1>2. ASSUME NEW u \in Users, NEW a \in Assets, NEW amount \in Amounts,
             \/ Pool!Supply(u, a, amount)
             \/ Pool!Withdraw(u, a, amount)
             \/ Pool!SupplyCollateral(u, a, amount)
             \/ Pool!WithdrawCollateral(u, a, amount)
             \/ Pool!Borrow(u, a, amount)
             \/ Pool!BorrowRaw(Controller, u, a, amount)
             \/ Pool!Repay(u, a, amount)
             \/ Pool!RepayOnBehalf(Engine, u, a, amount)
      PROVE  PoolProofs!Next
  BY <1>1, <1>2, PoolActions DEF PoolProofs!Next
<1>3. CASE \E u \in FlowUsers, a \in Assets, amount \in Amounts :
              \/ FlowSupplyCollateral(u, a, amount)
              \/ FlowRepay(u, a, amount)
              \/ FlowWithdrawCollateral(u, a, amount)
  <2>1. PICK u \in Users, a \in Assets, amount \in Amounts :
              \/ FlowSupplyCollateral(u, a, amount)
              \/ FlowRepay(u, a, amount)
              \/ FlowWithdrawCollateral(u, a, amount)
    BY <1>1, <1>3
  <2>2. \/ Pool!SupplyCollateral(u, a, amount)
        \/ Pool!Repay(u, a, amount)
        \/ UNCHANGED poolVars
    BY <2>1 DEF FlowSupplyCollateral, FlowRepay, FlowWithdrawCollateral
  <2> QED BY <1>2, <2>2
<1>4. CASE \E u \in FlowUsers, c, d \in Assets, posted, amount \in Amounts :
              FlowBorrow(u, c, posted, d, amount)
  <2>1. PICK u \in Users, d \in Assets, amount \in Amounts :
            Pool!BorrowRaw(Controller, u, d, amount)
    BY <1>1, <1>4 DEF FlowBorrow
  <2> QED BY <1>2, <2>1
<1>5. CASE \E l, b \in Users, d, c \in Assets, amount \in Amounts :
              Liquidate(l, b, d, c, amount)
  <2>1. PICK b \in Users, d \in Assets, amount \in Amounts :
            Pool!RepayOnBehalf(Engine, b, d, amount)
    BY <1>5 DEF Liquidate, EngineRepays
  <2> QED BY <1>2, <2>1
<1>6. CASE \/ \E p \in BOOLEAN : SetHalted(p)
           \/ \E cfg \in LiqConfigs : SetLiqConfig(cfg)
           \/ \E a \in Assets : \E p \in Prices[a] \union {NoPrice} : MovePrice(a, p)
           \/ UNCHANGED allVars
  BY <1>6 DEF SetHalted, SetLiqConfig, MovePrice, allVars
<1>7. CASE \E u \in PoolUsers, a \in PoolAssets, amount \in PoolAmounts :
              \/ PoolOnly(Pool!Supply(u, a, amount))
              \/ PoolOnly(Pool!Withdraw(u, a, amount))
              \/ PoolOnly(Pool!SupplyCollateral(u, a, amount))
              \/ PoolOnly(Pool!WithdrawCollateral(u, a, amount))
              \/ PoolOnly(Pool!Borrow(u, a, amount))
              \/ PoolOnly(Pool!Repay(u, a, amount))
  <2>1. PICK u \in Users, a \in Assets, amount \in Amounts :
              \/ Pool!Supply(u, a, amount)
              \/ Pool!Withdraw(u, a, amount)
              \/ Pool!SupplyCollateral(u, a, amount)
              \/ Pool!WithdrawCollateral(u, a, amount)
              \/ Pool!Borrow(u, a, amount)
              \/ Pool!Repay(u, a, amount)
    BY <1>1, <1>7 DEF PoolOnly
  <2> QED BY <1>2, <2>1
<1>8. CASE PoolOnly(Pool!CloseLedger)
  BY <1>8, PoolActions DEF PoolOnly, PoolProofs!Next
<1> QED BY <1>3, <1>4, <1>5, <1>6, <1>7, <1>8 DEF MarketNext

\* What the pool's proofs assume of the constants.
LEMMA PoolAssumptions ==
    /\ PoolProofs!NumUsersAssumption /\ PoolProofs!ScaleAssumption
    /\ PoolProofs!InputAssumption /\ PoolProofs!BoundAssumption
<1>1. Pool!RateConfig = PoolProofs!RateConfig
  BY DEF Pool!RateConfig, PoolProofs!RateConfig
<1> QED BY <1>1, VaultAssumption, PoolAssumption
        DEF PoolProofs!NumUsersAssumption, PoolProofs!ScaleAssumption,
            PoolProofs!InputAssumption, PoolProofs!BoundAssumption

LEMMA MarketNextPool == PoolProofs!IInv /\ [MarketNext]_allVars => PoolProofs!IInv'
<1>2. [PoolProofs!Next]_poolVars => [PoolProofs!Next]_(PoolProofs!vars)
  BY DEF poolVars, PoolProofs!vars, PoolProofs!market, PoolProofs!accrual,
         PoolProofs!accounts, PoolProofs!admin
<1>3. PoolProofs!IInv /\ [PoolProofs!Next]_(PoolProofs!vars) => PoolProofs!IInv'
  BY PoolAssumptions, PoolProofs!NextIInv
<1> QED BY <1>2, <1>3, MarketStepPool

LEMMA MarketSpecPool == MarketSpec => []PoolProofs!IInv
BY MarketInitPool, MarketNextPool, PTL DEF MarketSpec

\* The pool behind the flows holds its deposits less its borrows, so borrows
\* never exceed deposits, whatever is borrowed, repaid and liquidated.
THEOREM MarketPoolBooks ==
    MarketSpec => [](\A a \in Assets :
                        listings[a] <= 1 => /\ cash[a] = totalDeposit[a] - totalBorrow[a]
                                            /\ totalBorrow[a] <= totalDeposit[a])
<1>1. PoolProofs!IInv => \A a \in Assets :
                            listings[a] <= 1 => /\ cash[a] = totalDeposit[a] - totalBorrow[a]
                                                /\ totalBorrow[a] <= totalDeposit[a]
  BY DEF PoolProofs!IInv, PoolProofs!CashMatchesBooks, PoolProofs!TypeOK
<1> QED BY <1>1, MarketSpecPool, PTL

----------------------------------------------------------------------------
\* Arithmetic of values and of debts.

LEMMA QuotientIsNat ==
    ASSUME NEW x \in Nat, NEW z \in Nat \ {0}
    PROVE  /\ x \div z \in Nat
           /\ (x \div z) * z <= x
           /\ x < (x \div z) * z + z
OBVIOUS

LEMMA ProductGrows ==
    ASSUME NEW x \in Nat, NEW y \in Nat, NEW z \in Nat, x <= y
    PROVE  /\ x * z \in Nat /\ y * z \in Nat /\ z * x \in Nat
           /\ x * z <= y * z
           /\ z * x <= z * y
OBVIOUS

\* What a multiple of z does not exceed, its quotient by z does not either.
LEMMA QuotientAtLeast ==
    ASSUME NEW q \in Nat, NEW x \in Nat, NEW z \in Nat \ {0}, q * z <= x
    PROVE  q <= x \div z
<1> DEFINE r == x \div z
<1>1. r \in Nat /\ x < r * z + z
  BY QuotientIsNat
<1> HIDE DEF r
<1>2. SUFFICES ASSUME r < q PROVE FALSE
  BY <1>1 DEF r
<1>3. (r + 1) * z <= q * z
  BY <1>1, <1>2, ProductGrows
<1>4. (r + 1) * z = r * z + z
  BY <1>1
<1>5. r * z \in Nat /\ q * z \in Nat
  BY <1>1
<1> QED BY <1>1, <1>3, <1>4, <1>5

LEMMA QuotientGrows ==
    ASSUME NEW x \in Nat, NEW y \in Nat, NEW z \in Nat \ {0}, x <= y
    PROVE  x \div z <= y \div z
<1>1. x \div z \in Nat /\ (x \div z) * z <= x
  BY QuotientIsNat
<1>2. (x \div z) * z \in Nat
  BY <1>1
<1>3. (x \div z) * z <= y
  BY <1>1, <1>2
<1> QED BY <1>1, <1>3, QuotientAtLeast

LEMMA ValueGrows ==
    ASSUME MarketTypeOK, NEW a \in Assets, NEW x \in Nat, NEW y \in Nat, x <= y
    PROVE  /\ ValueOf(a, x) \in Nat /\ ValueOf(a, y) \in Nat
           /\ ValueOf(a, x) <= ValueOf(a, y)
<1>1. price[a] \in Nat /\ UnitScale \in Nat \ {0}
  BY MarketAssumption DEF MarketTypeOK
<1>2. x * price[a] \in Nat /\ y * price[a] \in Nat /\ x * price[a] <= y * price[a]
  BY <1>1, ProductGrows
<1> QED BY <1>1, <1>2, QuotientIsNat, QuotientGrows DEF ValueOf

\* What is owed grows with the index and is, at the snapshot itself, the principal.
LEMMA OwedAtIndex ==
    ASSUME NEW p \in Nat, NEW snap \in Nat \ {0}, NEW idx \in Nat, NEW later \in Nat,
           snap <= idx, idx <= later
    PROVE  /\ Pool!Owed(p, snap, idx) \in Nat
           /\ Pool!Owed(p, snap, later) \in Nat
           /\ p <= Pool!Owed(p, snap, idx)
           /\ Pool!Owed(p, snap, idx) <= Pool!Owed(p, snap, later)
           /\ Pool!Owed(p, snap, snap) = p
<1>1. Pool!AtLeastOne(snap) = snap
  BY DEF Pool!AtLeastOne
<1>2. /\ p * snap \in Nat /\ p * idx \in Nat /\ p * later \in Nat
      /\ p * snap <= p * idx /\ p * idx <= p * later
  BY ProductGrows
<1>3. /\ (p * idx) \div snap \in Nat /\ (p * later) \div snap \in Nat
      /\ (p * idx) \div snap <= (p * later) \div snap
      /\ p <= (p * idx) \div snap
  BY <1>2, QuotientIsNat, QuotientGrows, QuotientAtLeast
<1>4. (p * snap) \div snap = p
  <2>1. p <= (p * snap) \div snap
    BY <1>2, QuotientAtLeast
  <2>2. (p * snap) \div snap \in Nat /\ ((p * snap) \div snap) * snap <= p * snap
    BY <1>2, QuotientIsNat
  <2> DEFINE q == (p * snap) \div snap
  <2> HIDE DEF q
  <2>3. q \in Nat /\ p <= q /\ q * snap <= p * snap
    BY <2>1, <2>2 DEF q
  <2>4. ~ (p + 1 <= q)
    <3>1. SUFFICES ASSUME p + 1 <= q PROVE FALSE
      OBVIOUS
    <3>2. (p + 1) * snap <= q * snap
      BY <2>3, <3>1, ProductGrows
    <3>3. (p + 1) * snap = p * snap + snap
      OBVIOUS
    <3> QED BY <1>2, <2>3, <3>2, <3>3
  <2>5. q = p
    BY <2>3, <2>4
  <2> QED BY <2>5 DEF q
<1> QED BY <1>1, <1>2, <1>3, <1>4 DEF Pool!Owed

----------------------------------------------------------------------------
\* What is known of the market in every reachable state.

\* Nothing in the market lists an asset again.
ListedOnce == listings = [a \in Assets |-> 1]

MarketFactsInv == MarketInv /\ PoolProofs!IInv /\ ListedOnce

LEMMA PoolKeepsListings ==
    ASSUME NEW u, NEW a, NEW amount, NEW op,
           \/ Pool!Supply(u, a, amount)
           \/ Pool!Withdraw(u, a, amount)
           \/ Pool!SupplyCollateral(u, a, amount)
           \/ Pool!WithdrawCollateral(u, a, amount)
           \/ Pool!Borrow(u, a, amount)
           \/ Pool!BorrowRaw(op, u, a, amount)
           \/ Pool!Repay(u, a, amount)
           \/ Pool!RepayOnBehalf(op, u, a, amount)
           \/ Pool!CloseLedger
    PROVE  listings' = listings
<1>1. UNCHANGED Pool!admin
  BY DEF Pool!Supply, Pool!Withdraw, Pool!SupplyCollateral, Pool!WithdrawCollateral,
         Pool!Borrow, Pool!BorrowRaw, Pool!BorrowInternal, Pool!Repay, Pool!RepayOnBehalf,
         Pool!RepayInternal, Pool!CloseLedger
<1> QED BY <1>1 DEF Pool!admin

LEMMA MarketKeepsListings == [MarketNext]_allVars => UNCHANGED listings
<1> SUFFICES ASSUME [MarketNext]_allVars PROVE listings' = listings
  OBVIOUS
<1>1. CASE \E u \in FlowUsers, a \in Assets, amount \in Amounts :
              \/ FlowSupplyCollateral(u, a, amount)
              \/ FlowRepay(u, a, amount)
              \/ FlowWithdrawCollateral(u, a, amount)
  BY <1>1, PoolKeepsListings
     DEF FlowSupplyCollateral, FlowRepay, FlowWithdrawCollateral, poolVars
<1>2. CASE \E u \in FlowUsers, c, d \in Assets, posted, amount \in Amounts :
              FlowBorrow(u, c, posted, d, amount)
  BY <1>2, PoolKeepsListings DEF FlowBorrow
<1>3. CASE \E l, b \in Users, d, c \in Assets, amount \in Amounts :
              Liquidate(l, b, d, c, amount)
  BY <1>3, PoolKeepsListings DEF Liquidate, EngineRepays
<1>4. CASE \/ \E p \in BOOLEAN : SetHalted(p)
           \/ \E cfg \in LiqConfigs : SetLiqConfig(cfg)
           \/ \E a \in Assets : \E p \in Prices[a] \union {NoPrice} : MovePrice(a, p)
           \/ UNCHANGED allVars
  BY <1>4 DEF SetHalted, SetLiqConfig, MovePrice, allVars, poolVars
<1>5. CASE \E u \in PoolUsers, a \in PoolAssets, amount \in PoolAmounts :
              \/ PoolOnly(Pool!Supply(u, a, amount))
              \/ PoolOnly(Pool!Withdraw(u, a, amount))
              \/ PoolOnly(Pool!SupplyCollateral(u, a, amount))
              \/ PoolOnly(Pool!WithdrawCollateral(u, a, amount))
              \/ PoolOnly(Pool!Borrow(u, a, amount))
              \/ PoolOnly(Pool!Repay(u, a, amount))
  BY <1>5, PoolKeepsListings DEF PoolOnly
<1>6. CASE PoolOnly(Pool!CloseLedger)
  BY <1>6, PoolKeepsListings DEF PoolOnly
<1> QED BY <1>1, <1>2, <1>3, <1>4, <1>5, <1>6 DEF MarketNext

LEMMA MarketSpecFacts == MarketSpec => []MarketFactsInv
<1>1. MarketInit => ListedOnce
  BY DEF MarketInit, Wired, ListedOnce
<1>2. ListedOnce /\ [MarketNext]_allVars => ListedOnce'
  BY MarketKeepsListings DEF ListedOnce
<1>3. MarketSpec => []ListedOnce
  BY <1>1, <1>2, PTL DEF MarketSpec
<1> QED BY <1>3, MarketSpecInv, MarketSpecPool, PTL DEF MarketFactsInv

\* The types, and the debt of a user at the index of the last accrual.
LEMMA MarketTypes ==
    ASSUME MarketFactsInv, NEW a \in Assets, NEW u \in Users
    PROVE  /\ MarketTypeOK
           /\ position \in Positions /\ position[a][u] \in Nat
           /\ totalByAsset \in [Assets -> Nat]
           /\ principal[a][u] \in Nat
           /\ snapIndex[a][u] \in Nat \ {0} /\ snapIndex[a][u] <= borrowIndex[a]
           /\ borrowIndex[a] \in Nat \ {0}
           /\ cash \in [Assets -> Nat]
           /\ DebtOf(u, a) \in Nat
           /\ principal[a][u] <= DebtOf(u, a)
<1>1. /\ MarketTypeOK /\ position \in Positions /\ totalByAsset \in [Assets -> Nat]
  BY DEF MarketFactsInv, MarketInv, VaultInv, VaultTypeOK, Positions
<1>2. /\ principal \in [Assets -> [Users -> Nat]]
      /\ snapIndex \in [Assets -> [Users -> Nat \ {0}]]
      /\ borrowIndex \in [Assets -> Nat]
      /\ cash \in [Assets -> Nat]
  BY DEF MarketFactsInv, PoolProofs!IInv, PoolProofs!TypeOK, PoolProofs!Users, Users
<1>3. borrowIndex[a] >= IndexScale /\ snapIndex[a][u] <= borrowIndex[a]
  <2>1. listings[a] <= 1
    BY DEF MarketFactsInv, ListedOnce
  <2> QED BY <2>1 DEF MarketFactsInv, PoolProofs!IInv, PoolProofs!MarketFacts,
                      PoolProofs!Users, Users
<1>4. borrowIndex[a] \in Nat \ {0}
  BY <1>2, <1>3, PoolAssumption
<1>5. /\ Pool!Owed(principal[a][u], snapIndex[a][u], borrowIndex[a]) \in Nat
      /\ principal[a][u] <= Pool!Owed(principal[a][u], snapIndex[a][u], borrowIndex[a])
  <2>1. principal[a][u] \in Nat /\ snapIndex[a][u] \in Nat \ {0}
    BY <1>2
  <2> QED BY <1>3, <1>4, <2>1, OwedAtIndex
<1> QED BY <1>1, <1>2, <1>3, <1>4, <1>5 DEF DebtOf, Positions

----------------------------------------------------------------------------
\* A position within the LTV cannot be liquidated.

\* What WithinLtv lets through, Liquidatable refuses, also for a smaller debt.
LEMMA WithinIsHealthy ==
    ASSUME NEW debtValue \in Nat, NEW counted \in Nat, NEW collateralValue \in Nat,
           NEW c \in Assets, debtValue <= counted,
           WithinLtv(counted, collateralValue, c)
    PROVE  debtValue <= (collateralValue * EffectiveLtv(c)) \div 10000
<1>1. EffectiveLtv(c) \in Nat
  BY MarketAssumption DEF EffectiveLtv, Pool!Lesser, MAX_LTV_BPS
<1>2. collateralValue * EffectiveLtv(c) \in Nat
  BY <1>1
<1>3. debtValue * 10000 <= collateralValue * EffectiveLtv(c)
  BY <1>2 DEF WithinLtv
<1> QED BY <1>2, <1>3, QuotientAtLeast

\* A borrow leaves the new principal at the index it was accrued to, which is
\* at most the debt that was counted.
LEMMA BorrowIsHealthy ==
    ASSUME MarketFactsInv, MarketFactsInv', NEW u \in Users, NEW c \in Assets, NEW d \in Assets,
           NEW posted \in Amounts, NEW amount \in Amounts, FlowBorrow(u, c, posted, d, amount)
    PROVE  ~ Liquidatable(u, d, c)'
<1>1. /\ amount \in Nat /\ posted \in Nat
      /\ price' = price
  BY VaultAssumption DEF FlowBorrow, marketVars
<1>2. /\ principal'[d][u] = principal[d][u] + amount
      /\ snapIndex'[d][u] = borrowIndex'[d]
  <2>1. Pool!BorrowInternal(u, d, amount, FALSE)
    BY DEF FlowBorrow, Pool!BorrowRaw
  <2>2. /\ principal' = [principal EXCEPT ![d][u] = @ + amount]
        /\ snapIndex' = [snapIndex EXCEPT ![d][u] = Pool!AccruedIndex(d)]
        /\ borrowIndex' = [borrowIndex EXCEPT ![d] = Pool!AccruedIndex(d)]
    BY <2>1 DEF Pool!BorrowInternal, Pool!AccrueInterest
  <2>3. /\ principal \in [Assets -> [Users -> Nat]]
        /\ snapIndex \in [Assets -> [Users -> Nat \ {0}]]
        /\ borrowIndex \in [Assets -> Nat]
    BY DEF MarketFactsInv, PoolProofs!IInv, PoolProofs!TypeOK, PoolProofs!Users, Users
  <2> HIDE DEF MarketFactsInv
  <2> QED BY <2>2, <2>3
<1>3. /\ position'[c][u] = position[c][u] + posted
      /\ position[c][u] \in Nat
  BY MarketTypes DEF FlowBorrow, VaultDeposit, Positions
<1>4. DebtOf(u, d)' = principal[d][u] + amount
  <2>1. /\ principal'[d][u] \in Nat
        /\ borrowIndex'[d] \in Nat \ {0}
    <3>1. /\ principal' \in [Assets -> [Users -> Nat]]
          /\ borrowIndex' \in [Assets -> Nat]
          /\ borrowIndex'[d] >= IndexScale
      BY DEF MarketFactsInv, PoolProofs!IInv, PoolProofs!TypeOK, PoolProofs!MarketFacts,
             PoolProofs!Users, Users
    <3> QED BY <3>1, PoolAssumption
  <2>2. Pool!Owed(principal'[d][u], borrowIndex'[d], borrowIndex'[d]) = principal'[d][u]
    BY <2>1, OwedAtIndex
  <2> QED BY <1>2, <2>2 DEF DebtOf
<1>5. DebtOf(u, d) \in Nat /\ principal[d][u] \in Nat /\ principal[d][u] <= DebtOf(u, d)
  BY MarketTypes
<1>6. /\ ValueOf(d, principal[d][u] + amount) \in Nat
      /\ ValueOf(d, DebtOf(u, d) + amount) \in Nat
      /\ ValueOf(d, principal[d][u] + amount) <= ValueOf(d, DebtOf(u, d) + amount)
  BY <1>1, <1>5, MarketTypes, ValueGrows
<1>7. ValueOf(c, position[c][u] + posted) \in Nat
  BY <1>1, <1>3, MarketTypes, ValueGrows
<1>8. ValueOf(d, principal[d][u] + amount)
        <= (ValueOf(c, position[c][u] + posted) * EffectiveLtv(c)) \div 10000
  BY <1>6, <1>7, WithinIsHealthy DEF FlowBorrow
<1>9. /\ ValueOf(d, DebtOf(u, d))' = ValueOf(d, principal[d][u] + amount)
      /\ ValueOf(c, position[c][u])' = ValueOf(c, position[c][u] + posted)
      /\ EffectiveLtv(c)' = EffectiveLtv(c)
  BY <1>1, <1>3, <1>4 DEF ValueOf, EffectiveLtv
<1>10. /\ (ValueOf(c, position[c][u] + posted) * EffectiveLtv(c)) \div 10000 \in Nat
  <2>1. EffectiveLtv(c) \in Nat
    BY MarketAssumption DEF EffectiveLtv, Pool!Lesser, MAX_LTV_BPS
  <2> QED BY <1>7, <2>1, QuotientIsNat
<1> QED BY <1>6, <1>8, <1>9, <1>10 DEF Liquidatable, EngineReads

\* A withdrawal leaves collateral for the debts in all assets together, of which
\* the one looked at is a part.
LEMMA WithdrawalIsHealthy ==
    ASSUME MarketFactsInv, NEW u \in Users, NEW c \in Assets, NEW d \in Assets,
           NEW amount \in Amounts, FlowWithdrawCollateral(u, c, amount)
    PROVE  ~ Liquidatable(u, d, c)'
<1>1. /\ amount \in Nat /\ amount <= position[c][u]
      /\ price' = price
      /\ principal' = principal /\ snapIndex' = snapIndex /\ borrowIndex' = borrowIndex
  BY VaultAssumption DEF FlowWithdrawCollateral, marketVars, poolVars
<1>2. /\ MarketTypeOK
      /\ position \in Positions /\ position[c][u] \in Nat
      /\ \A a \in Assets : DebtOf(u, a) \in Nat
  BY MarketTypes
<1>3. position'[c][u] = position[c][u] - amount /\ position[c][u] - amount \in Nat
  BY <1>1, <1>2 DEF FlowWithdrawCollateral, VaultWithdraw, Positions
<1> DEFINE rest == ValueOf(c, position[c][u] - amount)
           value == [a \in Owing(u) |-> ValueOf(a, DebtOf(u, a))]
<1>4. \A a \in Assets : ValueOf(a, DebtOf(u, a)) \in Nat
  BY <1>2, ValueGrows
<1>5. rest \in Nat
  BY <1>2, <1>3, ValueGrows
<1>6. IsFiniteSet(Owing(u)) /\ Owing(u) \subseteq Assets
  <2>1. Owing(u) \subseteq Assets
    BY DEF Owing, Configured
  <2> QED BY <2>1, MarketAssumption, FS_Subset
<1>7. /\ TotalDebtValue(u) \in Nat
      /\ \A a \in Owing(u) : ValueOf(a, DebtOf(u, a)) <= TotalDebtValue(u)
  <2>1. \A a \in Owing(u) : value[a] \in Nat
    BY <1>4, <1>6
  <2> HIDE DEF value
  <2>2. /\ SumFunctionOnSet(value, Owing(u)) \in Nat
        /\ \A a \in Owing(u) : value[a] <= SumFunctionOnSet(value, Owing(u))
    BY <1>6, <2>1, FoldDominates
  <2>3. DOMAIN value = Owing(u) /\ TotalDebtValue(u) = SumFunctionOnSet(value, DOMAIN value)
    BY DEF TotalDebtValue, SumFunction, value
  <2>4. \A a \in Owing(u) : value[a] = ValueOf(a, DebtOf(u, a))
    BY DEF value
  <2> QED BY <2>2, <2>3, <2>4
<1>8. /\ ValueOf(d, DebtOf(u, d))' = ValueOf(d, DebtOf(u, d))
      /\ ValueOf(c, position[c][u])' = rest
      /\ EffectiveLtv(c)' = EffectiveLtv(c)
  BY <1>1, <1>3 DEF ValueOf, DebtOf, EffectiveLtv
<1>9. CASE d \in Owing(u)
  <2>1. ValueOf(d, DebtOf(u, d)) <= (rest * EffectiveLtv(c)) \div 10000
    <3>1. ValueOf(d, DebtOf(u, d)) <= TotalDebtValue(u) /\ ValueOf(d, DebtOf(u, d)) \in Nat
      BY <1>4, <1>7, <1>9
    <3>2. WithinLtv(TotalDebtValue(u), rest, c)
      BY DEF FlowWithdrawCollateral
    <3> HIDE DEF rest
    <3> QED BY <1>5, <1>7, <3>1, <3>2, WithinIsHealthy
  <2>2. (rest * EffectiveLtv(c)) \div 10000 \in Nat
    <3>1. EffectiveLtv(c) \in Nat
      BY MarketAssumption DEF EffectiveLtv, Pool!Lesser, MAX_LTV_BPS
    <3> QED BY <1>5, <3>1, QuotientIsNat
  <2> QED BY <1>4, <1>8, <2>1, <2>2 DEF Liquidatable, EngineReads
<1>10. CASE d \notin Owing(u)
  <2>1. DebtOf(u, d) = 0
    <3>1. d \in Configured
      BY DEF MarketFactsInv, ListedOnce, Configured
    <3>2. ~ (DebtOf(u, d) > 0)
      BY <1>10, <3>1 DEF Owing
    <3> QED BY <1>2, <3>2
  <2>2. ValueOf(d, DebtOf(u, d)) = 0
    BY <1>2, <2>1, MarketAssumption DEF ValueOf, MarketTypeOK
  <2> QED BY <1>8, <2>2 DEF Liquidatable, EngineReads
<1> QED BY <1>9, <1>10

\* Which calls change an asset's total in the vault, and that no other does.
LEMMA TotalsMoveBy ==
    ASSUME MarketFactsInv, [MarketNext]_allVars, NEW c \in Assets,
           totalByAsset'[c] # totalByAsset[c]
    PROVE  \/ \E u \in FlowUsers, amount \in Amounts : FlowSupplyCollateral(u, c, amount)
           \/ \E u \in FlowUsers, amount \in Amounts : FlowWithdrawCollateral(u, c, amount)
           \/ \E u \in FlowUsers, d \in Assets, posted, amount \in Amounts :
                 FlowBorrow(u, c, posted, d, amount)
<1>1. totalByAsset \in [Assets -> Nat]
  BY MarketTypes, VaultAssumption DEF MarketFactsInv, MarketInv, VaultInv, VaultTypeOK
<1>2. CASE \E u \in FlowUsers, a \in Assets, amount \in Amounts :
              FlowSupplyCollateral(u, a, amount)
  <2>1. PICK u \in FlowUsers, a \in Assets, amount \in Amounts :
            FlowSupplyCollateral(u, a, amount)
    BY <1>2
  <2>2. totalByAsset' = [totalByAsset EXCEPT ![a] = @ + amount]
    BY <2>1 DEF FlowSupplyCollateral, VaultDeposit
  <2>3. a = c
    BY <1>1, <2>2
  <2> QED BY <2>1, <2>3
<1>3. CASE \E u \in FlowUsers, a \in Assets, amount \in Amounts :
              FlowWithdrawCollateral(u, a, amount)
  <2>1. PICK u \in FlowUsers, a \in Assets, amount \in Amounts :
            FlowWithdrawCollateral(u, a, amount)
    BY <1>3
  <2>2. totalByAsset' = [totalByAsset EXCEPT ![a] = @ - amount]
    BY <2>1 DEF FlowWithdrawCollateral, VaultWithdraw
  <2>3. a = c
    BY <1>1, <2>2
  <2> QED BY <2>1, <2>3
<1>4. CASE \E u \in FlowUsers, a, d \in Assets, posted, amount \in Amounts :
              FlowBorrow(u, a, posted, d, amount)
  <2>1. PICK u \in FlowUsers, a \in Assets, d \in Assets, posted \in Amounts,
             amount \in Amounts : FlowBorrow(u, a, posted, d, amount)
    BY <1>4
  <2>2. totalByAsset' = [totalByAsset EXCEPT ![a] = @ + posted]
    BY <2>1 DEF FlowBorrow, VaultDeposit
  <2>3. a = c
    BY <1>1, <2>2
  <2> QED BY <2>1, <2>3
<1>5. CASE \/ \E u \in FlowUsers, a \in Assets, amount \in Amounts : FlowRepay(u, a, amount)
           \/ \E l, b \in Users, d, a \in Assets, amount \in Amounts :
                 Liquidate(l, b, d, a, amount)
           \/ \E p \in BOOLEAN : SetHalted(p)
           \/ \E cfg \in LiqConfigs : SetLiqConfig(cfg)
           \/ \E a \in Assets : \E p \in Prices[a] \union {NoPrice} : MovePrice(a, p)
           \/ UNCHANGED allVars
           \/ PoolOnly(Pool!CloseLedger)
           \/ \E u \in PoolUsers, a \in PoolAssets, amount \in PoolAmounts :
                 \/ PoolOnly(Pool!Supply(u, a, amount))
                 \/ PoolOnly(Pool!Withdraw(u, a, amount))
                 \/ PoolOnly(Pool!SupplyCollateral(u, a, amount))
                 \/ PoolOnly(Pool!WithdrawCollateral(u, a, amount))
                 \/ PoolOnly(Pool!Borrow(u, a, amount))
                 \/ PoolOnly(Pool!Repay(u, a, amount))
  <2>1. UNCHANGED totalByAsset
    BY <1>5 DEF FlowRepay, Liquidate, SeizeShares, SetHalted, SetLiqConfig, MovePrice, PoolOnly,
                allVars, vaultVars, vaultBooks
  <2> QED BY <2>1
<1> QED BY <1>2, <1>3, <1>4, <1>5 DEF MarketNext

\* "This is the inverse of the controller's borrow-time LTV check" (liquidation
\* lib.rs): who just posted c and borrowed d, or just withdrew part of c, cannot
\* be liquidated on the spot, whatever the prices, the index and other debts are.
THEOREM MarketNoInstantLiquidation == MarketSpec => NoInstantLiquidation
<1>1. ASSUME MarketFactsInv, MarketFactsInv', [MarketNext]_allVars,
             NEW u \in FlowUsers, NEW c \in Assets, NEW d \in Assets,
             \/ /\ totalByAsset'[c] > totalByAsset[c]
                /\ totalBorrow'[d] > totalBorrow[d]
                /\ position'[c][u] > position[c][u]
             \/ /\ totalByAsset'[c] < totalByAsset[c]
                /\ position'[c][u] < position[c][u]
      PROVE  ~ Liquidatable(u, d, c)'
  <2>1. /\ totalByAsset \in [Assets -> Nat] /\ totalByAsset[c] \in Nat
        /\ position \in Positions
        /\ FlowUsers \subseteq Users
        /\ u \in Users
    BY <1>1, MarketAssumption DEF MarketFactsInv, MarketInv, VaultInv, VaultTypeOK, Positions
  <2>2. totalBorrow \in [Assets -> Int]
    BY <1>1 DEF MarketFactsInv, PoolProofs!IInv, PoolProofs!TypeOK
  <2>3. totalByAsset'[c] # totalByAsset[c]
    BY <1>1, <2>1
  <2>4. CASE \E v \in FlowUsers, amount \in Amounts : FlowSupplyCollateral(v, c, amount)
    <3>1. PICK v \in FlowUsers, amount \in Amounts : FlowSupplyCollateral(v, c, amount)
      BY <2>4
    <3>2. /\ totalByAsset' = [totalByAsset EXCEPT ![c] = @ + amount]
          /\ amount \in Nat
          /\ totalBorrow' = totalBorrow
      BY <3>1, VaultAssumption DEF FlowSupplyCollateral, VaultDeposit, Pool!SupplyCollateral,
                                   Pool!market
    <3> QED BY <1>1, <2>1, <2>2, <3>2
  <2>5. CASE \E v \in FlowUsers, amount \in Amounts : FlowWithdrawCollateral(v, c, amount)
    <3>1. PICK v \in FlowUsers, amount \in Amounts : FlowWithdrawCollateral(v, c, amount)
      BY <2>5
    <3>2. /\ totalByAsset' = [totalByAsset EXCEPT ![c] = @ - amount]
          /\ position' = [position EXCEPT ![c][v] = @ - amount]
          /\ amount \in Nat
      BY <3>1, VaultAssumption DEF FlowWithdrawCollateral, VaultWithdraw
    <3>3. position'[c][u] # position[c][u]
      BY <1>1, <2>1, <3>2 DEF Positions
    <3>4. v = u
      BY <2>1, <3>2, <3>3 DEF Positions
    <3> QED BY <1>1, <2>1, <3>1, <3>4, WithdrawalIsHealthy
  <2>6. CASE \E v \in FlowUsers, e \in Assets, posted, amount \in Amounts :
                FlowBorrow(v, c, posted, e, amount)
    <3>1. PICK v \in FlowUsers, e \in Assets, posted \in Amounts, amount \in Amounts :
              FlowBorrow(v, c, posted, e, amount)
      BY <2>6
    <3>2. /\ totalByAsset' = [totalByAsset EXCEPT ![c] = @ + posted]
          /\ position' = [position EXCEPT ![c][v] = @ + posted]
          /\ posted \in Nat
          /\ totalBorrow' = [totalBorrow EXCEPT ![e] = @ + amount]
      BY <3>1, VaultAssumption DEF FlowBorrow, VaultDeposit, Pool!BorrowRaw,
                                   Pool!BorrowInternal
    <3>3. /\ totalBorrow'[d] > totalBorrow[d]
          /\ position'[c][u] > position[c][u]
      BY <1>1, <2>1, <3>2
    <3>4. v = u
      BY <2>1, <3>2, <3>3 DEF Positions
    <3>5. e = d
      BY <2>2, <3>2, <3>3
    <3> QED BY <1>1, <2>1, <3>1, <3>4, <3>5, BorrowIsHealthy
  <2> QED BY <1>1, <2>3, <2>4, <2>5, <2>6, TotalsMoveBy
<1>2. MarketFactsInv /\ MarketFactsInv' /\ [MarketNext]_allVars =>
        [\A u \in FlowUsers, c, d \in Assets :
           \/ /\ totalByAsset'[c] > totalByAsset[c]
              /\ totalBorrow'[d] > totalBorrow[d]
              /\ position'[c][u] > position[c][u]
           \/ /\ totalByAsset'[c] < totalByAsset[c]
              /\ position'[c][u] < position[c][u]
           => ~ Liquidatable(u, d, c)']_allVars
  BY <1>1
<1> QED BY <1>2, MarketSpecFacts, PTL DEF MarketSpec, NoInstantLiquidation

----------------------------------------------------------------------------
\* Seizures are paid for.

\* "max fraction of debt repayable in a single tx" (liquidation lib.rs): no
\* configuration lets a liquidator name more than the debt.  Neither initialize
\* nor set_config looks at it.
CloseFactorIsFraction == \A cfg \in LiqConfigs : cfg.close <= 10000

\* What accrual leaves in the index: the pool's lemma, under the pool's other name.
LEMMA AccruedIndexGrows ==
    ASSUME MarketFactsInv, NEW a \in Assets, Pool!AccrueInterest(a)
    PROVE  Pool!AccruedIndex(a) \in Nat /\ borrowIndex[a] <= Pool!AccruedIndex(a)
<1>1. PoolProofs!AccrueInterest(a) /\ Pool!AccruedIndex(a) = PoolProofs!AccruedIndex(a)
  BY PoolOperators
<1>2. PoolProofs!TypeOK
  BY DEF MarketFactsInv, PoolProofs!IInv
<1> QED BY <1>1, <1>2, PoolAssumptions, PoolProofs!AccrualGrows

\* A liquidator's amount is within the debt that was read, and accrual only adds
\* to it, so the pool takes the whole amount.
LEMMA LiquidationPaysInFull ==
    ASSUME CloseFactorIsFraction, MarketFactsInv, MarketFactsInv',
           NEW l \in Users, NEW b \in Users, NEW d \in Assets, NEW c \in Assets,
           NEW amount \in Amounts, Liquidate(l, b, d, c, amount)
    PROVE  /\ amount \in Nat
           /\ cash' = [cash EXCEPT ![d] = @ + amount]
<1> DEFINE owed == Pool!Owed(principal[d][b], snapIndex[d][b], Pool!AccruedIndex(d))
<1>1. /\ amount \in Nat /\ amount > 0
      /\ amount <= (DebtOf(b, d) * liqConfig.close) \div 10000
      /\ Pool!RepayInternal(b, d, amount)
  BY VaultAssumption DEF Liquidate, EngineReads, EngineRepays, Pool!RepayOnBehalf
<1>2. DebtOf(b, d) \in Nat /\ liqConfig.close \in Nat /\ liqConfig.close <= 10000
  <2>1. DebtOf(b, d) \in Nat /\ MarketTypeOK
    BY MarketTypes
  <2>2. liqConfig \in LiqConfig /\ liqConfig.close <= 10000
    BY <2>1, MarketAssumption DEF MarketTypeOK, CloseFactorIsFraction
  <2> QED BY <2>1, <2>2 DEF LiqConfig
<1>3. (DebtOf(b, d) * liqConfig.close) \div 10000 <= DebtOf(b, d)
  <2> DEFINE debt == DebtOf(b, d)
             q == (debt * liqConfig.close) \div 10000
  <2>1. debt * liqConfig.close \in Nat /\ debt * liqConfig.close <= debt * 10000
    BY <1>2, ProductGrows
  <2>2. q \in Nat /\ q * 10000 <= debt * liqConfig.close
    BY <2>1, QuotientIsNat
  <2> HIDE DEF q, debt
  <2>3. debt \in Nat
    BY <1>2 DEF debt
  <2>4. q * 10000 <= debt * 10000
    BY <2>1, <2>2, <2>3
  <2>5. q <= debt
    BY <2>2, <2>3, <2>4
  <2> QED BY <2>5 DEF q, debt
<1>4. amount <= DebtOf(b, d)
  <2>1. (DebtOf(b, d) * liqConfig.close) \div 10000 \in Nat
    BY <1>2, ProductGrows, QuotientIsNat
  <2> QED BY <1>1, <1>2, <1>3, <2>1
<1>5. DebtOf(b, d) <= owed /\ owed \in Nat
  <2>1. /\ principal[d][b] \in Nat /\ snapIndex[d][b] \in Nat \ {0}
        /\ borrowIndex[d] \in Nat /\ snapIndex[d][b] <= borrowIndex[d]
    BY MarketTypes
  <2>2. Pool!AccruedIndex(d) \in Nat /\ borrowIndex[d] <= Pool!AccruedIndex(d)
    BY <1>1, AccruedIndexGrows DEF Pool!RepayInternal
  <2> QED BY <2>1, <2>2, OwedAtIndex DEF DebtOf
<1>6. Pool!Lesser(amount, owed) = amount
  BY <1>1, <1>2, <1>4, <1>5 DEF Pool!Lesser
<1>7. Pool!TokensIn(d, amount)
  BY <1>1, <1>6 DEF Pool!RepayInternal
<1> QED BY <1>1, <1>7 DEF Pool!TokensIn

\* What a liquidation takes from the borrower's position in c, and that it takes
\* nothing from anybody else's, nor from other assets.
LEMMA SeizureTakes ==
    ASSUME MarketFactsInv, NEW l \in Users, NEW b \in Users, NEW c \in Assets,
           NEW amount \in Nat, NEW fee \in Nat, SeizeShares(l, b, c, amount, fee)
    PROVE  /\ \A a \in Assets \ {c} : position'[a] = position[a]
           /\ \A u \in Users : /\ position'[c][u] \in Int
                               /\ position[c][u] - position'[c][u] <= amount + fee
<1> DEFINE paid == Moved(position, c, b, l, amount)
<1>1. position \in Positions /\ Treasury \in Users
  BY MarketTypes, MarketAssumption DEF MarketFactsInv, MarketInv, VaultInv, VaultTypeOK, Positions
<1>2. ASSUME NEW pos \in [Assets -> [Users -> Int]], NEW taker \in Users, NEW x \in Nat
      PROVE  /\ Moved(pos, c, b, taker, x) \in [Assets -> [Users -> Int]]
             /\ \A a \in Assets \ {c} : Moved(pos, c, b, taker, x)[a] = pos[a]
             /\ \A u \in Users : pos[c][u] - Moved(pos, c, b, taker, x)[c][u] <= x
  <2> DEFINE lowered == [pos EXCEPT ![c][b] = @ - x]
  <2>1. /\ lowered \in [Assets -> [Users -> Int]]
        /\ \A a \in Assets \ {c} : lowered[a] = pos[a]
        /\ \A u \in Users : lowered[c][u] = IF u = b THEN pos[c][u] - x ELSE pos[c][u]
    BY <1>2
  <2> HIDE DEF lowered
  <2>2. /\ [lowered EXCEPT ![c][taker] = @ + x] \in [Assets -> [Users -> Int]]
        /\ \A a \in Assets \ {c} : [lowered EXCEPT ![c][taker] = @ + x][a] = lowered[a]
        /\ \A u \in Users : [lowered EXCEPT ![c][taker] = @ + x][c][u]
                              = IF u = taker THEN lowered[c][u] + x ELSE lowered[c][u]
    BY <1>2, <2>1
  <2>3. Moved(pos, c, b, taker, x) = [lowered EXCEPT ![c][taker] = @ + x]
    BY DEF Moved, lowered
  <2>4. \A u \in Users : pos[c][u] \in Int
    BY <1>2
  <2> QED BY <1>2, <2>1, <2>2, <2>3, <2>4
<1>3. position \in [Assets -> [Users -> Int]]
  BY <1>1 DEF Positions
<1>4. /\ paid \in [Assets -> [Users -> Int]]
      /\ \A a \in Assets \ {c} : paid[a] = position[a]
      /\ \A u \in Users : position[c][u] - paid[c][u] <= amount
  BY <1>2, <1>3
<1>5. position' = IF fee > 0 THEN Moved(paid, c, b, Treasury, fee) ELSE paid
  BY DEF SeizeShares
<1> HIDE DEF paid
<1>6. /\ Moved(paid, c, b, Treasury, fee) \in [Assets -> [Users -> Int]]
      /\ \A a \in Assets \ {c} : Moved(paid, c, b, Treasury, fee)[a] = paid[a]
      /\ \A u \in Users : paid[c][u] - Moved(paid, c, b, Treasury, fee)[c][u] <= fee
  BY <1>1, <1>2, <1>4
<1>7. \A u \in Users : position[c][u] \in Int /\ paid[c][u] \in Int
  BY <1>3, <1>4
<1> QED
  <2>1. CASE fee > 0
    <3>1. position' = Moved(paid, c, b, Treasury, fee)
      BY <1>5, <2>1
    <3>2. \A u \in Users : position'[c][u] \in Int
      BY <1>6, <3>1
    <3>3. \A a \in Assets \ {c} : position'[a] = position[a]
      BY <1>4, <1>6, <3>1
    <3> QED BY <1>4, <1>6, <1>7, <3>1, <3>2, <3>3
  <2>2. CASE ~ (fee > 0)
    <3>1. position' = paid
      BY <1>5, <2>2
    <3> QED BY <1>4, <1>7, <3>1
  <2> QED BY <2>1, <2>2

\* The roundings of the engine all favour the borrower.
LEMMA SeizedIsWorth ==
    ASSUME MarketTypeOK, NEW d \in Assets, NEW c \in Assets, NEW amount \in Nat, Priced(c)
    PROVE  SeizedUnits(d, c, amount) * price[c] * 10000
             <= (amount * price[d]) * (10000 + liqConfig.bonus)
<1> DEFINE worth == ValueOf(d, amount)
           value == (worth * (10000 + liqConfig.bonus)) \div 10000
           seized == (value * UnitScale) \div price[c]
           bonus == 10000 + liqConfig.bonus
<1>1. /\ price[d] \in Nat /\ price[c] \in Nat \ {0} /\ UnitScale \in Nat \ {0}
      /\ bonus \in Nat
  BY MarketAssumption DEF MarketTypeOK, Priced, NoPrice, LiqConfig
<1>2. worth \in Nat /\ worth * UnitScale <= amount * price[d] /\ amount * price[d] \in Nat
  <2>1. amount * price[d] \in Nat
    BY <1>1
  <2> QED BY <1>1, <2>1, QuotientIsNat DEF ValueOf
<1> HIDE DEF worth, bonus
<1>3. worth * bonus \in Nat
  BY <1>1, <1>2
<1>4. value \in Nat /\ value * 10000 <= worth * bonus
  BY <1>3, QuotientIsNat DEF bonus
<1> HIDE DEF value
<1>5. value * UnitScale \in Nat
  BY <1>1, <1>4
<1>6. seized \in Nat /\ seized * price[c] <= value * UnitScale
  BY <1>1, <1>5, QuotientIsNat
<1> HIDE DEF seized
<1>7. seized * price[c] \in Nat /\ (seized * price[c]) * 10000 <= (value * UnitScale) * 10000
  BY <1>1, <1>5, <1>6
<1>8. (value * UnitScale) * 10000 = (value * 10000) * UnitScale
  BY <1>1, <1>4
<1>9. (value * 10000) * UnitScale <= (worth * bonus) * UnitScale
  <2>1. value * 10000 \in Nat
    BY <1>4
  <2> QED BY <1>1, <1>3, <1>4, <2>1, ProductGrows
<1>10. (worth * bonus) * UnitScale = (worth * UnitScale) * bonus
  BY <1>1, <1>2
<1>11. (worth * UnitScale) * bonus <= (amount * price[d]) * bonus
  <2>1. worth * UnitScale \in Nat
    BY <1>1, <1>2
  <2> QED BY <1>1, <1>2, <2>1, ProductGrows
<1>12. /\ (seized * price[c]) * 10000 \in Int
       /\ (worth * bonus) * UnitScale \in Int
       /\ (amount * price[d]) * bonus \in Int
  BY <1>1, <1>2, <1>3, <1>7
<1>13. (seized * price[c]) * 10000 <= (amount * price[d]) * bonus
  <2> DEFINE left == (seized * price[c]) * 10000
             between == (value * UnitScale) * 10000
             middle == (worth * bonus) * UnitScale
             right == (amount * price[d]) * bonus
  <2>0. between <= middle
    BY <1>8, <1>9
  <2>1. left <= between /\ between \in Int
    BY <1>5, <1>7
  <2>2. middle <= right
    BY <1>10, <1>11
  <2>3. left \in Int /\ middle \in Int /\ right \in Int
    BY <1>12
  <2> HIDE DEF left, between, middle, right
  <2>4. left <= right
    BY <2>0, <2>1, <2>2, <2>3
  <2> QED BY <2>4 DEF left, right
<1> QED BY <1>13 DEF SeizedUnits, seized, value, worth, bonus

\* Only a liquidation moves positions and leaves their total.
LEMMA SeizingSteps ==
    ASSUME MarketFactsInv, [MarketNext]_allVars, NEW c \in Assets, Seizes(c)
    PROVE  \E l, b \in Users, d, e \in Assets, amount \in Amounts :
              Liquidate(l, b, d, e, amount)
<1>1. totalByAsset \in [Assets -> Nat] /\ position \in Positions
  BY DEF MarketFactsInv, MarketInv, VaultInv, VaultTypeOK, Positions
<1>2. position'[c] # position[c] /\ totalByAsset'[c] = totalByAsset[c]
  BY DEF Seizes
<1>3. ASSUME NEW u \in Users, NEW a \in Assets, NEW amount \in Amounts,
             \/ VaultDeposit(Controller, u, a, amount)
             \/ VaultWithdraw(Controller, u, a, amount)
      PROVE  FALSE
  <2>1. /\ amount \in Int /\ amount > 0
        /\ \/ /\ position' = [position EXCEPT ![a][u] = @ + amount]
              /\ totalByAsset' = [totalByAsset EXCEPT ![a] = @ + amount]
           \/ /\ position' = [position EXCEPT ![a][u] = @ - amount]
              /\ totalByAsset' = [totalByAsset EXCEPT ![a] = @ - amount]
    BY <1>3, VaultAssumption DEF VaultDeposit, VaultWithdraw
  <2>2. a = c
    BY <1>1, <1>2, <2>1 DEF Positions
  <2>3. totalByAsset'[c] # totalByAsset[c]
    BY <1>1, <2>1, <2>2
  <2> QED BY <1>2, <2>3
<1>4. CASE \/ \E u \in FlowUsers, a \in Assets, amount \in Amounts :
                 \/ FlowSupplyCollateral(u, a, amount)
                 \/ FlowWithdrawCollateral(u, a, amount)
           \/ \E u \in FlowUsers, a, d \in Assets, posted, amount \in Amounts :
                 FlowBorrow(u, a, posted, d, amount)
  <2>1. \E u \in Users, a \in Assets, amount \in Amounts :
            VaultDeposit(Controller, u, a, amount) \/ VaultWithdraw(Controller, u, a, amount)
    BY <1>4, MarketAssumption DEF FlowSupplyCollateral, FlowWithdrawCollateral, FlowBorrow
  <2> QED BY <1>3, <2>1
<1>5. CASE \/ \E u \in FlowUsers, a \in Assets, amount \in Amounts : FlowRepay(u, a, amount)
           \/ \E p \in BOOLEAN : SetHalted(p)
           \/ \E cfg \in LiqConfigs : SetLiqConfig(cfg)
           \/ \E a \in Assets : \E p \in Prices[a] \union {NoPrice} : MovePrice(a, p)
           \/ UNCHANGED allVars
           \/ PoolOnly(Pool!CloseLedger)
           \/ \E u \in PoolUsers, a \in PoolAssets, amount \in PoolAmounts :
                 \/ PoolOnly(Pool!Supply(u, a, amount))
                 \/ PoolOnly(Pool!Withdraw(u, a, amount))
                 \/ PoolOnly(Pool!SupplyCollateral(u, a, amount))
                 \/ PoolOnly(Pool!WithdrawCollateral(u, a, amount))
                 \/ PoolOnly(Pool!Borrow(u, a, amount))
                 \/ PoolOnly(Pool!Repay(u, a, amount))
  <2>1. UNCHANGED position
    BY <1>5 DEF FlowRepay, SetHalted, SetLiqConfig, MovePrice, PoolOnly, allVars, vaultVars,
                vaultBooks
  <2> QED BY <1>2, <2>1
<1> QED BY <1>4, <1>5 DEF MarketNext

\* Q-2 to Q-4 together: what a borrower loses in a seizure is worth at most what
\* came into the pool with it plus the bonus, when the close factor is a fraction.
\* With a larger one the pool would cap a repayment whose seizure is not capped.
THEOREM MarketSeizureIsPaidFor == CloseFactorIsFraction => (MarketSpec => SeizureIsPaidFor)
<1> SUFFICES ASSUME CloseFactorIsFraction PROVE MarketSpec => SeizureIsPaidFor
  OBVIOUS
<1> DEFINE paid == [d \in Assets |-> (cash'[d] - cash[d]) * price[d]]
<1>1. ASSUME MarketFactsInv, MarketFactsInv', NEW c \in Assets, NEW u \in Users, Seizes(c),
             NEW l \in Users, NEW b \in Users, NEW d \in Assets, NEW e \in Assets,
             NEW amount \in Amounts, Liquidate(l, b, d, e, amount)
      PROVE  (position[c][u] - position'[c][u]) * price[c] * 10000
               <= SumFunction(paid) * (10000 + liqConfig.bonus)
  <2>1. amount \in Nat /\ cash' = [cash EXCEPT ![d] = @ + amount]
    BY <1>1, LiquidationPaysInFull
  <2>2. MarketTypeOK /\ cash \in [Assets -> Nat] /\ position[c][u] \in Nat
    BY <1>1, MarketTypes
  <2>3. price \in [Assets -> Nat] /\ liqConfig.bonus \in Nat
    BY <2>2, MarketAssumption DEF MarketTypeOK, LiqConfig
  <2>4. SumFunction(paid) = amount * price[d]
    <3>1. paid[d] = amount * price[d] /\ paid[d] \in Int
      BY <2>1, <2>2, <2>3
    <3>2. \A x \in Assets \ {d} : paid[x] = 0
      BY <2>1, <2>2, <2>3
    <3>3. DOMAIN paid = Assets
      OBVIOUS
    <3> HIDE DEF paid
    <3>4. SumFunctionOnSet(paid, Assets) = paid[d]
      BY <3>1, <3>2, MarketAssumption, FoldOfOneTerm
    <3> QED BY <3>1, <3>3, <3>4 DEF SumFunction
  <2> HIDE DEF paid
  <2> DEFINE seized == SeizedUnits(d, e, amount)
             fee == FeeUnits(d, e, amount)
             loss == position[c][u] - position'[c][u]
  <2>5. /\ Priced(e)
        /\ seized > fee
        /\ SeizeShares(l, b, e, seized - fee, fee)
    BY <1>1 DEF Liquidate
  <2>6. seized \in Nat /\ fee \in Nat
    BY <2>1, <2>2, <2>5, UnitsAreNat
  <2>7. seized * price[e] * 10000 <= (amount * price[d]) * (10000 + liqConfig.bonus)
    BY <2>1, <2>2, <2>5, SeizedIsWorth
  <2> HIDE DEF seized, fee
  <2>8. seized - fee \in Nat
    BY <2>5, <2>6
  <2>9. /\ \A a \in Assets \ {e} : position'[a] = position[a]
        /\ \A x \in Users : /\ position'[e][x] \in Int
                            /\ position[e][x] - position'[e][x] <= (seized - fee) + fee
    BY <1>1, <2>5, <2>6, <2>8, SeizureTakes
  <2>10. c = e
    BY <1>1, <2>9 DEF Seizes
  <2>11. loss \in Int /\ loss <= seized
    BY <2>2, <2>6, <2>9, <2>10
  <2> HIDE DEF loss
  <2>12. price[c] \in Nat /\ seized * price[c] * 10000 \in Nat
    BY <2>3, <2>6
  <2>13. loss * price[c] * 10000 <= seized * price[c] * 10000 /\ loss * price[c] * 10000 \in Int
    <3>1. loss * price[c] \in Int /\ seized * price[c] \in Int
      BY <2>6, <2>11, <2>12
    <3>2. loss * price[c] <= seized * price[c]
      <4> DEFINE rest == seized - loss
      <4>1. rest \in Nat /\ seized = loss + rest
        BY <2>6, <2>11
      <4> HIDE DEF rest
      <4>2. rest * price[c] \in Nat
        BY <2>12, <4>1
      <4>3. seized * price[c] = loss * price[c] + rest * price[c]
        BY <2>11, <2>12, <4>1
      <4> QED BY <3>1, <4>2, <4>3
    <3> QED BY <3>1, <3>2
  <2>14. (amount * price[d]) * (10000 + liqConfig.bonus) \in Int
    BY <2>1, <2>3
  <2>15. loss * price[c] * 10000 <= (amount * price[d]) * (10000 + liqConfig.bonus)
    <3> DEFINE left == loss * price[c] * 10000
               middle == seized * price[c] * 10000
               right == (amount * price[d]) * (10000 + liqConfig.bonus)
    <3>1. left <= middle /\ middle <= right
      BY <2>7, <2>10, <2>13
    <3>2. left \in Int /\ middle \in Int /\ right \in Int
      BY <2>12, <2>13, <2>14
    <3> HIDE DEF left, middle, right
    <3>3. left <= right
      BY <3>1, <3>2
    <3> QED BY <3>3 DEF left, right
  <2> QED BY <2>4, <2>15 DEF loss
<1>2. ASSUME MarketFactsInv, [MarketNext]_allVars, NEW c \in Assets, Seizes(c)
      PROVE  \E l, b \in Users, d, e \in Assets, amount \in Amounts :
                Liquidate(l, b, d, e, amount)
  BY <1>2, SeizingSteps
<1>3. MarketFactsInv /\ MarketFactsInv' /\ [MarketNext]_allVars =>
        [\A c \in Assets : Seizes(c) =>
           \A b \in Users :
               (position[c][b] - position'[c][b]) * price[c] * 10000
                 <= SumFunction([d \in Assets |-> (cash'[d] - cash[d]) * price[d]])
                       * (10000 + liqConfig.bonus)]_allVars
  <2> SUFFICES ASSUME MarketFactsInv, MarketFactsInv', [MarketNext]_allVars,
                      NEW c \in Assets, Seizes(c), NEW u \in Users
               PROVE  (position[c][u] - position'[c][u]) * price[c] * 10000
                        <= SumFunction(paid) * (10000 + liqConfig.bonus)
    OBVIOUS
  <2> HIDE DEF paid
  <2> QED BY <1>1, <1>2
<1> QED BY <1>3, MarketSpecFacts, PTL DEF MarketSpec, SeizureIsPaidFor

============================================================================
