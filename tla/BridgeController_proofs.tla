----------------------- MODULE BridgeController_proofs -----------------------
(***************************************************************************)
(* What the bridge side of the controller keeps for every number of        *)
(* users, salts and attesters and every sequence of calls: the wrapped     *)
(* asset's supply is its balances and is backed by the wraps, a salt mints *)
(* once, a mint carries a quorum of distinct attesters, and the admins can *)
(* always reach theirs.                                                    *)
(***************************************************************************)
EXTENDS BridgeController, AccountSums_proofs, FiniteSetTheorems

\* A salt without a Nonce entry has minted nothing.
UnusedSaltsMintNothing == \A s \in Salts : s \notin usedSalts => mintedFor[s] = 0

\* What could be executed could have been set.
PendingIsValid == pending # Unset => ValidBridgeSet(pending.set)

BooksInv ==
    /\ balance \in [Users -> Nat]
    /\ totalSupply \in Nat
    /\ mintedFor \in [Salts -> Nat]
    /\ unwrapped \in [Users -> Nat]
    /\ SupplyMatchesBalances
    /\ SupplyIsBacked
    /\ UnusedSaltsMintNothing
    /\ MintedOnce

AdminInv ==
    /\ admins \in Seq(Accounts)
    /\ adminThreshold \in Nat
    /\ AdminsReachQuorum

LedgerType == ledger \in 0..MaxLedger

AttesterInv ==
    /\ bridge \in BridgeSet
    /\ pending \in [set : BridgeSet, at : Nat] \union {Unset}
    /\ LedgerType
    /\ PendingIsValid

books == <<balance, totalSupply, usedSalts, mintedFor, unwrapped>>

----------------------------------------------------------------------------
\* The books: mints, burns and unwraps.

\* What a step does to the books.
LEMMA BooksSteps ==
    ASSUME BridgeNext
    PROVE  \/ \E m \in Messages :
                  /\ CheckAndBumpNonce(m.salt)
                  /\ Mint(Controller, m.to, m.amount)
                  /\ mintedFor' = [mintedFor EXCEPT ![m.salt] = @ + m.amount]
                  /\ UNCHANGED unwrapped
           \/ \E u \in Users, amount \in Amounts :
                  /\ Burn(u, amount)
                  /\ UNCHANGED <<usedSalts, mintedFor>>
                  /\ \/ unwrapped' = [unwrapped EXCEPT ![u] = @ + amount]
                     \/ unwrapped' = unwrapped
           \/ UNCHANGED books
<1>1. CASE \E atts \in Attestations, m \in Messages : Wrap(atts, m)
  BY <1>1 DEF Wrap, WrapEvent
<1>2. CASE \E u \in Users, amount \in Amounts : Unwrap(u, amount)
  BY <1>2 DEF Unwrap, UnwrapEvent, wrapVars
<1>3. CASE \E u \in Users, amount \in Amounts : AssetOnly(Burn(u, amount))
  BY <1>3 DEF AssetOnly, controllerVars, wrapVars
<1>4. CASE \E m \in Minters : AssetOnly(SetMinter(m))
  BY <1>4 DEF AssetOnly, SetMinter, controllerVars, wrapVars, books
<1>6. CASE \E t \in UnderlyingTokens : AssetOnly(SetUnderlyingToken(t))
  BY <1>6 DEF AssetOnly, SetUnderlyingToken, controllerVars, wrapVars, books
<1>5. CASE UNCHANGED <<assetVars, wrapVars, unwrapped>>
  BY <1>5 DEF assetVars, wrapVars, books
<1> QED
  BY <1>1, <1>2, <1>3, <1>4, <1>5, <1>6
     DEF BridgeNext, SetPaused, SetMintRateLimit, ProposeBridge, ExecuteBridge, SetBridge,
         AddAdmin, RemoveAdmin, SetThreshold, Attest, CloseLedger

LEMMA InitBooks == BridgeInit => BooksInv
<1> SUFFICES ASSUME BridgeInit PROVE BooksInv
  OBVIOUS
<1>1. Total(balance, NumUsers) = 0 /\ Total(unwrapped, NumUsers) = 0
  BY AssetAssumption, TotalOfZeros DEF BridgeInit, AssetInit, Users
<1>2. Total(mintedFor, NumSalts) = 0
  BY BridgeAssumption, TotalOfZeros DEF BridgeInit, Salts
<1> QED BY <1>1, <1>2 DEF BridgeInit, AssetInit, BooksInv, SupplyMatchesBalances,
                          SupplyIsBacked, UnusedSaltsMintNothing, MintedOnce

\* A burn, reported by an Unwrap event or not.
LEMMA BurnKeepsBooks ==
    ASSUME BooksInv, NEW u \in Users, NEW amount \in Amounts, Burn(u, amount),
           UNCHANGED <<usedSalts, mintedFor>>,
           \/ unwrapped' = [unwrapped EXCEPT ![u] = @ + amount]
           \/ unwrapped' = unwrapped
    PROVE  BooksInv'
<1>1. amount \in Nat /\ balance[u] \in Nat /\ amount <= balance[u] /\ unwrapped[u] \in Nat
  BY AssetAssumption DEF BooksInv, Burn
<1>2. /\ balance' = [balance EXCEPT ![u] = balance[u] - amount]
      /\ totalSupply' = totalSupply - amount
  BY DEF Burn
<1>3. /\ NumUsers \in Nat /\ u \in 1..NumUsers
      /\ balance \in [1..NumUsers -> Int] /\ balance \in [1..NumUsers -> Nat]
      /\ unwrapped \in [1..NumUsers -> Int]
      /\ -amount \in Int /\ amount \in Int
  BY <1>1, AssetAssumption DEF BooksInv, Users
<1>4. /\ Total(balance, NumUsers) \in Int
      /\ Total(balance', NumUsers) = Total(balance, NumUsers) + (-amount)
  <2>1. Adds(balance', balance, u, -amount)
    BY <1>1, <1>2 DEF Adds
  <2> QED BY <1>3, <2>1, TotalOfAddition
<1>5. balance[u] <= Total(balance, NumUsers)
  BY <1>3, TotalDominates
<1>6. totalSupply' \in Nat /\ totalSupply' = Total(balance', NumUsers)
  BY <1>1, <1>2, <1>4, <1>5 DEF BooksInv, SupplyMatchesBalances
<1>7. /\ Total(unwrapped, NumUsers) \in Int /\ Total(unwrapped', NumUsers) \in Int
      /\ Total(unwrapped', NumUsers) <= Total(unwrapped, NumUsers) + amount
  <2>1. Total(unwrapped, NumUsers) \in Int
    BY <1>3, TotalIsInt
  <2>2. CASE unwrapped' = unwrapped
    BY <1>1, <2>1, <2>2
  <2>3. CASE unwrapped' = [unwrapped EXCEPT ![u] = unwrapped[u] + amount]
    <3>1. Adds(unwrapped', unwrapped, u, amount)
      BY <2>3 DEF Adds
    <3>2. Total(unwrapped', NumUsers) = Total(unwrapped, NumUsers) + amount
      BY <1>3, <3>1, TotalOfAddition
    <3> QED BY <1>1, <2>1, <3>2
  <2> QED BY <2>2, <2>3
<1>8. Total(mintedFor, NumSalts) \in Int /\ Total(mintedFor', NumSalts) = Total(mintedFor, NumSalts)
  BY BridgeAssumption, TotalIsInt DEF BooksInv, Salts
<1>9. SupplyIsBacked'
  BY <1>1, <1>2, <1>7, <1>8 DEF SupplyIsBacked, BooksInv
<1>10. balance' \in [Users -> Nat] /\ unwrapped' \in [Users -> Nat]
  BY <1>1, <1>2 DEF BooksInv
<1> QED BY <1>6, <1>9, <1>10 DEF BooksInv, SupplyMatchesBalances, UnusedSaltsMintNothing, MintedOnce

\* A mint for a salt that has none.
LEMMA MintKeepsBooks ==
    ASSUME BooksInv, NEW m \in Messages, CheckAndBumpNonce(m.salt),
           Mint(Controller, m.to, m.amount),
           mintedFor' = [mintedFor EXCEPT ![m.salt] = @ + m.amount], UNCHANGED unwrapped
    PROVE  BooksInv'
<1> DEFINE s == m.salt  u == m.to  amount == m.amount
<1>1. /\ s \in Salts /\ u \in Users /\ amount \in Nat /\ amount # 0
      /\ balance[u] \in Nat /\ mintedFor[s] = 0
  BY BridgeAssumption DEF BooksInv, Mint, CheckAndBumpNonce, UnusedSaltsMintNothing
<1>2. /\ balance' = [balance EXCEPT ![u] = balance[u] + amount]
      /\ totalSupply' = totalSupply + amount
      /\ usedSalts' = usedSalts \union {s}
      /\ mintedFor' = [mintedFor EXCEPT ![s] = mintedFor[s] + amount]
  BY DEF Mint, CheckAndBumpNonce
<1>3. MintedOnce' /\ UnusedSaltsMintNothing'
  <2>1. mintedFor[s] + amount = amount
    BY <1>1
  <2>2. \A t \in Salts : mintedFor'[t] = IF t = s THEN mintedFor[s] + amount ELSE mintedFor[t]
    BY <1>1, <1>2 DEF BooksInv
  <2>3. UnusedSaltsMintNothing'
    BY <1>2, <2>2 DEF BooksInv, UnusedSaltsMintNothing
  <2>4. \A t \in Salts : mintedFor'[t] = IF t = s THEN amount ELSE mintedFor[t]
    BY <2>1, <2>2
  <2> QED BY <2>3, <2>4 DEF BooksInv, MintedOnce
<1> HIDE DEF s, u, amount
<1>4. /\ NumUsers \in Nat /\ u \in 1..NumUsers /\ amount \in Int
      /\ balance \in [1..NumUsers -> Int] /\ unwrapped \in [1..NumUsers -> Int]
  BY <1>1, AssetAssumption DEF BooksInv, Users
<1>5. /\ Total(balance, NumUsers) \in Int
      /\ Total(balance', NumUsers) = Total(balance, NumUsers) + amount
  <2>1. Adds(balance', balance, u, amount)
    BY <1>2 DEF Adds
  <2> QED BY <1>4, <2>1, TotalOfAddition
<1>6. NumSalts \in Nat /\ s \in 1..NumSalts /\ mintedFor \in [1..NumSalts -> Int]
  BY <1>1, BridgeAssumption DEF BooksInv, Salts
<1>7. /\ Total(mintedFor, NumSalts) \in Int
      /\ Total(mintedFor', NumSalts) = Total(mintedFor, NumSalts) + amount
  <2>1. Adds(mintedFor', mintedFor, s, amount)
    BY <1>2 DEF Adds
  <2> QED BY <1>4, <1>6, <2>1, TotalOfAddition, SMTT(20)
<1>8. Total(unwrapped, NumUsers) \in Int
  BY <1>4, TotalIsInt
<1>9. SupplyMatchesBalances' /\ totalSupply' \in Nat
  BY <1>1, <1>2, <1>5 DEF BooksInv, SupplyMatchesBalances
<1>10. SupplyIsBacked'
  BY <1>1, <1>2, <1>7, <1>8 DEF BooksInv, SupplyIsBacked
<1>11. balance' \in [Users -> Nat] /\ mintedFor' \in [Salts -> Nat]
  BY <1>1, <1>2 DEF BooksInv
<1> QED BY <1>3, <1>9, <1>10, <1>11 DEF BooksInv

LEMMA NextBooks == BooksInv /\ [BridgeNext]_allVars => BooksInv'
<1> SUFFICES ASSUME BooksInv, [BridgeNext]_allVars PROVE BooksInv'
  OBVIOUS
<1>1. CASE UNCHANGED books
  BY <1>1 DEF books, BooksInv, SupplyMatchesBalances, SupplyIsBacked,
              UnusedSaltsMintNothing, MintedOnce
<1>2. CASE UNCHANGED allVars
  BY <1>1, <1>2 DEF allVars, assetVars, controllerVars, wrapVars, books
<1>3. CASE BridgeNext
  BY <1>1, <1>3, BooksSteps, BurnKeepsBooks, MintKeepsBooks
<1> QED BY <1>2, <1>3

LEMMA SpecBooks == BridgeSpec => []BooksInv
BY InitBooks, NextBooks, PTL DEF BridgeSpec

----------------------------------------------------------------------------
\* The admins.

LEMMA InitAdmins == BridgeInit => AdminInv
BY DEF BridgeInit, AdminInv, AdminsReachQuorum

LEMMA NextAdmins == AdminInv /\ [BridgeNext]_allVars => AdminInv'
<1> SUFFICES ASSUME AdminInv, [BridgeNext]_allVars PROVE AdminInv'
  OBVIOUS
<1>1. CASE UNCHANGED adminVars
  BY <1>1 DEF adminVars, AdminInv, AdminsReachQuorum
<1>2. ASSUME NEW approvals, NEW a \in Accounts, AddAdmin(approvals, a)
      PROVE  AdminInv'
  <2>1. admins' = Append(admins, a) /\ a \notin Range(admins) /\ adminThreshold' = adminThreshold
    BY <1>2 DEF AddAdmin
  <2>2. \A i \in DOMAIN admins : admins[i] # a
    BY <2>1 DEF Range
  <2> QED BY <2>1, <2>2 DEF AdminInv, AdminsReachQuorum
<1>3. ASSUME NEW approvals, NEW a \in Accounts, RemoveAdmin(approvals, a)
      PROVE  AdminInv'
  <2>1. PICK i \in DOMAIN admins : admins' = Without(admins, i)
    BY <1>3 DEF RemoveAdmin
  <2>2. /\ adminThreshold \in Nat /\ adminThreshold >= 1 /\ Len(admins) > adminThreshold
        /\ adminThreshold' = adminThreshold /\ Len(admins) \in Nat
    BY <1>3 DEF RemoveAdmin, AdminInv, AdminsReachQuorum
  <2>3. /\ DOMAIN admins = 1..Len(admins)
        /\ \A j \in 1..Len(admins) : admins[j] \in Accounts
    BY DEF AdminInv
  <2>4. /\ admins' \in Seq(Accounts)
        /\ Len(admins') = Len(admins) - 1
        /\ DOMAIN admins' = 1..Len(admins) - 1
        /\ \A j \in 1..Len(admins) - 1 :
               admins'[j] = IF j < i THEN admins[j] ELSE admins[j + 1]
    BY <2>1, <2>2, <2>3 DEF Without
  <2>5. ASSUME NEW j \in 1..Len(admins) - 1, NEW k \in 1..Len(admins) - 1, j # k
        PROVE  admins'[j] # admins'[k]
    <3> DEFINE from(m) == IF m < i THEN m ELSE m + 1
    <3>1. /\ from(j) \in DOMAIN admins /\ from(k) \in DOMAIN admins
          /\ from(j) # from(k)
      BY <2>2, <2>3, <2>5
    <3>2. admins'[j] = admins[from(j)] /\ admins'[k] = admins[from(k)]
      BY <2>4
    <3> HIDE DEF from
    <3> QED BY <3>1, <3>2 DEF AdminInv, AdminsReachQuorum
  <2>6. adminThreshold' \in Nat /\ adminThreshold' \in 1..Len(admins')
    BY <2>2, <2>4
  <2> QED BY <2>4, <2>5, <2>6 DEF AdminInv, AdminsReachQuorum
<1>4. ASSUME NEW approvals, NEW t, SetThreshold(approvals, t)
      PROVE  AdminInv'
  BY <1>4 DEF SetThreshold, AdminInv, AdminsReachQuorum
<1> QED
  BY <1>1, <1>2, <1>3, <1>4
     DEF BridgeNext, allVars, controllerVars, adminVars, Wrap, Unwrap, SetPaused,
         SetMintRateLimit, ProposeBridge, ExecuteBridge, SetBridge, Attest, AssetOnly,
         CloseLedger

\* Whatever the sequence of additions, removals and thresholds, the admins are
\* distinct and enough for their threshold.
THEOREM AdminQuorum == BridgeSpec => []AdminsReachQuorum
<1>1. AdminInv => AdminsReachQuorum
  BY DEF AdminInv
<1> QED BY <1>1, InitAdmins, NextAdmins, PTL DEF BridgeSpec

----------------------------------------------------------------------------
\* The attester sets.

\* What a step does to them.
LEMMA AttesterSteps ==
    ASSUME [BridgeNext]_allVars
    PROVE  \/ UNCHANGED bridgeVars
           \/ \E set \in BridgeSets :
                  ValidBridgeSet(set) /\ bridge' = set /\ UNCHANGED pending
           \/ \E set \in BridgeSets :
                  /\ ValidBridgeSet(set)
                  /\ pending' = [set |-> set, at |-> ledger]
                  /\ UNCHANGED bridge
           \/ pending # Unset /\ bridge' = pending.set /\ pending' = Unset
<1>1. ASSUME NEW approvals, NEW set \in BridgeSets, ProposeBridge(approvals, set)
      PROVE  /\ ValidBridgeSet(set)
             /\ pending' = [set |-> set, at |-> ledger]
             /\ UNCHANGED bridge
  BY <1>1 DEF ProposeBridge
<1>2. ASSUME NEW approvals, NEW set \in BridgeSets, SetBridge(approvals, set)
      PROVE  ValidBridgeSet(set) /\ bridge' = set /\ UNCHANGED pending
  BY <1>2 DEF SetBridge
<1>3. ASSUME NEW approvals, ExecuteBridge(approvals)
      PROVE  pending # Unset /\ bridge' = pending.set /\ pending' = Unset
  BY <1>3 DEF ExecuteBridge
<1> QED
  BY <1>1, <1>2, <1>3
     DEF BridgeNext, allVars, controllerVars, bridgeVars, Wrap, Unwrap, SetPaused,
         SetMintRateLimit, AddAdmin, RemoveAdmin, SetThreshold, Attest, AssetOnly,
         CloseLedger

LEMMA LedgerInRange == BridgeSpec => []LedgerType
<1>1. BridgeInit => LedgerType
  BY BridgeAssumption DEF BridgeInit, LedgerType
<1>2. LedgerType /\ [BridgeNext]_allVars => LedgerType'
  <2> USE DEF LedgerType
  <2> SUFFICES ASSUME LedgerType, [BridgeNext]_allVars
               PROVE  LedgerType'
    OBVIOUS
  <2>1. CASE CloseLedger
    BY <2>1, BridgeAssumption DEF CloseLedger
  <2>2. CASE UNCHANGED ledger
    BY <2>2
  <2> QED
    BY <2>1, <2>2
       DEF BridgeNext, allVars, controllerVars, Wrap, Unwrap, SetPaused, SetMintRateLimit,
           ProposeBridge, ExecuteBridge, SetBridge, AddAdmin, RemoveAdmin, SetThreshold,
           Attest, AssetOnly
<1> QED BY <1>1, <1>2, PTL DEF BridgeSpec

LEMMA InitAttesters == BridgeInit => AttesterInv
BY BridgeAssumption DEF BridgeInit, AttesterInv, PendingIsValid, LedgerType

LEMMA NextAttesters ==
    AttesterInv /\ LedgerType' /\ [BridgeNext]_allVars => AttesterInv'
<1> SUFFICES ASSUME AttesterInv, LedgerType', [BridgeNext]_allVars
             PROVE  AttesterInv'
  OBVIOUS
<1>1. CASE UNCHANGED bridgeVars
  BY <1>1 DEF bridgeVars, AttesterInv, PendingIsValid
<1>2. CASE \E set \in BridgeSets :
               ValidBridgeSet(set) /\ bridge' = set /\ UNCHANGED pending
  BY <1>2, BridgeAssumption DEF AttesterInv, PendingIsValid
<1>3. CASE \E set \in BridgeSets :
               /\ ValidBridgeSet(set)
               /\ pending' = [set |-> set, at |-> ledger]
               /\ UNCHANGED bridge
  <2>1. PICK set \in BridgeSets : /\ ValidBridgeSet(set)
                                  /\ pending' = [set |-> set, at |-> ledger]
                                  /\ UNCHANGED bridge
    BY <1>3
  <2>2. set \in BridgeSet /\ ledger \in Nat
    BY BridgeAssumption DEF AttesterInv, LedgerType
  <2>3. pending' \in [set : BridgeSet, at : Nat] /\ pending'.set = set
    BY <2>1, <2>2
  <2> QED BY <2>1, <2>3 DEF AttesterInv, PendingIsValid
<1>4. CASE pending # Unset /\ bridge' = pending.set /\ pending' = Unset
  BY <1>4 DEF AttesterInv, PendingIsValid
<1> QED BY <1>1, <1>2, <1>3, <1>4, AttesterSteps

LEMMA SpecAttesters == BridgeSpec => []AttesterInv
BY InitAttesters, NextAttesters, LedgerInRange, PTL DEF BridgeSpec

\* From an attester set that can reach its threshold, no sequence of proposals,
\* executions and immediate changes leads to one that cannot.
THEOREM AttestersStayUsable == BridgeSpec => BridgeStaysUsable
<1>1. AttesterInv /\ [BridgeNext]_allVars
        => [ValidBridgeSet(bridge) => ValidBridgeSet(bridge')]_allVars
  <2> SUFFICES ASSUME AttesterInv, [BridgeNext]_allVars, ValidBridgeSet(bridge)
               PROVE  ValidBridgeSet(bridge')
    OBVIOUS
  <2> QED BY AttesterSteps DEF AttesterInv, PendingIsValid, bridgeVars
<1> QED BY <1>1, SpecAttesters, PTL DEF BridgeSpec, BridgeStaysUsable

----------------------------------------------------------------------------
\* The quorum of a mint.

\* Attestations that pass come from as many attesters as there are of them,
\* because increasing indices are distinct and so are the keys.
LEMMA AttestationsAreSigners ==
    ASSUME bridge \in BridgeSet, DistinctKeys, NEW m, NEW atts \in Seq(Nat),
           RequireBridge(atts, m)
    PROVE  /\ IsFiniteSet(SignersOf(m))
           /\ Cardinality(SignersOf(m)) >= bridge.threshold
<1> DEFINE n == Len(atts)
           keys == bridge.keys
           signer == [i \in 1..n |-> keys[atts[i]]]
<1>1. n \in Nat /\ DOMAIN atts = 1..n /\ \A i \in 1..n : atts[i] \in Nat
  OBVIOUS
<1>2. keys \in Seq(Keys) /\ Len(keys) \in Nat /\ DOMAIN keys = 1..Len(keys)
  BY DEF BridgeSet
<1>3. /\ n >= bridge.threshold
      /\ \A i, j \in 1..n : i < j => atts[i] < atts[j]
      /\ \A i \in 1..n : atts[i] \in DOMAIN keys /\ SignedBy(keys[atts[i]], m)
  BY <1>1 DEF RequireBridge
<1>4. \A i, j \in 1..n : i # j => atts[i] # atts[j]
  BY <1>1, <1>3
<1>5. signer \in Injection(1..n, SignersOf(m))
  <2>1. \A i \in 1..n : keys[atts[i]] \in SignersOf(m)
    BY <1>3 DEF SignersOf, Range
  <2>2. \A i, j \in 1..n : keys[atts[i]] = keys[atts[j]] => i = j
    BY <1>3, <1>4 DEF DistinctKeys
  <2> QED BY <2>1, <2>2 DEF Injection, IsInjective
<1>6. IsFiniteSet(Range(keys))
  <2>1. keys \in Surjection(1..Len(keys), Range(keys))
    BY <1>2 DEF Surjection, Range
  <2>2. IsFiniteSet(1..Len(keys))
    BY <1>2, FS_Interval
  <2> QED BY <2>1, <2>2, FS_Surjection
<1>7. IsFiniteSet(SignersOf(m)) /\ Cardinality(SignersOf(m)) \in Nat
  BY <1>6, FS_Subset, FS_CardinalityType DEF SignersOf
<1>8. Cardinality(1..n) <= Cardinality(SignersOf(m))
  BY <1>5, <1>7, FS_Injection
<1>9. Cardinality(1..n) = n
  BY <1>1, FS_Interval
<1>10. bridge.threshold \in Nat
  BY DEF BridgeSet
<1> QED BY <1>1, <1>3, <1>7, <1>8, <1>9, <1>10

\* C-1: every mint carries the signatures of at least threshold distinct
\* attesters of the set in force, for a set that lists no key twice.
THEOREM MintsCarryQuorum == BridgeSpec => QuorumSigned
<1> DEFINE Carried ==
        \A s \in Salts :
           mintedFor'[s] # mintedFor[s] /\ DistinctKeys =>
               \E m \in Messages :
                   /\ m.salt = s
                   /\ mintedFor'[s] = mintedFor[s] + m.amount
                   /\ Cardinality(SignersOf(m)) >= bridge.threshold
<1>1. BooksInv /\ AttesterInv /\ [BridgeNext]_allVars => [Carried]_allVars
  <2> SUFFICES ASSUME BooksInv, AttesterInv, BridgeNext, NEW s \in Salts,
                      mintedFor'[s] # mintedFor[s], DistinctKeys
               PROVE  \E m \in Messages :
                          /\ m.salt = s
                          /\ mintedFor'[s] = mintedFor[s] + m.amount
                          /\ Cardinality(SignersOf(m)) >= bridge.threshold
    OBVIOUS
  <2>1. \E atts \in Attestations, m \in Messages : Wrap(atts, m)
    BY DEF BridgeNext, Unwrap, SetPaused, SetMintRateLimit, ProposeBridge, ExecuteBridge,
           SetBridge, AddAdmin, RemoveAdmin, SetThreshold, Attest, AssetOnly, CloseLedger,
           wrapVars, controllerVars
  <2>2. PICK atts \in Attestations, m \in Messages : Wrap(atts, m)
    BY <2>1
  <2>3. /\ atts \in Seq(Nat) /\ m.salt \in Salts /\ RequireBridge(atts, m)
        /\ mintedFor' = [mintedFor EXCEPT ![m.salt] = @ + m.amount]
    BY <2>2, BridgeAssumption DEF Wrap, WrapEvent
  <2>4. m.salt = s /\ mintedFor'[s] = mintedFor[s] + m.amount
    BY <2>3 DEF BooksInv
  <2>5. Cardinality(SignersOf(m)) >= bridge.threshold
    BY <2>3, AttestationsAreSigners DEF AttesterInv
  <2> QED BY <2>4, <2>5
<1> QED BY <1>1, SpecBooks, SpecAttesters, PTL DEF BridgeSpec, QuorumSigned

----------------------------------------------------------------------------
\* The types.

MiscTypes ==
    /\ minter \in Minters
    /\ underlying \subseteq UnderlyingTokens
    /\ usedSalts \subseteq Salts
    /\ halted \in BOOLEAN
    /\ windowStart \in Nat \union {Unset}
    /\ windowCount \in Nat
    /\ mintCap \in Int
    /\ LedgerType
    /\ signed \subseteq [key : Keys, message : Messages]
    /\ wrapsAt \in [0..MaxLedger -> Nat]

misc == <<minter, underlying, usedSalts, halted, windowStart, windowCount, mintCap, ledger,
          signed, wrapsAt>>

LEMMA InitMisc == BridgeInit => MiscTypes
<1> SUFFICES ASSUME BridgeInit PROVE MiscTypes
  OBVIOUS
<1>1. minter \in Minters /\ mintCap \in Int /\ LedgerType
  BY BridgeAssumption DEF BridgeInit, LedgerType
<1>5. underlying \subseteq UnderlyingTokens
  BY DEF BridgeInit, AssetInit
<1>2. usedSalts \subseteq Salts /\ signed \subseteq [key : Keys, message : Messages]
  BY DEF BridgeInit
<1>3. windowStart \in Nat \union {Unset} /\ windowCount \in Nat /\ halted \in BOOLEAN
  BY DEF BridgeInit
<1>4. wrapsAt \in [0..MaxLedger -> Nat]
  BY DEF BridgeInit
<1> QED BY <1>1, <1>2, <1>3, <1>4, <1>5 DEF MiscTypes

LEMMA WrapMisc ==
    ASSUME MiscTypes, NEW atts \in Attestations, NEW m \in Messages, Wrap(atts, m)
    PROVE  MiscTypes'
<1>1. usedSalts' \subseteq Salts
  BY BridgeAssumption DEF Wrap, CheckAndBumpNonce, MiscTypes
<1>2. /\ windowStart' \in Nat \union {Unset}
      /\ windowCount' \in Nat
  <2>1. ledger \in Nat
    BY BridgeAssumption DEF MiscTypes, LedgerType
  <2>2. CASE WindowExpired
    BY <2>1, <2>2 DEF Wrap, CheckMintRate
  <2>3. CASE ~ WindowExpired
    BY <2>3 DEF Wrap, CheckMintRate, MiscTypes
  <2> QED BY <2>2, <2>3
<1>3. wrapsAt' \in [0..MaxLedger -> Nat]
  <2>1. wrapsAt' = [wrapsAt EXCEPT ![ledger] = wrapsAt[ledger] + 1]
    BY DEF Wrap, WrapEvent
  <2>2. wrapsAt[ledger] + 1 \in Nat
    BY DEF MiscTypes, LedgerType
  <2> QED BY <2>1, <2>2 DEF MiscTypes
<1> QED BY <1>1, <1>2, <1>3 DEF Wrap, Mint, MiscTypes, LedgerType

LEMMA NextMisc == MiscTypes /\ [BridgeNext]_allVars => MiscTypes'
<1> SUFFICES ASSUME MiscTypes, [BridgeNext]_allVars PROVE MiscTypes'
  OBVIOUS
<1>1. CASE UNCHANGED misc
  BY <1>1 DEF misc, MiscTypes, LedgerType
<1>2. CASE \E atts \in Attestations, m \in Messages : Wrap(atts, m)
  BY <1>2, WrapMisc
<1>3. CASE \E caller \in Accounts, p \in BOOLEAN : SetPaused(caller, p)
  BY <1>3 DEF SetPaused, MiscTypes, LedgerType, assetVars, wrapVars, windowVars
<1>4. CASE \E approvals, caller : \E cap \in Caps : SetMintRateLimit(caller, approvals, cap)
  BY <1>4, BridgeAssumption
     DEF SetMintRateLimit, MiscTypes, LedgerType, assetVars, wrapVars, windowVars
<1>5. CASE \E k \in Keys, m \in Messages : Attest(k, m)
  BY <1>5 DEF Attest, MiscTypes, LedgerType, assetVars, wrapVars, windowVars
<1>6. CASE \E m \in Minters : AssetOnly(SetMinter(m))
  BY <1>6 DEF AssetOnly, SetMinter, MiscTypes, LedgerType, controllerVars, wrapVars, windowVars
<1>8. CASE \E t \in UnderlyingTokens : AssetOnly(SetUnderlyingToken(t))
  BY <1>8 DEF AssetOnly, SetUnderlyingToken, MiscTypes, LedgerType, controllerVars, wrapVars,
              windowVars
<1>7. CASE CloseLedger
  BY <1>7, BridgeAssumption DEF CloseLedger, MiscTypes, LedgerType, assetVars, wrapVars, windowVars
<1> QED
  BY <1>1, <1>2, <1>3, <1>4, <1>5, <1>6, <1>7, <1>8
     DEF BridgeNext, allVars, controllerVars, misc, assetVars, wrapVars, windowVars, Unwrap,
         Burn, AssetOnly, ProposeBridge, ExecuteBridge, SetBridge, AddAdmin, RemoveAdmin,
         SetThreshold

\* The types: balances and the supply never go negative, whoever burns what.
THEOREM BridgeTypes == BridgeSpec => []BridgeTypeOK
<1>1. BooksInv /\ AdminInv /\ AttesterInv /\ MiscTypes => BridgeTypeOK
  BY DEF BooksInv, AdminInv, AttesterInv, MiscTypes, LedgerType, BridgeTypeOK, AssetTypeOK
<1> QED BY <1>1, SpecBooks, InitAdmins, NextAdmins, SpecAttesters, InitMisc, NextMisc, PTL
        DEF BridgeSpec

----------------------------------------------------------------------------
\* The mint rate.

\* The wraps by ledger, as the accounts 1..MaxLedger + 1.
ByLedger == [i \in 1..MaxLedger + 1 |-> wrapsAt[i - 1]]

\* The start of a window is never stored, because it is only stored when a
\* window has expired; so the window's count is that of all wraps ever.
WindowCountsAll ==
    /\ windowStart = Unset
    /\ windowCount = Total(ByLedger, MaxLedger + 1)

RateInv == MiscTypes /\ WindowCountsAll

\* A wrap goes through below the cap, and counts in the window and its ledger.
LEMMA WrapCounts ==
    ASSUME RateInv, NEW atts \in Attestations, NEW m \in Messages, Wrap(atts, m)
    PROVE  /\ windowCount < mintCap
           /\ windowCount' = windowCount + 1
           /\ WindowCountsAll'
<1>1. /\ MaxLedger \in Nat /\ MaxLedger + 1 \in Nat /\ ledger \in 0..MaxLedger
      /\ ledger + 1 \in 1..MaxLedger + 1 /\ (ledger + 1) - 1 = ledger
      /\ wrapsAt \in [0..MaxLedger -> Nat]
  BY BridgeAssumption DEF RateInv, MiscTypes, LedgerType
<1>2. ~ WindowExpired
  BY DEF RateInv, WindowCountsAll, WindowExpired
<1>3. windowCount < mintCap /\ windowCount' = windowCount + 1 /\ windowStart' = windowStart
  BY <1>2 DEF Wrap, CheckMintRate
<1>4. wrapsAt' = [wrapsAt EXCEPT ![ledger] = wrapsAt[ledger] + 1]
  BY DEF Wrap, WrapEvent
<1>5. ByLedger \in [1..MaxLedger + 1 -> Int]
  BY <1>1 DEF ByLedger
<1>6. Adds(ByLedger', ByLedger, ledger + 1, 1)
  <2>1. ByLedger' = [i \in 1..MaxLedger + 1 |-> wrapsAt'[i - 1]]
    BY DEF ByLedger
  <2>2. ASSUME NEW i \in 1..MaxLedger + 1
        PROVE  wrapsAt'[i - 1]
                   = IF i = ledger + 1 THEN ByLedger[ledger + 1] + 1 ELSE ByLedger[i]
    <3>1. i - 1 \in 0..MaxLedger /\ ByLedger[i] = wrapsAt[i - 1]
          /\ ByLedger[ledger + 1] = wrapsAt[ledger]
      BY <1>1 DEF ByLedger
    <3>2. CASE i = ledger + 1
      BY <1>1, <1>4, <3>1, <3>2
    <3>3. CASE i # ledger + 1
      BY <1>1, <1>4, <3>1, <3>3
    <3> QED BY <3>2, <3>3
  <2> QED BY <1>5, <2>1, <2>2 DEF Adds
<1>7. Total(ByLedger', MaxLedger + 1) = Total(ByLedger, MaxLedger + 1) + 1
  BY <1>1, <1>5, <1>6, TotalOfAddition
<1> QED BY <1>3, <1>7 DEF RateInv, WindowCountsAll

LEMMA InitRate == BridgeInit => RateInv
<1> SUFFICES ASSUME BridgeInit PROVE RateInv
  OBVIOUS
<1>1. MaxLedger + 1 \in Nat
  BY BridgeAssumption
<1>2. ByLedger = [i \in 1..MaxLedger + 1 |-> 0]
  BY BridgeAssumption DEF BridgeInit, ByLedger
<1> QED BY <1>1, <1>2, InitMisc, TotalOfZeros DEF RateInv, WindowCountsAll, BridgeInit

LEMMA NextRate == RateInv /\ [BridgeNext]_allVars => RateInv'
<1> SUFFICES ASSUME RateInv, [BridgeNext]_allVars PROVE RateInv'
  OBVIOUS
<1>1. MiscTypes'
  BY NextMisc DEF RateInv
<1>2. CASE UNCHANGED <<windowVars, wrapsAt>>
  BY <1>1, <1>2 DEF RateInv, WindowCountsAll, ByLedger, windowVars
<1>3. CASE \E atts \in Attestations, m \in Messages : Wrap(atts, m)
  BY <1>1, <1>3, WrapCounts DEF RateInv
<1> QED
  BY <1>2, <1>3
     DEF BridgeNext, allVars, controllerVars, wrapVars, windowVars, Unwrap, SetPaused,
         SetMintRateLimit, ProposeBridge, ExecuteBridge, SetBridge, AddAdmin, RemoveAdmin,
         SetThreshold, Attest, AssetOnly, CloseLedger

\* The wraps of the last ledgers are among all wraps.
RecentAreCounted == RecentWraps \in Int /\ RecentWraps <= windowCount

LEMMA RateCountsRecent == RateInv => RecentAreCounted
<1> SUFFICES ASSUME RateInv PROVE RecentAreCounted
  OBVIOUS
<1> DEFINE n == MaxLedger + 1
           w == WindowLedgers + 1
           top == ledger + 1
           g == [i \in 1..w |-> IF ledger + 1 - i >= 0 THEN wrapsAt[ledger + 1 - i] ELSE 0]
<1>1. /\ n \in Nat /\ w \in Nat /\ top \in 0..n
      /\ ledger \in 0..MaxLedger /\ MaxLedger \in Nat
      /\ wrapsAt \in [0..MaxLedger -> Nat]
  BY BridgeAssumption DEF RateInv, MiscTypes, LedgerType
<1>2. ByLedger \in [1..n -> Nat]
  BY <1>1 DEF ByLedger
<1>3. ASSUME NEW k \in 1..w
      PROVE  /\ g[k] \in Nat
             /\ g[k] = IF k <= top THEN ByLedger[top + 1 - k] ELSE 0
  <2>1. CASE k <= top
    <3>1. top + 1 - k \in 1..n /\ ledger + 1 - k \in 0..MaxLedger
          /\ (top + 1 - k) - 1 = ledger + 1 - k
      BY <1>1, <2>1
    <3> QED BY <1>1, <2>1, <3>1 DEF ByLedger
  <2>2. CASE ~ (k <= top)
    BY <1>1, <2>2
  <2> QED BY <2>1, <2>2
<1>4. g \in [1..w -> Nat]
  BY <1>3
<1>5. RecentWraps = Total(g, w)
  BY DEF RecentWraps
<1> HIDE DEF g, w, n, top
<1>6. Total(g, w) <= Total(ByLedger, n)
  BY <1>1, <1>2, <1>3, <1>4, WindowWithinTotal
<1>7. Total(g, w) \in Int
  <2>1. g \in [1..w -> Int]
    BY <1>4
  <2> QED BY <1>1, <2>1, TotalIsInt
<1> QED BY <1>5, <1>6, <1>7 DEF n, RecentAreCounted, RateInv, WindowCountsAll

\* C-3: no wrap brings the wraps of the last WindowLedgers ledgers above the
\* cap in force, whatever is done to the cap and whenever the wraps come.
THEOREM BridgeMintRate == BridgeSpec => MintRateBounded
<1>1. RateInv /\ RecentAreCounted' /\ [BridgeNext]_allVars
          => [wrapsAt' # wrapsAt => RecentWraps' <= mintCap]_allVars
  <2> SUFFICES ASSUME RateInv, RecentAreCounted', BridgeNext, wrapsAt' # wrapsAt
               PROVE  RecentWraps' <= mintCap
    OBVIOUS
  <2>1. \E atts \in Attestations, m \in Messages : Wrap(atts, m)
    BY DEF BridgeNext, Unwrap, SetPaused, SetMintRateLimit, ProposeBridge, ExecuteBridge,
           SetBridge, AddAdmin, RemoveAdmin, SetThreshold, Attest, AssetOnly, CloseLedger,
           wrapVars, controllerVars
  <2>2. windowCount < mintCap /\ windowCount' = windowCount + 1
    BY <2>1, WrapCounts
  <2>3. windowCount \in Nat /\ mintCap \in Int
    BY DEF RateInv, MiscTypes
  <2>4. RecentWraps' \in Int /\ RecentWraps' <= windowCount'
    BY DEF RecentAreCounted
  <2> QED BY <2>2, <2>3, <2>4
<1> QED BY <1>1, InitRate, NextRate, RateCountsRecent, PTL DEF BridgeSpec, MintRateBounded

----------------------------------------------------------------------------
\* The theorems about the books.

\* W-1: the supply of the wrapped asset is the sum of its balances.
THEOREM BridgeSupply == BridgeSpec => []SupplyMatchesBalances
<1>1. BooksInv => SupplyMatchesBalances
  BY DEF BooksInv
<1> QED BY <1>1, SpecBooks, PTL

\* X-1 on this side: the supply never exceeds what was wrapped less what was unwrapped.
THEOREM BridgeBacking == BridgeSpec => []SupplyIsBacked
<1>1. BooksInv => SupplyIsBacked
  BY DEF BooksInv
<1> QED BY <1>1, SpecBooks, PTL

\* C-2: a salt mints the amount of one message, once.
THEOREM BridgeSalts == BridgeSpec => []MintedOnce
<1>1. BooksInv => MintedOnce
  BY DEF BooksInv
<1> QED BY <1>1, SpecBooks, PTL

============================================================================
