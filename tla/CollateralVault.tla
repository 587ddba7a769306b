-------------------------- MODULE CollateralVault --------------------------
(***************************************************************************)
(* The collateral vault contract (contracts/collateral/soroban): positions *)
(* per user and asset, a running total per asset, and the three calls of   *)
(* its operators.  A call that would panic is an action that is not        *)
(* enabled.  An asset without a token address is booked without a transfer,*)
(* and the admin may point an asset at another token at any time.  Of the  *)
(* tokens only what the vault's own address holds is kept; the admin may   *)
(* turn all transfers off and on again (SkipTokenTransfers).               *)
(* The names carry the vault's, so that a module can extend this one and   *)
(* add other contracts.                                                    *)
(***************************************************************************)
EXTENDS AccountSums

CONSTANTS
    NumUsers,       \* the accounts are 1..NumUsers
    Assets,         \* asset symbols
    Tokens,         \* token contracts
    NoToken,        \* an asset without a TokenAddress
    Operators,      \* addresses the admin may authorise as operators
    Amounts,        \* amounts passed to the entry points
    Thresholds,     \* values passed to set_liq_threshold, u32
    MaxUnits        \* i128::MAX: where checked_add and the tokens panic

Users == 1..NumUsers
BpsRange == 0..10000
DefaultLiqThreshold == 8500

ASSUME VaultAssumption ==
    /\ NumUsers \in Nat
    /\ Amounts \subseteq Int
    /\ NoToken \notin Tokens
    /\ Thresholds \subseteq Nat
    /\ MaxUnits \in Nat

VARIABLES
    position,       \* Position, by asset and user
    totalByAsset,   \* TotalByAsset
    liqThreshold,   \* LiqThreshold
    tokenOf,        \* TokenAddress, by asset
    vaultOperators, \* Operator flags
    vaultSkips,     \* SkipTokenTransfers
    vaultCash       \* what the vault's address holds, by token

vaultBooks == <<position, totalByAsset>>
vaultAdmin == <<liqThreshold, tokenOf, vaultOperators, vaultSkips>>
vaultVars == <<vaultBooks, vaultAdmin, vaultCash>>

----------------------------------------------------------------------------
\* Entry points of the admin.

VaultAddOperator(op) ==
    /\ vaultOperators' = vaultOperators \union {op}
    /\ UNCHANGED <<vaultBooks, liqThreshold, tokenOf, vaultSkips, vaultCash>>

SetLiqThreshold(a, bps) ==
    /\ bps <= 10000
    /\ liqThreshold' = [liqThreshold EXCEPT ![a] = bps]
    /\ UNCHANGED <<vaultBooks, tokenOf, vaultOperators, vaultSkips, vaultCash>>

SetTokenAddress(a, t) ==
    /\ tokenOf' = [tokenOf EXCEPT ![a] = t]
    /\ UNCHANGED <<vaultBooks, liqThreshold, vaultOperators, vaultSkips, vaultCash>>

SetSkipTokenTransfers(skip) ==
    /\ vaultSkips' = skip
    /\ UNCHANGED <<vaultBooks, liqThreshold, tokenOf, vaultOperators, vaultCash>>

----------------------------------------------------------------------------
\* Token transfers, skipped for an asset without a token, or for all of them.

HasToken(a) == ~vaultSkips /\ tokenOf[a] # NoToken

VaultTokensIn(a, amount) ==
    IF HasToken(a)
    THEN /\ vaultCash[tokenOf[a]] + amount <= MaxUnits
         /\ vaultCash' = [vaultCash EXCEPT ![tokenOf[a]] = @ + amount]
    ELSE UNCHANGED vaultCash

VaultTokensOut(a, amount) ==
    IF HasToken(a)
    THEN /\ amount <= vaultCash[tokenOf[a]]
         /\ vaultCash' = [vaultCash EXCEPT ![tokenOf[a]] = @ - amount]
    ELSE UNCHANGED vaultCash

----------------------------------------------------------------------------
\* Entry points of the operators.

VaultRequireOperator(op) == op \in vaultOperators

VaultDepositWithoutTotal(op, u, a, amount) ==  \* variant: the total is not updated
    /\ VaultRequireOperator(op)
    /\ amount > 0
    /\ VaultTokensIn(a, amount)
    /\ position[a][u] + amount <= MaxUnits
    /\ position' = [position EXCEPT ![a][u] = @ + amount]
    /\ UNCHANGED <<totalByAsset, vaultAdmin>>

VaultDeposit(op, u, a, amount) ==
    /\ VaultRequireOperator(op)
    /\ amount > 0
    /\ VaultTokensIn(a, amount)
    /\ position[a][u] + amount <= MaxUnits
    /\ totalByAsset[a] + amount <= MaxUnits
    /\ position' = [position EXCEPT ![a][u] = @ + amount]
    /\ totalByAsset' = [totalByAsset EXCEPT ![a] = @ + amount]
    /\ UNCHANGED vaultAdmin

VaultWithdraw(op, u, a, amount) ==
    /\ VaultRequireOperator(op)
    /\ amount > 0
    /\ position[a][u] >= amount
    /\ VaultTokensOut(a, amount)
    /\ position' = [position EXCEPT ![a][u] = @ - amount]
    /\ totalByAsset' = [totalByAsset EXCEPT ![a] = @ - amount]
    /\ UNCHANGED vaultAdmin

MovedFromStale(pos, a, giver, taker, amount) ==  \* variant: both entries are read first
    [pos EXCEPT ![a][giver] = @ - amount, ![a][taker] = pos[a][taker] + amount]

\* The positions pos after amount moved between users, who may be the same.
Moved(pos, a, giver, taker, amount) ==
    LET lowered == [pos EXCEPT ![a][giver] = @ - amount]
    IN  [lowered EXCEPT ![a][taker] = @ + amount]

\* A seizure from positions pos does not panic, its transfer apart.
CanSeize(pos, op, a, giver, taker, amount) ==
    /\ VaultRequireOperator(op)
    /\ amount > 0
    /\ pos[a][giver] >= amount
    /\ Moved(pos, a, giver, taker, amount)[a][taker] <= MaxUnits

\* The tokens go to the receiver as well; the total of the asset stays.
VaultSeize(op, giver, taker, a, amount) ==
    /\ CanSeize(position, op, a, giver, taker, amount)
    /\ VaultTokensOut(a, amount)
    /\ position' = Moved(position, a, giver, taker, amount)
    /\ UNCHANGED <<totalByAsset, vaultAdmin>>

----------------------------------------------------------------------------
VaultInit ==
    /\ position = [a \in Assets |-> [u \in Users |-> 0]]
    /\ totalByAsset = [a \in Assets |-> 0]
    /\ liqThreshold = [a \in Assets |-> DefaultLiqThreshold]
    /\ tokenOf = [a \in Assets |-> NoToken]
    /\ vaultOperators = {}
    /\ vaultSkips = FALSE
    /\ vaultCash = [t \in Tokens |-> 0]

VaultNext ==
    \/ \E op \in Operators : VaultAddOperator(op)
    \/ \E skip \in BOOLEAN : SetSkipTokenTransfers(skip)
    \/ \E a \in Assets, bps \in Thresholds : SetLiqThreshold(a, bps)
    \/ \E a \in Assets, t \in Tokens : SetTokenAddress(a, t)
    \/ \E op \in Operators, u \in Users, a \in Assets, amount \in Amounts :
           VaultDeposit(op, u, a, amount) \/ VaultWithdraw(op, u, a, amount)
    \/ \E op \in Operators, giver, taker \in Users, a \in Assets, amount \in Amounts :
           VaultSeize(op, giver, taker, a, amount)

VaultSpec == VaultInit /\ [][VaultNext]_vaultVars

----------------------------------------------------------------------------
\* Properties.

\* Types.  V-2: a position is never negative.
VaultTypeOK ==
    /\ position \in [Assets -> [Users -> Nat]]
    /\ totalByAsset \in [Assets -> Nat]
    /\ liqThreshold \in [Assets -> BpsRange]
    /\ tokenOf \in [Assets -> Tokens \union {NoToken}]
    /\ vaultOperators \subseteq Operators
    /\ vaultSkips \in BOOLEAN
    /\ vaultCash \in [Tokens -> Nat]

\* V-1: total_by_asset is the sum of the positions, after any deposits,
\* withdrawals and seizures, a seizure from and to the same user included.
TotalsMatchPositions ==
    \A a \in Assets : totalByAsset[a] = Total(position[a], NumUsers)

============================================================================
