---------------------------- MODULE WrappedAsset ----------------------------
(***************************************************************************)
(* The wrapped asset contract (contracts/treasury/soroban): balances, the  *)
(* total supply and the registered minter.  A call that would panic is an  *)
(* action that is not enabled; require_auth is a guard on the caller, or   *)
(* the choice of the account that acts.                                    *)
(***************************************************************************)
EXTENDS AccountSums

CONSTANTS
    NumUsers,   \* the accounts are 1..NumUsers
    Minters,    \* addresses the admin may register as the minter
    UnderlyingTokens,   \* tokens the admin may register as the backing
    Amounts,    \* amounts passed to the entry points
    MaxUnits    \* i128::MAX: where checked_add panics

Users == 1..NumUsers

ASSUME AssetAssumption ==
    /\ NumUsers \in Nat
    /\ Amounts \subseteq Int
    /\ MaxUnits \in Nat

VARIABLES
    balance,        \* Balance, by account
    totalSupply,    \* TotalSupply
    minter,         \* Minter
    underlying      \* UnderlyingToken, none or one

assetVars == <<balance, totalSupply, minter, underlying>>

Mint(caller, to, amount) ==
    /\ caller = minter
    /\ amount > 0
    /\ balance[to] + amount <= MaxUnits
    /\ totalSupply + amount <= MaxUnits
    /\ balance' = [balance EXCEPT ![to] = @ + amount]
    /\ totalSupply' = totalSupply + amount
    /\ UNCHANGED <<minter, underlying>>

BurnKeepingSupply(from, amount) ==  \* variant: the supply is not lowered
    /\ amount > 0
    /\ balance[from] >= amount
    /\ balance' = [balance EXCEPT ![from] = @ - amount]
    /\ UNCHANGED <<totalSupply, minter, underlying>>

BurnUnchecked(from, amount) ==  \* variant: the balance is not looked at
    /\ amount > 0
    /\ balance' = [balance EXCEPT ![from] = @ - amount]
    /\ totalSupply' = totalSupply - amount
    /\ UNCHANGED <<minter, underlying>>

Burn(from, amount) ==
    /\ amount > 0
    /\ balance[from] >= amount
    /\ balance' = [balance EXCEPT ![from] = @ - amount]
    /\ totalSupply' = totalSupply - amount
    /\ UNCHANGED <<minter, underlying>>

SetMinter(m) ==
    /\ minter' = m
    /\ UNCHANGED <<balance, totalSupply, underlying>>

SetUnderlyingToken(t) ==
    /\ underlying' = {t}
    /\ UNCHANGED <<balance, totalSupply, minter>>

AssetInit ==
    /\ balance = [u \in Users |-> 0]
    /\ totalSupply = 0
    /\ minter \in Minters
    /\ underlying = {}

----------------------------------------------------------------------------
\* Properties.

AssetTypeOK ==
    /\ balance \in [Users -> Nat]
    /\ totalSupply \in Nat
    /\ minter \in Minters
    /\ underlying \subseteq UnderlyingTokens

\* W-1: the supply is the sum of the balances.
SupplyMatchesBalances == totalSupply = Total(balance, NumUsers)

============================================================================
