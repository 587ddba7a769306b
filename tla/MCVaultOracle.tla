--------------------------- MODULE MCVaultOracle ---------------------------
(***************************************************************************)
(* The two contracts under the market that call no other, for TLC: the     *)
(* collateral vault and the price oracle (LendingMarket takes the oracle's *)
(* answers as an input and composes the vault again with its callers).     *)
(* They share no state, so they are explored one at a time: a behaviour    *)
(* exercises one of them and leaves the other as deployed, which is every  *)
(* behaviour of each.                                                      *)
(*                                                                         *)
(* The vault: three users, so that a seizure has a giver, a taker and a    *)
(* bystander, and two assets that can come to share the one token.         *)
(* The oracle: three publishers, who may be listed twice, prices that      *)
(* differ, and an array of three slots, which four entries overflow.       *)
(***************************************************************************)
EXTENDS CollateralVault, PriceOracle, TLC

CONSTANTS pub1, pub2, pub3

AllPublishers == {pub1, pub2, pub3}

PublisherSymmetry == Permutations(AllPublishers)

BothInit == VaultInit /\ OracleInit

VaultStep == VaultNext /\ OracleInit /\ UNCHANGED oracleVars

OracleStep == OracleNext /\ VaultInit /\ UNCHANGED vaultVars

BothSpec == BothInit /\ [][VaultStep \/ OracleStep]_<<vaultVars, oracleVars>>

============================================================================
