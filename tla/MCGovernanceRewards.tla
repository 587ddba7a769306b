------------------------ MODULE MCGovernanceRewards ------------------------
(***************************************************************************)
(* The two contracts that stand apart from the others, for TLC: governance *)
(* and rewards.  They share no state, so they are explored one at a time:  *)
(* a behaviour exercises one of them and leaves the other as deployed,     *)
(* which is every behaviour of each.                                       *)
(*                                                                         *)
(* Governance: an admin and two more accounts, whose three votes can pass, *)
(* defeat or tie a proposal, and two proposals that overlap in time.       *)
(* Rewards: two users, stakes that sum to 1, 2 or 3, so that Parts = 6     *)
(* divides every share, and a scale and a duration small enough that the   *)
(* rate, the accumulator and the credits all round.                        *)
(***************************************************************************)
EXTENDS Governance, StakingRewards, TLC

CONSTANTS admin, alice, bob

AllAccounts == {admin, alice, bob}

\* The accounts other than the admin are alike.
AccountSymmetry == Permutations({alice, bob})

BothInit == Init /\ RewardsInit

GovernanceStep == Next /\ RewardsInit /\ UNCHANGED rewardsVars

RewardsStep == RewardsNext /\ Init /\ UNCHANGED vars

BothSpec == BothInit /\ [][GovernanceStep \/ RewardsStep]_<<vars, rewardsVars>>

============================================================================
