---------------------------- MODULE AccountSums ----------------------------
(***************************************************************************)
(* Sums over numbered accounts.  The contracts keep a running total beside *)
(* a map of per-account entries (total_by_asset and position, total_borrow *)
(* and the borrowers' principals, total_supply and balance); what ties the *)
(* two together is a sum.  It is written as a recursive function, not as a *)
(* RECURSIVE operator or a fold, because TLAPS can reason about it: the    *)
(* lemmas are in AccountSums_proofs.                                       *)
(***************************************************************************)
EXTENDS Integers

\* f[1] + ... + f[n], for f a function on 1..n (or on more than that).
Total(f, n) ==
    LET upTo[i \in 0..n] == IF i = 0 THEN 0 ELSE upTo[i - 1] + f[i]
    IN  upTo[n]

============================================================================
