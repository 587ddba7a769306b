--------------------------- MODULE MCLendingPool ---------------------------
(***************************************************************************)
(* The lending pool for TLC: one market, two users.  A ledger is a year    *)
(* long and the index starts at 2, so that one ledger of borrowing raises  *)
(* it by at least a half and debts of 2 grow by whole units; the kink is   *)
(* inside the utilisations the run reaches.  MCLendingPool.cfg offers      *)
(* three virtual units and amounts of 2, within 5 units: a withdrawal      *)
(* leaves the shares above the deposits, the next supply mints at a price  *)
(* below one (2 * 5 / 3 shares) and its rounding counts.                   *)
(***************************************************************************)
EXTENDS LendingPool

MCRateConfigs == {[base |-> 5000, slope1 |-> 2500, slope2 |-> 2500, kink |-> 8000]}

============================================================================
