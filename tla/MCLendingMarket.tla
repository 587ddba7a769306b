-------------------------- MODULE MCLendingMarket --------------------------
(***************************************************************************)
(* The market for TLC: a borrower who goes through the controller, and an  *)
(* account that lends, liquidates and collects the fees.  The numbers are  *)
(* small enough that one halving of a price makes a full position          *)
(* liquidatable and that bonus and fee are whole units.                    *)
(***************************************************************************)
EXTENDS LendingMarket

MCRateConfigs == {[base |-> 5000, slope1 |-> 2500, slope2 |-> 10000, kink |-> 8000]}
MCLiqConfigs == {[bonus |-> 5000, fee |-> 10000, close |-> 5000]}

MCTokenOf == [a \in Assets |-> a]

\* Only the asset that is not lent is accepted as collateral.
MCLtvBps == [a \in Assets |-> IF a \in PoolAssets THEN 0 ELSE 5000]

\* The lent asset is the measure; the other one may lose half its price.
MCPrices == [a \in Assets |-> IF a \in PoolAssets THEN {1} ELSE {1, 2}]

============================================================================
