------------------------- MODULE MCDepositPipeline -------------------------
(***************************************************************************)
(* The deposit pipeline for TLC: a deposit on each of two source chains,   *)
(* whose bridges happened to give both the same salt.                      *)
(***************************************************************************)
EXTENDS DepositPipeline

CONSTANTS ethereum, polygon, d1, d2, s1

MCOrder == <<ethereum, polygon>>
MCChainOf == [d \in Deposits |-> IF d = d1 THEN ethereum ELSE polygon]
MCSaltOf == [d \in Deposits |-> s1]

============================================================================
