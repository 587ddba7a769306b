------------------------- MODULE MCBridgeController -------------------------
(***************************************************************************)
(* The bridge controller for TLC: two attester keys, two admins, one       *)
(* message per salt.                                                       *)
(***************************************************************************)
EXTENDS BridgeController

CONSTANTS k1, k2, eth

Both == [keys |-> <<k1, k2>>, threshold |-> 2]
Second == [keys |-> <<k2>>, threshold |-> 1]
Unreachable == [keys |-> <<k1>>, threshold |-> 2]

MCBridgeSets == {Second, Unreachable}
MCFirstBridge == Both

MCMessages == {[origin |-> eth, amount |-> s, to |-> s, salt |-> s] : s \in {1, 2}}

MCAttestations == {<<>>, <<1>>, <<2>>, <<1, 2>>, <<1, 1>>, <<2, 1>>}

============================================================================
