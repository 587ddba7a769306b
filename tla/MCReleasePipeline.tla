------------------------- MODULE MCReleasePipeline -------------------------
(***************************************************************************)
(* The release pipeline for TLC: two ticks at once; the first attester set *)
(* is the relayer's, another that may replace it is not.  Two rows come    *)
(* about in either order, and a batch holds one of them: the one behind    *)
(* waits for the one ahead, which may be released, dead-letter (u3) or     *)
(* stay for ever (u4).                                                     *)
(***************************************************************************)
EXTENDS ReleasePipeline

CONSTANTS u1, u2, u3, u4, x1, x2, a1, a2, a3

MCTxOf == [u \in Unwraps |-> IF u = u1 THEN x1 ELSE x2]
MCLedgerOf == [x \in Txs |-> 1]
MCAmountOf == [u \in Unwraps |-> IF u = u2 THEN 2 ELSE 1]

MCRelayerKeys == <<a1, a2>>
MCFirstAttesters == [attesters |-> <<a1, a2>>, threshold |-> 2]
MCAttesterSets == {[attesters |-> <<a2, a3>>, threshold |-> 1]}
MCFirstConfig == [enabled |-> TRUE, minAmount |-> 1, maxAmount |-> 3]
MCTokenConfigs == {[enabled |-> FALSE, minAmount |-> 0, maxAmount |-> 0]}

=============================================================================
