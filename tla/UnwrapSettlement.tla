-------------------------- MODULE UnwrapSettlement --------------------------
(***************************************************************************)
(* What the way back promises, without saying how: a Stellar transaction   *)
(* that unwrapped is settled on the source chain at most once, and the     *)
(* relayer's database reports it as released only when it has been.        *)
(***************************************************************************)
EXTENDS Naturals

CONSTANT Txs            \* hashes of Stellar transactions

VARIABLES
    requested,          \* transactions that unwrapped
    settled,            \* how often each was paid on the source chain
    reported            \* transactions the relayer calls released

settlementVars == <<requested, settled, reported>>

Init ==
    /\ requested = {}
    /\ settled = [x \in Txs |-> 0]
    /\ reported = {}

Request(x) ==
    /\ requested' = requested \union {x}
    /\ UNCHANGED <<settled, reported>>

Settle(x) ==
    /\ x \in requested
    /\ settled[x] = 0
    /\ settled' = [settled EXCEPT ![x] = 1]
    /\ UNCHANGED <<requested, reported>>

Report(x) ==
    /\ settled[x] = 1
    /\ reported' = reported \union {x}
    /\ UNCHANGED <<requested, settled>>

Next == \E x \in Txs : Request(x) \/ Settle(x) \/ Report(x)

Spec == Init /\ [][Next]_settlementVars

=============================================================================
