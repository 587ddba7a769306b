---------------------------- MODULE BridgeEscrow ----------------------------
(***************************************************************************)
(* The source-chain bridge (contracts/lending/evm/Bridge.sol): tokens are  *)
(* locked in it or burnt through it, and released against the signatures   *)
(* of a quorum of attesters, once for each Stellar transaction.            *)
(*                                                                         *)
(* One token.  A signature is the address that it recovers to; the         *)
(* attesters sign only what the relayer asks them to.                      *)
(***************************************************************************)
EXTENDS Integers, Sequences, SequencesExt

CONSTANTS
    Addresses,          \* addresses that can be attesters
    Salts,              \* salts passed to lock and burn
    Amounts,            \* amounts passed to lock, burn and withdrawStuck
    Txs,                \* hashes of Stellar transactions
    AttesterSets,       \* attester lists and thresholds passed to setAttesters
    FirstAttesters,     \* those passed to initialize
    TokenConfigs,       \* configurations passed to setTokenConfig
    FirstConfig,        \* the token's configuration when the bridge opens
    MaxSignatures       \* MAX_SIGNATURES

AttesterSet == [attesters : Seq(Addresses), threshold : Nat]
TokenConfig == [enabled : BOOLEAN, minAmount : Nat, maxAmount : Nat]

ASSUME EscrowAssumption ==
    /\ Amounts \subseteq Nat \ {0}
    /\ TokenConfigs \union {FirstConfig} \subseteq TokenConfig
    /\ MaxSignatures \in Nat

VARIABLES
    tokenConfig,    \* tokenConfigs[token]
    usedNonces,     \* salts taken by a lock or a burn
    escrow,         \* the bridge's balance of the token
    releasedNonces, \* Stellar transactions released
    attesters,      \* AttesterSet
    paused,         \* Pausable
    books,          \* history: units locked, burnt, released and withdrawn
    releases        \* history: Released events of each Stellar transaction

escrowVars == <<tokenConfig, usedNonces, escrow, releasedNonces, attesters,
                paused, books, releases>>

EscrowInit ==
    /\ tokenConfig = FirstConfig
    /\ usedNonces = {}
    /\ escrow = 0
    /\ releasedNonces = {}
    /\ attesters = FirstAttesters
    /\ paused = FALSE
    /\ books = [locked |-> 0, burnt |-> 0, released |-> 0, withdrawn |-> 0]
    /\ releases = [x \in Txs |-> 0]

-----------------------------------------------------------------------------
(* Users.                                                                  *)

\* What lock and burn check before they take the salt.
Accepts(amount, salt) ==
    /\ ~paused
    /\ tokenConfig.enabled
    /\ amount \in tokenConfig.minAmount .. tokenConfig.maxAmount
    /\ salt \notin usedNonces

Lock(amount, salt) ==
    /\ Accepts(amount, salt)
    /\ usedNonces' = usedNonces \union {salt}
    /\ escrow' = escrow + amount
    /\ books' = [books EXCEPT !.locked = @ + amount]
    /\ UNCHANGED <<tokenConfig, releasedNonces, attesters, paused, releases>>

\* A burn leaves nothing in the bridge.
Burn(amount, salt) ==
    /\ Accepts(amount, salt)
    /\ usedNonces' = usedNonces \union {salt}
    /\ books' = [books EXCEPT !.burnt = @ + amount]
    /\ UNCHANGED <<tokenConfig, escrow, releasedNonces, attesters, paused, releases>>

-----------------------------------------------------------------------------
(* Releases.                                                               *)

\* _verifySignatures: one signer that is no attester spoils the whole list.
Verified(signers) ==
    /\ Len(signers) <= MaxSignatures
    /\ ToSet(signers) \subseteq ToSet(attesters.attesters)
    /\ IsInjective(signers)
    /\ Len(signers) >= attesters.threshold

\* The conditions under which a release does not revert; its last is the
\* token's own.
Releasable(amount, tx, signers) ==
    /\ ~paused
    /\ tx \notin releasedNonces
    /\ Verified(signers)
    /\ escrow >= amount

Release(amount, tx, signers) ==
    /\ Releasable(amount, tx, signers)
    /\ releasedNonces' = releasedNonces \union {tx}
    /\ escrow' = escrow - amount
    /\ books' = [books EXCEPT !.released = @ + amount]
    /\ releases' = [releases EXCEPT ![tx] = @ + 1]
    /\ UNCHANGED <<tokenConfig, usedNonces, attesters, paused>>

-----------------------------------------------------------------------------
(* The owner.                                                              *)

SetTokenConfig(config) ==
    /\ tokenConfig' = config
    /\ UNCHANGED <<usedNonces, escrow, releasedNonces, attesters, paused,
                   books, releases>>

\* setAttesters wants a threshold below the number of attesters; initialize
\* takes one equal to it.
SetAttesters(set) ==
    /\ set.threshold > 0
    /\ set.threshold < Len(set.attesters)
    /\ attesters' = set
    /\ UNCHANGED <<tokenConfig, usedNonces, escrow, releasedNonces, paused,
                   books, releases>>

SetPaused(flag) ==
    /\ paused # flag
    /\ paused' = flag
    /\ UNCHANGED <<tokenConfig, usedNonces, escrow, releasedNonces, attesters,
                   books, releases>>

WithdrawStuck(amount) ==
    /\ escrow >= amount
    /\ escrow' = escrow - amount
    /\ books' = [books EXCEPT !.withdrawn = @ + amount]
    /\ UNCHANGED <<tokenConfig, usedNonces, releasedNonces, attesters, paused, releases>>

Owner ==
    \/ \E config \in TokenConfigs : SetTokenConfig(config)
    \/ \E set \in AttesterSets : SetAttesters(set)
    \/ \E flag \in BOOLEAN : SetPaused(flag)
    \/ \E amount \in Amounts : WithdrawStuck(amount)

Depositor ==
    \E amount \in Amounts, salt \in Salts : Lock(amount, salt) \/ Burn(amount, salt)

=============================================================================
