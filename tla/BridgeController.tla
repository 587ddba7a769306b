-------------------------- MODULE BridgeController --------------------------
(***************************************************************************)
(* The bridge side of the lending controller (contracts/lending/controller)*)
(* over the wrapped asset it mints and burns: wrap with its attestations,  *)
(* salts and mint-rate window, unwrap, and the admins who govern the set   *)
(* of attesters, the pause flag and the mint cap.                          *)
(*                                                                         *)
(* A message is what wrap's arguments say; its chain_id, source_addr and   *)
(* nonce, which nothing here tells apart, are its origin.  Attesters are   *)
(* outside the contract: any of them may have signed any message.  A       *)
(* signature is checked by what it signs, and nobody signs for another.    *)
(***************************************************************************)
EXTENDS WrappedAsset, Sequences, FiniteSets, Functions

CONSTANTS
    Controller,         \* the controller's own address
    Accounts,           \* addresses that can be admins
    Keys,               \* attester keys
    BridgeSets,         \* attester sets passed to set_bridge and propose_bridge
    FirstBridge,        \* the attester set passed to initialize
    NumSalts,           \* the salts are 1..NumSalts
    Messages,           \* arguments of wrap
    Attestations,       \* lists of key indices passed to wrap, one per signature
    I64,                \* 2^64: the payload holds the amount modulo this
    WindowLedgers,      \* WINDOW_LEDGERS of check_mint_rate
    TimelockLedgers,    \* TIMELOCK_LEDGERS
    MaxPerHour,         \* MAX_PER_HOUR, the cap until one is set
    Caps,               \* caps passed to set_mint_rate_limit
    Unset,              \* a storage key without a value
    MaxLedger           \* bound: ledgers the model closes

Salts == 1..NumSalts
BridgeSet == [keys : Seq(Keys), threshold : Nat]

ASSUME BridgeAssumption ==
    /\ Controller \in Minters
    /\ BridgeSets \union {FirstBridge} \subseteq BridgeSet
    /\ NumSalts \in Nat
    /\ \A m \in Messages : m.amount \in Int /\ m.to \in Users /\ m.salt \in Salts
    /\ Attestations \subseteq Seq(Nat)
    /\ I64 \in Nat \ {0}
    /\ {WindowLedgers, TimelockLedgers, MaxPerHour, MaxLedger} \subseteq Nat
    /\ Caps \subseteq Int
    /\ Unset \notin Nat

VARIABLES
    admins,         \* AdminSet.admins
    adminThreshold, \* AdminSet.threshold
    bridge,         \* Bridge
    pending,        \* PendingBridge and PendingBridgeAt, or Unset
    usedSalts,      \* salts with a Nonce entry
    halted,         \* Paused
    windowStart,    \* MintWindowStart, or Unset
    windowCount,    \* MintWindowCount
    mintCap,        \* MintRateLimit
    ledger,         \* env.ledger().sequence()
    signed,         \* what the attesters have signed: keys and messages
    mintedFor,      \* history: units the Wrap events of a salt minted
    unwrapped,      \* history: units the Unwrap events of a user burnt
    wrapsAt         \* history: Wrap events by ledger

adminVars == <<admins, adminThreshold>>
bridgeVars == <<bridge, pending>>
windowVars == <<windowStart, windowCount>>
wrapVars == <<usedSalts, mintedFor, wrapsAt>>
controllerVars == <<adminVars, bridgeVars, wrapVars, windowVars, halted, mintCap,
                    ledger, signed, unwrapped>>

----------------------------------------------------------------------------
\* Who may act.

\* require_admin: only the first admin's authorisation counts.
RequireAdmin(caller) == caller = Head(admins)

\* require_admin_multisig: the approvals that pass are distinct admins who
\* have authorised the call, that is, a set of admins.
RequireAdminMultisig(approvals) ==
    /\ approvals \subseteq Range(admins)
    /\ Cardinality(approvals) >= adminThreshold

RequireNotPaused == ~halted

\* What is signed for a message: the amount is cast to 64 bits.
Payload(m) == [m EXCEPT !.amount = @ % I64]

\* The key has signed something with this message's payload.
SignedBy(k, m) == \E s \in signed : s.key = k /\ Payload(s.message) = Payload(m)

RequireBridgeUnsorted(atts, m) ==   \* variant: an index may be listed twice
    /\ Len(atts) >= bridge.threshold
    /\ \A i \in DOMAIN atts :
           /\ atts[i] \in DOMAIN bridge.keys
           /\ SignedBy(bridge.keys[atts[i]], m)

\* require_bridge: enough signatures, by keys at increasing indices.
RequireBridge(atts, m) ==
    /\ Len(atts) >= bridge.threshold
    /\ \A i, j \in DOMAIN atts : i < j => atts[i] < atts[j]
    /\ \A i \in DOMAIN atts :
           /\ atts[i] \in DOMAIN bridge.keys
           /\ SignedBy(bridge.keys[atts[i]], m)

----------------------------------------------------------------------------
\* Wrap and unwrap.

CheckNonceOnly(salt) ==     \* variant: the salt is not recorded
    /\ salt \notin usedSalts
    /\ UNCHANGED usedSalts

CheckAndBumpNonce(salt) ==
    /\ salt \notin usedSalts
    /\ usedSalts' = usedSalts \union {salt}

\* The window's start is written only when a window has run out, and is
\* taken to be now as long as it is not set.
WindowExpired == windowStart # Unset /\ ledger - windowStart > WindowLedgers

CheckMintRateOneMore ==     \* variant: the cap itself still passes
    IF WindowExpired
    THEN windowStart' = ledger /\ windowCount' = 1
    ELSE /\ windowCount <= mintCap
         /\ windowCount' = windowCount + 1
         /\ UNCHANGED windowStart

CheckMintRate ==
    IF WindowExpired
    THEN windowStart' = ledger /\ windowCount' = 1
    ELSE /\ windowCount < mintCap
         /\ windowCount' = windowCount + 1
         /\ UNCHANGED windowStart

\* The events, as far as the histories count them.
WrapEvent(m) ==
    /\ mintedFor' = [mintedFor EXCEPT ![m.salt] = @ + m.amount]
    /\ wrapsAt' = [wrapsAt EXCEPT ![ledger] = @ + 1]

UnwrapEvent(u, amount) == unwrapped' = [unwrapped EXCEPT ![u] = @ + amount]

Wrap(atts, m) ==
    /\ RequireNotPaused
    /\ RequireBridge(atts, m)
    /\ CheckAndBumpNonce(m.salt)
    /\ CheckMintRate
    /\ Mint(Controller, m.to, m.amount)
    /\ WrapEvent(m)
    /\ UNCHANGED <<adminVars, bridgeVars, halted, mintCap, ledger, signed, unwrapped>>

UnwrapCapped(u, amount) ==  \* variant: burns what there is, and reports the amount
    /\ amount > 0
    /\ RequireNotPaused
    /\ Burn(u, IF balance[u] < amount THEN balance[u] ELSE amount)
    /\ UnwrapEvent(u, amount)
    /\ UNCHANGED <<adminVars, bridgeVars, wrapVars, windowVars, halted, mintCap,
                   ledger, signed>>

Unwrap(u, amount) ==
    /\ amount > 0
    /\ RequireNotPaused
    /\ Burn(u, amount)
    /\ UnwrapEvent(u, amount)
    /\ UNCHANGED <<adminVars, bridgeVars, wrapVars, windowVars, halted, mintCap,
                   ledger, signed>>

----------------------------------------------------------------------------
\* Administration.

SetPaused(caller, p) ==
    /\ RequireAdmin(caller)
    /\ halted' = p
    /\ UNCHANGED <<assetVars, adminVars, bridgeVars, wrapVars, windowVars, mintCap,
                   ledger, signed, unwrapped>>

\* Lowering the cap takes the first admin, raising it the threshold.
SetMintRateLimit(caller, approvals, cap) ==
    /\ cap > 0
    /\ IF cap > mintCap THEN RequireAdminMultisig(approvals) ELSE RequireAdmin(caller)
    /\ mintCap' = cap
    /\ UNCHANGED <<assetVars, adminVars, bridgeVars, wrapVars, windowVars, halted,
                   ledger, signed, unwrapped>>

ValidBridgeSet(set) == set.threshold \in 1..Len(set.keys)

ProposeBridgeUnchecked(approvals, set) ==   \* variant: the set is checked nowhere
    /\ RequireAdminMultisig(approvals)
    /\ pending' = [set |-> set, at |-> ledger]
    /\ UNCHANGED <<assetVars, adminVars, bridge, wrapVars, windowVars, halted,
                   mintCap, ledger, signed, unwrapped>>

ProposeBridge(approvals, set) ==
    /\ RequireAdminMultisig(approvals)
    /\ ValidBridgeSet(set)
    /\ pending' = [set |-> set, at |-> ledger]
    /\ UNCHANGED <<assetVars, adminVars, bridge, wrapVars, windowVars, halted,
                   mintCap, ledger, signed, unwrapped>>

ExecuteBridge(approvals) ==
    /\ RequireAdminMultisig(approvals)
    /\ pending # Unset
    /\ ledger - pending.at >= TimelockLedgers
    /\ bridge' = pending.set
    /\ pending' = Unset
    /\ UNCHANGED <<assetVars, adminVars, wrapVars, windowVars, halted, mintCap,
                   ledger, signed, unwrapped>>

\* At once, and whatever is pending stays pending.
SetBridge(approvals, set) ==
    /\ RequireAdminMultisig(approvals)
    /\ ValidBridgeSet(set)
    /\ bridge' = set
    /\ UNCHANGED <<assetVars, adminVars, pending, wrapVars, windowVars, halted,
                   mintCap, ledger, signed, unwrapped>>

AddAdmin(approvals, a) ==
    /\ RequireAdminMultisig(approvals)
    /\ a \notin Range(admins)
    /\ admins' = Append(admins, a)
    /\ UNCHANGED <<assetVars, adminThreshold, bridgeVars, wrapVars, windowVars,
                   halted, mintCap, ledger, signed, unwrapped>>

\* The list without its i-th entry; the entries are distinct (AdminsReachQuorum).
Without(list, i) ==
    [j \in 1..Len(list) - 1 |-> IF j < i THEN list[j] ELSE list[j + 1]]

RemoveAdminToBelow(approvals, a) ==     \* variant: the threshold is not looked at
    /\ RequireAdminMultisig(approvals)
    /\ Len(admins) > 1
    /\ \E i \in DOMAIN admins : admins[i] = a /\ admins' = Without(admins, i)
    /\ UNCHANGED <<assetVars, adminThreshold, bridgeVars, wrapVars, windowVars,
                   halted, mintCap, ledger, signed, unwrapped>>

RemoveAdmin(approvals, a) ==
    /\ RequireAdminMultisig(approvals)
    /\ Len(admins) > adminThreshold
    /\ \E i \in DOMAIN admins : admins[i] = a /\ admins' = Without(admins, i)
    /\ UNCHANGED <<assetVars, adminThreshold, bridgeVars, wrapVars, windowVars,
                   halted, mintCap, ledger, signed, unwrapped>>

SetThreshold(approvals, t) ==
    /\ RequireAdminMultisig(approvals)
    /\ t \in 1..Len(admins)
    /\ adminThreshold' = t
    /\ UNCHANGED <<assetVars, admins, bridgeVars, wrapVars, windowVars, halted,
                   mintCap, ledger, signed, unwrapped>>

----------------------------------------------------------------------------
\* Around the controller.

\* An attester signs a message it believes to be a deposit on another chain.
Attest(k, m) ==
    /\ signed' = signed \union {[key |-> k, message |-> m]}
    /\ UNCHANGED <<assetVars, adminVars, bridgeVars, wrapVars, windowVars, halted,
                   mintCap, ledger, unwrapped>>

\* A call of the wrapped asset that does not go through the controller: a
\* holder burns, or its admin registers a minter or an underlying token.
AssetOnly(step) == step /\ UNCHANGED controllerVars

CloseLedger ==
    /\ ledger < MaxLedger
    /\ ledger' = ledger + 1
    /\ UNCHANGED <<assetVars, adminVars, bridgeVars, wrapVars, windowVars, halted,
                   mintCap, signed, unwrapped>>

\* initialize checks neither the attester set nor its threshold.
BridgeInit ==
    /\ AssetInit
    /\ minter = Controller
    /\ \E a \in Accounts : admins = <<a>>
    /\ adminThreshold = 1
    /\ bridge = FirstBridge
    /\ pending = Unset
    /\ usedSalts = {}
    /\ halted = FALSE
    /\ windowStart = Unset
    /\ windowCount = 0
    /\ mintCap = MaxPerHour
    /\ ledger = 0
    /\ signed = {}
    /\ mintedFor = [s \in Salts |-> 0]
    /\ unwrapped = [u \in Users |-> 0]
    /\ wrapsAt = [l \in 0..MaxLedger |-> 0]

BridgeNext ==
    \/ \E atts \in Attestations, m \in Messages : Wrap(atts, m)
    \/ \E u \in Users, amount \in Amounts : Unwrap(u, amount)
    \/ \E caller \in Accounts, p \in BOOLEAN : SetPaused(caller, p)
    \/ \E approvals \in SUBSET Accounts :
           \/ \E caller \in Accounts, cap \in Caps :
                  SetMintRateLimit(caller, approvals, cap)
           \/ \E set \in BridgeSets :
                  \/ ProposeBridge(approvals, set)
                  \/ SetBridge(approvals, set)
           \/ ExecuteBridge(approvals)
           \/ \E a \in Accounts :
                  \/ AddAdmin(approvals, a)
                  \/ RemoveAdmin(approvals, a)
           \/ \E t \in 0..Cardinality(Accounts) + 1 : SetThreshold(approvals, t)
    \/ \E k \in Keys, m \in Messages : Attest(k, m)
    \/ \E u \in Users, amount \in Amounts : AssetOnly(Burn(u, amount))
    \/ \E m \in Minters : AssetOnly(SetMinter(m))
    \/ \E t \in UnderlyingTokens : AssetOnly(SetUnderlyingToken(t))
    \/ CloseLedger

allVars == <<assetVars, controllerVars>>

BridgeSpec == BridgeInit /\ [][BridgeNext]_allVars

----------------------------------------------------------------------------
\* Properties.

BridgeTypeOK ==
    /\ AssetTypeOK
    /\ admins \in Seq(Accounts)
    /\ adminThreshold \in Nat
    /\ bridge \in BridgeSet
    /\ pending \in [set : BridgeSet, at : Nat] \union {Unset}
    /\ usedSalts \subseteq Salts
    /\ halted \in BOOLEAN
    /\ windowStart \in Nat \union {Unset}
    /\ windowCount \in Nat
    /\ mintCap \in Int
    /\ ledger \in 0..MaxLedger
    /\ signed \subseteq [key : Keys, message : Messages]
    /\ mintedFor \in [Salts -> Nat]
    /\ unwrapped \in [Users -> Nat]
    /\ wrapsAt \in [0..MaxLedger -> Nat]

\* The Stellar half of X-1: whatever else the holders burn, the supply is at
\* most what the Wrap events brought in less what the Unwrap events sent back.
SupplyIsBacked ==
    totalSupply <= Total(mintedFor, NumSalts) - Total(unwrapped, NumUsers)

\* C-2: a salt mints once, whatever the chain, the message or the attester set:
\* what it minted is one message's amount.
MintedOnce ==
    \A s \in Salts :
        mintedFor[s] # 0 => \E m \in Messages : m.salt = s /\ m.amount = mintedFor[s]

\* The attesters in force who have signed for a message.
SignersOf(m) == {k \in Range(bridge.keys) : SignedBy(k, m)}

DistinctKeys == \A i, j \in DOMAIN bridge.keys : i # j => bridge.keys[i] # bridge.keys[j]

\* C-1: "the total number of distinct valid attestations must meet or exceed
\* the configured bridge_threshold" (controller lib.rs), in force at the mint,
\* for an attester set that lists no key twice.
QuorumSigned ==
    [][\A s \in Salts :
           mintedFor'[s] # mintedFor[s] /\ DistinctKeys =>
               \E m \in Messages :
                   /\ m.salt = s
                   /\ mintedFor'[s] = mintedFor[s] + m.amount
                   /\ Cardinality(SignersOf(m)) >= bridge.threshold]_allVars

\* Wrap events of the last WindowLedgers ledgers, this one included.
RecentWraps ==
    Total([i \in 1..WindowLedgers + 1 |->
               IF ledger + 1 - i >= 0 THEN wrapsAt[ledger + 1 - i] ELSE 0],
          WindowLedgers + 1)

\* C-3: no wrap brings a window's wraps above the cap in force.
MintRateBounded == [][wrapsAt' # wrapsAt => RecentWraps' <= mintCap]_allVars

\* Some set of admins can always pass require_admin_multisig, whatever
\* sequence of additions, removals and thresholds led here.
AdminsReachQuorum ==
    /\ adminThreshold \in 1..Len(admins)
    /\ \A i, j \in DOMAIN admins : i # j => admins[i] # admins[j]

\* From an attester set that can reach its threshold the admins only get to
\* others that can, by either path and with a proposal left pending.
BridgeStaysUsable == [][ValidBridgeSet(bridge) => ValidBridgeSet(bridge')]_allVars

\* "Configurable per-hour mint cap" (controller lib.rs): a window in which
\* fewer wraps than the cap have happened has room for another.
WindowReopens == RecentWraps < mintCap => WindowExpired \/ windowCount < mintCap

============================================================================
