-------------------------- MODULE ReleasePipeline --------------------------
(***************************************************************************)
(* The way back over the bridge: the relayer (services/payment) watches    *)
(* Stellar for unwraps, keeps a row for each in its database, and calls    *)
(* Bridge.release on the source chain for the rows that are pending.       *)
(*                                                                         *)
(* The relayer works in ticks started by a timer that does not wait for    *)
(* the tick before, so several run at once; what a tick does between two   *)
(* awaits is a step.  The database and the chains survive a crash, the     *)
(* memory does not.  A fault is a call to the database or to a node that   *)
(* fails, or a crash.                                                      *)
(***************************************************************************)
EXTENDS BridgeEscrow, FiniteSetsExt

CONSTANTS
    Ticks,              \* ticks that can run at once
    Unwraps,            \* calls of the controller's unwrap
    TxOf,               \* the Stellar transaction of an unwrap
    LedgerOf,           \* the ledger that closed a transaction
    AmountOf,           \* units unwrapped
    Unsupported,        \* unwraps that decodeUnwrapValue rejects
    BadRecipient,       \* unwraps whose source_addr is no EVM address
    Unconfigured,       \* unwraps to a chain that buildReleaseContexts omits
    RelayerKeys,        \* EVM_ATTESTER_KEYS, as addresses
    MaxAttempts,        \* MAX_RELEASE_ATTEMPTS
    BatchSize,          \* rows per listPendingReleases
    PageSize,           \* events per getEvents
    MaxUpsets           \* bound: faults and calls of the bridge's owner, together

ASSUME PipelineAssumption ==
    /\ IsFiniteSet(Ticks)
    /\ TxOf \in [Unwraps -> Txs]
    /\ LedgerOf \in [Txs -> Nat]
    /\ AmountOf \in [Unwraps -> Nat \ {0}]
    /\ {MaxAttempts, BatchSize, PageSize} \subseteq Nat \ {0}
    /\ MaxUpsets \in Nat

VARIABLES
    log,            \* Unwrap events in the order of the ledgers
    cursor,         \* the watcher's cursor: events before it are done
    storedCursor,   \* the Cursor row
    rows,           \* the UnwrapEvent table in the order of creation
    invalid,        \* transactions with a row made by markUnwrapFailed
    swallowed,      \* history: unwraps of which two writes failed in a row
    tick,           \* what each tick is doing
    orphans,        \* release transactions in flight that no tick waits for
    faults,         \* faults so far
    ownerActs       \* calls of the owner so far

watcherVars == <<cursor, storedCursor, invalid, swallowed>>
relayerVars == <<watcherVars, rows, tick, orphans, faults>>
vars == <<escrowVars, log, relayerVars, ownerActs>>

\* gen_nonce: the ledger's sequence and time, whatever the call.
GenNonce(u) == LedgerOf[TxOf[u]]

\* The unique key of UnwrapEvent.
Key(u) == <<TxOf[u], GenNonce(u)>>

Statuses == {"pending", "released", "failed"}
Row == [unwrap : Unwraps, status : Statuses, released : BOOLEAN,
        attempts : 0 .. MaxAttempts - 1]
NewRow(u) == [unwrap |-> u, status |-> "pending", released |-> FALSE, attempts |-> 0]

HasRow(u) == \E i \in DOMAIN rows : Key(rows[i].unwrap) = Key(u)

\* Variant: the row is created without looking for one.
WithRowTwice(u) == Append(rows, NewRow(u))

\* Variant: an upsert that updates the row it finds.
WithRowOverwriting(u) ==
    IF HasRow(u)
    THEN [i \in DOMAIN rows |-> IF Key(rows[i].unwrap) = Key(u) THEN NewRow(u) ELSE rows[i]]
    ELSE Append(rows, NewRow(u))

\* saveUnwrap: a row once made is never overwritten.
WithRow(u) == IF HasRow(u) THEN rows ELSE Append(rows, NewRow(u))

\* Where a tick stands, before which await; the page it saves; the rows it
\* listed and their attempts at that time; the release it waits for.
Places == {"idle", "save", "store", "list", "check", "submit", "wait",
           "mark", "markReplay", "fail"}
TickState == [at : Places, next : Nat, upto : Nat,
              todo : SUBSET [id : Nat, attempts : 0 .. MaxAttempts - 1],
              tx : {"none", "pending", "mined", "reverted", "replayed"}]
Idle == [at |-> "idle", next |-> 0, upto |-> 0, todo |-> {}, tx |-> "none"]

\* listPendingReleases: the ids of the oldest pending rows.
Pending == {i \in DOMAIN rows : rows[i].status = "pending" /\ ~rows[i].released}
Batch == {i \in Pending : Cardinality({j \in Pending : j < i}) < BatchSize}

\* The row at hand is the oldest of those listed and not yet done with.
Oldest(S) == CHOOSE r \in S : \A q \in S : r.id <= q.id
Current(t) == Oldest(tick[t].todo)
CurrentUnwrap(t) == rows[Current(t).id].unwrap
CurrentTx(t) == TxOf[CurrentUnwrap(t)]
Attempt(t) == Current(t).attempts + 1

At(t, place) == tick[t].at = place
Goto(t, place) == tick' = [tick EXCEPT ![t].at = place]

\* To the next row of the batch, or to the end of the tick.
NextRow(t) ==
    LET rest == tick[t].todo \ {Current(t)}
    IN tick' = [tick EXCEPT ![t] =
           IF rest = {} THEN Idle ELSE [Idle EXCEPT !.at = "check", !.todo = rest]]

Fault == faults + ownerActs < MaxUpsets /\ faults' = faults + 1

Init ==
    /\ EscrowInit
    /\ log = <<>>
    /\ cursor = 0
    /\ storedCursor = 0
    /\ rows = <<>>
    /\ invalid = {}
    /\ swallowed = {}
    /\ tick = [t \in Ticks |-> Idle]
    /\ orphans = [u \in Unwraps |-> 0]
    /\ faults = 0
    /\ ownerActs = 0

-----------------------------------------------------------------------------
(* The chains.                                                             *)

Claims == SumFunctionOnSet(AmountOf, ToSet(log))

\* A holder unwraps on Stellar what was wrapped against deposits.
Unwrap(u) ==
    /\ u \notin ToSet(log)
    /\ Claims + AmountOf[u] <= books.locked + books.burnt
    /\ log' = Append(log, u)
    /\ UNCHANGED <<escrowVars, relayerVars, ownerActs>>

Deposit ==
    /\ Depositor
    /\ UNCHANGED <<log, relayerVars, ownerActs>>

OwnerActs ==
    /\ faults + ownerActs < MaxUpsets
    /\ ownerActs' = ownerActs + 1
    /\ Owner
    /\ UNCHANGED <<log, relayerVars>>

ReleasableNow(u) == Releasable(AmountOf[u], TxOf[u], RelayerKeys)

\* The release a tick waits for is executed; it reverts or pays.
MineAwaited(t) ==
    /\ tick[t].tx = "pending"
    /\ \/ /\ Release(AmountOf[CurrentUnwrap(t)], CurrentTx(t), RelayerKeys)
          /\ tick' = [tick EXCEPT ![t].tx = "mined"]
       \/ /\ ~ReleasableNow(CurrentUnwrap(t))
          /\ tick' = [tick EXCEPT ![t].tx =
                          IF ~paused /\ CurrentTx(t) \in releasedNonces
                          THEN "replayed" ELSE "reverted"]
          /\ UNCHANGED escrowVars
    /\ UNCHANGED <<log, watcherVars, rows, orphans, faults, ownerActs>>

\* So is, perhaps, one that nobody waits for any more.
MineOrphan(u) ==
    /\ orphans[u] > 0
    /\ orphans' = [orphans EXCEPT ![u] = @ - 1]
    /\ \/ Release(AmountOf[u], TxOf[u], RelayerKeys)
       \/ ~ReleasableNow(u) /\ UNCHANGED escrowVars
    /\ UNCHANGED <<log, watcherVars, rows, tick, faults, ownerActs>>

-----------------------------------------------------------------------------
(* The watcher, StellarUnwrapWatcher.pollOnce.                             *)

Poll(t) ==
    /\ At(t, "idle")
    /\ tick' = [tick EXCEPT ![t] =
                   [Idle EXCEPT !.at = "save", !.next = cursor + 1,
                                !.upto = Min({cursor + PageSize, Len(log)})]]
    /\ UNCHANGED <<escrowVars, log, watcherVars, rows, orphans, faults, ownerActs>>

Saving(t) == At(t, "save") /\ tick[t].next <= tick[t].upto

SaveUnwrap(t) ==
    /\ Saving(t)
    /\ LET u == log[tick[t].next]
       IN IF u \in Unsupported
          THEN invalid' = invalid \union {TxOf[u]} /\ UNCHANGED rows
          ELSE rows' = WithRow(u) /\ UNCHANGED invalid
    /\ tick' = [tick EXCEPT ![t].next = @ + 1]
    /\ UNCHANGED <<escrowVars, log, cursor, storedCursor, swallowed, orphans,
                   faults, ownerActs>>

\* The unwrap is saved twice, by the watcher and by the enqueuer.  When either
\* write fails the transaction is marked invalid; when that fails as well the
\* error is only logged.  The watcher goes on in each case.
SaveUnwrapFails(t) ==
    /\ Saving(t)
    /\ Fault
    /\ LET u == log[tick[t].next]
       IN /\ rows' \in IF u \in Unsupported THEN {rows} ELSE {rows, WithRow(u)}
          /\ \/ /\ u \notin Unsupported
                /\ invalid' = invalid \union {TxOf[u]}
                /\ UNCHANGED swallowed
             \/ /\ swallowed' = swallowed \union {u}
                /\ UNCHANGED invalid
    /\ tick' = [tick EXCEPT ![t].next = @ + 1]
    /\ UNCHANGED <<escrowVars, log, cursor, storedCursor, orphans, ownerActs>>

\* The page is forgotten; mints come next, of which nothing is seen here.
PageDone(t) == tick' = [tick EXCEPT ![t] = [Idle EXCEPT !.at = "list"]]

\* Variant: the cursor moves before the page is saved.
AdvanceCursorEarly(t) ==
    /\ At(t, "save")
    /\ cursor' = tick[t].upto
    /\ IF tick[t].upto # cursor THEN Goto(t, "store") ELSE PageDone(t)
    /\ UNCHANGED <<escrowVars, log, storedCursor, invalid, swallowed, rows,
                   orphans, faults, ownerActs>>

\* The cursor moves in memory first, then in the database.
AdvanceCursor(t) ==
    /\ At(t, "save")
    /\ tick[t].next > tick[t].upto
    /\ cursor' = tick[t].upto
    /\ IF tick[t].upto # cursor THEN Goto(t, "store") ELSE PageDone(t)
    /\ UNCHANGED <<escrowVars, log, storedCursor, invalid, swallowed, rows,
                   orphans, faults, ownerActs>>

StoreCursor(t) ==
    /\ At(t, "store")
    /\ storedCursor' = tick[t].upto
    /\ PageDone(t)
    /\ UNCHANGED <<escrowVars, log, cursor, invalid, swallowed, rows, orphans,
                   faults, ownerActs>>

-----------------------------------------------------------------------------
(* The releaser, EvmReleaser.processPending and release.                   *)

ListReleases(t) ==
    /\ At(t, "list")
    /\ tick' = [tick EXCEPT ![t] =
                   IF Batch = {} THEN Idle
                   ELSE [Idle EXCEPT !.at = "check",
                                     !.todo = {[id |-> i, attempts |-> rows[i].attempts] :
                                               i \in Batch}]]
    /\ UNCHANGED <<escrowVars, log, watcherVars, rows, orphans, faults, ownerActs>>

\* A chain without a release context: the row stays pending.
Skip(t) ==
    /\ At(t, "check")
    /\ CurrentUnwrap(t) \in Unconfigured
    /\ NextRow(t)
    /\ UNCHANGED <<escrowVars, log, watcherVars, rows, orphans, faults, ownerActs>>

\* The row is not read again: only the bridge is asked.
PreCheck(t) ==
    /\ At(t, "check")
    /\ CurrentUnwrap(t) \notin Unconfigured
    /\ IF Attempt(t) > MaxAttempts
       THEN /\ rows' = [rows EXCEPT ![Current(t).id].status = "failed"]
            /\ NextRow(t)
       ELSE /\ Goto(t, IF CurrentUnwrap(t) \in BadRecipient THEN "fail"
                       ELSE IF CurrentTx(t) \in releasedNonces THEN "mark"
                       ELSE "submit")
            /\ UNCHANGED rows
    /\ UNCHANGED <<escrowVars, log, watcherVars, orphans, faults, ownerActs>>

\* Variant: the row is marked as soon as its release is sent.
SubmitAndMark(t) ==
    /\ At(t, "submit")
    /\ tick' = [tick EXCEPT ![t].at = "wait", ![t].tx = "pending"]
    /\ rows' = [rows EXCEPT ![Current(t).id].status = "released",
                            ![Current(t).id].released = TRUE]
    /\ UNCHANGED <<escrowVars, log, watcherVars, orphans, faults, ownerActs>>

Submit(t) ==
    /\ At(t, "submit")
    /\ tick' = [tick EXCEPT ![t].at = "wait", ![t].tx = "pending"]
    /\ UNCHANGED <<escrowVars, log, watcherVars, rows, orphans, faults, ownerActs>>

\* A node does not answer, or attesters do not sign; what was sent may have
\* been accepted.
RequestFails(t) ==
    /\ Fault
    /\ \/ At(t, "check") /\ CurrentUnwrap(t) \notin Unconfigured /\ UNCHANGED orphans
       \/ /\ At(t, "submit")
          /\ \/ UNCHANGED orphans
             \/ orphans' = [orphans EXCEPT ![CurrentUnwrap(t)] = @ + 1]
    /\ Goto(t, "fail")
    /\ UNCHANGED <<escrowVars, log, watcherVars, rows, ownerActs>>

\* A replay is recognised by the text of the error, which may not hold it.
Confirm(t) ==
    /\ At(t, "wait")
    /\ \E place \in CASE tick[t].tx = "mined" -> {"mark"}
                      [] tick[t].tx = "reverted" -> {"fail"}
                      [] tick[t].tx = "replayed" -> {"fail", "markReplay"}
                      [] OTHER -> {} :
          tick' = [tick EXCEPT ![t].at = place, ![t].tx = "none"]
    /\ UNCHANGED <<escrowVars, log, watcherVars, rows, orphans, faults, ownerActs>>

WaitFails(t) ==
    /\ At(t, "wait")
    /\ Fault
    /\ tick' = [tick EXCEPT ![t].at = "fail", ![t].tx = "none"]
    /\ orphans' = IF tick[t].tx = "pending"
                  THEN [orphans EXCEPT ![CurrentUnwrap(t)] = @ + 1]
                  ELSE orphans
    /\ UNCHANGED <<escrowVars, log, watcherVars, rows, ownerActs>>

\* markUnwrapReleased, whatever the row says by now.
MarkReleased(t) ==
    /\ At(t, "mark") \/ At(t, "markReplay")
    /\ rows' = [rows EXCEPT ![Current(t).id].status = "released",
                            ![Current(t).id].released = TRUE]
    /\ NextRow(t)
    /\ UNCHANGED <<escrowVars, log, watcherVars, orphans, faults, ownerActs>>

\* A failing write is, inside release, one more failed attempt.
MarkFails(t) ==
    /\ At(t, "mark")
    /\ Fault
    /\ Goto(t, "fail")
    /\ UNCHANGED <<escrowVars, log, watcherVars, rows, orphans, ownerActs>>

\* Variant: attempts are not counted.
RecordFailureUncounted(t) ==
    /\ At(t, "fail")
    /\ NextRow(t)
    /\ UNCHANGED <<escrowVars, log, watcherVars, rows, orphans, faults, ownerActs>>

\* The attempts written are those read by this tick, plus one.
RecordFailure(t) ==
    /\ At(t, "fail")
    /\ rows' = IF Attempt(t) >= MaxAttempts
               THEN [rows EXCEPT ![Current(t).id].status = "failed"]
               ELSE [rows EXCEPT ![Current(t).id].attempts = Attempt(t)]
    /\ NextRow(t)
    /\ UNCHANGED <<escrowVars, log, watcherVars, orphans, faults, ownerActs>>

\* A write fails where nothing but the tick's own catch sees it.
TickFails(t) ==
    /\ tick[t].at \in {"store", "list", "markReplay", "fail"}
    /\ Fault
    /\ tick' = [tick EXCEPT ![t] = Idle]
    /\ UNCHANGED <<escrowVars, log, watcherVars, rows, orphans, ownerActs>>

\* Variant: a restart without reading the cursor begins at the latest ledger.
CrashForgetsCursor ==
    /\ Fault
    /\ tick' = [t \in Ticks |-> Idle]
    /\ cursor' = Len(log)
    /\ orphans' = [u \in Unwraps |-> orphans[u] +
           Cardinality({t \in Ticks : tick[t].tx = "pending" /\ CurrentUnwrap(t) = u})]
    /\ UNCHANGED <<escrowVars, log, storedCursor, invalid, swallowed, rows, ownerActs>>

\* All ticks are gone; start reads the cursor back.
Crash ==
    /\ Fault
    /\ tick' = [t \in Ticks |-> Idle]
    /\ cursor' = storedCursor
    /\ orphans' = [u \in Unwraps |-> orphans[u] +
           Cardinality({t \in Ticks : tick[t].tx = "pending" /\ CurrentUnwrap(t) = u})]
    /\ UNCHANGED <<escrowVars, log, storedCursor, invalid, swallowed, rows, ownerActs>>

-----------------------------------------------------------------------------
TickStep(t) ==
    \/ Poll(t) \/ SaveUnwrap(t) \/ AdvanceCursor(t) \/ StoreCursor(t)
    \/ ListReleases(t) \/ Skip(t) \/ PreCheck(t) \/ Submit(t)
    \/ MineAwaited(t) \/ Confirm(t) \/ MarkReleased(t) \/ RecordFailure(t)

TickFault(t) ==
    \/ SaveUnwrapFails(t) \/ RequestFails(t) \/ WaitFails(t) \/ MarkFails(t)
    \/ TickFails(t)

Next ==
    \/ \E u \in Unwraps : Unwrap(u) \/ MineOrphan(u)
    \/ Deposit
    \/ OwnerActs
    \/ \E t \in Ticks : TickStep(t) \/ TickFault(t)
    \/ Crash

\* The timer starts ticks for ever, each call is answered, and the release a
\* tick waits for is executed.  Nothing is assumed of users, faults or the
\* owner, nor of releases that nobody waits for.
Fairness == \A t \in Ticks : WF_vars(TickStep(t))

Spec == Init /\ [][Next]_vars
FairSpec == Spec /\ Fairness

-----------------------------------------------------------------------------
(* Properties.                                                             *)

\* The type invariant of the pipeline: rows hold one unwrap each under one
\* key, a pending row has attempts left, cursors lie within the log, and a
\* tick waits for a release exactly in the places where the code awaits it.
PipelineTypeOK ==
    /\ log \in Seq(Unwraps)
    /\ cursor \in 0 .. Len(log) /\ storedCursor \in 0 .. Len(log)
    /\ rows \in Seq(Row)
    /\ \A i, j \in DOMAIN rows : Key(rows[i].unwrap) = Key(rows[j].unwrap) => i = j
    /\ invalid \subseteq Txs
    /\ tick \in [Ticks -> TickState]
    /\ \A t \in Ticks :
        /\ \A r \in tick[t].todo : r.id \in DOMAIN rows
        /\ tick[t].at \in {"idle", "save", "store", "list"} <=> tick[t].todo = {}
        /\ tick[t].tx # "none" <=> tick[t].at = "wait"
    /\ orphans \in [Unwraps -> Nat]

Recorded(u) == HasRow(u) \/ TxOf[u] \in invalid \/ u \in swallowed

\* Whatever a crash, a failing write or a tick that overlaps another leaves
\* behind, the watcher has left a trace of each unwrap before its cursors: a
\* row, a failure for operators to see, or, when that could not be written
\* either, an error in the log.
CursorNeverSkips ==
    \A i \in 1 .. Len(log) : i <= cursor \/ i <= storedCursor => Recorded(log[i])

\* A row that left the queue never returns to it, and one that was reported
\* released keeps that mark, though ticks write rows they listed long before
\* ("never overwrite a row that a concurrent release attempt may already have
\* advanced", store/db.ts).
RowsNeverReopen ==
    [][\A i \in DOMAIN rows :
          /\ i \in DOMAIN rows'
          /\ rows'[i].unwrap = rows[i].unwrap
          /\ rows[i].status # "pending" => rows'[i].status # "pending"
          /\ rows[i].released => rows'[i].released]_vars

\* The pipeline settles each unwrapping transaction at most once and reports
\* as released only what was paid: a refinement of UnwrapSettlement.
Settlement == INSTANCE UnwrapSettlement WITH
    requested <- {TxOf[log[i]] : i \in DOMAIN log},
    settled <- releases,
    reported <- {TxOf[rows[i].unwrap] : i \in {j \in DOMAIN rows : rows[j].released}}

SettlesOnce == Settlement!Spec

\* "one stuck unwrap cannot starve the queue" (services/payment/README.md:37):
\* no row stays in the queue for ever (there are finitely many), but one to a
\* chain that is not configured, which is stuck itself.
StuckNeverStarves ==
    <>[](\A i \in DOMAIN rows :
            rows[i].unwrap \notin Unconfigured => rows[i].status # "pending")

\* Skipped rows are listed again before any younger one: with a batch of them
\* ahead, a row is never listed.
Starved(i) ==
    Cardinality({j \in 1 .. i - 1 : rows[j].unwrap \in Unconfigured}) >= BatchSize

\* What the code does keep of it: every other row that can be listed leaves the
\* queue.  A release that can never succeed is dead-lettered, though overlapping
\* ticks write back stale counts of attempts, and the rows behind it, beyond
\* the batch it is in, get their turn.
QueueDrains ==
    <>[](\A i \in DOMAIN rows :
            rows[i].unwrap \notin Unconfigured /\ ~Starved(i)
                => rows[i].status # "pending")

\* What excuses an unwrap from being paid: the owner stepped in, tokens were
\* burnt and not locked, it could not be saved, or its row is never listed.
Excused(u) ==
    \/ ownerActs > 0 \/ books.burnt > 0
    \/ TxOf[u] \in invalid \/ u \in swallowed
    \/ \E i \in DOMAIN rows : rows[i].unwrap = u /\ Starved(i)

\* Every unwrap to a proper recipient leads to a release of its transaction in
\* spite of fewer faults than there are attempts, wherever they strike.
EveryUnwrapReleased ==
    \A u \in Unwraps \ (Unsupported \union BadRecipient \union Unconfigured) :
        u \in ToSet(log) ~> (releases[TxOf[u]] = 1 \/ Excused(u))

=============================================================================
