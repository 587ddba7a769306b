-------------------------- MODULE DepositPipeline --------------------------
(***************************************************************************)
(* The way in over the bridge: the relayer (services/payment) polls the    *)
(* source chains for deposits (Locked and Burned), puts a mint request for *)
(* each into its database, and calls wrap on Stellar for those pending.    *)
(*                                                                         *)
(* As in ReleasePipeline, a timer starts ticks that do not wait for one    *)
(* another, and what happens between two awaits is a step.  A tick polls   *)
(* all chains at once (Promise.all); when one poll is rejected the tick    *)
(* ends, but the other polls run on.  A poll's saveEvent writes a table    *)
(* that nothing here reads, so the saves of a page are one step.  Database *)
(* and chains survive a crash.  A fault is a call that fails or a crash.   *)
(*                                                                         *)
(* A watcher without a stored cursor starts some blocks behind the head    *)
(* (a cold start); here that is before the first deposit, and stays there  *)
(* until a cursor is stored.  Two submissions that load one sequence of    *)
(* the relayer's account, of which the chain refuses one, count among the  *)
(* faults (AttemptFails).                                                  *)
(***************************************************************************)
EXTENDS Integers, SequencesExt

CONSTANTS
    Order,          \* the source chains, in the order of the tick's Promise.all
    Lenient,        \* those whose poll skips an event it cannot save
    Ticks,          \* ticks that can run at once
    Deposits,       \* Locked and Burned events
    ChainOf,        \* the chain of a deposit
    SaltOf,         \* its salt: unique within a chain's bridge only
    Invalid,        \* deposits rejected by mintValidationError
    Confirmations,  \* REQUIRED_CONFIRMATIONS
    PageSize,       \* blocks per poll, less one
    MaxAttempts,    \* MAX_MINT_ATTEMPTS
    BatchSize,      \* rows per processPending
    MaxFaults       \* bound on the faults

ASSUME DepositAssumption ==
    /\ IsFiniteSet(Ticks) /\ IsFiniteSet(Deposits)
    /\ Lenient \subseteq ToSet(Order)
    /\ ChainOf \in [Deposits -> ToSet(Order)]
    /\ {Confirmations, PageSize, MaxFaults} \subseteq Nat
    /\ {MaxAttempts, BatchSize} \subseteq Nat \ {0}

Chains == ToSet(Order)
Salts == {SaltOf[d] : d \in Deposits}

VARIABLES
    log,            \* by chain, its deposits, one to a block
    cursor,         \* lastProcessed of each watcher
    storedCursor,   \* the Cursor rows
    rows,           \* the MintRequest table: pending, minted or failed, as created
    minted,         \* by deposit, the wraps that the controller accepted
    tick,           \* what each tick is doing
    orphans,        \* wrap transactions in flight that no tick waits for
    faults          \* faults so far

watcherVars == <<cursor, storedCursor>>
vars == <<log, watcherVars, rows, minted, tick, orphans, faults>>

HasRow(d) == \E i \in DOMAIN rows : rows[i].deposit = d

\* The upsert of enqueue: a row once made is never touched.
WithRow(d) ==
    IF HasRow(d) THEN rows
    ELSE Append(rows, IF d \in Invalid
                      THEN [deposit |-> d, status |-> "failed", attempts |-> 1]
                      ELSE [deposit |-> d, status |-> "pending", attempts |-> 0])

\* A tick's place is the await it is at.  Its polls stand at places of their own;
\* "failed" is a rejected promise.  It carries the events of its polls, then a
\* queue of them, then the rows it listed with their attempts at that time.
NewPoll == [at |-> "head", upto |-> 0, events |-> <<>>]
NoPolls == [c \in Chains |-> [NewPoll EXCEPT !.at = "done"]]

Idle == [at |-> "idle", polls |-> NoPolls, queue |-> <<>>, todo |-> {}, tx |-> "none"]

At(t, place) == tick[t].at = place
Goto(t, place) == tick' = [tick EXCEPT ![t].at = place]
PollAt(t, c, place) == tick[t].polls[c].at = place

\* The row at hand, as listed.
Current(t) == CHOOSE r \in tick[t].todo : \A q \in tick[t].todo : r.id <= q.id
CurrentDeposit(t) == rows[Current(t).id].deposit
Attempt(t) == Current(t).attempts + 1

NextRow(t) ==
    LET rest == tick[t].todo \ {Current(t)}
    IN tick' = [tick EXCEPT ![t] =
           IF rest = {} THEN Idle ELSE [Idle EXCEPT !.at = "check", !.todo = rest]]

Fault == faults < MaxFaults /\ faults' = faults + 1

Init ==
    /\ log = [c \in Chains |-> <<>>]
    /\ cursor = [c \in Chains |-> 0]
    /\ storedCursor = [c \in Chains |-> 0]
    /\ rows = <<>>
    /\ minted = [d \in Deposits |-> 0]
    /\ tick = [t \in Ticks |-> Idle]
    /\ orphans = {}
    /\ faults = 0

----------------------------------------------------------------------------
\* The chains.

Deposit(d) ==
    /\ d \notin ToSet(log[ChainOf[d]])
    /\ log' = [log EXCEPT ![ChainOf[d]] = Append(@, d)]
    /\ UNCHANGED <<watcherVars, rows, minted, tick, orphans, faults>>

SaltUsed(d) == \E e \in Deposits : SaltOf[e] = SaltOf[d] /\ minted[e] > 0

WrapUnguarded(d) ==  \* variant: the salt is not looked up
    minted' = [minted EXCEPT ![d] = @ + 1]

\* wrap of the controller: check_and_bump_nonce refuses a salt that was used.
Wrap(d) ==
    /\ ~SaltUsed(d)
    /\ minted' = [minted EXCEPT ![d] = @ + 1]

\* The transaction a tick waits for is executed, or refused for its salt.
LandAwaited(t) ==
    /\ tick[t].tx = "pending"
    /\ \/ /\ Wrap(CurrentDeposit(t))
          /\ tick' = [tick EXCEPT ![t].tx = "done"]
       \/ /\ SaltUsed(CurrentDeposit(t))
          /\ tick' = [tick EXCEPT ![t].tx = "replayed"]
          /\ UNCHANGED minted
    /\ UNCHANGED <<log, watcherVars, rows, orphans, faults>>

\* So is, perhaps, one that nobody waits for any more.
LandOrphan(d) ==
    /\ d \in orphans
    /\ orphans' = orphans \ {d}
    /\ Wrap(d) \/ (SaltUsed(d) /\ UNCHANGED minted)
    /\ UNCHANGED <<log, watcherVars, rows, tick, faults>>

----------------------------------------------------------------------------
\* The watchers: pollOnce of EthereumWatcher and PolygonWatcher.

StartTick(t) ==
    /\ At(t, "idle")
    /\ tick' = [tick EXCEPT ![t] =
                   [Idle EXCEPT !.at = "polls", !.polls = [c \in Chains |-> NewPoll]]]
    /\ UNCHANGED <<log, watcherVars, rows, minted, orphans, faults>>

\* The page starts behind the cursor as it is after the await of the head; its
\* first block is taken even when it is not confirmed.
LastOfPage(c, from) ==
    Min({from + PageSize, Max({from, Len(log[c]) - Confirmations})})

ReadHead(t, c) ==
    /\ PollAt(t, c, "head")
    /\ LET from == cursor[c] + 1
       IN  tick' = [tick EXCEPT ![t].polls[c] =
              IF from > Len(log[c]) THEN [NewPoll EXCEPT !.at = "done"]
              ELSE [at |-> "page", upto |-> LastOfPage(c, from),
                    events |-> SubSeq(log[c], from, LastOfPage(c, from))]]
    /\ UNCHANGED <<log, watcherVars, rows, minted, orphans, faults>>

\* When the page is saved the cursor moves in memory, then in the database.
SavePage(t, c) ==
    /\ PollAt(t, c, "page")
    /\ cursor' = [cursor EXCEPT ![c] = tick[t].polls[c].upto]
    /\ tick' = [tick EXCEPT ![t].polls[c].at = "store"]
    /\ UNCHANGED <<log, storedCursor, rows, minted, orphans, faults>>

\* An event that cannot be saved is skipped where the poll is lenient.
SkipEvent(t, c) ==
    /\ PollAt(t, c, "page")
    /\ Fault
    /\ c \in Lenient
    /\ cursor' = [cursor EXCEPT ![c] = tick[t].polls[c].upto]
    /\ LET events == tick[t].polls[c].events
       IN  \E i \in DOMAIN events :
              tick' = [tick EXCEPT ![t].polls[c] =
                          [@ EXCEPT !.at = "store", !.events = RemoveAt(events, i)]]
    /\ UNCHANGED <<log, storedCursor, rows, minted, orphans>>

\* A node or the database fails the poll; the write of the cursor may be done.
PollFails(t, c) ==
    /\ tick[t].polls[c].at \in {"head", "page", "store"}
    /\ Fault
    /\ tick' = [tick EXCEPT ![t].polls[c].at = "failed"]
    /\ \/ UNCHANGED storedCursor
       \/ /\ PollAt(t, c, "store")
          /\ storedCursor' = [storedCursor EXCEPT ![c] = tick[t].polls[c].upto]
    /\ UNCHANGED <<log, cursor, rows, minted, orphans>>

StoreCursor(t, c) ==
    /\ PollAt(t, c, "store")
    /\ storedCursor' = [storedCursor EXCEPT ![c] = tick[t].polls[c].upto]
    /\ tick' = [tick EXCEPT ![t].polls[c].at = "done"]
    /\ UNCHANGED <<log, cursor, rows, minted, orphans, faults>>

----------------------------------------------------------------------------
\* The tick.

Settled(t) == \A c \in Chains : tick[t].polls[c].at \in {"done", "failed"}

\* All polls are fulfilled: their events are queued, chain after chain.
CollectPolls(t) ==
    /\ At(t, "polls")
    /\ \A c \in Chains : PollAt(t, c, "done")
    /\ tick' = [tick EXCEPT ![t] =
          [Idle EXCEPT !.at = "enqueue",
                       !.queue = FlattenSeq([i \in DOMAIN Order |->
                                               tick[t].polls[Order[i]].events])]]
    /\ UNCHANGED <<log, watcherVars, rows, minted, orphans, faults>>

\* One is rejected: the tick is over, whatever the others bring.
RejectPolls(t) ==
    /\ At(t, "polls")
    /\ \E c \in Chains : PollAt(t, c, "failed")
    /\ Goto(t, "rejected")
    /\ UNCHANGED <<log, watcherVars, rows, minted, orphans, faults>>

\* The last of its polls has ended.
ForgetPolls(t) ==
    /\ At(t, "rejected")
    /\ Settled(t)
    /\ tick' = [tick EXCEPT ![t] = Idle]
    /\ UNCHANGED <<log, watcherVars, rows, minted, orphans, faults>>

EnqueueUntilKnown(t) ==  \* variant: the queue ends with the first event that has a row
    /\ At(t, "enqueue")
    /\ tick[t].queue # <<>>
    /\ rows' = WithRow(Head(tick[t].queue))
    /\ tick' = [tick EXCEPT ![t].queue = IF HasRow(Head(@)) THEN <<>> ELSE Tail(@)]
    /\ UNCHANGED <<log, watcherVars, minted, orphans, faults>>

Enqueue(t) ==
    /\ At(t, "enqueue")
    /\ tick[t].queue # <<>>
    /\ rows' = WithRow(Head(tick[t].queue))
    /\ tick' = [tick EXCEPT ![t].queue = Tail(@)]
    /\ UNCHANGED <<log, watcherVars, minted, orphans, faults>>

----------------------------------------------------------------------------
\* The minter: processPending and mint.

PendingRows == {i \in DOMAIN rows : rows[i].status = "pending"}
Batch == {i \in PendingRows : Cardinality({j \in PendingRows : j < i}) < BatchSize}

\* Between the queue and this the unwrap watcher polls (ReleasePipeline).
ListMints(t) ==
    /\ At(t, "enqueue")
    /\ tick[t].queue = <<>>
    /\ tick' = [tick EXCEPT ![t] =
                   IF Batch = {} THEN Idle
                   ELSE [Idle EXCEPT !.at = "check",
                                     !.todo = {[id |-> i, attempts |-> rows[i].attempts] :
                                               i \in Batch}]]
    /\ UNCHANGED <<log, watcherVars, rows, minted, orphans, faults>>

CheckOneLess(t) ==  \* variant: the last attempt is not made
    /\ At(t, "check")
    /\ IF Attempt(t) >= MaxAttempts
       THEN /\ rows' = [rows EXCEPT ![Current(t).id].status = "failed",
                                    ![Current(t).id].attempts = Attempt(t)]
            /\ NextRow(t)
       ELSE /\ tick' = [tick EXCEPT ![t].at = "wait", ![t].tx = "pending"]
            /\ UNCHANGED rows
    /\ UNCHANGED <<log, watcherVars, minted, orphans, faults>>

\* The row is not read again.  With no attempt left it is marked failed,
\* whatever it says by now.
Check(t) ==
    /\ At(t, "check")
    /\ IF Attempt(t) > MaxAttempts
       THEN /\ rows' = [rows EXCEPT ![Current(t).id].status = "failed",
                                    ![Current(t).id].attempts = Attempt(t)]
            /\ NextRow(t)
       ELSE /\ tick' = [tick EXCEPT ![t].at = "wait", ![t].tx = "pending"]
            /\ UNCHANGED rows
    /\ UNCHANGED <<log, watcherVars, minted, orphans, faults>>

\* Signatures are missing, a node does not answer, or the controller refuses
\* the wrap (it is paused, or its mint window is full): one attempt failed.
AttemptFails(t) ==
    /\ Fault
    /\ At(t, "check") /\ Attempt(t) <= MaxAttempts
    /\ Goto(t, "fail")
    /\ UNCHANGED <<log, watcherVars, rows, minted, orphans>>

\* The wrap is answered.  A replay is recognised by the text of the error.
Confirm(t) ==
    /\ At(t, "wait")
    /\ \E place \in CASE tick[t].tx = "done" -> {"mark"}
                      [] tick[t].tx = "replayed" -> {"mark", "fail"}
                      [] OTHER -> {} :
          tick' = [tick EXCEPT ![t].at = place, ![t].tx = "none"]
    /\ UNCHANGED <<log, watcherVars, rows, minted, orphans, faults>>

\* No answer comes, and the transaction may still be executed.
WaitFails(t) ==
    /\ At(t, "wait")
    /\ Fault
    /\ tick' = [tick EXCEPT ![t].at = "fail", ![t].tx = "none"]
    /\ orphans' = IF tick[t].tx = "pending"
                  THEN orphans \cup {CurrentDeposit(t)} ELSE orphans
    /\ UNCHANGED <<log, watcherVars, rows, minted>>

MarkMinted(t) ==
    /\ At(t, "mark")
    /\ rows' = [rows EXCEPT ![Current(t).id].status = "minted"]
    /\ NextRow(t)
    /\ UNCHANGED <<log, watcherVars, minted, orphans, faults>>

\* A mark that fails counts as a failed attempt: the salt tells the next one.
MarkFails(t) ==
    /\ At(t, "mark")
    /\ Fault
    /\ Goto(t, "fail")
    /\ UNCHANGED <<log, watcherVars, rows, minted, orphans>>

RecordNoFailure(t) ==  \* variant: attempts are not counted
    /\ At(t, "fail")
    /\ NextRow(t)
    /\ UNCHANGED <<log, watcherVars, rows, minted, orphans, faults>>

RecordFailure(t) ==
    /\ At(t, "fail")
    /\ rows' = [rows EXCEPT ![Current(t).id].attempts = Attempt(t)]
    /\ NextRow(t)
    /\ UNCHANGED <<log, watcherVars, minted, orphans, faults>>

\* A call fails where only the tick's own catch sees it.
TickFails(t) ==
    /\ \/ tick[t].at \in {"enqueue", "fail"}
       \/ At(t, "check") /\ Attempt(t) > MaxAttempts
    /\ Fault
    /\ tick' = [tick EXCEPT ![t] = Idle]
    /\ UNCHANGED <<log, watcherVars, rows, minted, orphans>>

\* The process ends, by a crash or by shutdown, which gives the ticks five
\* seconds but does not wait for them; start reads the cursors back.
Exit ==
    /\ Fault
    /\ cursor' = storedCursor
    /\ tick' = [t \in Ticks |-> Idle]
    /\ orphans' = orphans \cup {CurrentDeposit(t) : t \in {u \in Ticks : tick[u].tx = "pending"}}
    /\ UNCHANGED <<log, storedCursor, rows, minted>>

----------------------------------------------------------------------------

TickStep(t) ==
    \/ StartTick(t) \/ CollectPolls(t) \/ RejectPolls(t) \/ ForgetPolls(t)
    \/ \E c \in Chains : ReadHead(t, c) \/ SavePage(t, c) \/ StoreCursor(t, c)
    \/ Enqueue(t) \/ ListMints(t) \/ Check(t)
    \/ LandAwaited(t) \/ Confirm(t) \/ MarkMinted(t) \/ RecordFailure(t)

TickFault(t) ==
    \/ \E c \in Chains : SkipEvent(t, c) \/ PollFails(t, c)
    \/ AttemptFails(t) \/ WaitFails(t) \/ MarkFails(t) \/ TickFails(t)

Next ==
    \/ \E d \in Deposits : Deposit(d) \/ LandOrphan(d)
    \/ \E t \in Ticks : TickStep(t) \/ TickFault(t)
    \/ Exit

\* The timer starts ticks for ever, and each call is answered at last.
Fairness == \A t \in Ticks : WF_vars(TickStep(t))

Spec == Init /\ [][Next]_vars
FairSpec == Spec /\ Fairness

----------------------------------------------------------------------------
\* Properties.

\* Some tick still has the deposit in its hands: in a poll whose tick waits for
\* it, or in the queue.
Carried(d) ==
    \E t \in Ticks :
        \/ d \in ToSet(tick[t].queue)
        \/ At(t, "polls") /\ \E c \in Chains : d \in ToSet(tick[t].polls[c].events)

Lost(d) ==
    LET c == ChainOf[d]
    IN  \E i \in DOMAIN log[c] : log[c][i] = d /\ i <= cursor[c] /\ ~HasRow(d) /\ ~Carried(d)

\* As long as nothing fails, ticks that overlap, pages that repeat and cursors
\* that run ahead of the queue lose no deposit, confirmed or not.
NothingLostUnprovoked == faults = 0 => \A d \in Deposits : ~Lost(d)

\* Whatever fails, a deposit is minted at most once, and of deposits that share
\* a salt at most one is; only what was deposited is minted (X-2 of
\* docs/invariants.md); and a row calls itself minted only when its salt was
\* used.  With a crash between the wrap and the mark, answers that get lost and
\* ticks that submit the same row, the salt is all that prevents a second mint.
MintsAreDeposits ==
    /\ \A d \in Deposits : minted[d] <= 1
    /\ \A d, e \in Deposits :
          SaltOf[d] = SaltOf[e] /\ minted[d] > 0 /\ minted[e] > 0 => d = e
    /\ \A d \in Deposits : minted[d] > 0 => d \in ToSet(log[ChainOf[d]])
    /\ \A i \in DOMAIN rows : rows[i].status = "minted" => SaltUsed(rows[i].deposit)

\* A row leaves the queue for good: nothing makes it pending again, in spite of
\* events that are enqueued twice and of writes that are based on old reads, and
\* at last none is left ("one permanently-failing request can't starve the rest
\* of the queue", stellarMinter.ts:36-37).
MintQueueDrains ==
    <>[](PendingRows = {})

\* Every valid deposit is minted under its salt, in spite of fewer faults than
\* there are attempts, unless a fault lost it before it reached the queue.
EveryDepositMinted ==
    \A d \in Deposits \ Invalid :
        d \in ToSet(log[ChainOf[d]]) ~> (SaltUsed(d) \/ (Lost(d) /\ faults > 0))

\* "Prevents losing in-flight mints when K8s evicts the pod" (index.ts:98-99): a
\* deposit that was not lost before the process ends is not lost by it.  It does
\* not hold: the cursor is stored before the deposit is queued.
ExitLosesNothing ==
    [][Exit => \A d \in Deposits : Lost(d)' => Lost(d)]_vars

============================================================================
