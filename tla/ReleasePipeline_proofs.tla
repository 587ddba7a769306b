----------------------- MODULE ReleasePipeline_proofs -----------------------
(***************************************************************************)
(* Safety of the release pipeline for any number of ticks, unwraps, faults *)
(* and attempts: the inductive invariant of the relayer and the bridge     *)
(* together, and from it that the pipeline implements UnwrapSettlement.    *)
(***************************************************************************)
EXTENDS ReleasePipeline, AccountSums_proofs, SequenceTheorems,
        FiniteSetTheorems, WellFoundedInduction, TLAPS

USE DEF Places, Statuses

Logged(u) == \E i \in DOMAIN log : log[i] = u

\* Types of the state that the argument reads.
Types ==
    /\ log \in Seq(Unwraps)
    /\ cursor \in 0 .. Len(log) /\ storedCursor \in 0 .. Len(log)
    /\ rows \in Seq(Row)
    /\ invalid \subseteq Txs
    /\ tick \in [Ticks -> TickState]
    /\ orphans \in [Unwraps -> Nat]
    /\ releases \in [Txs -> Nat]

OneRowPerKey ==
    \A i, j \in DOMAIN rows : Key(rows[i].unwrap) = Key(rows[j].unwrap) => i = j

\* Only unwraps in the log have rows or releases in flight.
FromLog ==
    /\ \A i \in DOMAIN rows : Logged(rows[i].unwrap)
    /\ \A u \in Unwraps : orphans[u] > 0 => Logged(u)

\* The bridge's replay guard counts the releases.
GuardCounts ==
    \A x \in Txs : releases[x] = IF x \in releasedNonces THEN 1 ELSE 0

\* A row is reported released only when the bridge has released it.
ReportedPaid ==
    \A i \in DOMAIN rows : rows[i].released => TxOf[rows[i].unwrap] \in releasedNonces

\* Where a tick stands says what it holds, and what it knows of the bridge.
TickKnows(t) ==
    /\ \A r \in tick[t].todo : r.id \in DOMAIN rows
    /\ tick[t].at \in {"idle", "save", "store", "list"} <=> tick[t].todo = {}
    /\ tick[t].tx # "none" <=> tick[t].at = "wait"
    /\ (tick[t].at \in {"mark", "markReplay"} \/ tick[t].tx \in {"mined", "replayed"})
           => CurrentTx(t) \in releasedNonces

TicksKnow == \A t \in Ticks : TickKnows(t)

\* A tick that saves a page has a trace of all before its next event.
PageSaved(t) ==
    /\ tick[t].at \in {"save", "store"} => tick[t].upto \in 0 .. Len(log)
    /\ tick[t].at = "save" =>
           /\ tick[t].next \in 1 .. tick[t].upto + 1
           /\ \A i \in 1 .. Len(log) : i < tick[t].next => Recorded(log[i])
    /\ tick[t].at = "store" =>
           \A i \in 1 .. Len(log) : i <= tick[t].upto => Recorded(log[i])

PagesSaved == \A t \in Ticks : PageSaved(t)

PipelineInv ==
    /\ Types
    /\ OneRowPerKey
    /\ FromLog
    /\ GuardCounts
    /\ ReportedPaid
    /\ TicksKnow
    /\ PagesSaved
    /\ CursorNeverSkips

-----------------------------------------------------------------------------
(* Lemmas.                                                                 *)

\* The record at hand is one of those listed.
LEMMA OldestListed ==
    ASSUME NEW A, NEW S \in SUBSET [id : Nat, attempts : A], S # {}
    PROVE  Oldest(S) \in S
<1> DEFINE ids == {r.id : r \in S}
<1>1. ids \in SUBSET Nat
  OBVIOUS
<1>2. ids # {}
  OBVIOUS
<1> HIDE DEF ids
<1>3. PICK n \in ids : \A m \in ids : n <= m
  <2>1. PICK n \in ids : \A m \in ids : ~ (<<m, n>> \in OpToRel(<, Nat))
    BY <1>1, <1>2, NatLessThanWellFounded, WFMin
  <2>2. \A m \in ids : ~ (m < n)
    BY <2>1, <1>1 DEF OpToRel
  <2> QED
    BY <2>2, <1>1
<1> USE DEF ids
<1>4. PICK r \in S : r.id = n
  BY <1>3
<1>5. \A q \in S : r.id <= q.id
  BY <1>3, <1>4
<1> QED
  BY <1>4, <1>5 DEF Oldest

\* So it is a row of the table, whose unwrap is in the log.
LEMMA CurrentIsARow ==
    ASSUME Types, FromLog, NEW t \in Ticks, TickKnows(t), tick[t].todo # {}
    PROVE  /\ Current(t) \in tick[t].todo
           /\ Current(t).id \in DOMAIN rows
           /\ Current(t).attempts \in 0 .. MaxAttempts - 1
           /\ CurrentUnwrap(t) \in Unwraps
           /\ CurrentTx(t) \in Txs
           /\ Logged(CurrentUnwrap(t))
<1>1. tick[t].todo \in SUBSET [id : Nat, attempts : 0 .. MaxAttempts - 1]
  BY DEF Types, TickState
<1>2. Current(t) \in tick[t].todo
  BY <1>1, OldestListed DEF Current
<1>3. Current(t).id \in DOMAIN rows /\ Current(t).attempts \in 0 .. MaxAttempts - 1
  BY <1>1, <1>2 DEF TickKnows
<1>4. rows[Current(t).id] \in Row
  BY <1>3, ElementOfSeq, LenProperties DEF Types
<1>5. CurrentUnwrap(t) \in Unwraps
  BY <1>4 DEF CurrentUnwrap, Row
<1>6. CurrentTx(t) \in Txs
  BY <1>5, PipelineAssumption DEF CurrentTx
<1>7. Logged(CurrentUnwrap(t))
  BY <1>3 DEF FromLog, CurrentUnwrap
<1> QED
  BY <1>2, <1>3, <1>5, <1>6, <1>7

\* What no step undoes: events, rows and their unwraps, releases, traces.
Grows ==
    /\ Len(log) <= Len(log')
    /\ \A i \in 1 .. Len(log) : log'[i] = log[i]
    /\ \A i \in DOMAIN rows : i \in DOMAIN rows' /\ rows'[i].unwrap = rows[i].unwrap
    /\ releasedNonces \subseteq releasedNonces'
    /\ invalid \subseteq invalid'
    /\ swallowed \subseteq swallowed'

\* A trace stays.
LEMMA TracesStay ==
    ASSUME Grows, NEW i \in 1 .. Len(log), Recorded(log[i])
    PROVE  Recorded(log[i])'
<1>1. log'[i] = log[i]
  BY DEF Grows
<1> QED
  BY <1>1 DEF Grows, Recorded, HasRow, Key, GenNonce

\* A tick that does not move keeps what it knows.
LEMMA OthersKnow ==
    ASSUME Types, Types', FromLog, Grows, NEW q \in Ticks, TickKnows(q), PageSaved(q),
           tick'[q] = tick[q]
    PROVE  TickKnows(q)' /\ PageSaved(q)'
<1>1. CurrentTx(q)' = CurrentTx(q) /\ CurrentTx(q) \in releasedNonces
         => CurrentTx(q)' \in releasedNonces'
  BY DEF Grows
<1>2. tick[q].todo # {} => CurrentTx(q)' = CurrentTx(q)
  <2> SUFFICES ASSUME tick[q].todo # {}
               PROVE  CurrentTx(q)' = CurrentTx(q)
    OBVIOUS
  <2>1. Current(q)' = Current(q)
    BY DEF Current
  <2>2. Current(q).id \in DOMAIN rows
    BY CurrentIsARow
  <2> QED
    BY <2>1, <2>2 DEF CurrentTx, CurrentUnwrap, Grows
<1>3. TickKnows(q)'
  <2>1. \A r \in tick'[q].todo : r.id \in DOMAIN rows'
    BY DEF TickKnows, Grows
  <2>2. /\ tick'[q].at \in {"idle", "save", "store", "list"} <=> tick'[q].todo = {}
        /\ tick'[q].tx # "none" <=> tick'[q].at = "wait"
    BY DEF TickKnows
  <2>3. ASSUME tick'[q].at \in {"mark", "markReplay"} \/ tick'[q].tx \in {"mined", "replayed"}
        PROVE  CurrentTx(q)' \in releasedNonces'
    <3>1. tick[q].todo # {} /\ CurrentTx(q) \in releasedNonces
      BY <2>3 DEF TickKnows
    <3> QED
      BY <3>1, <1>1, <1>2
  <2> QED
    BY <2>1, <2>2, <2>3 DEF TickKnows
<1>4. PageSaved(q)'
  <2>1. tick'[q].at \in {"save", "store"} => tick'[q].upto \in 0 .. Len(log')
    BY LenProperties DEF PageSaved, Grows, Types
  <2>2. ASSUME tick'[q].at = "save"
        PROVE  /\ tick'[q].next \in 1 .. tick'[q].upto + 1
               /\ \A i \in 1 .. Len(log') : i < tick'[q].next => Recorded(log[i])'
    <3>1. tick[q].next \in 1 .. tick[q].upto + 1 /\ tick[q].upto \in 0 .. Len(log)
      BY <2>2 DEF PageSaved
    <3>2. \A i \in 1 .. Len(log') : i < tick[q].next => i \in 1 .. Len(log)
      <4>1. Len(log) \in Nat /\ Len(log') \in Nat
        BY LenProperties DEF Types
      <4>2. PICK m \in Nat, n \in Nat, k \in Nat :
               m = Len(log) /\ n = tick[q].next /\ k = tick[q].upto /\ k <= m /\ n <= k + 1
        BY <3>1, <4>1
      <4> QED BY <4>1, <4>2
    <3>3. \A i \in 1 .. Len(log) : i < tick[q].next => Recorded(log[i])
      BY <2>2 DEF PageSaved
    <3>4. \A i \in 1 .. Len(log) : i < tick[q].next => Recorded(log[i])'
      BY <3>3, TracesStay
    <3> QED
      BY <3>1, <3>2, <3>4
  <2>3. ASSUME tick'[q].at = "store"
        PROVE  \A i \in 1 .. Len(log') : i <= tick'[q].upto => Recorded(log[i])'
    <3>1. tick[q].upto \in 0 .. Len(log)
      BY <2>3 DEF PageSaved
    <3>2. \A i \in 1 .. Len(log') : i <= tick[q].upto => i \in 1 .. Len(log)
      <4>1. Len(log) \in Nat /\ Len(log') \in Nat
        BY LenProperties DEF Types
      <4> QED BY <3>1, <4>1
    <3>3. \A i \in 1 .. Len(log) : i <= tick[q].upto => Recorded(log[i])
      BY <2>3 DEF PageSaved
    <3> SUFFICES ASSUME NEW i \in 1 .. Len(log'), i <= tick'[q].upto
                 PROVE  Recorded(log[i])'
      OBVIOUS
    <3>4. Recorded(log[i])
      BY <3>2, <3>3
    <3> QED
      BY <3>2, <3>4, TracesStay
  <2> QED
    BY <2>1, <2>2, <2>3 DEF PageSaved
<1> QED
  BY <1>3, <1>4

\* Cursors that stay behind the same events keep their traces.
LEMMA CursorsStay ==
    ASSUME PipelineInv, Types', Grows, UNCHANGED <<cursor, storedCursor>>
    PROVE  CursorNeverSkips'
<1> SUFFICES ASSUME NEW i \in 1 .. Len(log'), i <= cursor' \/ i <= storedCursor'
             PROVE  Recorded(log[i])'
  BY DEF CursorNeverSkips
<1>1. i \in 1 .. Len(log)
  BY LenProperties DEF PipelineInv, Types
<1>2. Recorded(log[i])
  BY <1>1 DEF PipelineInv, CursorNeverSkips
<1> QED
  BY <1>1, <1>2, TracesStay

\* When one tick moves, the others keep what they know.
LEMMA OneTickMoves ==
    ASSUME PipelineInv, Types', Grows, NEW t \in Ticks,
           \A q \in Ticks \ {t} : tick'[q] = tick[q],
           TickKnows(t)', PageSaved(t)'
    PROVE  TicksKnow' /\ PagesSaved'
<1>1. ASSUME NEW q \in Ticks \ {t}
      PROVE  TickKnows(q)' /\ PageSaved(q)'
  BY OthersKnow DEF PipelineInv, TicksKnow, PagesSaved
<1> QED
  BY <1>1 DEF TicksKnow, PagesSaved

\* A step that only moves a tick, and perhaps gives up a release in flight.
LEMMA QuietStep ==
    ASSUME PipelineInv,
           UNCHANGED <<log, cursor, storedCursor, invalid, swallowed, rows,
                       releasedNonces, releases>>,
           orphans' \in [Unwraps -> Nat],
           \A u \in Unwraps : orphans'[u] > 0 => Logged(u),
           NEW t \in Ticks, NEW new \in TickState,
           tick' = [tick EXCEPT ![t] = new],
           TickKnows(t)', PageSaved(t)'
    PROVE  PipelineInv'
<1>1. tick' \in [Ticks -> TickState] /\ \A q \in Ticks \ {t} : tick'[q] = tick[q]
  BY DEF PipelineInv, Types
<1>2. Types'
  BY <1>1 DEF PipelineInv, Types
<1>3. Grows
  BY LenProperties DEF PipelineInv, Types, Grows
<1>4. TicksKnow' /\ PagesSaved'
  BY <1>1, <1>2, <1>3, OneTickMoves
<1>5. CursorNeverSkips'
  BY <1>2, <1>3, CursorsStay
<1>6. OneRowPerKey' /\ GuardCounts' /\ ReportedPaid'
  BY DEF PipelineInv, OneRowPerKey, GuardCounts, ReportedPaid, Key, GenNonce
<1>7. FromLog'
  BY DEF PipelineInv, FromLog, Logged
<1> QED
  BY <1>2, <1>4, <1>5, <1>6, <1>7 DEF PipelineInv

\* A row that keeps its unwrap and is reported released only if it was.
LEMMA RowRewritten ==
    ASSUME PipelineInv, NEW k \in DOMAIN rows, NEW r \in Row,
           rows' = [rows EXCEPT ![k] = r], r.unwrap = rows[k].unwrap,
           r.released => TxOf[r.unwrap] \in releasedNonces,
           UNCHANGED <<log, releasedNonces, releases, invalid, swallowed, orphans>>
    PROVE  /\ rows' \in Seq(Row)
           /\ DOMAIN rows' = DOMAIN rows
           /\ OneRowPerKey' /\ FromLog' /\ GuardCounts' /\ ReportedPaid'
           /\ Grows
<1>1. rows \in Seq(Row) /\ k \in 1 .. Len(rows)
  BY LenProperties DEF PipelineInv, Types
<1>2. rows' \in Seq(Row) /\ DOMAIN rows' = DOMAIN rows
  BY <1>1, ExceptSeq
<1>3. \A i \in DOMAIN rows : rows'[i].unwrap = rows[i].unwrap
  OBVIOUS
<1>4. OneRowPerKey'
  BY <1>2, <1>3 DEF PipelineInv, OneRowPerKey, Key, GenNonce
<1>5. FromLog'
  BY <1>2, <1>3 DEF PipelineInv, FromLog, Logged
<1>6. GuardCounts'
  BY DEF PipelineInv, GuardCounts
<1>7. ReportedPaid'
  BY <1>2, <1>3 DEF PipelineInv, ReportedPaid
<1>8. Grows
  BY <1>2, <1>3, LenProperties DEF PipelineInv, Types, Grows
<1> QED
  BY <1>2, <1>4, <1>5, <1>6, <1>7, <1>8

\* Going on to the next row leaves the tick knowing nothing of the bridge.
LEMMA NextRowKnows ==
    ASSUME PipelineInv, NEW t \in Ticks, tick[t].todo # {}, NextRow(t),
           DOMAIN rows' = DOMAIN rows
    PROVE  /\ tick' \in [Ticks -> TickState]
           /\ \A q \in Ticks \ {t} : tick'[q] = tick[q]
           /\ TickKnows(t)'
           /\ PageSaved(t)'
<1> DEFINE rest == tick[t].todo \ {Current(t)}
           new == IF rest = {} THEN Idle ELSE [Idle EXCEPT !.at = "check", !.todo = rest]
<1>1. tick' = [tick EXCEPT ![t] = new]
  BY DEF NextRow
<1>2. rest \in SUBSET [id : Nat, attempts : 0 .. MaxAttempts - 1]
  BY DEF PipelineInv, Types, TickState
<1>3. /\ new \in TickState
      /\ new.todo = rest
      /\ new.at = IF rest = {} THEN "idle" ELSE "check"
      /\ new.tx = "none"
  BY <1>2 DEF Idle, TickState
<1>4. tick \in [Ticks -> TickState]
  BY DEF PipelineInv, Types
<1> HIDE DEF new
<1>5. tick' \in [Ticks -> TickState] /\ \A q \in Ticks \ {t} : tick'[q] = tick[q]
  BY <1>1, <1>3, <1>4
<1>6. tick'[t] = new
  BY <1>1, <1>4
<1>7. \A r \in rest : r.id \in DOMAIN rows
  BY DEF PipelineInv, TicksKnow, TickKnows
<1>8. TickKnows(t)'
  BY <1>3, <1>6, <1>7 DEF TickKnows
<1>9. PageSaved(t)'
  BY <1>3, <1>6 DEF PageSaved
<1> QED
  BY <1>5, <1>8, <1>9

\* A step that rewrites the row at hand and goes on to the next.
LEMMA RowDone ==
    ASSUME PipelineInv, NEW t \in Ticks, tick[t].todo # {}, NextRow(t),
           NEW r \in Row, rows' = [rows EXCEPT ![Current(t).id] = r],
           r.unwrap = CurrentUnwrap(t), r.released => CurrentTx(t) \in releasedNonces,
           UNCHANGED <<log, cursor, storedCursor, invalid, swallowed, orphans,
                       releasedNonces, releases>>
    PROVE  PipelineInv'
<1>1. Current(t).id \in DOMAIN rows
  BY CurrentIsARow DEF PipelineInv, TicksKnow
<1>2. /\ rows' \in Seq(Row)
      /\ DOMAIN rows' = DOMAIN rows
      /\ OneRowPerKey' /\ FromLog' /\ GuardCounts' /\ ReportedPaid'
      /\ Grows
  BY <1>1, RowRewritten DEF CurrentTx, CurrentUnwrap
<1>3. /\ tick' \in [Ticks -> TickState]
      /\ \A q \in Ticks \ {t} : tick'[q] = tick[q]
      /\ TickKnows(t)' /\ PageSaved(t)'
  BY <1>2, NextRowKnows
<1>4. Types'
  BY <1>2, <1>3 DEF PipelineInv, Types
<1>5. TicksKnow' /\ PagesSaved'
  BY <1>2, <1>3, <1>4, OneTickMoves
<1>6. CursorNeverSkips'
  BY <1>2, <1>4, CursorsStay
<1> QED
  BY <1>2, <1>4, <1>5, <1>6 DEF PipelineInv

Working == {"check", "submit", "wait", "mark", "markReplay", "fail"}

\* A tick that stays with its row may go where what it knows allows.
LEMMA Relocates ==
    ASSUME PipelineInv, NEW t \in Ticks, tick[t].todo # {}, rows' = rows,
           NEW place \in Working,
           NEW x \in {"none", "pending", "mined", "reverted", "replayed"},
           x # "none" <=> place = "wait",
           (place \in {"mark", "markReplay"} \/ x \in {"mined", "replayed"})
               => CurrentTx(t) \in releasedNonces',
           NEW new, new = [tick[t] EXCEPT !.at = place, !.tx = x],
           tick' = [tick EXCEPT ![t] = new]
    PROVE  new \in TickState /\ TickKnows(t)' /\ PageSaved(t)'
<1>1. tick \in [Ticks -> TickState]
  BY DEF PipelineInv, Types
<1>2. /\ new \in TickState
      /\ new.at = place /\ new.tx = x /\ new.todo = tick[t].todo
  BY <1>1 DEF TickState, Working
<1>3. tick'[t] = new
  BY <1>1
<1>4. CurrentTx(t)' = CurrentTx(t)
  BY <1>2, <1>3 DEF CurrentTx, CurrentUnwrap, Current
<1>5. \A r \in tick[t].todo : r.id \in DOMAIN rows
  BY DEF PipelineInv, TicksKnow, TickKnows
<1>6. TickKnows(t)'
  BY <1>2, <1>3, <1>4, <1>5 DEF TickKnows, Working
<1>7. PageSaved(t)'
  BY <1>2, <1>3 DEF PageSaved, Working
<1> QED
  BY <1>2, <1>6, <1>7

\* The same for Goto, which leaves tx alone.
LEMMA GotoRelocates ==
    ASSUME PipelineInv, NEW t \in Ticks, NEW place, Goto(t, place)
    PROVE  tick' = [tick EXCEPT ![t] = [tick[t] EXCEPT !.at = place, !.tx = tick[t].tx]]
<1>1. tick \in [Ticks -> TickState]
  BY DEF PipelineInv, Types
<1>2. [tick[t] EXCEPT !.at = place] = [tick[t] EXCEPT !.at = place, !.tx = tick[t].tx]
  BY <1>1 DEF TickState
<1> QED
  BY <1>1, <1>2 DEF Goto

\* A step that keeps tick t with its row, rows and releases as they are.
LEMMA QuietGoto ==
    ASSUME PipelineInv,
           UNCHANGED <<log, cursor, storedCursor, invalid, swallowed, rows,
                       releasedNonces, releases>>,
           orphans' \in [Unwraps -> Nat],
           \A u \in Unwraps : orphans'[u] > 0 => Logged(u),
           NEW t \in Ticks, tick[t].todo # {},
           NEW place \in Working,
           NEW x \in {"none", "pending", "mined", "reverted", "replayed"},
           x # "none" <=> place = "wait",
           (place \in {"mark", "markReplay"} \/ x \in {"mined", "replayed"})
               => CurrentTx(t) \in releasedNonces,
           tick' = [tick EXCEPT ![t] = [tick[t] EXCEPT !.at = place, !.tx = x]]
    PROVE  PipelineInv'
<1> DEFINE new == [tick[t] EXCEPT !.at = place, !.tx = x]
<1>1. new \in TickState /\ TickKnows(t)' /\ PageSaved(t)'
  BY Relocates
<1> HIDE DEF new
<1>2. tick' = [tick EXCEPT ![t] = new]
  BY DEF new
<1> QED
  BY <1>1, <1>2, QuietStep

\* One more release in flight that nobody waits for.
LEMMA OrphanLeft ==
    ASSUME PipelineInv, NEW t \in Ticks, tick[t].todo # {},
           orphans' = [orphans EXCEPT ![CurrentUnwrap(t)] = @ + 1]
    PROVE  /\ orphans' \in [Unwraps -> Nat]
           /\ \A u \in Unwraps : orphans'[u] > 0 => Logged(u)
<1>1. CurrentUnwrap(t) \in Unwraps /\ Logged(CurrentUnwrap(t))
  BY CurrentIsARow DEF PipelineInv, TicksKnow
<1>2. orphans \in [Unwraps -> Nat] /\ \A u \in Unwraps : orphans[u] > 0 => Logged(u)
  BY DEF PipelineInv, Types, FromLog
<1> QED
  BY <1>1, <1>2

-----------------------------------------------------------------------------
(* The steps of the releaser.                                              *)

LEMMA InitInv == ASSUME Init PROVE PipelineInv
<1>1. Types
  <2>1. <<>> \in Seq(Unwraps) /\ <<>> \in Seq(Row) /\ Len(<<>>) = 0
    BY EmptySeq
  <2>2. Idle \in TickState
    BY DEF Idle, TickState
  <2> QED
    BY <2>1, <2>2 DEF Init, EscrowInit, Types
<1>2. OneRowPerKey /\ FromLog /\ GuardCounts /\ ReportedPaid
  BY EmptySeq DEF Init, EscrowInit, OneRowPerKey, FromLog, GuardCounts, ReportedPaid
<1>3. TicksKnow /\ PagesSaved
  BY DEF Init, Idle, TicksKnow, TickKnows, PagesSaved, PageSaved
<1>4. CursorNeverSkips
  BY DEF Init, CursorNeverSkips
<1> QED
  BY <1>1, <1>2, <1>3, <1>4 DEF PipelineInv

LEMMA ListReleasesInv ==
    ASSUME PipelineInv, NEW t \in Ticks, ListReleases(t)
    PROVE  PipelineInv'
<1> DEFINE todo == {[id |-> i, attempts |-> rows[i].attempts] : i \in Batch}
           new == IF Batch = {} THEN Idle ELSE [Idle EXCEPT !.at = "check", !.todo = todo]
<1>1. tick' = [tick EXCEPT ![t] = new] /\ tick \in [Ticks -> TickState]
  BY DEF ListReleases, PipelineInv, Types
<1>2. Batch \subseteq DOMAIN rows
  BY DEF Batch, Pending
<1>3. \A i \in DOMAIN rows : i \in Nat /\ rows[i].attempts \in 0 .. MaxAttempts - 1
  <2>1. rows \in Seq(Row) /\ Len(rows) \in Nat /\ DOMAIN rows = 1 .. Len(rows)
    BY LenProperties DEF PipelineInv, Types
  <2>2. \A i \in DOMAIN rows : rows[i] \in Row
    BY <2>1, ElementOfSeq
  <2> QED
    BY <2>1, <2>2 DEF Row
<1>4. todo \in SUBSET [id : Nat, attempts : 0 .. MaxAttempts - 1]
  BY <1>2, <1>3
<1>5. \A r \in todo : r.id \in DOMAIN rows
  BY <1>2
<1>6. Batch # {} => todo # {}
  OBVIOUS
<1> HIDE DEF todo
<1>7. /\ new \in TickState
      /\ new.todo = IF Batch = {} THEN {} ELSE todo
      /\ new.at = IF Batch = {} THEN "idle" ELSE "check"
      /\ new.tx = "none"
  BY <1>4 DEF Idle, TickState
<1> HIDE DEF new
<1>8. tick'[t] = new
  BY <1>1
<1>9. TickKnows(t)'
  <2>1. CASE Batch = {}
    BY <2>1, <1>7, <1>8 DEF TickKnows
  <2>2. CASE Batch # {}
    <3>1. tick'[t].todo = todo /\ tick'[t].at = "check" /\ tick'[t].tx = "none"
      BY <2>2, <1>7, <1>8
    <3>2. rows' = rows
      BY DEF ListReleases
    <3> QED
      BY <2>2, <3>1, <3>2, <1>5, <1>6 DEF TickKnows
  <2> QED
    BY <2>1, <2>2
<1>10. PageSaved(t)'
  BY <1>7, <1>8 DEF PageSaved
<1> QED
  BY <1>1, <1>7, <1>9, <1>10, QuietStep
     DEF ListReleases, watcherVars, escrowVars, PipelineInv, Types, FromLog

LEMMA PreCheckInv ==
    ASSUME PipelineInv, NEW t \in Ticks, PreCheck(t)
    PROVE  PipelineInv'
<1>1. tick[t].todo # {} /\ tick[t].tx = "none"
  BY DEF PipelineInv, TicksKnow, TickKnows, PreCheck, At
<1>2. CASE Attempt(t) > MaxAttempts
  <2> DEFINE r == [rows[Current(t).id] EXCEPT !.status = "failed"]
  <2>1. Current(t).id \in DOMAIN rows /\ rows[Current(t).id] \in Row
    BY <1>1, CurrentIsARow, LenProperties, ElementOfSeq DEF PipelineInv, TicksKnow, Types
  <2>2. /\ r \in Row
        /\ r.unwrap = CurrentUnwrap(t)
        /\ r.released = rows[Current(t).id].released
    BY <2>1 DEF Row, CurrentUnwrap
  <2>3. r.released => CurrentTx(t) \in releasedNonces
    BY <2>1, <2>2 DEF PipelineInv, ReportedPaid, CurrentTx, CurrentUnwrap
  <2>4. rows' = [rows EXCEPT ![Current(t).id] = r]
    BY <1>2 DEF PreCheck
  <2> HIDE DEF r
  <2> QED
    BY <1>1, <1>2, <2>2, <2>3, <2>4, RowDone DEF PreCheck, watcherVars, escrowVars
<1>3. CASE ~(Attempt(t) > MaxAttempts)
  <2>1. PICK place \in {"fail", "mark", "submit"} :
            /\ Goto(t, place)
            /\ place = "mark" => CurrentTx(t) \in releasedNonces
    BY <1>3 DEF PreCheck
  <2>2. tick' = [tick EXCEPT ![t] = [tick[t] EXCEPT !.at = place, !.tx = "none"]]
    BY <1>1, <2>1, GotoRelocates
  <2> QED
    BY <1>1, <1>3, <2>1, <2>2, QuietGoto
       DEF PreCheck, watcherVars, escrowVars, Working, PipelineInv, Types, FromLog
<1> QED
  BY <1>2, <1>3

LEMMA SkipInv ==
    ASSUME PipelineInv, NEW t \in Ticks, Skip(t)
    PROVE  PipelineInv'
<1>1. tick[t].todo # {}
  BY DEF PipelineInv, TicksKnow, TickKnows, Skip, At
<1>2. DOMAIN rows' = DOMAIN rows /\ NextRow(t)
  BY DEF Skip
<1>3. /\ tick' \in [Ticks -> TickState]
      /\ \A q \in Ticks \ {t} : tick'[q] = tick[q]
      /\ TickKnows(t)' /\ PageSaved(t)'
  BY <1>1, <1>2, NextRowKnows
<1> DEFINE new == tick'[t]
<1>4. new \in TickState /\ tick' = [tick EXCEPT ![t] = new]
  BY <1>3 DEF PipelineInv, Types
<1> HIDE DEF new
<1> QED
  BY <1>3, <1>4, QuietStep DEF Skip, watcherVars, escrowVars, PipelineInv, Types, FromLog

LEMMA SubmitInv ==
    ASSUME PipelineInv, NEW t \in Ticks, Submit(t)
    PROVE  PipelineInv'
<1>1. tick[t].todo # {}
  BY DEF PipelineInv, TicksKnow, TickKnows, Submit, At
<1>2. tick' = [tick EXCEPT ![t] = [tick[t] EXCEPT !.at = "wait", !.tx = "pending"]]
  BY DEF Submit
<1> QED
  BY <1>1, <1>2, QuietGoto
     DEF Submit, watcherVars, escrowVars, Working, PipelineInv, Types, FromLog

LEMMA RequestFailsInv ==
    ASSUME PipelineInv, NEW t \in Ticks, RequestFails(t)
    PROVE  PipelineInv'
<1>1. tick[t].todo # {} /\ tick[t].tx = "none"
  BY DEF PipelineInv, TicksKnow, TickKnows, RequestFails, At
<1>2. tick' = [tick EXCEPT ![t] = [tick[t] EXCEPT !.at = "fail", !.tx = "none"]]
  BY <1>1, GotoRelocates DEF RequestFails
<1>3. orphans' \in [Unwraps -> Nat] /\ \A u \in Unwraps : orphans'[u] > 0 => Logged(u)
  BY <1>1, OrphanLeft DEF RequestFails, PipelineInv, Types, FromLog
<1> QED
  BY <1>1, <1>2, <1>3, QuietGoto DEF RequestFails, watcherVars, escrowVars, Working

LEMMA ConfirmInv ==
    ASSUME PipelineInv, NEW t \in Ticks, Confirm(t)
    PROVE  PipelineInv'
<1>1. tick[t].todo # {}
  BY DEF PipelineInv, TicksKnow, TickKnows, Confirm, At
<1>2. PICK place \in {"mark", "fail", "markReplay"} :
          /\ tick' = [tick EXCEPT ![t].at = place, ![t].tx = "none"]
          /\ place # "fail" => tick[t].tx \in {"mined", "replayed"}
  BY DEF Confirm
<1>3. place # "fail" => CurrentTx(t) \in releasedNonces
  BY <1>2 DEF PipelineInv, TicksKnow, TickKnows
<1>4. tick' = [tick EXCEPT ![t] = [tick[t] EXCEPT !.at = place, !.tx = "none"]]
  BY <1>2
<1> QED
  BY <1>1, <1>3, <1>4, QuietGoto
     DEF Confirm, watcherVars, escrowVars, Working, PipelineInv, Types, FromLog

LEMMA WaitFailsInv ==
    ASSUME PipelineInv, NEW t \in Ticks, WaitFails(t)
    PROVE  PipelineInv'
<1>1. tick[t].todo # {}
  BY DEF PipelineInv, TicksKnow, TickKnows, WaitFails, At
<1>2. tick' = [tick EXCEPT ![t] = [tick[t] EXCEPT !.at = "fail", !.tx = "none"]]
  BY DEF WaitFails
<1>3. orphans' \in [Unwraps -> Nat] /\ \A u \in Unwraps : orphans'[u] > 0 => Logged(u)
  BY <1>1, OrphanLeft DEF WaitFails, PipelineInv, Types, FromLog
<1> QED
  BY <1>1, <1>2, <1>3, QuietGoto DEF WaitFails, watcherVars, escrowVars, Working

LEMMA MarkFailsInv ==
    ASSUME PipelineInv, NEW t \in Ticks, MarkFails(t)
    PROVE  PipelineInv'
<1>1. tick[t].todo # {} /\ tick[t].tx = "none"
  BY DEF PipelineInv, TicksKnow, TickKnows, MarkFails, At
<1>2. tick' = [tick EXCEPT ![t] = [tick[t] EXCEPT !.at = "fail", !.tx = "none"]]
  BY <1>1, GotoRelocates DEF MarkFails
<1> QED
  BY <1>1, <1>2, QuietGoto
     DEF MarkFails, watcherVars, escrowVars, Working, PipelineInv, Types, FromLog

LEMMA MarkReleasedInv ==
    ASSUME PipelineInv, NEW t \in Ticks, MarkReleased(t)
    PROVE  PipelineInv'
<1>1. tick[t].todo # {} /\ CurrentTx(t) \in releasedNonces
  BY DEF PipelineInv, TicksKnow, TickKnows, MarkReleased, At
<1> DEFINE r == [rows[Current(t).id] EXCEPT !.status = "released", !.released = TRUE]
<1>2. Current(t).id \in DOMAIN rows /\ rows[Current(t).id] \in Row
  BY <1>1, CurrentIsARow, LenProperties, ElementOfSeq DEF PipelineInv, TicksKnow, Types
<1>3. r \in Row /\ r.unwrap = CurrentUnwrap(t)
  BY <1>2 DEF Row, CurrentUnwrap
<1>4. rows' = [rows EXCEPT ![Current(t).id] = r]
  BY DEF MarkReleased
<1> HIDE DEF r
<1> QED
  BY <1>1, <1>3, <1>4, RowDone DEF MarkReleased, watcherVars, escrowVars

LEMMA RecordFailureInv ==
    ASSUME PipelineInv, NEW t \in Ticks, RecordFailure(t)
    PROVE  PipelineInv'
<1>1. tick[t].todo # {}
  BY DEF PipelineInv, TicksKnow, TickKnows, RecordFailure, At
<1> DEFINE r == IF Attempt(t) >= MaxAttempts
                THEN [rows[Current(t).id] EXCEPT !.status = "failed"]
                ELSE [rows[Current(t).id] EXCEPT !.attempts = Attempt(t)]
<1>2. /\ Current(t).id \in DOMAIN rows /\ rows[Current(t).id] \in Row
      /\ Current(t).attempts \in 0 .. MaxAttempts - 1
  BY <1>1, CurrentIsARow, LenProperties, ElementOfSeq DEF PipelineInv, TicksKnow, Types
<1>3. /\ r \in Row
      /\ r.unwrap = CurrentUnwrap(t)
      /\ r.released = rows[Current(t).id].released
  BY <1>2, PipelineAssumption DEF Row, CurrentUnwrap, Attempt
<1>4. r.released => CurrentTx(t) \in releasedNonces
  BY <1>2, <1>3 DEF PipelineInv, ReportedPaid, CurrentTx, CurrentUnwrap
<1>5. rows' = [rows EXCEPT ![Current(t).id] = r]
  BY DEF RecordFailure
<1> HIDE DEF r
<1> QED
  BY <1>1, <1>3, <1>4, <1>5, RowDone DEF RecordFailure, watcherVars, escrowVars

LEMMA TickFailsInv ==
    ASSUME PipelineInv, NEW t \in Ticks, TickFails(t)
    PROVE  PipelineInv'
<1>1. Idle \in TickState /\ tick \in [Ticks -> TickState]
  BY DEF Idle, TickState, PipelineInv, Types
<1>2. tick' = [tick EXCEPT ![t] = Idle]
  BY DEF TickFails
<1>3. TickKnows(t)' /\ PageSaved(t)'
  BY <1>1, <1>2 DEF TickKnows, PageSaved, Idle
<1> QED
  BY <1>1, <1>2, <1>3, QuietStep
     DEF TickFails, watcherVars, escrowVars, PipelineInv, Types, FromLog

-----------------------------------------------------------------------------
(* The steps of the watcher.                                               *)

LEMMA LesserOfTwo ==
    ASSUME NEW a \in Nat, NEW b \in Nat
    PROVE  Min({a, b}) \in Nat /\ Min({a, b}) <= a /\ Min({a, b}) <= b
           /\ Min({a, b}) \in {a, b}
<1>1. \E x \in {a, b} : \A y \in {a, b} : x =< y
  OBVIOUS
<1>2. Min({a, b}) \in {a, b} /\ \A y \in {a, b} : Min({a, b}) =< y
  BY <1>1 DEF Min
<1> QED
  BY <1>2

LEMMA PollInv ==
    ASSUME PipelineInv, NEW t \in Ticks, Poll(t)
    PROVE  PipelineInv'
<1> DEFINE last == Min({cursor + PageSize, Len(log)})
           new == [Idle EXCEPT !.at = "save", !.next = cursor + 1, !.upto = last]
<1>1. cursor \in 0 .. Len(log) /\ Len(log) \in Nat /\ PageSize \in Nat
  BY LenProperties, PipelineAssumption DEF PipelineInv, Types
<1>2. last \in cursor .. Len(log) /\ last \in Nat /\ cursor + 1 \in Nat
  BY <1>1, LesserOfTwo
<1> HIDE DEF last
<1>3. /\ new \in TickState
      /\ new.at = "save" /\ new.next = cursor + 1 /\ new.upto = last
      /\ new.todo = {} /\ new.tx = "none"
  BY <1>1, <1>2 DEF Idle, TickState
<1>4. tick' = [tick EXCEPT ![t] = new]
  BY DEF Poll, last
<1> HIDE DEF new
<1>5. tick'[t] = new
  BY <1>4 DEF PipelineInv, Types
<1>6. TickKnows(t)'
  BY <1>3, <1>5 DEF TickKnows
<1>7. Grows
  BY <1>1, LenProperties DEF Grows, Poll, watcherVars, escrowVars, PipelineInv, Types
<1>8. \A i \in 1 .. Len(log) : i < cursor + 1 => Recorded(log[i])'
  <2>1. \A i \in 1 .. Len(log) : i < cursor + 1 => Recorded(log[i])
    BY <1>1 DEF PipelineInv, CursorNeverSkips
  <2> QED
    BY <1>7, <2>1, TracesStay
<1>9. PageSaved(t)'
  <2>1. log' = log
    BY DEF Poll
  <2> QED
    BY <1>1, <1>2, <1>3, <1>5, <1>8, <2>1 DEF PageSaved
<1> QED
  BY <1>3, <1>4, <1>6, <1>9, QuietStep
     DEF Poll, watcherVars, escrowVars, PipelineInv, Types, FromLog

\* Saving an unwrap of the log, or failing to, keeps what is said of rows.
LEMMA RowSaved ==
    ASSUME PipelineInv, NEW u \in Unwraps, Logged(u),
           rows' = rows \/ rows' = WithRow(u),
           invalid \subseteq invalid', swallowed \subseteq swallowed',
           UNCHANGED <<log, releasedNonces, releases, orphans>>
    PROVE  /\ rows' \in Seq(Row)
           /\ OneRowPerKey' /\ FromLog' /\ GuardCounts' /\ ReportedPaid'
           /\ Grows
           /\ rows' = WithRow(u) => HasRow(u)'
<1>1. /\ rows \in Seq(Row) /\ Len(rows) \in Nat /\ DOMAIN rows = 1 .. Len(rows)
      /\ log \in Seq(Unwraps) /\ Len(log) \in Nat
  BY LenProperties DEF PipelineInv, Types
<1>2. GuardCounts'
  BY DEF PipelineInv, GuardCounts
<1>3. CASE rows' = rows
  <2>1. OneRowPerKey' /\ FromLog' /\ ReportedPaid'
    BY <1>3 DEF PipelineInv, OneRowPerKey, FromLog, ReportedPaid, Logged, Key, GenNonce
  <2>2. Grows
    BY <1>1, <1>3 DEF Grows
  <2>3. rows' = WithRow(u) => HasRow(u)'
    <3>1. NewRow(u) \in Row
      BY PipelineAssumption DEF NewRow, Row
    <3>2. Len(Append(rows, NewRow(u))) = Len(rows) + 1
      BY <1>1, <3>1
    <3>3. ASSUME WithRow(u) = rows, ~HasRow(u)
          PROVE  FALSE
      <4>1. WithRow(u) = Append(rows, NewRow(u))
        BY <3>3 DEF WithRow
      <4> HIDE DEF HasRow, WithRow
      <4> QED
        BY <1>1, <3>2, <3>3, <4>1
    <3> QED
      BY <1>3, <3>3 DEF HasRow, Key, GenNonce
  <2> QED
    BY <1>1, <1>2, <1>3, <2>1, <2>2, <2>3
<1>4. CASE rows' # rows
  <2>1. rows' = Append(rows, NewRow(u)) /\ ~HasRow(u)
    BY <1>4 DEF WithRow
  <2>2. NewRow(u) \in Row /\ NewRow(u).unwrap = u /\ NewRow(u).released = FALSE
    BY PipelineAssumption DEF NewRow, Row
  <2>3. /\ rows' \in Seq(Row)
        /\ DOMAIN rows' = 1 .. Len(rows) + 1
        /\ \A i \in DOMAIN rows : rows'[i] = rows[i]
        /\ rows'[Len(rows) + 1] = NewRow(u)
    <3>1. Append(rows, NewRow(u)) \in Seq(Row)
      BY <1>1, <2>2
    <3>2. Len(Append(rows, NewRow(u))) = Len(rows) + 1
      BY <1>1, <2>2
    <3>3. /\ \A i \in 1 .. Len(rows) : Append(rows, NewRow(u))[i] = rows[i]
          /\ Append(rows, NewRow(u))[Len(rows) + 1] = NewRow(u)
      BY <1>1, <2>2
    <3> QED
      BY <1>1, <2>1, <3>1, <3>2, <3>3, LenProperties
  <2>4. \A i \in DOMAIN rows : Key(rows[i].unwrap) # Key(u)
    BY <2>1 DEF HasRow
  <2>5. OneRowPerKey'
    <3>1. \A i, j \in DOMAIN rows : Key(rows[i].unwrap) = Key(rows[j].unwrap) => i = j
      BY DEF PipelineInv, OneRowPerKey
    <3>2. \A i \in DOMAIN rows' : i \in DOMAIN rows \/ i = Len(rows) + 1
      BY <1>1, <2>3
    <3>3. \A i, j \in DOMAIN rows' :
              Key(rows'[i].unwrap) = Key(rows'[j].unwrap) => i = j
      BY <2>2, <2>3, <2>4, <3>1, <3>2
    <3> QED
      BY <3>3 DEF OneRowPerKey, Key, GenNonce
  <2>6. FromLog'
    BY <1>1, <2>2, <2>3 DEF PipelineInv, FromLog, Logged
  <2>7. ReportedPaid'
    BY <1>1, <2>2, <2>3 DEF PipelineInv, ReportedPaid
  <2>8. Grows
    BY <1>1, <2>3 DEF Grows
  <2>9. HasRow(u)'
    BY <1>1, <2>2, <2>3 DEF HasRow, Key, GenNonce
  <2> QED
    BY <1>2, <2>3, <2>5, <2>6, <2>7, <2>8, <2>9
<1> QED
  BY <1>3, <1>4

\* Going on to the next event of the page, with a trace of the last.
LEMMA EventDone ==
    ASSUME PipelineInv, NEW t \in Ticks, Saving(t),
           rows' = rows \/ rows' = WithRow(log[tick[t].next]),
           invalid \subseteq invalid', invalid' \subseteq Txs, swallowed \subseteq swallowed',
           rows' = WithRow(log[tick[t].next]) \/ TxOf[log[tick[t].next]] \in invalid'
               \/ log[tick[t].next] \in swallowed',
           tick' = [tick EXCEPT ![t].next = @ + 1],
           UNCHANGED <<log, cursor, storedCursor, releasedNonces, releases, orphans>>
    PROVE  PipelineInv'
<1>1. /\ log \in Seq(Unwraps) /\ Len(log) \in Nat /\ DOMAIN log = 1 .. Len(log)
      /\ tick \in [Ticks -> TickState]
  BY LenProperties DEF PipelineInv, Types
<1>0. PICK n \in Nat : n = tick[t].next
  BY <1>1 DEF TickState
<1>2. /\ tick[t].at = "save" /\ n <= tick[t].upto
      /\ n \in 1 .. tick[t].upto + 1 /\ tick[t].upto \in 0 .. Len(log)
      /\ \A i \in 1 .. Len(log) : i < n => Recorded(log[i])
  BY <1>0 DEF Saving, At, PipelineInv, PagesSaved, PageSaved
<1>3. PICK u \in Unwraps : u = log[n] /\ n \in 1 .. Len(log) /\ Logged(u)
  BY <1>1, <1>2, ElementOfSeq DEF Logged
<1> DEFINE new == [tick[t] EXCEPT !.next = n + 1]
<1>4. /\ rows' \in Seq(Row)
      /\ OneRowPerKey' /\ FromLog' /\ GuardCounts' /\ ReportedPaid'
      /\ Grows
      /\ rows' = WithRow(u) => HasRow(u)'
  BY <1>0, <1>3, RowSaved
<1>5. /\ new \in TickState
      /\ new.at = "save" /\ new.next = n + 1 /\ new.upto = tick[t].upto
      /\ new.todo = tick[t].todo /\ new.tx = tick[t].tx
      /\ tick'[t] = new
  <2>1. tick[t] \in TickState /\ n + 1 \in Nat
    BY <1>0, <1>1
  <2>2. /\ new \in TickState
        /\ new.at = tick[t].at /\ new.next = n + 1 /\ new.upto = tick[t].upto
        /\ new.todo = tick[t].todo /\ new.tx = tick[t].tx
    BY <2>1 DEF TickState
  <2>3. tick'[t] = new
    BY <1>0, <1>1
  <2> QED
    BY <1>2, <2>2, <2>3
<1>6. tick' \in [Ticks -> TickState] /\ \A q \in Ticks \ {t} : tick'[q] = tick[q]
  BY <1>1, <1>5
<1>7. Types'
  BY <1>4, <1>6 DEF PipelineInv, Types
<1>8. TickKnows(t)'
  <2>1. /\ tick[t].at \in {"idle", "save", "store", "list"} <=> tick[t].todo = {}
        /\ tick[t].tx # "none" <=> tick[t].at = "wait"
    BY DEF PipelineInv, TicksKnow, TickKnows
  <2> HIDE DEF new
  <2> QED
    BY <1>2, <1>5, <2>1 DEF TickKnows
<1>9. Recorded(log[n])'
  <2>1. HasRow(u)' \/ TxOf[u] \in invalid' \/ u \in swallowed'
    BY <1>0, <1>3, <1>4
  <2>2. Recorded(u)'
    BY <2>1 DEF Recorded
  <2>3. log'[n] = u
    BY <1>3
  <2> QED
    BY <2>2, <2>3 DEF Recorded, HasRow, Key, GenNonce
<1>10. PageSaved(t)'
  <2>1. \A i \in 1 .. Len(log) : i < n => Recorded(log[i])'
    BY <1>2, <1>4, TracesStay
  <2>2. \A i \in 1 .. Len(log') : i < n + 1 => Recorded(log[i])'
    <3> SUFFICES ASSUME NEW i \in 1 .. Len(log'), i < n + 1
                 PROVE  Recorded(log[i])'
      OBVIOUS
    <3>1. CASE i < n
      BY <2>1, <3>1
    <3>2. CASE i = n
      BY <1>9, <3>2
    <3> QED
      BY <1>0, <1>1, <3>1, <3>2
  <2>3. /\ tick'[t].at = "save" /\ tick'[t].next = n + 1
        /\ tick'[t].upto = tick[t].upto
    BY <1>5
  <2>4. n + 1 \in 1 .. tick[t].upto + 1 /\ tick[t].upto \in 0 .. Len(log')
    BY <1>0, <1>1, <1>2
  <2> HIDE DEF new
  <2> QED
    BY <2>2, <2>3, <2>4 DEF PageSaved
<1>11. TicksKnow' /\ PagesSaved'
  BY <1>4, <1>6, <1>7, <1>8, <1>10, OneTickMoves
<1>12. CursorNeverSkips'
  BY <1>4, <1>7, CursorsStay
<1> QED
  BY <1>4, <1>7, <1>11, <1>12 DEF PipelineInv

\* The event that a tick saves next is an unwrap of the log.
LEMMA EventIsLogged ==
    ASSUME PipelineInv, NEW t \in Ticks, Saving(t)
    PROVE  log[tick[t].next] \in Unwraps /\ TxOf[log[tick[t].next]] \in Txs
<1>1. log \in Seq(Unwraps) /\ Len(log) \in Nat /\ DOMAIN log = 1 .. Len(log)
  BY LenProperties DEF PipelineInv, Types
<1>2. tick[t].next \in 1 .. tick[t].upto + 1 /\ tick[t].upto \in 0 .. Len(log)
  BY DEF Saving, At, PipelineInv, PagesSaved, PageSaved
<1>3. tick[t].next \in 1 .. Len(log)
  BY <1>1, <1>2 DEF Saving
<1>4. log[tick[t].next] \in Unwraps
  BY <1>1, <1>3, ElementOfSeq
<1> QED
  BY <1>4, PipelineAssumption

LEMMA SaveUnwrapInv ==
    ASSUME PipelineInv, NEW t \in Ticks, SaveUnwrap(t)
    PROVE  PipelineInv'
<1>1. Saving(t) /\ TxOf[log[tick[t].next]] \in Txs /\ invalid \subseteq Txs
  BY EventIsLogged DEF SaveUnwrap, PipelineInv, Types
<1>2. /\ rows' = rows \/ rows' = WithRow(log[tick[t].next])
      /\ invalid \subseteq invalid' /\ invalid' \subseteq Txs
      /\ rows' = WithRow(log[tick[t].next]) \/ TxOf[log[tick[t].next]] \in invalid'
  BY <1>1 DEF SaveUnwrap
<1>3. tick' = [tick EXCEPT ![t].next = @ + 1]
  BY DEF SaveUnwrap
<1> QED
  BY <1>1, <1>2, <1>3, EventDone DEF SaveUnwrap, escrowVars

LEMMA SaveUnwrapFailsInv ==
    ASSUME PipelineInv, NEW t \in Ticks, SaveUnwrapFails(t)
    PROVE  PipelineInv'
<1>1. Saving(t) /\ TxOf[log[tick[t].next]] \in Txs /\ invalid \subseteq Txs
  BY EventIsLogged DEF SaveUnwrapFails, PipelineInv, Types
<1>2. /\ rows' = rows \/ rows' = WithRow(log[tick[t].next])
      /\ invalid \subseteq invalid' /\ invalid' \subseteq Txs
      /\ swallowed \subseteq swallowed'
      /\ TxOf[log[tick[t].next]] \in invalid' \/ log[tick[t].next] \in swallowed'
  BY <1>1 DEF SaveUnwrapFails
<1>3. tick' = [tick EXCEPT ![t].next = @ + 1]
  BY DEF SaveUnwrapFails
<1> QED
  BY <1>1, <1>2, <1>3, EventDone DEF SaveUnwrapFails, escrowVars

\* Moving a cursor up to the end of a saved page, and the tick out of it.
LEMMA CursorMoved ==
    ASSUME PipelineInv, NEW t \in Ticks,
           tick[t].upto \in 0 .. Len(log),
           \A i \in 1 .. Len(log) : i <= tick[t].upto => Recorded(log[i]),
           cursor' \in {cursor, tick[t].upto},
           storedCursor' \in {storedCursor, tick[t].upto},
           UNCHANGED <<log, rows, invalid, swallowed, orphans, releasedNonces, releases>>,
           NEW new \in TickState, tick' = [tick EXCEPT ![t] = new],
           new.todo = {}, new.tx = "none",
           new.at = "list" \/ (new.at = "store" /\ new.upto = tick[t].upto)
    PROVE  PipelineInv'
<1>1. Len(log) \in Nat /\ tick \in [Ticks -> TickState]
  BY LenProperties DEF PipelineInv, Types
<1>2. /\ tick' \in [Ticks -> TickState] /\ \A q \in Ticks \ {t} : tick'[q] = tick[q]
      /\ tick'[t] = new
  BY <1>1
<1>3. Types'
  BY <1>2 DEF PipelineInv, Types
<1>4. Grows
  BY LenProperties DEF PipelineInv, Types, Grows
<1>5. \A i \in 1 .. Len(log) : i <= tick[t].upto => Recorded(log[i])'
  BY <1>4, TracesStay
<1>6. TickKnows(t)'
  BY <1>2 DEF TickKnows
<1>7. PageSaved(t)'
  BY <1>1, <1>2, <1>5 DEF PageSaved
<1>8. TicksKnow' /\ PagesSaved'
  BY <1>2, <1>3, <1>4, <1>6, <1>7, OneTickMoves
<1>9. CursorNeverSkips'
  <2>1. \A i \in 1 .. Len(log) : i <= cursor \/ i <= storedCursor => Recorded(log[i])'
    BY <1>4, TracesStay DEF PipelineInv, CursorNeverSkips
  <2> QED
    BY <1>5, <2>1 DEF CursorNeverSkips
<1>10. OneRowPerKey' /\ GuardCounts' /\ ReportedPaid'
  BY DEF PipelineInv, OneRowPerKey, GuardCounts, ReportedPaid, Key, GenNonce
<1>11. FromLog'
  BY DEF PipelineInv, FromLog, Logged
<1> QED
  BY <1>3, <1>8, <1>9, <1>10, <1>11 DEF PipelineInv

LEMMA AdvanceCursorInv ==
    ASSUME PipelineInv, NEW t \in Ticks, AdvanceCursor(t)
    PROVE  PipelineInv'
<1>1. /\ tick[t].upto \in 0 .. Len(log) /\ Len(log) \in Nat
      /\ tick[t].next \in 1 .. tick[t].upto + 1 /\ tick[t].next > tick[t].upto
      /\ \A i \in 1 .. Len(log) : i < tick[t].next => Recorded(log[i])
  BY LenProperties
     DEF AdvanceCursor, At, PipelineInv, Types, PagesSaved, PageSaved
<1>2. \A i \in 1 .. Len(log) : i <= tick[t].upto => Recorded(log[i])
  BY <1>1
<1>3. tick \in [Ticks -> TickState] /\ tick[t].todo = {} /\ tick[t].tx = "none"
  BY DEF AdvanceCursor, At, PipelineInv, Types, TicksKnow, TickKnows
<1>4. CASE Goto(t, "store")
  <2> DEFINE new == [tick[t] EXCEPT !.at = "store"]
  <2>1. tick' = [tick EXCEPT ![t] = new]
    BY <1>4 DEF Goto
  <2>2. tick[t] \in TickState
    BY <1>3
  <2>3. /\ new \in TickState /\ new.at = "store" /\ new.upto = tick[t].upto
        /\ new.todo = tick[t].todo /\ new.tx = tick[t].tx
    BY <2>2 DEF TickState
  <2> HIDE DEF new
  <2> QED
    BY <1>1, <1>2, <1>3, <2>1, <2>3, CursorMoved DEF AdvanceCursor, escrowVars
<1>5. CASE PageDone(t)
  <2> DEFINE new == [Idle EXCEPT !.at = "list"]
  <2>1. tick' = [tick EXCEPT ![t] = new]
    BY <1>5 DEF PageDone
  <2>2. /\ new \in TickState /\ new.at = "list" /\ new.todo = {} /\ new.tx = "none"
    BY DEF Idle, TickState
  <2> HIDE DEF new
  <2> QED
    BY <1>1, <1>2, <2>1, <2>2, CursorMoved DEF AdvanceCursor, escrowVars
<1> QED
  BY <1>4, <1>5 DEF AdvanceCursor

LEMMA StoreCursorInv ==
    ASSUME PipelineInv, NEW t \in Ticks, StoreCursor(t)
    PROVE  PipelineInv'
<1>1. /\ tick[t].upto \in 0 .. Len(log)
      /\ \A i \in 1 .. Len(log) : i <= tick[t].upto => Recorded(log[i])
  BY DEF StoreCursor, At, PipelineInv, PagesSaved, PageSaved
<1> DEFINE new == [Idle EXCEPT !.at = "list"]
<1>2. tick' = [tick EXCEPT ![t] = new]
  BY DEF StoreCursor, PageDone
<1>3. /\ new \in TickState /\ new.at = "list" /\ new.todo = {} /\ new.tx = "none"
  BY DEF Idle, TickState
<1> HIDE DEF new
<1> QED
  BY <1>1, <1>2, <1>3, CursorMoved DEF StoreCursor, escrowVars

-----------------------------------------------------------------------------
(* The chains, the owner and a crash.                                      *)

\* A step of the chains that no tick takes part in: the log and the releases
\* may grow.
LEMMA ChainsMove ==
    ASSUME PipelineInv, Grows, GuardCounts',
           log' \in Seq(Unwraps), releases' \in [Txs -> Nat],
           orphans' \in [Unwraps -> Nat],
           \A u \in Unwraps : orphans'[u] > 0 => orphans[u] > 0,
           UNCHANGED <<cursor, storedCursor, rows, invalid, swallowed, tick>>
    PROVE  PipelineInv'
<1>1. Len(log) \in Nat /\ Len(log') \in Nat /\ Len(log) <= Len(log')
  BY LenProperties DEF PipelineInv, Types, Grows
<1>2. Types'
  BY <1>1 DEF PipelineInv, Types
<1>3. TicksKnow' /\ PagesSaved'
  BY <1>2, OthersKnow DEF PipelineInv, TicksKnow, PagesSaved
<1>4. CursorNeverSkips'
  BY <1>2, CursorsStay
<1>5. OneRowPerKey'
  BY DEF PipelineInv, OneRowPerKey, Key, GenNonce
<1>6. ReportedPaid'
  BY DEF PipelineInv, ReportedPaid, Grows
<1>7. ASSUME NEW u, Logged(u)
      PROVE  Logged(u)'
  <2>1. DOMAIN log = 1 .. Len(log) /\ DOMAIN log' = 1 .. Len(log')
    BY LenProperties DEF PipelineInv, Types
  <2> QED
    BY <1>1, <1>7, <2>1 DEF Logged, Grows
<1>8. FromLog'
  <2>1. \A i \in DOMAIN rows' : Logged(rows[i].unwrap)'
    <3> SUFFICES ASSUME NEW i \in DOMAIN rows
                 PROVE  Logged(rows[i].unwrap)'
      OBVIOUS
    <3>1. PICK u : u = rows[i].unwrap
      OBVIOUS
    <3>2. Logged(u)'
      BY <3>1, <1>7 DEF PipelineInv, FromLog
    <3> QED
      BY <3>1, <3>2 DEF Logged
  <2>2. \A u \in Unwraps : orphans'[u] > 0 => Logged(u)'
    BY <1>7 DEF PipelineInv, FromLog
  <2> QED
    BY <2>1, <2>2 DEF FromLog
<1> QED
  BY <1>2, <1>3, <1>4, <1>5, <1>6, <1>8 DEF PipelineInv

\* A release sets the guard of its transaction and counts once.
LEMMA ReleaseCounts ==
    ASSUME PipelineInv, NEW amount, NEW tx \in Txs, NEW signers,
           Release(amount, tx, signers)
    PROVE  /\ tx \notin releasedNonces
           /\ releasedNonces' = releasedNonces \union {tx}
           /\ releases' = [releases EXCEPT ![tx] = 1] /\ releases[tx] = 0
           /\ releases' \in [Txs -> Nat]
           /\ GuardCounts'
<1>1. /\ tx \notin releasedNonces
      /\ releasedNonces' = releasedNonces \union {tx}
      /\ releases' = [releases EXCEPT ![tx] = @ + 1]
  BY DEF Release, Releasable
<1>2. releases \in [Txs -> Nat]
  BY DEF PipelineInv, Types
<1>3. releases[tx] = 0
  BY <1>1 DEF PipelineInv, GuardCounts
<1>4. releases' = [releases EXCEPT ![tx] = 1] /\ releases' \in [Txs -> Nat]
  BY <1>1, <1>2, <1>3
<1>5. GuardCounts'
  BY <1>1, <1>2, <1>4 DEF PipelineInv, GuardCounts
<1> QED
  BY <1>1, <1>3, <1>4, <1>5

LEMMA UnwrapInv ==
    ASSUME PipelineInv, NEW u \in Unwraps, Unwrap(u)
    PROVE  PipelineInv'
<1>1. log \in Seq(Unwraps) /\ log' = Append(log, u)
  BY DEF Unwrap, PipelineInv, Types
<1>2. /\ log' \in Seq(Unwraps) /\ Len(log') = Len(log) + 1 /\ Len(log) \in Nat
      /\ \A i \in 1 .. Len(log) : log'[i] = log[i]
  BY <1>1, LenProperties
<1>3. Grows
  BY <1>2 DEF Grows, Unwrap, relayerVars, watcherVars, escrowVars
<1>4. GuardCounts'
  BY DEF PipelineInv, GuardCounts, Unwrap, escrowVars
<1> QED
  BY <1>2, <1>3, <1>4, ChainsMove
     DEF Unwrap, relayerVars, watcherVars, escrowVars, PipelineInv, Types

\* Deposits and the owner touch neither the guard nor the releases.
LEMMA BridgeElsewhere ==
    ASSUME Depositor \/ Owner
    PROVE  UNCHANGED <<releasedNonces, releases>>
  BY DEF Depositor, Lock, Burn, Owner, SetTokenConfig, SetAttesters, SetPaused,
         WithdrawStuck

LEMMA BridgeElsewhereInv ==
    ASSUME PipelineInv, Deposit \/ OwnerActs
    PROVE  PipelineInv'
<1>1. UNCHANGED <<releasedNonces, releases>> /\ UNCHANGED <<log, relayerVars>>
  BY BridgeElsewhere DEF Deposit, OwnerActs, relayerVars
<1>2. /\ log' = log /\ releasedNonces' = releasedNonces /\ releases' = releases
      /\ UNCHANGED <<cursor, storedCursor, rows, invalid, swallowed, tick, orphans>>
  BY <1>1 DEF relayerVars, watcherVars
<1>3. Grows
  BY <1>2, LenProperties DEF Grows, PipelineInv, Types
<1>4. GuardCounts'
  BY <1>2 DEF PipelineInv, GuardCounts
<1> QED
  BY <1>2, <1>3, <1>4, ChainsMove DEF PipelineInv, Types

LEMMA MineOrphanInv ==
    ASSUME PipelineInv, NEW u \in Unwraps, MineOrphan(u)
    PROVE  PipelineInv'
<1>1. TxOf[u] \in Txs
  BY PipelineAssumption
<1>2. orphans' \in [Unwraps -> Nat] /\ \A w \in Unwraps : orphans'[w] > 0 => orphans[w] > 0
  BY DEF MineOrphan, PipelineInv, Types
<1>3. GuardCounts' /\ releases' \in [Txs -> Nat] /\ releasedNonces \subseteq releasedNonces'
  <2>1. CASE Release(AmountOf[u], TxOf[u], RelayerKeys)
    BY <1>1, <2>1, ReleaseCounts
  <2>2. CASE UNCHANGED escrowVars
    BY <2>2 DEF escrowVars, PipelineInv, Types, GuardCounts
  <2> QED
    BY <2>1, <2>2 DEF MineOrphan
<1>4. Grows
  BY <1>3, LenProperties DEF Grows, MineOrphan, watcherVars, PipelineInv, Types
<1> QED
  BY <1>2, <1>3, <1>4, ChainsMove DEF MineOrphan, watcherVars, PipelineInv, Types

LEMMA MineAwaitedInv ==
    ASSUME PipelineInv, NEW t \in Ticks, MineAwaited(t)
    PROVE  PipelineInv'
<1>1. tick[t].todo # {} /\ tick[t].at = "wait"
  BY DEF PipelineInv, TicksKnow, TickKnows, MineAwaited
<1>2. CurrentTx(t) \in Txs
  BY <1>1, CurrentIsARow DEF PipelineInv, TicksKnow
<1>3. PICK x \in {"mined", "replayed", "reverted"} :
          /\ tick' = [tick EXCEPT ![t].tx = x]
          /\ x \in {"mined", "replayed"} => CurrentTx(t) \in releasedNonces'
          /\ GuardCounts' /\ releases' \in [Txs -> Nat]
          /\ releasedNonces \subseteq releasedNonces'
  <2>1. CASE /\ Release(AmountOf[CurrentUnwrap(t)], CurrentTx(t), RelayerKeys)
             /\ tick' = [tick EXCEPT ![t].tx = "mined"]
    <3>1. /\ releasedNonces' = releasedNonces \union {CurrentTx(t)}
          /\ GuardCounts' /\ releases' \in [Txs -> Nat]
      BY <1>2, <2>1, ReleaseCounts
    <3> QED
      BY <2>1, <3>1
  <2>2. CASE /\ tick' = [tick EXCEPT ![t].tx =
                          IF ~paused /\ CurrentTx(t) \in releasedNonces
                          THEN "replayed" ELSE "reverted"]
             /\ UNCHANGED escrowVars
    <3>1. /\ releasedNonces' = releasedNonces
          /\ GuardCounts' /\ releases' \in [Txs -> Nat]
      BY <2>2 DEF escrowVars, PipelineInv, Types, GuardCounts
    <3>2. CASE ~paused /\ CurrentTx(t) \in releasedNonces
      BY <2>2, <3>1, <3>2
    <3>3. CASE ~(~paused /\ CurrentTx(t) \in releasedNonces)
      BY <2>2, <3>1, <3>3
    <3> QED
      BY <3>2, <3>3
  <2> QED
    BY <2>1, <2>2 DEF MineAwaited
<1>4. UNCHANGED <<log, cursor, storedCursor, invalid, swallowed, rows, orphans>>
  BY DEF MineAwaited, watcherVars
<1> DEFINE new == [tick[t] EXCEPT !.at = "wait", !.tx = x]
<1>5. tick \in [Ticks -> TickState]
  BY DEF PipelineInv, Types
<1>6. tick' = [tick EXCEPT ![t] = new]
  <2>1. [tick[t] EXCEPT !.tx = x] = new
    BY <1>1, <1>5 DEF TickState
  <2> QED
    BY <1>3, <1>5, <2>1
<1>7. new \in TickState /\ TickKnows(t)' /\ PageSaved(t)'
  <2>1. "wait" \in Working /\ x \in {"none", "pending", "mined", "reverted", "replayed"}
    BY <1>3 DEF Working
  <2> QED
    BY <1>1, <1>3, <1>4, <1>6, <2>1, Relocates
<1> HIDE DEF new
<1>8. tick' \in [Ticks -> TickState] /\ \A q \in Ticks \ {t} : tick'[q] = tick[q]
  BY <1>5, <1>6, <1>7
<1>9. Types'
  BY <1>3, <1>4, <1>8 DEF PipelineInv, Types
<1>10. Grows
  BY <1>3, <1>4, LenProperties DEF Grows, PipelineInv, Types
<1>11. TicksKnow' /\ PagesSaved'
  BY <1>7, <1>8, <1>9, <1>10, OneTickMoves
<1>12. CursorNeverSkips'
  BY <1>4, <1>9, <1>10, CursorsStay
<1>13. OneRowPerKey' /\ ReportedPaid' /\ FromLog'
  BY <1>3, <1>4
     DEF PipelineInv, OneRowPerKey, ReportedPaid, FromLog, Logged, Key, GenNonce
<1> QED
  BY <1>3, <1>9, <1>11, <1>12, <1>13 DEF PipelineInv

\* A crash leaves the releases that were waited for in flight.
LEMMA CrashInv == ASSUME PipelineInv, Crash PROVE PipelineInv'
<1> DEFINE lost(u) == {t \in Ticks : tick[t].tx = "pending" /\ CurrentUnwrap(t) = u}
<1>1. /\ UNCHANGED <<releasedNonces, releases, log, storedCursor, invalid, swallowed, rows>>
      /\ cursor' = storedCursor
      /\ tick' = [t \in Ticks |-> Idle]
      /\ orphans' = [u \in Unwraps |-> orphans[u] + Cardinality(lost(u))]
  BY DEF Crash, escrowVars
<1>2. \A u \in Unwraps : Cardinality(lost(u)) \in Nat
  <2> SUFFICES ASSUME NEW u \in Unwraps
               PROVE  Cardinality(lost(u)) \in Nat
    OBVIOUS
  <2>1. IsFiniteSet(lost(u))
    BY FS_Subset, PipelineAssumption
  <2> QED
    BY <2>1, FS_CardinalityType
<1>3. \A u \in Unwraps : Cardinality(lost(u)) > 0 => Logged(u)
  <2> SUFFICES ASSUME NEW u \in Unwraps, Cardinality(lost(u)) > 0
               PROVE  Logged(u)
    OBVIOUS
  <2>1. lost(u) # {}
    <3>1. Cardinality({}) = 0
      BY FS_EmptySet
    <3> HIDE DEF lost
    <3> QED BY <3>1
  <2>2. PICK t \in Ticks : tick[t].tx = "pending" /\ CurrentUnwrap(t) = u
    BY <2>1
  <2>3. TickKnows(t) /\ tick[t].todo # {}
    BY <2>2 DEF PipelineInv, TicksKnow, TickKnows
  <2> QED
    BY <2>2, <2>3, CurrentIsARow DEF PipelineInv
<1> HIDE DEF lost
<1>4. orphans' \in [Unwraps -> Nat] /\ \A u \in Unwraps : orphans'[u] > 0 => Logged(u)
  <2>1. orphans \in [Unwraps -> Nat] /\ \A u \in Unwraps : orphans[u] > 0 => Logged(u)
    BY DEF PipelineInv, Types, FromLog
  <2> QED
    BY <1>1, <1>2, <1>3, <2>1
<1>5. Types'
  <2>1. Idle \in TickState
    BY DEF Idle, TickState
  <2> QED
    BY <1>1, <1>4, <2>1 DEF PipelineInv, Types
<1>6. OneRowPerKey' /\ GuardCounts' /\ ReportedPaid'
  BY <1>1 DEF PipelineInv, OneRowPerKey, GuardCounts, ReportedPaid, Key, GenNonce
<1>7. FromLog'
  BY <1>1, <1>4 DEF PipelineInv, FromLog, Logged
<1>8. TicksKnow' /\ PagesSaved'
  BY <1>1 DEF TicksKnow, TickKnows, PagesSaved, PageSaved, Idle
<1>9. CursorNeverSkips'
  BY <1>1 DEF PipelineInv, CursorNeverSkips, Recorded, HasRow, Key, GenNonce
<1> QED
  BY <1>5, <1>6, <1>7, <1>8, <1>9 DEF PipelineInv

LEMMA StutterInv == ASSUME PipelineInv, UNCHANGED vars PROVE PipelineInv'
<1>1. UNCHANGED <<log, cursor, storedCursor, rows, invalid, swallowed, tick, orphans,
                  releasedNonces, releases>>
  BY DEF vars, relayerVars, watcherVars, escrowVars
<1>2. Grows
  BY <1>1, LenProperties DEF Grows, PipelineInv, Types
<1>3. GuardCounts'
  BY <1>1 DEF PipelineInv, GuardCounts
<1> QED
  BY <1>1, <1>2, <1>3, ChainsMove DEF PipelineInv, Types

LEMMA NextInv == ASSUME PipelineInv, [Next]_vars PROVE PipelineInv'
<1>1. ASSUME NEW u \in Unwraps, Unwrap(u) \/ MineOrphan(u)
      PROVE  PipelineInv'
  BY <1>1, UnwrapInv, MineOrphanInv
<1>2. CASE Deposit \/ OwnerActs
  BY <1>2, BridgeElsewhereInv
<1>3. ASSUME NEW t \in Ticks, TickStep(t)
      PROVE  PipelineInv'
  BY <1>3, PollInv, SaveUnwrapInv, AdvanceCursorInv, StoreCursorInv, ListReleasesInv,
     SkipInv, PreCheckInv, SubmitInv, MineAwaitedInv, ConfirmInv, MarkReleasedInv,
     RecordFailureInv
     DEF TickStep
<1>4. ASSUME NEW t \in Ticks, TickFault(t)
      PROVE  PipelineInv'
  BY <1>4, SaveUnwrapFailsInv, RequestFailsInv, WaitFailsInv, MarkFailsInv, TickFailsInv
     DEF TickFault
<1>5. CASE Crash
  BY <1>5, CrashInv
<1>6. CASE UNCHANGED vars
  BY <1>6, StutterInv
<1> QED
  BY <1>1, <1>2, <1>3, <1>4, <1>5, <1>6 DEF Next

-----------------------------------------------------------------------------
(* Theorems.                                                               *)

\* The inductive invariant of the relayer and the bridge holds for ever.
THEOREM PipelineInvariant == Spec => []PipelineInv
<1>1. Init => PipelineInv
  BY InitInv
<1>2. PipelineInv /\ [Next]_vars => PipelineInv'
  BY NextInv
<1> QED
  BY <1>1, <1>2, PTL DEF Spec

\* Types, one row to a key, and each tick in a place that fits what it holds.
THEOREM PipelineTypes == Spec => []PipelineTypeOK
<1>1. PipelineInv => PipelineTypeOK
  BY DEF PipelineInv, PipelineTypeOK, Types, OneRowPerKey, TicksKnow, TickKnows
<1> QED
  BY <1>1, PipelineInvariant, PTL

\* pollOnce leaves a trace of each unwrap before either cursor, whatever
\* fails, overlaps or crashes.
THEOREM CursorSafety == Spec => []CursorNeverSkips
<1>1. PipelineInv => CursorNeverSkips
  BY DEF PipelineInv
<1> QED
  BY <1>1, PipelineInvariant, PTL

\* A step that rewrites a row keeps it closed, or closes it.
LEMMA RewriteKeepsClosed ==
    ASSUME PipelineInv, NEW k \in DOMAIN rows, NEW r \in Row,
           rows' = [rows EXCEPT ![k] = r], r.unwrap = rows[k].unwrap,
           rows[k].status # "pending" => r.status # "pending",
           rows[k].released => r.released
    PROVE  \A i \in DOMAIN rows :
              /\ i \in DOMAIN rows'
              /\ rows'[i].unwrap = rows[i].unwrap
              /\ rows[i].status # "pending" => rows'[i].status # "pending"
              /\ rows[i].released => rows'[i].released
  OBVIOUS

\* The row at hand, for the steps that write it.
LEMMA CurrentRow ==
    ASSUME PipelineInv, NEW t \in Ticks, tick[t].todo # {}
    PROVE  /\ Current(t).id \in DOMAIN rows
           /\ rows[Current(t).id] \in Row
           /\ Current(t).attempts \in 0 .. MaxAttempts - 1
  BY CurrentIsARow, LenProperties, ElementOfSeq DEF PipelineInv, TicksKnow, Types

\* Saving never rewrites a row: a row once made is left alone.
LEMMA SavingKeepsClosed ==
    ASSUME PipelineInv, NEW u \in Unwraps, rows' \in {rows, WithRow(u)}
    PROVE  \A i \in DOMAIN rows : i \in DOMAIN rows' /\ rows'[i] = rows[i]
<1>1. rows \in Seq(Row) /\ Len(rows) \in Nat /\ DOMAIN rows = 1 .. Len(rows)
  BY LenProperties DEF PipelineInv, Types
<1>2. NewRow(u) \in Row
  BY PipelineAssumption DEF NewRow, Row
<1>3. /\ Append(rows, NewRow(u)) \in Seq(Row)
      /\ Len(Append(rows, NewRow(u))) = Len(rows) + 1
      /\ \A i \in 1 .. Len(rows) : Append(rows, NewRow(u))[i] = rows[i]
  BY <1>1, <1>2
<1>4. rows' = rows \/ rows' = Append(rows, NewRow(u))
  BY DEF WithRow
<1>5. CASE rows' = rows
  BY <1>5
<1>6. CASE rows' = Append(rows, NewRow(u))
  <2>1. DOMAIN rows' = 1 .. Len(rows) + 1
    BY <1>3, <1>6, LenProperties
  <2>2. \A i \in 1 .. Len(rows) : rows'[i] = rows[i]
    BY <1>3, <1>6
  <2>3. \A i \in 1 .. Len(rows) : i \in 1 .. Len(rows) + 1
    BY <1>1
  <2> QED
    BY <1>1, <2>1, <2>2, <2>3
<1> QED
  BY <1>4, <1>5, <1>6

\* What RowsNeverReopen says of one step.
KeepsClosed ==
    \A i \in DOMAIN rows :
        /\ i \in DOMAIN rows'
        /\ rows'[i].unwrap = rows[i].unwrap
        /\ rows[i].status # "pending" => rows'[i].status # "pending"
        /\ rows[i].released => rows'[i].released

LEMMA NextKeepsClosed == ASSUME PipelineInv, [Next]_vars PROVE KeepsClosed
<1>1. CASE rows' = rows
  BY <1>1 DEF KeepsClosed
<1>2. ASSUME NEW t \in Ticks, SaveUnwrap(t) \/ SaveUnwrapFails(t)
      PROVE  KeepsClosed
  <2>1. PICK u \in Unwraps : rows' \in {rows, WithRow(u)}
    BY <1>2, EventIsLogged DEF SaveUnwrap, SaveUnwrapFails
  <2> QED
    BY <2>1, SavingKeepsClosed DEF KeepsClosed
<1>3. ASSUME NEW t \in Ticks, PreCheck(t), Attempt(t) > MaxAttempts
      PROVE  KeepsClosed
  <2> DEFINE r == [rows[Current(t).id] EXCEPT !.status = "failed"]
  <2>1. tick[t].todo # {}
    BY <1>3 DEF PreCheck, At, PipelineInv, TicksKnow, TickKnows
  <2>2. Current(t).id \in DOMAIN rows /\ rows[Current(t).id] \in Row
    BY <2>1, CurrentRow
  <2>3. /\ r \in Row /\ r.unwrap = rows[Current(t).id].unwrap
        /\ r.status = "failed" /\ r.released = rows[Current(t).id].released
    BY <2>2 DEF Row
  <2>4. rows' = [rows EXCEPT ![Current(t).id] = r]
    BY <1>3 DEF PreCheck
  <2> HIDE DEF r
  <2> QED
    BY <2>2, <2>3, <2>4, RewriteKeepsClosed DEF KeepsClosed
<1>4. ASSUME NEW t \in Ticks, MarkReleased(t)
      PROVE  KeepsClosed
  <2> DEFINE r == [rows[Current(t).id] EXCEPT !.status = "released", !.released = TRUE]
  <2>1. tick[t].todo # {}
    BY <1>4 DEF MarkReleased, At, PipelineInv, TicksKnow, TickKnows
  <2>2. Current(t).id \in DOMAIN rows /\ rows[Current(t).id] \in Row
    BY <2>1, CurrentRow
  <2>3. /\ r \in Row /\ r.unwrap = rows[Current(t).id].unwrap
        /\ r.status = "released" /\ r.released = TRUE
    BY <2>2 DEF Row
  <2>4. rows' = [rows EXCEPT ![Current(t).id] = r]
    BY <1>4 DEF MarkReleased
  <2> HIDE DEF r
  <2> QED
    BY <2>2, <2>3, <2>4, RewriteKeepsClosed DEF KeepsClosed
<1>5. ASSUME NEW t \in Ticks, RecordFailure(t)
      PROVE  KeepsClosed
  <2> DEFINE r == IF Attempt(t) >= MaxAttempts
                  THEN [rows[Current(t).id] EXCEPT !.status = "failed"]
                  ELSE [rows[Current(t).id] EXCEPT !.attempts = Attempt(t)]
  <2>1. tick[t].todo # {}
    BY <1>5 DEF RecordFailure, At, PipelineInv, TicksKnow, TickKnows
  <2>2. /\ Current(t).id \in DOMAIN rows /\ rows[Current(t).id] \in Row
        /\ Current(t).attempts \in 0 .. MaxAttempts - 1
    BY <2>1, CurrentRow
  <2>3. /\ r \in Row /\ r.unwrap = rows[Current(t).id].unwrap
        /\ r.status \in {"failed", rows[Current(t).id].status}
        /\ r.released = rows[Current(t).id].released
    BY <2>2, PipelineAssumption DEF Row, Attempt
  <2>4. rows' = [rows EXCEPT ![Current(t).id] = r]
    BY <1>5 DEF RecordFailure
  <2> HIDE DEF r
  <2> QED
    BY <2>2, <2>3, <2>4, RewriteKeepsClosed DEF KeepsClosed
<1>6. \/ rows' = rows
      \/ \E t \in Ticks : \/ SaveUnwrap(t) \/ SaveUnwrapFails(t)
                          \/ PreCheck(t) /\ Attempt(t) > MaxAttempts
                          \/ MarkReleased(t) \/ RecordFailure(t)
  BY DEF Next, vars, relayerVars, Unwrap, MineOrphan, Deposit, OwnerActs, Crash,
         TickStep, TickFault, Poll, AdvanceCursor, StoreCursor, ListReleases, Skip, PreCheck,
         Submit, MineAwaited, Confirm, RequestFails, WaitFails, MarkFails, TickFails
<1> QED
  BY <1>1, <1>2, <1>3, <1>4, <1>5, <1>6

\* saveUnwrap and the writes of the releaser, by ticks that overlap in any
\* way, never put a closed row back into the queue.
THEOREM RowsStayDone == Spec => RowsNeverReopen
<1>1. PipelineInv /\ [Next]_vars => [KeepsClosed]_vars
  BY NextKeepsClosed
<1> QED
  BY <1>1, PipelineInvariant, PTL DEF Spec, RowsNeverReopen, KeepsClosed

-----------------------------------------------------------------------------
(* The pipeline implements UnwrapSettlement.                               *)

Requested == {TxOf[log[i]] : i \in DOMAIN log}
Reported == {TxOf[rows[i].unwrap] : i \in {j \in DOMAIN rows : rows[j].released}}

\* What a step of the pipeline may do to the abstract state.
Settles(x) ==
    /\ x \in Requested /\ releases[x] = 0
    /\ releases' = [releases EXCEPT ![x] = 1]
    /\ Requested' = Requested /\ Reported' = Reported

Reports(x) ==
    /\ releases[x] = 1
    /\ Reported' = Reported \union {x}
    /\ Requested' = Requested /\ releases' = releases

Requests(x) ==
    /\ Requested' = Requested \union {x}
    /\ Reported' = Reported /\ releases' = releases

Maps ==
    \/ \E x \in Txs : Requests(x) \/ Settles(x) \/ Reports(x)
    \/ Requested' = Requested /\ Reported' = Reported /\ releases' = releases

\* Rows that keep their unwrap and their mark report the same.
LEMMA SameReported ==
    ASSUME DOMAIN rows' = DOMAIN rows,
           \A i \in DOMAIN rows : /\ rows'[i].unwrap = rows[i].unwrap
                                  /\ rows'[i].released = rows[i].released
    PROVE  Reported' = Reported
  BY DEF Reported

\* A new row is not reported.
LEMMA SavingReportsNothing ==
    ASSUME PipelineInv, NEW u \in Unwraps, rows' \in {rows, WithRow(u)}
    PROVE  Reported' = Reported
<1>1. rows \in Seq(Row) /\ Len(rows) \in Nat /\ DOMAIN rows = 1 .. Len(rows)
  BY LenProperties DEF PipelineInv, Types
<1>2. NewRow(u) \in Row /\ NewRow(u).released = FALSE
  BY PipelineAssumption DEF NewRow, Row
<1>3. CASE rows' = rows
  BY <1>3 DEF Reported
<1>4. CASE rows' = Append(rows, NewRow(u))
  <2>1. /\ Append(rows, NewRow(u)) \in Seq(Row)
        /\ Len(Append(rows, NewRow(u))) = Len(rows) + 1
        /\ \A i \in 1 .. Len(rows) : Append(rows, NewRow(u))[i] = rows[i]
        /\ Append(rows, NewRow(u))[Len(rows) + 1] = NewRow(u)
    BY <1>1, <1>2
  <2>2. DOMAIN rows' = 1 .. Len(rows) + 1
    BY <1>4, <2>1, LenProperties
  <2>3. /\ \A i \in 1 .. Len(rows) : i \in 1 .. Len(rows) + 1
        /\ \A i \in 1 .. Len(rows) : rows'[i] = rows[i]
    <3>1. \A i \in 1 .. Len(rows) : i \in 1 .. Len(rows) + 1
      BY <1>1
    <3>2. \A i \in 1 .. Len(rows) : rows'[i] = rows[i]
      BY <1>4, <2>1
    <3> QED
      BY <3>1, <3>2
  <2>4. \A i \in 1 .. Len(rows) + 1 : i \in 1 .. Len(rows) \/ i = Len(rows) + 1
    BY <1>1
  <2>5. ~rows'[Len(rows) + 1].released
    BY <1>2, <1>4, <2>1
  <2> QED
    BY <1>1, <2>2, <2>3, <2>4, <2>5 DEF Reported
<1> QED
  BY <1>3, <1>4 DEF WithRow

\* A step that leaves log, rows and releases alone maps to a stutter.
LEMMA OthersMap ==
    ASSUME UNCHANGED <<log, rows, releases>>
    PROVE  Maps
  BY DEF Maps, Requested, Reported

LEMMA UnwrapMaps ==
    ASSUME PipelineInv, NEW u \in Unwraps, Unwrap(u)
    PROVE  Maps
<1>1. log \in Seq(Unwraps) /\ Len(log) \in Nat /\ DOMAIN log = 1 .. Len(log)
  BY LenProperties DEF PipelineInv, Types
<1>2. /\ log' = Append(log, u) /\ log' \in Seq(Unwraps)
      /\ Len(log') = Len(log) + 1 /\ log'[Len(log) + 1] = u
      /\ \A i \in 1 .. Len(log) : log'[i] = log[i]
  BY <1>1 DEF Unwrap
<1>3. DOMAIN log' = 1 .. Len(log) + 1
  BY <1>2, LenProperties
<1>4. \A i \in 1 .. Len(log) + 1 : i \in 1 .. Len(log) \/ i = Len(log) + 1
  BY <1>1
<1>5. Len(log) + 1 \in 1 .. Len(log) + 1 /\ \A i \in 1 .. Len(log) : i \in 1 .. Len(log) + 1
  BY <1>1
<1>6. Requested' = Requested \union {TxOf[u]}
  BY <1>1, <1>2, <1>3, <1>4, <1>5 DEF Requested
<1>7. Reported' = Reported /\ releases' = releases
  BY DEF Unwrap, relayerVars, escrowVars, Reported
<1> QED
  BY <1>6, <1>7, PipelineAssumption DEF Maps, Requests

\* A release pays a transaction of the log that was never paid.
LEMMA ReleaseMaps ==
    ASSUME PipelineInv, NEW u \in Unwraps, Logged(u),
           Release(AmountOf[u], TxOf[u], RelayerKeys), UNCHANGED <<log, rows>>
    PROVE  Maps
<1>1. TxOf[u] \in Txs /\ TxOf[u] \in Requested
  BY PipelineAssumption DEF Logged, Requested
<1>2. releases' = [releases EXCEPT ![TxOf[u]] = 1] /\ releases[TxOf[u]] = 0
  BY <1>1, ReleaseCounts
<1>3. Requested' = Requested /\ Reported' = Reported
  BY DEF Requested, Reported
<1> QED
  BY <1>1, <1>2, <1>3 DEF Maps, Settles

LEMMA MineAwaitedMaps ==
    ASSUME PipelineInv, NEW t \in Ticks, MineAwaited(t)
    PROVE  Maps
<1>1. UNCHANGED <<log, rows>>
  BY DEF MineAwaited
<1>2. tick[t].todo # {} /\ TickKnows(t)
  BY DEF PipelineInv, TicksKnow, TickKnows, MineAwaited
<1>3. PICK u \in Unwraps : u = CurrentUnwrap(t) /\ Logged(u)
  BY <1>2, CurrentIsARow DEF PipelineInv
<1>4. CASE Release(AmountOf[CurrentUnwrap(t)], CurrentTx(t), RelayerKeys)
  BY <1>1, <1>3, <1>4, ReleaseMaps DEF CurrentTx
<1>5. CASE UNCHANGED escrowVars
  BY <1>1, <1>5, OthersMap DEF escrowVars
<1> QED
  BY <1>4, <1>5 DEF MineAwaited

LEMMA MineOrphanMaps ==
    ASSUME PipelineInv, NEW u \in Unwraps, MineOrphan(u)
    PROVE  Maps
<1>1. UNCHANGED <<log, rows>>
  BY DEF MineOrphan
<1>2. Logged(u)
  BY DEF MineOrphan, PipelineInv, FromLog
<1>3. CASE Release(AmountOf[u], TxOf[u], RelayerKeys)
  BY <1>1, <1>2, <1>3, ReleaseMaps
<1>4. CASE UNCHANGED escrowVars
  BY <1>1, <1>4, OthersMap DEF escrowVars
<1> QED
  BY <1>3, <1>4 DEF MineOrphan

LEMMA SaveMaps ==
    ASSUME PipelineInv, NEW t \in Ticks, SaveUnwrap(t) \/ SaveUnwrapFails(t)
    PROVE  Maps
<1>1. PICK u \in Unwraps : rows' \in {rows, WithRow(u)}
  BY EventIsLogged DEF SaveUnwrap, SaveUnwrapFails
<1>2. Reported' = Reported
  BY <1>1, SavingReportsNothing
<1>3. Requested' = Requested /\ releases' = releases
  BY DEF SaveUnwrap, SaveUnwrapFails, escrowVars, Requested
<1> QED
  BY <1>2, <1>3 DEF Maps

\* Rows that fail, and attempts counted, are no report.
LEMMA FailureMaps ==
    ASSUME PipelineInv, NEW t \in Ticks, PreCheck(t) \/ RecordFailure(t)
    PROVE  Maps
<1>1. tick[t].todo # {}
  BY DEF PreCheck, RecordFailure, At, PipelineInv, TicksKnow, TickKnows
<1>2. Current(t).id \in DOMAIN rows /\ rows[Current(t).id] \in Row
  BY <1>1, CurrentRow
<1>3. rows \in Seq(Row)
  BY DEF PipelineInv, Types
<1>4. /\ DOMAIN rows' = DOMAIN rows
      /\ \A i \in DOMAIN rows : /\ rows'[i].unwrap = rows[i].unwrap
                                /\ rows'[i].released = rows[i].released
  <2>1. \/ rows' = rows
        \/ rows' = [rows EXCEPT ![Current(t).id].status = "failed"]
        \/ rows' = [rows EXCEPT ![Current(t).id].attempts = Attempt(t)]
    BY DEF PreCheck, RecordFailure
  <2> QED
    BY <1>2, <1>3, <2>1 DEF Row
<1>5. Reported' = Reported
  BY <1>4, SameReported
<1>6. Requested' = Requested /\ releases' = releases
  BY DEF PreCheck, RecordFailure, escrowVars, Requested
<1> QED
  BY <1>5, <1>6 DEF Maps

LEMMA MarkMaps ==
    ASSUME PipelineInv, NEW t \in Ticks, MarkReleased(t)
    PROVE  Maps
<1>1. tick[t].todo # {} /\ CurrentTx(t) \in releasedNonces /\ TickKnows(t)
  BY DEF MarkReleased, At, PipelineInv, TicksKnow, TickKnows
<1>2. PICK k \in DOMAIN rows : k = Current(t).id /\ rows[k] \in Row
  BY <1>1, CurrentRow
<1>3. PICK x \in Txs : x = TxOf[rows[k].unwrap] /\ x \in releasedNonces
  BY <1>1, <1>2, PipelineAssumption DEF CurrentTx, CurrentUnwrap, Row
<1>4. releases[x] = 1
  BY <1>3 DEF PipelineInv, GuardCounts
<1>5. /\ DOMAIN rows' = DOMAIN rows
      /\ rows'[k].unwrap = rows[k].unwrap /\ rows'[k].released
      /\ \A i \in DOMAIN rows : i # k => rows'[i] = rows[i]
  <2>1. rows' = [rows EXCEPT ![k] = [rows[k] EXCEPT !.status = "released", !.released = TRUE]]
    BY <1>2 DEF MarkReleased
  <2>2. DOMAIN rows' = DOMAIN rows
    BY <2>1
  <2>3. rows'[k].unwrap = rows[k].unwrap /\ rows'[k].released = TRUE
    BY <1>2, <2>1 DEF Row
  <2>4. \A i \in DOMAIN rows : i # k => rows'[i] = rows[i]
    BY <2>1
  <2> QED
    BY <2>2, <2>3, <2>4
<1>6. Reported' = Reported \union {x}
  <2>1. Reported' \subseteq Reported \union {x}
    BY <1>3, <1>5 DEF Reported
  <2>2. Reported \union {x} \subseteq Reported'
    BY <1>2, <1>3, <1>5 DEF Reported
  <2> QED
    BY <2>1, <2>2
<1>7. Requested' = Requested /\ releases' = releases
  BY DEF MarkReleased, escrowVars, Requested
<1> QED
  BY <1>4, <1>6, <1>7 DEF Maps, Reports

LEMMA NextMaps == ASSUME PipelineInv, [Next]_vars PROVE Maps
<1>1. \/ UNCHANGED <<log, rows, releases>>
      \/ \E u \in Unwraps : Unwrap(u) \/ MineOrphan(u)
      \/ \E t \in Ticks : \/ SaveUnwrap(t) \/ SaveUnwrapFails(t)
                          \/ PreCheck(t) \/ RecordFailure(t)
                          \/ MarkReleased(t) \/ MineAwaited(t)
  <2>1. CASE Deposit \/ OwnerActs
    BY <2>1, BridgeElsewhere DEF Deposit, OwnerActs, relayerVars
  <2>2. CASE Crash \/ UNCHANGED vars
    BY <2>2 DEF Crash, vars, relayerVars, escrowVars
  <2>3. ASSUME NEW t \in Ticks, TickStep(t)
        PROVE  \/ SaveUnwrap(t) \/ PreCheck(t) \/ RecordFailure(t) \/ MarkReleased(t)
               \/ MineAwaited(t)
               \/ UNCHANGED <<log, rows, releases>>
    BY <2>3 DEF TickStep, escrowVars, Poll, AdvanceCursor, StoreCursor, ListReleases,
          Skip, Submit, Confirm
  <2>4. ASSUME NEW t \in Ticks, TickFault(t)
        PROVE  SaveUnwrapFails(t) \/ UNCHANGED <<log, rows, releases>>
    BY <2>4 DEF TickFault, escrowVars, RequestFails, WaitFails, MarkFails, TickFails
  <2> QED
    BY <2>1, <2>2, <2>3, <2>4 DEF Next
<1> QED
  BY <1>1, OthersMap, UnwrapMaps, MineOrphanMaps, SaveMaps, FailureMaps, MarkMaps,
     MineAwaitedMaps

\* Each transaction that unwrapped is paid at most once on the source chain,
\* and its row says released only when it was: the relayer and Bridge.release
\* together implement UnwrapSettlement, however ticks overlap and fail.
THEOREM PipelineSettlesOnce == Spec => SettlesOnce
<1>1. Init => Settlement!Init
  BY EmptySeq DEF Init, EscrowInit, Settlement!Init
<1>2. Maps => [Settlement!Next]_(Settlement!settlementVars)
  BY DEF Maps, Requests, Settles, Reports, Requested, Reported, Settlement!Next,
         Settlement!Request, Settlement!Settle, Settlement!Report,
         Settlement!settlementVars
<1>3. PipelineInv /\ [Next]_vars => [Settlement!Next]_(Settlement!settlementVars)
  BY <1>2, NextMaps
<1> QED
  BY <1>1, <1>3, PipelineInvariant, PTL DEF Spec, SettlesOnce, Settlement!Spec

-----------------------------------------------------------------------------
(* What the bridge holds.                                                  *)

Books == [locked : Nat, burnt : Nat, released : Nat, withdrawn : Nat]

Paid(P) == SumFunctionOnSet(AmountOf, P)

\* The unwraps that were paid, one for a transaction.
PaidFor(P) ==
    /\ P \subseteq ToSet(log)
    /\ \A u, v \in P : TxOf[u] = TxOf[v] => u = v
    /\ \A u \in P : TxOf[u] \in releasedNonces
    /\ books.released = Paid(P)

\* The escrow keeps its books; each release paid for one unwrap; the claims
\* are within what came in.
UnitsInv ==
    /\ escrow \in Nat /\ books \in Books
    /\ escrow = books.locked - books.released - books.withdrawn
    /\ Claims <= books.locked + books.burnt
    /\ ToSet(log) \subseteq Unwraps /\ IsFiniteSet(ToSet(log))
    /\ \E P : PaidFor(P)

\* However ticks, faults, crashes and releases in flight interleave, the bridge
\* pays no more than was unwrapped, and what is still to be paid is in it, but
\* for what was burnt instead of locked and what the owner withdrew.
EscrowCoversClaims ==
    /\ escrow + books.released + books.withdrawn = books.locked
    /\ books.released <= Claims
    /\ Claims - books.released <= escrow + books.burnt + books.withdrawn

\* An unwrap is in the set that the claims are summed over when it is logged.
LEMMA LoggedIsClaimed ==
    ASSUME NEW u, Logged(u)
    PROVE  u \in ToSet(log)
  BY DEF Logged, ToSet

LEMMA ClaimsAreNatural ==
    ASSUME UnitsInv
    PROVE  Claims \in Nat /\ \A u \in ToSet(log) : AmountOf[u] \in Nat
<1>1. \A u \in ToSet(log) : AmountOf[u] \in Nat
  BY PipelineAssumption DEF UnitsInv
<1>2. IsFiniteSet(ToSet(log))
  BY DEF UnitsInv
<1> QED BY <1>1, <1>2, FoldDominates DEF Claims

\* Nothing is claimed, paid or held at first.
LEMMA UnitsInit == ASSUME Init PROVE UnitsInv
<1>1. log = <<>> /\ escrow = 0 /\ releasedNonces = {}
      /\ books = [locked |-> 0, burnt |-> 0, released |-> 0, withdrawn |-> 0]
  BY DEF Init, EscrowInit
<1>2. ToSet(log) = {} /\ IsFiniteSet({})
  BY <1>1, FS_EmptySet DEF ToSet
<1>3. SumFunctionOnSet(AmountOf, {}) = 0
  <2>1. PICK g : SumsUp(g, AmountOf, {})
    BY <1>2, FoldOfSums
  <2> QED BY <2>1 DEF SumsUp
<1>4. PaidFor({})
  BY <1>1, <1>2, <1>3 DEF PaidFor, Paid
<1>5. Claims = 0 /\ books \in Books
  BY <1>1, <1>2, <1>3 DEF Claims, Books
<1>6. escrow \in Nat /\ escrow = books.locked - books.released - books.withdrawn
      /\ books.locked + books.burnt = 0
  BY <1>1
<1>7. Claims <= books.locked + books.burnt
  BY <1>5, <1>6
<1>8. ToSet(log) \subseteq Unwraps /\ IsFiniteSet(ToSet(log))
  BY <1>2
<1> QED BY <1>4, <1>5, <1>6, <1>7, <1>8 DEF UnitsInv

\* The same unwraps stay paid while the log, the guard and what was released
\* stay as they are.
LEMMA SamePaid ==
    ASSUME NEW P, PaidFor(P), UNCHANGED <<log, releasedNonces>>,
           books'.released = books.released
    PROVE  PaidFor(P)' /\ Claims' = Claims
  BY DEF PaidFor, Paid, Claims

LEMMA SameUnits ==
    ASSUME UnitsInv, UNCHANGED <<log, releasedNonces, escrow, books>>
    PROVE  UnitsInv'
<1>1. PICK P : PaidFor(P)
  BY DEF UnitsInv
<1>2. PaidFor(P)' /\ Claims' = Claims
  BY <1>1, SamePaid
<1> QED BY <1>2 DEF UnitsInv

\* What a deposit or the owner does to the books.
LEMMA BooksElsewhere ==
    ASSUME escrow \in Nat, books \in Books,
           escrow = books.locked - books.released - books.withdrawn,
           Depositor \/ Owner
    PROVE  /\ escrow' \in Nat /\ books' \in Books
           /\ escrow' = books'.locked - books'.released - books'.withdrawn
           /\ books.locked + books.burnt <= books'.locked + books'.burnt
           /\ books'.released = books.released
           /\ releasedNonces' = releasedNonces
<1>1. {books.locked, books.burnt, books.released, books.withdrawn} \subseteq Nat
  BY DEF Books
<1>2. \A a \in Amounts : a \in Nat
  BY EscrowAssumption
<1>3. ASSUME NEW a \in Amounts, NEW s \in Salts, Lock(a, s)
      PROVE  /\ escrow' = escrow + a /\ releasedNonces' = releasedNonces
             /\ books' \in Books
             /\ books'.locked = books.locked + a /\ books'.burnt = books.burnt
             /\ books'.released = books.released /\ books'.withdrawn = books.withdrawn
  BY <1>1, <1>2, <1>3 DEF Lock, Books
<1>4. ASSUME NEW a \in Amounts, NEW s \in Salts, Burn(a, s)
      PROVE  /\ escrow' = escrow /\ releasedNonces' = releasedNonces
             /\ books' \in Books
             /\ books'.locked = books.locked /\ books'.burnt = books.burnt + a
             /\ books'.released = books.released /\ books'.withdrawn = books.withdrawn
  BY <1>1, <1>2, <1>4 DEF Burn, Books
<1>5. ASSUME NEW a \in Amounts, WithdrawStuck(a)
      PROVE  /\ escrow' = escrow - a /\ a <= escrow /\ releasedNonces' = releasedNonces
             /\ books' \in Books
             /\ books'.locked = books.locked /\ books'.burnt = books.burnt
             /\ books'.released = books.released /\ books'.withdrawn = books.withdrawn + a
  BY <1>1, <1>2, <1>5 DEF WithdrawStuck, Books
<1>6. CASE UNCHANGED <<escrow, books, releasedNonces>>
  BY <1>1, <1>6
<1>7. CASE \E a \in Amounts, s \in Salts : Lock(a, s)
  BY <1>1, <1>2, <1>3, <1>7
<1>8. CASE \E a \in Amounts, s \in Salts : Burn(a, s)
  BY <1>1, <1>2, <1>4, <1>8
<1>9. CASE \E a \in Amounts : WithdrawStuck(a)
  BY <1>1, <1>2, <1>5, <1>9
<1>10. \/ UNCHANGED <<escrow, books, releasedNonces>>
       \/ \E a \in Amounts, s \in Salts : Lock(a, s) \/ Burn(a, s)
       \/ \E a \in Amounts : WithdrawStuck(a)
  BY DEF Depositor, Owner, SetTokenConfig, SetAttesters, SetPaused
<1> QED BY <1>6, <1>7, <1>8, <1>9, <1>10

LEMMA ElsewhereUnits ==
    ASSUME UnitsInv, Depositor \/ Owner, UNCHANGED log
    PROVE  UnitsInv'
<1>1. PICK P : PaidFor(P)
  BY DEF UnitsInv
<1>2. /\ escrow' \in Nat /\ books' \in Books
      /\ escrow' = books'.locked - books'.released - books'.withdrawn
      /\ books.locked + books.burnt <= books'.locked + books'.burnt
      /\ books'.released = books.released
      /\ releasedNonces' = releasedNonces
  BY BooksElsewhere DEF UnitsInv
<1>3. PaidFor(P)' /\ Claims' = Claims
  BY <1>1, <1>2, SamePaid
<1>4. Claims' <= books'.locked + books'.burnt
  <2>1. Claims \in Nat /\ Claims <= books.locked + books.burnt
    BY ClaimsAreNatural DEF UnitsInv
  <2>2. {books.locked, books.burnt, books'.locked, books'.burnt} \subseteq Nat
    BY <1>2 DEF UnitsInv, Books
  <2> QED BY <1>2, <1>3, <2>1, <2>2
<1> QED BY <1>2, <1>3, <1>4 DEF UnitsInv

\* A holder claims what is there to be claimed.
LEMMA UnwrapUnits ==
    ASSUME PipelineInv, UnitsInv, NEW u \in Unwraps, Unwrap(u)
    PROVE  UnitsInv'
<1>1. /\ log \in Seq(Unwraps) /\ log' = Append(log, u) /\ u \notin ToSet(log)
      /\ Claims + AmountOf[u] <= books.locked + books.burnt
      /\ UNCHANGED <<escrow, books, releasedNonces>>
  BY DEF Unwrap, PipelineInv, Types, escrowVars
<1>2. ToSet(log') = ToSet(log) \cup {u}
  <2>1. /\ Len(log) \in Nat /\ DOMAIN log = 1 .. Len(log)
        /\ DOMAIN log' = 1 .. Len(log) + 1
        /\ \A i \in 1 .. Len(log) : log'[i] = log[i]
        /\ log'[Len(log) + 1] = u
    BY <1>1, LenProperties, AppendProperties
  <2>2. 1 .. Len(log) + 1 = (1 .. Len(log)) \cup {Len(log) + 1}
    BY <2>1
  <2> QED BY <2>1, <2>2 DEF ToSet
<1>3. PICK P : PaidFor(P)
  BY DEF UnitsInv
<1>4. PaidFor(P)'
  BY <1>1, <1>2, <1>3 DEF PaidFor, Paid
<1>5. Claims' = Claims + AmountOf[u]
  <2>1. IsFiniteSet(ToSet(log)) /\ \A v \in ToSet(log) : AmountOf[v] \in Int
    BY ClaimsAreNatural DEF UnitsInv
  <2>2. AmountOf[u] \in Int
    BY PipelineAssumption
  <2>3. SumFunctionOnSet(AmountOf, ToSet(log) \cup {u})
        = SumFunctionOnSet(AmountOf, ToSet(log)) + AmountOf[u]
    BY <1>1, <2>1, <2>2, FoldOfAddition
  <2> QED BY <1>2, <2>3 DEF Claims
<1>6. ToSet(log') \subseteq Unwraps /\ IsFiniteSet(ToSet(log'))
  BY <1>2, FS_AddElement DEF UnitsInv
<1> QED BY <1>1, <1>4, <1>5, <1>6 DEF UnitsInv

\* A release pays for one unwrap of a transaction that none was paid for.
LEMMA ReleaseUnits ==
    ASSUME UnitsInv, NEW u \in Unwraps, Logged(u),
           Release(AmountOf[u], TxOf[u], RelayerKeys), UNCHANGED log
    PROVE  UnitsInv'
<1>1. /\ TxOf[u] \notin releasedNonces /\ escrow >= AmountOf[u]
      /\ releasedNonces' = releasedNonces \cup {TxOf[u]}
      /\ escrow' = escrow - AmountOf[u]
      /\ books' = [books EXCEPT !.released = @ + AmountOf[u]]
  BY DEF Release, Releasable
<1>2. AmountOf[u] \in Nat
  BY PipelineAssumption
<1>3. /\ books' \in Books /\ escrow' \in Nat
      /\ escrow' = books'.locked - books'.released - books'.withdrawn
      /\ books'.locked = books.locked /\ books'.burnt = books.burnt
      /\ books'.released = books.released + AmountOf[u]
  BY <1>1, <1>2 DEF UnitsInv, Books
<1>4. PICK P : PaidFor(P)
  BY DEF UnitsInv
<1>5. u \notin P /\ u \in ToSet(log)
  BY <1>1, <1>4, LoggedIsClaimed DEF PaidFor
<1>6. Paid(P \cup {u}) = Paid(P) + AmountOf[u]
  <2>1. IsFiniteSet(P)
    BY <1>4, FS_Subset DEF PaidFor, UnitsInv
  <2>2. \A v \in P : AmountOf[v] \in Int
    BY <1>4, ClaimsAreNatural DEF PaidFor
  <2> QED BY <1>2, <1>5, <2>1, <2>2, FoldOfAddition DEF Paid
<1>7. PaidFor(P \cup {u})'
  <2>1. P \cup {u} \subseteq ToSet(log)
    BY <1>4, <1>5 DEF PaidFor
  <2>2. \A v, w \in P \cup {u} : TxOf[v] = TxOf[w] => v = w
    BY <1>1, <1>4 DEF PaidFor
  <2>3. \A v \in P \cup {u} : TxOf[v] \in releasedNonces'
    BY <1>1, <1>4 DEF PaidFor
  <2>4. books'.released = Paid(P \cup {u})
    BY <1>3, <1>4, <1>6 DEF PaidFor
  <2> QED BY <2>1, <2>2, <2>3, <2>4 DEF PaidFor, Paid
<1>8. Claims' = Claims
  BY DEF Claims
<1> QED BY <1>3, <1>7, <1>8 DEF UnitsInv

LEMMA NextUnits == ASSUME PipelineInv, UnitsInv, [Next]_vars PROVE UnitsInv'
<1>1. CASE Deposit \/ OwnerActs
  BY <1>1, ElsewhereUnits DEF Deposit, OwnerActs
<1>2. ASSUME NEW u \in Unwraps, Unwrap(u) PROVE UnitsInv'
  BY <1>2, UnwrapUnits
<1>3. ASSUME NEW u \in Unwraps, MineOrphan(u) PROVE UnitsInv'
  <2>1. Logged(u) /\ UNCHANGED log
    BY <1>3 DEF MineOrphan, PipelineInv, FromLog
  <2>2. CASE Release(AmountOf[u], TxOf[u], RelayerKeys)
    BY <2>1, <2>2, ReleaseUnits
  <2>3. CASE UNCHANGED escrowVars
    BY <2>1, <2>3, SameUnits DEF escrowVars
  <2> QED BY <1>3, <2>2, <2>3 DEF MineOrphan
<1>4. ASSUME NEW t \in Ticks, MineAwaited(t) PROVE UnitsInv'
  <2>1. UNCHANGED log
    BY <1>4 DEF MineAwaited
  <2>2. tick[t].todo # {} /\ TickKnows(t)
    BY <1>4 DEF PipelineInv, TicksKnow, TickKnows, MineAwaited
  <2>3. PICK u \in Unwraps : u = CurrentUnwrap(t) /\ Logged(u)
    BY <2>2, CurrentIsARow DEF PipelineInv
  <2>4. CASE Release(AmountOf[CurrentUnwrap(t)], CurrentTx(t), RelayerKeys)
    BY <2>1, <2>3, <2>4, ReleaseUnits DEF CurrentTx
  <2>5. CASE UNCHANGED escrowVars
    BY <2>1, <2>5, SameUnits DEF escrowVars
  <2> QED BY <1>4, <2>4, <2>5 DEF MineAwaited
<1>5. \/ Deposit \/ OwnerActs
      \/ \E u \in Unwraps : Unwrap(u) \/ MineOrphan(u)
      \/ \E t \in Ticks : MineAwaited(t)
      \/ UNCHANGED <<log, releasedNonces, escrow, books>>
  <2>1. ASSUME NEW t \in Ticks, TickStep(t), ~MineAwaited(t)
        PROVE  UNCHANGED <<log, escrowVars>>
    BY <2>1 DEF TickStep, Poll, SaveUnwrap, AdvanceCursor, StoreCursor, ListReleases,
          Skip, PreCheck, Submit, Confirm, MarkReleased, RecordFailure
  <2>2. ASSUME NEW t \in Ticks, TickFault(t)
        PROVE  UNCHANGED <<log, escrowVars>>
    BY <2>2 DEF TickFault, SaveUnwrapFails, RequestFails, WaitFails, MarkFails, TickFails
  <2>3. ASSUME Crash \/ UNCHANGED vars
        PROVE  UNCHANGED <<log, escrowVars>>
    BY <2>3 DEF Crash, vars
  <2>4. UNCHANGED <<log, escrowVars>> => UNCHANGED <<log, releasedNonces, escrow, books>>
    BY DEF escrowVars
  <2> QED BY <2>1, <2>2, <2>3, <2>4 DEF Next
<1> QED BY <1>1, <1>2, <1>3, <1>4, <1>5, SameUnits

\* Bridge.release pays for no unwrap twice and for none that Stellar did not
\* log, in spite of overlapping ticks, releases that nobody waits for, crashes
\* and the owner: what holders unwrapped and were not paid yet is in the
\* bridge, but for burnt and withdrawn units.
THEOREM EscrowSolvency == Spec => []EscrowCoversClaims
<1>1. Init => UnitsInv
  BY UnitsInit
<1>2. PipelineInv /\ UnitsInv /\ [Next]_vars => UnitsInv'
  BY NextUnits
<1>3. UnitsInv => EscrowCoversClaims
  <2> SUFFICES ASSUME UnitsInv PROVE EscrowCoversClaims
    OBVIOUS
  <2>1. PICK P : PaidFor(P)
    BY DEF UnitsInv
  <2>2. Paid(P) <= Claims
    <3>1. P \in SUBSET ToSet(log) /\ IsFiniteSet(ToSet(log))
      BY <2>1 DEF PaidFor, UnitsInv
    <3> QED BY <3>1, ClaimsAreNatural, FoldOfPart DEF Paid, Claims
  <2>3. books.released = Paid(P)
    BY <2>1 DEF PaidFor
  <2>4. /\ {books.locked, books.burnt, books.released, books.withdrawn} \subseteq Nat
        /\ Claims \in Nat /\ Claims <= books.locked + books.burnt
        /\ escrow \in Nat /\ escrow = books.locked - books.released - books.withdrawn
    BY ClaimsAreNatural DEF UnitsInv, Books
  <2>5. books.released <= Claims
    BY <2>2, <2>3
  <2> QED BY <2>4, <2>5 DEF EscrowCoversClaims
<1> QED
  BY <1>1, <1>2, <1>3, PipelineInvariant, PTL DEF Spec

=============================================================================
