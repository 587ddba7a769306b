----------------------- MODULE DepositPipeline_proofs -----------------------
(***************************************************************************)
(* Safety of the deposit pipeline for any number of chains, ticks,         *)
(* deposits, faults and attempts, in two layers.  MintInv holds whatever   *)
(* fails: a deposit is minted at most once and alone under its salt, and   *)
(* a row that says minted is right.  FaultFree holds until the first       *)
(* fault: behind every cursor each deposit has a row or is in the hands    *)
(* of a tick.                                                              *)
(***************************************************************************)
EXTENDS DepositPipeline, AccountSums_proofs, SequenceTheorems

Logged(d) == d \in ToSet(log[ChainOf[d]])

\* The first of the listed rows: Current(t) is First(tick[t].todo).
First(S) == CHOOSE r \in S : \A q \in S : r.id <= q.id

PollState == [at : {"head", "page", "store", "done", "failed"},
              upto : Nat, events : Seq(Deposits)]
TickState == [at : {"idle", "polls", "rejected", "enqueue", "check", "wait", "mark", "fail"},
              polls : [Chains -> PollState],
              queue : Seq(Deposits),
              todo : SUBSET [id : Nat, attempts : Nat],
              tx : {"none", "pending", "done", "replayed"}]
Row == [deposit : Deposits, status : {"pending", "minted", "failed"}, attempts : Nat]

Types ==
    /\ log \in [Chains -> Seq(Deposits)]
    /\ cursor \in [Chains -> Nat]
    /\ storedCursor \in [Chains -> Nat]
    /\ rows \in Seq(Row)
    /\ minted \in [Deposits -> Nat]
    /\ tick \in [Ticks -> TickState]
    /\ orphans \subseteq Deposits
    /\ faults \in Nat

\* All that the pipeline holds was deposited, and on its own chain.
FromLog ==
    /\ \A c \in Chains : \A i \in DOMAIN log[c] : ChainOf[log[c][i]] = c
    /\ \A i \in DOMAIN rows : Logged(rows[i].deposit)
    /\ \A d \in Deposits : minted[d] > 0 => Logged(d)
    /\ \A d \in orphans : Logged(d)

\* No deposit is minted twice, and no two of one salt are.
OneMintPerSalt ==
    /\ \A d \in Deposits : minted[d] <= 1
    /\ \A d, e \in Deposits :
          SaltOf[d] = SaltOf[e] /\ minted[d] > 0 /\ minted[e] > 0 => d = e

ReportedMinted ==
    \A i \in DOMAIN rows : rows[i].status = "minted" => SaltUsed(rows[i].deposit)

\* Where a tick stands says what it holds, and what it knows of the chain.
Knows(k) ==
    /\ \A c \in Chains : \A i \in DOMAIN k.polls[c].events : Logged(k.polls[c].events[i])
    /\ \A i \in DOMAIN k.queue : Logged(k.queue[i])
    /\ \A r \in k.todo : r.id \in DOMAIN rows
    /\ k.at \in {"check", "wait", "mark", "fail"} <=> k.todo # {}
    /\ k.tx # "none" => k.at = "wait"
    /\ (k.at = "mark" \/ k.tx \in {"done", "replayed"})
           => SaltUsed(rows[First(k.todo).id].deposit)

TicksKnow == \A t \in Ticks : Knows(tick[t])

MintInv ==
    /\ Types
    /\ FromLog
    /\ OneMintPerSalt
    /\ ReportedMinted
    /\ TicksKnow

Covered(d) == HasRow(d) \/ Carried(d)
CoveredUpTo(c, n) ==
    /\ n \in 0 .. Len(log[c])
    /\ \A i \in 1 .. n : Covered(log[c][i])

\* Without a fault, a tick has ahead of it all that its polls found.
Unprovoked(k) ==
    /\ k.at # "rejected"
    /\ k.queue # <<>> => k.at = "enqueue"
    /\ \A c \in Chains :
           /\ k.polls[c].at # "failed"
           /\ k.polls[c].at = "head" => k.polls[c].events = <<>>
           /\ k.polls[c].at # "done" => k.at = "polls"
           /\ k.polls[c].at \in {"page", "store"} => CoveredUpTo(c, k.polls[c].upto)

FaultFree ==
    /\ \A t \in Ticks : Unprovoked(tick[t])
    /\ \A c \in Chains : CoveredUpTo(c, cursor[c])

PipelineInv == MintInv /\ (faults = 0 => FaultFree)

-----------------------------------------------------------------------------
(* Lemmas on sequences and sets.                                           *)

\* The elements of a sequence.
LEMMA Elements ==
    ASSUME NEW S, NEW s \in Seq(S)
    PROVE  /\ Len(s) \in Nat
           /\ DOMAIN s = 1 .. Len(s)
           /\ \A i \in 1 .. Len(s) : s[i] \in S
           /\ \A x : x \in ToSet(s) <=> \E i \in 1 .. Len(s) : x = s[i]
           /\ ToSet(s) \subseteq S
<1>1. Len(s) \in Nat /\ DOMAIN s = 1 .. Len(s) /\ \A i \in 1 .. Len(s) : s[i] \in S
  BY LenProperties
<1>2. \A x : x \in ToSet(s) <=> \E i \in 1 .. Len(s) : x = s[i]
  BY <1>1 DEF ToSet
<1> QED
  BY <1>1, <1>2

LEMMA Appended ==
    ASSUME NEW S, NEW s \in Seq(S), NEW x \in S
    PROVE  /\ Append(s, x) \in Seq(S)
           /\ Len(Append(s, x)) = Len(s) + 1
           /\ Append(s, x)[Len(s) + 1] = x
           /\ \A i \in 1 .. Len(s) : Append(s, x)[i] = s[i]
           /\ DOMAIN Append(s, x) = 1 .. Len(s) + 1
           /\ \A i \in 1 .. Len(s) + 1 : i \in 1 .. Len(s) \/ i = Len(s) + 1
<1>1. /\ Append(s, x) \in Seq(S)
      /\ Len(Append(s, x)) = Len(s) + 1
      /\ Append(s, x)[Len(s) + 1] = x
      /\ \A i \in 1 .. Len(s) : Append(s, x)[i] = s[i]
  OBVIOUS
<1>2. Len(s) \in Nat /\ DOMAIN Append(s, x) = 1 .. Len(Append(s, x))
  BY <1>1, LenProperties
<1> QED
  BY <1>1, <1>2

\* What is left when one event is dropped.
LEMMA OneDropped ==
    ASSUME NEW S, NEW s \in Seq(S), NEW i \in 1 .. Len(s)
    PROVE  /\ RemoveAt(s, i) \in Seq(S)
           /\ \A k \in DOMAIN RemoveAt(s, i) : \E j \in DOMAIN s : RemoveAt(s, i)[k] = s[j]
<1> DEFINE a == SubSeq(s, 1, i - 1)
           b == SubSeq(s, i + 1, Len(s))
<1>1. Len(s) \in Nat /\ DOMAIN s = 1 .. Len(s)
  BY LenProperties
<1>2. /\ a \in Seq(S) /\ Len(a) = i - 1
      /\ \A k \in 1 .. Len(a) : a[k] = s[k]
  BY <1>1
<1>3. /\ b \in Seq(S) /\ Len(b) = Len(s) - i
      /\ \A k \in 1 .. Len(b) : b[k] = s[k + i]
  <2>1. /\ i \in Int /\ i + 1 \in Int /\ Len(s) \in Int
        /\ \A k \in i + 1 .. Len(s) : s[k] \in S
    BY <1>1, LenProperties
  <2>2. /\ b \in Seq(S)
        /\ Len(b) = IF i + 1 <= Len(s) THEN Len(s) - (i + 1) + 1 ELSE 0
        /\ \A k \in 1 .. Len(s) - (i + 1) + 1 : b[k] = s[i + 1 + k - 1]
    BY <2>1, SubSeqProperties
  <2> HIDE DEF b
  <2>3. Len(b) = Len(s) - i /\ Len(s) - (i + 1) + 1 = Len(s) - i
    <3>1. PICK n \in Nat : n = Len(s)
      BY <1>1
    <3>2. i \in 1 .. n /\ Len(b) = IF i + 1 <= n THEN n - (i + 1) + 1 ELSE 0
      BY <2>2, <3>1
    <3>3. (IF i + 1 <= n THEN n - (i + 1) + 1 ELSE 0) = n - i /\ n - (i + 1) + 1 = n - i
      BY <3>1, <3>2
    <3> QED
      BY <3>1, <3>2, <3>3
  <2>4. \A k \in 1 .. Len(b) : i + 1 + k - 1 = k + i
    BY <2>3
  <2> QED
    BY <2>2, <2>3, <2>4
<1>4. RemoveAt(s, i) = a \o b
  BY DEF RemoveAt
<1> HIDE DEF a, b
<1>5. a \o b \in Seq(S) /\ DOMAIN (a \o b) = 1 .. Len(a) + Len(b)
  <2>1. a \o b \in Seq(S) /\ Len(a \o b) = Len(a) + Len(b)
    BY <1>2, <1>3, ConcatProperties
  <2> QED
    BY <2>1, LenProperties
<1>6. ASSUME NEW k \in 1 .. Len(a) + Len(b)
      PROVE  \E j \in 1 .. Len(s) : (a \o b)[k] = s[j]
  <2>1. (a \o b)[k] = IF k <= Len(a) THEN a[k] ELSE b[k - Len(a)]
    BY <1>2, <1>3, <1>6, ConcatProperties
  <2>2. CASE k <= Len(a)
    <3>1. k \in 1 .. Len(a) /\ k \in 1 .. Len(s)
      BY <1>1, <1>2, <1>3, <2>2
    <3> QED
      BY <1>2, <2>1, <2>2, <3>1
  <2>3. CASE ~ (k <= Len(a))
    <3>1. k - Len(a) \in 1 .. Len(b) /\ k - Len(a) + i \in 1 .. Len(s)
      BY <1>1, <1>2, <1>3, <2>3
    <3> QED
      BY <1>3, <2>1, <2>3, <3>1
  <2> QED
    BY <2>2, <2>3
<1> QED
  BY <1>1, <1>4, <1>5, <1>6

LEMMA LesserAndGreater ==
    ASSUME NEW a \in Int, NEW b \in Int
    PROVE  /\ Min({a, b}) = IF a <= b THEN a ELSE b
           /\ Max({a, b}) = IF a <= b THEN b ELSE a
  BY DEF Min, Max

\* The elements of a concatenation.
LEMMA Concatenated ==
    ASSUME NEW S, NEW a \in Seq(S), NEW b \in Seq(S)
    PROVE  /\ a \o b \in Seq(S)
           /\ \A x : x \in ToSet(a \o b) <=> x \in ToSet(a) \/ x \in ToSet(b)
<1>1. /\ a \o b \in Seq(S) /\ Len(a \o b) = Len(a) + Len(b)
      /\ \A i \in 1 .. Len(a) + Len(b) :
            (a \o b)[i] = IF i <= Len(a) THEN a[i] ELSE b[i - Len(a)]
  BY ConcatProperties
<1>2. /\ Len(a) \in Nat /\ Len(b) \in Nat
      /\ \A x : x \in ToSet(a) <=> \E i \in 1 .. Len(a) : x = a[i]
      /\ \A x : x \in ToSet(b) <=> \E i \in 1 .. Len(b) : x = b[i]
  BY Elements
<1> DEFINE ab == a \o b
<1>3. \A x : x \in ToSet(ab) <=> \E i \in 1 .. Len(a) + Len(b) : x = ab[i]
  <2>1. \A x : x \in ToSet(a \o b) <=> \E i \in 1 .. Len(a \o b) : x = (a \o b)[i]
    BY <1>1, Elements
  <2> QED
    BY <1>1, <2>1
<1> HIDE DEF ab
<1>4. \A i \in 1 .. Len(a) + Len(b) : ab[i] = IF i <= Len(a) THEN a[i] ELSE b[i - Len(a)]
  BY <1>1 DEF ab
<1>5. ASSUME NEW x, x \in ToSet(ab)
      PROVE  x \in ToSet(a) \/ x \in ToSet(b)
  <2>1. PICK i \in 1 .. Len(a) + Len(b) : x = ab[i]
    BY <1>3, <1>5
  <2>2. IF i <= Len(a) THEN i \in 1 .. Len(a) ELSE i - Len(a) \in 1 .. Len(b)
    BY <1>2
  <2> QED
    BY <1>2, <1>4, <2>1, <2>2
<1>6. ASSUME NEW x, x \in ToSet(a)
      PROVE  x \in ToSet(ab)
  <2>1. PICK i \in 1 .. Len(a) : x = a[i]
    BY <1>2, <1>6
  <2>2. i \in 1 .. Len(a) + Len(b) /\ i <= Len(a)
    BY <1>2
  <2> QED
    BY <1>3, <1>4, <2>1, <2>2
<1>7. ASSUME NEW x, x \in ToSet(b)
      PROVE  x \in ToSet(ab)
  <2>1. PICK i \in 1 .. Len(b) : x = b[i]
    BY <1>2, <1>7
  <2>2. /\ i + Len(a) \in 1 .. Len(a) + Len(b)
        /\ ~ (i + Len(a) <= Len(a)) /\ (i + Len(a)) - Len(a) = i
    BY <1>2
  <2> QED
    BY <1>3, <1>4, <2>1, <2>2
<1>8. ab \in Seq(S)
  BY <1>1 DEF ab
<1> QED
  BY <1>5, <1>6, <1>7, <1>8 DEF ab

\* FlattenSeq loses nothing and adds nothing.
LEMMA Flattened ==
    ASSUME NEW S, NEW ss \in Seq(Seq(S))
    PROVE  /\ FlattenSeq(ss) \in Seq(S)
           /\ \A x : x \in ToSet(FlattenSeq(ss)) <=> \E i \in 1 .. Len(ss) : x \in ToSet(ss[i])
<1> DEFINE n == Len(ss)
           Step(h) == [i \in 1 .. n |-> IF i = 1 THEN ss[i] ELSE h[i - 1] \o ss[i]]
           Joins(h, m) == /\ h \in [1 .. m -> Seq(S)]
                          /\ \A i \in 1 .. m : h[i] = IF i = 1 THEN ss[i] ELSE h[i - 1] \o ss[i]
           P == {m \in 0 .. n : \E h : Joins(h, m)}
<1>1. n \in Nat /\ \A i \in 1 .. n : ss[i] \in Seq(S)
  BY LenProperties
<1> HIDE DEF n
<1>2. 0 \in P
  <2> DEFINE z == [i \in 1 .. 0 |-> ss[i]]
  <2>1. Joins(z, 0)
    OBVIOUS
  <2> HIDE DEF z
  <2>2. \E h : Joins(h, 0)
    BY <2>1
  <2>3. 0 \in 0 .. n
    BY <1>1
  <2> QED
    BY <2>2, <2>3, Zenon
<1>3. ASSUME NEW m \in 0 .. n - 1, m \in P
      PROVE  m + 1 \in P
  <2>1. PICK g : Joins(g, m)
    BY <1>3
  <2>2. m \in Nat /\ m + 1 \in 0 .. n /\ m + 1 \in 1 .. n
    BY <1>1
  <2> DEFINE last == IF m = 0 THEN ss[1] ELSE g[m] \o ss[m + 1]
             h == [i \in 1 .. m + 1 |-> IF i = m + 1 THEN last ELSE g[i]]
  <2>3. last \in Seq(S)
    <3>1. CASE m = 0
      BY <1>1, <2>2, <3>1
    <3>2. CASE m # 0
      <4>1. m \in 1 .. m /\ g[m] \in Seq(S) /\ ss[m + 1] \in Seq(S)
        BY <1>1, <2>1, <2>2, <3>2
      <4> QED
        BY <3>2, <4>1, ConcatProperties
    <3> QED
      BY <3>1, <3>2
  <2>4. m + 1 = 1 => last = ss[m + 1]
    BY <2>2, SMT
  <2>5. m + 1 # 1 => last = g[m] \o ss[m + 1]
    <3>1. m + 1 # 1 => m # 0
      BY <2>2
    <3> QED
      BY <3>1, Zenon
  <2> HIDE DEF last
  <2>6. h \in [1 .. m + 1 -> Seq(S)]
    <3>1. \A i \in 1 .. m + 1 : i # m + 1 => i \in 1 .. m
      BY <2>2
    <3> QED
      BY <2>1, <2>3, <3>1
  <2>7. ASSUME NEW i \in 1 .. m + 1
        PROVE  h[i] = IF i = 1 THEN ss[i] ELSE h[i - 1] \o ss[i]
    <3>1. CASE i = m + 1
      <4>1. i # 1 => i - 1 \in 1 .. m + 1 /\ i - 1 = m /\ i - 1 # m + 1
        BY <2>2, <3>1
      <4>2. h[i] = last /\ (i # 1 => h[i - 1] = g[m])
        BY <3>1, <4>1
      <4> QED
        BY <2>4, <2>5, <3>1, <4>2
    <3>2. CASE i # m + 1
      <4>1. i \in 1 .. m /\ (i # 1 => i - 1 \in 1 .. m + 1 /\ i - 1 # m + 1)
        BY <2>2, <3>2
      <4>2. h[i] = g[i] /\ (i # 1 => h[i - 1] = g[i - 1])
        BY <3>2, <4>1
      <4> QED
        BY <2>1, <4>1, <4>2
    <3> QED
      BY <3>1, <3>2
  <2> HIDE DEF h
  <2>8. \E k : Joins(k, m + 1)
    BY <2>6, <2>7
  <2> QED
    BY <2>2, <2>8
<1>4. PICK g : Joins(g, n)
  <2>1. n \in 0 .. n
    BY <1>1
  <2> HIDE DEF P
  <2>2. n \in P
    BY <1>1, <1>2, <1>3, <2>1, InductionTo
  <2> QED
    BY <2>2 DEF P
<1> DEFINE flat == CHOOSE h : h = Step(h)
<1>5. flat = Step(flat)
  <2>1. g = Step(g)
    BY <1>4
  <2> QED
    BY <2>1
<1>6. \A i \in 1 .. n : flat[i] = IF i = 1 THEN ss[i] ELSE flat[i - 1] \o ss[i]
  BY <1>5
<1>7. FlattenSeq(ss) = IF n = 0 THEN ss ELSE flat[n]
  BY DEF FlattenSeq, n
<1> HIDE DEF flat
<1> DEFINE Parts(i) == {x \in S : \E j \in 1 .. i : x \in ToSet(ss[j])}
           Q == {m \in 0 .. n : m # 0 => /\ flat[m] \in Seq(S)
                                         /\ ToSet(flat[m]) = Parts(m)}
<1>8. \A i \in 1 .. n : ToSet(ss[i]) \subseteq S
  BY <1>1, Elements
<1>9. ASSUME NEW m \in 0 .. n - 1, m \in Q
      PROVE  m + 1 \in Q
  <2>1. m \in Nat /\ m + 1 \in 1 .. n /\ m + 1 \in 0 .. n /\ (m + 1) - 1 = m
    BY <1>1
  <2>2. ss[m + 1] \in Seq(S) /\ ToSet(ss[m + 1]) \subseteq S
    BY <1>1, <1>8, <2>1
  <2>3. Parts(m + 1) = {x \in S : x \in Parts(m) \/ x \in ToSet(ss[m + 1])}
    <3>1. \A j : j \in 1 .. m + 1 <=> j \in 1 .. m \/ j = m + 1
      BY <2>1
    <3> QED
      BY <3>1
  <2>4. CASE m = 0
    <3>1. flat[m + 1] = ss[m + 1] /\ Parts(m) = {}
      BY <1>6, <2>1, <2>4
    <3> QED
      BY <2>1, <2>2, <2>3, <3>1
  <2>5. CASE m # 0
    <3>1. flat[m] \in Seq(S) /\ ToSet(flat[m]) = Parts(m)
      BY <1>9, <2>5
    <3>2. flat[m + 1] = flat[m] \o ss[m + 1]
      <4>1. m + 1 # 1
        BY <2>1, <2>5
      <4>2. flat[m + 1] = flat[(m + 1) - 1] \o ss[m + 1]
        BY <1>6, <2>1, <4>1, Zenon
      <4> QED
        BY <2>1, <4>2
    <3> HIDE DEF Parts
    <3>3. /\ flat[m + 1] \in Seq(S)
          /\ \A x : x \in ToSet(flat[m + 1]) <=> x \in ToSet(flat[m]) \/ x \in ToSet(ss[m + 1])
      BY <2>2, <3>1, <3>2, Concatenated
    <3>4. Parts(m) \subseteq S
      BY DEF Parts
    <3>5. ToSet(flat[m + 1]) = Parts(m + 1)
      BY <2>2, <2>3, <3>1, <3>3, <3>4
    <3> QED
      BY <2>1, <3>3, <3>5
  <2> QED
    BY <2>4, <2>5
<1>10. n \in Q
  <2>1. 0 \in Q /\ n \in 0 .. n
    BY <1>1
  <2> HIDE DEF Q
  <2> QED
    BY <1>1, <1>9, <2>1, InductionTo
<1>11. CASE n = 0
  <2>1. ss = <<>>
    BY <1>11, EmptySeq DEF n
  <2>2. FlattenSeq(ss) = <<>>
    BY <1>7, <1>11, <2>1
  <2>3. <<>> \in Seq(S) /\ \A x : x \notin ToSet(<<>>)
    BY EmptySeq DEF ToSet
  <2> QED
    BY <1>11, <2>2, <2>3 DEF n
<1>12. CASE n # 0
  <2>1. FlattenSeq(ss) \in Seq(S) /\ ToSet(FlattenSeq(ss)) = Parts(n)
    BY <1>7, <1>10, <1>12
  <2>2. \A x : x \in Parts(n) <=> \E i \in 1 .. n : x \in ToSet(ss[i])
    BY <1>8
  <2> HIDE DEF Parts
  <2> QED
    BY <2>1, <2>2 DEF n
<1> QED
  BY <1>11, <1>12

-----------------------------------------------------------------------------
(* What no step undoes, and what a tick keeps when others move.            *)

LEMMA Constants ==
    /\ \A d \in Deposits : ChainOf[d] \in Chains
    /\ \A c \in Chains : \E i \in 1 .. Len(Order) : Order[i] = c
    /\ \A i \in DOMAIN Order : Order[i] \in Chains
    /\ Confirmations \in Nat /\ PageSize \in Nat /\ MaxAttempts \in Nat /\ MaxFaults \in Nat
<1>1. Confirmations \in Nat /\ PageSize \in Nat /\ MaxAttempts \in Nat /\ MaxFaults \in Nat
  BY DepositAssumption
<1>2. \A d \in Deposits : ChainOf[d] \in Chains
  BY DepositAssumption DEF Chains
<1>3. DOMAIN Order = 1 .. Len(Order)
  BY DepositAssumption
<1> QED
  BY <1>1, <1>2, <1>3 DEF Chains, ToSet

\* The record at hand is one of those listed.
LEMMA FirstListed ==
    ASSUME NEW S \in SUBSET [id : Nat, attempts : Nat], S # {}
    PROVE  First(S) \in S
<1> DEFINE ids == {r.id : r \in S}
<1>1. ids \in SUBSET Nat /\ ids # {}
  OBVIOUS
<1> HIDE DEF ids
<1>2. PICK n \in ids : \A m \in ids : n <= m
  BY <1>1, LeastNatural
<1> USE DEF ids
<1>3. PICK r \in S : r.id = n
  BY <1>2
<1>4. \A q \in S : r.id <= q.id
  BY <1>2, <1>3
<1> QED
  BY <1>3, <1>4 DEF First

\* So it is a row of the table, whose deposit was made.
LEMMA CurrentIsARow ==
    ASSUME Types, FromLog, NEW t \in Ticks, Knows(tick[t]), tick[t].todo # {}
    PROVE  /\ Current(t) = First(tick[t].todo)
           /\ Current(t) \in tick[t].todo
           /\ Current(t).id \in DOMAIN rows
           /\ Attempt(t) \in Nat
           /\ CurrentDeposit(t) \in Deposits
           /\ Logged(CurrentDeposit(t))
<1>1. tick[t].todo \in SUBSET [id : Nat, attempts : Nat]
  BY DEF Types, TickState
<1>2. Current(t) = First(tick[t].todo)
  BY DEF Current, First
<1>3. Current(t) \in tick[t].todo
  BY <1>1, <1>2, FirstListed
<1>4. Current(t).id \in DOMAIN rows
  BY <1>3 DEF Knows
<1>5. Attempt(t) \in Nat
  BY <1>1, <1>3 DEF Attempt
<1>6. rows[Current(t).id] \in Row
  BY <1>4, Elements DEF Types
<1> QED
  BY <1>2, <1>3, <1>4, <1>5, <1>6 DEF CurrentDeposit, FromLog, Row

\* Deposits, rows with their deposits, and mints stay.
Grows ==
    /\ \A d \in Deposits : Logged(d) => Logged(d)'
    /\ \A i \in DOMAIN rows : i \in DOMAIN rows' /\ rows'[i].deposit = rows[i].deposit
    /\ \A d \in Deposits : minted[d] > 0 => minted'[d] > 0

\* What is known stays true.
LEMMA KnowledgeStays ==
    ASSUME Types, Grows, NEW k \in TickState, Knows(k)
    PROVE  Knows(k)'
<1>1. ASSUME NEW c \in Chains, NEW i \in DOMAIN k.polls[c].events
      PROVE  Logged(k.polls[c].events[i])'
  <2>1. k.polls[c].events \in Seq(Deposits)
    BY DEF TickState, PollState
  <2>2. k.polls[c].events[i] \in Deposits
    BY <2>1, Elements
  <2> QED
    BY <2>2 DEF Knows, Grows
<1>2. ASSUME NEW i \in DOMAIN k.queue
      PROVE  Logged(k.queue[i])'
  <2>1. k.queue[i] \in Deposits
    BY Elements DEF TickState
  <2> QED
    BY <2>1 DEF Knows, Grows
<1>3. \A r \in k.todo : r.id \in DOMAIN rows'
  BY DEF Knows, Grows
<1>4. ASSUME k.at = "mark" \/ k.tx \in {"done", "replayed"}
      PROVE  SaltUsed(rows[First(k.todo).id].deposit)'
  <2>1. k.todo # {}
    BY <1>4 DEF Knows
  <2>2. First(k.todo) \in k.todo
    BY <2>1, FirstListed DEF TickState
  <2>3. rows'[First(k.todo).id].deposit = rows[First(k.todo).id].deposit
    BY <2>2 DEF Knows, Grows
  <2> QED
    BY <1>4, <2>3 DEF Knows, Grows, SaltUsed
<1> QED
  BY <1>1, <1>2, <1>3, <1>4 DEF Knows

\* When one tick moves, the others keep what they know.
LEMMA OneTickMoves ==
    ASSUME MintInv, Grows, NEW t \in Ticks, NEW new \in TickState,
           tick' = [tick EXCEPT ![t] = new], Knows(new)'
    PROVE  tick' \in [Ticks -> TickState] /\ TicksKnow'
<1>1. tick \in [Ticks -> TickState] /\ Types
  BY DEF MintInv, Types
<1>2. tick' \in [Ticks -> TickState] /\ tick'[t] = new
  BY <1>1
<1>3. ASSUME NEW q \in Ticks
      PROVE  Knows(tick[q])'
  <2>1. CASE q = t
    BY <1>2, <2>1 DEF Knows
  <2>2. CASE q # t
    <3>1. PICK k \in TickState : k = tick[q]
      BY <1>1
    <3>2. Knows(k)
      BY <3>1 DEF MintInv, TicksKnow
    <3>3. Knows(k)'
      BY <1>1, <3>2, KnowledgeStays
    <3>4. tick'[q] = k
      BY <1>1, <2>2, <3>1
    <3> QED
      BY <3>3, <3>4 DEF Knows
  <2> QED
    BY <2>1, <2>2
<1> QED
  BY <1>2, <1>3 DEF TicksKnow

\* A step that moves a tick, and neither events nor rows nor mints.
LEMMA QuietStep ==
    ASSUME MintInv, UNCHANGED <<log, rows, minted>>,
           cursor' \in [Chains -> Nat], storedCursor' \in [Chains -> Nat], faults' \in Nat,
           orphans' \subseteq Deposits, \A d \in orphans' : Logged(d),
           NEW t \in Ticks, NEW new \in TickState,
           tick' = [tick EXCEPT ![t] = new], Knows(new)
    PROVE  MintInv'
<1>1. Grows
  BY DEF Grows, Logged
<1>2. Knows(new)'
  BY <1>1, KnowledgeStays DEF MintInv
<1>3. tick' \in [Ticks -> TickState] /\ TicksKnow'
  BY <1>1, <1>2, OneTickMoves
<1>4. Types'
  BY <1>3 DEF MintInv, Types
<1>5. FromLog' /\ OneMintPerSalt' /\ ReportedMinted'
  BY DEF MintInv, FromLog, OneMintPerSalt, ReportedMinted, Logged, SaltUsed
<1> QED
  BY <1>3, <1>4, <1>5 DEF MintInv

\* A step that gives one poll a new state.
LEMMA PollMoves ==
    ASSUME MintInv, NEW t \in Ticks, NEW c \in Chains, NEW p \in PollState,
           \A i \in DOMAIN p.events : Logged(p.events[i])
    PROVE  /\ [tick[t] EXCEPT !.polls = [@ EXCEPT ![c] = p]] \in TickState
           /\ Knows([tick[t] EXCEPT !.polls = [@ EXCEPT ![c] = p]])
<1> DEFINE new == [tick[t] EXCEPT !.polls = [@ EXCEPT ![c] = p]]
<1>1. tick[t] \in TickState /\ Knows(tick[t])
  BY DEF MintInv, Types, TicksKnow
<1>2. /\ new \in TickState
      /\ new.at = tick[t].at /\ new.queue = tick[t].queue /\ new.todo = tick[t].todo
      /\ new.tx = tick[t].tx
      /\ \A b \in Chains : new.polls[b] = IF b = c THEN p ELSE tick[t].polls[b]
  BY <1>1 DEF TickState
<1> HIDE DEF new
<1>3. Knows(new)
  BY <1>1, <1>2 DEF Knows
<1> QED
  BY <1>2, <1>3 DEF new

\* A tick that turns to another place with what it listed.
LEMMA PlaceMoves ==
    ASSUME MintInv, NEW t \in Ticks, tick[t].todo # {},
           NEW place \in {"check", "wait", "mark", "fail"},
           NEW x \in {"none", "pending", "done", "replayed"},
           x # "none" => place = "wait",
           place = "mark" \/ x \in {"done", "replayed"} => SaltUsed(CurrentDeposit(t))
    PROVE  /\ [tick[t] EXCEPT !.at = place, !.tx = x] \in TickState
           /\ Knows([tick[t] EXCEPT !.at = place, !.tx = x])
<1> DEFINE new == [tick[t] EXCEPT !.at = place, !.tx = x]
<1>1. tick[t] \in TickState /\ Knows(tick[t])
  BY DEF MintInv, Types, TicksKnow
<1>2. /\ new \in TickState
      /\ new.at = place /\ new.queue = tick[t].queue /\ new.todo = tick[t].todo
      /\ new.tx = x /\ new.polls = tick[t].polls
  BY <1>1 DEF TickState
<1>3. CurrentDeposit(t) = rows[First(tick[t].todo).id].deposit
  BY DEF CurrentDeposit, Current, First
<1> HIDE DEF new
<1>4. Knows(new)
  BY <1>1, <1>2, <1>3 DEF Knows
<1> QED
  BY <1>2, <1>4 DEF new

LEMMA IdleTick ==
    /\ NoPolls \in [Chains -> PollState]
    /\ \A c \in Chains : NoPolls[c].events = <<>> /\ NoPolls[c].at = "done"
    /\ Idle \in TickState
    /\ Idle.at = "idle" /\ Idle.queue = <<>> /\ Idle.todo = {} /\ Idle.tx = "none"
    /\ Idle.polls = NoPolls
<1>1. <<>> \in Seq(Deposits)
  BY EmptySeq
<1>2. NewPoll \in PollState /\ NewPoll.events = <<>>
  BY <1>1 DEF NewPoll, PollState
<1>3. /\ NoPolls \in [Chains -> PollState]
      /\ \A c \in Chains : NoPolls[c].events = <<>> /\ NoPolls[c].at = "done"
  BY <1>2 DEF NoPolls, PollState, NewPoll
<1>4. /\ Idle \in TickState
      /\ Idle.at = "idle" /\ Idle.queue = <<>> /\ Idle.todo = {} /\ Idle.tx = "none"
      /\ Idle.polls = NoPolls
  BY <1>1, <1>3 DEF Idle, TickState
<1> QED
  BY <1>3, <1>4

LEMMA IdleKnows == Knows(Idle)
<1>1. \A c \in Chains : DOMAIN Idle.polls[c].events = {}
  BY IdleTick, EmptySeq
<1>2. DOMAIN Idle.queue = {}
  BY IdleTick, EmptySeq
<1> QED
  BY <1>1, <1>2, IdleTick DEF Knows

\* An idle tick with a list to work on.
LEMMA ListKnows ==
    ASSUME NEW list \in SUBSET [id : Nat, attempts : Nat], list # {},
           \A r \in list : r.id \in DOMAIN rows
    PROVE  /\ [Idle EXCEPT !.at = "check", !.todo = list] \in TickState
           /\ Knows([Idle EXCEPT !.at = "check", !.todo = list])
<1> DEFINE new == [Idle EXCEPT !.at = "check", !.todo = list]
<1>1. /\ new \in TickState
      /\ new.at = "check" /\ new.queue = <<>> /\ new.todo = list /\ new.tx = "none"
      /\ new.polls = NoPolls
  BY IdleTick DEF TickState
<1>2. \A c \in Chains : DOMAIN new.polls[c].events = {}
  BY <1>1, IdleTick, EmptySeq
<1>3. DOMAIN new.queue = {}
  BY <1>1, EmptySeq
<1> HIDE DEF new
<1>4. Knows(new)
  BY <1>1, <1>2, <1>3 DEF Knows
<1> QED
  BY <1>1, <1>4 DEF new

-----------------------------------------------------------------------------
(* MintInv holds at the start, and each step of a watcher keeps it.        *)

LEMMA InitMints == ASSUME Init PROVE MintInv
<1>1. Types
  BY EmptySeq, IdleTick DEF Init, Types
<1>2. DOMAIN rows = {} /\ minted = [d \in Deposits |-> 0] /\ orphans = {} /\ \A c \in Chains : DOMAIN log[c] = {}
  BY EmptySeq DEF Init
<1>3. TicksKnow
  BY IdleKnows DEF Init, TicksKnow, Knows
<1> QED
  BY <1>1, <1>2, <1>3 DEF MintInv, FromLog, OneMintPerSalt, ReportedMinted

\* The poll of tick t at chain c gets the state p.
Polled(t, c, p) ==
    tick' = [tick EXCEPT ![t] = [tick[t] EXCEPT !.polls = [@ EXCEPT ![c] = p]]]

LEMMA PollStep ==
    ASSUME MintInv, UNCHANGED <<log, rows, minted, orphans>>,
           cursor' \in [Chains -> Nat], storedCursor' \in [Chains -> Nat], faults' \in Nat,
           NEW t \in Ticks, NEW c \in Chains, NEW p \in PollState,
           \A i \in DOMAIN p.events : Logged(p.events[i]), Polled(t, c, p)
    PROVE  MintInv'
<1> DEFINE new == [tick[t] EXCEPT !.polls = [@ EXCEPT ![c] = p]]
<1>1. new \in TickState /\ Knows(new)
  BY PollMoves
<1>2. tick' = [tick EXCEPT ![t] = new]
  BY DEF Polled
<1>3. orphans' \subseteq Deposits /\ \A d \in orphans' : Logged(d)
  BY DEF MintInv, Types, FromLog
<1> HIDE DEF new
<1> QED
  BY <1>1, <1>2, <1>3, QuietStep

\* What a poll carries was deposited.
LEMMA PollKnows ==
    ASSUME MintInv, NEW t \in Ticks, NEW c \in Chains
    PROVE  /\ tick[t] \in TickState
           /\ tick[t].polls[c] \in PollState
           /\ tick[t].polls[c].upto \in Nat
           /\ tick[t].polls[c].events \in Seq(Deposits)
           /\ \A i \in DOMAIN tick[t].polls[c].events : Logged(tick[t].polls[c].events[i])
<1>1. tick[t] \in TickState /\ Knows(tick[t])
  BY DEF MintInv, Types, TicksKnow
<1> QED
  BY <1>1 DEF TickState, PollState, Knows

\* The page begins after the cursor and ends within the log.
LEMMA PageBounds ==
    ASSUME NEW c, NEW from \in Nat, Len(log[c]) \in Nat, from <= Len(log[c])
    PROVE  LastOfPage(c, from) \in from .. Len(log[c])
<1> DEFINE safe == Len(log[c]) - Confirmations
           top == Max({from, safe})
<1>1. PageSize \in Nat /\ safe \in Int /\ safe <= Len(log[c])
  BY Constants
<1>2. top = IF from <= safe THEN safe ELSE from
  <2> HIDE DEF safe
  <2> QED
    BY <1>1, LesserAndGreater
<1>3. top \in from .. Len(log[c])
  <2> HIDE DEF safe, top
  <2> QED
    BY <1>1, <1>2
<1>4. LastOfPage(c, from) = Min({from + PageSize, top})
  BY DEF LastOfPage
<1> HIDE DEF top
<1>5. LastOfPage(c, from) = IF from + PageSize <= top THEN from + PageSize ELSE top
  BY <1>1, <1>3, <1>4, LesserAndGreater
<1> QED
  BY <1>1, <1>3, <1>5

\* The events of a page are those of the log between its bounds.
LEMMA PageOfLog ==
    ASSUME Types, NEW c \in Chains, NEW from \in Nat \ {0}, NEW last \in from .. Len(log[c])
    PROVE  /\ SubSeq(log[c], from, last) \in Seq(Deposits)
           /\ \A i \in from .. last : log[c][i] \in ToSet(SubSeq(log[c], from, last))
           /\ \A d \in ToSet(SubSeq(log[c], from, last)) : d \in ToSet(log[c])
<1> DEFINE s == log[c]
           e == SubSeq(s, from, last)
<1>1. s \in Seq(Deposits)
  BY DEF Types
<1> HIDE DEF s
<1>2. Len(s) \in Nat /\ \A i \in 1 .. Len(s) : s[i] \in Deposits
  BY <1>1, Elements
<1>3. last \in from .. Len(s) /\ from \in Int /\ last \in Int /\ from >= 1
  BY <1>2 DEF s
<1>4. \A i \in from .. last : i \in 1 .. Len(s)
  BY <1>2, <1>3
<1>5. /\ e \in Seq(Deposits)
      /\ Len(e) = last - from + 1
      /\ \A i \in 1 .. last - from + 1 : e[i] = s[from + i - 1]
  <2>1. \A i \in from .. last : s[i] \in Deposits
    BY <1>2, <1>4
  <2>2. /\ e \in Seq(Deposits)
        /\ Len(e) = IF from <= last THEN last - from + 1 ELSE 0
        /\ \A i \in 1 .. last - from + 1 : e[i] = s[from + i - 1]
    BY <1>3, <2>1, SubSeqProperties
  <2> QED
    BY <1>3, <2>2
<1> HIDE DEF e
<1>6. \A x : x \in ToSet(e) <=> \E i \in 1 .. last - from + 1 : x = e[i]
  BY <1>5, Elements
<1>7. \A x : x \in ToSet(s) <=> \E i \in 1 .. Len(s) : x = s[i]
  BY <1>1, Elements
<1>8. ASSUME NEW i \in from .. last
      PROVE  s[i] \in ToSet(e)
  <2>1. i - from + 1 \in 1 .. last - from + 1 /\ from + (i - from + 1) - 1 = i
    BY <1>3
  <2> QED
    BY <1>5, <1>6, <2>1
<1>9. ASSUME NEW d \in ToSet(e)
      PROVE  d \in ToSet(s)
  <2>1. PICK i \in 1 .. last - from + 1 : d = e[i]
    BY <1>6
  <2>2. from + i - 1 \in from .. last
    BY <1>3
  <2> QED
    BY <1>4, <1>5, <1>7, <2>1, <2>2
<1> QED
  BY <1>5, <1>8, <1>9 DEF s, e

LEMMA PageIsLogged ==
    ASSUME MintInv, NEW c \in Chains, NEW from \in Nat \ {0}, NEW last \in from .. Len(log[c])
    PROVE  LET e == SubSeq(log[c], from, last)
           IN  e \in Seq(Deposits) /\ \A i \in DOMAIN e : Logged(e[i])
<1> DEFINE e == SubSeq(log[c], from, last)
<1>1. e \in Seq(Deposits) /\ \A d \in ToSet(e) : d \in ToSet(log[c])
  BY PageOfLog DEF MintInv
<1> HIDE DEF e
<1>2. ASSUME NEW i \in DOMAIN e
      PROVE  Logged(e[i])
  <2>1. e[i] \in ToSet(log[c])
    BY <1>1 DEF ToSet
  <2>2. ChainOf[e[i]] = c
    BY <2>1 DEF MintInv, FromLog, ToSet
  <2> QED
    BY <2>1, <2>2 DEF Logged
<1> QED
  BY <1>1, <1>2 DEF e

\* The state of a poll that has read the head of chain c.
PageRead(c) ==
    LET from == cursor[c] + 1
    IN  IF from > Len(log[c]) THEN [NewPoll EXCEPT !.at = "done"]
        ELSE [at |-> "page", upto |-> LastOfPage(c, from),
              events |-> SubSeq(log[c], from, LastOfPage(c, from))]

LEMMA PageReadKnows ==
    ASSUME MintInv, NEW c \in Chains
    PROVE  /\ PageRead(c) \in PollState
           /\ \A i \in DOMAIN PageRead(c).events : Logged(PageRead(c).events[i])
<1>1. cursor[c] \in Nat /\ Len(log[c]) \in Nat
  BY Elements DEF MintInv, Types
<1> DEFINE from == cursor[c] + 1
           last == LastOfPage(c, from)
<1>2. CASE from > Len(log[c])
  <2>1. PageRead(c) = [at |-> "done", upto |-> 0, events |-> <<>>]
    BY <1>2 DEF PageRead, NewPoll
  <2> QED
    BY <2>1, EmptySeq DEF PollState
<1>3. CASE from <= Len(log[c])
  <2>1. from \in Nat \ {0} /\ last \in from .. Len(log[c])
    BY <1>1, <1>3, PageBounds
  <2>2. PageRead(c) = [at |-> "page", upto |-> last, events |-> SubSeq(log[c], from, last)]
    BY <1>1, <1>3 DEF PageRead
  <2> HIDE DEF from, last
  <2>3. /\ SubSeq(log[c], from, last) \in Seq(Deposits)
        /\ \A i \in DOMAIN SubSeq(log[c], from, last) : Logged(SubSeq(log[c], from, last)[i])
    BY <2>1, PageIsLogged
  <2>4. last \in Nat
    BY <1>1, <2>1
  <2> QED
    BY <2>2, <2>3, <2>4 DEF PollState
<1> QED
  BY <1>1, <1>2, <1>3

LEMMA ReadHeadPolls ==
    ASSUME MintInv, NEW t \in Ticks, NEW c \in Chains, ReadHead(t, c)
    PROVE  Polled(t, c, PageRead(c)) /\ UNCHANGED <<log, watcherVars, rows, minted, orphans, faults>>
  BY DEF ReadHead, Polled, PageRead

LEMMA ReadHeadMints ==
    ASSUME MintInv, NEW t \in Ticks, NEW c \in Chains, ReadHead(t, c)
    PROVE  MintInv'
<1>1. Polled(t, c, PageRead(c)) /\ UNCHANGED <<log, watcherVars, rows, minted, orphans, faults>>
  BY ReadHeadPolls
<1>2. cursor' \in [Chains -> Nat] /\ storedCursor' \in [Chains -> Nat] /\ faults' \in Nat
  BY <1>1 DEF MintInv, Types, watcherVars
<1> QED
  BY <1>1, <1>2, PageReadKnows, PollStep

\* The poll only moves on, whatever it carries.
LEMMA PollGoes ==
    ASSUME MintInv, NEW t \in Ticks, NEW c \in Chains, NEW place \in {"store", "done", "failed"},
           tick' = [tick EXCEPT ![t].polls[c].at = place]
    PROVE  LET p == [tick[t].polls[c] EXCEPT !.at = place]
           IN  /\ p \in PollState
               /\ p.at = place /\ p.upto = tick[t].polls[c].upto
               /\ p.events = tick[t].polls[c].events
               /\ \A i \in DOMAIN p.events : Logged(p.events[i])
               /\ Polled(t, c, p)
<1> DEFINE p == [tick[t].polls[c] EXCEPT !.at = place]
<1>1. /\ tick[t].polls[c] \in PollState
      /\ \A i \in DOMAIN tick[t].polls[c].events : Logged(tick[t].polls[c].events[i])
  BY PollKnows
<1>2. /\ p \in PollState
      /\ p.at = place /\ p.upto = tick[t].polls[c].upto
      /\ p.events = tick[t].polls[c].events
  BY <1>1 DEF PollState
<1>3. Polled(t, c, p)
  BY DEF Polled
<1> QED
  BY <1>1, <1>2, <1>3

LEMMA SavePageMints ==
    ASSUME MintInv, NEW t \in Ticks, NEW c \in Chains, SavePage(t, c) \/ StoreCursor(t, c)
    PROVE  MintInv'
<1>1. PICK place \in {"store", "done"} : tick' = [tick EXCEPT ![t].polls[c].at = place]
  BY DEF SavePage, StoreCursor
<1> DEFINE p == [tick[t].polls[c] EXCEPT !.at = place]
<1>2. /\ p \in PollState
      /\ \A i \in DOMAIN p.events : Logged(p.events[i])
      /\ Polled(t, c, p)
  BY <1>1, PollGoes
<1>3. /\ cursor' \in [Chains -> Nat] /\ storedCursor' \in [Chains -> Nat] /\ faults' \in Nat
      /\ UNCHANGED <<log, rows, minted, orphans>>
  BY PollKnows DEF SavePage, StoreCursor, MintInv, Types
<1> HIDE DEF p
<1> QED
  BY <1>2, <1>3, PollStep

LEMMA PollFailsMints ==
    ASSUME MintInv, NEW t \in Ticks, NEW c \in Chains, PollFails(t, c)
    PROVE  MintInv'
<1>1. tick' = [tick EXCEPT ![t].polls[c].at = "failed"]
  BY DEF PollFails
<1> DEFINE p == [tick[t].polls[c] EXCEPT !.at = "failed"]
<1>2. /\ p \in PollState
      /\ \A i \in DOMAIN p.events : Logged(p.events[i])
      /\ Polled(t, c, p)
  BY <1>1, PollGoes
<1>3. /\ cursor' \in [Chains -> Nat] /\ storedCursor' \in [Chains -> Nat] /\ faults' \in Nat
      /\ UNCHANGED <<log, rows, minted, orphans>>
  <2>1. /\ cursor \in [Chains -> Nat] /\ storedCursor \in [Chains -> Nat] /\ faults \in Nat
        /\ tick[t].polls[c].upto \in Nat
    BY PollKnows DEF MintInv, Types, PollState
  <2>2. \/ storedCursor' = storedCursor
        \/ storedCursor' = [storedCursor EXCEPT ![c] = tick[t].polls[c].upto]
    BY DEF PollFails
  <2>3. storedCursor' \in [Chains -> Nat]
    BY <2>1, <2>2
  <2> QED
    BY <2>1, <2>3 DEF PollFails, Fault
<1> HIDE DEF p
<1> QED
  BY <1>2, <1>3, PollStep

LEMMA SkipEventMints ==
    ASSUME MintInv, NEW t \in Ticks, NEW c \in Chains, SkipEvent(t, c)
    PROVE  MintInv'
<1> DEFINE q == tick[t].polls[c]
<1>1. /\ q \in PollState /\ q.events \in Seq(Deposits)
      /\ \A i \in DOMAIN q.events : Logged(q.events[i])
  BY PollKnows
<1>2. PICK k \in DOMAIN q.events :
         tick' = [tick EXCEPT ![t].polls[c] =
                     [@ EXCEPT !.at = "store", !.events = RemoveAt(q.events, k)]]
  BY DEF SkipEvent
<1>3. k \in 1 .. Len(q.events)
  BY <1>1, <1>2, Elements
<1> DEFINE e == RemoveAt(q.events, k)
           p == [q EXCEPT !.at = "store", !.events = e]
<1>4. e \in Seq(Deposits) /\ \A i \in DOMAIN e : \E j \in DOMAIN q.events : e[i] = q.events[j]
  BY <1>1, <1>3, OneDropped
<1>5. Polled(t, c, p)
  BY <1>2, Zenon DEF Polled
<1>6. p \in PollState /\ p.events = e
  <2> HIDE DEF e
  <2> QED
    BY <1>1, <1>4 DEF PollState
<1> HIDE DEF e
<1>7. \A i \in DOMAIN e : Logged(e[i])
  BY <1>1, <1>4
<1>8. /\ cursor' \in [Chains -> Nat] /\ storedCursor' \in [Chains -> Nat] /\ faults' \in Nat
      /\ UNCHANGED <<log, rows, minted, orphans>>
  <2>1. /\ cursor \in [Chains -> Nat] /\ storedCursor \in [Chains -> Nat] /\ faults \in Nat
        /\ q.upto \in Nat
    BY <1>1 DEF MintInv, Types, PollState
  <2>2. cursor' = [cursor EXCEPT ![c] = q.upto]
    BY DEF SkipEvent
  <2>3. cursor' \in [Chains -> Nat]
    BY <2>1, <2>2
  <2> QED
    BY <2>1, <2>3 DEF SkipEvent, Fault
<1> HIDE DEF p, q
<1> QED
  BY <1>5, <1>6, <1>7, <1>8, PollStep

-----------------------------------------------------------------------------
(* Each step of a tick keeps MintInv.                                      *)

LEMMA StaysInLog ==
    ASSUME MintInv
    PROVE  /\ cursor \in [Chains -> Nat] /\ storedCursor \in [Chains -> Nat] /\ faults \in Nat
           /\ faults + 1 \in Nat
           /\ orphans \subseteq Deposits /\ \A d \in orphans : Logged(d)
  BY DEF MintInv, Types, FromLog

LEMMA GoesIdle ==
    ASSUME MintInv, NEW t \in Ticks, tick' = [tick EXCEPT ![t] = Idle],
           UNCHANGED <<log, watcherVars, rows, minted, orphans>>, faults' \in Nat
    PROVE  MintInv'
<1>1. cursor' = cursor /\ storedCursor' = storedCursor
  BY DEF watcherVars
<1> QED
  BY <1>1, StaysInLog, IdleTick, IdleKnows, QuietStep

LEMMA StartTickMints ==
    ASSUME MintInv, NEW t \in Ticks, StartTick(t)
    PROVE  MintInv'
<1> DEFINE polls == [c \in Chains |-> NewPoll]
           new == [Idle EXCEPT !.at = "polls", !.polls = polls]
<1>1. polls \in [Chains -> PollState] /\ \A c \in Chains : polls[c].events = <<>>
  BY EmptySeq DEF NewPoll, PollState
<1>2. /\ new \in TickState
      /\ new.at = "polls" /\ new.queue = <<>> /\ new.todo = {} /\ new.tx = "none"
      /\ new.polls = polls
  <2> HIDE DEF polls
  <2> QED
    BY <1>1, IdleTick DEF TickState
<1>3. (\A c \in Chains : DOMAIN new.polls[c].events = {}) /\ DOMAIN new.queue = {}
  BY <1>1, <1>2, EmptySeq
<1>4. tick' = [tick EXCEPT ![t] = new] /\ cursor' = cursor /\ storedCursor' = storedCursor
      /\ UNCHANGED <<log, rows, minted, orphans, faults>>
  BY DEF StartTick, watcherVars
<1> HIDE DEF new, polls
<1>5. Knows(new)
  BY <1>2, <1>3 DEF Knows
<1> QED
  BY <1>2, <1>4, <1>5, StaysInLog, QuietStep

\* The queue that CollectPolls makes.
Collected(t) == FlattenSeq([i \in DOMAIN Order |-> tick[t].polls[Order[i]].events])

LEMMA CollectedIs ==
    ASSUME MintInv, NEW t \in Ticks
    PROVE  /\ Collected(t) \in Seq(Deposits)
           /\ \A d : d \in ToSet(Collected(t)) <=>
                        \E c \in Chains : d \in ToSet(tick[t].polls[c].events)
<1> DEFINE ss == [i \in DOMAIN Order |-> tick[t].polls[Order[i]].events]
           n == Len(Order)
<1>1. n \in Nat /\ DOMAIN Order = 1 .. n
  BY DepositAssumption
<1>2. \A i \in 1 .. n : Order[i] \in Chains /\ tick[t].polls[Order[i]].events \in Seq(Deposits)
  BY <1>1, Constants, PollKnows
<1>3. ss = [i \in 1 .. n |-> tick[t].polls[Order[i]].events]
  BY <1>1
<1> HIDE DEF ss, n
<1>4. ss \in [1 .. n -> Seq(Deposits)]
  BY <1>2, <1>3
<1>5. ss \in Seq(Seq(Deposits)) /\ Len(ss) = n
  BY <1>1, <1>4
<1>6. /\ FlattenSeq(ss) \in Seq(Deposits)
      /\ \A d : d \in ToSet(FlattenSeq(ss)) <=> \E i \in 1 .. n : d \in ToSet(ss[i])
  BY <1>5, Flattened
<1>7. Collected(t) = FlattenSeq(ss)
  BY DEF Collected, ss
<1>8. \A c \in Chains : \E i \in 1 .. n : Order[i] = c
  BY Constants DEF n
<1>9. \A d : (\E i \in 1 .. n : d \in ToSet(ss[i])) <=>
                \E c \in Chains : d \in ToSet(tick[t].polls[c].events)
  BY <1>2, <1>3, <1>8
<1> QED
  BY <1>6, <1>7, <1>9

LEMMA CollectPollsMints ==
    ASSUME MintInv, NEW t \in Ticks, CollectPolls(t)
    PROVE  MintInv'
<1> DEFINE queue == Collected(t)
           new == [Idle EXCEPT !.at = "enqueue", !.queue = queue]
<1>1. /\ queue \in Seq(Deposits)
      /\ \A d \in ToSet(queue) : \E c \in Chains : d \in ToSet(tick[t].polls[c].events)
  BY CollectedIs
<1>2. tick' = [tick EXCEPT ![t] = new] /\ cursor' = cursor /\ storedCursor' = storedCursor
      /\ UNCHANGED <<log, rows, minted, orphans, faults>>
  BY DEF CollectPolls, watcherVars, Collected
<1> HIDE DEF queue
<1>3. /\ new \in TickState
      /\ new.at = "enqueue" /\ new.queue = queue /\ new.todo = {} /\ new.tx = "none"
      /\ new.polls = NoPolls
  BY <1>1, IdleTick DEF TickState
<1>4. ASSUME NEW i \in DOMAIN queue
      PROVE  Logged(queue[i])
  <2>1. queue[i] \in ToSet(queue)
    BY DEF ToSet
  <2>2. PICK c \in Chains : queue[i] \in ToSet(tick[t].polls[c].events)
    BY <1>1, <2>1
  <2> QED
    BY <2>2, PollKnows DEF ToSet
<1>5. \A c \in Chains : DOMAIN new.polls[c].events = {}
  BY <1>3, IdleTick, EmptySeq
<1> HIDE DEF new
<1>6. Knows(new)
  BY <1>3, <1>4, <1>5 DEF Knows
<1> QED
  BY <1>2, <1>3, <1>6, StaysInLog, QuietStep

LEMMA RejectPollsMints ==
    ASSUME MintInv, NEW t \in Ticks, RejectPolls(t)
    PROVE  MintInv'
<1> DEFINE new == [tick[t] EXCEPT !.at = "rejected"]
<1>1. tick[t] \in TickState /\ Knows(tick[t]) /\ tick[t].at = "polls"
  BY DEF MintInv, Types, TicksKnow, RejectPolls, At
<1>2. /\ new \in TickState
      /\ new.at = "rejected" /\ new.queue = tick[t].queue /\ new.todo = tick[t].todo
      /\ new.tx = tick[t].tx /\ new.polls = tick[t].polls
  BY <1>1 DEF TickState
<1>3. tick' = [tick EXCEPT ![t] = new] /\ cursor' = cursor /\ storedCursor' = storedCursor
      /\ UNCHANGED <<log, rows, minted, orphans, faults>>
  BY DEF RejectPolls, Goto, watcherVars
<1> HIDE DEF new
<1>4. Knows(new)
  BY <1>1, <1>2 DEF Knows
<1> QED
  BY <1>2, <1>3, <1>4, StaysInLog, QuietStep

\* A row that keeps its deposit and says minted only when its salt was.
LEMMA RowRewritten ==
    ASSUME MintInv, NEW k \in DOMAIN rows, NEW r \in Row,
           rows' = [rows EXCEPT ![k] = r], r.deposit = rows[k].deposit,
           r.status = "minted" => SaltUsed(r.deposit),
           UNCHANGED <<log, minted, orphans>>
    PROVE  /\ rows' \in Seq(Row)
           /\ DOMAIN rows' = DOMAIN rows
           /\ FromLog' /\ OneMintPerSalt' /\ ReportedMinted'
           /\ Grows
<1>1. rows \in Seq(Row) /\ k \in 1 .. Len(rows)
  BY Elements DEF MintInv, Types
<1>2. rows' \in Seq(Row) /\ DOMAIN rows' = DOMAIN rows
  BY <1>1, ExceptSeq
<1>3. \A i \in DOMAIN rows : rows'[i].deposit = rows[i].deposit
  OBVIOUS
<1>4. FromLog'
  BY <1>2, <1>3 DEF MintInv, FromLog, Logged
<1>5. OneMintPerSalt'
  BY DEF MintInv, OneMintPerSalt
<1>6. ReportedMinted'
  BY <1>2, <1>3 DEF MintInv, ReportedMinted, SaltUsed
<1>7. Grows
  BY <1>2, <1>3 DEF Grows, Logged
<1> QED
  BY <1>2, <1>4, <1>5, <1>6, <1>7

\* A step that rewrites the row at hand and goes on to the next.
LEMMA RowDone ==
    ASSUME MintInv, NEW t \in Ticks, tick[t].todo # {}, NextRow(t),
           NEW r \in Row, rows' = [rows EXCEPT ![Current(t).id] = r],
           r.deposit = CurrentDeposit(t), r.status = "minted" => SaltUsed(CurrentDeposit(t)),
           UNCHANGED <<log, watcherVars, minted, orphans, faults>>
    PROVE  MintInv'
<1>1. Knows(tick[t]) /\ Current(t).id \in DOMAIN rows
  BY CurrentIsARow DEF MintInv, TicksKnow
<1>2. /\ rows' \in Seq(Row)
      /\ DOMAIN rows' = DOMAIN rows
      /\ FromLog' /\ OneMintPerSalt' /\ ReportedMinted'
      /\ Grows
  BY <1>1, RowRewritten DEF CurrentDeposit
<1> DEFINE rest == tick[t].todo \ {Current(t)}
           new == IF rest = {} THEN Idle ELSE [Idle EXCEPT !.at = "check", !.todo = rest]
<1>3. rest \in SUBSET [id : Nat, attempts : Nat] /\ \A q \in rest : q.id \in DOMAIN rows
  BY <1>1 DEF MintInv, Types, TickState, Knows
<1>4. new \in TickState /\ Knows(new)
  <2>1. CASE rest = {}
    BY <2>1, IdleTick, IdleKnows
  <2>2. CASE rest # {}
    BY <1>3, <2>2, ListKnows
  <2> QED
    BY <2>1, <2>2
<1>5. tick' = [tick EXCEPT ![t] = new]
  BY DEF NextRow
<1>6. PICK k \in TickState : k = new
  BY <1>4
<1> HIDE DEF new
<1>7. Knows(k)'
  <2>1. Knows(k)
    BY <1>4, <1>6
  <2> QED
    BY <1>2, <2>1, KnowledgeStays DEF MintInv
<1>8. tick' \in [Ticks -> TickState] /\ TicksKnow'
  <2>1. tick' = [tick EXCEPT ![t] = k]
    BY <1>5, <1>6
  <2> QED
    BY <1>2, <1>7, <2>1, OneTickMoves
<1>9. Types'
  BY <1>2, <1>8 DEF MintInv, Types, watcherVars
<1> QED
  BY <1>2, <1>8, <1>9 DEF MintInv

LEMMA ForgetPollsMints ==
    ASSUME MintInv, NEW t \in Ticks, ForgetPolls(t) \/ TickFails(t)
    PROVE  MintInv'
  BY GoesIdle, StaysInLog DEF ForgetPolls, TickFails, Fault

LEMMA EnqueueMints ==
    ASSUME MintInv, NEW t \in Ticks, Enqueue(t)
    PROVE  /\ MintInv'
           /\ \E i \in DOMAIN rows' : rows'[i].deposit = Head(tick[t].queue)
           /\ \A d : HasRow(d) => HasRow(d)'
<1> DEFINE q == tick[t].queue
           new == [tick[t] EXCEPT !.queue = Tail(q)]
           d == Head(q)
<1>1. tick[t] \in TickState /\ Knows(tick[t]) /\ tick[t].at = "enqueue"
  BY DEF MintInv, Types, TicksKnow, Enqueue, At
<1>2. q \in Seq(Deposits) /\ q # <<>>
  BY <1>1 DEF TickState, Enqueue
<1>3. /\ d \in Deposits /\ Logged(d)
      /\ Tail(q) \in Seq(Deposits)
      /\ \A i \in DOMAIN Tail(q) : Logged(Tail(q)[i])
  <2>1. \A i \in 1 .. Len(q) : Logged(q[i])
    BY <1>1, <1>2, Elements DEF Knows
  <2>2. Len(q) \in Nat \ {0} /\ d = q[1] /\ d \in Deposits
    BY <1>2
  <2>3. /\ Tail(q) \in Seq(Deposits) /\ Len(Tail(q)) = Len(q) - 1
        /\ \A i \in 1 .. Len(Tail(q)) : Tail(q)[i] = q[i + 1]
    BY <1>2, HeadTailProperties
  <2>4. DOMAIN Tail(q) = 1 .. Len(q) - 1
    BY <2>3, Elements
  <2>5. \A i \in 1 .. Len(q) - 1 : i + 1 \in 1 .. Len(q)
    BY <2>2
  <2> QED
    BY <2>1, <2>2, <2>3, <2>4, <2>5
<1>4. tick' = [tick EXCEPT ![t] = new] /\ rows' = WithRow(d)
      /\ UNCHANGED <<log, cursor, storedCursor, minted, orphans, faults>>
  BY DEF Enqueue, watcherVars
<1>5. /\ new \in TickState
      /\ new.at = "enqueue" /\ new.queue = Tail(q) /\ new.todo = tick[t].todo
      /\ new.tx = tick[t].tx /\ new.polls = tick[t].polls
  <2> HIDE DEF q
  <2> QED
    BY <1>1, <1>3 DEF TickState
<1> HIDE DEF new, d
<1>6. /\ rows' \in Seq(Row) /\ Grows /\ FromLog' /\ ReportedMinted'
      /\ \E i \in DOMAIN rows' : rows'[i].deposit = d
  <2>1. CASE HasRow(d)
    <3>1. rows' = rows
      BY <1>4, <2>1 DEF WithRow
    <3> QED
      BY <1>4, <2>1, <3>1 DEF MintInv, Types, Grows, FromLog, ReportedMinted, Logged,
         SaltUsed, HasRow
  <2>2. CASE ~HasRow(d)
    <3>1. PICK r \in Row : r.deposit = d /\ r.status # "minted" /\ rows' = Append(rows, r)
      <4>1. \A st \in {"failed", "pending"}, n \in {0, 1} :
               /\ [deposit |-> d, status |-> st, attempts |-> n] \in Row
               /\ [deposit |-> d, status |-> st, attempts |-> n].deposit = d
               /\ [deposit |-> d, status |-> st, attempts |-> n].status # "minted"
        BY <1>3 DEF Row
      <4> QED
        BY <1>4, <2>2, <4>1 DEF WithRow
    <3>2. /\ rows \in Seq(Row) /\ Len(rows) \in Nat /\ DOMAIN rows = 1 .. Len(rows)
      BY Elements DEF MintInv, Types
    <3>3. /\ rows' \in Seq(Row)
          /\ rows'[Len(rows) + 1] = r
          /\ \A i \in 1 .. Len(rows) : rows'[i] = rows[i]
          /\ DOMAIN rows' = 1 .. Len(rows) + 1
          /\ \A i \in 1 .. Len(rows) + 1 : i \in 1 .. Len(rows) \/ i = Len(rows) + 1
      BY <3>1, <3>2, Appended
    <3>4. /\ \A i \in 1 .. Len(rows) : i \in 1 .. Len(rows) + 1
          /\ Len(rows) + 1 \in 1 .. Len(rows) + 1
      BY <3>2
    <3>5. Grows
      BY <1>4, <3>2, <3>3, <3>4 DEF Grows, Logged
    <3>6. FromLog'
      <4>1. \A i \in DOMAIN rows' : Logged(rows'[i].deposit)
        BY <1>3, <3>1, <3>2, <3>3 DEF MintInv, FromLog
      <4> QED
        BY <1>4, <4>1 DEF MintInv, FromLog, Logged
    <3>7. ReportedMinted'
      BY <1>4, <3>1, <3>2, <3>3 DEF MintInv, ReportedMinted, SaltUsed
    <3> QED
      BY <3>1, <3>3, <3>4, <3>5, <3>6, <3>7
  <2> QED
    BY <2>1, <2>2
<1>7. Knows(new)
  BY <1>1, <1>3, <1>5 DEF Knows
<1>8. PICK k \in TickState : k = new
  BY <1>5
<1>9. Knows(k)'
  <2>1. Knows(k)
    BY <1>7, <1>8
  <2> QED
    BY <1>6, <2>1, KnowledgeStays DEF MintInv
<1>10. tick' \in [Ticks -> TickState] /\ TicksKnow'
  <2>1. tick' = [tick EXCEPT ![t] = k]
    BY <1>4, <1>8
  <2> QED
    BY <1>6, <1>9, <2>1, OneTickMoves
<1>11. Types' /\ OneMintPerSalt'
  BY <1>4, <1>6, <1>10 DEF MintInv, Types, OneMintPerSalt
<1>12. \E i \in DOMAIN rows' : rows'[i].deposit = Head(tick[t].queue)
  BY <1>6 DEF d
<1>13. ASSUME NEW e, HasRow(e)
       PROVE  HasRow(e)'
  BY <1>6, <1>13 DEF HasRow, Grows
<1> QED
  BY <1>6, <1>10, <1>11, <1>12, <1>13 DEF MintInv

LEMMA ListMintsMints ==
    ASSUME MintInv, NEW t \in Ticks, ListMints(t)
    PROVE  MintInv'
<1>1. CASE Batch = {}
  BY <1>1, GoesIdle, StaysInLog DEF ListMints
<1>2. CASE Batch # {}
  <2> DEFINE list == {[id |-> i, attempts |-> rows[i].attempts] : i \in Batch}
             new == [Idle EXCEPT !.at = "check", !.todo = list]
  <2>1. \A i \in Batch : i \in DOMAIN rows /\ i \in Nat /\ rows[i].attempts \in Nat
    <3>1. DOMAIN rows = 1 .. Len(rows) /\ \A i \in 1 .. Len(rows) : rows[i] \in Row
      BY Elements DEF MintInv, Types
    <3> QED
      BY <3>1 DEF Batch, PendingRows, Row
  <2>2. list \in SUBSET [id : Nat, attempts : Nat] /\ list # {}
        /\ \A r \in list : r.id \in DOMAIN rows
    <3>1. \A r \in list : \E i \in Batch : r = [id |-> i, attempts |-> rows[i].attempts]
      OBVIOUS
    <3>2. list # {}
      BY <1>2
    <3> HIDE DEF list
    <3> QED
      BY <2>1, <3>1, <3>2
  <2>3. tick' = [tick EXCEPT ![t] = new] /\ cursor' = cursor /\ storedCursor' = storedCursor
        /\ UNCHANGED <<log, rows, minted, orphans, faults>>
    BY <1>2 DEF ListMints, watcherVars
  <2> HIDE DEF list
  <2>4. new \in TickState /\ Knows(new)
    BY <2>2, ListKnows
  <2> HIDE DEF new
  <2> QED
    BY <2>3, <2>4, StaysInLog, QuietStep
<1> QED
  BY <1>1, <1>2

\* A step that keeps the tick with its list.
LEMMA PlaceStep ==
    ASSUME MintInv, NEW t \in Ticks, tick[t].todo # {},
           NEW place \in {"check", "wait", "mark", "fail"},
           NEW x \in {"none", "pending", "done", "replayed"},
           x # "none" => place = "wait",
           place = "mark" \/ x \in {"done", "replayed"} => SaltUsed(CurrentDeposit(t)),
           tick' = [tick EXCEPT ![t] = [tick[t] EXCEPT !.at = place, !.tx = x]],
           UNCHANGED <<log, watcherVars, rows, minted>>, faults' \in Nat,
           orphans' \subseteq Deposits, \A d \in orphans' : Logged(d)
    PROVE  MintInv'
<1> DEFINE new == [tick[t] EXCEPT !.at = place, !.tx = x]
<1>1. new \in TickState /\ Knows(new)
  BY PlaceMoves
<1>2. tick' = [tick EXCEPT ![t] = new] /\ cursor' = cursor /\ storedCursor' = storedCursor
  BY DEF watcherVars
<1> HIDE DEF new
<1> QED
  BY <1>1, <1>2, StaysInLog, QuietStep

\* A tick that works on a row holds it, and knows its salt when it says so.
LEMMA Working ==
    ASSUME MintInv, NEW t \in Ticks, tick[t].at \in {"check", "wait", "mark", "fail"}
    PROVE  /\ tick[t] \in TickState /\ tick[t].todo # {}
           /\ Current(t).id \in DOMAIN rows /\ rows[Current(t).id] \in Row
           /\ Attempt(t) \in Nat
           /\ CurrentDeposit(t) \in Deposits /\ Logged(CurrentDeposit(t))
           /\ tick[t].at = "mark" \/ tick[t].tx \in {"done", "replayed"}
                  => SaltUsed(CurrentDeposit(t))
           /\ tick[t].tx # "none" => tick[t].at = "wait"
<1>1. tick[t] \in TickState /\ Knows(tick[t]) /\ tick[t].todo # {}
  BY DEF MintInv, Types, TicksKnow, Knows
<1>2. /\ Current(t) = First(tick[t].todo)
      /\ Current(t).id \in DOMAIN rows
      /\ Attempt(t) \in Nat
      /\ CurrentDeposit(t) \in Deposits /\ Logged(CurrentDeposit(t))
  BY <1>1, CurrentIsARow DEF MintInv
<1>3. rows[Current(t).id] \in Row
  BY <1>2, Elements DEF MintInv, Types
<1> QED
  BY <1>1, <1>2, <1>3 DEF Knows, CurrentDeposit

LEMMA AttemptFailsMints ==
    ASSUME MintInv, NEW t \in Ticks, AttemptFails(t) \/ MarkFails(t)
    PROVE  MintInv'
<1>1. tick[t].at \in {"check", "mark"} /\ tick' = [tick EXCEPT ![t].at = "fail"]
  BY DEF AttemptFails, MarkFails, At, Goto
<1>2. tick[t] \in TickState /\ tick[t].todo # {} /\ tick[t].tx = "none"
  BY <1>1, Working
<1>3. [tick[t] EXCEPT !.at = "fail"] = [tick[t] EXCEPT !.at = "fail", !.tx = "none"]
  BY <1>2 DEF TickState
<1>4. tick' = [tick EXCEPT ![t] = [tick[t] EXCEPT !.at = "fail", !.tx = "none"]]
  BY <1>1, <1>3
<1>5. /\ UNCHANGED <<log, watcherVars, rows, minted>> /\ faults' \in Nat
      /\ orphans' \subseteq Deposits /\ \A d \in orphans' : Logged(d)
  BY StaysInLog DEF AttemptFails, MarkFails, Fault
<1> QED
  BY <1>2, <1>4, <1>5, PlaceStep

LEMMA ConfirmMints ==
    ASSUME MintInv, NEW t \in Ticks, Confirm(t)
    PROVE  MintInv'
<1>1. PICK place \in {"mark", "fail"} :
         tick' = [tick EXCEPT ![t] = [tick[t] EXCEPT !.at = place, !.tx = "none"]]
  BY DEF Confirm
<1>2. tick[t].at = "wait" /\ tick[t].tx \in {"done", "replayed"}
  BY DEF Confirm, At
<1>3. /\ UNCHANGED <<log, watcherVars, rows, minted>> /\ faults' \in Nat
      /\ orphans' \subseteq Deposits /\ \A d \in orphans' : Logged(d)
  BY StaysInLog DEF Confirm
<1> QED
  BY <1>1, <1>2, <1>3, Working, PlaceStep

LEMMA WaitFailsMints ==
    ASSUME MintInv, NEW t \in Ticks, WaitFails(t)
    PROVE  MintInv'
<1>1. /\ tick[t].at = "wait"
      /\ tick' = [tick EXCEPT ![t] = [tick[t] EXCEPT !.at = "fail", !.tx = "none"]]
      /\ UNCHANGED <<log, watcherVars, rows, minted>> /\ faults' \in Nat
  BY StaysInLog DEF WaitFails, At, Fault
<1>2. orphans' \subseteq orphans \cup {CurrentDeposit(t)}
  BY DEF WaitFails
<1>3. orphans' \subseteq Deposits /\ \A d \in orphans' : Logged(d)
  BY <1>1, <1>2, Working, StaysInLog
<1> QED
  BY <1>1, <1>3, Working, PlaceStep

LEMMA CheckMints ==
    ASSUME MintInv, NEW t \in Ticks, Check(t)
    PROVE  MintInv'
<1>1. /\ tick[t].at = "check"
      /\ UNCHANGED <<log, watcherVars, minted, orphans, faults>>
  BY DEF Check, At
<1>2. CASE Attempt(t) > MaxAttempts
  <2> DEFINE r == [rows[Current(t).id] EXCEPT !.status = "failed", !.attempts = Attempt(t)]
  <2>1. rows' = [rows EXCEPT ![Current(t).id] = r] /\ NextRow(t)
    BY <1>1, <1>2, Working DEF Check
  <2>2. r \in Row /\ r.deposit = CurrentDeposit(t) /\ r.status # "minted"
    BY <1>1, Working DEF Row, CurrentDeposit
  <2> HIDE DEF r
  <2> QED
    BY <1>1, <2>1, <2>2, Working, RowDone
<1>3. CASE ~ (Attempt(t) > MaxAttempts)
  <2>1. /\ tick' = [tick EXCEPT ![t] = [tick[t] EXCEPT !.at = "wait", !.tx = "pending"]]
        /\ rows' = rows
    BY <1>3 DEF Check
  <2> QED
    BY <1>1, <2>1, Working, StaysInLog, PlaceStep
<1> QED
  BY <1>2, <1>3

LEMMA MarkMintedMints ==
    ASSUME MintInv, NEW t \in Ticks, MarkMinted(t) \/ RecordFailure(t)
    PROVE  MintInv'
<1>1. /\ tick[t].at \in {"mark", "fail"} /\ NextRow(t)
      /\ UNCHANGED <<log, watcherVars, minted, orphans, faults>>
  BY DEF MarkMinted, RecordFailure, At
<1> DEFINE m == [rows[Current(t).id] EXCEPT !.status = "minted"]
           f == [rows[Current(t).id] EXCEPT !.attempts = Attempt(t)]
<1>2. rows[Current(t).id] \in Row /\ Current(t).id \in DOMAIN rows /\ Attempt(t) \in Nat
  BY <1>1, Working
<1>3. m \in Row /\ m.deposit = CurrentDeposit(t)
  BY <1>2 DEF Row, CurrentDeposit
<1>4. /\ f \in Row /\ f.deposit = CurrentDeposit(t)
      /\ f.status = "minted" => SaltUsed(CurrentDeposit(t))
  BY <1>2 DEF Row, CurrentDeposit, MintInv, ReportedMinted
<1>5. CASE MarkMinted(t)
  <2>1. rows' = [rows EXCEPT ![Current(t).id] = m]
    BY <1>5 DEF MarkMinted
  <2>2. SaltUsed(CurrentDeposit(t)) /\ tick[t].todo # {}
    BY <1>5, Working DEF MarkMinted, At
  <2> HIDE DEF m
  <2> QED
    BY <1>1, <1>3, <2>1, <2>2, RowDone
<1>6. CASE RecordFailure(t)
  <2>1. rows' = [rows EXCEPT ![Current(t).id] = f]
    BY <1>6 DEF RecordFailure
  <2>2. tick[t].todo # {}
    BY <1>1, Working
  <2> HIDE DEF f
  <2> QED
    BY <1>1, <1>4, <2>1, <2>2, RowDone
<1> QED
  BY <1>5, <1>6

-----------------------------------------------------------------------------
(* Each step of the chains and the end of the process keep MintInv.        *)

\* An accepted wrap mints a deposit that was made, under a salt never used.
LEMMA WrapMints ==
    ASSUME MintInv, NEW d \in Deposits, Logged(d), UNCHANGED <<log, rows>>,
           Wrap(d) \/ (SaltUsed(d) /\ UNCHANGED minted)
    PROVE  /\ minted' \in [Deposits -> Nat]
           /\ \A e \in Deposits : minted'[e] > 0 => Logged(e)'
           /\ OneMintPerSalt' /\ ReportedMinted' /\ Grows
           /\ SaltUsed(d)'
<1>1. minted \in [Deposits -> Nat] /\ log' = log /\ rows' = rows
  BY DEF MintInv, Types
<1>2. CASE SaltUsed(d) /\ UNCHANGED minted
  BY <1>1, <1>2 DEF MintInv, FromLog, OneMintPerSalt, ReportedMinted, Grows, Logged, SaltUsed
<1>3. CASE Wrap(d)
  <2>1. /\ \A e \in Deposits : SaltOf[e] = SaltOf[d] => ~(minted[e] > 0)
        /\ minted' = [minted EXCEPT ![d] = @ + 1]
    BY <1>3 DEF Wrap, SaltUsed
  <2>2. /\ minted' \in [Deposits -> Nat]
        /\ \A e \in Deposits : e # d => minted'[e] = minted[e]
        /\ minted[d] = 0 /\ minted'[d] = 1
    BY <1>1, <2>1
  <2>3. \A e \in Deposits : minted[e] > 0 => minted'[e] > 0
    BY <2>2
  <2>4. \A e \in Deposits : minted'[e] > 0 => Logged(e)'
    BY <1>1, <2>2 DEF MintInv, FromLog, Logged
  <2>5. OneMintPerSalt'
    <3>1. \A e \in Deposits : minted'[e] <= 1
      BY <2>2 DEF MintInv, OneMintPerSalt
    <3>2. \A e \in Deposits : SaltOf[e] = SaltOf[d] /\ minted'[e] > 0 => e = d
      BY <2>1, <2>2
    <3>3. ASSUME NEW e \in Deposits, NEW f \in Deposits,
                 SaltOf[e] = SaltOf[f], minted'[e] > 0, minted'[f] > 0
          PROVE  e = f
      <4>1. CASE e = d \/ f = d
        BY <3>2, <3>3, <4>1
      <4>2. CASE e # d /\ f # d
        BY <2>2, <3>3, <4>2 DEF MintInv, OneMintPerSalt
      <4> QED
        BY <4>1, <4>2
    <3> QED
      BY <3>1, <3>3 DEF OneMintPerSalt
  <2>6. ReportedMinted'
    BY <1>1, <2>3 DEF MintInv, ReportedMinted, SaltUsed
  <2>7. Grows
    BY <1>1, <2>3 DEF Grows, Logged
  <2>8. SaltUsed(d)'
    BY <2>2 DEF SaltUsed
  <2> QED
    BY <2>2, <2>4, <2>5, <2>6, <2>7, <2>8
<1> QED
  BY <1>2, <1>3

LEMMA LandAwaitedMints ==
    ASSUME MintInv, NEW t \in Ticks, LandAwaited(t)
    PROVE  MintInv'
<1>1. PICK x \in {"done", "replayed"} : tick' = [tick EXCEPT ![t].tx = x]
  BY DEF LandAwaited
<1>2. /\ tick[t] \in TickState /\ Knows(tick[t]) /\ tick[t].tx = "pending"
      /\ tick[t].at = "wait"
  BY DEF MintInv, Types, TicksKnow, Knows, LandAwaited
<1>3. PICK d \in Deposits : d = CurrentDeposit(t) /\ Logged(d)
  BY <1>2, Working
<1>4. /\ UNCHANGED <<log, watcherVars, rows, orphans, faults>>
      /\ Wrap(d) \/ (SaltUsed(d) /\ UNCHANGED minted)
  BY <1>3 DEF LandAwaited
<1>5. /\ minted' \in [Deposits -> Nat]
      /\ \A e \in Deposits : minted'[e] > 0 => Logged(e)'
      /\ OneMintPerSalt' /\ ReportedMinted' /\ Grows
      /\ SaltUsed(d)'
  BY <1>3, <1>4, WrapMints
<1> DEFINE new == [tick[t] EXCEPT !.tx = x]
<1>6. /\ new \in TickState
      /\ new.at = "wait" /\ new.queue = tick[t].queue /\ new.todo = tick[t].todo
      /\ new.tx = x /\ new.polls = tick[t].polls
  BY <1>2 DEF TickState
<1>7. tick' = [tick EXCEPT ![t] = new]
  BY <1>1
<1> HIDE DEF new
<1>8. PICK k \in TickState : k = new
  BY <1>6
<1>9. Knows(k)'
  <2>1. Knows([tick[t] EXCEPT !.tx = "none"])
    <3> DEFINE quiet == [tick[t] EXCEPT !.tx = "none"]
    <3>1. /\ quiet.at = "wait" /\ quiet.queue = tick[t].queue /\ quiet.todo = tick[t].todo
          /\ quiet.tx = "none" /\ quiet.polls = tick[t].polls
      BY <1>2 DEF TickState
    <3> HIDE DEF quiet
    <3>2. Knows(quiet)
      BY <1>2, <3>1 DEF Knows
    <3> QED
      BY <3>2 DEF quiet
  <2>2. PICK z \in TickState : z = [tick[t] EXCEPT !.tx = "none"]
    BY <1>2 DEF TickState
  <2>3. Knows(z)'
    BY <1>5, <2>1, <2>2, KnowledgeStays DEF MintInv
  <2>4. /\ z.at = "wait" /\ z.queue = k.queue /\ z.todo = k.todo /\ z.polls = k.polls
        /\ k.at = "wait" /\ k.tx = x
    BY <1>2, <1>6, <1>8, <2>2 DEF TickState
  <2>5. SaltUsed(rows[First(k.todo).id].deposit)'
    <3>1. rows[First(k.todo).id].deposit = d
      BY <1>3, <1>6, <1>8 DEF CurrentDeposit, Current, First
    <3> QED
      BY <1>4, <1>5, <3>1 DEF SaltUsed
  <2> QED
    BY <2>3, <2>4, <2>5 DEF Knows
<1>10. tick' \in [Ticks -> TickState] /\ TicksKnow'
  <2>1. tick' = [tick EXCEPT ![t] = k]
    BY <1>7, <1>8
  <2> QED
    BY <1>5, <1>9, <2>1, OneTickMoves
<1>11. FromLog'
  BY <1>4, <1>5 DEF MintInv, FromLog, Logged
<1>12. Types'
  BY <1>4, <1>5, <1>10 DEF MintInv, Types, watcherVars
<1> QED
  BY <1>5, <1>10, <1>11, <1>12 DEF MintInv

\* A step that moves no tick.
LEMMA TicksStay ==
    ASSUME MintInv, Grows, tick' = tick
    PROVE  TicksKnow'
<1> SUFFICES ASSUME NEW q \in Ticks
             PROVE  Knows(tick[q])'
  BY DEF TicksKnow
<1>1. PICK k \in TickState : k = tick[q] /\ Knows(k)
  BY DEF MintInv, Types, TicksKnow
<1>2. Knows(k)'
  BY <1>1, KnowledgeStays DEF MintInv
<1> QED
  BY <1>1, <1>2 DEF Knows

LEMMA LandOrphanMints ==
    ASSUME MintInv, NEW d \in Deposits, LandOrphan(d)
    PROVE  MintInv'
<1>1. /\ Logged(d) /\ orphans' \subseteq orphans
      /\ UNCHANGED <<log, cursor, storedCursor, rows, tick, faults>>
      /\ Wrap(d) \/ (SaltUsed(d) /\ UNCHANGED minted)
  BY DEF LandOrphan, MintInv, FromLog, watcherVars
<1>2. /\ minted' \in [Deposits -> Nat]
      /\ \A e \in Deposits : minted'[e] > 0 => Logged(e)'
      /\ OneMintPerSalt' /\ ReportedMinted' /\ Grows
  BY <1>1, WrapMints
<1>3. FromLog'
  BY <1>1, <1>2 DEF MintInv, FromLog, Logged
<1>4. Types' /\ TicksKnow'
  BY <1>1, <1>2, TicksStay DEF MintInv, Types
<1> QED
  BY <1>2, <1>3, <1>4 DEF MintInv

\* A deposit is appended to the log of its chain.
LEMMA DepositAppends ==
    ASSUME MintInv, NEW d \in Deposits, Deposit(d)
    PROVE  /\ log' \in [Chains -> Seq(Deposits)]
           /\ \A c \in Chains :
                 /\ Len(log[c]) \in Nat
                 /\ Len(log[c]) <= Len(log'[c]) /\ Len(log'[c]) \in Nat
                 /\ \A i \in 1 .. Len(log[c]) : log'[c][i] = log[c][i]
                 /\ \A i \in 1 .. Len(log'[c]) : \/ i \in 1 .. Len(log[c])
                                                 \/ log'[c][i] = d /\ c = ChainOf[d]
<1> DEFINE own == ChainOf[d]
<1>1. own \in Chains /\ log \in [Chains -> Seq(Deposits)]
  BY Constants DEF MintInv, Types
<1>2. log' = [log EXCEPT ![own] = Append(log[own], d)]
  BY DEF Deposit
<1>3. \A c \in Chains : log'[c] = IF c = own THEN Append(log[own], d) ELSE log[c]
  BY <1>1, <1>2
<1> HIDE DEF own
<1>4. /\ Append(log[own], d) \in Seq(Deposits)
      /\ Len(log[own]) \in Nat
      /\ Len(Append(log[own], d)) = Len(log[own]) + 1
      /\ Append(log[own], d)[Len(log[own]) + 1] = d
      /\ \A i \in 1 .. Len(log[own]) : Append(log[own], d)[i] = log[own][i]
      /\ \A i \in 1 .. Len(log[own]) + 1 : i \in 1 .. Len(log[own]) \/ i = Len(log[own]) + 1
  BY <1>1, Appended, Elements
<1>5. log' \in [Chains -> Seq(Deposits)]
  BY <1>1, <1>2, <1>4
<1>6. ASSUME NEW c \in Chains
      PROVE  /\ Len(log[c]) \in Nat
             /\ Len(log[c]) <= Len(log'[c]) /\ Len(log'[c]) \in Nat
             /\ \A i \in 1 .. Len(log[c]) : log'[c][i] = log[c][i]
             /\ \A i \in 1 .. Len(log'[c]) : \/ i \in 1 .. Len(log[c])
                                             \/ log'[c][i] = d /\ c = own
  <2>1. CASE c = own
    <3> DEFINE a == Append(log[own], d)
    <3>1. log'[c] = a /\ log[c] = log[own]
      BY <1>3, <2>1
    <3>2. /\ Len(a) = Len(log[own]) + 1 /\ a[Len(log[own]) + 1] = d
          /\ \A i \in 1 .. Len(log[own]) : a[i] = log[own][i]
          /\ \A i \in 1 .. Len(log[own]) + 1 : i \in 1 .. Len(log[own]) \/ i = Len(log[own]) + 1
      BY <1>4
    <3>3. Len(log[own]) \in Nat
      BY <1>4
    <3> HIDE DEF a
    <3> QED
      BY <2>1, <3>1, <3>2, <3>3
  <2>2. CASE c # own
    <3>1. log'[c] = log[c] /\ Len(log[c]) \in Nat
      BY <1>1, <1>3, <2>2, Elements
    <3> QED
      BY <3>1
  <2> QED
    BY <2>1, <2>2
<1> QED
  BY <1>5, <1>6 DEF own

LEMMA DepositMints ==
    ASSUME MintInv, NEW d \in Deposits, Deposit(d)
    PROVE  MintInv'
<1>1. UNCHANGED <<cursor, storedCursor, rows, minted, tick, orphans, faults>>
  BY DEF Deposit, watcherVars
<1>2. log' \in [Chains -> Seq(Deposits)]
  BY DepositAppends
<1>3. \A e \in Deposits : Logged(e) => Logged(e)'
  <2> SUFFICES ASSUME NEW e \in Deposits, Logged(e)
               PROVE  Logged(e)'
    OBVIOUS
  <2>1. PICK c \in Chains : c = ChainOf[e]
    BY Constants
  <2>2. log[c] \in Seq(Deposits) /\ log'[c] \in Seq(Deposits)
    BY <1>2 DEF MintInv, Types
  <2>3. PICK i \in 1 .. Len(log[c]) : e = log[c][i]
    BY <2>1, <2>2, Elements DEF Logged
  <2>4. i \in 1 .. Len(log'[c]) /\ log'[c][i] = e
    BY <2>3, DepositAppends
  <2> QED
    BY <2>1, <2>2, <2>4, Elements DEF Logged
<1>4. Grows
  BY <1>1, <1>3 DEF Grows
<1>5. FromLog'
  <2>1. ASSUME NEW c \in Chains, NEW i \in DOMAIN log'[c]
        PROVE  ChainOf[log'[c][i]] = c
    <3>1. i \in 1 .. Len(log'[c]) /\ DOMAIN log[c] = 1 .. Len(log[c])
      BY <1>2, <2>1, Elements DEF MintInv, Types
    <3>2. CASE i \in 1 .. Len(log[c])
      BY <3>1, <3>2, DepositAppends DEF MintInv, FromLog
    <3>3. CASE log'[c][i] = d /\ c = ChainOf[d]
      BY <3>3
    <3> QED
      BY <3>1, <3>2, <3>3, DepositAppends
  <2>2. \A i \in DOMAIN rows : rows[i].deposit \in Deposits
    <3>1. \A i \in DOMAIN rows : rows[i] \in Row
      BY Elements DEF MintInv, Types
    <3> QED
      BY <3>1 DEF Row
  <2>3. \A i \in DOMAIN rows' : Logged(rows[i].deposit)'
    <3>1. \A i \in DOMAIN rows : Logged(rows[i].deposit)'
      <4> SUFFICES ASSUME NEW i \in DOMAIN rows
                   PROVE  Logged(rows[i].deposit)'
        OBVIOUS
      <4>1. PICK e \in Deposits : e = rows[i].deposit /\ Logged(e)
        BY <2>2 DEF MintInv, FromLog
      <4>2. Logged(e)'
        BY <1>3, <4>1
      <4> QED
        BY <1>1, <4>1, <4>2 DEF Logged
    <3> QED
      BY <1>1, <3>1
  <2>4. \A e \in Deposits : minted'[e] > 0 => Logged(e)'
    BY <1>1, <1>3 DEF MintInv, FromLog, Types
  <2>5. \A e \in orphans' : Logged(e)'
    BY <1>1, <1>3 DEF MintInv, FromLog, Types
  <2> QED
    BY <2>1, <2>3, <2>4, <2>5 DEF FromLog
<1>6. TicksKnow' /\ OneMintPerSalt' /\ ReportedMinted'
  BY <1>1, <1>4, TicksStay DEF MintInv, OneMintPerSalt, ReportedMinted, SaltUsed
<1>7. Types'
  BY <1>1, <1>2 DEF MintInv, Types
<1> QED
  BY <1>5, <1>6, <1>7 DEF MintInv

LEMMA ExitMints ==
    ASSUME MintInv, Exit
    PROVE  MintInv'
<1>1. /\ UNCHANGED <<log, rows, minted>> /\ storedCursor' = storedCursor
      /\ cursor' = storedCursor /\ faults' \in Nat
      /\ tick' = [t \in Ticks |-> Idle]
  BY StaysInLog DEF Exit, Fault
<1>2. orphans' \subseteq Deposits /\ \A d \in orphans' : Logged(d)
  <2>1. \A t \in Ticks : tick[t].tx = "pending" =>
           CurrentDeposit(t) \in Deposits /\ Logged(CurrentDeposit(t))
    BY Working DEF MintInv, TicksKnow, Knows
  <2> QED
    BY <2>1, StaysInLog DEF Exit
<1>3. Types'
  BY <1>1, <1>2, IdleTick DEF MintInv, Types
<1>4. FromLog' /\ OneMintPerSalt' /\ ReportedMinted'
  BY <1>1, <1>2 DEF MintInv, FromLog, OneMintPerSalt, ReportedMinted, Logged, SaltUsed
<1>5. TicksKnow'
  <2>1. PICK k \in TickState : k = Idle
    BY IdleTick
  <2>2. Knows(k)'
    BY <1>1, <2>1, IdleKnows, KnowledgeStays DEF MintInv, Grows, Logged
  <2> QED
    BY <1>1, <2>1, <2>2 DEF TicksKnow, Knows
<1> QED
  BY <1>3, <1>4, <1>5 DEF MintInv

LEMMA NextMints == ASSUME MintInv, [Next]_vars PROVE MintInv'
<1>1. CASE UNCHANGED vars
  <2>1. UNCHANGED <<log, cursor, storedCursor, rows, minted, tick, orphans, faults>>
    BY <1>1 DEF vars, watcherVars
  <2>2. TicksKnow'
    BY <2>1, TicksStay DEF Grows, Logged
  <2> QED
    BY <2>1, <2>2 DEF MintInv, Types, FromLog, OneMintPerSalt, ReportedMinted, Logged, SaltUsed
<1>2. ASSUME NEW d \in Deposits, Deposit(d) \/ LandOrphan(d)
      PROVE  MintInv'
  BY <1>2, DepositMints, LandOrphanMints
<1>3. ASSUME NEW t \in Ticks, TickStep(t)
      PROVE  MintInv'
  <2>1. CASE \E c \in Chains : ReadHead(t, c) \/ SavePage(t, c) \/ StoreCursor(t, c)
    BY <2>1, ReadHeadMints, SavePageMints
  <2>2. CASE StartTick(t) \/ CollectPolls(t) \/ RejectPolls(t) \/ ForgetPolls(t)
    BY <2>2, StartTickMints, CollectPollsMints, RejectPollsMints, ForgetPollsMints
  <2>3. CASE Enqueue(t) \/ ListMints(t) \/ Check(t)
    BY <2>3, EnqueueMints, ListMintsMints, CheckMints
  <2>4. CASE LandAwaited(t) \/ Confirm(t) \/ MarkMinted(t) \/ RecordFailure(t)
    BY <2>4, LandAwaitedMints, ConfirmMints, MarkMintedMints
  <2> QED
    BY <1>3, <2>1, <2>2, <2>3, <2>4 DEF TickStep
<1>4. ASSUME NEW t \in Ticks, TickFault(t)
      PROVE  MintInv'
  <2>1. CASE \E c \in Chains : SkipEvent(t, c) \/ PollFails(t, c)
    BY <2>1, SkipEventMints, PollFailsMints
  <2>2. CASE AttemptFails(t) \/ WaitFails(t) \/ MarkFails(t) \/ TickFails(t)
    BY <2>2, AttemptFailsMints, WaitFailsMints, ForgetPollsMints
  <2> QED
    BY <1>4, <2>1, <2>2 DEF TickFault
<1> QED
  BY <1>1, <1>2, <1>3, <1>4, ExitMints DEF Next

\* Whatever fails, and however ticks overlap, the mint side stays consistent.
THEOREM MintInvariant == Spec => []MintInv
<1>1. Init => MintInv
  BY InitMints
<1>2. MintInv /\ [Next]_vars => MintInv'
  BY NextMints
<1> QED
  BY <1>1, <1>2, PTL DEF Spec

\* Whatever fails, a deposit is minted at most once and alone under its salt, only
\* what was deposited is minted, and a row says minted only when its salt was
\* used: with a crash between the wrap and the mark, lost answers, and ticks that
\* submit the same row.
THEOREM MintSafety == Spec => []MintsAreDeposits
<1>1. MintInv => MintsAreDeposits
  BY DEF MintInv, OneMintPerSalt, FromLog, ReportedMinted, MintsAreDeposits, Logged
<1> QED
  BY <1>1, MintInvariant, PTL

-----------------------------------------------------------------------------
(* FaultFree: what each step keeps until the first fault.                  *)

Carries(k, d) ==
    \/ d \in ToSet(k.queue)
    \/ k.at = "polls" /\ \E c \in Chains : d \in ToSet(k.polls[c].events)

LogGrows ==
    \A c \in Chains :
        /\ Len(log[c]) \in Nat /\ Len(log'[c]) \in Nat /\ Len(log[c]) <= Len(log'[c])
        /\ \A i \in 1 .. Len(log[c]) : log'[c][i] = log[c][i] /\ log[c][i] \in Deposits

RowsStay == \A d \in Deposits : HasRow(d) => HasRow(d)'
CoverStays == \A d \in Deposits : Covered(d) => Covered(d)'

LEMMA LogStays ==
    ASSUME MintInv, UNCHANGED log
    PROVE  LogGrows
<1>1. \A c \in Chains : log[c] \in Seq(Deposits)
  BY DEF MintInv, Types
<1>2. \A c \in Chains : Len(log[c]) \in Nat /\ \A i \in 1 .. Len(log[c]) : log[c][i] \in Deposits
  BY <1>1, Elements
<1> QED
  BY <1>2 DEF LogGrows

LEMMA PrefixStays ==
    ASSUME LogGrows, CoverStays, NEW c \in Chains, NEW n, CoveredUpTo(c, n)
    PROVE  CoveredUpTo(c, n)'
<1>1. n \in 0 .. Len(log[c]) /\ n \in 0 .. Len(log'[c])
  BY DEF CoveredUpTo, LogGrows
<1>2. ASSUME NEW i \in 1 .. n
      PROVE  Covered(log[c][i])'
  <2>1. i \in 1 .. Len(log[c])
    BY <1>1 DEF LogGrows
  <2>2. PICK d \in Deposits : d = log[c][i] /\ d = log'[c][i]
    BY <2>1 DEF LogGrows
  <2>3. Covered(d)
    BY <2>2 DEF CoveredUpTo
  <2>4. Covered(d)'
    BY <2>3 DEF CoverStays
  <2> QED
    BY <2>2, <2>4 DEF Covered, HasRow, Carried
<1> QED
  BY <1>1, <1>2 DEF CoveredUpTo

LEMMA UnprovokedStays ==
    ASSUME LogGrows, CoverStays, NEW k \in TickState, Unprovoked(k)
    PROVE  Unprovoked(k)'
<1>1. \A c \in Chains : k.polls[c].at \in {"page", "store"} => CoveredUpTo(c, k.polls[c].upto)'
  BY PrefixStays DEF Unprovoked
<1> QED
  BY <1>1 DEF Unprovoked

\* A tick that passes on what it carries leaves all covered.
LEMMA PassedOn ==
    ASSUME MintInv, RowsStay, NEW t \in Ticks, NEW new \in TickState,
           tick' = [tick EXCEPT ![t] = new],
           \A d \in Deposits : Carries(tick[t], d) => Carries(new, d) \/ HasRow(d)'
    PROVE  CoverStays
<1> SUFFICES ASSUME NEW d \in Deposits, Covered(d)
             PROVE  Covered(d)'
  BY DEF CoverStays
<1>1. tick \in [Ticks -> TickState]
  BY DEF MintInv, Types
<1>2. tick'[t] = new /\ \A q \in Ticks : q # t => tick'[q] = tick[q]
  BY <1>1
<1>3. Carried(d) <=> \E q \in Ticks : Carries(tick[q], d)
  BY DEF Carried, Carries, At
<1>4. (\E q \in Ticks : Carries(tick'[q], d)) => Carried(d)'
  BY DEF Carried, Carries, At
<1>5. CASE HasRow(d)
  BY <1>5 DEF RowsStay, Covered
<1>6. ASSUME NEW q \in Ticks, Carries(tick[q], d)
      PROVE  Carried(d)' \/ HasRow(d)'
  <2>1. CASE q = t
    BY <1>2, <1>4, <1>6, <2>1
  <2>2. CASE q # t
    BY <1>2, <1>4, <1>6, <2>2
  <2> QED
    BY <2>1, <2>2
<1> QED
  BY <1>3, <1>5, <1>6 DEF Covered

\* A step of one tick.
LEMMA TickKeepsAll ==
    ASSUME MintInv, FaultFree, LogGrows, RowsStay,
           NEW t \in Ticks, NEW new \in TickState, tick' = [tick EXCEPT ![t] = new],
           \A d \in Deposits : Carries(tick[t], d) => Carries(new, d) \/ HasRow(d)',
           Unprovoked(new) \/ Unprovoked(new)',
           \A c \in Chains : CoveredUpTo(c, cursor'[c])
    PROVE  FaultFree'
<1>1. CoverStays
  BY PassedOn
<1>2. tick \in [Ticks -> TickState]
  BY DEF MintInv, Types
<1>3. Unprovoked(new)'
  BY <1>1, UnprovokedStays
<1>4. ASSUME NEW q \in Ticks
      PROVE  Unprovoked(tick[q])'
  <2>1. CASE q = t
    <3>1. tick'[q] = new
      BY <1>2, <2>1
    <3> QED
      BY <1>3, <3>1 DEF Unprovoked
  <2>2. CASE q # t
    <3>1. PICK k \in TickState : k = tick[q] /\ k = tick'[q] /\ Unprovoked(k)
      BY <1>2, <2>2 DEF FaultFree
    <3>2. Unprovoked(k)'
      BY <1>1, <3>1, UnprovokedStays
    <3> QED
      BY <3>1, <3>2 DEF Unprovoked
  <2> QED
    BY <2>1, <2>2
<1>5. ASSUME NEW c \in Chains
      PROVE  CoveredUpTo(c, cursor[c])'
  <2>1. PICK n : n = cursor'[c] /\ CoveredUpTo(c, n)
    OBVIOUS
  <2>2. CoveredUpTo(c, n)'
    BY <1>1, <2>1, PrefixStays
  <2> QED
    BY <2>1, <2>2 DEF CoveredUpTo
<1> QED
  BY <1>4, <1>5 DEF FaultFree

\* A step that leaves the ticks alone.
LEMMA OthersKeepAll ==
    ASSUME MintInv, FaultFree, LogGrows, UNCHANGED <<cursor, rows, tick>>
    PROVE  FaultFree'
<1>1. CoverStays
  BY DEF CoverStays, Covered, HasRow, Carried, At
<1>2. ASSUME NEW q \in Ticks
      PROVE  Unprovoked(tick[q])'
  <2>1. PICK k \in TickState : k = tick[q] /\ Unprovoked(k)
    BY DEF MintInv, Types, FaultFree
  <2>2. Unprovoked(k)'
    BY <1>1, <2>1, UnprovokedStays
  <2> QED
    BY <2>1, <2>2 DEF Unprovoked
<1>3. ASSUME NEW c \in Chains
      PROVE  CoveredUpTo(c, cursor[c])'
  <2>1. PICK n : n = cursor[c] /\ CoveredUpTo(c, n)
    BY DEF FaultFree
  <2>2. CoveredUpTo(c, n)'
    BY <1>1, <2>1, PrefixStays
  <2> QED
    BY <2>1, <2>2 DEF CoveredUpTo
<1> QED
  BY <1>2, <1>3 DEF FaultFree

\* A tick that carries nothing, and whose step begins nothing.
LEMMA HandsEmpty ==
    ASSUME MintInv, FaultFree, UNCHANGED <<log, cursor>>, RowsStay,
           NEW t \in Ticks, tick[t].at # "polls", tick[t].queue = <<>>,
           NEW new \in TickState, tick' = [tick EXCEPT ![t] = new], Unprovoked(new)
    PROVE  FaultFree'
<1>1. LogGrows
  BY LogStays
<1>2. \A d \in Deposits : ~Carries(tick[t], d)
  BY EmptySeq DEF Carries, ToSet
<1>3. \A c \in Chains : CoveredUpTo(c, cursor'[c])
  BY DEF FaultFree
<1> QED
  BY <1>1, <1>2, <1>3, TickKeepsAll

\* The places of a tick whose polls are over.
LEMMA PollsOver ==
    ASSUME NEW k \in TickState, k.queue = <<>>, k.at # "rejected",
           \A c \in Chains : k.polls[c].at = "done"
    PROVE  Unprovoked(k)
  BY DEF Unprovoked

LEMMA IdleUnprovoked ==
    /\ Unprovoked(Idle)
    /\ \A list \in SUBSET [id : Nat, attempts : Nat] :
          LET new == [Idle EXCEPT !.at = "check", !.todo = list]
          IN  new \in TickState /\ Unprovoked(new)
<1>1. Unprovoked(Idle)
  BY IdleTick, PollsOver
<1>2. ASSUME NEW list \in SUBSET [id : Nat, attempts : Nat]
      PROVE  LET new == [Idle EXCEPT !.at = "check", !.todo = list]
             IN  new \in TickState /\ Unprovoked(new)
  <2> DEFINE new == [Idle EXCEPT !.at = "check", !.todo = list]
  <2>1. /\ new \in TickState
        /\ new.at = "check" /\ new.queue = <<>> /\ new.polls = NoPolls
    BY IdleTick DEF TickState
  <2> HIDE DEF new
  <2>2. Unprovoked(new)
    BY <2>1, IdleTick, PollsOver
  <2> QED
    BY <2>1, <2>2 DEF new
<1> QED
  BY <1>1, <1>2

LEMMA TickUnprovoked ==
    ASSUME MintInv, FaultFree, NEW t \in Ticks
    PROVE  /\ tick[t] \in TickState /\ Unprovoked(tick[t])
           /\ tick[t].at # "polls" => \A c \in Chains : tick[t].polls[c].at = "done"
           /\ tick[t].at # "enqueue" => tick[t].queue = <<>>
<1>1. tick[t] \in TickState /\ Unprovoked(tick[t])
  BY DEF MintInv, Types, FaultFree
<1> QED
  BY <1>1 DEF Unprovoked

\* Another place or transaction, for a tick past its polls and its queue.
LEMMA PlaceKeepsAll ==
    ASSUME MintInv, FaultFree, UNCHANGED <<log, cursor>>, RowsStay,
           NEW t \in Ticks, tick[t].at \notin {"polls", "enqueue"},
           NEW place \in {"wait", "mark", "fail"},
           NEW x \in {"none", "pending", "done", "replayed"},
           tick' = [tick EXCEPT ![t] = [tick[t] EXCEPT !.at = place, !.tx = x]]
    PROVE  FaultFree'
<1> DEFINE new == [tick[t] EXCEPT !.at = place, !.tx = x]
<1>1. /\ tick[t] \in TickState /\ tick[t].queue = <<>>
      /\ \A c \in Chains : tick[t].polls[c].at = "done"
  BY TickUnprovoked
<1>2. new \in TickState /\ new.at = place /\ new.queue = <<>> /\ new.polls = tick[t].polls
  BY <1>1 DEF TickState
<1>3. tick' = [tick EXCEPT ![t] = new]
  OBVIOUS
<1> HIDE DEF new
<1>4. Unprovoked(new)
  BY <1>1, <1>2, PollsOver
<1> QED
  BY <1>1, <1>2, <1>3, <1>4, HandsEmpty

LEMMA NextRowKeepsAll ==
    ASSUME MintInv, FaultFree, UNCHANGED <<log, cursor>>, RowsStay,
           NEW t \in Ticks, tick[t].at \notin {"polls", "enqueue"}, NextRow(t)
    PROVE  FaultFree'
<1> DEFINE rest == tick[t].todo \ {Current(t)}
           new == IF rest = {} THEN Idle ELSE [Idle EXCEPT !.at = "check", !.todo = rest]
<1>1. tick[t] \in TickState /\ tick[t].queue = <<>>
  BY TickUnprovoked
<1>2. rest \in SUBSET [id : Nat, attempts : Nat]
  BY <1>1 DEF TickState
<1>3. new \in TickState /\ Unprovoked(new)
  BY <1>2, IdleUnprovoked, IdleTick
<1>4. tick' = [tick EXCEPT ![t] = new]
  BY DEF NextRow
<1> HIDE DEF new
<1> QED
  BY <1>1, <1>3, <1>4, HandsEmpty

LEMMA RowsStayRewritten ==
    ASSUME NEW k \in DOMAIN rows, NEW r, r.deposit = rows[k].deposit,
           rows' = [rows EXCEPT ![k] = r]
    PROVE  RowsStay
<1>1. DOMAIN rows' = DOMAIN rows
      /\ \A i \in DOMAIN rows : rows'[i].deposit = rows[i].deposit
  OBVIOUS
<1> QED
  BY <1>1 DEF RowsStay, HasRow

LEMMA WorkKeepsAll ==
    ASSUME MintInv, FaultFree, NEW t \in Ticks,
           Check(t) \/ LandAwaited(t) \/ Confirm(t) \/ MarkMinted(t) \/ RecordFailure(t)
    PROVE  FaultFree'
<1>1. UNCHANGED <<log, cursor>>
  BY DEF Check, LandAwaited, Confirm, MarkMinted, RecordFailure, watcherVars
<1>2. tick[t].at \in {"check", "wait", "mark", "fail"}
  <2>1. tick[t].tx = "pending" => tick[t].at = "wait"
    BY DEF MintInv, TicksKnow, Knows
  <2> QED
    BY <2>1 DEF Check, LandAwaited, Confirm, MarkMinted, RecordFailure, At
<1>3. /\ tick[t] \in TickState
      /\ Current(t).id \in DOMAIN rows /\ rows[Current(t).id] \in Row
  BY <1>2, Working
<1>4. RowsStay
  <2>1. CASE rows' = rows
    BY <2>1 DEF RowsStay, HasRow
  <2>2. CASE rows' # rows
    <3> DEFINE row == rows[Current(t).id]
               f == [row EXCEPT !.status = "failed", !.attempts = Attempt(t)]
               m == [row EXCEPT !.status = "minted"]
               a == [row EXCEPT !.attempts = Attempt(t)]
    <3>1. PICK r \in {f, m, a} : rows' = [rows EXCEPT ![Current(t).id] = r]
      BY <2>2, <1>3 DEF Check, LandAwaited, Confirm, MarkMinted, RecordFailure
    <3>2. f.deposit = row.deposit /\ m.deposit = row.deposit /\ a.deposit = row.deposit
      BY <1>3 DEF Row
    <3> HIDE DEF f, m, a
    <3>3. r.deposit = rows[Current(t).id].deposit
      BY <3>2
    <3> QED
      BY <1>3, <3>1, <3>3, RowsStayRewritten
  <2> QED
    BY <2>1, <2>2
<1>5. CASE NextRow(t)
  BY <1>1, <1>2, <1>4, <1>5, NextRowKeepsAll
<1>6. CASE ~NextRow(t)
  <2>1. \/ tick' = [tick EXCEPT ![t] = [tick[t] EXCEPT !.at = "wait", !.tx = "pending"]]
        \/ \E x \in {"done", "replayed"} : tick' = [tick EXCEPT ![t] = [tick[t] EXCEPT !.tx = x]]
              /\ tick[t].at = "wait"
        \/ \E place \in {"mark", "fail"} :
              tick' = [tick EXCEPT ![t] = [tick[t] EXCEPT !.at = place, !.tx = "none"]]
    <3>1. tick[t].tx = "pending" => tick[t].at = "wait"
      BY DEF MintInv, TicksKnow, Knows
    <3> QED
      BY <1>6, <3>1 DEF Check, LandAwaited, Confirm, MarkMinted, RecordFailure
  <2>2. ASSUME tick[t].at = "wait", NEW x
        PROVE  [tick[t] EXCEPT !.tx = x] = [tick[t] EXCEPT !.at = "wait", !.tx = x]
    BY <1>3, <2>2 DEF TickState
  <2>3. PICK place \in {"wait", "mark", "fail"}, x \in {"none", "pending", "done", "replayed"} :
           tick' = [tick EXCEPT ![t] = [tick[t] EXCEPT !.at = place, !.tx = x]]
    <3>1. CASE \E x \in {"done", "replayed"} :
                  tick' = [tick EXCEPT ![t] = [tick[t] EXCEPT !.tx = x]] /\ tick[t].at = "wait"
      <4>1. PICK y \in {"done", "replayed"} :
               tick' = [tick EXCEPT ![t] = [tick[t] EXCEPT !.tx = y]] /\ tick[t].at = "wait"
        BY <3>1
      <4>2. [tick[t] EXCEPT !.tx = y] = [tick[t] EXCEPT !.at = "wait", !.tx = y]
        BY <2>2, <4>1
      <4>3. tick' = [tick EXCEPT ![t] = [tick[t] EXCEPT !.at = "wait", !.tx = y]]
        BY <4>1, <4>2, Zenon
      <4> QED BY <4>3
    <3>2. CASE tick' = [tick EXCEPT ![t] = [tick[t] EXCEPT !.at = "wait", !.tx = "pending"]]
      BY <3>2
    <3>3. CASE \E place \in {"mark", "fail"} :
                  tick' = [tick EXCEPT ![t] = [tick[t] EXCEPT !.at = place, !.tx = "none"]]
      BY <3>3
    <3> QED
      BY <2>1, <3>1, <3>2, <3>3
  <2> QED
    BY <1>1, <1>2, <1>4, <2>3, PlaceKeepsAll
<1> QED
  BY <1>5, <1>6

LEMMA StartTickKeepsAll ==
    ASSUME MintInv, FaultFree, NEW t \in Ticks, StartTick(t)
    PROVE  FaultFree'
<1> DEFINE polls == [c \in Chains |-> NewPoll]
           new == [Idle EXCEPT !.at = "polls", !.polls = polls]
<1>1. /\ polls \in [Chains -> PollState]
      /\ \A c \in Chains : polls[c].events = <<>> /\ polls[c].at = "head"
  BY EmptySeq DEF NewPoll, PollState
<1>2. tick' = [tick EXCEPT ![t] = new] /\ tick[t].at = "idle" /\ rows' = rows
      /\ UNCHANGED <<log, cursor>>
  BY DEF StartTick, watcherVars, At
<1> HIDE DEF polls
<1>3. new \in TickState /\ new.at = "polls" /\ new.queue = <<>> /\ new.polls = polls
  BY <1>1, IdleTick DEF TickState
<1> HIDE DEF new
<1>4. Unprovoked(new)
  BY <1>1, <1>3 DEF Unprovoked
<1>5. RowsStay /\ tick[t].queue = <<>>
  BY <1>2, TickUnprovoked DEF RowsStay, HasRow
<1> QED
  BY <1>2, <1>3, <1>4, <1>5, HandsEmpty

LEMMA ListMintsKeepsAll ==
    ASSUME MintInv, FaultFree, NEW t \in Ticks, ListMints(t)
    PROVE  FaultFree'
<1> DEFINE list == {[id |-> i, attempts |-> rows[i].attempts] : i \in Batch}
           new == IF Batch = {} THEN Idle ELSE [Idle EXCEPT !.at = "check", !.todo = list]
<1>1. tick' = [tick EXCEPT ![t] = new] /\ tick[t].at = "enqueue" /\ tick[t].queue = <<>>
      /\ rows' = rows /\ UNCHANGED <<log, cursor>>
  BY DEF ListMints, watcherVars, At
<1>2. list \in SUBSET [id : Nat, attempts : Nat]
  <2>1. \A i \in Batch : i \in Nat /\ rows[i].attempts \in Nat
    <3>1. DOMAIN rows = 1 .. Len(rows) /\ \A i \in 1 .. Len(rows) : rows[i] \in Row
      BY Elements DEF MintInv, Types
    <3> QED
      BY <3>1 DEF Batch, PendingRows, Row
  <2> QED
    BY <2>1
<1> HIDE DEF list
<1>3. new \in TickState /\ Unprovoked(new)
  BY <1>2, IdleUnprovoked, IdleTick
<1> HIDE DEF new
<1>4. RowsStay
  BY <1>1 DEF RowsStay, HasRow
<1> QED
  BY <1>1, <1>3, <1>4, HandsEmpty

LEMMA EnqueueKeepsAll ==
    ASSUME MintInv, FaultFree, NEW t \in Ticks, Enqueue(t)
    PROVE  FaultFree'
<1> DEFINE q == tick[t].queue
           new == [tick[t] EXCEPT !.queue = Tail(q)]
<1>1. /\ tick[t] \in TickState /\ Unprovoked(tick[t]) /\ tick[t].at = "enqueue"
      /\ \A c \in Chains : tick[t].polls[c].at = "done"
  BY TickUnprovoked DEF Enqueue, At
<1>2. q \in Seq(Deposits) /\ q # <<>>
  BY <1>1 DEF TickState, Enqueue
<1>3. tick' = [tick EXCEPT ![t] = new] /\ UNCHANGED <<log, cursor>>
  BY DEF Enqueue, watcherVars
<1>4. RowsStay
  BY EnqueueMints DEF RowsStay
<1>5. PICK h : h = q[1] /\ HasRow(h)'
  <2>1. PICK d : d = Head(q) /\ \E i \in DOMAIN rows' : rows'[i].deposit = d
    BY EnqueueMints
  <2>2. HasRow(d)'
    BY <2>1 DEF HasRow
  <2> QED
    BY <1>2, <2>1, <2>2
<1>6. /\ Len(q) \in Nat \ {0}
      /\ Tail(q) \in Seq(Deposits) /\ Len(Tail(q)) = Len(q) - 1
      /\ \A i \in 1 .. Len(Tail(q)) : Tail(q)[i] = q[i + 1]
  BY <1>2, HeadTailProperties
<1>7. ASSUME NEW d \in ToSet(q), d # q[1]
      PROVE  d \in ToSet(Tail(q))
  <2>1. PICK i \in 1 .. Len(q) : d = q[i]
    BY <1>2, Elements
  <2>2. i - 1 \in 1 .. Len(Tail(q)) /\ (i - 1) + 1 = i
    BY <1>6, <1>7, <2>1
  <2>3. d = Tail(q)[i - 1]
    BY <1>6, <2>1, <2>2
  <2>4. i - 1 \in DOMAIN Tail(q)
    BY <1>6, <2>2, Elements
  <2> QED
    BY <2>3, <2>4 DEF ToSet
<1> HIDE DEF q
<1>8. /\ new \in TickState
      /\ new.at = "enqueue" /\ new.queue = Tail(q) /\ new.polls = tick[t].polls
  BY <1>1, <1>6 DEF TickState
<1> HIDE DEF new
<1>9. Unprovoked(new)
  BY <1>1, <1>8 DEF Unprovoked
<1>10. ASSUME NEW d \in Deposits, Carries(tick[t], d)
       PROVE  Carries(new, d) \/ HasRow(d)'
  <2>1. d \in ToSet(q)
    BY <1>1, <1>10 DEF Carries, q
  <2>2. CASE d = q[1]
    BY <1>5, <2>2
  <2>3. CASE d # q[1]
    BY <1>7, <1>8, <2>1, <2>3 DEF Carries
  <2> QED
    BY <2>2, <2>3
<1>11. \A c \in Chains : CoveredUpTo(c, cursor'[c])
  BY <1>3 DEF FaultFree
<1> QED
  BY <1>3, <1>4, <1>8, <1>9, <1>10, <1>11, LogStays, TickKeepsAll

LEMMA CollectPollsKeepsAll ==
    ASSUME MintInv, FaultFree, NEW t \in Ticks, CollectPolls(t)
    PROVE  FaultFree'
<1> DEFINE queue == Collected(t)
           new == [Idle EXCEPT !.at = "enqueue", !.queue = queue]
<1>1. /\ queue \in Seq(Deposits)
      /\ \A d : d \in ToSet(queue) <=> \E c \in Chains : d \in ToSet(tick[t].polls[c].events)
  BY CollectedIs
<1>2. tick' = [tick EXCEPT ![t] = new] /\ UNCHANGED <<log, cursor, rows>> /\ tick[t].at = "polls"
  BY DEF CollectPolls, watcherVars, Collected, At
<1> HIDE DEF queue
<1>3. /\ new \in TickState
      /\ new.at = "enqueue" /\ new.queue = queue /\ new.polls = NoPolls
  BY <1>1, IdleTick DEF TickState
<1> HIDE DEF new
<1>4. Unprovoked(new)
  BY <1>3, IdleTick DEF Unprovoked
<1>5. \A d : d \notin ToSet(tick[t].queue)
  <2>1. tick[t].queue = <<>>
    BY <1>2, TickUnprovoked
  <2> QED
    BY <2>1, EmptySeq DEF ToSet
<1>6. \A d \in Deposits : Carries(tick[t], d) => Carries(new, d)
  BY <1>1, <1>3, <1>5 DEF Carries
<1>7. \A c \in Chains : CoveredUpTo(c, cursor'[c])
  BY <1>2 DEF FaultFree
<1>8. RowsStay
  BY <1>2 DEF RowsStay, HasRow
<1> QED
  BY <1>2, <1>3, <1>4, <1>6, <1>7, <1>8, LogStays, TickKeepsAll

\* A poll that moves on with the events it had.
LEMMA PollKeepsAll ==
    ASSUME MintInv, FaultFree, UNCHANGED <<log, rows>>,
           NEW t \in Ticks, NEW c \in Chains, NEW p \in PollState, Polled(t, c, p),
           tick[t].at = "polls",
           \A d \in ToSet(tick[t].polls[c].events) : d \in ToSet(p.events),
           p.at \notin {"failed", "head"},
           \/ p.at \in {"page", "store"} => CoveredUpTo(c, p.upto)
           \/ CoverStays => (p.at \in {"page", "store"} => CoveredUpTo(c, p.upto)'),
           \A b \in Chains : CoveredUpTo(b, cursor'[b])
    PROVE  FaultFree'
<1> DEFINE new == [tick[t] EXCEPT !.polls = [@ EXCEPT ![c] = p]]
<1>1. tick[t] \in TickState /\ Unprovoked(tick[t])
  BY TickUnprovoked
<1>2. /\ new \in TickState
      /\ new.at = "polls" /\ new.queue = tick[t].queue
      /\ \A b \in Chains : new.polls[b] = IF b = c THEN p ELSE tick[t].polls[b]
  BY <1>1 DEF TickState
<1>3. PICK k \in TickState : k = new
  BY <1>2
<1>4. tick' = [tick EXCEPT ![t] = k]
  BY <1>3 DEF Polled
<1> HIDE DEF new
<1>5. \A d \in Deposits : Carries(tick[t], d) => Carries(k, d)
  BY <1>2, <1>3 DEF Carries
<1>6. RowsStay
  BY DEF RowsStay, HasRow
<1>7. LogGrows /\ CoverStays
  BY <1>4, <1>5, <1>6, LogStays, PassedOn
<1>8. p.at \in {"page", "store"} => CoveredUpTo(c, p.upto)'
  BY <1>7, PrefixStays
<1>9. \A b \in Chains : k.polls[b] = IF b = c THEN p ELSE tick[t].polls[b]
  BY <1>2, <1>3
<1>10. ASSUME NEW b \in Chains, k.polls[b].at \in {"page", "store"}
       PROVE  CoveredUpTo(b, k.polls[b].upto)'
  <2>1. CASE b = c
    BY <1>8, <1>9, <1>10, <2>1
  <2>2. CASE b # c
    <3>1. PICK n : n = k.polls[b].upto /\ CoveredUpTo(b, n)
      BY <1>1, <1>9, <1>10, <2>2 DEF Unprovoked
    <3>2. CoveredUpTo(b, n)'
      BY <1>7, <3>1, PrefixStays
    <3> QED
      BY <3>1, <3>2
  <2> QED
    BY <2>1, <2>2
<1>11. Unprovoked(k)'
  BY <1>1, <1>2, <1>3, <1>9, <1>10 DEF Unprovoked
<1> QED
  BY <1>4, <1>5, <1>6, <1>7, <1>11, TickKeepsAll

\* The cursor may lag behind another tick's, but what a page begins with follows
\* on what is covered.
LEMMA ReadHeadKeepsAll ==
    ASSUME MintInv, FaultFree, NEW t \in Ticks, NEW c \in Chains, ReadHead(t, c)
    PROVE  FaultFree'
<1>1. Polled(t, c, PageRead(c)) /\ UNCHANGED <<log, cursor, rows>>
  BY ReadHeadPolls DEF watcherVars
<1>2. /\ tick[t] \in TickState /\ Unprovoked(tick[t]) /\ tick[t].polls[c].at = "head"
      /\ tick[t].at = "polls" /\ tick[t].polls[c].events = <<>>
  <2>1. tick[t] \in TickState /\ Unprovoked(tick[t]) /\ tick[t].polls[c].at = "head"
    BY TickUnprovoked DEF ReadHead, PollAt
  <2> QED
    BY <2>1 DEF Unprovoked
<1>3. \A d : d \notin ToSet(tick[t].polls[c].events)
  BY <1>2, EmptySeq DEF ToSet
<1>4. \A b \in Chains : CoveredUpTo(b, cursor[b]) /\ cursor'[b] = cursor[b]
  BY <1>1 DEF FaultFree
<1>5. cursor[c] \in Nat /\ Len(log[c]) \in Nat /\ PageRead(c) \in PollState
  BY Elements, PageReadKnows DEF MintInv, Types
<1>6. PICK p \in PollState : p = PageRead(c)
  BY <1>5
<1> DEFINE from == cursor[c] + 1
           last == LastOfPage(c, from)
<1>7. CASE from > Len(log[c])
  <2>1. p.at = "done"
    BY <1>6, <1>7 DEF PageRead, NewPoll
  <2> QED
    BY <1>1, <1>2, <1>3, <1>4, <1>6, <2>1, PollKeepsAll
<1>8. CASE from <= Len(log[c])
  <2>1. from \in Nat \ {0} /\ last \in from .. Len(log[c])
    BY <1>5, <1>8, PageBounds
  <2>2. PageRead(c) = [at |-> "page", upto |-> last, events |-> SubSeq(log[c], from, last)]
    BY <1>5, <1>8 DEF PageRead
  <2> HIDE DEF last
  <2>3. p.at = "page" /\ p.upto = last /\ p.events = SubSeq(log[c], from, last)
    <3> DEFINE page == SubSeq(log[c], from, last)
    <3>1. p = [at |-> "page", upto |-> last, events |-> page]
      BY <1>6, <2>2
    <3> HIDE DEF page
    <3>2. p.at = "page" /\ p.upto = last /\ p.events = page
      BY <3>1
    <3> QED
      BY <3>2 DEF page
  <2>4. \A i \in from .. last : log[c][i] \in ToSet(p.events)
    BY <2>1, <2>3, PageOfLog DEF MintInv
  <2>5. tick'[t].at = "polls" /\ tick'[t].polls[c] = p
    BY <1>1, <1>2, <1>6 DEF Polled, MintInv, Types, TickState
  <2>6. ASSUME CoverStays
        PROVE  CoveredUpTo(c, p.upto)'
    <3>1. PICK n : n = cursor[c] /\ CoveredUpTo(c, n)
      BY <1>4
    <3>2. CoveredUpTo(c, n)'
      BY <1>1, <2>6, <3>1, LogStays, PrefixStays
    <3>3. p.upto \in 0 .. Len(log'[c])
      BY <1>1, <1>5, <2>1, <2>3
    <3>4. ASSUME NEW i \in 1 .. p.upto
          PROVE  Covered(log[c][i])'
      <4>1. CASE i <= n
        <5>1. i \in 1 .. n
          BY <1>5, <2>1, <2>3, <3>1, <4>1
        <5> QED
          BY <3>2, <5>1 DEF CoveredUpTo
      <4>2. CASE ~ (i <= n)
        <5>1. i \in from .. last
          BY <1>5, <2>1, <2>3, <3>1, <4>2
        <5>2. log'[c][i] \in ToSet(p.events)
          BY <1>1, <2>4, <5>1
        <5> QED
          BY <2>5, <5>2 DEF Covered, Carried, At
      <4> QED
        BY <4>1, <4>2
    <3> QED
      BY <3>3, <3>4 DEF CoveredUpTo
  <2>7. p.at \notin {"failed", "head"}
    BY <2>3
  <2> HIDE DEF from
  <2> QED
    BY <1>1, <1>2, <1>3, <1>4, <1>6, <2>6, <2>7, PollKeepsAll
<1> QED
  BY <1>5, <1>7, <1>8

\* The cursor goes only as far as the page that is covered.
LEMMA SavePageKeepsAll ==
    ASSUME MintInv, FaultFree, NEW t \in Ticks, NEW c \in Chains,
           SavePage(t, c) \/ StoreCursor(t, c)
    PROVE  FaultFree'
<1>1. PICK place \in {"store", "done"} : tick' = [tick EXCEPT ![t].polls[c].at = place]
  BY DEF SavePage, StoreCursor
<1>2. PICK p \in PollState :
         /\ p.at = place /\ p.upto = tick[t].polls[c].upto
         /\ p.events = tick[t].polls[c].events
         /\ Polled(t, c, p)
  <2> DEFINE q == [tick[t].polls[c] EXCEPT !.at = place]
  <2>1. q \in PollState /\ Polled(t, c, q)
    BY <1>1, PollGoes
  <2>2. /\ q.at = place /\ q.upto = tick[t].polls[c].upto
        /\ q.events = tick[t].polls[c].events
    BY PollKnows DEF PollState
  <2> HIDE DEF q
  <2> QED
    BY <2>1, <2>2
<1>3. UNCHANGED <<log, rows>> /\ tick[t].polls[c].at \in {"page", "store"}
  BY DEF SavePage, StoreCursor, PollAt
<1>4. /\ tick[t].at = "polls"
      /\ CoveredUpTo(c, tick[t].polls[c].upto)
  BY <1>3, TickUnprovoked DEF Unprovoked
<1>5. \A b \in Chains : CoveredUpTo(b, cursor[b])
  BY DEF FaultFree
<1>6. \A b \in Chains : CoveredUpTo(b, cursor'[b])
  <2>1. CASE SavePage(t, c)
    <3>1. cursor' = [cursor EXCEPT ![c] = tick[t].polls[c].upto] /\ cursor \in [Chains -> Nat]
      BY <2>1 DEF SavePage, MintInv, Types
    <3>2. \A b \in Chains : cursor'[b] = IF b = c THEN tick[t].polls[c].upto ELSE cursor[b]
      BY <3>1
    <3> QED
      BY <1>4, <1>5, <3>2
  <2>2. CASE StoreCursor(t, c)
    BY <1>5, <2>2 DEF StoreCursor
  <2> QED
    BY <2>1, <2>2
<1>7. CoveredUpTo(c, p.upto)
  BY <1>2, <1>4
<1>8. p.at \notin {"failed", "head"} /\ \A d \in ToSet(tick[t].polls[c].events) : d \in ToSet(p.events)
  BY <1>2
<1> QED
  BY <1>2, <1>3, <1>4, <1>6, <1>7, <1>8, PollKeepsAll

LEMMA ChainsKeepAll ==
    ASSUME MintInv, FaultFree, NEW d \in Deposits, Deposit(d) \/ LandOrphan(d)
    PROVE  FaultFree'
<1>1. UNCHANGED <<cursor, rows, tick>>
  BY DEF Deposit, LandOrphan, watcherVars
<1>2. LogGrows
  <2>1. CASE Deposit(d)
    <3>1. \A c \in Chains : \A i \in 1 .. Len(log[c]) : log[c][i] \in Deposits
      BY Elements DEF MintInv, Types
    <3> QED
      BY <2>1, <3>1, DepositAppends DEF LogGrows
  <2>2. CASE LandOrphan(d)
    BY <2>2, LogStays DEF LandOrphan
  <2> QED
    BY <2>1, <2>2
<1> QED
  BY <1>1, <1>2, OthersKeepAll

LEMMA InitCovers == ASSUME Init PROVE FaultFree
<1>1. MintInv
  BY InitMints
<1>2. \A t \in Ticks : Unprovoked(tick[t])
  BY IdleUnprovoked DEF Init, Unprovoked
<1>3. \A c \in Chains : log[c] = <<>> /\ cursor[c] = 0
  BY DEF Init
<1>4. \A c \in Chains : CoveredUpTo(c, cursor[c])
  BY <1>3, EmptySeq DEF CoveredUpTo
<1> QED
  BY <1>2, <1>4 DEF FaultFree

\* The first fault ends what FaultFree says; no other step does.
LEMMA NextCovers ==
    ASSUME MintInv, faults = 0 => FaultFree, [Next]_vars, faults' = 0
    PROVE  FaultFree'
<1>1. ~Fault
  BY DEF Fault, MintInv, Types
<1>2. ~Exit /\ \A t \in Ticks : ~TickFault(t)
  BY <1>1 DEF Exit, TickFault, SkipEvent, PollFails, AttemptFails, WaitFails, MarkFails, TickFails
<1>3. faults = 0
  <2>1. CASE UNCHANGED vars
    BY <2>1 DEF vars
  <2>2. CASE \E d \in Deposits : Deposit(d) \/ LandOrphan(d)
    BY <2>2 DEF Deposit, LandOrphan
  <2>3. CASE \E t \in Ticks : TickStep(t)
    <3> PICK t \in Ticks : TickStep(t)
      BY <2>3
    <3>1. CASE StartTick(t) \/ CollectPolls(t) \/ RejectPolls(t) \/ ForgetPolls(t)
      BY <3>1 DEF StartTick, CollectPolls, RejectPolls, ForgetPolls
    <3>2. CASE \E c \in Chains : ReadHead(t, c) \/ SavePage(t, c) \/ StoreCursor(t, c)
      BY <3>2 DEF ReadHead, SavePage, StoreCursor
    <3>3. CASE Enqueue(t) \/ ListMints(t) \/ Check(t)
      BY <3>3 DEF Enqueue, ListMints, Check
    <3>4. CASE LandAwaited(t) \/ Confirm(t) \/ MarkMinted(t) \/ RecordFailure(t)
      BY <3>4 DEF LandAwaited, Confirm, MarkMinted, RecordFailure
    <3> QED
      BY <3>1, <3>2, <3>3, <3>4 DEF TickStep
  <2> QED
    BY <1>2, <2>1, <2>2, <2>3 DEF Next
<1>4. FaultFree
  BY <1>3
<1>5. CASE UNCHANGED vars
  <2>1. UNCHANGED <<log, cursor, rows, tick>>
    BY <1>5 DEF vars, watcherVars
  <2> QED
    BY <1>4, <2>1, LogStays, OthersKeepAll
<1>6. ASSUME NEW t \in Ticks, TickStep(t)
      PROVE  FaultFree'
  <2>1. ~RejectPolls(t) /\ ~ForgetPolls(t)
    BY <1>4, TickUnprovoked DEF RejectPolls, ForgetPolls, PollAt, At, Unprovoked
  <2>2. CASE \E c \in Chains : ReadHead(t, c) \/ SavePage(t, c) \/ StoreCursor(t, c)
    BY <1>4, <2>2, ReadHeadKeepsAll, SavePageKeepsAll
  <2>3. CASE StartTick(t) \/ CollectPolls(t) \/ Enqueue(t) \/ ListMints(t)
    BY <1>4, <2>3, StartTickKeepsAll, CollectPollsKeepsAll, EnqueueKeepsAll, ListMintsKeepsAll
  <2>4. CASE Check(t) \/ LandAwaited(t) \/ Confirm(t) \/ MarkMinted(t) \/ RecordFailure(t)
    BY <1>4, <2>4, WorkKeepsAll
  <2> QED
    BY <1>6, <2>1, <2>2, <2>3, <2>4 DEF TickStep
<1> QED
  BY <1>2, <1>4, <1>5, <1>6, ChainsKeepAll DEF Next

\* The cursors of the watchers run ahead of the queue, ticks overlap and pages
\* repeat; yet what lies behind a cursor has a row or is carried.
THEOREM PipelineInvariant == Spec => []PipelineInv
<1>1. Init => PipelineInv
  BY InitMints, InitCovers DEF PipelineInv
<1>2. PipelineInv /\ [Next]_vars => PipelineInv'
  BY NextMints, NextCovers DEF PipelineInv
<1> QED
  BY <1>1, <1>2, PTL DEF Spec

\* As long as nothing fails, no deposit is lost: neither to ticks that overlap,
\* nor to pages that repeat, nor to cursors that are stored before the queue is.
THEOREM FaultFreeSafety == Spec => []NothingLostUnprovoked
<1>1. PipelineInv => NothingLostUnprovoked
  <2> SUFFICES ASSUME PipelineInv, faults = 0, NEW d \in Deposits, Lost(d)
               PROVE  FALSE
    BY DEF NothingLostUnprovoked
  <2>1. PICK c \in Chains : c = ChainOf[d]
    BY Constants
  <2>2. DOMAIN log[c] = 1 .. Len(log[c]) /\ Len(log[c]) \in Nat
    BY Elements DEF PipelineInv, MintInv, Types
  <2>3. PICK i \in 1 .. Len(log[c]) : log[c][i] = d /\ i <= cursor[c] /\ ~Covered(d)
    BY <2>1, <2>2 DEF Lost, Covered
  <2>4. cursor[c] \in 0 .. Len(log[c]) /\ \A j \in 1 .. cursor[c] : Covered(log[c][j])
    BY DEF PipelineInv, FaultFree, CoveredUpTo
  <2>5. i \in 1 .. cursor[c]
    BY <2>2, <2>3, <2>4
  <2> QED
    BY <2>3, <2>4, <2>5
<1> QED
  BY <1>1, PipelineInvariant, PTL

=============================================================================
