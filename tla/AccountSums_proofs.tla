------------------------- MODULE AccountSums_proofs -------------------------
(***************************************************************************)
(* Lemmas about Total, and about sums over finite sets (SumFunctionOnSet   *)
(* of the community modules).  Induction on the number of accounts, and on *)
(* the size of a set, goes through the least-element property of Nat,      *)
(* which is the library's well-foundedness of < on Nat.                    *)
(***************************************************************************)
EXTENDS AccountSums, Functions, FiniteSetTheorems, WellFoundedInduction, TLAPS

\* The order < on Nat, as a relation, is well founded.
LEMMA LessIsWellFounded ==
    \E R : /\ \A S \in SUBSET Nat :
                S # {} => \E x \in S : \A y \in S : ~ (<<y, x>> \in R)
           /\ \A x, y \in Nat : x < y => <<x, y>> \in R
<1>1. \A S \in SUBSET Nat :
         S # {} => \E x \in S : \A y \in S : ~ (<<y, x>> \in OpToRel(<, Nat))
  BY NatLessThanWellFounded, WFMin, Zenon
<1>2. \A x, y \in Nat : x < y => <<x, y>> \in OpToRel(<, Nat)
  BY Zenon DEF OpToRel
<1> QED BY <1>1, <1>2, Zenon

\* Every non-empty set of naturals has a least element.
LEMMA LeastNatural ==
    \A S \in SUBSET Nat : S # {} => \E m \in S : \A k \in S : m <= k
<1> SUFFICES ASSUME NEW S \in SUBSET Nat, S # {}
             PROVE  \E m \in S : \A k \in S : m <= k
  OBVIOUS
<1>1. PICK R : /\ \A T \in SUBSET Nat :
                    T # {} => \E x \in T : \A y \in T : ~ (<<y, x>> \in R)
               /\ \A x, y \in Nat : x < y => <<x, y>> \in R
  BY LessIsWellFounded, Zenon
<1>2. PICK m \in S : \A y \in S : ~ (<<y, m>> \in R)
  BY <1>1, Zenon
<1>3. ASSUME NEW k \in S
      PROVE  m <= k
  <2>1. m \in Nat /\ k \in Nat
    OBVIOUS
  <2>2. ~ (k < m)
    BY <1>1, <1>2, <2>1, Zenon
  <2> QED BY <2>1, <2>2
<1> QED BY <1>3, Zenon

\* Induction over a set: a set of naturals that holds 0 and the successor of
\* each of its members below n holds all of 0..n.
LEMMA InductionTo ==
    ASSUME NEW n \in Nat, NEW P,
           0 \in P,
           \A i \in 0..(n - 1) : i \in P => i + 1 \in P
    PROVE  \A i \in 0..n : i \in P
<1> SUFFICES ASSUME NEW j \in 0..n, j \notin P
             PROVE  FALSE
  OBVIOUS
<1> DEFINE Outside == {i \in 0..n : i \notin P}
<1>1. Outside \in SUBSET Nat /\ Outside # {}
  OBVIOUS
<1>2. PICK m \in Outside : \A k \in Outside : m <= k
  BY <1>1, LeastNatural
<1>3. m \in 0..n /\ m # 0 /\ m \notin P
  OBVIOUS
<1>4. m - 1 \in 0..(n - 1) /\ m - 1 \in 0..n
  BY <1>3
<1>5. m - 1 \in P
  BY <1>2, <1>4
<1>6. (m - 1) + 1 \in P
  BY <1>4, <1>5
<1> QED BY <1>3, <1>6

\* The running sums of f exist, and they are what Total's recursion chooses.
LEMMA RunningSums ==
    ASSUME NEW n \in Nat, NEW f \in [1..n -> Int]
    PROVE  \E g \in [0..n -> Int] :
              /\ g[0] = 0
              /\ \A i \in 1..n : g[i] = g[i - 1] + f[i]
              /\ Total(f, n) = g[n]
<1> DEFINE Runs(g, m) == /\ g \in [0..m -> Int]
                         /\ g[0] = 0
                         /\ \A i \in 1..m : g[i] = g[i - 1] + f[i]
           P == {m \in 0..n : \E g : Runs(g, m)}
<1>1. 0 \in P
  <2> DEFINE z == [i \in 0..0 |-> 0]
  <2>1. z \in [0..0 -> Int] /\ z[0] = 0 /\ \A i \in 1..0 : z[i] = z[i - 1] + f[i]
    OBVIOUS
  <2>2. \E g : Runs(g, 0)
    <3> HIDE DEF z
    <3> QED BY <2>1
  <2> QED BY <2>2
<1>2. ASSUME NEW m \in 0..(n - 1), m \in P
      PROVE  m + 1 \in P
  <2>1. PICK g : Runs(g, m)
    BY <1>2
  <2> DEFINE h == [i \in 0..(m + 1) |-> IF i = m + 1 THEN g[m] + f[m + 1] ELSE g[i]]
  <2>2. m \in Nat /\ m + 1 \in 0..n /\ m + 1 \in 1..n
    OBVIOUS
  <2>3. g[m] \in Int /\ f[m + 1] \in Int
    BY <2>1, <2>2
  <2>4. h \in [0..(m + 1) -> Int]
    BY <2>1, <2>3
  <2>5. h[0] = 0
    BY <2>1, <2>2
  <2>6. ASSUME NEW i \in 1..(m + 1)
        PROVE  h[i] = h[i - 1] + f[i]
    <3>1. CASE i = m + 1
      BY <2>2, <3>1
    <3>2. CASE i \in 1..m
      <4>1. i \in 0..(m + 1) /\ i - 1 \in 0..(m + 1) /\ i # m + 1 /\ i - 1 # m + 1
        BY <2>2, <3>2
      <4>2. h[i] = g[i] /\ h[i - 1] = g[i - 1]
        BY <4>1
      <4> QED BY <2>1, <3>2, <4>2
    <3> QED BY <2>2, <3>1, <3>2
  <2>7. \E k : Runs(k, m + 1)
    <3> HIDE DEF h
    <3> QED BY <2>4, <2>5, <2>6
  <2> QED BY <2>2, <2>7
<1>3. n \in P
  <2>1. n \in 0..n
    OBVIOUS
  <2> HIDE DEF P
  <2> QED BY <1>1, <1>2, <2>1, InductionTo
<1>4. PICK g : Runs(g, n)
  BY <1>3
<1> DEFINE Step(h) == [i \in 0..n |-> IF i = 0 THEN 0 ELSE h[i - 1] + f[i]]
           upTo == CHOOSE h : h = Step(h)
<1>5. g = Step(g)
  BY <1>4
<1>6. upTo = Step(upTo)
  BY <1>5
<1>7. Total(f, n) = upTo[n]
  BY DEF Total
<1>8. Runs(upTo, n)
  <2> DEFINE Q == {i \in 0..n : upTo[i] = g[i]}
  <2>1. \A i \in 0..n : upTo[i] = IF i = 0 THEN 0 ELSE upTo[i - 1] + f[i]
    <3> HIDE DEF upTo
    <3> QED BY <1>6
  <2> HIDE DEF upTo
  <2>2. 0 \in Q
    BY <1>4, <2>1
  <2>3. ASSUME NEW i \in 0..(n - 1), i \in Q
        PROVE  i + 1 \in Q
    BY <1>4, <2>1, <2>3
  <2>4. \A i \in 0..n : i \in Q
    <3> HIDE DEF Q
    <3> QED BY <2>2, <2>3, InductionTo
  <2>5. upTo = g
    <3>1. upTo = [i \in 0..n |-> upTo[i]]
      BY <1>6
    <3> QED BY <1>4, <2>4, <3>1
  <2> QED BY <1>4, <2>5
<1> HIDE DEF upTo
<1> QED BY <1>7, <1>8

\* A sum of integers is an integer.
LEMMA TotalIsInt ==
    ASSUME NEW n \in Nat, NEW f \in [1..n -> Int]
    PROVE  Total(f, n) \in Int
BY RunningSums

\* Changing one account changes the sum by as much.
LEMMA TotalOfUpdate ==
    ASSUME NEW n \in Nat, NEW f \in [1..n -> Int], NEW u \in 1..n, NEW v \in Int
    PROVE  Total([f EXCEPT ![u] = v], n) = Total(f, n) + v - f[u]
<1> DEFINE e == [f EXCEPT ![u] = v]
<1>1. e \in [1..n -> Int] /\ e[u] = v /\ \A i \in 1..n : i # u => e[i] = f[i]
  OBVIOUS
<1> HIDE DEF e
<1>2. PICK g \in [0..n -> Int] : /\ g[0] = 0
                                 /\ \A i \in 1..n : g[i] = g[i - 1] + f[i]
                                 /\ Total(f, n) = g[n]
  BY RunningSums
<1>3. PICK h \in [0..n -> Int] : /\ h[0] = 0
                                 /\ \A i \in 1..n : h[i] = h[i - 1] + e[i]
                                 /\ Total(e, n) = h[n]
  BY <1>1, RunningSums
<1> DEFINE P == {i \in 0..n : h[i] = IF i < u THEN g[i] ELSE g[i] + v - f[u]}
<1>4. 0 \in P
  BY <1>2, <1>3
<1>5. ASSUME NEW i \in 0..(n - 1), i \in P
      PROVE  i + 1 \in P
  <2>1. i + 1 \in 1..n /\ i + 1 \in 0..n /\ (i + 1) - 1 = i
    OBVIOUS
  <2>2. h[i + 1] = h[i] + e[i + 1] /\ g[i + 1] = g[i] + f[i + 1]
    BY <1>2, <1>3, <2>1
  <2>3. /\ g[i] \in Int /\ g[i + 1] \in Int /\ h[i + 1] \in Int
        /\ f[i + 1] \in Int /\ f[u] \in Int
    <3>1. i \in 0..n
      OBVIOUS
    <3>2. g[i] \in Int /\ g[i + 1] \in Int
      BY <1>2, <2>1, <3>1, Zenon
    <3>3. h[i + 1] \in Int
      BY <1>3, <2>1, Zenon
    <3>4. f[i + 1] \in Int /\ f[u] \in Int
      BY <2>1, Zenon
    <3> QED BY <3>2, <3>3, <3>4, Zenon
  <2>4. h[i] = IF i < u THEN g[i] ELSE g[i] + v - f[u]
    BY <1>5
  <2>5. e[i + 1] = IF i + 1 = u THEN v ELSE f[i + 1]
    BY <1>1, <2>1
  <2>6. h[i + 1] = IF i + 1 < u THEN g[i + 1] ELSE g[i + 1] + v - f[u]
    <3>1. CASE i + 1 = u
      <4>1. f[i + 1] = f[u]
        BY <3>1, Zenon
      <4>2. i < u /\ ~ (i + 1 < u)
        BY <3>1
      <4>3. h[i + 1] = g[i] + v /\ g[i + 1] + v - f[u] = g[i] + v
        BY <2>2, <2>3, <2>4, <2>5, <3>1, <4>1, <4>2
      <4> QED BY <4>2, <4>3
    <3>2. CASE i + 1 < u
      BY <2>2, <2>3, <2>4, <2>5, <3>2
    <3>3. CASE u < i + 1
      <4>1. ~ (i < u) /\ ~ (i + 1 < u) /\ i + 1 # u
        BY <3>3
      <4>2. h[i + 1] = g[i] + v - f[u] + f[i + 1]
        BY <2>2, <2>4, <2>5, <4>1
      <4>3. PICK a \in Int : a = g[i]
        BY <2>3
      <4>4. PICK b \in Int : b = f[i + 1]
        BY <2>3
      <4>5. PICK c \in Int : c = f[u]
        BY <2>3
      <4>6. h[i + 1] = a + v - c + b /\ g[i + 1] = a + b
        BY <2>2, <4>2, <4>3, <4>4, <4>5, Zenon
      <4>7. a + v - c + b = (a + b) + v - c
        OBVIOUS
      <4>8. h[i + 1] = g[i + 1] + v - f[u]
        BY <4>5, <4>6, <4>7, Zenon
      <4> QED BY <4>1, <4>8
    <3> QED BY <3>1, <3>2, <3>3
  <2> QED BY <2>1, <2>6
<1>6. n \in P
  <2>1. n \in 0..n
    OBVIOUS
  <2> HIDE DEF P
  <2> QED BY <1>4, <1>5, <2>1, InductionTo
<1>7. Total(e, n) = Total(f, n) + v - f[u]
  BY <1>2, <1>3, <1>6
<1> QED BY <1>7 DEF e

\* Adding to one account, in the form the entry points write it.
Adds(g, f, u, d) == g = [f EXCEPT ![u] = f[u] + d]

LEMMA TotalOfAddition ==
    ASSUME NEW n \in Nat, NEW f \in [1..n -> Int], NEW u \in 1..n, NEW d \in Int,
           NEW g, Adds(g, f, u, d)
    PROVE  /\ Total(f, n) \in Int
           /\ Total(g, n) = Total(f, n) + d
<1> DEFINE v == f[u] + d
<1>1. v \in Int /\ f[u] \in Int /\ v - f[u] = d
  OBVIOUS
<1>2. g = [f EXCEPT ![u] = v]
  BY DEF Adds
<1> HIDE DEF v
<1>3. Total([f EXCEPT ![u] = v], n) = Total(f, n) + v - f[u]
  BY <1>1, TotalOfUpdate
<1>4. Total(f, n) \in Int
  BY TotalIsInt
<1>5. Total(g, n) = Total(f, n) + v - f[u]
  BY <1>2, <1>3
<1> QED BY <1>1, <1>4, <1>5

\* The sum of nothing but zeros.
LEMMA TotalOfZeros ==
    ASSUME NEW n \in Nat
    PROVE  Total([i \in 1..n |-> 0], n) = 0
<1> DEFINE z == [i \in 1..n |-> 0]
<1>1. z \in [1..n -> Int] /\ \A i \in 1..n : z[i] = 0
  OBVIOUS
<1> HIDE DEF z
<1>2. PICK g \in [0..n -> Int] : /\ g[0] = 0
                                 /\ \A i \in 1..n : g[i] = g[i - 1] + z[i]
                                 /\ Total(z, n) = g[n]
  BY <1>1, RunningSums
<1> DEFINE P == {i \in 0..n : g[i] = 0}
<1>3. 0 \in P
  BY <1>2
<1>4. ASSUME NEW i \in 0..(n - 1), i \in P
      PROVE  i + 1 \in P
  <2>1. i + 1 \in 1..n /\ i + 1 \in 0..n /\ (i + 1) - 1 = i
    OBVIOUS
  <2> QED BY <1>1, <1>2, <1>4, <2>1
<1>5. n \in P
  <2>1. n \in 0..n
    OBVIOUS
  <2> HIDE DEF P
  <2> QED BY <1>3, <1>4, <2>1, InductionTo
<1>6. Total(z, n) = 0
  BY <1>2, <1>5
<1> QED BY <1>6 DEF z

\* No account of a map without negative entries exceeds the sum.
LEMMA TotalDominates ==
    ASSUME NEW n \in Nat, NEW f \in [1..n -> Nat], NEW u \in 1..n
    PROVE  f[u] <= Total(f, n)
<1>1. PICK g \in [0..n -> Int] : /\ g[0] = 0
                                 /\ \A i \in 1..n : g[i] = g[i - 1] + f[i]
                                 /\ Total(f, n) = g[n]
  <2>1. f \in [1..n -> Int]
    OBVIOUS
  <2> QED BY <2>1, RunningSums
<1> DEFINE P == {i \in 0..n : g[i] >= 0 /\ (u <= i => f[u] <= g[i])}
<1>2. 0 \in P
  BY <1>1
<1>3. ASSUME NEW i \in 0..(n - 1), i \in P
      PROVE  i + 1 \in P
  <2>1. i + 1 \in 1..n /\ i + 1 \in 0..n /\ (i + 1) - 1 = i
    OBVIOUS
  <2>2. g[i + 1] = g[i] + f[i + 1] /\ g[i] \in Int /\ f[i + 1] \in Nat /\ f[u] \in Nat
    BY <1>1, <2>1
  <2>3. CASE u <= i
    BY <1>3, <2>1, <2>2, <2>3
  <2>4. CASE ~ (u <= i)
    BY <1>3, <2>1, <2>2, <2>4
  <2> QED BY <2>3, <2>4
<1>4. n \in P
  <2>1. n \in 0..n
    OBVIOUS
  <2> HIDE DEF P
  <2> QED BY <1>2, <1>3, <2>1, InductionTo
<1> QED BY <1>1, <1>4

LEMMA ProductOverSum ==
    ASSUME NEW d \in Int, NEW x \in Int, NEW y \in Int
    PROVE  /\ d * x \in Int /\ d * y \in Int
           /\ d * (x + y) = d * x + d * y
OBVIOUS

LEMMA CombinationStep ==
    ASSUME NEW d \in Int, NEW p \in Int, NEW q \in Int, NEW a \in Int, NEW b \in Int
    PROVE  (p + d * q) + (a + d * b) = (p + a) + d * (q + b)
<1> DEFINE x == d * q
           y == d * b
           z == d * (q + b)
<1>1. x \in Int /\ y \in Int /\ z = x + y
  BY ProductOverSum
<1> HIDE DEF x, y, z
<1>2. (p + x) + (a + y) = (p + a) + z
  BY <1>1
<1> QED BY <1>2 DEF x, y, z

\* Sums are linear.
Combines(h, f, g, d, n) == \A i \in 1..n : h[i] = f[i] + d * g[i]

LEMMA TotalOfCombination ==
    ASSUME NEW n \in Nat, NEW f \in [1..n -> Int], NEW g \in [1..n -> Int],
           NEW h \in [1..n -> Int], NEW d \in Int,
           Combines(h, f, g, d, n)
    PROVE  /\ Total(f, n) \in Int /\ Total(g, n) \in Int
           /\ Total(h, n) = Total(f, n) + d * Total(g, n)
<1>1. PICK F \in [0..n -> Int] : /\ F[0] = 0
                                 /\ \A i \in 1..n : F[i] = F[i - 1] + f[i]
                                 /\ Total(f, n) = F[n]
  BY RunningSums
<1>2. PICK G \in [0..n -> Int] : /\ G[0] = 0
                                 /\ \A i \in 1..n : G[i] = G[i - 1] + g[i]
                                 /\ Total(g, n) = G[n]
  BY RunningSums
<1>3. PICK H \in [0..n -> Int] : /\ H[0] = 0
                                 /\ \A i \in 1..n : H[i] = H[i - 1] + h[i]
                                 /\ Total(h, n) = H[n]
  BY RunningSums
<1> DEFINE P == {i \in 0..n : H[i] = F[i] + d * G[i]}
<1>4. 0 \in P
  <2>1. d * 0 = 0
    OBVIOUS
  <2> QED BY <1>1, <1>2, <1>3, <2>1
<1>5. ASSUME NEW i \in 0..(n - 1), i \in P
      PROVE  i + 1 \in P
  <2>1. i + 1 \in 1..n /\ i + 1 \in 0..n /\ (i + 1) - 1 = i
    OBVIOUS
  <2>2. /\ F[i] \in Int /\ G[i] \in Int /\ f[i + 1] \in Int /\ g[i + 1] \in Int
        /\ F[i + 1] = F[i] + f[i + 1]
        /\ G[i + 1] = G[i] + g[i + 1]
        /\ H[i + 1] = H[i] + h[i + 1]
    <3> HIDE DEF P
    <3>1. i \in 0..n /\ i + 1 \in 1..n
      BY <2>1
    <3>2. F[i] \in Int /\ f[i + 1] \in Int /\ F[i + 1] = F[i] + f[i + 1]
      BY <1>1, <2>1, <3>1
    <3>3. G[i] \in Int /\ g[i + 1] \in Int /\ G[i + 1] = G[i] + g[i + 1]
      BY <1>2, <2>1, <3>1
    <3>4. H[i + 1] = H[i] + h[i + 1]
      BY <1>3, <2>1, <3>1
    <3> QED BY <3>2, <3>3, <3>4
  <2>3. h[i + 1] = f[i + 1] + d * g[i + 1]
    BY <2>1, Zenon DEF Combines
  <2>4. H[i] = F[i] + d * G[i]
    BY <1>5, Zenon
  <2>5. H[i + 1] = F[i + 1] + d * G[i + 1]
    <3>1. H[i + 1] = (F[i] + d * G[i]) + (f[i + 1] + d * g[i + 1])
      BY <2>2, <2>3, <2>4, Zenon
    <3>2. (F[i] + d * G[i]) + (f[i + 1] + d * g[i + 1])
            = (F[i] + f[i + 1]) + d * (G[i] + g[i + 1])
      <4>1. PICK p \in Int, q \in Int, a \in Int, b \in Int :
               p = F[i] /\ q = G[i] /\ a = f[i + 1] /\ b = g[i + 1]
        BY <2>2
      <4>2. (p + d * q) + (a + d * b) = (p + a) + d * (q + b)
        BY CombinationStep
      <4> QED BY <4>1, <4>2, Zenon
    <3> QED BY <2>2, <3>1, <3>2, Zenon
  <2> QED BY <2>1, <2>5
<1>6. n \in P
  <2>1. n \in 0..n
    OBVIOUS
  <2> HIDE DEF P
  <2> QED BY <1>4, <1>5, <2>1, InductionTo
<1> QED BY <1>1, <1>2, <1>3, <1>6

\* Sums are monotone.
LEMMA TotalIsMonotone ==
    ASSUME NEW n \in Nat, NEW f \in [1..n -> Int], NEW g \in [1..n -> Int],
           \A i \in 1..n : f[i] <= g[i]
    PROVE  Total(f, n) <= Total(g, n)
<1>1. PICK F \in [0..n -> Int] : /\ F[0] = 0
                                 /\ \A i \in 1..n : F[i] = F[i - 1] + f[i]
                                 /\ Total(f, n) = F[n]
  BY RunningSums
<1>2. PICK G \in [0..n -> Int] : /\ G[0] = 0
                                 /\ \A i \in 1..n : G[i] = G[i - 1] + g[i]
                                 /\ Total(g, n) = G[n]
  BY RunningSums
<1> DEFINE P == {i \in 0..n : F[i] <= G[i]}
<1>3. 0 \in P
  BY <1>1, <1>2
<1>4. ASSUME NEW i \in 0..(n - 1), i \in P
      PROVE  i + 1 \in P
  <2>1. i + 1 \in 1..n /\ i + 1 \in 0..n /\ (i + 1) - 1 = i
    OBVIOUS
  <2>2. F[i + 1] = F[i] + f[i + 1] /\ G[i + 1] = G[i] + g[i + 1]
    BY <1>1, <1>2, <2>1
  <2> QED BY <1>1, <1>2, <1>4, <2>1, <2>2
<1>5. n \in P
  <2>1. n \in 0..n
    OBVIOUS
  <2> HIDE DEF P
  <2> QED BY <1>3, <1>4, <2>1, InductionTo
<1> QED BY <1>1, <1>2, <1>5

\* What a window looks back on is part of the whole: g lists the last entries of f
\* up to top, newest first, and zeros once f has no more.
LEMMA WindowWithinTotal ==
    ASSUME NEW n \in Nat, NEW f \in [1..n -> Nat], NEW top \in 0..n,
           NEW w \in Nat, NEW g \in [1..w -> Nat],
           \A k \in 1..w : g[k] = IF k <= top THEN f[top + 1 - k] ELSE 0
    PROVE  Total(g, w) <= Total(f, n)
<1>1. PICK F \in [0..n -> Int] : /\ F[0] = 0
                                 /\ \A i \in 1..n : F[i] = F[i - 1] + f[i]
                                 /\ Total(f, n) = F[n]
  <2>1. f \in [1..n -> Int]
    OBVIOUS
  <2> QED BY <2>1, RunningSums
<1>2. PICK G \in [0..w -> Int] : /\ G[0] = 0
                                 /\ \A k \in 1..w : G[k] = G[k - 1] + g[k]
                                 /\ Total(g, w) = G[w]
  <2>1. g \in [1..w -> Int]
    OBVIOUS
  <2> QED BY <2>1, RunningSums
<1>3. F[top] \in Int /\ F[top] <= F[n] /\ \A i \in 0..n : 0 <= F[i]
  <2> DEFINE P == {i \in 0..n : 0 <= F[i] /\ (top <= i => F[top] <= F[i])}
  <2>1. 0 \in P
    BY <1>1
  <2>2. ASSUME NEW i \in 0..(n - 1), i \in P
        PROVE  i + 1 \in P
    <3>1. i + 1 \in 1..n /\ i + 1 \in 0..n /\ (i + 1) - 1 = i
      OBVIOUS
    <3>2. /\ F[i + 1] = F[i] + f[i + 1] /\ f[i + 1] \in Nat
          /\ F[i] \in Int /\ F[i + 1] \in Int /\ F[top] \in Int
      BY <1>1, <3>1
    <3>3. CASE top <= i
      BY <2>2, <3>1, <3>2, <3>3, SMTT(20)
    <3>4. CASE top = i + 1
      BY <2>2, <3>1, <3>2, <3>4
    <3>5. CASE i + 1 < top
      BY <2>2, <3>1, <3>2, <3>5
    <3> QED BY <3>3, <3>4, <3>5
  <2>3. \A i \in 0..n : i \in P
    <3> HIDE DEF P
    <3> QED BY <2>1, <2>2, InductionTo
  <2> QED BY <2>3
<1> DEFINE Left(k) == IF k <= top THEN F[top - k] ELSE 0
           Q == {k \in 0..w : G[k] = F[top] - Left(k)}
<1>4. 0 \in Q
  BY <1>1, <1>2, <1>3
<1>5. ASSUME NEW k \in 0..(w - 1), k \in Q
      PROVE  k + 1 \in Q
  <2>1. k + 1 \in 1..w /\ k + 1 \in 0..w /\ (k + 1) - 1 = k
    OBVIOUS
  <2>2. G[k + 1] = G[k] + g[k + 1] /\ G[k] = F[top] - Left(k)
    BY <1>2, <1>5, <2>1
  <2>3. CASE k + 1 <= top
    <3>1. top - k \in 1..n /\ (top - k) - 1 = top - (k + 1) /\ top + 1 - (k + 1) = top - k
      BY <2>3
    <3>2. F[top - k] = F[top - (k + 1)] + f[top - k]
      BY <1>1, <3>1
    <3>3. g[k + 1] = f[top - k]
      BY <2>1, <2>3, <3>1
    <3>4. /\ F[top - k] \in Int /\ F[top - (k + 1)] \in Int /\ f[top - k] \in Int
      BY <3>1, <2>3
    <3>5. G[k + 1] = F[top] - F[top - (k + 1)]
      <4>1. G[k] = F[top] - F[top - k]
        BY <2>2, <2>3
      <4>2. PICK a \in Int : a = F[top - k]
        BY <3>4
      <4>3. PICK b \in Int : b = F[top - (k + 1)]
        BY <3>4
      <4>4. PICK c \in Int : c = f[top - k]
        BY <3>4
      <4>5. PICK d \in Int : d = F[top]
        BY <1>3
      <4>6. G[k] = d - a /\ a = b + c
        BY <3>2, <4>1, <4>2, <4>3, <4>4, <4>5, Zenon
      <4>7. G[k + 1] = (d - a) + c
        BY <2>2, <3>3, <4>4, <4>6, Zenon
      <4>8. G[k + 1] = d - b
        BY <4>6, <4>7
      <4> QED BY <4>3, <4>5, <4>8, Zenon
    <3> QED BY <2>1, <2>3, <3>5
  <2>4. CASE ~ (k + 1 <= top)
    <3>1. g[k + 1] = 0
      BY <2>1, <2>4
    <3>2. Left(k) = 0
      BY <1>1, <2>4
    <3> QED BY <1>3, <2>1, <2>2, <2>4, <3>1, <3>2
  <2> QED BY <2>3, <2>4
<1>6. G[w] = F[top] - Left(w)
  <2>1. w \in 0..w
    OBVIOUS
  <2>2. w \in Q
    <3> HIDE DEF Q
    <3> QED BY <1>4, <1>5, <2>1, InductionTo
  <2> QED BY <2>2
<1>7. Left(w) \in Int /\ 0 <= Left(w)
  BY <1>3
<1> QED
  <2> HIDE DEF Left
  <2> QED BY <1>1, <1>2, <1>3, <1>6, <1>7

----------------------------------------------------------------------------
\* Sums over a finite set.

\* g is the recursion behind the sum of f over S.
SumsUp(g, f, S) ==
    /\ SumFunctionOnSet(f, S) = g[S]
    /\ g[{}] = 0
    /\ \A T \in SUBSET S : T # {} => \E x \in T : g[T] = f[x] + g[T \ {x}]

LEMMA FoldOfSums ==
    ASSUME NEW S, IsFiniteSet(S), NEW f
    PROVE  \E g : SumsUp(g, f, S)
<1> DEFINE Pick(T) == CHOOSE x \in T : TRUE
           Body(g, T) == IF T = {} THEN 0 ELSE f[Pick(T)] + g[T \ {Pick(T)}]
           UpTo(k) == {T \in SUBSET S : Cardinality(T) <= k}
           Sums(g, k) == g = [T \in UpTo(k) |-> Body(g, T)]
           P == {k \in Nat : \E g : Sums(g, k)}
<1>1. \A T \in SUBSET S : IsFiniteSet(T) /\ Cardinality(T) \in Nat
  BY FS_Subset, FS_CardinalityType
<1>2. \A T \in SUBSET S : T # {} => /\ Pick(T) \in T
                                    /\ T \ {Pick(T)} \in SUBSET S
                                    /\ Cardinality(T \ {Pick(T)}) = Cardinality(T) - 1
  BY <1>1, FS_RemoveElement
<1> HIDE DEF Pick
<1>3. 0 \in P
  <2> DEFINE z == [T \in UpTo(0) |-> 0]
  <2>1. \A T \in UpTo(0) : T = {}
    BY <1>1, FS_EmptySet
  <2>2. Sums(z, 0)
    BY <2>1
  <2> QED BY <2>2
<1>4. ASSUME NEW k \in Nat, k \in P
      PROVE  k + 1 \in P
  <2>1. PICK g : Sums(g, k)
    BY <1>4
  <2> DEFINE h == [T \in UpTo(k + 1) |-> Body(g, T)]
  <2>2. \A T \in UpTo(k) : h[T] = g[T] /\ T \in UpTo(k + 1)
    <3> SUFFICES ASSUME NEW T \in UpTo(k) PROVE h[T] = g[T] /\ T \in UpTo(k + 1)
      OBVIOUS
    <3>1. T \in UpTo(k + 1)
      BY <1>1
    <3>2. g[T] = Body(g, T)
      BY <2>1
    <3> QED BY <3>1, <3>2
  <2>3. \A T \in UpTo(k + 1) : T # {} => T \ {Pick(T)} \in UpTo(k)
    BY <1>1, <1>2
  <2>4. \A T \in UpTo(k + 1) : Body(g, T) = Body(h, T)
    BY <2>2, <2>3
  <2>5. Sums(h, k + 1)
    BY <2>4
  <2> HIDE DEF h, Sums
  <2>6. \E sums : Sums(sums, k + 1)
    BY <2>5
  <2> QED BY <2>6
<1>5. \A k \in 0..Cardinality(S) : k \in P
  <2>1. Cardinality(S) \in Nat
    BY FS_CardinalityType
  <2> HIDE DEF P
  <2>2. \A i \in 0..(Cardinality(S) - 1) : i \in P => i + 1 \in P
    BY <1>4, <2>1
  <2> QED BY <1>3, <2>1, <2>2, InductionTo
<1>6. UpTo(Cardinality(S)) = SUBSET S
  BY FS_Subset
<1>7. \E g : g = [T \in SUBSET S |-> Body(g, T)]
  <2> HIDE DEF P
  <2>1. Cardinality(S) \in P
    BY <1>5, FS_CardinalityType
  <2> USE DEF P
  <2>2. PICK g : Sums(g, Cardinality(S))
    BY <2>1
  <2> QED BY <1>6, <2>2
<1> DEFINE sum == CHOOSE g : g = [T \in SUBSET S |-> Body(g, T)]
<1>8. sum = [T \in SUBSET S |-> Body(sum, T)]
  BY <1>7
<1>9. SumFunctionOnSet(f, S) = sum[S]
  BY DEF SumFunctionOnSet, FoldFunctionOnSet, MapThenFoldSet, Pick
<1> HIDE DEF sum
<1>10. sum[{}] = 0
  BY <1>8
<1>11. \A T \in SUBSET S : T # {} => sum[T] = f[Pick(T)] + sum[T \ {Pick(T)}]
  BY <1>8
<1>12. \A T \in SUBSET S : T # {} => \E x \in T : sum[T] = f[x] + sum[T \ {x}]
  BY <1>2, <1>11
<1>13. SumsUp(sum, f, S)
  BY <1>9, <1>10, <1>12 DEF SumsUp
<1> QED BY <1>13

\* Induction over the subsets of a finite set, by their size.
LEMMA SubsetInduction ==
    ASSUME NEW S, IsFiniteSet(S), NEW P,
           {} \in P,
           \A T \in SUBSET S : T # {} /\ (\A x \in T : T \ {x} \in P) => T \in P
    PROVE  S \in P
<1> DEFINE Q == {k \in Nat : \A T \in SUBSET S : Cardinality(T) <= k => T \in P}
<1>1. \A T \in SUBSET S : IsFiniteSet(T) /\ Cardinality(T) \in Nat
  BY FS_Subset, FS_CardinalityType
<1>2. 0 \in Q
  <2>1. \A T \in SUBSET S : Cardinality(T) <= 0 => T = {}
    BY <1>1, FS_EmptySet
  <2> QED BY <2>1
<1>3. ASSUME NEW k \in Nat, k \in Q PROVE k + 1 \in Q
  <2>1. ASSUME NEW T \in SUBSET S, Cardinality(T) <= k + 1, T # {} PROVE T \in P
    <3>1. ASSUME NEW x \in T PROVE T \ {x} \in P
      <4>1. Cardinality(T \ {x}) = Cardinality(T) - 1
        BY <1>1, FS_RemoveElement
      <4>2. Cardinality(T \ {x}) <= k
        BY <1>1, <2>1, <4>1
      <4> QED BY <1>3, <4>2
    <3> QED BY <2>1, <3>1
  <2>2. \A T \in SUBSET S : Cardinality(T) <= k + 1 => T \in P
    BY <2>1
  <2> QED BY <2>2
<1>4. Cardinality(S) \in Nat
  BY FS_CardinalityType
<1>5. Cardinality(S) \in Q
  <2> HIDE DEF Q
  <2>1. \A i \in 0..(Cardinality(S) - 1) : i \in Q => i + 1 \in Q
    BY <1>3, <1>4
  <2>2. \A i \in 0..Cardinality(S) : i \in Q
    BY <1>2, <1>4, <2>1, InductionTo
  <2> QED BY <1>4, <2>2
<1> QED BY <1>4, <1>5

\* A sum of naturals is a natural, and no less than any one of them.
LEMMA FoldDominates ==
    ASSUME NEW S, IsFiniteSet(S), NEW f, \A x \in S : f[x] \in Nat
    PROVE  /\ SumFunctionOnSet(f, S) \in Nat
           /\ \A x \in S : f[x] <= SumFunctionOnSet(f, S)
<1>0. PICK g : SumsUp(g, f, S)
  BY FoldOfSums
<1>1. /\ SumFunctionOnSet(f, S) = g[S]
      /\ g[{}] = 0
      /\ \A T \in SUBSET S : T # {} => \E x \in T : g[T] = f[x] + g[T \ {x}]
  BY <1>0 DEF SumsUp
<1> DEFINE P == {T \in SUBSET S : g[T] \in Nat /\ \A x \in T : f[x] <= g[T]}
<1>2. {} \in P
  BY <1>1
<1>3. ASSUME NEW T \in SUBSET S, T # {}, \A x \in T : T \ {x} \in P
      PROVE  T \in P
  <2>1. PICK x \in T : g[T] = f[x] + g[T \ {x}]
    BY <1>1, <1>3
  <2>2. f[x] \in Nat /\ g[T \ {x}] \in Nat /\ \A y \in T \ {x} : f[y] <= g[T \ {x}]
    BY <1>3
  <2>3. \A y \in T : f[y] \in Nat /\ (y = x \/ y \in T \ {x})
    OBVIOUS
  <2>4. g[T] \in Nat /\ \A y \in T : f[y] <= g[T]
    BY <2>1, <2>2, <2>3
  <2> QED BY <2>4
<1>4. S \in P
  <2> HIDE DEF P
  <2> QED BY <1>2, <1>3, SubsetInduction
<1> QED BY <1>1, <1>4

\* A sum with one term that is not zero is that term.
LEMMA FoldOfOneTerm ==
    ASSUME NEW S, IsFiniteSet(S), NEW f, NEW d \in S, f[d] \in Int,
           \A x \in S \ {d} : f[x] = 0
    PROVE  SumFunctionOnSet(f, S) = f[d]
<1>0. PICK g : SumsUp(g, f, S)
  BY FoldOfSums
<1>1. /\ SumFunctionOnSet(f, S) = g[S]
      /\ g[{}] = 0
      /\ \A T \in SUBSET S : T # {} => \E x \in T : g[T] = f[x] + g[T \ {x}]
  BY <1>0 DEF SumsUp
<1> DEFINE P == {T \in SUBSET S : g[T] = IF d \in T THEN f[d] ELSE 0}
<1>2. {} \in P
  BY <1>1
<1>3. ASSUME NEW T \in SUBSET S, T # {}, \A x \in T : T \ {x} \in P
      PROVE  T \in P
  <2>1. PICK x \in T : g[T] = f[x] + g[T \ {x}]
    BY <1>1, <1>3
  <2>2. T \ {x} \in P
    BY <1>3
  <2>3. CASE x = d
    BY <2>1, <2>2, <2>3
  <2>4. CASE x # d
    <3>1. f[x] = 0
      BY <2>4
    <3>2. d \in T <=> d \in T \ {x}
      BY <2>4
    <3> QED BY <2>1, <2>2, <3>1, <3>2
  <2> QED BY <2>3, <2>4
<1>4. S \in P
  <2> HIDE DEF P
  <2> QED BY <1>2, <1>3, SubsetInduction
<1> QED BY <1>1, <1>4

\* Which element the recursion takes out first does not matter.
LEMMA AnyTermFirst ==
    ASSUME NEW S, IsFiniteSet(S), NEW f, \A x \in S : f[x] \in Int, NEW g, SumsUp(g, f, S)
    PROVE  \A T \in SUBSET S : g[T] \in Int /\ \A y \in T : g[T] = f[y] + g[T \ {y}]
<1> DEFINE Free(T) == g[T] \in Int /\ \A y \in T : g[T] = f[y] + g[T \ {y}]
           P == {T \in SUBSET S : \A Q \in SUBSET T : Free(Q)}
<1>1. {} \in P
  <2>1. Free({})
    BY DEF SumsUp
  <2>2. \A Q \in SUBSET {} : Q = {}
    OBVIOUS
  <2> HIDE DEF Free
  <2> QED BY <2>1, <2>2
<1>2. ASSUME NEW T \in SUBSET S, T # {}, \A x \in T : T \ {x} \in P
      PROVE  T \in P
  <2>1. \A x \in T : \A Q \in SUBSET (T \ {x}) : Free(Q)
    BY <1>2
  <2>2. PICK x \in T : g[T] = f[x] + g[T \ {x}]
    BY <1>2 DEF SumsUp
  <2>3. Free(T)
    <3>1. g[T \ {x}] \in Int /\ f[x] \in Int
      BY <2>1
    <3>2. ASSUME NEW y \in T, y # x
          PROVE  g[T] = f[y] + g[T \ {y}]
      <4>1. PICK R : R = T \ {x, y} /\ R = (T \ {x}) \ {y} /\ R = (T \ {y}) \ {x}
        OBVIOUS
      <4>2. Free(T \ {x}) /\ Free(T \ {y}) /\ Free(R)
        <5>1. R \in SUBSET (T \ {x})
          BY <4>1
        <5> HIDE DEF Free
        <5> QED BY <2>1, <5>1
      <4>3. g[T \ {x}] = f[y] + g[R] /\ g[T \ {y}] = f[x] + g[R] /\ g[R] \in Int
        BY <3>2, <4>1, <4>2
      <4>4. f[y] \in Int
        OBVIOUS
      <4> QED BY <2>2, <3>1, <4>3, <4>4
    <3>3. g[T] \in Int
      BY <2>2, <3>1
    <3>4. \A y \in T : g[T] = f[y] + g[T \ {y}]
      <4> SUFFICES ASSUME NEW y \in T PROVE g[T] = f[y] + g[T \ {y}]
        OBVIOUS
      <4>1. CASE y = x
        BY <2>2, <4>1
      <4> QED BY <3>2, <4>1
    <3> QED BY <3>3, <3>4
  <2>4. \A Q \in SUBSET T : Q = T \/ \E z \in T : Q \in SUBSET (T \ {z})
    OBVIOUS
  <2> HIDE DEF Free
  <2> QED BY <2>1, <2>3, <2>4
<1>3. S \in P
  <2> HIDE DEF P
  <2> QED BY <1>1, <1>2, SubsetInduction
<1> QED BY <1>3

\* One more element adds its term.
LEMMA FoldOfAddition ==
    ASSUME NEW S, IsFiniteSet(S), NEW f, \A x \in S : f[x] \in Int,
           NEW e, e \notin S, f[e] \in Int
    PROVE  SumFunctionOnSet(f, S \cup {e}) = SumFunctionOnSet(f, S) + f[e]
<1> DEFINE A == S \cup {e}
<1>1. IsFiniteSet(A)
  BY FS_AddElement
<1>2. PICK g : SumsUp(g, f, S)
  BY FoldOfSums
<1>3. PICK h : SumsUp(h, f, A)
  <2> HIDE DEF A
  <2> QED BY <1>1, FoldOfSums
<1>4. \A T \in SUBSET S : g[T] \in Int /\ \A y \in T : g[T] = f[y] + g[T \ {y}]
  BY <1>2, AnyTermFirst
<1>5. \A T \in SUBSET A : h[T] \in Int /\ \A y \in T : h[T] = f[y] + h[T \ {y}]
  <2>1. \A x \in A : f[x] \in Int
    OBVIOUS
  <2> HIDE DEF A
  <2> QED BY <1>1, <1>3, <2>1, AnyTermFirst
<1> DEFINE P == {T \in SUBSET S : g[T] = h[T]}
<1>6. {} \in P
  BY <1>2, <1>3 DEF SumsUp
<1>7. ASSUME NEW T \in SUBSET S, T # {}, \A x \in T : T \ {x} \in P
      PROVE  T \in P
  <2>1. PICK x \in T : T \ {x} \in P
    BY <1>7
  <2>2. g[T] = f[x] + g[T \ {x}] /\ h[T] = f[x] + h[T \ {x}]
    BY <1>4, <1>5
  <2> QED BY <2>1, <2>2
<1>8. g[S] = h[S]
  <2>1. S \in P
    <3> HIDE DEF P
    <3> QED BY <1>6, <1>7, SubsetInduction
  <2> QED BY <2>1
<1>9. h[A] = f[e] + h[S] /\ h[S] \in Int
  <2>1. A \ {e} = S /\ e \in A /\ S \in SUBSET A /\ A \in SUBSET A
    OBVIOUS
  <2> HIDE DEF A
  <2> QED BY <1>5, <2>1
<1>10. SumFunctionOnSet(f, S) = g[S] /\ SumFunctionOnSet(f, A) = h[A]
  BY <1>2, <1>3 DEF SumsUp
<1> QED BY <1>8, <1>9, <1>10

\* A sum of naturals over a part is at most the sum over the whole.
LEMMA FoldOfPart ==
    ASSUME NEW S, IsFiniteSet(S), NEW f, \A x \in S : f[x] \in Nat, NEW T \in SUBSET S
    PROVE  SumFunctionOnSet(f, T) <= SumFunctionOnSet(f, S)
<1> DEFINE Sum(Q) == SumFunctionOnSet(f, Q)
           P == {Q \in SUBSET (S \ T) : Sum(T) <= Sum(T \cup Q)}
<1>1. IsFiniteSet(T) /\ IsFiniteSet(S \ T) /\ \A Q \in SUBSET S : IsFiniteSet(Q)
  BY FS_Subset
<1>2. \A Q \in SUBSET S : Sum(Q) \in Nat
  BY <1>1, FoldDominates
<1>3. {} \in P
  <2>1. T \cup {} = T
    OBVIOUS
  <2> QED BY <1>2, <2>1
<1>4. ASSUME NEW Q \in SUBSET (S \ T), Q # {}, \A x \in Q : Q \ {x} \in P
      PROVE  Q \in P
  <2>1. PICK x \in Q : Q \ {x} \in P
    BY <1>4
  <2>2. PICK R : R = T \cup (Q \ {x})
    OBVIOUS
  <2>3. R \in SUBSET S /\ R \cup {x} = T \cup Q /\ x \notin R
    BY <2>2
  <2>4. IsFiniteSet(R) /\ (\A y \in R : f[y] \in Int) /\ f[x] \in Nat
    BY <1>1, <2>3
  <2>5. SumFunctionOnSet(f, R \cup {x}) = SumFunctionOnSet(f, R) + f[x]
    BY <2>3, <2>4, FoldOfAddition
  <2>6. PICK a \in Nat, b \in Nat, c \in Nat :
           a = Sum(T) /\ b = Sum(R) /\ c = f[x] /\ a <= b /\ Sum(T \cup Q) = b + c
    <3>1. Sum(T) \in Nat /\ Sum(R) \in Nat /\ Sum(T) <= Sum(R)
      BY <1>2, <2>1, <2>2, <2>3
    <3>2. Sum(T \cup Q) = Sum(R) + f[x]
      BY <2>3, <2>5
    <3> HIDE DEF Sum
    <3> QED BY <2>4, <3>1, <3>2
  <2>7. Sum(T) <= Sum(T \cup Q)
    <3> HIDE DEF Sum
    <3> QED BY <2>6
  <2> QED BY <2>7
<1>5. S \ T \in P
  <2> HIDE DEF P
  <2> QED BY <1>1, <1>3, <1>4, SubsetInduction
<1>6. T \cup (S \ T) = S
  OBVIOUS
<1> QED BY <1>5, <1>6

============================================================================
