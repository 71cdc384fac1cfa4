---------------------------- MODULE CommonProofs ----------------------------
(***************************************************************************)
(* Proofs about the two modules of src/common: FragmentStreams, for any    *)
(* sizes of blocks, headers, varints and spans and any number of spans,    *)
(* and CircularBuffer, for any producers, elements and sizes.              *)
(***************************************************************************)
EXTENDS CircularBuffer, FragmentStreams, SequenceTheorems, FunctionTheorems,
        FiniteSetTheorems, WellFoundedInduction, TLAPS

-----------------------------------------------------------------------------
(* Numbers, and functions defined by recursion over them.                  *)

\* The least element of a set of numbers.
LEMMA NatLeast ==
  ASSUME NEW T, T \subseteq Nat, T # {}
  PROVE  \E x \in T : \A y \in T : x <= y
<1>1. PICK R : R = OpToRel(<, Nat)
  OBVIOUS
<1>2. IsWellFoundedOn(R, Nat)
  BY <1>1, NatLessThanWellFounded
<1>3. PICK x \in T : \A y \in T : ~ (<<y, x>> \in R)
  BY <1>2, WFMin, Zenon
<1>4. \A y \in T : ~(y < x)
  BY <1>1, <1>3 DEF OpToRel
<1>5. \A y \in T : x <= y
  BY <1>4
<1> QED BY <1>5

\* Induction, for a set of numbers.
LEMMA NatAll ==
  ASSUME NEW T, 0 \in T, \A n \in Nat : n \in T => n + 1 \in T
  PROVE  Nat \subseteq T
<1>1. SUFFICES ASSUME Nat \ T # {} PROVE FALSE
  OBVIOUS
<1>2. PICK x \in Nat \ T : \A y \in Nat \ T : x <= y
  BY <1>1, NatLeast
<1>3. x # 0 /\ x - 1 \in Nat /\ (x - 1) + 1 = x /\ ~(x <= x - 1)
  BY <1>2
<1>4. x - 1 \in T
  BY <1>2, <1>3
<1> QED BY <1>2, <1>3, <1>4

\* The same up to a bound.
LEMMA UpTo ==
  ASSUME NEW n \in Nat, NEW T, 0 \in T, \A k \in 1 .. n : k - 1 \in T => k \in T
  PROVE  0 .. n \subseteq T
<1>1. PICK U : U = {k \in Nat : k <= n => k \in T}
  OBVIOUS
<1>2. 0 \in U
  BY <1>1
<1>3. ASSUME NEW k \in Nat, k \in U
      PROVE  k + 1 \in U
  <2>1. k + 1 \in Nat /\ (k + 1) - 1 = k /\ (k + 1 <= n => k + 1 \in 1 .. n /\ k <= n)
    OBVIOUS
  <2>2. k + 1 <= n => k + 1 \in T
    BY <1>1, <1>3, <2>1
  <2> QED BY <1>1, <2>1, <2>2
<1>4. Nat \subseteq U
  BY <1>2, <1>3, NatAll
<1> QED BY <1>1, <1>4

\* g starts with a and goes on as F says.
Goes(g, S, a, n, F) == g \in [0 .. n -> S] /\ g[0] = a /\ \A k \in 1 .. n : g[k] = F[k][g[k - 1]]

LEMMA Recursion ==
  ASSUME NEW S, NEW a \in S, NEW n \in Nat, NEW F, F \in [1 .. n -> [S -> S]]
  PROVE  \E g : Goes(g, S, a, n, F)
<1>1. PICK T : T = {m \in 0 .. n :
        \E g : g \in [0 .. m -> S] /\ g[0] = a /\ \A k \in 1 .. m : g[k] = F[k][g[k - 1]]}
  OBVIOUS
<1>2. 0 \in T
  <2>1. PICK g : g = [k \in 0 .. 0 |-> a]
    OBVIOUS
  <2>2. g \in [0 .. 0 -> S] /\ g[0] = a /\ \A k \in 1 .. 0 : g[k] = F[k][g[k - 1]]
    BY <2>1
  <2> QED BY <1>1, <2>2
<1>3. ASSUME NEW m \in 1 .. n, m - 1 \in T
      PROVE  m \in T
  <2>1. PICK f \in [0 .. m - 1 -> S] :
          f[0] = a /\ \A k \in 1 .. m - 1 : f[k] = F[k][f[k - 1]]
    BY <1>1, <1>3
  <2>2. PICK g : g = [k \in 0 .. m |-> IF k = m THEN F[m][f[m - 1]] ELSE f[k]]
    OBVIOUS
  <2>3. m - 1 \in 0 .. m - 1 /\ 0 \in 0 .. m - 1 /\ 0 # m /\ 0 \in 0 .. m /\ m \in 0 .. n /\ m \in 0 .. m
    BY <1>3
  <2>4. F[m][f[m - 1]] \in S
    BY <1>3, <2>1, <2>3
  <2>5. \A k \in 0 .. m : k # m => k \in 0 .. m - 1
    BY <1>3
  <2>6. g \in [0 .. m -> S]
    BY <2>1, <2>2, <2>4, <2>5
  <2>7. g[0] = a
    BY <2>1, <2>2, <2>3
  <2>8. ASSUME NEW k \in 1 .. m
        PROVE  g[k] = F[k][g[k - 1]]
    <3>1. k \in 0 .. m /\ k - 1 \in 0 .. m /\ k - 1 # m /\ (k # m => k \in 1 .. m - 1)
      BY <1>3, <2>8
    <3>2. g[k - 1] = f[k - 1]
      BY <2>2, <3>1
    <3>3. CASE k = m
      BY <2>2, <2>3, <3>2, <3>3
    <3>4. CASE k # m
      BY <2>1, <2>2, <3>1, <3>2, <3>4
    <3> QED BY <3>3, <3>4
  <2> QED BY <1>1, <2>3, <2>6, <2>7, <2>8
<1>4. 0 .. n \subseteq T
  BY <1>2, <1>3, UpTo
<1>5. n \in T
  BY <1>4
<1> QED BY <1>1, <1>5 DEF Goes

-----------------------------------------------------------------------------
(* Running totals.                                                         *)

LEMMA SeqDomain ==
  ASSUME NEW S, NEW s \in Seq(S)
  PROVE  Len(s) \in Nat /\ DOMAIN s = 1 .. Len(s) /\ \A i \in 1 .. Len(s) : s[i] \in S
BY LenProperties, ElementOfSeq

LEMMA SumsExist ==
  ASSUME NEW s \in Seq(Nat)
  PROVE  \E g \in [0 .. Len(s) -> Nat] :
           g = [i \in 0 .. Len(s) |-> IF i = 0 THEN 0 ELSE g[i - 1] + s[i]]
<1>1. Len(s) \in Nat /\ \A i \in 1 .. Len(s) : s[i] \in Nat
  BY SeqDomain
<1>2. PICK F : F = [k \in 1 .. Len(s) |-> [v \in Nat |-> v + s[k]]]
  OBVIOUS
<1>3. F \in [1 .. Len(s) -> [Nat -> Nat]]
  <2>1. ASSUME NEW k \in 1 .. Len(s)
        PROVE  F[k] \in [Nat -> Nat]
    <3>1. \A v \in Nat : v + s[k] \in Nat
      BY <1>1, <2>1
    <3> QED BY <1>2, <3>1
  <2> QED BY <1>2, <2>1
<1>4. PICK g : Goes(g, Nat, 0, Len(s), F)
  <2>1. 0 \in Nat
    OBVIOUS
  <2> QED BY <1>1, <1>3, <2>1, Recursion
<1> USE DEF Goes
<1>5. ASSUME NEW i \in 0 .. Len(s)
      PROVE  g[i] = IF i = 0 THEN 0 ELSE g[i - 1] + s[i]
  <2>1. CASE i = 0
    BY <1>4, <2>1
  <2>2. CASE i # 0
    <3>1. i \in 1 .. Len(s) /\ i - 1 \in 0 .. Len(s)
      BY <1>1, <2>2
    <3>2. g[i] = F[i][g[i - 1]] /\ g[i - 1] \in Nat
      BY <1>4, <3>1
    <3> QED BY <1>2, <2>2, <3>1, <3>2
  <2> QED BY <2>1, <2>2
<1>6. g = [i \in 0 .. Len(s) |-> IF i = 0 THEN 0 ELSE g[i - 1] + s[i]]
  BY <1>4, <1>5
<1> QED BY <1>4, <1>6

\* Totals go up by one number after the other.
LEMMA SumsSteps ==
  ASSUME NEW s \in Seq(Nat)
  PROVE  /\ Sums(s) \in [0 .. Len(s) -> Nat]
         /\ Sums(s)[0] = 0
         /\ \A i \in 1 .. Len(s) : Sums(s)[i] = Sums(s)[i - 1] + s[i]
<1>1. Len(s) \in Nat
  BY SeqDomain
<1> DEFINE Total(g) == g = [i \in 0 .. Len(s) |-> IF i = 0 THEN 0 ELSE g[i - 1] + s[i]]
           c == CHOOSE g : Total(g)
<1>2. \E g : Total(g)
  BY SumsExist, Zenon
<1>3. Total(c)
  BY <1>2
<1>4. Sums(s) = c
  BY DEF Sums
<1> HIDE DEF c
<1>5. c[0] = 0 /\ \A i \in 1 .. Len(s) : c[i] = c[i - 1] + s[i]
  BY <1>1, <1>3
<1>6. PICK T : T = {k \in Nat : c[k] \in Nat}
  OBVIOUS
<1>7. 0 .. Len(s) \subseteq T
  <2>1. 0 \in T
    BY <1>5, <1>6
  <2>2. ASSUME NEW k \in 1 .. Len(s), k - 1 \in T
        PROVE  k \in T
    <3>1. s[k] \in Nat /\ c[k - 1] \in Nat
      BY <1>6, <2>2, SeqDomain
    <3> QED BY <1>5, <1>6, <2>2, <3>1
  <2> QED BY <1>1, <2>1, <2>2, UpTo
<1>8. c \in [0 .. Len(s) -> Nat]
  BY <1>3, <1>6, <1>7
<1> QED BY <1>4, <1>5, <1>8

\* A greater place has no smaller total.
LEMMA SumsMonotone ==
  ASSUME NEW s \in Seq(Nat), NEW j \in 0 .. Len(s), NEW i \in 0 .. j
  PROVE  Sums(s)[i] <= Sums(s)[j]
<1>1. Len(s) \in Nat
  BY SeqDomain
<1>2. PICK T : T = {k \in Nat : k <= Len(s) /\ (i <= k => Sums(s)[i] <= Sums(s)[k])}
  OBVIOUS
<1>3. i \in 0 .. Len(s)
  BY <1>1
<1>4. 0 .. Len(s) \subseteq T
  <2>1. 0 \in T
    <3>1. 0 \in Nat /\ 0 <= Len(s)
      BY <1>1
    <3>2. i <= 0 => i = 0
      OBVIOUS
    <3>3. Sums(s)[0] = 0
      BY SumsSteps
    <3> QED BY <1>2, <3>1, <3>2, <3>3
  <2>2. ASSUME NEW k \in 1 .. Len(s), k - 1 \in T
        PROVE  k \in T
    <3>1. k \in Nat /\ k - 1 \in 0 .. Len(s) /\ k \in 0 .. Len(s) /\ k <= Len(s) /\ s[k] \in Nat
      BY <1>1, <2>2, SeqDomain
    <3>2. /\ Sums(s)[k] = Sums(s)[k - 1] + s[k]
          /\ Sums(s)[k - 1] \in Nat /\ Sums(s)[k] \in Nat /\ Sums(s)[i] \in Nat
      BY <1>3, <3>1, SumsSteps
    <3>3. CASE i = k
      BY <1>2, <3>1, <3>2, <3>3
    <3>4. CASE i # k
      <4>1. i <= k => i <= k - 1
        BY <3>4, <1>3, <3>1
      <4>2. i <= k - 1 => Sums(s)[i] <= Sums(s)[k - 1]
        BY <1>2, <2>2
      <4>3. i <= k => Sums(s)[i] <= Sums(s)[k]
        BY <3>2, <4>1, <4>2
      <4> QED BY <1>2, <3>1, <4>3
    <3> QED BY <3>3, <3>4
  <2> QED BY <1>1, <2>1, <2>2, UpTo
<1>5. j \in T /\ i <= j
  BY <1>1, <1>4
<1> QED BY <1>2, <1>5

\* The totals are the only function that goes up so.
LEMMA SumsAre ==
  ASSUME NEW s \in Seq(Nat), NEW g, NEW n \in 0 .. Len(s),
         g[0] = 0, \A i \in 1 .. n : g[i] = g[i - 1] + s[i]
  PROVE  \A i \in 0 .. n : g[i] = Sums(s)[i]
<1>1. Len(s) \in Nat /\ n \in Nat
  BY SeqDomain
<1>2. PICK T : T = {k \in Nat : g[k] = Sums(s)[k]}
  OBVIOUS
<1>3. 0 \in T
  BY <1>2, SumsSteps
<1>4. ASSUME NEW k \in 1 .. n, k - 1 \in T
      PROVE  k \in T
  <2>1. k \in 1 .. Len(s) /\ k \in Nat
    BY <1>1
  <2>2. Sums(s)[k] = Sums(s)[k - 1] + s[k]
    BY <2>1, SumsSteps
  <2> QED BY <1>2, <1>4, <2>1, <2>2
<1>5. 0 .. n \subseteq T
  BY <1>1, <1>3, <1>4, UpTo
<1> QED BY <1>2, <1>5

\* Lists that are the same up to a place have the same totals up to it.
LEMMA SumsAgree ==
  ASSUME NEW s \in Seq(Nat), NEW q \in Seq(Nat), NEW n \in Nat,
         n <= Len(s), n <= Len(q), \A i \in 1 .. n : s[i] = q[i]
  PROVE  \A i \in 0 .. n : Sums(s)[i] = Sums(q)[i]
<1>1. n \in 0 .. Len(s) /\ n \in 0 .. Len(q)
  BY SeqDomain
<1>2. Sums(s)[0] = 0 /\ \A i \in 1 .. n : Sums(s)[i] = Sums(s)[i - 1] + s[i]
  BY <1>1, SumsSteps
<1>3. \A i \in 1 .. n : Sums(s)[i] = Sums(s)[i - 1] + q[i]
  BY <1>2
<1> QED BY <1>1, <1>2, <1>3, SumsAre

\* Every number up to the last total falls within one of the list.
LEMMA SumsLocate ==
  ASSUME NEW s \in Seq(Nat), NEW m \in Nat, m < Sum(s)
  PROVE  \E i \in 1 .. Len(s) : Sums(s)[i - 1] <= m /\ m < Sums(s)[i]
<1>1. Len(s) \in Nat
  BY SeqDomain
<1>2. PICK T : T = {k \in 0 .. Len(s) : m < Sums(s)[k]}
  OBVIOUS
<1>3. Len(s) \in T /\ T \subseteq Nat
  BY <1>1, <1>2 DEF Sum
<1>4. PICK k \in T : \A j \in T : k <= j
  BY <1>3, NatLeast
<1>5. k # 0
  BY <1>2, <1>4, SumsSteps
<1>6. k \in 1 .. Len(s) /\ k - 1 \in 0 .. Len(s) /\ ~(k <= k - 1)
  BY <1>1, <1>2, <1>4, <1>5
<1>7. ~(m < Sums(s)[k - 1])
  BY <1>2, <1>4, <1>6
<1>8. Sums(s)[k - 1] \in Nat
  BY <1>6, SumsSteps
<1>9. Sums(s)[k - 1] <= m
  BY <1>7, <1>8
<1> QED BY <1>2, <1>4, <1>6, <1>9

-----------------------------------------------------------------------------
(* Numbered bytes.                                                         *)

\* What is left of n when m are taken.
Past(n, m) == IF n > m THEN n - m ELSE 0

\* c gives bytes numbers up to n.
Bounded(c, n) == c = [x \in DOMAIN c |-> c[x]] /\ \A x \in DOMAIN c : c[x] \in 1 .. n

\* Each of them to one byte.
Numbered(c, n) ==
  /\ Bounded(c, n)
  /\ \A m \in 1 .. n : \E x \in DOMAIN c : c[x] = m
  /\ \A x, y \in DOMAIN c : c[x] = c[y] => x = y

LEMMA PastTyped ==
  ASSUME NEW n \in Nat, NEW m \in Nat
  PROVE  Past(n, m) \in Nat /\ (n <= m => Past(n, m) = 0) /\ (m <= n => Past(n, m) = n - m)
BY DEF Past

LEMMA AfterAt ==
  ASSUME NEW c, NEW m, NEW x
  PROVE  /\ x \in DOMAIN After(m, c) <=> x \in DOMAIN c /\ c[x] > m
         /\ x \in DOMAIN After(m, c) => After(m, c)[x] = c[x] - m
BY DEF After

LEMMA AfterFunction ==
  ASSUME NEW c, NEW m
  PROVE  After(m, c) = [x \in DOMAIN After(m, c) |-> After(m, c)[x]]
BY DEF After

LEMMA AfterBounded ==
  ASSUME NEW n \in Nat, NEW m \in Nat, NEW c, Bounded(c, n)
  PROVE  Bounded(After(m, c), Past(n, m))
<1>1. ASSUME NEW x \in DOMAIN After(m, c)
      PROVE  After(m, c)[x] \in 1 .. Past(n, m)
  <2>1. x \in DOMAIN c /\ c[x] > m /\ After(m, c)[x] = c[x] - m
    BY <1>1, AfterAt
  <2>2. c[x] \in 1 .. n
    BY <2>1 DEF Bounded
  <2> QED BY <2>1, <2>2 DEF Past
<1> QED BY <1>1, AfterFunction DEF Bounded

LEMMA AfterNumbered ==
  ASSUME NEW n \in Nat, NEW m \in Nat, NEW c, Numbered(c, n)
  PROVE  Numbered(After(m, c), Past(n, m))
<1>1. Bounded(c, n) /\ Bounded(After(m, c), Past(n, m))
  BY AfterBounded DEF Numbered
<1>2. ASSUME NEW k \in 1 .. Past(n, m)
      PROVE  \E x \in DOMAIN After(m, c) : After(m, c)[x] = k
  <2>1. k + m \in 1 .. n /\ k + m > m /\ (k + m) - m = k
    BY <1>2 DEF Past
  <2>2. PICK x \in DOMAIN c : c[x] = k + m
    BY <2>1 DEF Numbered
  <2> QED BY <2>1, <2>2, AfterAt
<1>3. ASSUME NEW x \in DOMAIN After(m, c), NEW y \in DOMAIN After(m, c), After(m, c)[x] = After(m, c)[y]
      PROVE  x = y
  <2>1. /\ x \in DOMAIN c /\ y \in DOMAIN c
        /\ After(m, c)[x] = c[x] - m /\ After(m, c)[y] = c[y] - m
    BY AfterAt
  <2>2. c[x] \in 1 .. n /\ c[y] \in 1 .. n
    BY <1>1, <2>1 DEF Bounded
  <2>3. c[x] - m = c[y] - m
    BY <1>3, <2>1
  <2>4. c[x] = c[y]
    BY <2>2, <2>3
  <2> QED BY <2>1, <2>4 DEF Numbered
<1> QED BY <1>1, <1>2, <1>3 DEF Numbered

LEMMA AfterAfter ==
  ASSUME NEW n \in Nat, NEW c, Bounded(c, n), NEW a \in Nat, NEW b \in Nat
  PROVE  After(b, After(a, c)) = After(a + b, c)
<1>1. \A x \in DOMAIN c : c[x] \in Nat
  BY DEF Bounded
<1>2. ASSUME NEW x \in DOMAIN c
      PROVE  /\ c[x] > a + b <=> c[x] > a /\ c[x] - a > b
             /\ (c[x] - a) - b = c[x] - (a + b)
  BY <1>1
<1>3. ASSUME NEW x
      PROVE  x \in DOMAIN After(b, After(a, c)) <=> x \in DOMAIN After(a + b, c)
  <2>1. x \in DOMAIN After(b, After(a, c)) <=> x \in DOMAIN After(a, c) /\ After(a, c)[x] > b
    BY AfterAt
  <2>2. x \in DOMAIN After(a, c) <=> x \in DOMAIN c /\ c[x] > a
    BY AfterAt
  <2>3. x \in DOMAIN After(a, c) => After(a, c)[x] = c[x] - a
    BY AfterAt
  <2>4. x \in DOMAIN After(a + b, c) <=> x \in DOMAIN c /\ c[x] > a + b
    BY AfterAt
  <2> QED BY <1>2, <2>1, <2>2, <2>3, <2>4
<1>4. ASSUME NEW x \in DOMAIN After(a + b, c)
      PROVE  After(b, After(a, c))[x] = After(a + b, c)[x]
  <2>1. x \in DOMAIN c /\ c[x] > a + b
    BY AfterAt
  <2>2. c[x] > a /\ c[x] - a > b /\ (c[x] - a) - b = c[x] - (a + b)
    BY <1>2, <2>1
  <2>3. x \in DOMAIN After(a, c) /\ After(a, c)[x] = c[x] - a
    BY <2>1, <2>2, AfterAt
  <2>4. After(b, After(a, c))[x] = After(a, c)[x] - b
    BY <2>2, <2>3, AfterAt
  <2>5. After(a + b, c)[x] = c[x] - (a + b)
    BY <2>1, AfterAt
  <2> QED BY <2>2, <2>3, <2>4, <2>5
<1>5. DOMAIN After(b, After(a, c)) = DOMAIN After(a + b, c)
  BY <1>3
<1>6. After(b, After(a, c)) = [x \in DOMAIN After(b, After(a, c)) |-> After(b, After(a, c))[x]]
  BY AfterFunction
<1>7. After(a + b, c) = [x \in DOMAIN After(a + b, c) |-> After(a + b, c)[x]]
  BY AfterFunction
<1> QED BY <1>4, <1>5, <1>6, <1>7

LEMMA AfterZero ==
  ASSUME NEW n \in Nat, NEW c, Bounded(c, n)
  PROVE  After(0, c) = c
<1>1. \A x \in DOMAIN c : c[x] > 0 /\ c[x] - 0 = c[x]
  BY DEF Bounded
<1>2. \A x : x \in DOMAIN After(0, c) <=> x \in DOMAIN c
  BY <1>1, AfterAt
<1>3. DOMAIN After(0, c) = DOMAIN c
  BY <1>2
<1>4. \A x \in DOMAIN c : After(0, c)[x] = c[x]
  BY <1>1, <1>2, AfterAt
<1>5. After(0, c) = [x \in DOMAIN After(0, c) |-> After(0, c)[x]]
  BY AfterFunction
<1> QED BY <1>3, <1>4, <1>5 DEF Bounded

\* Nothing is left when all are taken.
LEMMA AfterAll ==
  ASSUME NEW n \in Nat, NEW c, Bounded(c, n), NEW m \in Nat, n <= m,
         NEW d, Bounded(d, 0)
  PROVE  After(m, c) = d
<1>1. ~\E x \in DOMAIN c : c[x] > m
  BY DEF Bounded
<1>2. DOMAIN After(m, c) = {}
  BY <1>1, AfterAt
<1>3. DOMAIN d = {}
  <2>1. \A x \in DOMAIN d : d[x] \in 1 .. 0
    BY DEF Bounded
  <2>2. \A k \in 1 .. 0 : FALSE
    OBVIOUS
  <2> QED BY <2>1, <2>2
<1>4. After(m, c) = [x \in DOMAIN After(m, c) |-> After(m, c)[x]]
  BY AfterFunction
<1>5. d = [x \in DOMAIN d |-> d[x]]
  BY DEF Bounded
<1> QED BY <1>2, <1>3, <1>4, <1>5

-----------------------------------------------------------------------------
(* Parts one after the other.                                              *)

LEMMA JoinedAt ==
  ASSUME NEW parts, NEW bytes
  PROVE  /\ \A x : x \in DOMAIN Joined(parts, bytes) <=>
                   \E i \in DOMAIN parts : \E y \in DOMAIN parts[i] : x = <<i, y>>
         /\ \A i \in DOMAIN parts : \A y \in DOMAIN parts[i] :
              Joined(parts, bytes)[<<i, y>>] = bytes[i - 1] + parts[i][y]
<1>1. DOMAIN Joined(parts, bytes) = UNION {{<<i, y>> : y \in DOMAIN parts[i]} : i \in DOMAIN parts}
  BY DEF Joined
<1>2. \A i \in DOMAIN parts : \A y \in DOMAIN parts[i] : <<i, y>> \in DOMAIN Joined(parts, bytes)
  BY <1>1
<1>3. ASSUME NEW i \in DOMAIN parts, NEW y \in DOMAIN parts[i]
      PROVE  Joined(parts, bytes)[<<i, y>>] = bytes[i - 1] + parts[i][y]
  <2>1. <<i, y>> \in UNION {{<<j, z>> : z \in DOMAIN parts[j]} : j \in DOMAIN parts}
    BY <1>1, <1>2, <1>3
  <2>2. PICK x : x = <<i, y>>
    OBVIOUS
  <2>3. Joined(parts, bytes)[x] = bytes[x[1] - 1] + parts[x[1]][x[2]]
    BY <2>1, <2>2 DEF Joined
  <2>4. x[1] = i /\ x[2] = y
    BY <2>2
  <2> QED BY <2>2, <2>3, <2>4
<1> QED BY <1>1, <1>2, <1>3

LEMMA JoinedFunction ==
  ASSUME NEW parts, NEW bytes
  PROVE  Joined(parts, bytes) = [x \in DOMAIN Joined(parts, bytes) |-> Joined(parts, bytes)[x]]
BY DEF Joined

\* Parts of as many bytes as the list says.
Parts(parts, b) ==
  /\ b \in Seq(Nat)
  /\ DOMAIN parts = 1 .. Len(b)
  /\ \A i \in 1 .. Len(b) : Bounded(parts[i], b[i])

\* A byte has a number beyond the parts before its own.
LEMMA JoinedWithin ==
  ASSUME NEW b, NEW parts, Parts(parts, b),
         NEW i \in 1 .. Len(b), NEW y \in DOMAIN parts[i]
  PROVE  /\ parts[i][y] \in 1 .. b[i]
         /\ Sums(b)[i - 1] \in Nat /\ Sums(b)[i] \in Nat /\ Sum(b) \in Nat
         /\ Sums(b)[i - 1] + b[i] = Sums(b)[i]
         /\ Sums(b)[i] <= Sum(b)
         /\ Joined(parts, Sums(b))[<<i, y>>] = Sums(b)[i - 1] + parts[i][y]
         /\ Joined(parts, Sums(b))[<<i, y>>] \in 1 .. Sum(b)
         /\ Joined(parts, Sums(b))[<<i, y>>] > Sums(b)[i - 1]
         /\ Joined(parts, Sums(b))[<<i, y>>] <= Sums(b)[i]
<1>1. b \in Seq(Nat) /\ Len(b) \in Nat /\ b[i] \in Nat
  BY SeqDomain DEF Parts
<1>2. i - 1 \in 0 .. Len(b) /\ i \in 0 .. Len(b) /\ Len(b) \in 0 .. Len(b) /\ i \in 0 .. Len(b)
  BY <1>1
<1>3. parts[i][y] \in 1 .. b[i]
  BY DEF Parts, Bounded
<1>4. Sums(b)[i - 1] \in Nat /\ Sums(b)[i] \in Nat /\ Sum(b) \in Nat
  BY <1>1, <1>2, SumsSteps DEF Sum
<1>5. Sums(b)[i - 1] + b[i] = Sums(b)[i]
  BY <1>1, SumsSteps
<1>6. Sums(b)[i] <= Sum(b)
  BY <1>1, <1>2, SumsMonotone DEF Sum
<1>7. Joined(parts, Sums(b))[<<i, y>>] = Sums(b)[i - 1] + parts[i][y]
  BY JoinedAt DEF Parts
<1>8. /\ Sums(b)[i - 1] + parts[i][y] \in Nat
      /\ Sums(b)[i - 1] + parts[i][y] > Sums(b)[i - 1]
      /\ Sums(b)[i - 1] + parts[i][y] <= Sums(b)[i]
  <2> DEFINE m == parts[i][y]
             w == Sums(b)[i - 1]
             z == Sums(b)[i]
  <2>1. m \in 1 .. b[i] /\ b[i] \in Nat /\ w \in Nat /\ z \in Nat /\ w + b[i] = z
    BY <1>1, <1>3, <1>4, <1>5
  <2> HIDE DEF m, w, z
  <2>2. w + m \in Nat /\ w + m > w /\ w + m <= z
    BY <2>1
  <2> QED BY <2>2 DEF m, w, z
<1>9. Sums(b)[i - 1] + parts[i][y] \in 1 .. Sum(b)
  BY <1>4, <1>6, <1>8
<1> QED BY <1>3, <1>4, <1>5, <1>6, <1>7, <1>8, <1>9

LEMMA JoinedBounded ==
  ASSUME NEW b, NEW parts, Parts(parts, b)
  PROVE  Bounded(Joined(parts, Sums(b)), Sum(b))
<1>1. ASSUME NEW x \in DOMAIN Joined(parts, Sums(b))
      PROVE  Joined(parts, Sums(b))[x] \in 1 .. Sum(b)
  <2>1. PICK i \in DOMAIN parts : \E y \in DOMAIN parts[i] : x = <<i, y>>
    BY JoinedAt
  <2>2. PICK y \in DOMAIN parts[i] : x = <<i, y>>
    BY <2>1
  <2>3. i \in 1 .. Len(b)
    BY <2>1 DEF Parts
  <2>4. Joined(parts, Sums(b))[<<i, y>>] \in 1 .. Sum(b)
    BY <2>2, <2>3, JoinedWithin
  <2> QED BY <2>2, <2>4
<1> QED BY <1>1, JoinedFunction DEF Bounded

LEMMA JoinedNumbered ==
  ASSUME NEW b, NEW parts, Parts(parts, b),
         \A i \in 1 .. Len(b) : Numbered(parts[i], b[i])
  PROVE  Numbered(Joined(parts, Sums(b)), Sum(b))
<1> DEFINE J == Joined(parts, Sums(b))
<1>1. Bounded(J, Sum(b))
  BY JoinedBounded
<1>2. b \in Seq(Nat) /\ Len(b) \in Nat /\ DOMAIN parts = 1 .. Len(b)
  BY SeqDomain DEF Parts
<1>3. ASSUME NEW m \in 1 .. Sum(b)
      PROVE  \E x \in DOMAIN J : J[x] = m
  <2>1. Sum(b) \in Nat
    BY <1>2, SumsSteps DEF Sum
  <2>2. m - 1 \in Nat /\ m - 1 < Sum(b)
    BY <2>1
  <2>3. PICK i \in 1 .. Len(b) : Sums(b)[i - 1] <= m - 1 /\ m - 1 < Sums(b)[i]
    BY <1>2, <2>2, SumsLocate
  <2>4. /\ Sums(b)[i - 1] \in Nat /\ Sums(b)[i] \in Nat
        /\ Sums(b)[i] = Sums(b)[i - 1] + b[i] /\ b[i] \in Nat
    <3>1. i - 1 \in 0 .. Len(b) /\ i \in 0 .. Len(b)
      BY <1>2
    <3> QED BY <1>2, <3>1, SumsSteps, SeqDomain
  <2>5. m - Sums(b)[i - 1] \in 1 .. b[i]
    BY <2>2, <2>3, <2>4
  <2>6. PICK y \in DOMAIN parts[i] : parts[i][y] = m - Sums(b)[i - 1]
    BY <2>5 DEF Numbered
  <2>7. J[<<i, y>>] = Sums(b)[i - 1] + parts[i][y] /\ <<i, y>> \in DOMAIN J
    BY <1>2, JoinedAt
  <2>8. Sums(b)[i - 1] + (m - Sums(b)[i - 1]) = m
    BY <2>4
  <2> QED BY <2>6, <2>7, <2>8
<1>4. ASSUME NEW x \in DOMAIN J, NEW y \in DOMAIN J, J[x] = J[y]
      PROVE  x = y
  <2>1. PICK i \in DOMAIN parts : \E z \in DOMAIN parts[i] : x = <<i, z>>
    BY JoinedAt
  <2>2. PICK p \in DOMAIN parts[i] : x = <<i, p>>
    BY <2>1
  <2>3. PICK j \in DOMAIN parts : \E z \in DOMAIN parts[j] : y = <<j, z>>
    BY JoinedAt
  <2>4. PICK now \in DOMAIN parts[j] : y = <<j, now>>
    BY <2>3
  <2>5. i \in 1 .. Len(b) /\ j \in 1 .. Len(b)
    BY <1>2
  <2>6. /\ parts[i][p] \in 1 .. b[i]
        /\ Sums(b)[i - 1] \in Nat /\ Sums(b)[i] \in Nat
        /\ J[x] = Sums(b)[i - 1] + parts[i][p]
        /\ J[x] \in 1 .. Sum(b)
        /\ J[x] > Sums(b)[i - 1] /\ J[x] <= Sums(b)[i]
    BY <2>2, <2>5, JoinedWithin
  <2>7. /\ parts[j][now] \in 1 .. b[j]
        /\ Sums(b)[j - 1] \in Nat /\ Sums(b)[j] \in Nat
        /\ J[y] = Sums(b)[j - 1] + parts[j][now]
        /\ J[y] \in 1 .. Sum(b)
        /\ J[y] > Sums(b)[j - 1] /\ J[y] <= Sums(b)[j]
    BY <2>4, <2>5, JoinedWithin
  <2> HIDE DEF J
  <2>8. ~(i < j)
    <3>1. SUFFICES ASSUME i < j PROVE FALSE
      OBVIOUS
    <3>2. j - 1 \in 0 .. Len(b) /\ i \in 0 .. j - 1
      BY <2>5, <3>1, <1>2
    <3>3. Sums(b)[i] <= Sums(b)[j - 1]
      BY <1>2, <3>2, SumsMonotone
    <3> QED BY <1>4, <2>6, <2>7, <3>3
  <2>9. ~(j < i)
    <3>1. SUFFICES ASSUME j < i PROVE FALSE
      OBVIOUS
    <3>2. i - 1 \in 0 .. Len(b) /\ j \in 0 .. i - 1
      BY <2>5, <3>1, <1>2
    <3>3. Sums(b)[j] <= Sums(b)[i - 1]
      BY <1>2, <3>2, SumsMonotone
    <3> QED BY <1>4, <2>6, <2>7, <3>3
  <2>10. i = j
    BY <2>5, <2>8, <2>9
  <2>11. parts[i][p] = parts[i][now]
    <3>1. parts[i][p] \in Nat /\ parts[j][now] \in Nat
      BY <2>6, <2>7
    <3>2. Sums(b)[i - 1] + parts[i][p] = Sums(b)[j - 1] + parts[j][now]
      BY <1>4, <2>6, <2>7
    <3> QED BY <2>6, <2>10, <3>1, <3>2
  <2>12. p = now
    BY <2>5, <2>10, <2>11 DEF Numbered
  <2> QED BY <2>2, <2>4, <2>10, <2>12
<1> QED BY <1>1, <1>3, <1>4 DEF Numbered

\* The parts' sizes when the first m bytes are taken: each part gives up what the
\* parts before it do not hold.
Cut(b, m) == [i \in 1 .. Len(b) |-> Past(b[i], Past(m, Sums(b)[i - 1]))]

LEMMA CutSums ==
  ASSUME NEW b \in Seq(Nat), NEW m \in Nat
  PROVE  /\ Cut(b, m) \in Seq(Nat) /\ Len(Cut(b, m)) = Len(b)
         /\ \A i \in 0 .. Len(b) : Sums(Cut(b, m))[i] = Past(Sums(b)[i], m)
<1> DEFINE c == Cut(b, m)
           g == [i \in 0 .. Len(b) |-> Past(Sums(b)[i], m)]
<1>1. Len(b) \in Nat /\ \A i \in 1 .. Len(b) : b[i] \in Nat
  BY SeqDomain
<1>2. \A i \in 1 .. Len(b) : /\ i \in 0 .. Len(b) /\ i - 1 \in 0 .. Len(b)
                             /\ Sums(b)[i - 1] \in Nat /\ Sums(b)[i] \in Nat
                             /\ Sums(b)[i] = Sums(b)[i - 1] + b[i]
  <2>1. ASSUME NEW i \in 1 .. Len(b)
        PROVE  i \in 0 .. Len(b) /\ i - 1 \in 0 .. Len(b)
    BY <1>1
  <2>2. \A i \in 0 .. Len(b) : Sums(b)[i] \in Nat
    BY SumsSteps
  <2>3. \A i \in 1 .. Len(b) : Sums(b)[i] = Sums(b)[i - 1] + b[i]
    BY SumsSteps
  <2> QED BY <2>1, <2>2, <2>3
<1>3. \A i \in 1 .. Len(b) : Past(b[i], Past(m, Sums(b)[i - 1])) \in Nat
  BY <1>1, <1>2, PastTyped
<1>4. c \in [1 .. Len(b) -> Nat]
  BY <1>3 DEF Cut
<1>5. c \in Seq(Nat)
  BY <1>1, <1>4, SeqDef
<1>6. Len(c) = Len(b)
  <2>1. DOMAIN c = 1 .. Len(b) /\ DOMAIN c = 1 .. Len(c) /\ Len(c) \in Nat
    BY <1>4, <1>5, SeqDomain
  <2> HIDE DEF c
  <2> QED BY <1>1, <2>1
<1>7. g[0] = 0
  <2>1. Sums(b)[0] = 0
    BY SumsSteps, Zenon
  <2>2. 0 \in 0 .. Len(b)
    BY <1>1
  <2>3. Past(0, m) = 0
    BY PastTyped
  <2> QED BY <2>1, <2>2, <2>3
<1>8. ASSUME NEW i \in 1 .. Len(b)
      PROVE  g[i] = g[i - 1] + c[i]
  <2>1. g[i] = Past(Sums(b)[i], m) /\ g[i - 1] = Past(Sums(b)[i - 1], m)
    BY <1>2
  <2>2. c[i] = Past(b[i], Past(m, Sums(b)[i - 1]))
    BY DEF Cut
  <2>3. ASSUME NEW u \in Nat, NEW v \in Nat
        PROVE  Past(u + v, m) = Past(u, m) + Past(v, Past(m, u))
    BY <2>3 DEF Past
  <2>4. Past(Sums(b)[i - 1] + b[i], m) = Past(Sums(b)[i - 1], m) + Past(b[i], Past(m, Sums(b)[i - 1]))
    BY <1>1, <1>2, <2>3
  <2> QED BY <1>2, <2>1, <2>2, <2>4
<1> HIDE DEF c, g
<1>9. Len(b) \in 0 .. Len(c)
  BY <1>1, <1>6
<1>10. \A i \in 0 .. Len(b) : g[i] = Sums(c)[i]
  BY <1>5, <1>7, <1>8, <1>9, SumsAre
<1>11. \A i \in 0 .. Len(b) : g[i] = Past(Sums(b)[i], m)
  BY DEF g
<1> QED BY <1>5, <1>6, <1>10, <1>11 DEF c

\* The parts so cut are what is left of all of them.
LEMMA JoinedCut ==
  ASSUME NEW b, NEW parts, Parts(parts, b), NEW m \in Nat,
         NEW left, DOMAIN left = 1 .. Len(b),
         \A i \in 1 .. Len(b) : left[i] = After(Past(m, Sums(b)[i - 1]), parts[i])
  PROVE  Joined(left, Sums(Cut(b, m))) = After(m, Joined(parts, Sums(b)))
<1> DEFINE J == Joined(parts, Sums(b))
           K == Joined(left, Sums(Cut(b, m)))
<1>1. b \in Seq(Nat) /\ Len(b) \in Nat /\ DOMAIN parts = 1 .. Len(b) /\ \A i \in 1 .. Len(b) : b[i] \in Nat
  BY SeqDomain DEF Parts
<1>2. ASSUME NEW i \in 1 .. Len(b), NEW y \in DOMAIN parts[i]
      PROVE  /\ parts[i][y] > Past(m, Sums(b)[i - 1]) <=> J[<<i, y>>] > m
             /\ J[<<i, y>>] > m => /\ Sums(Cut(b, m))[i - 1] \in Nat
                                   /\ Sums(Cut(b, m))[i - 1] + (parts[i][y] - Past(m, Sums(b)[i - 1]))
                                        = J[<<i, y>>] - m
  <2>1. /\ parts[i][y] \in 1 .. b[i] /\ Sums(b)[i - 1] \in Nat
        /\ J[<<i, y>>] = Sums(b)[i - 1] + parts[i][y]
    BY JoinedWithin
  <2>2. i - 1 \in 0 .. Len(b)
    BY <1>1
  <2>3. Sums(Cut(b, m))[i - 1] = Past(Sums(b)[i - 1], m)
    BY <1>1, <2>2, CutSums
  <2>4. ASSUME NEW u \in Nat, NEW v \in Nat \ {0}
        PROVE  /\ v > Past(m, u) <=> u + v > m
               /\ u + v > m => Past(u, m) + (v - Past(m, u)) = (u + v) - m
    BY <2>4 DEF Past
  <2>5. parts[i][y] \in Nat \ {0}
    BY <1>1, <2>1
  <2>6. Past(Sums(b)[i - 1], m) \in Nat
    BY <2>1, PastTyped
  <2> HIDE DEF J
  <2> QED BY <2>1, <2>3, <2>4, <2>5, <2>6
<1>3. ASSUME NEW i \in 1 .. Len(b), NEW y
      PROVE  /\ y \in DOMAIN left[i] <=> y \in DOMAIN parts[i] /\ parts[i][y] > Past(m, Sums(b)[i - 1])
             /\ y \in DOMAIN left[i] => left[i][y] = parts[i][y] - Past(m, Sums(b)[i - 1])
  <2>1. left[i] = After(Past(m, Sums(b)[i - 1]), parts[i])
    OBVIOUS
  <2> QED BY <2>1, AfterAt
<1>4. ASSUME NEW x
      PROVE  x \in DOMAIN K => x \in DOMAIN After(m, J)
  <2>1. SUFFICES ASSUME x \in DOMAIN K PROVE x \in DOMAIN After(m, J)
    OBVIOUS
  <2>2. PICK i \in DOMAIN left : \E y \in DOMAIN left[i] : x = <<i, y>>
    BY <2>1, JoinedAt
  <2>3. PICK y \in DOMAIN left[i] : x = <<i, y>>
    BY <2>2
  <2>4. i \in 1 .. Len(b) /\ y \in DOMAIN parts[i] /\ J[<<i, y>>] > m
    BY <1>2, <1>3, <2>3
  <2>5. <<i, y>> \in DOMAIN J
    BY <1>1, <2>4, JoinedAt
  <2> QED BY <2>3, <2>4, <2>5, AfterAt
<1>5. ASSUME NEW x, x \in DOMAIN After(m, J)
      PROVE  x \in DOMAIN K /\ K[x] = After(m, J)[x]
  <2>1. x \in DOMAIN J /\ J[x] > m /\ After(m, J)[x] = J[x] - m
    BY <1>5, AfterAt
  <2>2. PICK i \in DOMAIN parts : \E y \in DOMAIN parts[i] : x = <<i, y>>
    BY <2>1, JoinedAt
  <2>3. PICK y \in DOMAIN parts[i] : x = <<i, y>>
    BY <2>2
  <2>4. i \in 1 .. Len(b) /\ i \in DOMAIN left /\ y \in DOMAIN left[i]
    BY <1>1, <1>2, <1>3, <2>1, <2>3
  <2>5. x \in DOMAIN K /\ K[x] = Sums(Cut(b, m))[i - 1] + left[i][y]
    BY <2>3, <2>4, JoinedAt
  <2>6. left[i][y] = parts[i][y] - Past(m, Sums(b)[i - 1])
    BY <1>3, <2>4
  <2>7. Sums(Cut(b, m))[i - 1] + (parts[i][y] - Past(m, Sums(b)[i - 1])) = J[x] - m
    BY <1>2, <2>1, <2>3, <2>4
  <2> QED BY <2>1, <2>5, <2>6, <2>7
<1>6. DOMAIN K = DOMAIN After(m, J)
  BY <1>4, <1>5
<1>7. K = [x \in DOMAIN K |-> K[x]]
  BY JoinedFunction
<1>8. After(m, J) = [x \in DOMAIN After(m, J) |-> After(m, J)[x]]
  BY AfterFunction
<1> QED BY <1>5, <1>6, <1>7, <1>8

\* As many bytes as numbers.
LEMMA NumberedCardinality ==
  ASSUME NEW n \in Nat, NEW c, Numbered(c, n)
  PROVE  /\ Cardinality(DOMAIN c) = n
         /\ {c[x] : x \in DOMAIN c} = 1 .. n
<1>1. c \in Bijection(DOMAIN c, 1 .. n)
  <2>1. c \in [DOMAIN c -> 1 .. n]
    BY DEF Numbered, Bounded
  <2>2. c \in Injection(DOMAIN c, 1 .. n)
    BY <2>1 DEF Numbered, Injection, IsInjective
  <2>3. c \in Surjection(DOMAIN c, 1 .. n)
    BY <2>1 DEF Numbered, Surjection
  <2> QED BY <2>2, <2>3 DEF Bijection
<1>2. IsFiniteSet(1 .. n) /\ Cardinality(1 .. n) = n
  <2>1. 1 \in Int /\ n \in Int /\ (n >= 1 => n - 1 + 1 = n) /\ (~(n >= 1) => n = 0)
    OBVIOUS
  <2> QED BY <2>1, FS_Interval
<1>3. ExistsBijection(1 .. n, DOMAIN c)
  BY <1>1, Fun_ExistsBijSymmetric DEF ExistsBijection
<1>4. Cardinality(DOMAIN c) = n
  BY <1>2, <1>3, FS_Bijection
<1>5. {c[x] : x \in DOMAIN c} = 1 .. n
  BY DEF Numbered, Bounded
<1> QED BY <1>4, <1>5

-----------------------------------------------------------------------------
(* Segments.                                                               *)

\* A segment is cleared, or the byte it goes on with is in one of its blocks.
Segment(s) ==
  /\ s \in [sizes : Seq(Nat), written : Nat, index : Nat, position : Nat]
  /\ \/ s.sizes = <<>> /\ s.written = 0 /\ s.index = 0 /\ s.position = 0
     \/ s.written > 0 /\ s.index < Len(s.sizes) /\ s.position < s.sizes[s.index + 1]

\* The bytes of all the blocks, and how many of them are gone.
Blocks(sizes) == [j \in 1 .. Len(sizes) |-> [o \in 1 .. sizes[j] |-> o]]
Whole(sizes) == Joined(Blocks(sizes), Sums(sizes))
Gone(s) == Sums(s.sizes)[s.index] + s.position

LEMMA BlocksParts ==
  ASSUME NEW sizes \in Seq(Nat)
  PROVE  /\ Parts(Blocks(sizes), sizes)
         /\ \A j \in 1 .. Len(sizes) : Numbered(Blocks(sizes)[j], sizes[j])
<1>1. DOMAIN Blocks(sizes) = 1 .. Len(sizes)
  BY DEF Blocks
<1>2. ASSUME NEW j \in 1 .. Len(sizes)
      PROVE  Numbered(Blocks(sizes)[j], sizes[j])
  <2>1. PICK c : c = [o \in 1 .. sizes[j] |-> o]
    OBVIOUS
  <2>2. Blocks(sizes)[j] = c
    BY <2>1 DEF Blocks
  <2>3. DOMAIN c = 1 .. sizes[j] /\ \A o \in 1 .. sizes[j] : c[o] = o
    BY <2>1
  <2>4. Numbered(c, sizes[j])
    BY <2>1, <2>3 DEF Numbered, Bounded
  <2> QED BY <2>2, <2>4
<1> QED BY <1>1, <1>2 DEF Parts, Numbered

LEMMA WholeNumbered ==
  ASSUME NEW sizes \in Seq(Nat)
  PROVE  Numbered(Whole(sizes), Sum(sizes))
BY BlocksParts, JoinedNumbered DEF Whole

LEMMA WholeAt ==
  ASSUME NEW sizes \in Seq(Nat)
  PROVE  /\ \A x : x \in DOMAIN Whole(sizes) <=>
                   \E j \in 1 .. Len(sizes) : \E o \in 1 .. sizes[j] : x = <<j, o>>
         /\ \A j \in 1 .. Len(sizes) : \A o \in 1 .. sizes[j] :
              Whole(sizes)[<<j, o>>] = Sums(sizes)[j - 1] + o
<1>1. /\ DOMAIN Blocks(sizes) = 1 .. Len(sizes)
      /\ \A j \in 1 .. Len(sizes) : DOMAIN Blocks(sizes)[j] = 1 .. sizes[j]
      /\ \A j \in 1 .. Len(sizes) : \A o \in 1 .. sizes[j] : Blocks(sizes)[j][o] = o
  BY DEF Blocks
<1>2. ASSUME NEW x
      PROVE  x \in DOMAIN Whole(sizes) <=>
               \E j \in 1 .. Len(sizes) : \E o \in 1 .. sizes[j] : x = <<j, o>>
  <2>1. x \in DOMAIN Whole(sizes) <=>
          \E j \in DOMAIN Blocks(sizes) : \E o \in DOMAIN Blocks(sizes)[j] : x = <<j, o>>
    BY JoinedAt DEF Whole
  <2> QED BY <1>1, <2>1
<1>3. ASSUME NEW j \in 1 .. Len(sizes), NEW o \in 1 .. sizes[j]
      PROVE  Whole(sizes)[<<j, o>>] = Sums(sizes)[j - 1] + o
  <2>1. Whole(sizes)[<<j, o>>] = Sums(sizes)[j - 1] + Blocks(sizes)[j][o]
    BY <1>1, JoinedAt DEF Whole
  <2> QED BY <1>1, <2>1
<1> QED BY <1>2, <1>3

\* The blocks from the position on.
Ahead(s) == Len(s.sizes) - s.index

LEMMA SegmentTyped ==
  ASSUME NEW s, Segment(s)
  PROVE  /\ s.sizes \in Seq(Nat) /\ Len(s.sizes) \in Nat
         /\ s.written \in Nat /\ s.index \in Nat /\ s.position \in Nat
         /\ s.index <= Len(s.sizes) /\ Ahead(s) \in Nat
         /\ \A i \in 1 .. Len(s.sizes) : s.sizes[i] \in Nat
         /\ Ahead(s) > 0 => /\ s.written > 0 /\ s.index + 1 \in 1 .. Len(s.sizes)
                            /\ s.position < s.sizes[s.index + 1]
         /\ Ahead(s) = 0 => s.written = 0 /\ s.sizes = <<>> /\ s.index = 0 /\ s.position = 0
<1>1. s.sizes \in Seq(Nat) /\ s.written \in Nat /\ s.index \in Nat /\ s.position \in Nat
  BY DEF Segment
<1>2. Len(s.sizes) \in Nat /\ \A i \in 1 .. Len(s.sizes) : s.sizes[i] \in Nat
  BY <1>1, SeqDomain
<1>3. CASE s.sizes = <<>> /\ s.written = 0 /\ s.index = 0 /\ s.position = 0
  <2>1. Len(s.sizes) = 0
    BY <1>3
  <2> QED BY <1>1, <1>2, <1>3, <2>1 DEF Ahead
<1>4. CASE s.written > 0 /\ s.index < Len(s.sizes) /\ s.position < s.sizes[s.index + 1]
  BY <1>1, <1>2, <1>4, SMTT(30) DEF Ahead
<1> QED BY <1>3, <1>4 DEF Segment

\* The sizes of the fragments.
Sizes(s) == [k \in DOMAIN SegmentFragments(s) |-> SegmentFragments(s)[k].size]

LEMMA FragmentsAre ==
  ASSUME NEW s, Segment(s)
  PROVE  /\ DOMAIN SegmentFragments(s) = 1 .. Ahead(s)
         /\ Len(SegmentFragments(s)) = Ahead(s)
         /\ \A k \in 1 .. Ahead(s) :
              /\ s.index + k \in 1 .. Len(s.sizes)
              /\ SegmentFragments(s)[k].block = s.index + k
              /\ SegmentFragments(s)[k].skipped = (IF k = 1 THEN s.position ELSE 0)
              /\ SegmentFragments(s)[k].size = s.sizes[s.index + k] - (IF k = 1 THEN s.position ELSE 0)
              /\ SegmentFragments(s)[k].size \in Nat
              /\ Sizes(s)[k] = SegmentFragments(s)[k].size
         /\ Sizes(s) \in Seq(Nat) /\ Len(Sizes(s)) = Ahead(s)
<1>1. /\ s.index \in Nat /\ Len(s.sizes) \in Nat /\ s.index <= Len(s.sizes) /\ Ahead(s) \in Nat
      /\ s.position \in Nat /\ \A i \in 1 .. Len(s.sizes) : s.sizes[i] \in Nat
      /\ Ahead(s) > 0 => s.position < s.sizes[s.index + 1]
  BY SegmentTyped
<1> DEFINE F == SegmentFragments(s)
<1>2. DOMAIN F = 1 .. Ahead(s)
  BY DEF SegmentFragments, Ahead
<1>3. ASSUME NEW k \in 1 .. Ahead(s)
      PROVE  /\ s.index + k \in 1 .. Len(s.sizes)
             /\ F[k].block = s.index + k
             /\ F[k].skipped = (IF k = 1 THEN s.position ELSE 0)
             /\ F[k].size = s.sizes[s.index + k] - (IF k = 1 THEN s.position ELSE 0)
             /\ F[k].size \in Nat
             /\ Sizes(s)[k] = F[k].size
  <2>1. s.index + k \in 1 .. Len(s.sizes)
    BY <1>1, <1>3 DEF Ahead
  <2>2. k \in 1 .. Len(s.sizes) - s.index
    BY <1>3 DEF Ahead
  <2>3. F[k] = [block |-> s.index + k, skipped |-> IF k = 1 THEN s.position ELSE 0,
                size |-> s.sizes[s.index + k] - (IF k = 1 THEN s.position ELSE 0)]
    BY <2>2 DEF SegmentFragments
  <2>4. s.sizes[s.index + k] - (IF k = 1 THEN s.position ELSE 0) \in Nat
    <3>1. s.sizes[s.index + k] \in Nat
      BY <1>1, <2>1
    <3>2. CASE k = 1
      <4>1. s.position < s.sizes[s.index + k]
        BY <1>1, <1>3, <3>2
      <4> QED BY <1>1, <3>1, <3>2, <4>1
    <3>3. CASE k # 1
      BY <3>1, <3>3
    <3> QED BY <3>2, <3>3
  <2>5. Sizes(s)[k] = F[k].size
    BY <1>2, <1>3 DEF Sizes
  <2> HIDE DEF F
  <2> QED BY <2>1, <2>3, <2>4, <2>5
<1>4. Len(F) = Ahead(s)
  <2>1. F = [i \in 1 .. Ahead(s) |-> F[i]]
    BY <1>2 DEF SegmentFragments
  <2>2. F \in [1 .. Ahead(s) -> {F[i] : i \in 1 .. Ahead(s)}]
    BY <2>1
  <2>3. F \in Seq({F[i] : i \in 1 .. Ahead(s)})
    BY <1>1, <2>2, SeqDef
  <2>4. DOMAIN F = 1 .. Len(F) /\ Len(F) \in Nat
    BY <2>3, SeqDomain
  <2> HIDE DEF F
  <2> QED BY <1>1, <1>2, <2>4
<1>5. Sizes(s) \in Seq(Nat) /\ Len(Sizes(s)) = Ahead(s)
  <2>1. DOMAIN Sizes(s) = 1 .. Ahead(s) /\ Sizes(s) = [k \in 1 .. Ahead(s) |-> Sizes(s)[k]]
    BY <1>2 DEF Sizes
  <2>2. \A k \in 1 .. Ahead(s) : Sizes(s)[k] \in Nat
    BY <1>3
  <2>3. Sizes(s) \in [1 .. Ahead(s) -> Nat]
    BY <2>1, <2>2
  <2>4. Sizes(s) \in Seq(Nat)
    BY <1>1, <2>3, SeqDef
  <2>5. DOMAIN Sizes(s) = 1 .. Len(Sizes(s)) /\ Len(Sizes(s)) \in Nat
    BY <2>4, SeqDomain
  <2> QED BY <1>1, <2>1, <2>4, <2>5
<1> QED BY <1>2, <1>3, <1>4, <1>5

LEMMA SegmentBytesAre ==
  ASSUME NEW s, Segment(s)
  PROVE  /\ Gone(s) \in Nat
         /\ SegmentBytes(s) = Sums(Sizes(s))
         /\ SegmentBytes(s)[0] = 0
         /\ \A k \in 1 .. Ahead(s) : /\ SegmentBytes(s)[k] = Sums(s.sizes)[s.index + k] - Gone(s)
                                     /\ SegmentBytes(s)[k] \in Nat
                                     /\ SegmentBytes(s)[k - 1] \in Nat
                                     /\ SegmentBytes(s)[k] = SegmentBytes(s)[k - 1] + Sizes(s)[k]
         /\ SegmentSize(s) = Sum(s.sizes) - Gone(s)
         /\ SegmentSize(s) \in Nat
<1> DEFINE T == Sums(s.sizes)
           B == SegmentBytes(s)
<1>1. /\ s.index \in Nat /\ Len(s.sizes) \in Nat /\ s.index <= Len(s.sizes) /\ Ahead(s) \in Nat
      /\ s.position \in Nat /\ s.sizes \in Seq(Nat) /\ \A i \in 1 .. Len(s.sizes) : s.sizes[i] \in Nat
  BY SegmentTyped
<1>2. /\ \A i \in 0 .. Len(s.sizes) : T[i] \in Nat
      /\ \A i \in 1 .. Len(s.sizes) : T[i] = T[i - 1] + s.sizes[i]
      /\ T[0] = 0
  BY <1>1, SumsSteps
<1>3. Gone(s) \in Nat
  BY <1>1, <1>2 DEF Gone
<1>4. B = Sums(Sizes(s))
  BY DEF SegmentBytes, Sizes
<1>5. Sizes(s) \in Seq(Nat) /\ Len(Sizes(s)) = Ahead(s)
  BY FragmentsAre
<1>6. B \in [0 .. Ahead(s) -> Nat] /\ B[0] = 0 /\ \A k \in 1 .. Ahead(s) : B[k] = B[k - 1] + Sizes(s)[k]
  BY <1>4, <1>5, SumsSteps
<1> HIDE DEF B, T
<1>7. PICK U : U = {k \in Nat : B[k] = IF k = 0 THEN 0 ELSE T[s.index + k] - Gone(s)}
  OBVIOUS
<1>8. 0 \in U
  BY <1>6, <1>7
<1>9. ASSUME NEW k \in 1 .. Ahead(s), k - 1 \in U
      PROVE  k \in U
  <2>1. /\ s.index + k \in 1 .. Len(s.sizes)
        /\ Sizes(s)[k] = s.sizes[s.index + k] - (IF k = 1 THEN s.position ELSE 0)
    BY FragmentsAre
  <2>2. /\ s.index + k - 1 \in 0 .. Len(s.sizes) /\ k \in Nat /\ k # 0
        /\ s.index + (k - 1) = s.index + k - 1
    BY <1>1, <2>1
  <2>3. /\ T[s.index + k] = T[s.index + k - 1] + s.sizes[s.index + k]
        /\ T[s.index + k - 1] \in Nat /\ T[s.index + k] \in Nat /\ s.sizes[s.index + k] \in Nat
    <3>1. PICK i \in 1 .. Len(s.sizes) : i = s.index + k
      BY <2>1
    <3>2. i \in 0 .. Len(s.sizes) /\ i - 1 \in 0 .. Len(s.sizes)
      BY <1>1
    <3>3. T[i] = T[i - 1] + s.sizes[i] /\ T[i - 1] \in Nat /\ T[i] \in Nat /\ s.sizes[i] \in Nat
      BY <1>1, <1>2, <3>2
    <3>4. s.index + k - 1 = i - 1
      BY <1>1, <3>1
    <3> QED BY <3>1, <3>3, <3>4
  <2>4. B[k] = B[k - 1] + Sizes(s)[k]
    BY <1>6
  <2>5. CASE k = 1
    <3>1. s.index + k - 1 = s.index
      BY <1>1, <2>5
    <3>2. B[k] = s.sizes[s.index + k] - s.position
      BY <1>6, <2>1, <2>3, <2>4, <2>5, <1>1, SMTT(30)
    <3>3. T[s.index + k] - Gone(s) = s.sizes[s.index + k] - s.position
      <4>1. Gone(s) = T[s.index] + s.position
        BY DEF Gone, T
      <4>2. T[s.index + k] = T[s.index] + s.sizes[s.index + k] /\ T[s.index] \in Nat
        BY <2>3, <3>1
      <4>3. ASSUME NEW a \in Nat, NEW b \in Nat, NEW c \in Nat
            PROVE  (a + b) - (a + c) = b - c
        OBVIOUS
      <4>4. T[s.index + k] - Gone(s) = (T[s.index] + s.sizes[s.index + k]) - (T[s.index] + s.position)
        BY <4>1, <4>2
      <4>5. s.sizes[s.index + k] \in Nat
        BY <1>1, <2>1
      <4>6. PICK a \in Nat, b \in Nat, c \in Nat :
              a = T[s.index] /\ b = s.sizes[s.index + k] /\ c = s.position
        BY <1>1, <4>2, <4>5
      <4>7. T[s.index + k] - Gone(s) = (a + b) - (a + c)
        BY <4>4, <4>6
      <4> QED BY <4>3, <4>6, <4>7
    <3> QED BY <1>7, <2>2, <3>2, <3>3
  <2>6. CASE k # 1
    <3>1. B[k - 1] = T[s.index + k - 1] - Gone(s)
      BY <1>7, <1>9, <2>2, <2>6
    <3>2. B[k] = T[s.index + k] - Gone(s)
      BY <1>3, <2>1, <2>3, <2>4, <2>6, <3>1, SMTT(30)
    <3> QED BY <1>7, <2>2, <3>2
  <2> QED BY <2>5, <2>6
<1>10. 0 .. Ahead(s) \subseteq U
  BY <1>1, <1>8, <1>9, UpTo
<1>11. ASSUME NEW k \in 1 .. Ahead(s)
       PROVE  /\ B[k] = T[s.index + k] - Gone(s)
              /\ B[k] \in Nat /\ B[k - 1] \in Nat
              /\ B[k] = B[k - 1] + Sizes(s)[k]
  <2>1. k \in 0 .. Ahead(s) /\ k - 1 \in 0 .. Ahead(s) /\ k # 0
    BY <1>1
  <2>2. B[k] \in Nat /\ B[k - 1] \in Nat
    BY <1>6, <2>1
  <2> QED BY <1>6, <1>7, <1>10, <2>1, <2>2
<1>12. SegmentSize(s) = B[Ahead(s)]
  BY FragmentsAre DEF SegmentSize, B
<1>13. B[Ahead(s)] = Sum(s.sizes) - Gone(s)
  <2>1. CASE Ahead(s) = 0
    <3>1. s.sizes = <<>> /\ s.index = 0 /\ s.position = 0 /\ Len(s.sizes) = 0
      BY <2>1, SegmentTyped
    <3>2. Sum(s.sizes) = 0 /\ Gone(s) = 0
      BY <1>2, <3>1 DEF Sum, Gone, T
    <3> QED BY <1>6, <2>1, <3>2
  <2>2. CASE Ahead(s) # 0
    <3>1. Ahead(s) \in 1 .. Ahead(s) /\ s.index + Ahead(s) = Len(s.sizes)
      BY <1>1, <2>2 DEF Ahead
    <3> QED BY <1>11, <3>1 DEF Sum, T
  <2> QED BY <2>1, <2>2
<1>14. B[Ahead(s)] \in Nat
  BY <1>1, <1>6
<1> QED BY <1>3, <1>4, <1>6, <1>11, <1>12, <1>13, <1>14 DEF B, T

\* The contents of a segment are those of its blocks that are not gone.
LEMMA SegmentContentsAt ==
  ASSUME NEW s, Segment(s)
  PROVE  /\ \A x : x \in DOMAIN SegmentContents(s) <=>
                   \E k \in 1 .. Ahead(s) : \E b \in 1 .. Sizes(s)[k] :
                     x = <<s.index + k, (IF k = 1 THEN s.position ELSE 0) + b>>
         /\ \A k \in 1 .. Ahead(s) : \A b \in 1 .. Sizes(s)[k] :
              SegmentContents(s)[<<s.index + k, (IF k = 1 THEN s.position ELSE 0) + b>>]
                = SegmentBytes(s)[k - 1] + b
<1> DEFINE F == SegmentFragments(s)
           P(k) == {<<F[k].block, F[k].skipped + b>> : b \in 1 .. F[k].size}
<1>1. /\ DOMAIN F = 1 .. Ahead(s)
      /\ \A k \in 1 .. Ahead(s) :
           /\ F[k].block = s.index + k
           /\ F[k].skipped = (IF k = 1 THEN s.position ELSE 0)
           /\ F[k].size = Sizes(s)[k]
           /\ F[k].size \in Nat
  BY FragmentsAre
<1>2. DOMAIN SegmentContents(s) = UNION {P(k) : k \in DOMAIN F}
  BY DEF SegmentContents
<1>3. \A k \in 1 .. Ahead(s) :
        P(k) = {<<s.index + k, (IF k = 1 THEN s.position ELSE 0) + b>> : b \in 1 .. Sizes(s)[k]}
  BY <1>1
<1>4. ASSUME NEW x
      PROVE  x \in DOMAIN SegmentContents(s) <=>
               \E k \in 1 .. Ahead(s) : \E b \in 1 .. Sizes(s)[k] :
                 x = <<s.index + k, (IF k = 1 THEN s.position ELSE 0) + b>>
  <2>1. x \in DOMAIN SegmentContents(s) <=> \E k \in 1 .. Ahead(s) : x \in P(k)
    <3> HIDE DEF P
    <3> QED BY <1>1, <1>2
  <2> QED BY <1>3, <2>1
<1>5. ASSUME NEW k \in 1 .. Ahead(s), NEW b \in 1 .. Sizes(s)[k],
             NEW x, x = <<s.index + k, (IF k = 1 THEN s.position ELSE 0) + b>>
      PROVE  SegmentContents(s)[x] = SegmentBytes(s)[k - 1] + b
  <2>1. x \in DOMAIN SegmentContents(s)
    BY <1>4, <1>5
  <2>2. SegmentContents(s)[x] = SegmentBytes(s)[x[1] - s.index - 1] + x[2] - F[x[1] - s.index].skipped
    BY <2>1 DEF SegmentContents
  <2>3. s.index \in Nat /\ s.position \in Nat
    BY SegmentTyped
  <2>4. x[1] = s.index + k /\ x[2] = (IF k = 1 THEN s.position ELSE 0) + b
    BY <1>5
  <2>5. x[1] - s.index = k /\ x[1] - s.index - 1 = k - 1
    BY <2>3, <2>4
  <2>6. F[k].skipped = (IF k = 1 THEN s.position ELSE 0) /\ Sizes(s)[k] \in Nat
    BY <1>1
  <2>7. x[2] - F[k].skipped = b
    BY <2>3, <2>4, <2>6
  <2> QED BY <2>2, <2>5, <2>7
<1> QED BY <1>4, <1>5

LEMMA SegmentContentsAre ==
  ASSUME NEW s, Segment(s)
  PROVE  SegmentContents(s) = After(Gone(s), Whole(s.sizes))
<1> DEFINE T == Sums(s.sizes)
           C == SegmentContents(s)
           W == Whole(s.sizes)
           skip(k) == IF k = 1 THEN s.position ELSE 0
<1>1. /\ s.index \in Nat /\ Len(s.sizes) \in Nat /\ s.index <= Len(s.sizes) /\ Ahead(s) \in Nat
      /\ s.position \in Nat /\ s.sizes \in Seq(Nat) /\ \A i \in 1 .. Len(s.sizes) : s.sizes[i] \in Nat
  BY SegmentTyped
<1>2. /\ \A i \in 0 .. Len(s.sizes) : T[i] \in Nat
      /\ \A i \in 1 .. Len(s.sizes) : T[i] = T[i - 1] + s.sizes[i]
  BY <1>1, SumsSteps
<1>3. Gone(s) = T[s.index] + s.position /\ Gone(s) \in Nat /\ T[s.index] \in Nat
  BY <1>1, <1>2 DEF Gone
<1>4. ASSUME NEW k \in 1 .. Ahead(s)
      PROVE  /\ s.index + k \in 1 .. Len(s.sizes)
             /\ skip(k) \in Nat /\ s.sizes[s.index + k] \in Nat /\ Sizes(s)[k] \in Nat
             /\ s.sizes[s.index + k] = Sizes(s)[k] + skip(k)
             /\ T[(s.index + k) - 1] \in Nat /\ SegmentBytes(s)[k - 1] \in Nat
             /\ T[(s.index + k) - 1] + skip(k) = SegmentBytes(s)[k - 1] + Gone(s)
  <2>1. /\ s.index + k \in 1 .. Len(s.sizes)
        /\ Sizes(s)[k] = s.sizes[s.index + k] - skip(k) /\ Sizes(s)[k] \in Nat
    BY FragmentsAre, SMTT(30)
  <2>2. s.sizes[s.index + k] \in Nat /\ skip(k) \in Nat
    BY <1>1, <2>1
  <2>3. s.sizes[s.index + k] = Sizes(s)[k] + skip(k)
    BY <2>1, <2>2
  <2>4. /\ SegmentBytes(s)[k] = T[s.index + k] - Gone(s)
        /\ SegmentBytes(s)[k] = SegmentBytes(s)[k - 1] + Sizes(s)[k]
        /\ SegmentBytes(s)[k - 1] \in Nat
    BY SegmentBytesAre
  <2>5. /\ T[s.index + k] = T[(s.index + k) - 1] + s.sizes[s.index + k]
        /\ T[(s.index + k) - 1] \in Nat /\ T[s.index + k] \in Nat
    <3>1. PICK i \in 1 .. Len(s.sizes) : i = s.index + k
      BY <2>1
    <3>2. i - 1 \in 0 .. Len(s.sizes) /\ i \in 0 .. Len(s.sizes)
      BY <1>1
    <3>3. T[i] = T[i - 1] + s.sizes[i] /\ T[i - 1] \in Nat /\ T[i] \in Nat
      BY <1>2, <3>2
    <3> QED BY <3>1, <3>3
  <2> HIDE DEF T, skip
  <2>6. SegmentBytes(s)[k - 1] + Sizes(s)[k] = (T[(s.index + k) - 1] + s.sizes[s.index + k]) - Gone(s)
    BY <2>4, <2>5
  <2>7. SegmentBytes(s)[k - 1] + Sizes(s)[k]
          = (T[(s.index + k) - 1] + (Sizes(s)[k] + skip(k))) - Gone(s)
    BY <2>3, <2>6
  <2>8. /\ SegmentBytes(s)[k - 1] \in Nat /\ Sizes(s)[k] \in Nat /\ skip(k) \in Nat
        /\ T[(s.index + k) - 1] \in Nat /\ Gone(s) \in Nat
    BY <1>3, <2>1, <2>2, <2>4, <2>5
  <2>9. T[(s.index + k) - 1] + skip(k) = SegmentBytes(s)[k - 1] + Gone(s)
    BY <2>7, <2>8
  <2> QED BY <2>1, <2>2, <2>3, <2>4, <2>5, <2>9
<1>5. ASSUME NEW x, x \in DOMAIN C
      PROVE  x \in DOMAIN After(Gone(s), W) /\ C[x] = After(Gone(s), W)[x]
  <2>1. PICK k \in 1 .. Ahead(s) : \E b \in 1 .. Sizes(s)[k] : x = <<s.index + k, skip(k) + b>>
    BY <1>5, SegmentContentsAt
  <2>2. PICK b \in 1 .. Sizes(s)[k] : x = <<s.index + k, skip(k) + b>>
    BY <2>1
  <2>3. C[x] = SegmentBytes(s)[k - 1] + b
    BY <2>2, SegmentContentsAt
  <2> HIDE DEF skip, T, C
  <2>4. skip(k) + b \in 1 .. s.sizes[s.index + k]
    BY <1>4
  <2>5. x \in DOMAIN W /\ W[x] = T[(s.index + k) - 1] + (skip(k) + b)
    BY <1>1, <1>4, <2>2, <2>4, WholeAt DEF T
  <2>6. W[x] = (SegmentBytes(s)[k - 1] + Gone(s)) + b
    <3>1. T[(s.index + k) - 1] + (skip(k) + b) = (T[(s.index + k) - 1] + skip(k)) + b
      BY <1>4
    <3> QED BY <1>4, <2>5, <3>1
  <2>7. SegmentBytes(s)[k - 1] \in Nat /\ b \in Nat \ {0}
    BY <1>4
  <2>8. W[x] > Gone(s) /\ W[x] - Gone(s) = SegmentBytes(s)[k - 1] + b
    BY <1>3, <2>6, <2>7
  <2> QED BY <2>3, <2>5, <2>8, AfterAt
<1>6. ASSUME NEW x, x \in DOMAIN After(Gone(s), W)
      PROVE  x \in DOMAIN C
  <2>1. x \in DOMAIN W /\ W[x] > Gone(s)
    BY <1>6, AfterAt
  <2>2. PICK j \in 1 .. Len(s.sizes) : \E o \in 1 .. s.sizes[j] : x = <<j, o>>
    <3>1. s.sizes \in Seq(Nat)
      BY <1>1
    <3>2. x \in DOMAIN Whole(s.sizes) <=>
            \E j \in 1 .. Len(s.sizes) : \E o \in 1 .. s.sizes[j] : x = <<j, o>>
      BY <3>1, WholeAt
    <3> QED BY <2>1, <3>2
  <2>3. PICK o \in 1 .. s.sizes[j] : x = <<j, o>>
    BY <2>2
  <2>4. W[x] = T[j - 1] + o
    BY <1>1, <2>3, WholeAt
  <2>5. T[j - 1] \in Nat /\ T[j] \in Nat /\ T[j] = T[j - 1] + s.sizes[j] /\ s.sizes[j] \in Nat
    <3>1. j - 1 \in 0 .. Len(s.sizes) /\ j \in 0 .. Len(s.sizes)
      BY <1>1
    <3> QED BY <1>1, <1>2, <3>1
  <2> HIDE DEF T, W, C
  <2>6. T[j] > T[s.index]
    <3>1. T[j - 1] + o > T[s.index] + s.position
      BY <1>3, <2>1, <2>4
    <3>2. T[j - 1] + o <= T[j]
      BY <2>5
    <3>3. s.position \in Nat /\ T[s.index] \in Nat
      BY <1>1, <1>3
    <3>4. T[j] \in Nat /\ T[j - 1] \in Nat /\ o \in Nat
      BY <2>5
    <3> QED BY <3>1, <3>2, <3>3, <3>4
  <2>7. ~(j <= s.index)
    <3>1. SUFFICES ASSUME j <= s.index PROVE FALSE
      OBVIOUS
    <3>2. s.index \in 0 .. Len(s.sizes) /\ j \in 0 .. s.index
      BY <1>1, <3>1
    <3>3. T[j] <= T[s.index]
      BY <1>1, <3>2, SumsMonotone DEF T
    <3> QED BY <1>3, <2>5, <2>6, <3>3
  <2>8. PICK k \in 1 .. Ahead(s) : j = s.index + k
    <3>1. j - s.index \in 1 .. Ahead(s) /\ j = s.index + (j - s.index)
      BY <1>1, <2>7, SMTT(30) DEF Ahead
    <3> QED BY <3>1
  <2>9. o - skip(k) \in 1 .. Sizes(s)[k] /\ o = skip(k) + (o - skip(k))
    <3>1. s.sizes[j] = Sizes(s)[k] + skip(k) /\ Sizes(s)[k] \in Nat /\ skip(k) \in Nat
      BY <1>4, <2>8
    <3>2. CASE k = 1
      <4>1. j - 1 = s.index
        BY <1>1, <2>8, <3>2
      <4>2. T[s.index] + o > T[s.index] + s.position
        BY <1>3, <2>1, <2>4, <4>1
      <4>3. o > s.position
        BY <1>1, <1>3, <4>2
      <4> QED BY <1>1, <3>1, <3>2, <4>3, SMTT(30)
    <3>3. CASE k # 1
      BY <3>1, <3>3
    <3> QED BY <3>2, <3>3
  <2> HIDE DEF skip
  <2>10. x = <<s.index + k, skip(k) + (o - skip(k))>>
    BY <2>3, <2>8, <2>9
  <2> QED BY <2>9, <2>10, SegmentContentsAt DEF skip, C
<1>7. DOMAIN C = DOMAIN After(Gone(s), W)
  BY <1>5, <1>6
<1>8. C = [x \in DOMAIN C |-> C[x]]
  BY DEF SegmentContents
<1>9. After(Gone(s), W) = [x \in DOMAIN After(Gone(s), W) |-> After(Gone(s), W)[x]]
  BY AfterFunction
<1> HIDE DEF C, W
<1>10. C = After(Gone(s), W)
  BY <1>5, <1>7, <1>8, <1>9
<1> QED BY <1>10 DEF C, W

LEMMA SegmentNumbered ==
  ASSUME NEW s, Segment(s)
  PROVE  Numbered(SegmentContents(s), SegmentSize(s))
<1>1. s.sizes \in Seq(Nat)
  BY SegmentTyped
<1>2. Gone(s) \in Nat /\ SegmentSize(s) = Sum(s.sizes) - Gone(s) /\ SegmentSize(s) \in Nat
  BY SegmentBytesAre
<1>3. Sum(s.sizes) \in Nat
  <2>1. Len(s.sizes) \in 0 .. Len(s.sizes)
    BY <1>1, SeqDomain
  <2> QED BY <1>1, <2>1, SumsSteps DEF Sum
<1>4. SegmentSize(s) = Past(Sum(s.sizes), Gone(s))
  BY <1>2, <1>3 DEF Past
<1> QED BY <1>1, <1>2, <1>3, <1>4, SegmentContentsAre, WholeNumbered, AfterNumbered

\* q is what is left of segment s when m bytes are taken.
Takes(s, q, m) ==
  /\ Segment(q)
  /\ SegmentSize(q) = Past(SegmentSize(s), m)
  /\ SegmentContents(q) = After(m, SegmentContents(s))

\* To seek takes the bytes before the position.
LEMMA SeekTakes ==
  ASSUME NEW s, Segment(s), NEW k \in 1 .. Ahead(s), NEW p \in Nat, p < Sizes(s)[k]
  PROVE  Takes(s, SegmentSeek(s, k - 1, p), SegmentBytes(s)[k - 1] + p)
<1> DEFINE q == SegmentSeek(s, k - 1, p)
           T == Sums(s.sizes)
           m == SegmentBytes(s)[k - 1] + p
<1>1. /\ s.index \in Nat /\ Len(s.sizes) \in Nat /\ s.index <= Len(s.sizes) /\ Ahead(s) \in Nat
      /\ s.position \in Nat /\ s.written \in Nat /\ s.sizes \in Seq(Nat)
      /\ s.written > 0 /\ \A i \in 1 .. Len(s.sizes) : s.sizes[i] \in Nat
  <2>1. Ahead(s) \in Nat
    BY SegmentTyped
  <2>2. Ahead(s) > 0
    BY <2>1
  <2> QED BY <2>1, <2>2, SegmentTyped
<1>2. /\ s.index + k \in 1 .. Len(s.sizes)
      /\ Sizes(s)[k] = s.sizes[s.index + k] - (IF k = 1 THEN s.position ELSE 0)
      /\ Sizes(s)[k] \in Nat
  BY FragmentsAre
<1>3. /\ SegmentBytes(s)[k] = T[s.index + k] - Gone(s)
      /\ SegmentBytes(s)[k] = SegmentBytes(s)[k - 1] + Sizes(s)[k]
      /\ SegmentBytes(s)[k] \in Nat /\ SegmentBytes(s)[k - 1] \in Nat /\ Gone(s) \in Nat
      /\ SegmentBytes(s)[0] = 0
      /\ SegmentSize(s) = Sum(s.sizes) - Gone(s)
      /\ SegmentSize(s) \in Nat
  BY SegmentBytesAre
<1>4. /\ q.sizes = s.sizes /\ q.written = s.written
      /\ q.index = s.index + (k - 1)
      /\ q.position = IF k = 1 THEN s.position + p ELSE p
      /\ q \in [sizes : Seq(Nat), written : Nat, index : Nat, position : Nat]
  <2>1. s \in [sizes : Seq(Nat), written : Nat, index : Nat, position : Nat]
    BY DEF Segment
  <2>2. s.index + (k - 1) \in Nat /\ (k - 1 = 0 <=> k = 1)
    BY <1>1
  <2>3. (IF k = 1 THEN s.position + p ELSE p) \in Nat
    BY <1>1
  <2> QED BY <2>1, <2>2, <2>3 DEF SegmentSeek
<1>5. q.index + 1 = s.index + k /\ q.index < Len(q.sizes)
  BY <1>1, <1>2, <1>4, SMTT(30)
<1>6. s.sizes[s.index + k] \in Nat
  BY <1>1, <1>2
<1>7. q.position < q.sizes[q.index + 1]
  <2>1. CASE k = 1
    <3>1. p < s.sizes[s.index + k] - s.position
      BY <1>2, <2>1
    <3>2. s.position + p < s.sizes[s.index + k]
      BY <1>1, <1>6, <3>1
    <3> QED BY <1>4, <1>5, <2>1, <3>2
  <2>2. CASE k # 1
    BY <1>2, <1>4, <1>5, <1>6, <2>2
  <2> QED BY <2>1, <2>2
<1> HIDE DEF q
<1>8. Segment(q)
  BY <1>1, <1>4, <1>5, <1>7 DEF Segment
<1>9. T[s.index] \in Nat /\ T[s.index + (k - 1)] \in Nat
      /\ T[s.index + k] = T[s.index + (k - 1)] + s.sizes[s.index + k]
  <2>1. PICK i \in 1 .. Len(s.sizes) : i = s.index + k
    BY <1>2
  <2>2. i - 1 = s.index + (k - 1) /\ i - 1 \in 0 .. Len(s.sizes) /\ s.index \in 0 .. Len(s.sizes)
    BY <1>1, <2>1, SMTT(30)
  <2>3. T[i - 1] \in Nat /\ T[s.index] \in Nat /\ T[i] = T[i - 1] + s.sizes[i]
    BY <1>1, <2>2, SumsSteps
  <2> QED BY <2>1, <2>2, <2>3
<1> HIDE DEF T
<1>10. Gone(q) = T[s.index + (k - 1)] + q.position
  BY <1>4 DEF Gone, T
<1>11. Gone(q) = Gone(s) + m
  <2>1. CASE k = 1
    <3>1. T[s.index + (k - 1)] = T[s.index] /\ SegmentBytes(s)[k - 1] = 0
      BY <1>1, <1>3, <2>1
    <3>2. Gone(s) = T[s.index] + s.position
      BY DEF Gone, T
    <3>3. Gone(q) = T[s.index] + (s.position + p) /\ m = p
      BY <1>4, <1>10, <2>1, <3>1
    <3>4. s.position \in Nat /\ T[s.index] \in Nat
      BY <1>1, <1>9
    <3>5. T[s.index] + (s.position + p) = (T[s.index] + s.position) + p
      BY <3>4
    <3> QED BY <3>2, <3>3, <3>5
  <2>2. CASE k # 1
    <3>1. k - 1 \in 1 .. Ahead(s)
      BY <1>1, <2>2
    <3>2. SegmentBytes(s)[k - 1] = T[s.index + (k - 1)] - Gone(s)
      BY <3>1, SegmentBytesAre DEF T
    <3>3. Gone(q) = T[s.index + (k - 1)] + p
      BY <1>4, <1>10, <2>2
    <3> QED BY <1>3, <1>9, <3>2, <3>3
  <2> QED BY <2>1, <2>2
<1>12. m \in Nat
  BY <1>3
<1> HIDE DEF m
<1>13. SegmentSize(q) = Sum(s.sizes) - Gone(q) /\ SegmentSize(q) \in Nat /\ Gone(q) \in Nat
  BY <1>4, <1>8, SegmentBytesAre
<1>14. Numbered(Whole(s.sizes), Sum(s.sizes)) /\ Sum(s.sizes) \in Nat
  <2>1. Len(s.sizes) \in 0 .. Len(s.sizes)
    BY <1>1
  <2> QED BY <1>1, <2>1, WholeNumbered, SumsSteps DEF Sum
<1>15. SegmentSize(q) = Past(SegmentSize(s), m)
  <2>1. SegmentSize(q) = (Sum(s.sizes) - Gone(s)) - m
    BY <1>3, <1>11, <1>12, <1>13, <1>14
  <2> QED BY <1>3, <1>12, <1>13, <2>1 DEF Past
<1>16. SegmentContents(q) = After(m, SegmentContents(s))
  <2>1. SegmentContents(q) = After(Gone(s) + m, Whole(s.sizes))
    BY <1>4, <1>8, <1>11, SegmentContentsAre
  <2>2. SegmentContents(s) = After(Gone(s), Whole(s.sizes))
    BY SegmentContentsAre
  <2>3. After(m, After(Gone(s), Whole(s.sizes))) = After(Gone(s) + m, Whole(s.sizes))
    BY <1>3, <1>12, <1>14, AfterAfter DEF Numbered
  <2> QED BY <2>1, <2>2, <2>3
<1> QED BY <1>8, <1>15, <1>16 DEF Takes, q, m

LEMMA Cleared ==
  ASSUME NEW s, Segment(s)
  PROVE  /\ Segment(SegmentClear(s)) /\ SegmentSize(SegmentClear(s)) = 0
         /\ SegmentClear(s).written = 0
<1> DEFINE q == SegmentClear(s)
<1>1. <<>> \in Seq(Nat) /\ 0 \in Nat
  BY EmptySeq
<1>2. Segment(q) /\ q.written = 0 /\ q.sizes = <<>> /\ q.index = 0 /\ q.position = 0
  BY <1>1 DEF SegmentClear, Segment
<1> HIDE DEF q
<1>3. Sum(q.sizes) = 0 /\ Gone(q) = 0
  <2>1. Len(<<>>) = 0 /\ Sums(<<>>)[0] = 0
    BY <1>1, SumsSteps
  <2> QED BY <1>2, <2>1 DEF Sum, Gone
<1>4. SegmentSize(q) = 0
  BY <1>2, <1>3, SegmentBytesAre
<1> QED BY <1>2, <1>4 DEF q

\* To clear takes all there is.
LEMMA ClearTakes ==
  ASSUME NEW s, Segment(s), NEW m \in Nat, SegmentSize(s) <= m
  PROVE  Takes(s, SegmentClear(s), m)
<1>1. Segment(SegmentClear(s)) /\ SegmentSize(SegmentClear(s)) = 0
  BY Cleared
<1>2. SegmentSize(s) \in Nat
  BY SegmentBytesAre
<1>3. Past(SegmentSize(s), m) = 0
  BY <1>2 DEF Past
<1>4. Bounded(SegmentContents(s), SegmentSize(s))
  BY SegmentNumbered DEF Numbered
<1>5. Bounded(SegmentContents(SegmentClear(s)), 0)
  BY <1>1, SegmentNumbered DEF Numbered
<1>6. SegmentContents(SegmentClear(s)) = After(m, SegmentContents(s))
  BY <1>2, <1>4, <1>5, AfterAll
<1> QED BY <1>1, <1>3, <1>6 DEF Takes

\* To leave alone takes nothing.
LEMMA NothingTaken ==
  ASSUME NEW s, Segment(s)
  PROVE  Takes(s, s, 0)
<1>1. SegmentSize(s) \in Nat /\ Bounded(SegmentContents(s), SegmentSize(s))
  BY SegmentBytesAre, SegmentNumbered DEF Numbered
<1>2. Past(SegmentSize(s), 0) = SegmentSize(s)
  BY <1>1 DEF Past
<1> QED BY <1>1, <1>2, AfterZero DEF Takes

-----------------------------------------------------------------------------
(* Chains of segments.                                                     *)

Segments == {s \in [sizes : Seq(Nat), written : Nat, index : Nat, position : Nat] : Segment(s)}

LEMMA SegmentsAre ==
  \A s : s \in Segments <=> Segment(s)
BY DEF Segments, Segment

\* A function on the places of a list is a list.
LEMMA OverSeq ==
  ASSUME NEW S, NEW s \in Seq(S), NEW U, NEW q,
         q = [i \in DOMAIN s |-> q[i]], \A i \in 1 .. Len(s) : q[i] \in U
  PROVE  q \in Seq(U) /\ Len(q) = Len(s) /\ DOMAIN q = 1 .. Len(s)
<1>1. Len(s) \in Nat /\ DOMAIN s = 1 .. Len(s)
  BY SeqDomain
<1>2. DOMAIN q = 1 .. Len(s)
  BY <1>1
<1>3. q \in [1 .. Len(s) -> U]
  BY <1>1
<1>4. q \in Seq(U)
  BY <1>1, <1>3, SeqDef
<1>5. DOMAIN q = 1 .. Len(q) /\ Len(q) \in Nat
  BY <1>4, SeqDomain
<1> QED BY <1>1, <1>2, <1>4, <1>5

ChainSizes(chain) == [i \in DOMAIN chain |-> SegmentSize(chain[i])]
ChainParts(chain) == [i \in DOMAIN chain |-> SegmentContents(chain[i])]
Counts(chain) == [i \in DOMAIN chain |-> SegmentNumFragments(chain[i])]

LEMMA CountIsAhead ==
  ASSUME NEW s, Segment(s)
  PROVE  SegmentNumFragments(s) = Ahead(s) /\ Len(SegmentFragments(s)) = Ahead(s) /\ Ahead(s) \in Nat
<1>1. Ahead(s) \in Nat
  BY SegmentTyped
<1>2. CASE Ahead(s) = 0
  <2>1. s.written = 0
    BY <1>2, SegmentTyped
  <2> QED BY <1>1, <1>2, <2>1, FragmentsAre DEF SegmentNumFragments
<1>3. CASE Ahead(s) # 0
  <2>1. s.written > 0 /\ s.written \in Nat
    BY <1>1, <1>3, SegmentTyped
  <2>2. s.written # 0
    BY <2>1
  <2> QED BY <1>1, <2>2, FragmentsAre DEF SegmentNumFragments, Ahead
<1> QED BY <1>2, <1>3

LEMMA ChainTyped ==
  ASSUME NEW chain \in Seq(Segments)
  PROVE  /\ Len(chain) \in Nat /\ DOMAIN chain = 1 .. Len(chain)
         /\ \A i \in 1 .. Len(chain) : Segment(chain[i])
         /\ ChainSizes(chain) \in Seq(Nat) /\ Len(ChainSizes(chain)) = Len(chain)
         /\ \A i \in 1 .. Len(chain) : ChainSizes(chain)[i] = SegmentSize(chain[i])
         /\ ChainBytes(chain) = Sums(ChainSizes(chain)) /\ ChainSize(chain) = Sum(ChainSizes(chain))
         /\ Counts(chain) \in Seq(Nat) /\ Len(Counts(chain)) = Len(chain)
         /\ \A i \in 1 .. Len(chain) : Counts(chain)[i] = Ahead(chain[i])
         /\ FragmentsBefore(chain) = Sums(Counts(chain))
         /\ Visited(chain) = FragmentsBefore(chain)
<1>1. /\ Len(chain) \in Nat /\ DOMAIN chain = 1 .. Len(chain)
      /\ \A i \in 1 .. Len(chain) : Segment(chain[i])
  BY SeqDomain, SegmentsAre
<1>2. \A i \in 1 .. Len(chain) : ChainSizes(chain)[i] = SegmentSize(chain[i])
  BY <1>1 DEF ChainSizes
<1>3. \A i \in 1 .. Len(chain) : ChainSizes(chain)[i] \in Nat
  BY <1>1, <1>2, SegmentBytesAre
<1>4. ChainSizes(chain) \in Seq(Nat) /\ Len(ChainSizes(chain)) = Len(chain)
  <2>1. ChainSizes(chain) = [i \in DOMAIN chain |-> ChainSizes(chain)[i]]
    BY DEF ChainSizes
  <2> QED BY <1>3, <2>1, OverSeq
<1>5. \A i \in 1 .. Len(chain) : Counts(chain)[i] = SegmentNumFragments(chain[i])
  BY <1>1 DEF Counts
<1>6. \A i \in 1 .. Len(chain) : Counts(chain)[i] = Ahead(chain[i]) /\ Counts(chain)[i] \in Nat
  BY <1>1, <1>5, CountIsAhead
<1>7. Counts(chain) \in Seq(Nat) /\ Len(Counts(chain)) = Len(chain)
  <2>1. Counts(chain) = [i \in DOMAIN chain |-> Counts(chain)[i]]
    BY DEF Counts
  <2> QED BY <1>6, <2>1, OverSeq
<1>8. ChainBytes(chain) = Sums(ChainSizes(chain))
  BY DEF ChainBytes, ChainSizes
<1>9. ChainSize(chain) = Sum(ChainSizes(chain))
  BY <1>4, <1>8 DEF ChainSize, Sum
<1>10. FragmentsBefore(chain) = Sums(Counts(chain))
  BY DEF FragmentsBefore, Counts
<1>11. Visited(chain) = FragmentsBefore(chain)
  <2>1. \A i \in DOMAIN chain : Len(SegmentFragments(chain[i])) = SegmentNumFragments(chain[i])
    BY <1>1, CountIsAhead
  <2>2. [i \in DOMAIN chain |-> Len(SegmentFragments(chain[i]))]
          = [i \in DOMAIN chain |-> SegmentNumFragments(chain[i])]
    BY <2>1
  <2> QED BY <2>2 DEF Visited, FragmentsBefore
<1> QED BY <1>1, <1>2, <1>4, <1>6, <1>7, <1>8, <1>9, <1>10, <1>11

LEMMA ChainNumbered ==
  ASSUME NEW chain \in Seq(Segments)
  PROVE  /\ Parts(ChainParts(chain), ChainSizes(chain))
         /\ ChainContents(chain) = Joined(ChainParts(chain), Sums(ChainSizes(chain)))
         /\ Numbered(ChainContents(chain), ChainSize(chain))
         /\ ChainSize(chain) \in Nat
<1>1. /\ Len(chain) \in Nat /\ DOMAIN chain = 1 .. Len(chain)
      /\ \A i \in 1 .. Len(chain) : Segment(chain[i])
      /\ ChainSizes(chain) \in Seq(Nat) /\ Len(ChainSizes(chain)) = Len(chain)
      /\ \A i \in 1 .. Len(chain) : ChainSizes(chain)[i] = SegmentSize(chain[i])
      /\ ChainBytes(chain) = Sums(ChainSizes(chain)) /\ ChainSize(chain) = Sum(ChainSizes(chain))
  BY ChainTyped
<1>2. DOMAIN ChainParts(chain) = 1 .. Len(chain)
      /\ \A i \in 1 .. Len(chain) : ChainParts(chain)[i] = SegmentContents(chain[i])
  BY <1>1 DEF ChainParts
<1>3. \A i \in 1 .. Len(chain) : Numbered(ChainParts(chain)[i], ChainSizes(chain)[i])
  BY <1>1, <1>2, SegmentNumbered
<1>4. Parts(ChainParts(chain), ChainSizes(chain))
  BY <1>1, <1>2, <1>3 DEF Parts, Numbered
<1>5. ChainContents(chain) = Joined(ChainParts(chain), Sums(ChainSizes(chain)))
  BY <1>1 DEF ChainContents, ChainParts
<1>6. Numbered(ChainContents(chain), ChainSize(chain))
  BY <1>1, <1>3, <1>4, <1>5, JoinedNumbered
<1>7. ChainSize(chain) \in Nat
  <2>1. Len(ChainSizes(chain)) \in 0 .. Len(ChainSizes(chain))
    BY <1>1
  <2> QED BY <1>1, <2>1, SumsSteps DEF Sum
<1> QED BY <1>4, <1>5, <1>6, <1>7

\* What is left of a chain when m bytes are taken.
TakesChain(chain, rest, m) ==
  /\ rest \in Seq(Segments)
  /\ ChainSize(rest) = Past(ChainSize(chain), m)
  /\ ChainContents(rest) = After(m, ChainContents(chain))

LEMMA ChainTakes ==
  ASSUME NEW chain \in Seq(Segments), NEW m \in Nat,
         NEW rest, rest = [i \in DOMAIN chain |-> rest[i]],
         \A i \in 1 .. Len(chain) : Takes(chain[i], rest[i], Past(m, ChainBytes(chain)[i - 1]))
  PROVE  TakesChain(chain, rest, m)
<1>1. \A i \in 1 .. Len(chain) : rest[i] \in Segments
  BY SegmentsAre DEF Takes
<1>2. rest \in Seq(Segments) /\ Len(rest) = Len(chain) /\ DOMAIN rest = 1 .. Len(chain)
  BY <1>1, OverSeq
<1>3. /\ Len(chain) \in Nat /\ DOMAIN chain = 1 .. Len(chain)
      /\ ChainSizes(chain) \in Seq(Nat) /\ Len(ChainSizes(chain)) = Len(chain)
      /\ \A i \in 1 .. Len(chain) : ChainSizes(chain)[i] = SegmentSize(chain[i])
      /\ ChainBytes(chain) = Sums(ChainSizes(chain)) /\ ChainSize(chain) = Sum(ChainSizes(chain))
  BY ChainTyped
<1>4. /\ ChainSizes(rest) \in Seq(Nat) /\ Len(ChainSizes(rest)) = Len(chain)
      /\ \A i \in 1 .. Len(chain) : ChainSizes(rest)[i] = SegmentSize(rest[i])
      /\ ChainSize(rest) = Sum(ChainSizes(rest))
  BY <1>2, ChainTyped
<1> DEFINE b == ChainSizes(chain)
<1>5. Cut(b, m) \in Seq(Nat) /\ Len(Cut(b, m)) = Len(b)
      /\ \A i \in 0 .. Len(b) : Sums(Cut(b, m))[i] = Past(Sums(b)[i], m)
  BY <1>3, CutSums
<1>6. ChainSizes(rest) = Cut(b, m)
  <2>1. \A i \in 1 .. Len(chain) : Cut(b, m)[i] = Past(b[i], Past(m, Sums(b)[i - 1]))
    BY <1>3 DEF Cut
  <2>2. \A i \in 1 .. Len(chain) : SegmentSize(rest[i]) = Past(SegmentSize(chain[i]), Past(m, Sums(b)[i - 1]))
    BY <1>3 DEF Takes
  <2>3. \A i \in 1 .. Len(chain) : ChainSizes(rest)[i] = Cut(b, m)[i]
    BY <1>3, <1>4, <2>1, <2>2
  <2> QED BY <1>3, <1>4, <1>5, <2>3, SeqEqual
<1>7. ChainSize(rest) = Past(ChainSize(chain), m)
  <2>1. Len(b) \in 0 .. Len(b)
    BY <1>3
  <2>2. Sum(Cut(b, m)) = Past(Sum(b), m)
    BY <1>5, <2>1 DEF Sum
  <2> QED BY <1>3, <1>4, <1>6, <2>2
<1>8. ChainContents(rest) = After(m, ChainContents(chain))
  <2>1. /\ ChainContents(rest) = Joined(ChainParts(rest), Sums(Cut(b, m)))
        /\ ChainContents(chain) = Joined(ChainParts(chain), Sums(b))
        /\ Parts(ChainParts(chain), b)
    BY <1>2, <1>6, ChainNumbered
  <2>2. DOMAIN ChainParts(rest) = 1 .. Len(b)
    BY <1>2, <1>3 DEF ChainParts
  <2>3. \A i \in 1 .. Len(b) : /\ ChainParts(rest)[i] = SegmentContents(rest[i])
                               /\ ChainParts(chain)[i] = SegmentContents(chain[i])
    BY <1>2, <1>3 DEF ChainParts
  <2>4. \A i \in 1 .. Len(b) :
          SegmentContents(rest[i]) = After(Past(m, Sums(b)[i - 1]), SegmentContents(chain[i]))
    BY <1>3 DEF Takes
  <2>5. \A i \in 1 .. Len(b) :
          ChainParts(rest)[i] = After(Past(m, Sums(b)[i - 1]), ChainParts(chain)[i])
    BY <2>3, <2>4
  <2> HIDE DEF b
  <2>6. Joined(ChainParts(rest), Sums(Cut(b, m))) = After(m, Joined(ChainParts(chain), Sums(b)))
    BY <2>1, <2>2, <2>5, JoinedCut
  <2> QED BY <2>1, <2>6
<1> QED BY <1>2, <1>7, <1>8 DEF TakesChain

\* Segments of which no fragment is short are written.
LEMMA NotShort ==
  ASSUME NEW chain \in Seq(Segments), NEW n \in Nat, NEW j \in 0 .. Len(chain),
         \A i \in 1 .. j : \A k \in 1 .. Ahead(chain[i]) :
           ~(n < ChainBytes(chain)[i - 1] + SegmentBytes(chain[i])[k])
  PROVE  ChainBytes(chain)[j] <= n
<1> DEFINE P == ChainBytes(chain)
<1>1. /\ Len(chain) \in Nat /\ \A i \in 1 .. Len(chain) : Segment(chain[i])
      /\ ChainSizes(chain) \in Seq(Nat) /\ Len(ChainSizes(chain)) = Len(chain)
      /\ \A i \in 1 .. Len(chain) : ChainSizes(chain)[i] = SegmentSize(chain[i])
      /\ P = Sums(ChainSizes(chain))
  BY ChainTyped
<1>2. /\ P[0] = 0
      /\ \A i \in 0 .. Len(chain) : P[i] \in Nat
      /\ \A i \in 1 .. Len(chain) : P[i] = P[i - 1] + SegmentSize(chain[i])
  BY <1>1, SumsSteps
<1> HIDE DEF P
<1>3. PICK T : T = {i \in Nat : P[i] <= n}
  OBVIOUS
<1>4. 0 \in T
  BY <1>2, <1>3
<1>5. ASSUME NEW i \in 1 .. j, i - 1 \in T
      PROVE  i \in T
  <2>1. i \in 1 .. Len(chain) /\ i \in Nat /\ i - 1 \in 0 .. Len(chain)
    BY <1>1
  <2>2. Segment(chain[i]) /\ P[i] = P[i - 1] + SegmentSize(chain[i]) /\ P[i - 1] \in Nat /\ P[i - 1] <= n
    BY <1>1, <1>2, <1>3, <1>5, <2>1
  <2>3. Ahead(chain[i]) \in Nat /\ SegmentSize(chain[i]) \in Nat
    BY <2>2, SegmentTyped, SegmentBytesAre
  <2>4. SegmentSize(chain[i]) = SegmentBytes(chain[i])[Ahead(chain[i])]
    BY <2>2, FragmentsAre DEF SegmentSize
  <2>5. CASE Ahead(chain[i]) = 0
    <3>1. SegmentSize(chain[i]) = 0
      BY <2>2, <2>4, <2>5, SegmentBytesAre
    <3> QED BY <1>3, <2>1, <2>2, <3>1
  <2>6. CASE Ahead(chain[i]) # 0
    <3>1. Ahead(chain[i]) \in 1 .. Ahead(chain[i])
      BY <2>3, <2>6
    <3>2. ~(n < P[i - 1] + SegmentSize(chain[i]))
      BY <2>4, <3>1 DEF P
    <3> QED BY <1>3, <2>1, <2>2, <2>3, <3>2
  <2> QED BY <2>5, <2>6
<1>6. j \in Nat
  BY <1>1
<1>7. 0 .. j \subseteq T
  BY <1>4, <1>5, <1>6, UpTo
<1>8. j \in 0 .. j
  BY <1>6
<1> QED BY <1>3, <1>7, <1>8 DEF P

LEMMA ShortAt ==
  ASSUME NEW chain \in Seq(Segments), NEW n \in Nat
  PROVE  /\ \A x \in Short(chain, n) : \E i \in 1 .. Len(chain) : \E k \in 1 .. Ahead(chain[i]) : x = <<i, k>>
         /\ \A i \in 1 .. Len(chain) : \A k \in 1 .. Ahead(chain[i]) :
              <<i, k>> \in Short(chain, n) <=> n < ChainBytes(chain)[i - 1] + SegmentBytes(chain[i])[k]
<1>1. DOMAIN chain = 1 .. Len(chain)
      /\ \A i \in 1 .. Len(chain) : DOMAIN SegmentFragments(chain[i]) = 1 .. Ahead(chain[i])
  BY ChainTyped, FragmentsAre
<1> DEFINE All == UNION {{<<i, k>> : k \in DOMAIN SegmentFragments(chain[i])} : i \in DOMAIN chain}
<1>2. \A x \in All : \E i \in 1 .. Len(chain) : \E k \in 1 .. Ahead(chain[i]) : x = <<i, k>>
  BY <1>1
<1>3. ASSUME NEW i \in 1 .. Len(chain), NEW k \in 1 .. Ahead(chain[i])
      PROVE  <<i, k>> \in All
  <2>1. i \in DOMAIN chain /\ k \in DOMAIN SegmentFragments(chain[i])
    BY <1>1
  <2>2. <<i, k>> \in {<<i, l>> : l \in DOMAIN SegmentFragments(chain[i])}
    BY <2>1
  <2> QED BY <2>1, <2>2
<1>4. Short(chain, n) = {x \in All : n < ChainBytes(chain)[x[1] - 1] + SegmentBytes(chain[x[1]])[x[2]]}
  BY DEF Short
<1> HIDE DEF All
<1>5. ASSUME NEW i \in 1 .. Len(chain), NEW k \in 1 .. Ahead(chain[i])
      PROVE  <<i, k>> \in Short(chain, n) <=> n < ChainBytes(chain)[i - 1] + SegmentBytes(chain[i])[k]
  <2>1. PICK x : x = <<i, k>>
    OBVIOUS
  <2>2. x \in All /\ x[1] = i /\ x[2] = k
    BY <1>3, <2>1
  <2>3. x \in Short(chain, n) <=> n < ChainBytes(chain)[x[1] - 1] + SegmentBytes(chain[x[1]])[x[2]]
    BY <1>4, <2>2
  <2> QED BY <2>1, <2>2, <2>3
<1>6. \A x \in Short(chain, n) : x \in All
  BY <1>4
<1> QED BY <1>2, <1>5, <1>6

\* x comes before all others.
Foremost(x, S) == x \in S /\ \A y \in S : x[1] < y[1] \/ (x[1] = y[1] /\ x[2] <= y[2])

LEMMA FirstShort ==
  ASSUME NEW chain \in Seq(Segments), NEW n \in Nat, Short(chain, n) # {}
  PROVE  \E x : Foremost(x, Short(chain, n))
<1> DEFINE S == Short(chain, n)
<1>1. \A x \in S : \E i \in 1 .. Len(chain) : \E k \in 1 .. Ahead(chain[i]) : x = <<i, k>>
  BY ShortAt
<1>2. Len(chain) \in Nat /\ \A i \in 1 .. Len(chain) : Ahead(chain[i]) \in Nat
  BY ChainTyped, SegmentTyped
<1> HIDE DEF S
<1>3. \A x \in S : x = <<x[1], x[2]>> /\ x[1] \in Nat /\ x[2] \in Nat
  <2>1. SUFFICES ASSUME NEW x \in S
                 PROVE  x = <<x[1], x[2]>> /\ x[1] \in Nat /\ x[2] \in Nat
    OBVIOUS
  <2>2. PICK i \in 1 .. Len(chain) : \E k \in 1 .. Ahead(chain[i]) : x = <<i, k>>
    BY <1>1
  <2>3. PICK k \in 1 .. Ahead(chain[i]) : x = <<i, k>>
    BY <2>2
  <2>4. x[1] = i /\ x[2] = k
    BY <2>3
  <2>5. i \in Nat /\ k \in Nat
    BY <1>2
  <2> QED BY <2>3, <2>4, <2>5
<1>4. PICK A : A = {x[1] : x \in S}
  OBVIOUS
<1>5. A \subseteq Nat /\ A # {}
  BY <1>3, <1>4 DEF S
<1>6. PICK a \in A : \A c \in A : a <= c
  BY <1>5, NatLeast
<1>7. PICK B : B = {x[2] : x \in {y \in S : y[1] = a}}
  OBVIOUS
<1>8. B \subseteq Nat /\ B # {}
  BY <1>3, <1>4, <1>7
<1>9. PICK b \in B : \A c \in B : b <= c
  BY <1>8, NatLeast
<1>10. PICK x \in S : x[1] = a /\ x[2] = b
  BY <1>7
<1>11. ASSUME NEW y \in S
       PROVE  x[1] < y[1] \/ (x[1] = y[1] /\ x[2] <= y[2])
  <2>1. y[1] \in A /\ a \in Nat /\ y[1] \in Nat
    BY <1>3, <1>4, <1>5
  <2>2. a <= y[1]
    BY <1>6, <2>1
  <2>3. CASE a = y[1]
    <3>1. y[2] \in B
      BY <1>7, <2>3
    <3> QED BY <1>9, <1>10, <2>3, <3>1
  <2>4. CASE a # y[1]
    BY <1>10, <2>1, <2>2, <2>4
  <2> QED BY <2>3, <2>4
<1>12. Foremost(x, S)
  BY <1>10, <1>11 DEF Foremost
<1> QED BY <1>12 DEF S

\* Consume takes n bytes of a chain.
LEMMA ConsumeChainTakes ==
  ASSUME NEW chain \in Seq(Segments), NEW n \in Nat
  PROVE  TakesChain(chain, ConsumeChain(chain, n), n)
<1> DEFINE rest == ConsumeChain(chain, n)
           P == ChainBytes(chain)
           V == FragmentsBefore(chain)
<1>1. /\ Len(chain) \in Nat /\ DOMAIN chain = 1 .. Len(chain)
      /\ \A i \in 1 .. Len(chain) : Segment(chain[i])
      /\ ChainSizes(chain) \in Seq(Nat) /\ Len(ChainSizes(chain)) = Len(chain)
      /\ \A i \in 1 .. Len(chain) : ChainSizes(chain)[i] = SegmentSize(chain[i])
      /\ P = Sums(ChainSizes(chain))
      /\ Counts(chain) \in Seq(Nat) /\ Len(Counts(chain)) = Len(chain)
      /\ \A i \in 1 .. Len(chain) : Counts(chain)[i] = Ahead(chain[i])
      /\ V = Sums(Counts(chain))
      /\ Visited(chain) = V
  BY ChainTyped
<1>2. /\ \A i \in 0 .. Len(chain) : P[i] \in Nat
      /\ \A i \in 1 .. Len(chain) : P[i] = P[i - 1] + SegmentSize(chain[i])
      /\ \A j \in 0 .. Len(chain) : \A i \in 0 .. j : P[i] <= P[j]
  BY <1>1, SumsSteps, SumsMonotone
<1>3. /\ \A i \in 0 .. Len(chain) : V[i] \in Nat
      /\ \A i \in 1 .. Len(chain) : V[i] = V[i - 1] + Ahead(chain[i])
      /\ \A j \in 0 .. Len(chain) : \A i \in 0 .. j : V[i] <= V[j]
  BY <1>1, SumsSteps, SumsMonotone
<1>4. \A i \in 1 .. Len(chain) : SegmentSize(chain[i]) \in Nat
  BY <1>1, SegmentBytesAre
<1> HIDE DEF P, V
\* A segment that ends before the first n bytes do is cleared.
<1>5. ASSUME NEW i \in 1 .. Len(chain), P[i] <= n
      PROVE  Takes(chain[i], SegmentClear(chain[i]), Past(n, P[i - 1]))
  <2>1. i \in 0 .. Len(chain) /\ i - 1 \in 0 .. Len(chain)
    BY <1>1
  <2>2. P[i - 1] \in Nat /\ P[i] = P[i - 1] + SegmentSize(chain[i]) /\ SegmentSize(chain[i]) \in Nat
    BY <1>2, <1>4, <2>1
  <2>3. Past(n, P[i - 1]) \in Nat /\ SegmentSize(chain[i]) <= Past(n, P[i - 1])
    BY <1>5, <2>2 DEF Past
  <2> QED BY <1>1, <2>3, ClearTakes
<1>6. CASE Short(chain, n) = {}
  <2>1. rest = [i \in DOMAIN chain |-> SegmentClear(chain[i])]
    BY <1>6 DEF ConsumeChain
  <2>2. \A i \in 1 .. Len(chain) : \A k \in 1 .. Ahead(chain[i]) :
          ~(n < ChainBytes(chain)[i - 1] + SegmentBytes(chain[i])[k])
    BY <1>6, ShortAt
  <2>3. \A j \in 1 .. Len(chain) : P[j] <= n
    <3>1. SUFFICES ASSUME NEW j \in 1 .. Len(chain) PROVE P[j] <= n
      OBVIOUS
    <3>2. j \in 0 .. Len(chain) /\ \A i \in 1 .. j : i \in 1 .. Len(chain)
      BY <1>1
    <3>3. \A i \in 1 .. j : \A k \in 1 .. Ahead(chain[i]) :
            ~(n < ChainBytes(chain)[i - 1] + SegmentBytes(chain[i])[k])
      BY <2>2, <3>2
    <3> QED BY <3>2, <3>3, NotShort DEF P
  <2>4. \A i \in 1 .. Len(chain) : rest[i] = SegmentClear(chain[i])
    BY <1>1, <2>1
  <2>5. rest = [i \in DOMAIN chain |-> rest[i]]
    BY <2>1
  <2> HIDE DEF rest
  <2>6. \A i \in 1 .. Len(chain) : Takes(chain[i], rest[i], Past(n, P[i - 1]))
    BY <1>5, <2>3, <2>4
  <2> QED BY <2>5, <2>6, ChainTakes DEF rest, P
<1>7. CASE Short(chain, n) # {}
  <2> DEFINE first == CHOOSE x : Foremost(x, Short(chain, n))
             fragment == V[first[1] - 1] + first[2] - 1
             position == n - (P[first[1] - 1] + SegmentBytes(chain[first[1]])[first[2] - 1])
  <2>1. Foremost(first, Short(chain, n))
    BY <1>7, FirstShort
  <2>2. rest = Seek(chain, fragment, position)
    BY <1>1, <1>7 DEF ConsumeChain, Foremost, P, V
  <2> HIDE DEF first
  <2>3. PICK a \in 1 .. Len(chain) : \E k \in 1 .. Ahead(chain[a]) : first = <<a, k>>
    BY <2>1, ShortAt DEF Foremost
  <2>4. PICK f \in 1 .. Ahead(chain[a]) : first = <<a, f>>
    BY <2>3
  <2>5. first[1] = a /\ first[2] = f
    BY <2>4
  <2>6. n < P[a - 1] + SegmentBytes(chain[a])[f]
    BY <2>1, <2>4, ShortAt DEF Foremost, P
  <2>7. ASSUME NEW i \in 1 .. Len(chain), NEW k \in 1 .. Ahead(chain[i]), i < a \/ (i = a /\ k < f)
        PROVE  ~(n < P[i - 1] + SegmentBytes(chain[i])[k])
    <3>1. SUFFICES ASSUME n < P[i - 1] + SegmentBytes(chain[i])[k] PROVE FALSE
      OBVIOUS
    <3>2. <<i, k>> \in Short(chain, n)
      BY <3>1, ShortAt DEF P
    <3>3. PICK y \in Short(chain, n) : y = <<i, k>>
      BY <3>2
    <3>4. y[1] = i /\ y[2] = k
      BY <3>3
    <3>5. a < i \/ (a = i /\ f <= k)
      BY <2>1, <2>5, <3>4 DEF Foremost
    <3>6. a \in Nat /\ i \in Nat
      BY <1>1
    <3> QED BY <2>7, <3>5, <3>6
  <2>8. Segment(chain[a]) /\ Ahead(chain[a]) \in Nat /\ f \in Nat /\ a \in Nat
    BY <1>1, SegmentTyped
  <2>9. a - 1 \in 0 .. Len(chain) /\ a \in 0 .. Len(chain)
    BY <1>1
  <2>10. P[a - 1] <= n /\ P[a - 1] \in Nat
    <3>1. \A i \in 1 .. a - 1 : i \in 1 .. Len(chain) /\ i < a
      BY <1>1
    <3>2. \A i \in 1 .. a - 1 : \A k \in 1 .. Ahead(chain[i]) :
            ~(n < ChainBytes(chain)[i - 1] + SegmentBytes(chain[i])[k])
      BY <2>7, <3>1 DEF P
    <3>3. P[a - 1] <= n
      BY <2>9, <3>2, NotShort DEF P
    <3> QED BY <1>2, <2>9, <3>3
  <2> DEFINE B == SegmentBytes(chain[a])
  <2>11. /\ B[f - 1] \in Nat /\ B[f] \in Nat /\ B[f] = B[f - 1] + Sizes(chain[a])[f]
         /\ Sizes(chain[a])[f] \in Nat /\ B[0] = 0
    BY <2>8, SegmentBytesAre, FragmentsAre
  <2>12. P[a - 1] + B[f - 1] <= n
    <3>1. CASE f = 1
      <4>1. B[f - 1] = 0
        BY <2>11, <3>1
      <4> QED BY <2>10, <4>1
    <3>2. CASE f # 1
      <4>1. f - 1 \in 1 .. Ahead(chain[a]) /\ f - 1 < f
        BY <2>8, <3>2
      <4>2. ~(n < P[a - 1] + B[f - 1])
        BY <2>7, <4>1
      <4> QED BY <2>10, <2>11, <4>2
    <3> QED BY <3>1, <3>2
  <2>13. P[a] > n
    <3>1. B[f] <= SegmentSize(chain[a])
      <4>1. /\ Sizes(chain[a]) \in Seq(Nat) /\ Len(Sizes(chain[a])) = Ahead(chain[a])
            /\ B = Sums(Sizes(chain[a]))
            /\ SegmentSize(chain[a]) = B[Ahead(chain[a])]
        BY <2>8, SegmentBytesAre, FragmentsAre DEF SegmentSize
      <4>2. Ahead(chain[a]) \in 0 .. Ahead(chain[a]) /\ f \in 0 .. Ahead(chain[a])
        BY <2>8
      <4> HIDE DEF B
      <4> QED BY <4>1, <4>2, SumsMonotone
    <3>2. P[a] = P[a - 1] + SegmentSize(chain[a]) /\ SegmentSize(chain[a]) \in Nat
      BY <1>2, <1>4
    <3> QED BY <2>6, <2>10, <2>11, <3>1, <3>2
  <2>14. position = n - (P[a - 1] + B[f - 1]) /\ fragment = V[a - 1] + f - 1
    BY <2>5
  <2>15. position \in Nat /\ position < Sizes(chain[a])[f] /\ B[f - 1] + position = n - P[a - 1]
    <3>1. n < P[a - 1] + (B[f - 1] + Sizes(chain[a])[f])
      BY <2>6, <2>11
    <3>2. /\ P[a - 1] \in Nat /\ B[f - 1] \in Nat /\ Sizes(chain[a])[f] \in Nat
          /\ position = n - (P[a - 1] + B[f - 1])
      BY <2>10, <2>11, <2>14
    <3> HIDE DEF position, B
    <3>3. PICK p \in Nat : p = P[a - 1]
      BY <3>2
    <3>4. PICK b \in Nat : b = B[f - 1]
      BY <3>2
    <3>5. PICK z \in Nat : z = Sizes(chain[a])[f]
      BY <3>2
    <3>6. p + b <= n /\ n < p + (b + z) /\ position = n - (p + b)
      BY <2>12, <3>1, <3>2, <3>3, <3>4, <3>5
    <3>7. position \in Nat /\ position < z /\ b + position = n - p
      BY <3>6
    <3> QED BY <3>3, <3>4, <3>5, <3>7
  <2>16. V[a - 1] \in Nat /\ V[a] = V[a - 1] + Ahead(chain[a]) /\ V[a] \in Nat
    BY <1>3, <2>9
  <2>17. fragment \in Nat /\ fragment >= V[a - 1] /\ fragment < V[a] /\ fragment - V[a - 1] = f - 1
    <3>1. PICK v \in Nat : v = V[a - 1]
      BY <2>16
    <3>2. PICK c \in Nat : c = Ahead(chain[a])
      BY <2>8
    <3>3. f \in Nat /\ f >= 1 /\ f <= c /\ V[a] = v + c /\ fragment = v + f - 1
      BY <2>8, <2>14, <2>16, <3>1, <3>2
    <3> HIDE DEF fragment
    <3>4. fragment \in Nat /\ fragment >= v /\ fragment < v + c /\ fragment - v = f - 1
      BY <3>3
    <3> QED BY <3>1, <3>3, <3>4
  <2> HIDE DEF fragment, position, B
  <2>18. ASSUME NEW i \in 1 .. Len(chain)
         PROVE  rest[i] = IF fragment < V[i - 1] THEN chain[i]
                          ELSE IF fragment >= V[i] THEN SegmentClear(chain[i])
                          ELSE SegmentSeek(chain[i], fragment - V[i - 1], position)
    BY <1>1, <2>2 DEF Seek, V
  <2>19. rest = [i \in DOMAIN chain |-> rest[i]]
    BY <2>2 DEF Seek
  <2> HIDE DEF rest
  <2>20. ASSUME NEW i \in 1 .. Len(chain)
         PROVE  Takes(chain[i], rest[i], Past(n, P[i - 1]))
    <3>1. /\ i \in Nat /\ i \in 0 .. Len(chain) /\ i - 1 \in 0 .. Len(chain)
          /\ V[i - 1] \in Nat /\ V[i] \in Nat /\ P[i - 1] \in Nat /\ P[i] \in Nat
      <4>1. i \in Nat /\ i \in 0 .. Len(chain) /\ i - 1 \in 0 .. Len(chain)
        BY <1>1
      <4> QED BY <1>2, <1>3, <4>1
    <3>2. CASE i < a
      <4>1. i \in 0 .. a - 1 /\ i - 1 \in 0 .. a - 1
        BY <2>8, <3>1, <3>2
      <4>2. V[i - 1] <= V[a - 1] /\ V[i] <= V[a - 1] /\ P[i] <= P[a - 1]
        BY <1>2, <1>3, <2>9, <4>1
      <4>3. ~(fragment < V[i - 1]) /\ fragment >= V[i]
        <5>1. fragment \in Nat /\ V[a - 1] \in Nat /\ V[a - 1] <= fragment
          BY <2>16, <2>17
        <5> QED BY <3>1, <4>2, <5>1
      <4>4. rest[i] = SegmentClear(chain[i])
        BY <2>18, <4>3
      <4>5. P[i] <= n
        BY <2>10, <3>1, <4>2
      <4> QED BY <1>5, <4>4, <4>5
    <3>3. CASE i = a
      <4>1. ~(fragment < V[i - 1]) /\ ~(fragment >= V[i]) /\ fragment - V[i - 1] = f - 1
        BY <2>16, <2>17, <3>3
      <4>2. rest[i] = SegmentSeek(chain[a], f - 1, position)
        BY <2>18, <3>3, <4>1
      <4>3. Takes(chain[a], SegmentSeek(chain[a], f - 1, position), B[f - 1] + position)
        BY <2>8, <2>15, SeekTakes DEF B
      <4>4. Past(n, P[i - 1]) = B[f - 1] + position
        BY <2>10, <2>15, <3>3 DEF Past
      <4> QED BY <3>3, <4>2, <4>3, <4>4
    <3>4. CASE i > a
      <4>1. a \in 0 .. i - 1
        BY <2>8, <3>1, <3>4
      <4>2. V[a] <= V[i - 1] /\ P[a] <= P[i - 1]
        BY <1>2, <1>3, <3>1, <4>1
      <4>3. fragment < V[i - 1]
        BY <2>16, <2>17, <3>1, <4>2
      <4>4. rest[i] = chain[i]
        BY <2>18, <4>3
      <4>5. Past(n, P[i - 1]) = 0
        <5>1. P[a] \in Nat
          BY <1>2, <2>9
        <5>2. ~(n > P[i - 1])
          BY <2>13, <3>1, <4>2, <5>1
        <5> QED BY <5>2 DEF Past
      <4> QED BY <1>1, <4>4, <4>5, NothingTaken
    <3> QED BY <2>8, <3>1, <3>2, <3>3, <3>4
  <2> QED BY <2>19, <2>20, ChainTakes DEF rest, P
<1> QED BY <1>6, <1>7

-----------------------------------------------------------------------------
(* Lists of chains.                                                        *)

Lists == Seq(Seq(Segments))

ListSizes(list) == [i \in DOMAIN list |-> ChainSize(list[i])]
ListParts(list) == [i \in DOMAIN list |-> ChainContents(list[i])]

LEMMA ListTyped ==
  ASSUME NEW list \in Lists
  PROVE  /\ Len(list) \in Nat /\ DOMAIN list = 1 .. Len(list)
         /\ \A i \in 1 .. Len(list) : list[i] \in Seq(Segments)
         /\ ListSizes(list) \in Seq(Nat) /\ Len(ListSizes(list)) = Len(list)
         /\ \A i \in 1 .. Len(list) : ListSizes(list)[i] = ChainSize(list[i])
         /\ Bytes(list) = Sums(ListSizes(list))
<1>1. Len(list) \in Nat /\ DOMAIN list = 1 .. Len(list) /\ \A i \in 1 .. Len(list) : list[i] \in Seq(Segments)
  BY SeqDomain DEF Lists
<1>2. \A i \in 1 .. Len(list) : ListSizes(list)[i] = ChainSize(list[i])
  BY <1>1 DEF ListSizes
<1>3. \A i \in 1 .. Len(list) : ListSizes(list)[i] \in Nat
  BY <1>1, <1>2, ChainNumbered
<1>4. ListSizes(list) \in Seq(Nat) /\ Len(ListSizes(list)) = Len(list)
  <2>1. ListSizes(list) = [i \in DOMAIN list |-> ListSizes(list)[i]]
    BY DEF ListSizes
  <2> QED BY <1>3, <2>1, OverSeq DEF Lists
<1>5. Bytes(list) = Sums(ListSizes(list))
  BY DEF Bytes, ListSizes
<1> QED BY <1>1, <1>2, <1>4, <1>5

LEMMA ListNumbered ==
  ASSUME NEW list \in Lists
  PROVE  /\ Parts(ListParts(list), ListSizes(list))
         /\ Contents(list) = Joined(ListParts(list), Sums(ListSizes(list)))
         /\ Numbered(Contents(list), Sum(ListSizes(list)))
         /\ Sum(ListSizes(list)) \in Nat
         /\ Bytes(list)[Len(list)] = Sum(ListSizes(list))
<1>1. /\ Len(list) \in Nat /\ DOMAIN list = 1 .. Len(list)
      /\ \A i \in 1 .. Len(list) : list[i] \in Seq(Segments)
      /\ ListSizes(list) \in Seq(Nat) /\ Len(ListSizes(list)) = Len(list)
      /\ \A i \in 1 .. Len(list) : ListSizes(list)[i] = ChainSize(list[i])
      /\ Bytes(list) = Sums(ListSizes(list))
  BY ListTyped
<1>2. DOMAIN ListParts(list) = 1 .. Len(list)
      /\ \A i \in 1 .. Len(list) : ListParts(list)[i] = ChainContents(list[i])
  BY <1>1 DEF ListParts
<1>3. \A i \in 1 .. Len(list) : Numbered(ListParts(list)[i], ListSizes(list)[i])
  BY <1>1, <1>2, ChainNumbered
<1>4. Parts(ListParts(list), ListSizes(list))
  BY <1>1, <1>2, <1>3 DEF Parts, Numbered
<1>5. Contents(list) = Joined(ListParts(list), Sums(ListSizes(list)))
  BY <1>1 DEF Contents, ListParts
<1>6. Numbered(Contents(list), Sum(ListSizes(list)))
  BY <1>1, <1>3, <1>4, <1>5, JoinedNumbered
<1>7. Sum(ListSizes(list)) \in Nat
  <2>1. Len(ListSizes(list)) \in 0 .. Len(ListSizes(list))
    BY <1>1
  <2> QED BY <1>1, <2>1, SumsSteps DEF Sum
<1>8. Bytes(list)[Len(list)] = Sum(ListSizes(list))
  BY <1>1 DEF Sum
<1> QED BY <1>4, <1>5, <1>6, <1>7, <1>8

\* Consume takes n bytes of a list.
LEMMA ConsumeTakes ==
  ASSUME NEW list \in Lists, NEW n \in Nat
  PROVE  /\ Consume(list, n) \in Lists
         /\ Contents(Consume(list, n)) = After(n, Contents(list))
<1> DEFINE rest == Consume(list, n)
           b == ListSizes(list)
<1>1. /\ Len(list) \in Nat /\ DOMAIN list = 1 .. Len(list)
      /\ \A i \in 1 .. Len(list) : list[i] \in Seq(Segments)
      /\ b \in Seq(Nat) /\ Len(b) = Len(list)
      /\ \A i \in 1 .. Len(list) : b[i] = ChainSize(list[i])
      /\ Bytes(list) = Sums(b)
  BY ListTyped
<1>2. rest = [i \in DOMAIN list |-> rest[i]]
      /\ \A i \in 1 .. Len(list) :
           rest[i] = IF Sums(b)[i - 1] > n THEN list[i] ELSE ConsumeChain(list[i], n - Sums(b)[i - 1])
  BY <1>1 DEF Consume
<1> HIDE DEF rest, b
<1>3. ASSUME NEW i \in 1 .. Len(list)
      PROVE  TakesChain(list[i], rest[i], Past(n, Sums(b)[i - 1]))
  <2>1. i - 1 \in 0 .. Len(b)
    BY <1>1
  <2>2. Sums(b)[i - 1] \in Nat /\ list[i] \in Seq(Segments)
    BY <1>1, <2>1, SumsSteps
  <2>3. CASE Sums(b)[i - 1] > n
    <3>1. rest[i] = list[i]
      BY <1>2, <2>3
    <3>2. ~(n > Sums(b)[i - 1])
      BY <2>2, <2>3
    <3>3. Past(n, Sums(b)[i - 1]) = 0
      BY <3>2 DEF Past
    <3>4. ChainSize(list[i]) \in Nat /\ Bounded(ChainContents(list[i]), ChainSize(list[i]))
      BY <2>2, ChainNumbered DEF Numbered
    <3>5. ChainSize(list[i]) = Past(ChainSize(list[i]), 0)
      BY <3>4 DEF Past
    <3>6. After(0, ChainContents(list[i])) = ChainContents(list[i])
      BY <3>4, AfterZero
    <3> QED BY <2>2, <3>1, <3>3, <3>5, <3>6 DEF TakesChain
  <2>4. CASE ~(Sums(b)[i - 1] > n)
    <3>1. rest[i] = ConsumeChain(list[i], n - Sums(b)[i - 1])
      BY <1>2, <2>4
    <3>2. n - Sums(b)[i - 1] \in Nat /\ Past(n, Sums(b)[i - 1]) = n - Sums(b)[i - 1]
      BY <2>2, <2>4 DEF Past
    <3> QED BY <2>2, <3>1, <3>2, ConsumeChainTakes
  <2> QED BY <2>3, <2>4
<1>4. \A i \in 1 .. Len(list) : rest[i] \in Seq(Segments)
  BY <1>3 DEF TakesChain
<1>5. rest \in Lists /\ Len(rest) = Len(list) /\ DOMAIN rest = 1 .. Len(list)
  BY <1>2, <1>4, OverSeq DEF Lists
<1>6. Cut(b, n) \in Seq(Nat) /\ Len(Cut(b, n)) = Len(b)
  BY <1>1, CutSums
<1>7. ListSizes(rest) = Cut(b, n)
  <2>1. /\ ListSizes(rest) \in Seq(Nat) /\ Len(ListSizes(rest)) = Len(list)
        /\ \A i \in 1 .. Len(list) : ListSizes(rest)[i] = ChainSize(rest[i])
    BY <1>5, ListTyped
  <2>2. \A i \in 1 .. Len(list) : Cut(b, n)[i] = Past(b[i], Past(n, Sums(b)[i - 1]))
    BY <1>1 DEF Cut
  <2>3. \A i \in 1 .. Len(list) : ChainSize(rest[i]) = Past(ChainSize(list[i]), Past(n, Sums(b)[i - 1]))
    BY <1>3 DEF TakesChain
  <2>4. \A i \in 1 .. Len(list) : ListSizes(rest)[i] = Cut(b, n)[i]
    BY <1>1, <2>1, <2>2, <2>3
  <2> QED BY <1>1, <1>6, <2>1, <2>4, SeqEqual
<1>8. Contents(rest) = After(n, Contents(list))
  <2>1. /\ Contents(rest) = Joined(ListParts(rest), Sums(Cut(b, n)))
        /\ Contents(list) = Joined(ListParts(list), Sums(b))
        /\ Parts(ListParts(list), b)
    BY <1>5, <1>7, ListNumbered DEF b
  <2>2. DOMAIN ListParts(rest) = 1 .. Len(b)
    BY <1>1, <1>5 DEF ListParts
  <2>3. \A i \in 1 .. Len(b) : /\ ListParts(rest)[i] = ChainContents(rest[i])
                               /\ ListParts(list)[i] = ChainContents(list[i])
    BY <1>1, <1>5 DEF ListParts
  <2>4. \A i \in 1 .. Len(b) :
          ChainContents(rest[i]) = After(Past(n, Sums(b)[i - 1]), ChainContents(list[i]))
    BY <1>1, <1>3 DEF TakesChain
  <2>5. \A i \in 1 .. Len(b) :
          ListParts(rest)[i] = After(Past(n, Sums(b)[i - 1]), ListParts(list)[i])
    BY <2>3, <2>4
  <2>6. Joined(ListParts(rest), Sums(Cut(b, n))) = After(n, Joined(ListParts(list), Sums(b)))
    BY <2>1, <2>2, <2>5, JoinedCut
  <2> QED BY <2>1, <2>6
<1> QED BY <1>5, <1>8 DEF rest

-----------------------------------------------------------------------------
(* The invariant and its steps.                                            *)

\* Streams are well formed, the request has the announced number of bytes, and
\* what is left are those after the ones written.
FragmentsInv ==
  /\ streams \in Lists
  /\ announced \in Nat /\ written \in Nat
  /\ Numbered(contents, announced)
  /\ Contents(streams) = After(written, contents)

LEMMA WriteKeeps ==
  ASSUME FragmentsInv, NEW n \in Nat, Write(n)
  PROVE  FragmentsInv'
<1>1. /\ streams \in Lists /\ announced \in Nat /\ written \in Nat
      /\ Numbered(contents, announced) /\ Contents(streams) = After(written, contents)
  BY DEF FragmentsInv
<1>2. /\ streams' = Consume(streams, n) /\ written' = written + n
      /\ contents' = contents /\ announced' = announced
  BY DEF Write
<1>3. /\ Consume(streams, n) \in Lists
      /\ Contents(Consume(streams, n)) = After(n, Contents(streams))
  BY <1>1, ConsumeTakes
<1>4. After(n, After(written, contents)) = After(written + n, contents)
  BY <1>1, AfterAfter DEF Numbered
<1>5. written + n \in Nat
  BY <1>1
<1>6. Contents(streams)' = Contents(streams')
  OBVIOUS
<1>7. Contents(streams)' = After(written', contents')
  BY <1>1, <1>2, <1>3, <1>4, <1>6
<1>8. streams' \in Lists /\ announced' \in Nat /\ written' \in Nat
  BY <1>1, <1>2, <1>3, <1>5
<1>9. Numbered(contents', announced')
  BY <1>1, <1>2
<1> QED BY <1>7, <1>8, <1>9 DEF FragmentsInv

LEMMA FragmentsStep ==
  ASSUME FragmentsInv, [FragmentsNext]_fragmentVars
  PROVE  FragmentsInv'
<1>1. ASSUME NEW n \in 0 .. Bytes(streams)[Len(streams)], Write(n)
      PROVE  FragmentsInv'
  <2>1. Bytes(streams)[Len(streams)] \in Nat
    BY ListNumbered DEF FragmentsInv
  <2>2. n \in Nat
    BY <2>1
  <2> QED BY <1>1, <2>2, WriteKeeps
<1>2. CASE UNCHANGED fragmentVars
  <2>1. streams' = streams /\ contents' = contents /\ announced' = announced /\ written' = written
    BY <1>2 DEF fragmentVars
  <2>2. Contents(streams)' = Contents(streams)
    BY <2>1
  <2> QED BY <2>1, <2>2 DEF FragmentsInv
<1> QED BY <1>1, <1>2 DEF FragmentsNext

LEMMA InvUnwritten ==
  ASSUME FragmentsInv
  PROVE  UnwrittenIsLeft
BY NumberedCardinality DEF FragmentsInv, UnwrittenIsLeft

LEMMA InvCounted ==
  ASSUME FragmentsInv
  PROVE  FragmentsCounted
<1>1. streams \in Lists
  BY DEF FragmentsInv
<1>2. ASSUME NEW chain \in Seq(Segments)
      PROVE  /\ NumFragments(chain) = Visited(chain)[Len(chain)]
             /\ ChainSize(chain) = 0 => NumFragments(chain) = 0
             /\ \A j \in DOMAIN chain :
                  chain[j].written > 0 => /\ chain[j].index < Len(chain[j].sizes)
                                          /\ chain[j].position <= chain[j].sizes[chain[j].index + 1]
  <2>1. /\ Len(chain) \in Nat /\ DOMAIN chain = 1 .. Len(chain)
        /\ \A i \in 1 .. Len(chain) : Segment(chain[i])
        /\ ChainSizes(chain) \in Seq(Nat) /\ Len(ChainSizes(chain)) = Len(chain)
        /\ \A i \in 1 .. Len(chain) : ChainSizes(chain)[i] = SegmentSize(chain[i])
        /\ ChainSize(chain) = Sum(ChainSizes(chain))
        /\ Counts(chain) \in Seq(Nat) /\ Len(Counts(chain)) = Len(chain)
        /\ \A i \in 1 .. Len(chain) : Counts(chain)[i] = Ahead(chain[i])
        /\ FragmentsBefore(chain) = Sums(Counts(chain))
        /\ Visited(chain) = FragmentsBefore(chain)
    BY ChainTyped
  <2>2. NumFragments(chain) = Visited(chain)[Len(chain)]
    BY <2>1 DEF NumFragments
  <2>3. ASSUME ChainSize(chain) = 0
        PROVE  NumFragments(chain) = 0
    <3>1. ASSUME NEW i \in 1 .. Len(chain)
          PROVE  Ahead(chain[i]) = 0
      <4>1. i \in 0 .. Len(chain) /\ i - 1 \in 0 .. Len(chain) /\ Len(chain) \in 0 .. Len(chain)
        BY <2>1
      <4>2. /\ Sums(ChainSizes(chain))[i] = Sums(ChainSizes(chain))[i - 1] + SegmentSize(chain[i])
            /\ Sums(ChainSizes(chain))[i] \in Nat /\ Sums(ChainSizes(chain))[i - 1] \in Nat
        BY <2>1, <4>1, SumsSteps
      <4>3. Sums(ChainSizes(chain))[i] <= Sum(ChainSizes(chain))
        BY <2>1, <4>1, SumsMonotone DEF Sum
      <4>4. Segment(chain[i]) /\ SegmentSize(chain[i]) \in Nat
        BY <2>1, SegmentBytesAre
      <4>5. SegmentSize(chain[i]) = 0
        BY <2>1, <2>3, <4>2, <4>3, <4>4
      <4>6. SUFFICES ASSUME Ahead(chain[i]) # 0 PROVE FALSE
        OBVIOUS
      <4>7. Ahead(chain[i]) \in Nat /\ 1 \in 1 .. Ahead(chain[i])
        BY <4>4, <4>6, SegmentTyped
      <4>8. /\ Sizes(chain[i])[1] \in Nat /\ Sizes(chain[i])[1] > 0
        <5>1. /\ Sizes(chain[i])[1] = chain[i].sizes[chain[i].index + 1] - chain[i].position
              /\ Sizes(chain[i])[1] \in Nat
          BY <4>4, <4>7, FragmentsAre
        <5>2. Ahead(chain[i]) > 0
          BY <4>7
        <5>3. /\ chain[i].position < chain[i].sizes[chain[i].index + 1]
              /\ chain[i].index + 1 \in 1 .. Len(chain[i].sizes)
              /\ chain[i].position \in Nat
          BY <4>4, <5>2, SegmentTyped
        <5>4. chain[i].sizes[chain[i].index + 1] \in Nat
          BY <4>4, <5>3, SegmentTyped
        <5> QED BY <5>1, <5>3, <5>4
      <4>9. /\ Sizes(chain[i]) \in Seq(Nat) /\ Len(Sizes(chain[i])) = Ahead(chain[i])
            /\ SegmentBytes(chain[i]) = Sums(Sizes(chain[i]))
            /\ SegmentSize(chain[i]) = SegmentBytes(chain[i])[Ahead(chain[i])]
        BY <4>4, SegmentBytesAre, FragmentsAre DEF SegmentSize
      <4>10. Sums(Sizes(chain[i]))[1] <= SegmentSize(chain[i])
        <5>1. Ahead(chain[i]) \in 0 .. Ahead(chain[i]) /\ 1 \in 0 .. Ahead(chain[i])
          BY <4>7
        <5> QED BY <4>9, <5>1, SumsMonotone
      <4>11. Sums(Sizes(chain[i]))[1] = Sizes(chain[i])[1]
        <5>1. /\ Sums(Sizes(chain[i]))[1] = Sums(Sizes(chain[i]))[1 - 1] + Sizes(chain[i])[1]
              /\ Sums(Sizes(chain[i]))[0] = 0
          BY <4>7, <4>9, SumsSteps
        <5> QED BY <4>8, <5>1
      <4> QED BY <4>5, <4>8, <4>10, <4>11
    <3>2. PICK T : T = {i \in Nat : Sums(Counts(chain))[i] = 0}
      OBVIOUS
    <3>3. 0 \in T
      BY <2>1, <3>2, SumsSteps
    <3>4. ASSUME NEW i \in 1 .. Len(chain), i - 1 \in T
          PROVE  i \in T
      <4>1. Sums(Counts(chain))[i] = Sums(Counts(chain))[i - 1] + Counts(chain)[i]
        BY <2>1, SumsSteps
      <4>2. Counts(chain)[i] = 0
        BY <2>1, <3>1
      <4>3. i \in Nat
        BY <2>1
      <4> QED BY <3>2, <3>4, <4>1, <4>2, <4>3
    <3>5. 0 .. Len(chain) \subseteq T
      BY <2>1, <3>3, <3>4, UpTo
    <3>6. Len(chain) \in T
      BY <2>1, <3>5
    <3> QED BY <2>1, <3>2, <3>6 DEF NumFragments
  <2>4. ASSUME NEW j \in DOMAIN chain, chain[j].written > 0
        PROVE  /\ chain[j].index < Len(chain[j].sizes)
               /\ chain[j].position <= chain[j].sizes[chain[j].index + 1]
    <3>1. Segment(chain[j])
      BY <2>1
    <3>2. chain[j].written # 0
      BY <2>4, <3>1, SegmentTyped
    <3>3. /\ chain[j].index < Len(chain[j].sizes)
          /\ chain[j].position < chain[j].sizes[chain[j].index + 1]
      BY <3>1, <3>2 DEF Segment
    <3>4. chain[j].position \in Nat /\ chain[j].index \in Nat /\ Len(chain[j].sizes) \in Nat
      BY <3>1, SegmentTyped
    <3>5. chain[j].index + 1 \in 1 .. Len(chain[j].sizes)
      BY <3>3, <3>4
    <3>6. chain[j].sizes[chain[j].index + 1] \in Nat
      BY <3>1, <3>5, SegmentTyped
    <3> QED BY <3>3, <3>4, <3>6
  <2> QED BY <2>2, <2>3, <2>4
<1>3. DOMAIN streams = 1 .. Len(streams) /\ \A i \in 1 .. Len(streams) : streams[i] \in Seq(Segments)
  BY <1>1, ListTyped
<1> QED BY <1>2, <1>3 DEF FragmentsCounted

-----------------------------------------------------------------------------
(* Streams are lists of blocks when they are made.                         *)

\* The blocks of a stream, and that its size is theirs.
Stream(s) ==
  /\ s \in [sizes : Seq(Nat), written : Nat, index : Nat, position : Nat]
  /\ Len(s.sizes) > 0 /\ s.written = Sum(s.sizes) /\ s.index = 0 /\ s.position = 0

LEMMA SumTyped ==
  ASSUME NEW s \in Seq(Nat)
  PROVE  Sum(s) \in Nat /\ \A i \in 1 .. Len(s) : s[i] <= Sum(s)
<1>1. Len(s) \in Nat /\ Len(s) \in 0 .. Len(s) /\ \A i \in 1 .. Len(s) : s[i] \in Nat
  BY SeqDomain
<1>2. Sum(s) \in Nat
  BY <1>1, SumsSteps DEF Sum
<1>3. ASSUME NEW i \in 1 .. Len(s)
      PROVE  s[i] <= Sum(s)
  <2>1. i \in 0 .. Len(s) /\ i - 1 \in 0 .. Len(s)
    BY <1>1
  <2>2. Sums(s)[i] = Sums(s)[i - 1] + s[i] /\ Sums(s)[i - 1] \in Nat /\ Sums(s)[i] \in Nat
    BY <2>1, SumsSteps
  <2>3. Sums(s)[i] <= Sum(s)
    BY <1>1, <2>1, SumsMonotone DEF Sum
  <2> QED BY <1>1, <1>2, <2>2, <2>3
<1> QED BY <1>2, <1>3

\* The total when the last number changes, and when one is added.
LEMMA SumLast ==
  ASSUME NEW s \in Seq(Nat), Len(s) > 0, NEW v \in Nat
  PROVE  /\ [s EXCEPT ![Len(s)] = v] \in Seq(Nat) /\ Len([s EXCEPT ![Len(s)] = v]) = Len(s)
         /\ \A i \in 1 .. Len(s) : [s EXCEPT ![Len(s)] = v][i] = IF i = Len(s) THEN v ELSE s[i]
         /\ s[Len(s)] \in Nat
         /\ Sum([s EXCEPT ![Len(s)] = v]) + s[Len(s)] = Sum(s) + v
<1> DEFINE n == Len(s)
           q == [s EXCEPT ![n] = v]
<1>1. n \in Nat /\ n \in 1 .. n /\ n - 1 \in 0 .. n /\ n - 1 \in Nat /\ n - 1 <= n
  BY SeqDomain
<1>2. q \in Seq(Nat) /\ Len(q) = n /\ \A i \in 1 .. n : q[i] = IF i = n THEN v ELSE s[i]
  BY <1>1, ExceptSeq
<1> HIDE DEF q
<1>3. \A i \in 1 .. n - 1 : q[i] = s[i]
  BY <1>1, <1>2
<1>4. \A i \in 0 .. n - 1 : Sums(q)[i] = Sums(s)[i]
  BY <1>1, <1>2, <1>3, SumsAgree
<1>5. Sums(q)[n - 1] = Sums(s)[n - 1]
  <2>1. n - 1 \in 0 .. n - 1
    BY <1>1
  <2> QED BY <1>4, <2>1
<1>6. Sum(q) = Sums(q)[n - 1] + v
  BY <1>1, <1>2, SumsSteps DEF Sum
<1>7. Sum(s) = Sums(s)[n - 1] + s[n] /\ Sums(s)[n - 1] \in Nat /\ s[n] \in Nat
  BY <1>1, SumsSteps, SeqDomain DEF Sum
<1>8. Sum(q) + s[n] = Sum(s) + v
  BY <1>5, <1>6, <1>7
<1> QED BY <1>2, <1>7, <1>8 DEF q

LEMMA SumAppend ==
  ASSUME NEW s \in Seq(Nat), NEW v \in Nat
  PROVE  /\ Append(s, v) \in Seq(Nat) /\ Len(Append(s, v)) = Len(s) + 1
         /\ \A i \in 1 .. Len(s) : Append(s, v)[i] = s[i]
         /\ Append(s, v)[Len(s) + 1] = v
         /\ Sum(Append(s, v)) = Sum(s) + v
<1> DEFINE n == Len(s)
           q == Append(s, v)
<1>1. n \in Nat /\ n + 1 \in 1 .. n + 1 /\ (n + 1) - 1 = n /\ n \in 0 .. n
  BY SeqDomain
<1>2. q \in Seq(Nat) /\ Len(q) = n + 1 /\ q[n + 1] = v /\ \A i \in 1 .. n : q[i] = s[i]
  BY AppendProperties
<1> HIDE DEF q
<1>3. \A i \in 0 .. n : Sums(q)[i] = Sums(s)[i]
  <2>1. n <= Len(q) /\ n <= Len(s)
    BY <1>1, <1>2
  <2> QED BY <1>1, <1>2, <2>1, SumsAgree
<1>4. Sum(q) = Sums(q)[n] + v
  BY <1>1, <1>2, SumsSteps DEF Sum
<1>5. Sum(q) = Sum(s) + v
  BY <1>1, <1>3, <1>4 DEF Sum
<1> QED BY <1>2, <1>5 DEF q

\* A call of Next writes on: some bytes, and none beyond the last block.
LEMMA NextBlockGrows ==
  ASSUME NEW s, Stream(s), BlockSize > 0
  PROVE  /\ Stream(NextBlock(s))
         /\ NextBlock(s).written > s.written
         /\ NextBlock(s).sizes[Len(NextBlock(s).sizes)] >= NextBlock(s).written - s.written
         /\ Len(NextBlock(s).sizes) >= Len(s.sizes)
         /\ \A i \in 1 .. Len(s.sizes) : NextBlock(s).sizes[i] >= s.sizes[i]
<1> DEFINE z == s.sizes
           n == Len(z)
           q == NextBlock(s)
<1>1. BlockSize \in Nat
  BY SizesAssumption
<1>2. z \in Seq(Nat) /\ n \in Nat /\ n > 0 /\ s.written \in Nat /\ s.written = Sum(z)
      /\ \A i \in 1 .. n : z[i] \in Nat
  BY SeqDomain DEF Stream
<1>3. n \in 1 .. n /\ z[n] \in Nat /\ z[n] <= Sum(z) /\ Sum(z) \in Nat
  BY <1>2, SumTyped
<1>4. s \in [sizes : Seq(Nat), written : Nat, index : Nat, position : Nat] /\ s.index = 0 /\ s.position = 0
  BY DEF Stream
<1>5. CASE z[n] < BlockSize
  <2> DEFINE y == [z EXCEPT ![n] = BlockSize]
  <2>1. /\ y \in Seq(Nat) /\ Len(y) = n
        /\ \A i \in 1 .. n : y[i] = IF i = n THEN BlockSize ELSE z[i]
        /\ Sum(y) + z[n] = Sum(z) + BlockSize
    BY <1>1, <1>2, SumLast
  <2>2. q = [s EXCEPT !.sizes = y, !.written = s.written + BlockSize - z[n]]
    BY <1>5 DEF NextBlock
  <2> HIDE DEF y
  <2>3. s.written + BlockSize - z[n] \in Nat /\ s.written + BlockSize - z[n] > s.written
        /\ (s.written + BlockSize - z[n]) - s.written = BlockSize - z[n]
    BY <1>1, <1>2, <1>3, <1>5, SMTT(30)
  <2>4. q.sizes = y /\ q.written = s.written + BlockSize - z[n]
        /\ q \in [sizes : Seq(Nat), written : Nat, index : Nat, position : Nat]
        /\ q.index = 0 /\ q.position = 0
    BY <1>4, <2>1, <2>2, <2>3
  <2>5. Sum(y) = s.written + BlockSize - z[n]
    <3>1. Sum(y) \in Nat
      BY <2>1, SumTyped
    <3>2. Sum(y) + z[n] = s.written + BlockSize
      BY <1>2, <2>1
    <3>3. s.written \in Nat /\ z[n] \in Nat
      BY <1>2, <1>3
    <3> QED BY <1>1, <3>1, <3>2, <3>3, SMTT(30)
  <2> HIDE DEF q
  <2>6. Stream(q)
    BY <1>2, <2>1, <2>4, <2>5 DEF Stream
  <2>7. y[n] = BlockSize /\ BlockSize >= BlockSize - z[n]
    BY <1>1, <1>3, <2>1, SMTT(30)
  <2>8. \A i \in 1 .. n : y[i] >= z[i]
    BY <1>1, <1>2, <1>5, <2>1, SMTT(30)
  <2>9. q.written > s.written /\ q.written - s.written = BlockSize - z[n]
    BY <2>3, <2>4
  <2>10. q.sizes[Len(q.sizes)] >= q.written - s.written /\ Len(q.sizes) >= n
    BY <1>2, <2>1, <2>4, <2>7, <2>9
  <2> QED BY <2>4, <2>6, <2>8, <2>9, <2>10 DEF q
<1>6. CASE ~(z[n] < BlockSize)
  <2> DEFINE y == Append(z, BlockSize)
  <2>1. /\ y \in Seq(Nat) /\ Len(y) = n + 1
        /\ \A i \in 1 .. n : y[i] = z[i]
        /\ y[n + 1] = BlockSize
        /\ Sum(y) = Sum(z) + BlockSize
    BY <1>1, <1>2, SumAppend
  <2>2. q = [s EXCEPT !.sizes = y, !.written = s.written + BlockSize]
    BY <1>6 DEF NextBlock
  <2> HIDE DEF y
  <2>3. s.written + BlockSize \in Nat /\ s.written + BlockSize > s.written
        /\ (s.written + BlockSize) - s.written = BlockSize
    BY <1>1, <1>2
  <2>4. q.sizes = y /\ q.written = s.written + BlockSize
        /\ q \in [sizes : Seq(Nat), written : Nat, index : Nat, position : Nat]
        /\ q.index = 0 /\ q.position = 0
    BY <1>4, <2>1, <2>2, <2>3
  <2> HIDE DEF q
  <2>5. Stream(q)
    BY <1>2, <2>1, <2>4 DEF Stream
  <2>6. \A i \in 1 .. n : y[i] >= z[i]
    BY <1>2, <2>1
  <2>7. q.written > s.written /\ q.written - s.written = BlockSize
    BY <2>3, <2>4
  <2>8. q.sizes[Len(q.sizes)] >= q.written - s.written /\ Len(q.sizes) >= n
    BY <1>1, <1>2, <2>1, <2>4, <2>7
  <2> QED BY <2>4, <2>5, <2>6, <2>7, <2>8 DEF q
<1> QED BY <1>5, <1>6

\* BackUp gives back bytes of the last block.
LEMMA BackUpShrinks ==
  ASSUME NEW s, Stream(s), NEW count \in Nat, count <= s.sizes[Len(s.sizes)]
  PROVE  /\ Stream(BackUp(s, count))
         /\ BackUp(s, count).written = s.written - count
         /\ Len(BackUp(s, count).sizes) = Len(s.sizes)
         /\ \A i \in 1 .. Len(s.sizes) : i # Len(s.sizes) => BackUp(s, count).sizes[i] = s.sizes[i]
<1> DEFINE z == s.sizes
           n == Len(z)
           q == BackUp(s, count)
           y == [z EXCEPT ![n] = z[n] - count]
<1>1. z \in Seq(Nat) /\ n \in Nat /\ n > 0 /\ s.written \in Nat /\ s.written = Sum(z)
      /\ \A i \in 1 .. n : z[i] \in Nat
  BY SeqDomain DEF Stream
<1>2. n \in 1 .. n /\ z[n] \in Nat /\ z[n] <= Sum(z) /\ Sum(z) \in Nat /\ z[n] - count \in Nat
  <2>1. n \in 1 .. n
    BY <1>1
  <2>2. z[n] \in Nat /\ z[n] <= Sum(z) /\ Sum(z) \in Nat
    BY <1>1, <2>1, SumTyped
  <2> QED BY <2>1, <2>2
<1>3. s \in [sizes : Seq(Nat), written : Nat, index : Nat, position : Nat] /\ s.index = 0 /\ s.position = 0
  BY DEF Stream
<1>4. /\ y \in Seq(Nat) /\ Len(y) = n
      /\ \A i \in 1 .. n : y[i] = IF i = n THEN z[n] - count ELSE z[i]
      /\ Sum(y) + z[n] = Sum(z) + (z[n] - count)
  BY <1>1, <1>2, SumLast
<1>5. q = [s EXCEPT !.sizes = y, !.written = s.written - count]
  BY DEF BackUp
<1> HIDE DEF y
<1>6. s.written - count \in Nat /\ Sum(y) = s.written - count
  <2>1. Sum(y) \in Nat
    BY <1>4, SumTyped
  <2>2. Sum(y) + z[n] = s.written + (z[n] - count)
    BY <1>1, <1>4
  <2>3. s.written \in Nat /\ z[n] \in Nat /\ z[n] - count \in Nat
    BY <1>1, <1>2
  <2>4. PICK a \in Nat : a = Sum(y)
    BY <2>1
  <2>5. PICK b \in Nat : b = z[n]
    BY <2>3
  <2>6. PICK c \in Nat : c = s.written
    BY <2>3
  <2>7. a + b = c + (b - count)
    BY <2>2, <2>4, <2>5, <2>6
  <2>8. a = c - count
    BY <2>7
  <2> QED BY <2>4, <2>6, <2>8
<1>7. q.sizes = y /\ q.written = s.written - count
      /\ q \in [sizes : Seq(Nat), written : Nat, index : Nat, position : Nat]
      /\ q.index = 0 /\ q.position = 0
  BY <1>3, <1>4, <1>5, <1>6
<1> HIDE DEF q
<1>8. Stream(q)
  BY <1>1, <1>4, <1>6, <1>7 DEF Stream
<1> QED BY <1>4, <1>7, <1>8 DEF q

Streams == {s \in [sizes : Seq(Nat), written : Nat, index : Nat, position : Nat] : Stream(s)}

LEMMA AskedSteps ==
  ASSUME NEW s, Stream(s), BlockSize > 0, NEW n \in Nat
  PROVE  /\ Asked(s, n)[0] = s
         /\ \A k \in 1 .. n + 1 : Asked(s, n)[k] = NextBlock(Asked(s, n)[k - 1])
         /\ \A k \in 0 .. n + 1 : Stream(Asked(s, n)[k])
<1>1. PICK m \in Nat : m = n + 1
  OBVIOUS
<1>2. \A x : x \in Streams <=> Stream(x)
  BY DEF Streams, Stream
<1>3. PICK F : F = [k \in 1 .. m |-> [x \in Streams |-> NextBlock(x)]]
  OBVIOUS
<1>4. F \in [1 .. m -> [Streams -> Streams]]
  <2>1. \A x \in Streams : NextBlock(x) \in Streams
    BY <1>2, NextBlockGrows
  <2> QED BY <1>3, <2>1
<1>5. s \in Streams
  BY <1>2
<1>6. PICK g : Goes(g, Streams, s, m, F)
  BY <1>4, <1>5, Recursion
<1>7. g \in [0 .. m -> Streams] /\ g[0] = s /\ \A k \in 1 .. m : g[k] = F[k][g[k - 1]]
  BY <1>6 DEF Goes
<1> DEFINE Blocking(f) == f = [k \in 0 .. n + 1 |-> IF k = 0 THEN s ELSE NextBlock(f[k - 1])]
           c == CHOOSE f : Blocking(f)
<1>8. Blocking(g)
  <2>1. ASSUME NEW k \in 0 .. m
        PROVE  g[k] = IF k = 0 THEN s ELSE NextBlock(g[k - 1])
    <3>1. CASE k = 0
      BY <1>7, <3>1
    <3>2. CASE k # 0
      <4>1. k \in 1 .. m /\ k - 1 \in 0 .. m
        BY <3>2
      <4>2. g[k] = F[k][g[k - 1]] /\ g[k - 1] \in Streams
        BY <1>7, <4>1
      <4> QED BY <1>3, <3>2, <4>1, <4>2
    <3> QED BY <3>1, <3>2
  <2>2. g = [k \in 0 .. m |-> IF k = 0 THEN s ELSE NextBlock(g[k - 1])]
    BY <1>7, <2>1
  <2> QED BY <1>1, <2>2
<1>9. Blocking(c)
  BY <1>8
<1>10. Asked(s, n) = c
  BY DEF Asked
<1> HIDE DEF c
<1>11. c[0] = s /\ \A k \in 1 .. n + 1 : c[k] = NextBlock(c[k - 1])
  <2>1. 0 \in 0 .. n + 1 /\ \A k \in 1 .. n + 1 : k \in 0 .. n + 1 /\ k # 0
    OBVIOUS
  <2> QED BY <1>9, <2>1
<1>12. PICK T : T = {k \in Nat : Stream(c[k])}
  OBVIOUS
<1>13. 0 .. n + 1 \subseteq T
  <2>1. 0 \in T
    BY <1>11, <1>12
  <2>2. ASSUME NEW k \in 1 .. n + 1, k - 1 \in T
        PROVE  k \in T
    <3>1. Stream(c[k - 1]) /\ k \in Nat
      BY <1>12, <2>2
    <3>2. Stream(NextBlock(c[k - 1]))
      BY <3>1, NextBlockGrows
    <3> QED BY <1>11, <1>12, <3>1, <3>2
  <2>3. n + 1 \in Nat
    OBVIOUS
  <2> QED BY <2>1, <2>2, <2>3, UpTo
<1> QED BY <1>10, <1>11, <1>12, <1>13

\* A CodedOutputStream writes what it is given, over new blocks if need be.
LEMMA OutputWrites ==
  ASSUME NEW s, Stream(s), BlockSize > 0, NEW n \in Nat, NEW eager \in BOOLEAN
  PROVE  /\ Stream(Output(s, n, eager))
         /\ Output(s, n, eager).written = s.written + n
         /\ Len(Output(s, n, eager).sizes) = 1 \/ Output(s, n, eager).sizes[1] >= s.sizes[1]
<1> DEFINE a == Asked(s, n)
           room(k) == a[k].written - s.written
           enough == {k \in 1 .. n + 1 : room(k) > n \/ (room(k) = n /\ ~eager)}
           first == CHOOSE k \in enough : \A j \in enough : k <= j
<1>1. /\ a[0] = s
      /\ \A k \in 1 .. n + 1 : a[k] = NextBlock(a[k - 1])
      /\ \A k \in 0 .. n + 1 : Stream(a[k])
  BY AskedSteps
<1> HIDE DEF a
<1>2. s.written \in Nat /\ \A k \in 0 .. n + 1 : a[k].written \in Nat /\ room(k) \in Int
  BY <1>1 DEF Stream
<1>3. ASSUME NEW k \in 1 .. n + 1
      PROVE  /\ k \in 0 .. n + 1 /\ k - 1 \in 0 .. n + 1 /\ k \in Nat /\ k - 1 \in Nat
             /\ a[k].written > a[k - 1].written
             /\ a[k].sizes[Len(a[k].sizes)] >= a[k].written - a[k - 1].written
             /\ Len(a[k].sizes) >= Len(a[k - 1].sizes)
             /\ \A i \in 1 .. Len(a[k - 1].sizes) : a[k].sizes[i] >= a[k - 1].sizes[i]
             /\ Stream(a[k]) /\ Stream(a[k - 1])
             /\ a[k].written \in Nat /\ a[k - 1].written \in Nat
  <2>1. k \in 0 .. n + 1 /\ k - 1 \in 0 .. n + 1 /\ k \in Nat /\ k - 1 \in Nat
    OBVIOUS
  <2>2. Stream(a[k]) /\ Stream(a[k - 1]) /\ a[k] = NextBlock(a[k - 1])
        /\ a[k].written \in Nat /\ a[k - 1].written \in Nat
    BY <1>1, <1>2, <2>1
  <2> QED BY <2>1, <2>2, NextBlockGrows
<1>4. PICK T : T = {k \in Nat : a[k].written >= s.written + k /\ a[k].sizes[1] >= s.sizes[1]}
  OBVIOUS
<1>5. 0 .. n + 1 \subseteq T
  <2>1. 0 \in T
    <3>1. 1 \in 1 .. Len(s.sizes) /\ s.sizes \in Seq(Nat)
      BY SeqDomain DEF Stream
    <3>2. s.sizes[1] \in Nat
      BY <3>1, SeqDomain
    <3>3. a[0].written >= s.written + 0
      BY <1>1, <1>2
    <3>4. a[0].sizes[1] >= s.sizes[1]
      BY <1>1, <3>2
    <3> QED BY <1>4, <3>3, <3>4
  <2>2. ASSUME NEW k \in 1 .. n + 1, k - 1 \in T
        PROVE  k \in T
    <3>1. a[k - 1].written >= s.written + (k - 1) /\ a[k - 1].sizes[1] >= s.sizes[1]
      BY <1>4, <2>2
    <3>2. a[k].written > a[k - 1].written /\ a[k].written \in Nat /\ a[k - 1].written \in Nat /\ k \in Nat
      BY <1>3
    <3>3. a[k].written >= s.written + k
      BY <1>2, <3>1, <3>2
    <3>4. 1 \in 1 .. Len(a[k - 1].sizes) /\ a[k].sizes[1] >= a[k - 1].sizes[1]
      <4>1. Stream(a[k - 1])
        BY <1>3
      <4>2. 1 \in 1 .. Len(a[k - 1].sizes)
        BY <4>1, SeqDomain DEF Stream
      <4> QED BY <1>3, <4>2
    <3>5. s.sizes[1] \in Nat /\ a[k].sizes[1] \in Nat /\ a[k - 1].sizes[1] \in Nat
      <4>1. Stream(a[k]) /\ Stream(a[k - 1])
        BY <1>3
      <4>2. ASSUME NEW x, Stream(x)
            PROVE  x.sizes[1] \in Nat
        <5>1. x.sizes \in Seq(Nat) /\ 1 \in 1 .. Len(x.sizes)
          BY <4>2, SeqDomain DEF Stream
        <5> QED BY <5>1, SeqDomain
      <4> QED BY <4>1, <4>2
    <3>6. a[k].sizes[1] >= s.sizes[1]
      BY <3>1, <3>4, <3>5
    <3> QED BY <1>4, <3>2, <3>3, <3>6
  <2>3. n + 1 \in Nat
    OBVIOUS
  <2> QED BY <2>1, <2>2, <2>3, UpTo
<1>6. n + 1 \in enough
  <2>1. n + 1 \in 1 .. n + 1 /\ n + 1 \in 0 .. n + 1
    OBVIOUS
  <2>2. a[n + 1].written >= s.written + (n + 1) /\ a[n + 1].written \in Nat
    BY <1>2, <1>4, <1>5, <2>1
  <2>3. room(n + 1) > n
    BY <1>2, <2>2
  <2> QED BY <2>1, <2>3
<1>7. enough \subseteq Nat
  OBVIOUS
<1>8. first \in enough /\ \A j \in enough : first <= j
  <2> HIDE DEF enough
  <2> QED BY <1>6, <1>7, NatLeast
<1>9. Output(s, n, eager) = BackUp(a[first], room(first) - n)
  BY DEF Output, a
<1> HIDE DEF first
<1>10. first \in 1 .. n + 1 /\ room(first) >= n
  BY <1>2, <1>3, <1>8
<1>11. room(first - 1) <= n
  <2>1. CASE first = 1
    <3>1. room(first - 1) = 0
      BY <1>1, <1>2, <2>1
    <3> QED BY <3>1
  <2>2. CASE first # 1
    <3>1. first - 1 \in 1 .. n + 1 /\ ~(first <= first - 1) /\ first - 1 \in 0 .. n + 1
      BY <1>10, <2>2
    <3>2. ~(first - 1 \in enough)
      BY <1>8, <3>1
    <3>3. ~(room(first - 1) > n)
      BY <3>1, <3>2
    <3> QED BY <1>2, <3>1, <3>3
  <2> QED BY <2>1, <2>2
<1> DEFINE q == a[first]
           u == a[first - 1]
<1>12. /\ Stream(q) /\ q.written \in Nat /\ u.written \in Nat
       /\ q.sizes[Len(q.sizes)] >= q.written - u.written
  BY <1>3, <1>10
<1>13. q.written - s.written >= n /\ u.written - s.written <= n
  BY <1>10, <1>11
<1>14. q.sizes[Len(q.sizes)] \in Nat
  <2>1. q.sizes \in Seq(Nat) /\ Len(q.sizes) \in 1 .. Len(q.sizes)
    BY <1>12, SeqDomain DEF Stream
  <2> QED BY <2>1, SeqDomain
<1>15. q.sizes[1] >= s.sizes[1]
  BY <1>4, <1>5, <1>10
<1> DEFINE count == (q.written - s.written) - n
<1>16. count \in Nat /\ count <= q.sizes[Len(q.sizes)] /\ q.written - count = s.written + n
  <2> HIDE DEF q, u
  <2>1. PICK p \in Nat : p = s.written
    BY <1>2
  <2>2. PICK now \in Nat : now = q.written
    BY <1>12
  <2>3. PICK r \in Nat : r = u.written
    BY <1>12
  <2>4. PICK z \in Nat : z = q.sizes[Len(q.sizes)]
    BY <1>14
  <2>5. now - p >= n /\ r - p <= n /\ z >= now - r /\ count = (now - p) - n
    BY <1>12, <1>13, <2>1, <2>2, <2>3, <2>4
  <2>6. count \in Nat /\ count <= z /\ now - count = p + n
    BY <2>5
  <2> QED BY <2>1, <2>2, <2>4, <2>6
<1>17. Output(s, n, eager) = BackUp(q, count)
  BY <1>9
<1> HIDE DEF q, u, count
<1>18. /\ Stream(BackUp(q, count))
       /\ BackUp(q, count).written = q.written - count
       /\ Len(BackUp(q, count).sizes) = Len(q.sizes)
       /\ \A i \in 1 .. Len(q.sizes) : i # Len(q.sizes) => BackUp(q, count).sizes[i] = q.sizes[i]
  BY <1>12, <1>16, BackUpShrinks
<1>19. Len(q.sizes) = 1 \/ BackUp(q, count).sizes[1] >= s.sizes[1]
  <2>1. CASE Len(q.sizes) = 1
    BY <2>1
  <2>2. CASE Len(q.sizes) # 1
    <3>1. 1 \in 1 .. Len(q.sizes) /\ 1 # Len(q.sizes)
      BY <1>12, <2>2, SeqDomain DEF Stream
    <3>2. BackUp(q, count).sizes[1] = q.sizes[1]
      BY <1>18, <3>1
    <3> QED BY <1>15, <3>2
  <2> QED BY <2>1, <2>2
<1> QED BY <1>16, <1>17, <1>18, <1>19

-----------------------------------------------------------------------------
(* The spans of a request.                                                 *)

LEMMA SumOne ==
  ASSUME NEW s \in Seq(Nat), Len(s) = 1
  PROVE  Sum(s) = s[1] /\ s[1] \in Nat
<1>1. s[1] \in Nat
  BY SeqDomain
<1>2. Sums(s)[1] = Sums(s)[0] + s[1] /\ Sums(s)[0] = 0
  <2>1. 1 \in 1 .. Len(s) /\ 1 - 1 = 0
    OBVIOUS
  <2>2. Sums(s)[1] = Sums(s)[1 - 1] + s[1] /\ Sums(s)[0] = 0
    BY <2>1, SumsSteps
  <2> QED BY <2>1, <2>2
<1> QED BY <1>1, <1>2 DEF Sum

\* The total with one more number in front.
LEMMA SumFront ==
  ASSUME NEW s \in Seq(Nat), NEW q \in Seq(Nat), Len(q) = Len(s) + 1,
         \A i \in 1 .. Len(s) : q[i + 1] = s[i]
  PROVE  Sum(q) = q[1] + Sum(s)
<1>1. Len(s) \in Nat /\ Len(q) \in Nat /\ 1 \in 1 .. Len(q)
  BY SeqDomain
<1>2. q[1] \in Nat
  BY <1>1, SeqDomain
<1>3. PICK T : T = {k \in Nat : Sums(q)[k + 1] = q[1] + Sums(s)[k]}
  OBVIOUS
<1>4. Sums(s)[0] = 0 /\ Sums(q)[0] = 0
  BY SumsSteps
<1>5. 0 \in T
  <2>1. Sums(q)[1] = Sums(q)[1 - 1] + q[1]
    BY <1>1, SumsSteps
  <2>2. Sums(q)[0 + 1] = q[1] + Sums(s)[0]
    BY <1>2, <1>4, <2>1
  <2> QED BY <1>3, <2>2
<1>6. ASSUME NEW k \in 1 .. Len(s), k - 1 \in T
      PROVE  k \in T
  <2>1. /\ k + 1 \in 1 .. Len(q) /\ (k + 1) - 1 = k /\ k \in Nat /\ (k - 1) + 1 = k
        /\ k - 1 \in 0 .. Len(s)
    BY <1>1
  <2>2. Sums(q)[k] = q[1] + Sums(s)[k - 1]
    BY <1>3, <1>6, <2>1
  <2>3. Sums(q)[k + 1] = Sums(q)[k] + q[k + 1]
    BY <2>1, SumsSteps
  <2>4. Sums(s)[k] = Sums(s)[k - 1] + s[k] /\ Sums(s)[k - 1] \in Nat /\ s[k] \in Nat
    BY <2>1, SumsSteps, SeqDomain
  <2>5. q[k + 1] = s[k]
    OBVIOUS
  <2>6. Sums(q)[k + 1] = (q[1] + Sums(s)[k - 1]) + s[k]
    BY <2>2, <2>3, <2>5
  <2>7. Sums(q)[k + 1] = q[1] + Sums(s)[k]
    <3>1. PICK a \in Nat : a = q[1]
      BY <1>2
    <3>2. PICK b \in Nat : b = Sums(s)[k - 1]
      BY <2>4
    <3>3. PICK c \in Nat : c = s[k]
      BY <2>4
    <3>4. (a + b) + c = a + (b + c)
      OBVIOUS
    <3>5. Sums(q)[k + 1] = (a + b) + c /\ Sums(s)[k] = b + c
      BY <2>4, <2>6, <3>1, <3>2, <3>3
    <3> QED BY <3>1, <3>4, <3>5
  <2> QED BY <1>3, <2>1, <2>7
<1>7. 0 .. Len(s) \subseteq T
  BY <1>1, <1>5, <1>6, UpTo
<1>8. Len(s) \in T
  BY <1>1, <1>7
<1> QED BY <1>3, <1>8 DEF Sum

\* A stream whose first block has bytes is a segment with all of its bytes ahead.
LEMMA StreamSegment ==
  ASSUME NEW s, Stream(s), s.sizes[1] > 0
  PROVE  /\ Segment(s) /\ SegmentSize(s) = s.written
         /\ 1 \in 1 .. Ahead(s) /\ Sizes(s)[1] = s.sizes[1]
<1>1. /\ s.sizes \in Seq(Nat) /\ Len(s.sizes) \in Nat /\ Len(s.sizes) > 0
      /\ 1 \in 1 .. Len(s.sizes) /\ s.written \in Nat /\ s.written = Sum(s.sizes)
      /\ s.index = 0 /\ s.position = 0
  BY SeqDomain DEF Stream
<1>2. s.sizes[1] \in Nat /\ s.sizes[1] <= Sum(s.sizes) /\ Sum(s.sizes) \in Nat
  BY <1>1, SumTyped, SeqDomain
<1>3. s.written > 0
  BY <1>1, <1>2
<1>4. Segment(s)
  <2>1. s.index < Len(s.sizes) /\ s.index + 1 = 1 /\ s.position < s.sizes[1]
    BY <1>1, <1>2
  <2>2. s.position < s.sizes[s.index + 1]
    BY <2>1
  <2> QED BY <1>3, <2>1, <2>2 DEF Segment, Stream
<1>5. Gone(s) = 0
  <2>1. Sums(s.sizes)[0] = 0
    BY <1>1, SumsSteps
  <2> QED BY <1>1, <2>1 DEF Gone
<1>6. SegmentSize(s) = s.written
  <2>1. SegmentSize(s) = Sum(s.sizes) - Gone(s)
    BY <1>4, SegmentBytesAre
  <2> QED BY <1>1, <1>5, <2>1
<1>7. Ahead(s) = Len(s.sizes)
  BY <1>1 DEF Ahead
<1>8. 1 \in 1 .. Ahead(s)
  BY <1>1, <1>7
<1>9. Sizes(s)[1] = s.sizes[1]
  <2>1. Sizes(s)[1] = s.sizes[s.index + 1] - s.position
    BY <1>4, <1>8, FragmentsAre
  <2>2. s.index + 1 = 1
    BY <1>1
  <2> QED BY <1>1, <1>2, <2>1, <2>2
<1> QED BY <1>4, <1>6, <1>8, <1>9

LEMMA ArraySegment ==
  ASSUME NEW sizes \in Seq(Nat \ {0}), sizes # <<>>
  PROVE  Segment(Array(sizes)) /\ SegmentSize(Array(sizes)) = Sum(sizes) /\ Sum(sizes) \in Nat
<1> DEFINE s == Array(sizes)
<1>1. sizes \in Seq(Nat) /\ Len(sizes) \in Nat /\ Len(sizes) > 0 /\ sizes[1] \in Nat \ {0}
  <2>1. Len(sizes) \in Nat \ {0}
    BY EmptySeq
  <2>2. 1 \in 1 .. Len(sizes)
    BY <2>1
  <2>3. sizes \in Seq(Nat)
    BY SeqMonotonic
  <2> QED BY <2>1, <2>2, <2>3, SeqDomain
<1>2. Sum(sizes) \in Nat
  BY <1>1, SumTyped
<1>3. s.sizes = sizes /\ s.written = Sum(sizes) /\ s.index = 0 /\ s.position = 0
      /\ s \in [sizes : Seq(Nat), written : Nat, index : Nat, position : Nat]
  BY <1>1, <1>2 DEF Array, NewStream
<1> HIDE DEF s
<1>4. Stream(s) /\ s.sizes[1] > 0
  BY <1>1, <1>3 DEF Stream
<1> QED BY <1>2, <1>3, <1>4, StreamSegment DEF s

Framings == {ChunkFraming, ReportFraming}

LEMMA SpaceReserved ==
  ASSUME NEW framing \in Framings, NEW body \in 1 .. MaxBody
  PROVE  /\ framing.header \in Nat /\ framing.footer \in Nat /\ body \in Nat
         /\ Reserved(framing) \in Nat /\ Reserved(framing) > 0 /\ Reserved(framing) <= BlockSize
         /\ BlockSize \in Nat /\ BlockSize > 0
         /\ VarintSize[body] \in Nat /\ VarintSize[MaxBody] \in Nat
         /\ VarintSize[body] <= VarintSize[MaxBody]
         /\ Reserved(framing) = (1 + VarintSize[MaxBody]) + framing.header
<1>1. BlockSize \in Nat /\ ChunkHeader \in Nat /\ MaxBody \in Nat
  BY SizesAssumption
<1>2. MaxBody \in 0 .. MaxBody /\ body \in 0 .. MaxBody /\ body \in Nat
  BY <1>1
<1>3. VarintSize[body] \in Nat /\ VarintSize[MaxBody] \in Nat /\ VarintSize[body] <= VarintSize[MaxBody]
  BY <1>2, VarintAssumption
<1>4. framing.header \in Nat /\ framing.footer \in Nat /\ framing.header <= ChunkHeader
  BY <1>1 DEF Framings, ChunkFraming, ReportFraming
<1>5. Reserved(framing) = (1 + VarintSize[MaxBody]) + framing.header
  BY DEF Reserved, ReportRequestSpansMaxHeaderSize, Key
<1>6. (1 + VarintSize[MaxBody]) + ChunkHeader <= BlockSize
  BY BlockAssumption DEF Reserved, ReportRequestSpansMaxHeaderSize, Key, ChunkFraming
<1> QED BY <1>1, <1>2, <1>3, <1>4, <1>5, <1>6

\* The first block of a stream, cut to what is reserved.
LEMMA ReservedBlock ==
  ASSUME NEW r \in Nat, r <= BlockSize, BlockSize \in Nat, BlockSize > 0,
         NEW s, s = BackUp(NextBlock(NewStream), BlockSize - r)
  PROVE  Stream(s) /\ s.written = r /\ s.sizes[1] = r
<1> DEFINE b == NextBlock(NewStream)
<1>1. <<0>> \in Seq(Nat) /\ Len(<<0>>) = 1 /\ <<0>>[1] = 0
  OBVIOUS
<1>2. Sum(<<0>>) = 0
  BY <1>1, SumOne
<1>3. Stream(NewStream)
  BY <1>1, <1>2 DEF Stream, NewStream
<1>4. Stream(b)
  BY <1>3, NextBlockGrows
<1>5. b.sizes = [<<0>> EXCEPT ![1] = BlockSize]
  BY <1>1 DEF NextBlock, NewStream
<1>6. Len(b.sizes) = 1 /\ b.sizes[1] = BlockSize
  BY <1>5
<1> HIDE DEF b
<1>7. b.written = BlockSize
  <2>1. b.sizes \in Seq(Nat) /\ b.written = Sum(b.sizes)
    BY <1>4 DEF Stream
  <2> QED BY <1>6, <2>1, SumOne
<1>8. BlockSize - r \in Nat /\ BlockSize - r <= BlockSize /\ BlockSize - (BlockSize - r) = r
  OBVIOUS
<1>9. s = BackUp(b, BlockSize - r)
  BY DEF b
<1>10. Stream(s) /\ s.written = b.written - (BlockSize - r) /\ Len(s.sizes) = 1
  BY <1>4, <1>6, <1>8, <1>9, BackUpShrinks
<1>11. s.sizes[1] = Sum(s.sizes) /\ s.written = Sum(s.sizes)
  BY <1>10, SumOne DEF Stream
<1> QED BY <1>7, <1>8, <1>10, <1>11

\* The bytes of a span with its headers and footer.
Length(framing, body) == framing.header + ChunkSize(body) + framing.footer

LEMMA SpanSegment ==
  ASSUME NEW framing \in Framings, NEW body \in 1 .. MaxBody, NEW eager \in BOOLEAN
  PROVE  /\ Segment(Span(framing, body, eager))
         /\ SegmentSize(Span(framing, body, eager)) = Length(framing, body)
         /\ Length(framing, body) \in Nat
<1> DEFINE r == Reserved(framing)
           v == VarintSize[body]
           w == VarintSize[MaxBody]
           g == framing.header
           e == framing.footer
           reserved == BackUp(NextBlock(NewStream), BlockSize - r)
           closed == Output(reserved, body + e, eager)
           skip == r - (1 + v) - g
           span == Span(framing, body, eager)
<1>1. /\ g \in Nat /\ e \in Nat /\ body \in Nat
      /\ r \in Nat /\ r > 0 /\ r <= BlockSize
      /\ BlockSize \in Nat /\ BlockSize > 0
      /\ v \in Nat /\ w \in Nat /\ v <= w /\ r = (1 + w) + g
  BY SpaceReserved
<1>2. span = SegmentSeek(closed, 0, skip)
  BY DEF Span, Key
<1>3. Length(framing, body) = g + (1 + v + body) + e
  BY DEF Length, ChunkSize, Key
<1> HIDE DEF r, v, w, g, e, closed, span
<1>4. Stream(reserved) /\ reserved.written = r /\ reserved.sizes[1] = r
  BY <1>1, ReservedBlock
<1> HIDE DEF reserved
<1>5. body + e \in Nat
  BY <1>1
<1>6. /\ Stream(closed) /\ closed.written = r + (body + e)
      /\ Len(closed.sizes) = 1 \/ closed.sizes[1] >= r
  BY <1>1, <1>4, <1>5, OutputWrites DEF closed
<1>7. closed.sizes[1] >= r /\ closed.sizes[1] \in Nat
  <2>1. closed.sizes \in Seq(Nat) /\ Len(closed.sizes) \in Nat /\ 1 \in 1 .. Len(closed.sizes)
        /\ closed.written = Sum(closed.sizes)
    BY <1>6, SeqDomain DEF Stream
  <2>2. closed.sizes[1] \in Nat
    BY <2>1, SeqDomain
  <2>3. CASE Len(closed.sizes) = 1
    <3>1. closed.sizes[1] = r + (body + e)
      BY <1>6, <2>1, <2>3, SumOne
    <3> QED BY <1>1, <1>5, <2>2, <3>1
  <2>4. CASE Len(closed.sizes) # 1
    BY <1>6, <2>2, <2>4
  <2> QED BY <2>3, <2>4
<1>8. skip = w - v
  BY <1>1
<1>9. skip \in Nat /\ skip < r
  BY <1>1, <1>8
<1>10. closed.sizes[1] > 0 /\ skip < closed.sizes[1]
  BY <1>1, <1>7, <1>9
<1>11. /\ Segment(closed) /\ SegmentSize(closed) = r + (body + e)
       /\ 1 \in 1 .. Ahead(closed) /\ Sizes(closed)[1] = closed.sizes[1]
  BY <1>6, <1>10, StreamSegment
<1> HIDE DEF skip
<1>12. Takes(closed, SegmentSeek(closed, 1 - 1, skip), SegmentBytes(closed)[1 - 1] + skip)
  BY <1>9, <1>10, <1>11, SeekTakes
<1>13. SegmentBytes(closed)[0] = 0
  BY <1>11, SegmentBytesAre
<1>14. Takes(closed, span, skip)
  <2>1. 1 - 1 = 0 /\ 0 + skip = skip
    BY <1>9
  <2> QED BY <1>2, <1>12, <1>13, <2>1
<1>15. Segment(span) /\ SegmentSize(span) = Past(r + (body + e), skip)
  BY <1>11, <1>14 DEF Takes
<1>16. Past(r + (body + e), skip) = g + (1 + v + body) + e /\ g + (1 + v + body) + e \in Nat
  BY <1>1, <1>8 DEF Past
<1> QED BY <1>3, <1>15, <1>16 DEF span

-----------------------------------------------------------------------------
(* Append makes a list of the spans in their order.                        *)

\* The pointers after k streams have been appended to the first of n.
Stage(n, k) ==
  [next |-> [i \in 1 .. n |-> IF i <= k THEN i + 1 ELSE 0],
   last |-> [i \in 1 .. n |-> IF i = 1 /\ k >= 1 THEN k + 1 ELSE IF i <= k THEN i + 1 ELSE 0]]

LEMMA StageTyped ==
  ASSUME NEW n \in Nat, NEW k \in Nat
  PROVE  /\ Len(Stage(n, k).next) = n
         /\ DOMAIN Stage(n, k).next = 1 .. n /\ DOMAIN Stage(n, k).last = 1 .. n
         /\ \A i \in 1 .. n : Stage(n, k).next[i] = IF i <= k THEN i + 1 ELSE 0
         /\ \A i \in 1 .. n : Stage(n, k).last[i] =
              IF i = 1 /\ k >= 1 THEN k + 1 ELSE IF i <= k THEN i + 1 ELSE 0
<1> DEFINE x == Stage(n, k).next
<1>1. x = [i \in 1 .. n |-> IF i <= k THEN i + 1 ELSE 0]
  BY DEF Stage
<1>2. x \in [1 .. n -> Nat]
  BY <1>1
<1>3. x \in Seq(Nat)
  BY <1>2, SeqDef
<1>4. DOMAIN x = 1 .. Len(x) /\ Len(x) \in Nat /\ DOMAIN x = 1 .. n
  BY <1>1, <1>3, SeqDomain
<1>5. Len(x) = n
  <2> DEFINE m == Len(x)
  <2>1. m \in Nat /\ n \in Nat /\ 1 .. m = 1 .. n
    BY <1>4
  <2> HIDE DEF m
  <2>2. m = n
    BY <2>1
  <2> QED BY <2>2 DEF m
<1>6. Stage(n, k).last = [i \in 1 .. n |-> IF i = 1 /\ k >= 1 THEN k + 1 ELSE IF i <= k THEN i + 1 ELSE 0]
  BY DEF Stage
<1> QED BY <1>1, <1>5, <1>6

\* Append comes by the first stream and the last.
LEMMA PassedStage ==
  ASSUME NEW n \in Nat, NEW k \in 0 .. n - 1
  PROVE  /\ DOMAIN Passed(Stage(n, k), 1) = 0 .. n
         /\ \A j \in 0 .. n : Passed(Stage(n, k), 1)[j] = IF j = 0 THEN 1 ELSE k + 1
<1> DEFINE list == Stage(n, k)
           Goal(f) == f = [j \in 0 .. Len(list.next) |->
             IF j = 0 THEN 1
             ELSE IF list.next[f[j - 1]] = 0 THEN f[j - 1] ELSE list.last[f[j - 1]]]
           c == CHOOSE f : Goal(f)
           g == [j \in 0 .. n |-> IF j = 0 THEN 1 ELSE k + 1]
<1>1. k \in Nat /\ 1 \in 1 .. n /\ k + 1 \in 1 .. n /\ ~(k + 1 <= k)
  OBVIOUS
<1>2. /\ Len(list.next) = n
      /\ \A i \in 1 .. n : list.next[i] = IF i <= k THEN i + 1 ELSE 0
      /\ \A i \in 1 .. n : list.last[i] =
           IF i = 1 /\ k >= 1 THEN k + 1 ELSE IF i <= k THEN i + 1 ELSE 0
  BY <1>1, StageTyped
<1> HIDE DEF list
<1>3. list.next[k + 1] = 0 /\ (list.next[1] = 0 => k = 0) /\ (k >= 1 => list.last[1] = k + 1)
  BY <1>1, <1>2
\* From the first stream it is a step to the last, where Append stays.
<1>4. ASSUME NEW v, v = 1 \/ v = k + 1
      PROVE  (IF list.next[v] = 0 THEN v ELSE list.last[v]) = k + 1
  <2>1. CASE v = k + 1
    BY <1>3, <2>1
  <2>2. CASE v = 1 /\ k # 0
    BY <1>1, <1>3, <2>2
  <2>3. CASE v = 1 /\ k = 0
    <3>1. v = k + 1
      BY <2>3
    <3> QED BY <2>1, <3>1
  <2> QED BY <1>4, <2>1, <2>2, <2>3
<1>5. Goal(g)
  <2>1. ASSUME NEW j \in 0 .. n
        PROVE  g[j] = IF j = 0 THEN 1
                      ELSE IF list.next[g[j - 1]] = 0 THEN g[j - 1] ELSE list.last[g[j - 1]]
    <3>1. CASE j = 0
      BY <3>1
    <3>2. CASE j # 0
      <4>1. j - 1 \in 0 .. n
        BY <3>2
      <4>2. g[j - 1] = 1 \/ g[j - 1] = k + 1
        BY <4>1
      <4>3. g[j] = k + 1
        BY <3>2
      <4> HIDE DEF g
      <4> QED BY <1>4, <3>2, <4>2, <4>3
    <3> QED BY <3>1, <3>2
  <2>2. g = [j \in 0 .. n |-> g[j]]
    OBVIOUS
  <2> HIDE DEF g
  <2>3. g = [j \in 0 .. n |->
          IF j = 0 THEN 1 ELSE IF list.next[g[j - 1]] = 0 THEN g[j - 1] ELSE list.last[g[j - 1]]]
    BY <2>1, <2>2
  <2> QED BY <1>2, <2>3
<1>6. Goal(c)
  BY <1>5
<1>7. Passed(list, 1) = c
  BY DEF Passed
<1> HIDE DEF c, g
<1>8. DOMAIN c = 0 .. n /\ c[0] = 1
      /\ \A j \in 1 .. n : c[j] = IF list.next[c[j - 1]] = 0 THEN c[j - 1] ELSE list.last[c[j - 1]]
  <2>1. c = [j \in 0 .. n |->
          IF j = 0 THEN 1 ELSE IF list.next[c[j - 1]] = 0 THEN c[j - 1] ELSE list.last[c[j - 1]]]
    BY <1>2, <1>6
  <2>2. 0 \in 0 .. n /\ \A j \in 1 .. n : j \in 0 .. n /\ j # 0
    OBVIOUS
  <2> QED BY <2>1, <2>2
<1>9. PICK T : T = {j \in Nat : c[j] = IF j = 0 THEN 1 ELSE k + 1}
  OBVIOUS
<1>10. 0 .. n \subseteq T
  <2>1. 0 \in T
    BY <1>8, <1>9
  <2>2. ASSUME NEW j \in 1 .. n, j - 1 \in T
        PROVE  j \in T
    <3>1. c[j - 1] = 1 \/ c[j - 1] = k + 1
      BY <1>9, <2>2
    <3>2. c[j] = k + 1
      BY <1>4, <1>8, <3>1
    <3>3. j \in Nat /\ j # 0
      OBVIOUS
    <3> QED BY <1>9, <3>2, <3>3
  <2> QED BY <2>1, <2>2, UpTo
<1> QED BY <1>7, <1>8, <1>9, <1>10 DEF list

LEMMA AppendStage ==
  ASSUME NEW n \in Nat, NEW k \in 0 .. n - 1
  PROVE  AppendTo(Stage(n, k), 1, k + 2) = Stage(n, k + 1)
<1> DEFINE list == Stage(n, k)
           at == Passed(list, 1)
<1>1. k \in Nat /\ k + 1 \in Nat /\ k + 1 \in 1 .. n /\ n \in 0 .. n /\ n # 0 /\ 0 \in 0 .. n /\ (k + 1) + 1 = k + 2
  OBVIOUS
<1>2. /\ Len(list.next) = n
      /\ DOMAIN list.next = 1 .. n /\ DOMAIN list.last = 1 .. n
      /\ \A i \in 1 .. n : list.next[i] = IF i <= k THEN i + 1 ELSE 0
      /\ \A i \in 1 .. n : list.last[i] =
           IF i = 1 /\ k >= 1 THEN k + 1 ELSE IF i <= k THEN i + 1 ELSE 0
  BY <1>1, StageTyped
<1>3. DOMAIN at = 0 .. n /\ \A j \in 0 .. n : at[j] = IF j = 0 THEN 1 ELSE k + 1
  BY PassedStage
<1>4. AppendTo(list, 1, k + 2) =
        [next |-> [list.next EXCEPT ![at[n]] = k + 2],
         last |-> [f \in 1 .. n |-> IF \E j \in DOMAIN at : at[j] = f THEN k + 2 ELSE list.last[f]]]
  BY <1>2 DEF AppendTo
<1>5. list.next = [i \in 1 .. n |-> IF i <= k THEN i + 1 ELSE 0]
  BY DEF Stage
<1> HIDE DEF at, list
<1>6. at[n] = k + 1 /\ at[0] = 1
  BY <1>1, <1>3
<1>7. \A f : (\E j \in DOMAIN at : at[j] = f) <=> f = 1 \/ f = k + 1
  BY <1>1, <1>3, <1>6
<1>8. [list.next EXCEPT ![k + 1] = k + 2] = [i \in 1 .. n |-> IF i <= k + 1 THEN i + 1 ELSE 0]
  <2>1. ASSUME NEW i \in 1 .. n
        PROVE  (IF i = k + 1 THEN k + 2 ELSE list.next[i]) = IF i <= k + 1 THEN i + 1 ELSE 0
    BY <1>1, <1>2
  <2> QED BY <1>1, <1>2, <2>1
<1>9. ASSUME NEW f \in 1 .. n
      PROVE  (IF f = 1 \/ f = k + 1 THEN k + 2 ELSE list.last[f]) =
               IF f = 1 /\ k + 1 >= 1 THEN (k + 1) + 1 ELSE IF f <= k + 1 THEN f + 1 ELSE 0
  BY <1>1, <1>2
<1>10. [f \in 1 .. n |-> IF \E j \in DOMAIN at : at[j] = f THEN k + 2 ELSE list.last[f]]
         = [f \in 1 .. n |-> IF f = 1 /\ k + 1 >= 1 THEN (k + 1) + 1 ELSE IF f <= k + 1 THEN f + 1 ELSE 0]
  BY <1>7, <1>9
<1>11. AppendTo(list, 1, k + 2) = Stage(n, k + 1)
  BY <1>4, <1>6, <1>8, <1>10 DEF Stage
<1> QED BY <1>11 DEF list

LEMMA AppendedStage ==
  ASSUME NEW n \in Nat \ {0}
  PROVE  \A k \in 0 .. n - 1 : Appended(n)[k] = Stage(n, k)
<1> DEFINE none == [s \in 1 .. n |-> 0]
           Goal(f) == f = [k \in 0 .. n - 1 |-> IF k = 0 THEN [next |-> none, last |-> none]
                                                ELSE AppendTo(f[k - 1], 1, k + 1)]
           c == CHOOSE f : Goal(f)
           g == [k \in 0 .. n - 1 |-> Stage(n, k)]
<1>1. [next |-> none, last |-> none] = Stage(n, 0)
  <2>1. \A i \in 1 .. n : ~(i <= 0) /\ ~(i = 1 /\ 0 >= 1)
    OBVIOUS
  <2>2. none = [i \in 1 .. n |-> IF i <= 0 THEN i + 1 ELSE 0]
    BY <2>1
  <2>3. none = [i \in 1 .. n |-> IF i = 1 /\ 0 >= 1 THEN 0 + 1 ELSE IF i <= 0 THEN i + 1 ELSE 0]
    BY <2>1
  <2> QED BY <2>2, <2>3 DEF Stage
<1> HIDE DEF none
<1>2. ASSUME NEW k \in 1 .. n - 1
      PROVE  AppendTo(Stage(n, k - 1), 1, k + 1) = Stage(n, k)
  <2>1. k - 1 \in 0 .. n - 1 /\ (k - 1) + 2 = k + 1 /\ (k - 1) + 1 = k
    OBVIOUS
  <2>2. AppendTo(Stage(n, k - 1), 1, (k - 1) + 2) = Stage(n, (k - 1) + 1)
    BY <2>1, AppendStage
  <2> QED BY <2>1, <2>2
<1>3. Goal(g)
  <2>1. ASSUME NEW k \in 0 .. n - 1
        PROVE  g[k] = IF k = 0 THEN [next |-> none, last |-> none] ELSE AppendTo(g[k - 1], 1, k + 1)
    <3>1. CASE k = 0
      BY <1>1, <3>1
    <3>2. CASE k # 0
      <4>1. k \in 1 .. n - 1 /\ k - 1 \in 0 .. n - 1
        BY <3>2
      <4>2. g[k - 1] = Stage(n, k - 1) /\ g[k] = Stage(n, k)
        BY <4>1
      <4> QED BY <1>2, <3>2, <4>1, <4>2
    <3> QED BY <3>1, <3>2
  <2>2. g = [k \in 0 .. n - 1 |-> g[k]]
    OBVIOUS
  <2> HIDE DEF g
  <2> QED BY <2>1, <2>2
<1>4. Goal(c)
  BY <1>3
<1>5. Appended(n) = c
  BY DEF Appended, none
<1> HIDE DEF c, g
<1>6. c[0] = Stage(n, 0) /\ \A k \in 1 .. n - 1 : c[k] = AppendTo(c[k - 1], 1, k + 1)
  <2>1. 0 \in 0 .. n - 1 /\ \A k \in 1 .. n - 1 : k \in 0 .. n - 1 /\ k # 0
    OBVIOUS
  <2> QED BY <1>1, <1>4, <2>1
<1>7. PICK T : T = {k \in Nat : c[k] = Stage(n, k)}
  OBVIOUS
<1>8. 0 .. n - 1 \subseteq T
  <2>1. 0 \in T
    BY <1>6, <1>7
  <2>2. ASSUME NEW k \in 1 .. n - 1, k - 1 \in T
        PROVE  k \in T
    <3>1. c[k - 1] = Stage(n, k - 1) /\ k \in Nat
      BY <1>7, <2>2
    <3>2. c[k] = AppendTo(c[k - 1], 1, k + 1)
      BY <1>6
    <3>3. AppendTo(Stage(n, k - 1), 1, k + 1) = Stage(n, k)
      BY <1>2
    <3> QED BY <1>7, <3>1, <3>2, <3>3
  <2>3. n - 1 \in Nat
    OBVIOUS
  <2> QED BY <2>1, <2>2, <2>3, UpTo
<1> QED BY <1>5, <1>7, <1>8

LEMMA AlongStage ==
  ASSUME NEW n \in Nat \ {0}
  PROVE  \A k \in 0 .. n : Along(Stage(n, n - 1))[k] = IF k < n THEN k + 1 ELSE 0
<1> DEFINE list == Stage(n, n - 1)
           Goal(f) == f = [k \in 0 .. Len(list.next) |->
             IF k = 0 THEN 1 ELSE IF f[k - 1] = 0 THEN 0 ELSE list.next[f[k - 1]]]
           c == CHOOSE f : Goal(f)
           g == [k \in 0 .. n |-> IF k < n THEN k + 1 ELSE 0]
<1>1. n - 1 \in Nat
  OBVIOUS
<1>2. Len(list.next) = n /\ \A i \in 1 .. n : list.next[i] = IF i <= n - 1 THEN i + 1 ELSE 0
  BY <1>1, StageTyped
<1> HIDE DEF list
<1>3. ASSUME NEW k \in 1 .. n, NEW v, v = k
      PROVE  (IF v = 0 THEN 0 ELSE list.next[v]) = IF k < n THEN k + 1 ELSE 0
  <2>1. v # 0 /\ (k <= n - 1 <=> k < n)
    BY <1>3
  <2> QED BY <1>2, <1>3, <2>1
<1>4. Goal(g)
  <2>1. ASSUME NEW k \in 0 .. n
        PROVE  g[k] = IF k = 0 THEN 1 ELSE IF g[k - 1] = 0 THEN 0 ELSE list.next[g[k - 1]]
    <3>1. CASE k = 0
      BY <3>1
    <3>2. CASE k # 0
      <4>1. k - 1 \in 0 .. n /\ k - 1 < n /\ (k - 1) + 1 = k /\ k \in 1 .. n
        BY <3>2
      <4>2. g[k - 1] = k /\ g[k] = IF k < n THEN k + 1 ELSE 0
        BY <4>1
      <4> HIDE DEF g
      <4>3. (IF g[k - 1] = 0 THEN 0 ELSE list.next[g[k - 1]]) = IF k < n THEN k + 1 ELSE 0
        BY <1>3, <4>1, <4>2
      <4> QED BY <3>2, <4>2, <4>3
    <3> QED BY <3>1, <3>2
  <2>2. g = [k \in 0 .. n |-> g[k]]
    OBVIOUS
  <2> HIDE DEF g
  <2>3. g = [k \in 0 .. n |-> IF k = 0 THEN 1 ELSE IF g[k - 1] = 0 THEN 0 ELSE list.next[g[k - 1]]]
    BY <2>1, <2>2
  <2> QED BY <1>2, <2>3
<1>5. Goal(c)
  BY <1>4
<1>6. Along(list) = c
  BY DEF Along
<1> HIDE DEF c, g
<1>7. c[0] = 1 /\ \A k \in 1 .. n : c[k] = IF c[k - 1] = 0 THEN 0 ELSE list.next[c[k - 1]]
  <2>1. c = [k \in 0 .. n |-> IF k = 0 THEN 1 ELSE IF c[k - 1] = 0 THEN 0 ELSE list.next[c[k - 1]]]
    BY <1>2, <1>5
  <2>2. 0 \in 0 .. n /\ \A k \in 1 .. n : k \in 0 .. n /\ k # 0
    OBVIOUS
  <2> QED BY <2>1, <2>2
<1>8. PICK T : T = {k \in Nat : c[k] = IF k < n THEN k + 1 ELSE 0}
  OBVIOUS
<1>9. 0 .. n \subseteq T
  <2>1. 0 \in T
    <3>1. 0 < n /\ 0 + 1 = 1
      OBVIOUS
    <3> QED BY <1>7, <1>8, <3>1
  <2>2. ASSUME NEW k \in 1 .. n, k - 1 \in T
        PROVE  k \in T
    <3>1. k - 1 < n /\ (k - 1) + 1 = k /\ k \in Nat
      OBVIOUS
    <3>2. c[k - 1] = k
      BY <1>8, <2>2, <3>1
    <3>3. c[k] = IF k < n THEN k + 1 ELSE 0
      BY <1>3, <1>7, <3>2
    <3> QED BY <1>8, <3>1, <3>3
  <2> QED BY <2>1, <2>2, UpTo
<1> QED BY <1>6, <1>8, <1>9 DEF list

\* The chain is the list of segments itself.
LEMMA ChainIs ==
  ASSUME NEW n \in Nat \ {0}, NEW segments, segments = [i \in 1 .. n |-> segments[i]],
         Len(segments) = n
  PROVE  Chain(segments) = segments
<1>1. n - 1 \in 0 .. n - 1
  OBVIOUS
<1>2. Appended(n)[n - 1] = Stage(n, n - 1)
  BY <1>1, AppendedStage
<1> DEFINE at == Along(Appended(n)[n - 1])
<1>3. ASSUME NEW k \in 1 .. n
      PROVE  at[k - 1] = k /\ at[k - 1] # 0
  <2>1. k - 1 \in 0 .. n /\ k - 1 < n /\ (k - 1) + 1 = k
    OBVIOUS
  <2>2. at[k - 1] = k
    BY <1>2, <2>1, AlongStage
  <2> QED BY <2>2
<1>4. Chain(segments) = [k \in {j \in 1 .. n : at[j - 1] # 0} |-> segments[at[k - 1]]]
  BY DEF Chain
<1> HIDE DEF at
<1>5. {j \in 1 .. n : at[j - 1] # 0} = 1 .. n
  BY <1>3
<1>6. [k \in 1 .. n |-> segments[at[k - 1]]] = [k \in 1 .. n |-> segments[k]]
  BY <1>3
<1> QED BY <1>4, <1>5, <1>6

-----------------------------------------------------------------------------
(* The request, before a byte of it is written.                            *)

LEMMA OneSegment ==
  ASSUME NEW s, Segment(s)
  PROVE  <<s>> \in Seq(Segments) /\ ChainSize(<<s>>) = SegmentSize(s)
<1>1. s \in Segments
  BY SegmentsAre
<1>2. <<s>> \in Seq(Segments) /\ Len(<<s>>) = 1 /\ <<s>>[1] = s
  BY <1>1
<1>3. /\ ChainSizes(<<s>>) \in Seq(Nat) /\ Len(ChainSizes(<<s>>)) = Len(<<s>>)
      /\ \A i \in 1 .. Len(<<s>>) : ChainSizes(<<s>>)[i] = SegmentSize(<<s>>[i])
      /\ ChainSize(<<s>>) = Sum(ChainSizes(<<s>>))
  BY <1>2, ChainTyped
<1>4. Len(ChainSizes(<<s>>)) = 1 /\ ChainSizes(<<s>>)[1] = SegmentSize(s)
  <2>1. 1 \in 1 .. Len(<<s>>)
    BY <1>2
  <2> QED BY <1>2, <1>3, <2>1
<1>5. ChainSize(<<s>>) = ChainSizes(<<s>>)[1]
  BY <1>3, <1>4, SumOne
<1> QED BY <1>2, <1>4, <1>5

\* A chain in front of others.
LEMMA InFront ==
  ASSUME NEW chain \in Seq(Segments), NEW rest \in Lists, NEW list, list = <<chain>> \o rest
  PROVE  list \in Lists /\ Sum(ListSizes(list)) = ChainSize(chain) + Sum(ListSizes(rest))
<1>1. <<chain>> \in Seq(Seq(Segments)) /\ Len(<<chain>>) = 1 /\ <<chain>>[1] = chain
  OBVIOUS
<1>2. rest \in Seq(Seq(Segments)) /\ Len(rest) \in Nat
  BY ListTyped DEF Lists
<1>3. list \in Lists
  BY <1>1, <1>2 DEF Lists
<1>4. Len(list) = Len(rest) + 1 /\ list[1] = chain
      /\ \A i \in 1 .. Len(rest) : list[i + 1] = rest[i]
  <2> DEFINE one == <<chain>>
  <2>1. Len(one \o rest) = Len(one) + Len(rest)
        /\ \A i \in 1 .. Len(one) + Len(rest) :
             (one \o rest)[i] = IF i <= Len(one) THEN one[i] ELSE rest[i - Len(one)]
    BY <1>1, <1>2, ConcatProperties
  <2>2. list = one \o rest
    OBVIOUS
  <2> HIDE DEF one
  <2>3. Len(one) = 1 /\ one[1] = chain
    BY <1>1 DEF one
  <2>4. Len(list) = Len(rest) + 1
        /\ \A i \in 1 .. Len(rest) + 1 : list[i] = IF i <= 1 THEN one[i] ELSE rest[i - 1]
    BY <1>2, <2>1, <2>2, <2>3
  <2>5. 1 \in 1 .. Len(rest) + 1
    BY <1>2
  <2>6. list[1] = chain
    BY <2>3, <2>4, <2>5
  <2>7. ASSUME NEW i \in 1 .. Len(rest)
        PROVE  list[i + 1] = rest[i]
    <3>1. i + 1 \in 1 .. Len(rest) + 1 /\ ~(i + 1 <= 1) /\ (i + 1) - 1 = i
      BY <1>2
    <3> QED BY <2>4, <3>1
  <2> QED BY <2>4, <2>6, <2>7
<1>5. /\ ListSizes(list) \in Seq(Nat) /\ Len(ListSizes(list)) = Len(list)
      /\ \A i \in 1 .. Len(list) : ListSizes(list)[i] = ChainSize(list[i])
  BY <1>3, ListTyped
<1>6. /\ ListSizes(rest) \in Seq(Nat) /\ Len(ListSizes(rest)) = Len(rest)
      /\ \A i \in 1 .. Len(rest) : ListSizes(rest)[i] = ChainSize(rest[i])
  BY ListTyped
<1>7. ListSizes(list)[1] = ChainSize(chain)
  <2>1. 1 \in 1 .. Len(list)
    BY <1>2, <1>4
  <2> QED BY <1>4, <1>5, <2>1
<1>8. \A i \in 1 .. Len(ListSizes(rest)) : ListSizes(list)[i + 1] = ListSizes(rest)[i]
  <2>1. ASSUME NEW i \in 1 .. Len(rest)
        PROVE  ListSizes(list)[i + 1] = ListSizes(rest)[i]
    <3>1. i + 1 \in 1 .. Len(list)
      BY <1>2, <1>4
    <3> QED BY <1>4, <1>5, <1>6, <3>1
  <2> QED BY <1>6, <2>1
<1>9. Len(ListSizes(list)) = Len(ListSizes(rest)) + 1
  BY <1>4, <1>5, <1>6
<1>10. Sum(ListSizes(list)) = ListSizes(list)[1] + Sum(ListSizes(rest))
  BY <1>5, <1>6, <1>8, <1>9, SumFront
<1> QED BY <1>3, <1>7, <1>10

LEMMA SequenceOf ==
  ASSUME NEW n \in Nat, NEW S, NEW s, s = [i \in 1 .. n |-> s[i]], \A i \in 1 .. n : s[i] \in S
  PROVE  s \in Seq(S) /\ Len(s) = n
<1>1. s \in [1 .. n -> S]
  OBVIOUS
<1>2. s \in Seq(S)
  BY <1>1, SeqDef
<1>3. DOMAIN s = 1 .. Len(s) /\ Len(s) \in Nat /\ DOMAIN s = 1 .. n
  BY <1>1, <1>2, SeqDomain
<1> DEFINE m == Len(s)
<1>4. m \in Nat /\ 1 .. m = 1 .. n
  BY <1>3
<1> HIDE DEF m
<1>5. m = n
  BY <1>4
<1> QED BY <1>2, <1>5 DEF m

\* Chains of one segment each.
LEMMA OneEach ==
  ASSUME NEW n \in Nat, NEW segments, NEW rest, rest = [i \in 1 .. n |-> <<segments[i]>>],
         \A i \in 1 .. n : Segment(segments[i])
  PROVE  rest \in Lists /\ ListSizes(rest) = [i \in 1 .. n |-> SegmentSize(segments[i])]
<1>1. \A i \in 1 .. n : rest[i] \in Seq(Segments) /\ ChainSize(rest[i]) = SegmentSize(segments[i])
  BY OneSegment
<1>2. rest = [i \in 1 .. n |-> rest[i]] /\ DOMAIN rest = 1 .. n
  OBVIOUS
<1>3. rest \in [1 .. n -> Seq(Segments)]
  BY <1>1
<1>4. rest \in Lists
  BY <1>3, SeqDef DEF Lists
<1> QED BY <1>1, <1>2, <1>4 DEF ListSizes

\* One chain.
LEMMA OneChain ==
  ASSUME NEW chain \in Seq(Segments)
  PROVE  <<chain>> \in Lists /\ Sum(ListSizes(<<chain>>)) = ChainSize(chain)
<1> DEFINE list == <<chain>>
<1>1. list \in Lists /\ Len(list) = 1 /\ list[1] = chain
  BY DEF Lists
<1> HIDE DEF list
<1>2. /\ ListSizes(list) \in Seq(Nat) /\ Len(ListSizes(list)) = Len(list)
      /\ \A i \in 1 .. Len(list) : ListSizes(list)[i] = ChainSize(list[i])
  BY <1>1, ListTyped
<1>3. ListSizes(list)[1] = ChainSize(chain)
  <2>1. 1 \in 1 .. Len(list)
    BY <1>1
  <2> QED BY <1>1, <1>2, <2>1
<1>4. Sum(ListSizes(list)) = ChainSize(chain)
  BY <1>1, <1>2, <1>3, SumOne
<1> QED BY <1>1, <1>4 DEF list

\* The spans that are recorded, and how many bytes each announces.
Recorded(n, framing, bodies, eager) == [i \in 1 .. n |-> Span(framing, bodies[i], eager)]
Lengths(n, framing, bodies) == [i \in 1 .. n |-> Length(framing, bodies[i])]

\* The streams of n spans.
Written(n, framing, spans) ==
  IF framing = ChunkFraming THEN [i \in 1 .. n |-> <<spans[i]>>] ELSE <<Chain(spans)>>

\* What is written for the spans has the bytes that their chunks announce.
LEMMA SpansSizes ==
  ASSUME NEW n \in Nat \ {0}, NEW bodies \in [1 .. n -> 1 .. MaxBody],
         NEW framing \in Framings, NEW eager \in BOOLEAN,
         NEW rest, rest = Written(n, framing, Recorded(n, framing, bodies, eager))
  PROVE  /\ rest \in Lists /\ Sum(ListSizes(rest)) = Sum(Lengths(n, framing, bodies))
         /\ Sum(Lengths(n, framing, bodies)) \in Nat
<1> DEFINE spans == Recorded(n, framing, bodies, eager)
           sizes == Lengths(n, framing, bodies)
<1>1. rest = Written(n, framing, spans)
  OBVIOUS
<1>2. spans = [i \in 1 .. n |-> spans[i]] /\ sizes = [i \in 1 .. n |-> sizes[i]]
  BY DEF Recorded, Lengths
<1>3. \A i \in 1 .. n : /\ spans[i] = Span(framing, bodies[i], eager)
                        /\ sizes[i] = Length(framing, bodies[i]) /\ bodies[i] \in 1 .. MaxBody
  BY DEF Recorded, Lengths
<1> HIDE DEF spans, sizes
<1>4. ASSUME NEW i \in 1 .. n
      PROVE  Segment(spans[i]) /\ SegmentSize(spans[i]) = sizes[i] /\ sizes[i] \in Nat
  <2>1. bodies[i] \in 1 .. MaxBody
    OBVIOUS
  <2> QED BY <1>3, <2>1, SpanSegment
<1>5. \A i \in 1 .. n : spans[i] \in Segments
  BY <1>4, SegmentsAre
<1>6. \A i \in 1 .. n : Segment(spans[i])
  BY <1>4
<1>7. n \in Nat
  OBVIOUS
<1>8. spans \in Seq(Segments) /\ Len(spans) = n
  BY <1>5, <1>2, SequenceOf
<1>9. sizes \in Seq(Nat) /\ Len(sizes) = n
  BY <1>4, <1>2, SequenceOf
<1>10. Sum(sizes) \in Nat
  BY <1>9, SumTyped
<1>11. CASE framing = ChunkFraming
  <2>1. rest = [i \in 1 .. n |-> <<spans[i]>>]
    BY <1>11, <1>1 DEF Written
  <2>2. rest \in Lists /\ ListSizes(rest) = [i \in 1 .. n |-> SegmentSize(spans[i])]
    BY <1>6, <1>7, <2>1, OneEach
  <2>3. [i \in 1 .. n |-> SegmentSize(spans[i])] = [i \in 1 .. n |-> sizes[i]]
    BY <1>4
  <2> QED BY <1>2, <1>10, <2>2, <2>3 DEF sizes
<1>12. CASE framing # ChunkFraming
  <2>1. Chain(spans) = spans
    BY <1>2, <1>8, ChainIs
  <2>2. rest = <<spans>>
    BY <1>12, <1>1, <2>1 DEF Written
  <2>3. rest \in Lists /\ Sum(ListSizes(rest)) = ChainSize(spans)
    BY <1>8, <2>2, OneChain
  <2>4. ChainSize(spans) = Sum(ChainSizes(spans))
    BY <1>8, ChainTyped
  <2>5. ChainSizes(spans) = sizes
    <3>1. DOMAIN spans = 1 .. n
      BY <1>8, SeqDomain
    <3>2. [i \in 1 .. n |-> SegmentSize(spans[i])] = [i \in 1 .. n |-> sizes[i]]
      BY <1>4
    <3> QED BY <1>2, <3>1, <3>2 DEF ChainSizes
  <2> QED BY <1>10, <2>3, <2>4, <2>5 DEF sizes
<1> QED BY <1>11, <1>12 DEF sizes

LEMMA FragmentsBegin ==
  ASSUME FragmentsInit
  PROVE  FragmentsInv
<1>1. PICK n \in 1 .. MaxSpans : \E bodies \in [1 .. n -> 1 .. MaxBody],
                                   framing \in Framings, eager \in BOOLEAN :
        /\ streams = << <<Array(HeaderSizes)>> >> \o
                       Written(n, framing, Recorded(n, framing, bodies, eager))
        /\ contents = Contents(streams) /\ written = 0
        /\ announced = Sum(HeaderSizes) + Sum(Lengths(n, framing, bodies))
  BY ZenonT(30) DEF FragmentsInit, Framings, Written, Recorded, Lengths, Length
<1>2. PICK bodies \in [1 .. n -> 1 .. MaxBody], framing \in Framings, eager \in BOOLEAN :
        /\ streams = << <<Array(HeaderSizes)>> >> \o
                       Written(n, framing, Recorded(n, framing, bodies, eager))
        /\ contents = Contents(streams) /\ written = 0
        /\ announced = Sum(HeaderSizes) + Sum(Lengths(n, framing, bodies))
  BY <1>1
<1> DEFINE rest == Written(n, framing, Recorded(n, framing, bodies, eager))
           sizes == Lengths(n, framing, bodies)
           headers == <<Array(HeaderSizes)>>
<1>3. /\ streams = <<headers>> \o rest
      /\ contents = Contents(streams) /\ written = 0
      /\ announced = Sum(HeaderSizes) + Sum(sizes)
  BY <1>2
<1>4. n \in Nat \ {0}
  BY SizesAssumption
<1>5. rest \in Lists /\ Sum(ListSizes(rest)) = Sum(sizes) /\ Sum(sizes) \in Nat
  BY <1>4, SpansSizes
<1>6. /\ Segment(Array(HeaderSizes)) /\ SegmentSize(Array(HeaderSizes)) = Sum(HeaderSizes)
      /\ Sum(HeaderSizes) \in Nat
  BY SizesAssumption, ArraySegment
<1>7. headers \in Seq(Segments) /\ ChainSize(headers) = Sum(HeaderSizes)
  BY <1>6, OneSegment
<1> HIDE DEF rest, sizes, headers
<1>8. streams \in Lists /\ Sum(ListSizes(streams)) = Sum(HeaderSizes) + Sum(sizes)
  BY <1>3, <1>5, <1>7, InFront
<1>9. Numbered(Contents(streams), Sum(ListSizes(streams))) /\ Sum(ListSizes(streams)) \in Nat
  BY <1>8, ListNumbered
<1>10. announced \in Nat /\ Numbered(contents, announced)
  BY <1>3, <1>8, <1>9
<1>11. After(written, contents) = contents
  BY <1>3, <1>10, AfterZero DEF Numbered
<1>12. written \in Nat
  BY <1>3
<1> QED BY <1>3, <1>8, <1>10, <1>11, <1>12 DEF FragmentsInv

-----------------------------------------------------------------------------

(***************************************************************************)
(* The inductive invariant: every segment stands before its first byte     *)
(* that is not written, the bytes of the request are numbered from 1 to    *)
(* the sum of the sizes in the headers, and what the streams hold is what  *)
(* remains of them (Write, FragmentInputStream's Consume and Seek).        *)
(***************************************************************************)
THEOREM FragmentsHold == FragmentsSpec => []FragmentsInv
<1>1. FragmentsInit => FragmentsInv
  BY FragmentsBegin
<1>2. FragmentsInv /\ [FragmentsNext]_fragmentVars => FragmentsInv'
  BY FragmentsStep
<1> QED BY <1>1, <1>2, PTL DEF FragmentsSpec

(***************************************************************************)
(* However Write is cut short, and however often, the streams hold the     *)
(* request's bytes that are not written yet, in their order.               *)
(***************************************************************************)
THEOREM UnwrittenLeft == FragmentsSpec => []UnwrittenIsLeft
<1>1. FragmentsInv => UnwrittenIsLeft
  BY InvUnwritten
<1> QED BY <1>1, FragmentsHold, PTL

(***************************************************************************)
(* num_fragments is the number of fragments that ForEachFragment visits,   *)
(* 0 for a stream without bytes; positions stay inside their blocks.       *)
(***************************************************************************)
THEOREM FragmentsCountedRight == FragmentsSpec => []FragmentsCounted
<1>1. FragmentsInv => FragmentsCounted
  BY InvCounted
<1> QED BY <1>1, FragmentsHold, PTL

-----------------------------------------------------------------------------
USE MaxSizeAssumption, MaxHeadAssumption, NullAssumption

-----------------------------------------------------------------------------
(* CircularBuffer: slots.                                                  *)

(* A multiple of C strictly between -C and C is zero.                      *)
LEMMA MultipleBelow ==
  ASSUME NEW C \in Nat \ {0}, NEW d \in Int, C * d < C, C * d > 0 - C
  PROVE  d = 0
<1>1. CASE d >= 1
  <2>1. C * d = C + C * (d - 1)
    OBVIOUS
  <2>2. C * (d - 1) >= 0
    BY <1>1
  <2> QED
    BY <2>1, <2>2
<1>2. CASE d <= 0 - 1
  <2>1. C * d = (0 - C) - C * ((0 - d) - 1)
    OBVIOUS
  <2>2. C * ((0 - d) - 1) >= 0
    BY <1>2
  <2> QED
    BY <2>1, <2>2
<1> QED
  BY <1>1, <1>2

(* Every sequence number has a slot in the array.                          *)
LEMMA SlotType ==
  ASSUME NEW i \in Nat
  PROVE  Slot(i) \in Slots
  BY DEF Slot, Slots, Capacity

(* Two sequence numbers less than Capacity apart have different slots.     *)
LEMMA SlotApart ==
  ASSUME NEW i \in Nat, NEW j \in Nat, i < j, j - i < Capacity
  PROVE  Slot(i) # Slot(j)
<1> DEFINE qi == i \div Capacity
           qj == j \div Capacity
<1>1. Capacity \in Nat \ {0}
  BY DEF Capacity
<1>2. /\ i = Capacity * qi + (i % Capacity) /\ qi \in Int
      /\ j = Capacity * qj + (j % Capacity) /\ qj \in Int
  BY <1>1
<1>3. SUFFICES ASSUME (i % Capacity) = (j % Capacity)
               PROVE  FALSE
  BY DEF Slot
<1>4. j - i = Capacity * (qj - qi)
  BY <1>1, <1>2, <1>3
<1>5. qj - qi = 0
  <2>1. qj - qi \in Int /\ Capacity * (qj - qi) < Capacity
        /\ Capacity * (qj - qi) > 0 - Capacity
    BY <1>1, <1>2, <1>4
  <2> HIDE DEF qi, qj
  <2> QED
    BY <1>1, <2>1, MultipleBelow
<1> QED
  BY <1>1, <1>4, <1>5

(* A lap of the array comes back to the same slot.                         *)
LEMMA SlotLap ==
  ASSUME NEW i \in Nat
  PROVE  Slot(i + Capacity) = Slot(i)
<1> DEFINE q == i \div Capacity
           r == i % Capacity
<1>1. Capacity \in Nat \ {0}
  BY DEF Capacity
<1>2. i = Capacity * q + r /\ q \in Int /\ r \in 0..(Capacity - 1)
  BY <1>1
<1> DEFINE q2 == (i + Capacity) \div Capacity
           r2 == (i + Capacity) % Capacity
<1>3. /\ i + Capacity = Capacity * q2 + r2
      /\ q2 \in Int /\ r2 \in 0..(Capacity - 1)
  BY <1>1
<1>4. r2 - r = Capacity * (q + 1 - q2)
  BY <1>1, <1>2, <1>3
<1>5. q + 1 - q2 = 0
  <2>1. /\ q + 1 - q2 \in Int
        /\ Capacity * (q + 1 - q2) < Capacity
        /\ Capacity * (q + 1 - q2) > 0 - Capacity
    BY <1>1, <1>2, <1>3, <1>4
  <2> HIDE DEF q, q2
  <2> QED
    BY <1>1, <2>1, MultipleBelow
<1>6. r2 = r
  BY <1>1, <1>2, <1>3, <1>4, <1>5
<1> QED
  BY <1>6 DEF Slot

-----------------------------------------------------------------------------
(* The inductive invariant                                                 *)

(* The empty buffer satisfies the inductive invariant.                     *)
LEMMA InitIndInv == Init => IndInv
<1> SUFFICES ASSUME Init
             PROVE  IndInv
  OBVIOUS
<1> QED
  BY DEF Init, IndInv, TypeOK, SizeBound, PublishedNonNull, ClaimsExclusive,
         NothingStranded, SingleOwner, LocalsConsistent, Claiming, Capacity

(* A step of a producer that touches neither the array nor the counters.   *)
LEMMA LocalStep ==
  ASSUME IndInv, NEW p \in Producers,
         UNCHANGED <<data, head, tail, from>>, TypeOK',
         LocalsConsistent', SingleOwner',
         \A q \in Producers : Claiming(q)' = Claiming(q),
         \A q \in Producers : Claiming(q) => h'[q] = h[q]
  PROVE  IndInv'
<1>1. SizeBound'
  BY DEF IndInv, SizeBound, Capacity
<1>2. PublishedNonNull'
  BY DEF IndInv, PublishedNonNull, Slot, Capacity
<1>3. ClaimsExclusive'
  BY DEF IndInv, ClaimsExclusive, PublishedSlots, Slot, Capacity
<1>4. NothingStranded'
  BY DEF IndInv, NothingStranded, PublishedSlots, Slot, Capacity, Slots
<1> QED
  BY <1>1, <1>2, <1>3, <1>4 DEF IndInv

(* A new call brings an element that nobody owns yet.                      *)
LEMMA BeginAddInd ==
  ASSUME IndInv, NEW p \in Producers, NEW e \in Elements, BeginAdd(p, e)
  PROVE  IndInv'
<1> USE DEF IndInv, BeginAdd
<1>1. TypeOK'
  BY DEF TypeOK
<1>2. LocalsConsistent'
  BY DEF TypeOK, LocalsConsistent, Claiming
<1>3. SingleOwner'
  BY DEF TypeOK, SingleOwner, Live
<1>4. \A q \in Producers : Claiming(q)' = Claiming(q) /\ h'[q] = h[q]
  BY DEF TypeOK, Claiming
<1> QED
  BY <1>1, <1>2, <1>3, <1>4, LocalStep

(* Reading tail_ again changes nothing but a local.                        *)
LEMMA ReadTailInd ==
  ASSUME IndInv, NEW p \in Producers, ReadTail(p)
  PROVE  IndInv'
<1> USE DEF IndInv, ReadTail
<1>1. TypeOK'
  BY DEF TypeOK
<1>2. LocalsConsistent'
  BY DEF TypeOK, LocalsConsistent, Claiming
<1>3. SingleOwner'
  BY DEF SingleOwner, Slots
<1>4. \A q \in Producers : Claiming(q)' = Claiming(q) /\ h'[q] = h[q]
  BY DEF TypeOK, Claiming
<1> QED
  BY <1>1, <1>2, <1>3, <1>4, LocalStep

(* The room a producer computes was there: its tail is an old one.         *)
LEMMA ReadHeadInd ==
  ASSUME IndInv, NEW p \in Producers, ReadHead(p)
  PROVE  IndInv'
<1> USE DEF IndInv, ReadHead
<1>1. TypeOK'
  BY DEF TypeOK
<1>2. LocalsConsistent'
  BY DEF TypeOK, LocalsConsistent, Claiming
<1>3. SingleOwner'
  BY DEF SingleOwner, Slots
<1>4. \A q \in Producers : Claiming(q)' = Claiming(q)
                           /\ (Claiming(q) => h'[q] = h[q])
  BY DEF TypeOK, Claiming
<1> QED
  BY <1>1, <1>2, <1>3, <1>4, LocalStep

(* A refused element leaves the buffer as it was.                          *)
LEMMA ReturnFullInd ==
  ASSUME IndInv, NEW p \in Producers, ReturnFull(p)
  PROVE  IndInv'
<1> USE DEF IndInv, ReturnFull
<1>1. TypeOK'
  BY DEF TypeOK
<1>2. LocalsConsistent'
  BY DEF TypeOK, LocalsConsistent, Claiming
<1>3. SingleOwner'
  BY DEF TypeOK, SingleOwner, Slots
<1>4. \A q \in Producers : Claiming(q)' = Claiming(q)
                           /\ (Claiming(q) => h'[q] = h[q])
  BY DEF TypeOK, Claiming
<1> QED
  BY <1>1, <1>2, <1>3, <1>4, LocalStep

(* A failed claim leaves the element with the producer.                    *)
LEMMA SwapFailsInd ==
  ASSUME IndInv, NEW p \in Producers, SwapFails(p)
  PROVE  IndInv'
<1> USE DEF IndInv, SwapFails
<1>1. TypeOK'
  BY DEF TypeOK
<1>2. LocalsConsistent'
  BY DEF TypeOK, LocalsConsistent, Claiming
<1>3. SingleOwner'
  BY DEF SingleOwner, Slots
<1>4. \A q \in Producers : Claiming(q)' = Claiming(q) /\ h'[q] = h[q]
  BY DEF TypeOK, Claiming
<1> QED
  BY <1>1, <1>2, <1>3, <1>4, LocalStep

(* A claim whose advance failed is still a claim, to be undone.            *)
LEMMA AdvanceFailsInd ==
  ASSUME IndInv, NEW p \in Producers, AdvanceFails(p)
  PROVE  IndInv'
<1> USE DEF IndInv, AdvanceFails
<1>1. TypeOK'
  BY DEF TypeOK
<1>2. LocalsConsistent'
  BY DEF TypeOK, LocalsConsistent, Claiming
<1>3. SingleOwner'
  BY DEF SingleOwner, Slots
<1>4. \A q \in Producers : Claiming(q)' = Claiming(q) /\ h'[q] = h[q]
  BY DEF TypeOK, Claiming
<1> QED
  BY <1>1, <1>2, <1>3, <1>4, LocalStep

(* The slot claimed is nobody's: it is empty, so not published.            *)
LEMMA SwapIfNullInd ==
  ASSUME IndInv, NEW p \in Producers, SwapIfNull(p)
  PROVE  IndInv'
<1> USE DEF IndInv, SwapIfNull
<1> DEFINE s == Slot(h[p])
<1>1. s \in Slots /\ data[s] = Null /\ ptr[p] # Null /\ ptr[p] \in Elements
  BY SlotType DEF TypeOK, LocalsConsistent, Claiming
<1>2. TypeOK'
  BY <1>1 DEF TypeOK
<1>3. SizeBound'
  BY DEF SizeBound, Capacity
<1>4. PublishedSlots' = PublishedSlots
  BY DEF PublishedSlots, Slot, Capacity
<1>5. s \notin PublishedSlots
  BY <1>1 DEF PublishedNonNull, PublishedSlots
<1>6. PublishedNonNull'
  BY <1>1, <1>5, SlotType DEF PublishedNonNull, PublishedSlots, TypeOK
<1>7. \A q \in Producers \ {p} :
        /\ Claiming(q)' = Claiming(q)
        /\ Claiming(q) => Slot(h[q]) # s
  BY <1>1 DEF Claiming, ClaimsExclusive, TypeOK
<1>8. ClaimsExclusive'
  BY <1>1, <1>4, <1>5, <1>7, SlotType DEF ClaimsExclusive, TypeOK
<1>9. NothingStranded'
  BY <1>1, <1>4, <1>7 DEF NothingStranded, TypeOK, Claiming
<1>10. SingleOwner'
  BY <1>1 DEF SingleOwner, TypeOK
<1>11. LocalsConsistent'
  BY <1>1 DEF LocalsConsistent, TypeOK, Claiming
<1> QED
  BY <1>2, <1>3, <1>6, <1>8, <1>9, <1>10, <1>11

(* Publishing: the slot of head holds the element, for the claimer's head  *)
(* is the current one, and no published slot is reused.                    *)
LEMMA AdvanceHeadInd ==
  ASSUME IndInv, NEW p \in Producers, AdvanceHead(p)
  PROVE  IndInv'
<1> USE DEF IndInv, AdvanceHead
<1> DEFINE s == Slot(head)
<1>1. s \in Slots /\ data[s] # Null /\ s \notin PublishedSlots
  BY SlotType DEF TypeOK, ClaimsExclusive, Claiming
<1>2. TypeOK'
  BY DEF TypeOK
<1>3. head - tail < MaxSize
  BY DEF TypeOK, LocalsConsistent
<1>4. head - from < Capacity
  <2>1. SUFFICES ASSUME head - from = Capacity
                 PROVE  FALSE
    BY DEF SizeBound, TypeOK, Capacity
  <2>2. from \in Nat /\ head = from + Capacity /\ from \in from..(head - 1)
    BY <2>1 DEF TypeOK, Capacity
  <2>3. Slot(head) = Slot(from)
    BY <2>2, SlotLap
  <2> QED
    BY <1>1, <2>2, <2>3 DEF PublishedSlots
<1>5. SizeBound'
  BY <1>3, <1>4 DEF SizeBound, TypeOK, Capacity
<1>6. PublishedSlots' = PublishedSlots \cup {s}
  <2>1. from..(head' - 1) = (from..(head - 1)) \cup {head}
    BY DEF SizeBound, TypeOK
  <2> QED
    BY <2>1 DEF PublishedSlots, Slot, Capacity
<1>7. PublishedNonNull'
  BY <1>1 DEF PublishedNonNull, SizeBound, TypeOK, Slot, Capacity
<1>8. \A q \in Producers :
        /\ Claiming(q)' = (Claiming(q) /\ q # p)
        /\ Claiming(q) /\ q # p => Slot(h[q]) # s
  BY DEF Claiming, ClaimsExclusive, TypeOK
<1>9. ClaimsExclusive'
  BY <1>6, <1>8 DEF ClaimsExclusive, Slot, Capacity
<1>10. NothingStranded'
  BY <1>6, <1>8 DEF NothingStranded, Slots, Slot, Capacity
<1>11. SingleOwner'
  BY DEF SingleOwner, TypeOK, Slots
<1>12. LocalsConsistent'
  BY DEF LocalsConsistent, TypeOK, Claiming
<1> QED
  BY <1>2, <1>5, <1>7, <1>9, <1>10, <1>11, <1>12

(* The element taken back is the producer's own.                           *)
LEMMA UndoSwapInd ==
  ASSUME IndInv, NEW p \in Producers, UndoSwap(p)
  PROVE  IndInv'
<1> USE DEF IndInv, UndoSwap
<1> DEFINE s == Slot(h[p])
<1>1. /\ s \in Slots /\ data[s] # Null /\ data[s] \in Elements
      /\ ptr[p] = Null /\ s \notin PublishedSlots
  BY SlotType DEF TypeOK, ClaimsExclusive, Claiming, LocalsConsistent
<1>2. TypeOK'
  BY <1>1 DEF TypeOK
<1>3. SizeBound'
  BY DEF SizeBound, Capacity
<1>4. PublishedSlots' = PublishedSlots
  BY DEF PublishedSlots, Slot, Capacity
<1>5. PublishedNonNull'
  BY <1>1, SlotType DEF PublishedNonNull, PublishedSlots, TypeOK
<1>6. \A q \in Producers :
        /\ Claiming(q)' = (Claiming(q) /\ q # p)
        /\ Claiming(q) /\ q # p => Slot(h[q]) # s
  BY DEF Claiming, ClaimsExclusive, TypeOK
<1>7. ClaimsExclusive'
  BY <1>1, <1>4, <1>6, SlotType DEF ClaimsExclusive, TypeOK
<1>8. NothingStranded'
  BY <1>1, <1>4, <1>6 DEF NothingStranded, TypeOK
<1>9. SingleOwner'
  BY <1>1 DEF SingleOwner, TypeOK
<1>10. LocalsConsistent'
  BY <1>1 DEF LocalsConsistent, TypeOK, Claiming
<1> QED
  BY <1>2, <1>3, <1>5, <1>7, <1>8, <1>9, <1>10

(* Advancing tail_ keeps the slots in the consumer's hands.                *)
LEMMA ConsumeStartInd ==
  ASSUME IndInv, NEW n \in 1..(head - tail), ConsumeStart(n)
  PROVE  IndInv'
<1> USE DEF IndInv, ConsumeStart
<1>1. TypeOK' /\ SizeBound'
  BY DEF TypeOK, SizeBound, Capacity
<1>2. PublishedNonNull'
  BY DEF PublishedNonNull, Slot, Capacity
<1>3. PublishedSlots' = PublishedSlots
  BY DEF PublishedSlots, Slot, Capacity
<1>4. ClaimsExclusive' /\ NothingStranded'
  BY <1>3 DEF ClaimsExclusive, NothingStranded, Claiming, Slots, Slot, Capacity
<1>5. SingleOwner'
  BY DEF SingleOwner, Slots
<1>6. LocalsConsistent'
  BY DEF LocalsConsistent, TypeOK, Claiming
<1> QED
  BY <1>1, <1>2, <1>4, <1>5, <1>6

(* The slot emptied is the consumer's and no claim's.                      *)
LEMMA ConsumeSlotInd ==
  ASSUME IndInv, ConsumeSlot
  PROVE  IndInv'
<1> USE DEF IndInv, ConsumeSlot
<1> DEFINE s == Slot(from)
<1>1. s \in Slots /\ from \in Nat /\ from \in from..(head - 1)
  BY SlotType DEF TypeOK, SizeBound
<1>2. TypeOK'
  BY <1>1 DEF TypeOK
<1>3. SizeBound'
  BY <1>1 DEF TypeOK, SizeBound, Capacity
<1>4. \A i \in (from + 1)..(head - 1) : i \in Nat /\ Slot(i) # s
  BY <1>1, SlotApart DEF TypeOK, SizeBound, Capacity
<1>5. PublishedNonNull'
  <2>1. SUFFICES ASSUME NEW i \in (from + 1)..(head - 1)
                 PROVE  data'[Slot(i)] # Null
    BY DEF PublishedNonNull, Slot, Capacity
  <2>2. i \in from..(head - 1) /\ i \in Nat /\ Slot(i) \in Slots
    BY <1>1, SlotType DEF TypeOK
  <2>3. data'[Slot(i)] = data[Slot(i)]
    BY <1>1, <1>4, <2>2 DEF TypeOK
  <2> QED
    BY <2>2, <2>3 DEF PublishedNonNull
<1>6. PublishedSlots = PublishedSlots' \cup {s} /\ s \notin PublishedSlots'
  <2>1. from..(head - 1) = ((from + 1)..(head - 1)) \cup {from}
    BY <1>1 DEF TypeOK, SizeBound
  <2>2. PublishedSlots' = {Slot(i) : i \in (from + 1)..(head - 1)}
    BY DEF PublishedSlots, Slot, Capacity
  <2> QED
    BY <2>1, <2>2, <1>4 DEF PublishedSlots
<1>7. ClaimsExclusive'
  BY <1>1, <1>6, SlotType
  DEF ClaimsExclusive, Claiming, TypeOK, Slot, Capacity
<1>8. NothingStranded'
  BY <1>1, <1>6 DEF NothingStranded, Claiming, TypeOK, Slots, Slot, Capacity
<1>9. SingleOwner'
  BY <1>1 DEF SingleOwner, TypeOK, Slots
<1>10. LocalsConsistent'
  BY DEF LocalsConsistent, TypeOK, Claiming
<1> QED
  BY <1>2, <1>3, <1>5, <1>7, <1>8, <1>9, <1>10

(* Steps that change nothing keep the invariant.                           *)
LEMMA StutterInd ==
  ASSUME IndInv, UNCHANGED vars
  PROVE  IndInv'
  BY DEF IndInv, vars, TypeOK, SizeBound, PublishedNonNull, ClaimsExclusive,
         NothingStranded, SingleOwner, LocalsConsistent, PublishedSlots,
         Claiming, Slots, Slot, Capacity

(* Every step keeps the inductive invariant.                               *)
LEMMA NextIndInv == IndInv /\ [Next]_vars => IndInv'
<1> SUFFICES ASSUME IndInv, [Next]_vars
             PROVE  IndInv'
  OBVIOUS
<1>1. ASSUME NEW p \in Producers, Producer(p)
      PROVE  IndInv'
  BY <1>1, BeginAddInd, ReadTailInd, ReadHeadInd, ReturnFullInd,
     SwapIfNullInd, SwapFailsInd, AdvanceHeadInd, AdvanceFailsInd,
     UndoSwapInd DEF Producer
<1>2. CASE Consumer
  BY <1>2, ConsumeStartInd, ConsumeSlotInd DEF Consumer
<1>3. CASE Finished \/ UNCHANGED vars
  BY <1>3, StutterInd DEF Finished
<1> QED
  BY <1>1, <1>2, <1>3 DEF Next

(***************************************************************************)
(* Safety of the buffer: the inductive invariant, and with it each of the  *)
(* invariants, holds in every reachable state.                             *)
(***************************************************************************)
THEOREM BufferSafe == Spec => []IndInv
  BY InitIndInv, NextIndInv, PTL DEF Spec

(* Every variable keeps its type.                                          *)
THEOREM TypeCorrect == Spec => []TypeOK
<1>1. IndInv => TypeOK
  BY DEF IndInv
<1> QED
  BY <1>1, BufferSafe, PTL

(* Never more than MaxSize elements, and no lapping of the consumer.       *)
THEOREM NeverOverfull == Spec => []SizeBound
<1>1. IndInv => SizeBound
  BY DEF IndInv
<1> QED
  BY <1>1, BufferSafe, PTL

(* Peek and Consume never meet a null pointer.                             *)
THEOREM ConsumerSeesElements == Spec => []PublishedNonNull
<1>1. IndInv => PublishedNonNull
  BY DEF IndInv
<1> QED
  BY <1>1, BufferSafe, PTL

(* Every element has exactly one owner.                                    *)
THEOREM OwnershipUnique == Spec => []SingleOwner
<1>1. IndInv => SingleOwner
  BY DEF IndInv
<1> QED
  BY <1>1, BufferSafe, PTL

(* A failed Add leaves nothing in the array.                               *)
THEOREM NoLeak == Spec => []NothingStranded
<1>1. IndInv => NothingStranded
  BY DEF IndInv
<1> QED
  BY <1>1, BufferSafe, PTL

-----------------------------------------------------------------------------
(* What Peek can see does not change                                       *)

(* No step touches the slot of an element that stays in the buffer.        *)
LEMMA StepStable ==
  ASSUME IndInv, [Next]_vars, NEW i \in tail..(head - 1), i >= tail'
  PROVE  data'[Slot(i)] = data[Slot(i)]
<1> USE DEF IndInv
<1>1. /\ i \in Nat /\ i \in from..(head - 1)
      /\ Slot(i) \in Slots /\ Slot(i) \in PublishedSlots
      /\ data[Slot(i)] # Null
  BY SlotType DEF TypeOK, SizeBound, PublishedSlots, PublishedNonNull
<1>2. ASSUME NEW p \in Producers, SwapIfNull(p)
      PROVE  data'[Slot(i)] = data[Slot(i)]
  BY <1>1, <1>2, SlotType DEF SwapIfNull, TypeOK
<1>3. ASSUME NEW p \in Producers, UndoSwap(p)
      PROVE  data'[Slot(i)] = data[Slot(i)]
  BY <1>1, <1>3, SlotType DEF UndoSwap, TypeOK, ClaimsExclusive, Claiming
<1>4. CASE ConsumeSlot
  <2>1. Slot(from) # Slot(i)
    BY <1>1, <1>4, SlotApart DEF ConsumeSlot, TypeOK, SizeBound, Capacity
  <2> QED
    BY <1>1, <1>4, <2>1 DEF ConsumeSlot, TypeOK
<1>5. ASSUME NEW p \in Producers,
             \/ \E e \in Elements : BeginAdd(p, e)
             \/ ReadTail(p) \/ ReadHead(p) \/ ReturnFull(p)
             \/ SwapFails(p) \/ AdvanceHead(p) \/ AdvanceFails(p)
      PROVE  data' = data
  BY <1>5 DEF BeginAdd, ReadTail, ReadHead, ReturnFull, SwapFails,
              AdvanceHead, AdvanceFails
<1>6. CASE (\E n \in 1..(head - tail) : ConsumeStart(n)) \/ Finished
           \/ UNCHANGED vars
  BY <1>6 DEF ConsumeStart, Finished, vars
<1> QED
  BY <1>2, <1>3, <1>4, <1>5, <1>6 DEF Next, Producer, Consumer

(* An element Peek has returned stays in its slot until it is consumed.    *)
THEOREM PeekStable == Spec => PublishedStable
<1>1. IndInv /\ [Next]_vars =>
        [\A i \in tail..(head - 1) :
           i >= tail' => data'[Slot(i)] = data[Slot(i)]]_vars
  BY StepStable
<1> QED
  BY <1>1, BufferSafe, PTL DEF Spec, PublishedStable

-----------------------------------------------------------------------------
(* The buffer implements the bounded queue                                 *)

(* The queue of a buffer is a sequence with head - tail elements.          *)
LEMMA QueueType ==
  IndInv => /\ QueueOf \in Seq(Elements)
            /\ Len(QueueOf) = head - tail
            /\ \A i \in 1..(head - tail) :
                 QueueOf[i] = data[Slot(tail + i - 1)]
<1> USE DEF IndInv
<1> SUFFICES ASSUME IndInv
             PROVE  /\ QueueOf \in Seq(Elements)
                    /\ Len(QueueOf) = head - tail
                    /\ \A i \in 1..(head - tail) :
                         QueueOf[i] = data[Slot(tail + i - 1)]
  OBVIOUS
<1>1. head - tail \in Nat
  BY DEF TypeOK, SizeBound
<1>2. ASSUME NEW i \in 1..(head - tail)
      PROVE  data[Slot(tail + i - 1)] \in Elements
  <2>1. tail + i - 1 \in from..(head - 1) /\ tail + i - 1 \in Nat
    BY DEF TypeOK, SizeBound
  <2> QED
    BY <2>1, SlotType DEF TypeOK, PublishedNonNull
<1> QED
  BY <1>1, <1>2 DEF QueueOf

(* That is still so after a step.                                          *)
LEMMA QueueTypeNext ==
  IndInv' => (QueueOf \in Seq(Elements) /\ Len(QueueOf) = head - tail)'
<1>1. IndInv => QueueOf \in Seq(Elements) /\ Len(QueueOf) = head - tail
  BY QueueType
<1> QED
  BY <1>1, PTL

(* Steps that leave the counters alone leave the queue alone.              *)
LEMMA QueueSame ==
  ASSUME IndInv, [Next]_vars, head' = head, tail' = tail
  PROVE  QueueOf' = QueueOf
<1>1. ASSUME NEW i \in 1..(head - tail)
      PROVE  data'[Slot(tail + i - 1)] = data[Slot(tail + i - 1)]
  <2>1. tail + i - 1 \in tail..(head - 1)
    BY DEF IndInv, TypeOK, SizeBound
  <2> QED
    BY <2>1, StepStable DEF IndInv, TypeOK
<1>2. QueueOf' = [i \in 1..(head - tail) |-> data'[Slot(tail + i - 1)]]
  BY DEF QueueOf, Slot, Capacity
<1> QED
  BY <1>1, <1>2 DEF QueueOf

(* A producer offers an element exactly while it is in Add.                *)
LEMMA OfferedNull ==
  ASSUME IndInv, NEW p \in Producers
  PROVE  Offered(p) = Null <=> pc[p] = "idle"
  BY DEF IndInv, LocalsConsistent, ClaimsExclusive, Offered, Claiming

(* The mapped variables, by name.                                          *)
OfferedBy == [p \in Producers |-> Offered(p)]
SeenByAll == [p \in Producers |-> SeenBy(p)]

(* The empty buffer is the empty queue.                                    *)
LEMMA InitQueue == Init => Queue!Init
<1> SUFFICES ASSUME Init
             PROVE  Queue!Init
  OBVIOUS
<1>1. QueueOf = << >>
  <2>1. QueueOf = [i \in 1..0 |-> data[Slot(tail + i - 1)]]
    BY DEF Init, QueueOf
  <2>2. QueueOf \in Seq(Elements) /\ Len(QueueOf) = 0
    BY InitIndInv, QueueType DEF Init
  <2> QED
    BY <2>2
<1>2. OfferedBy = [p \in Producers |-> Null]
  BY DEF Init, OfferedBy, Offered, Claiming
<1>3. SeenByAll = [p \in Producers |-> 0]
  BY DEF Init, SeenByAll, SeenBy
<1> QED
  BY <1>1, <1>2, <1>3 DEF Queue!Init, OfferedBy, SeenByAll

(* A new call of Add offers its element to the queue.                      *)
LEMMA BeginAddQueue ==
  ASSUME IndInv, NEW p \in Producers, NEW e \in Elements, BeginAdd(p, e)
  PROVE  Queue!Offer(p, e)
<1>1. Next
  BY DEF Next, Producer
<1>2. QueueOf' = QueueOf /\ Len(QueueOf) = head - tail
  BY <1>1, QueueSame, QueueType DEF BeginAdd
<1>3. OfferedBy[p] = Null
  BY OfferedNull DEF BeginAdd, OfferedBy
<1>4. OfferedBy' = [OfferedBy EXCEPT ![p] = e]
  BY DEF OfferedBy, Offered, Claiming, BeginAdd, IndInv, TypeOK, Slot, Capacity
<1>5. SeenByAll' = [SeenByAll EXCEPT ![p] = head - tail]
  BY DEF SeenByAll, SeenBy, BeginAdd, IndInv, TypeOK
<1> QED
  BY <1>2, <1>3, <1>4, <1>5 DEF Queue!Offer, OfferedBy, SeenByAll

(* A new iteration of Add looks at the queue again.                        *)
LEMMA ReadTailQueue ==
  ASSUME IndInv, NEW p \in Producers, ReadTail(p)
  PROVE  Queue!Retry(p)
<1>1. Next
  BY DEF Next, Producer
<1>2. QueueOf' = QueueOf /\ Len(QueueOf) = head - tail
  BY <1>1, QueueSame, QueueType DEF ReadTail
<1>3. OfferedBy[p] # Null
  BY OfferedNull DEF ReadTail, OfferedBy
<1>4. OfferedBy' = OfferedBy
  BY DEF OfferedBy, Offered, Claiming, ReadTail, IndInv, TypeOK, Slot, Capacity
<1>5. SeenByAll' = [SeenByAll EXCEPT ![p] = head - tail]
  BY DEF SeenByAll, SeenBy, ReadTail, IndInv, TypeOK
<1> QED
  BY <1>2, <1>3, <1>4, <1>5 DEF Queue!Retry, OfferedBy, SeenByAll

(* Add returns false only when the queue may refuse.                       *)
LEMMA ReturnFullQueue ==
  ASSUME IndInv, NEW p \in Producers, ReturnFull(p)
  PROVE  Queue!Refuse(p)
<1>1. Next
  BY DEF Next, Producer
<1>2. QueueOf' = QueueOf
  BY <1>1, QueueSame DEF ReturnFull
<1>3. OfferedBy[p] # Null
  BY OfferedNull DEF ReturnFull, OfferedBy
<1>4. SeenByAll[p] >= MaxSize
  BY DEF ReturnFull, SeenByAll, SeenBy
<1>5. OfferedBy' = [OfferedBy EXCEPT ![p] = Null]
  BY DEF OfferedBy, Offered, Claiming, ReturnFull, IndInv, TypeOK, Slot, Capacity
<1>6. SeenByAll' = [SeenByAll EXCEPT ![p] = 0]
  BY DEF SeenByAll, SeenBy, ReturnFull, IndInv, TypeOK
<1> QED
  BY <1>2, <1>3, <1>4, <1>5, <1>6 DEF Queue!Refuse, OfferedBy, SeenByAll

(* The moment an element is accepted: head moves over its slot.            *)
LEMMA AdvanceHeadQueue ==
  ASSUME IndInv, NEW p \in Producers, AdvanceHead(p)
  PROVE  Queue!Accept(p)
<1> DEFINE e == data[Slot(head)]
<1>0. IndInv' /\ head - tail \in Nat
  BY AdvanceHeadInd DEF IndInv, TypeOK, SizeBound
<1>1. OfferedBy[p] # Null /\ OfferedBy[p] = e
  BY OfferedNull DEF AdvanceHead, OfferedBy, Offered, Claiming
<1>2. Len(QueueOf) < MaxSize
  BY QueueType DEF AdvanceHead, IndInv, LocalsConsistent, TypeOK
<1>3. QueueOf' = Append(QueueOf, e)
  <2>1. /\ QueueOf' \in Seq(Elements)
        /\ Len(QueueOf') = head - tail + 1
        /\ QueueOf \in Seq(Elements)
        /\ Len(QueueOf) = head - tail
    <3>1. /\ QueueOf' \in Seq(Elements)
          /\ Len(QueueOf') = head' - tail'
      BY <1>0, QueueTypeNext
    <3> QED
      BY <3>1, <1>0, QueueType DEF AdvanceHead, IndInv, TypeOK
  <2>2. e \in Elements
    BY <1>1, SlotType DEF IndInv, TypeOK, OfferedBy
  <2>3. ASSUME NEW i \in 1..(head - tail + 1)
        PROVE  QueueOf'[i] = data[Slot(tail + i - 1)]
    <3>1. data' = data /\ head' = head + 1 /\ tail' = tail
      BY DEF AdvanceHead
    <3>2. QueueOf' = [j \in 1..(head' - tail') |-> data'[Slot(tail' + j - 1)]]
      BY DEF QueueOf, Slot, Capacity
    <3>3. i \in 1..(head' - tail')
      BY <3>1 DEF IndInv, TypeOK
    <3> QED
      BY <3>1, <3>2, <3>3
  <2>4. ASSUME NEW i \in 1..(head - tail + 1)
        PROVE  QueueOf'[i] = Append(QueueOf, e)[i]
    <3>0. /\ head \in Nat /\ tail \in Nat
          /\ QueueOf'[i] = data[Slot(tail + i - 1)]
      BY <2>3 DEF IndInv, TypeOK
    <3>1. CASE i = head - tail + 1
      <4>1. tail + i - 1 = head
        BY <3>0, <3>1
      <4>2. Append(QueueOf, e)[i] = e
        BY <2>1, <2>2, <3>1
      <4> QED
        BY <3>0, <4>1, <4>2
    <3>2. CASE i \in 1..(head - tail)
      <4>1. Append(QueueOf, e)[i] = QueueOf[i]
        BY <2>1, <2>2, <3>2
      <4> QED
        BY <3>0, <3>2, <4>1, QueueType
    <3>3. i = head - tail + 1 \/ i \in 1..(head - tail)
      BY <1>0
    <3> QED
      BY <3>1, <3>2, <3>3
  <2> QED
    BY <2>1, <2>2, <2>4
<1>4. OfferedBy' = [OfferedBy EXCEPT ![p] = Null]
  BY DEF OfferedBy, Offered, Claiming, AdvanceHead, IndInv, TypeOK, Slot, Capacity
<1>5. SeenByAll' = [q \in Producers |->
                      IF q = p \/ OfferedBy[q] = Null THEN 0
                                                     ELSE SeenByAll[q] + 1]
  <2>1. ASSUME NEW q \in Producers
        PROVE  SeenBy(q)' = IF q = p \/ OfferedBy[q] = Null THEN 0
                                                    ELSE SeenByAll[q] + 1
    BY OfferedNull
    DEF SeenByAll, SeenBy, OfferedBy, AdvanceHead, IndInv, TypeOK
  <2> QED
    BY <2>1 DEF SeenByAll
<1> QED
  BY <1>1, <1>2, <1>3, <1>4, <1>5 DEF Queue!Accept, OfferedBy, SeenByAll

(* Advancing tail_ takes the oldest elements off the queue.                *)
LEMMA ConsumeStartQueue ==
  ASSUME IndInv, NEW n \in 1..(head - tail), ConsumeStart(n)
  PROVE  Queue!Consume(n)
<1>0. IndInv' /\ head - tail \in Nat
  BY ConsumeStartInd DEF IndInv, TypeOK, SizeBound
<1>1. QueueOf' = SubSeq(QueueOf, n + 1, Len(QueueOf))
  <2>1. /\ QueueOf \in Seq(Elements)
        /\ Len(QueueOf) = head - tail
        /\ \A i \in 1..(head - tail) : QueueOf[i] = data[Slot(tail + i - 1)]
    BY QueueType
  <2>2. QueueOf' = [i \in 1..(head - (tail + n)) |->
                      data[Slot((tail + n) + i - 1)]]
    BY DEF QueueOf, ConsumeStart, Slot, Capacity
  <2>3. SubSeq(QueueOf, n + 1, Len(QueueOf))
          = [i \in 1..((head - tail) - n) |-> QueueOf[n + i]]
    BY <1>0, <2>1
  <2>4. ASSUME NEW i \in 1..((head - tail) - n)
        PROVE  QueueOf[n + i] = data[Slot((tail + n) + i - 1)]
    <3>1. n + i \in 1..(head - tail) /\ tail + (n + i) - 1 = (tail + n) + i - 1
      BY <1>0 DEF IndInv, TypeOK
    <3> QED
      BY <2>1, <3>1
  <2>5. (head - tail) - n = head - (tail + n)
    BY DEF IndInv, TypeOK
  <2> QED
    BY <2>2, <2>3, <2>4, <2>5
<1>2. OfferedBy' = OfferedBy /\ SeenByAll' = SeenByAll
  BY DEF OfferedBy, Offered, Claiming, SeenByAll, SeenBy, ConsumeStart,
         Slot, Capacity
<1> QED
  BY <1>1, <1>2 DEF Queue!Consume, OfferedBy, SeenByAll

(* Putting an element into a slot, taking it back, and emptying slots is   *)
(* invisible: the queue and the offers do not change.                      *)
LEMMA SilentQueue ==
  ASSUME IndInv,
         \/ \E p \in Producers : \/ ReadHead(p) \/ SwapIfNull(p)
                                 \/ SwapFails(p) \/ AdvanceFails(p)
                                 \/ UndoSwap(p)
         \/ ConsumeSlot
         \/ UNCHANGED vars
  PROVE  UNCHANGED <<QueueOf, OfferedBy, SeenByAll>>
<1>1. [Next]_vars
  BY DEF Next, Producer, Consumer
<1>2. QueueOf' = QueueOf
  BY <1>1, QueueSame DEF ReadHead, SwapIfNull, SwapFails, AdvanceFails,
                         UndoSwap, ConsumeSlot, vars
<1>3. ASSUME NEW q \in Producers
      PROVE  Offered(q)' = Offered(q) /\ SeenBy(q)' = SeenBy(q)
  <2>1. ASSUME NEW p \in Producers,
               ReadHead(p) \/ SwapFails(p) \/ AdvanceFails(p)
        PROVE  Offered(q)' = Offered(q) /\ SeenBy(q)' = SeenBy(q)
    BY <2>1 DEF ReadHead, SwapFails, AdvanceFails, Offered, Claiming, SeenBy,
                IndInv, TypeOK, Slot, Capacity
  <2>2. ASSUME NEW p \in Producers, SwapIfNull(p)
        PROVE  Offered(q)' = Offered(q) /\ SeenBy(q)' = SeenBy(q)
    <3>1. Slot(h[p]) \in Slots /\ ptr[p] # Null
      BY <2>2, SlotType
      DEF SwapIfNull, IndInv, TypeOK, LocalsConsistent, Claiming
    <3>2. q # p /\ Claiming(q) => Slot(h[q]) # Slot(h[p]) /\ Slot(h[q]) \in Slots
      BY <2>2, SlotType
      DEF SwapIfNull, IndInv, TypeOK, ClaimsExclusive
    <3> QED
      BY <2>2, <3>1, <3>2 DEF SwapIfNull, Offered, Claiming, SeenBy,
                              IndInv, TypeOK, Slot, Capacity
  <2>3. ASSUME NEW p \in Producers, UndoSwap(p)
        PROVE  Offered(q)' = Offered(q) /\ SeenBy(q)' = SeenBy(q)
    <3>1. Slot(h[p]) \in Slots
      BY SlotType DEF IndInv, TypeOK
    <3>2. q # p /\ Claiming(q) => Slot(h[q]) # Slot(h[p]) /\ Slot(h[q]) \in Slots
      BY <2>3, SlotType
      DEF UndoSwap, IndInv, TypeOK, ClaimsExclusive, Claiming
    <3> QED
      BY <2>3, <3>1, <3>2 DEF UndoSwap, Offered, Claiming, SeenBy,
                              IndInv, TypeOK, Slot, Capacity
  <2>4. CASE ConsumeSlot
    <3>1. Slot(from) \in PublishedSlots
      BY <2>4 DEF ConsumeSlot, PublishedSlots, IndInv, TypeOK, SizeBound
    <3>2. Claiming(q) => Slot(h[q]) # Slot(from) /\ Slot(h[q]) \in Slots
      BY <3>1, SlotType DEF IndInv, TypeOK, ClaimsExclusive
    <3> QED
      BY <2>4, <3>2 DEF ConsumeSlot, Offered, Claiming, SeenBy,
                        IndInv, TypeOK, Slot, Capacity
  <2>5. CASE UNCHANGED vars
    BY <2>5 DEF vars, Offered, Claiming, SeenBy, Slot, Capacity
  <2> QED
    BY <2>1, <2>2, <2>3, <2>4, <2>5
<1> QED
  BY <1>2, <1>3 DEF OfferedBy, SeenByAll

(* Every step of the buffer is a step of the queue, or none.               *)
LEMMA StepQueue == IndInv /\ [Next]_vars => [Queue!Next]_(Queue!vars)
<1> SUFFICES ASSUME IndInv, [Next]_vars
             PROVE  Queue!Next \/ UNCHANGED <<QueueOf, OfferedBy, SeenByAll>>
  BY DEF Queue!vars, OfferedBy, SeenByAll
<1>1. ASSUME NEW p \in Producers, Producer(p)
      PROVE  Queue!Next \/ UNCHANGED <<QueueOf, OfferedBy, SeenByAll>>
  BY <1>1, BeginAddQueue, ReadTailQueue, ReturnFullQueue, AdvanceHeadQueue,
     SilentQueue DEF Producer, Queue!Next
<1>2. ASSUME NEW n \in 1..(head - tail), ConsumeStart(n)
      PROVE  Queue!Next
  BY <1>2, ConsumeStartQueue, QueueType DEF Queue!Next
<1>3. CASE Finished \/ UNCHANGED vars
  BY <1>3, SilentQueue DEF Finished
<1> QED
  BY <1>1, <1>2, <1>3, SilentQueue DEF Next, Consumer

(***************************************************************************)
(* The buffer is a bounded first-in first-out queue with many producers,   *)
(* for any number of producers, any size and any elements.                 *)
(***************************************************************************)
THEOREM BufferIsQueue == Spec => ImplementsQueue
  BY InitQueue, StepQueue, BufferSafe, PTL DEF Spec, ImplementsQueue, Queue!Spec
=============================================================================
