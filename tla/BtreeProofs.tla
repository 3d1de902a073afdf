---------------------------- MODULE BtreeProofs -----------------------------
(***************************************************************************)
(* Proofs about Btree: the cache and the blocks, the tree, the order of    *)
(* the keys, and that the calls are those of a dictionary.                 *)
(***************************************************************************)
EXTENDS Btree, FiniteSetTheorems, SequenceTheorems, NaturalsInduction,
        WellFoundedInduction, TLAPS

-----------------------------------------------------------------------------
(* Sequences. *)

LEMMA Joined ==
    ASSUME NEW S, NEW a \in Seq(S), NEW c \in Seq(S)
    PROVE  /\ a \o c \in Seq(S)
           /\ Len(a \o c) = Len(a) + Len(c)
           /\ \A j \in 1 .. Len(a) : (a \o c)[j] = a[j]
           /\ \A j \in Len(a) + 1 .. Len(a) + Len(c) : (a \o c)[j] = c[j - Len(a)]
<1>1. /\ a \o c \in Seq(S) /\ Len(a \o c) = Len(a) + Len(c)
      /\ \A j \in 1 .. Len(a) + Len(c) :
            (a \o c)[j] = IF j <= Len(a) THEN a[j] ELSE c[j - Len(a)]
  BY ConcatProperties
<1>2. Len(a) \in Nat /\ Len(c) \in Nat
  OBVIOUS
<1> QED
  BY <1>1, <1>2

LEMMA RemoveAtFacts ==
    ASSUME NEW S, NEW s \in Seq(S), NEW i \in 1 .. Len(s)
    PROVE  /\ RemoveAt(s, i) \in Seq(S)
           /\ Len(RemoveAt(s, i)) = Len(s) - 1
           /\ \A j \in 1 .. Len(s) - 1 : RemoveAt(s, i)[j] = IF j < i THEN s[j] ELSE s[j + 1]
<1> DEFINE a == SubSeq(s, 1, i - 1)
           c == SubSeq(s, i + 1, Len(s))
<1>1. a \in Seq(S) /\ Len(a) = i - 1 /\ \A j \in 1 .. i - 1 : a[j] = s[j]
  BY SubSeqProperties
<1>2. c \in Seq(S) /\ Len(c) = Len(s) - i /\ \A j \in 1 .. Len(s) - i : c[j] = s[i + j]
  BY SubSeqProperties
<1> HIDE DEF a, c
<1>n. Len(s) \in Nat
  OBVIOUS
<1>3. /\ a \o c \in Seq(S) /\ Len(a \o c) = Len(a) + Len(c)
      /\ \A j \in 1 .. Len(a) : (a \o c)[j] = a[j]
      /\ \A j \in Len(a) + 1 .. Len(a) + Len(c) : (a \o c)[j] = c[j - Len(a)]
  BY <1>1, <1>2, Joined, ZenonT(60)
<1>4. a \o c \in Seq(S) /\ Len(a \o c) = Len(s) - 1
  BY <1>1, <1>2, <1>3, <1>n
<1>5. \A j \in 1 .. Len(s) - 1 : (a \o c)[j] = IF j < i THEN s[j] ELSE s[j + 1]
  <2>1. ASSUME NEW j \in 1 .. Len(s) - 1, j < i PROVE (a \o c)[j] = s[j]
    BY <1>1, <1>3, <1>n, <2>1
  <2>2. ASSUME NEW j \in 1 .. Len(s) - 1, ~(j < i) PROVE (a \o c)[j] = s[j + 1]
    <3>1. j \in Len(a) + 1 .. Len(a) + Len(c) /\ j - Len(a) \in 1 .. Len(s) - i
      BY <1>1, <1>2, <1>n, <2>2
    <3>2. (a \o c)[j] = c[j - Len(a)] /\ c[j - Len(a)] = s[i + (j - Len(a))]
      BY <1>2, <1>3, <3>1
    <3> QED
      BY <1>1, <1>n, <3>1, <3>2
  <2> QED
    BY <2>1, <2>2
<1>6. RemoveAt(s, i) = a \o c
  BY DEF RemoveAt, a, c
<1> QED
  BY <1>4, <1>5, <1>6

LEMMA InsertAtFacts ==
    ASSUME NEW S, NEW s \in Seq(S), NEW i \in 1 .. Len(s) + 1, NEW e \in S
    PROVE  /\ InsertAt(s, i, e) \in Seq(S)
           /\ Len(InsertAt(s, i, e)) = Len(s) + 1
           /\ \A j \in 1 .. Len(s) + 1 :
                 InsertAt(s, i, e)[j] = IF j < i THEN s[j] ELSE IF j = i THEN e ELSE s[j - 1]
<1> DEFINE a == SubSeq(s, 1, i - 1)
           d == <<e>>
           c == SubSeq(s, i, Len(s))
<1>1. a \in Seq(S) /\ Len(a) = i - 1 /\ \A j \in 1 .. i - 1 : a[j] = s[j]
  BY SubSeqProperties
<1>2. c \in Seq(S) /\ Len(c) = Len(s) + 1 - i /\ \A j \in 1 .. Len(s) + 1 - i : c[j] = s[i + j - 1]
  <2>1. CASE i = Len(s) + 1
    <3>1. c = << >>
      BY <2>1 DEF c
    <3> QED
      BY <2>1, <3>1
  <2>2. CASE i # Len(s) + 1
    BY <2>2, SubSeqProperties
  <2> QED
    BY <2>1, <2>2
<1>d. d \in Seq(S) /\ Len(d) = 1 /\ d[1] = e
  OBVIOUS
<1> HIDE DEF a, c, d
<1>n. Len(s) \in Nat
  OBVIOUS
<1>3. /\ a \o d \in Seq(S) /\ Len(a \o d) = Len(a) + Len(d)
      /\ \A j \in 1 .. Len(a) : (a \o d)[j] = a[j]
      /\ \A j \in Len(a) + 1 .. Len(a) + Len(d) : (a \o d)[j] = d[j - Len(a)]
  BY <1>1, <1>d, Joined
<1>4. /\ Len(a \o d) = i /\ (a \o d)[i] = e
      /\ \A j \in 1 .. i - 1 : (a \o d)[j] = s[j]
  BY <1>1, <1>d, <1>3, <1>n
<1> DEFINE ad == a \o d
<1>a. ad \in Seq(S)
  BY <1>3
<1> HIDE DEF ad
<1>5. /\ ad \o c \in Seq(S) /\ Len(ad \o c) = Len(ad) + Len(c)
      /\ \A j \in 1 .. Len(ad) : (ad \o c)[j] = ad[j]
      /\ \A j \in Len(ad) + 1 .. Len(ad) + Len(c) : (ad \o c)[j] = c[j - Len(ad)]
  BY <1>2, <1>a, Joined, ZenonT(60)
<1>6. /\ Len(ad) = i /\ ad[i] = e
      /\ \A j \in 1 .. i - 1 : ad[j] = s[j]
  BY <1>4 DEF ad
<1>7. /\ ad \o c \in Seq(S) /\ Len(ad \o c) = Len(s) + 1
      /\ \A j \in 1 .. Len(s) + 1 :
          (ad \o c)[j] = IF j < i THEN s[j] ELSE IF j = i THEN e ELSE s[j - 1]
  <2>1. ad \o c \in Seq(S) /\ Len(ad \o c) = Len(s) + 1
    BY <1>2, <1>5, <1>6, <1>n
  <2>2. ASSUME NEW j \in 1 .. Len(s) + 1, j < i PROVE (ad \o c)[j] = s[j]
    BY <1>5, <1>6, <1>n, <2>2
  <2>3. (ad \o c)[i] = e
    BY <1>5, <1>6, <1>n
  <2>4. ASSUME NEW j \in 1 .. Len(s) + 1, j > i PROVE (ad \o c)[j] = s[j - 1]
    <3>1. /\ j \in Len(ad) + 1 .. Len(ad) + Len(c) /\ j - Len(ad) \in 1 .. Len(s) + 1 - i
          /\ i + (j - Len(ad)) - 1 = j - 1
      BY <1>2, <1>6, <1>n, <2>4
    <3> QED
      BY <1>2, <1>5, <3>1
  <2> QED
    BY <2>1, <2>2, <2>3, <2>4
<1>8. InsertAt(s, i, e) = ad \o c
  BY DEF InsertAt, a, c, d, ad
<1> QED
  BY <1>7, <1>8

\* One more element in front, and of the two halves of a sequence.
LEMMA FrontFacts ==
    ASSUME NEW S, NEW s \in Seq(S), NEW e \in S
    PROVE  /\ <<e>> \o s \in Seq(S)
           /\ Len(<<e>> \o s) = Len(s) + 1
           /\ (<<e>> \o s)[1] = e
           /\ \A j \in 1 .. Len(s) : (<<e>> \o s)[j + 1] = s[j]
<1> DEFINE d == <<e>>
<1>1. d \in Seq(S) /\ Len(d) = 1 /\ d[1] = e
  OBVIOUS
<1> HIDE DEF d
<1>2. /\ d \o s \in Seq(S) /\ Len(d \o s) = Len(d) + Len(s)
      /\ \A j \in 1 .. Len(d) : (d \o s)[j] = d[j]
      /\ \A j \in Len(d) + 1 .. Len(d) + Len(s) : (d \o s)[j] = s[j - Len(d)]
  BY <1>1, Joined
<1>n. Len(s) \in Nat
  OBVIOUS
<1>3. Len(d \o s) = Len(s) + 1 /\ (d \o s)[1] = e
  BY <1>1, <1>2, <1>n
<1>4. \A j \in 1 .. Len(s) : (d \o s)[j + 1] = s[j]
  BY <1>1, <1>2, <1>n
<1> QED
  BY <1>2, <1>3, <1>4 DEF d

-----------------------------------------------------------------------------
(* Numbers, and what is computed in stages. *)

\* A set of natural numbers that is not empty has a least element,
LEMMA LeastElement ==
    ASSUME NEW S \in SUBSET Nat, S # {}
    PROVE  \E n \in S : \A m \in S : n <= m
<1> DEFINE R == {ss \in Nat \X Nat : ss[1] < ss[2]}
<1>1. IsWellFoundedOn(R, Nat)
  BY NatLessThanWellFounded DEF OpToRel
<1> HIDE DEF R
<1>2. PICK n \in S : \A m \in S : ~(<<m, n>> \in R)
  BY <1>1, WFMin
<1>3. \A m \in S : ~(m < n)
  BY <1>2 DEF R
<1> QED
  BY <1>3

\* and if it is bounded, a greatest one.
LEMMA GreatestElement ==
    ASSUME NEW N \in Nat, NEW S \in SUBSET (1 .. N), S # {}
    PROVE  Max(S) \in S /\ \A m \in S : Max(S) >= m
<1> DEFINE T == {n \in Nat : N - n \in S}
<1>1. PICK x \in S : TRUE
  OBVIOUS
<1>2. N - x \in T
  BY <1>1
<1>3. PICK n \in T : \A m \in T : n <= m
  BY <1>2, LeastElement
<1>4. ASSUME NEW m \in S PROVE N - n >= m
  <2>1. N - m \in Nat /\ N - (N - m) = m
    OBVIOUS
  <2>2. N - m \in T
    BY <2>1
  <2> QED
    BY <1>3, <2>1, <2>2
<1>5. \E y \in S : \A m \in S : y >= m
  BY <1>3, <1>4
<1> QED
  BY <1>5 DEF Max

LEMMA LeastIs ==
    ASSUME NEW n \in Nat
    PROVE  Min({n}) = n
<1>1. \E x \in {n} : \A y \in {n} : x =< y
  OBVIOUS
<1> QED
  BY <1>1 DEF Min

\* What is computed in N stages, each from the one before, exists,
Stages(N, a, P, step) ==
    N \in Nat /\ a \in P[0] /\ \A n \in 1 .. N : \A x \in P[n - 1] : step[n][x] \in P[n]

Staged(N, a, P, step, f) ==
    /\ f = [n \in 0 .. N |-> f[n]]
    /\ f[0] = a /\ \A n \in 1 .. N : f[n] = step[n][f[n - 1]]
    /\ \A n \in 0 .. N : f[n] \in P[n]

LEMMA StagesExist ==
    ASSUME NEW N, NEW a, NEW P, NEW step, Stages(N, a, P, step)
    PROVE  \E f : Staged(N, a, P, step, f)
<1> USE DEF Stages, Staged
<1> DEFINE Upto(f, m) == /\ f = [n \in 0 .. m |-> f[n]]
                         /\ f[0] = a /\ \A n \in 1 .. m : f[n] = step[n][f[n - 1]]
                         /\ \A n \in 0 .. m : f[n] \in P[n]
           Bad == {m \in 0 .. N : ~ \E f : Upto(f, m)}
<1> SUFFICES Bad = {}
  BY N \in 0 .. N
<1> SUFFICES ASSUME Bad # {} PROVE FALSE
  OBVIOUS
<1>0. Bad \in SUBSET Nat
  OBVIOUS
<1> HIDE DEF Bad
<1>1. PICK m \in Bad : \A l \in Bad : m <= l
  BY <1>0, LeastElement
<1> USE DEF Bad
<1>2. m # 0
  <2> DEFINE f == [n \in 0 .. 0 |-> a]
  <2>1. f[0] = a /\ f = [n \in 0 .. 0 |-> f[n]] /\ (\A n \in 0 .. 0 : f[n] \in P[n])
    OBVIOUS
  <2>2. \A n \in 1 .. 0 : f[n] = step[n][f[n - 1]]
    OBVIOUS
  <2>3. Upto(f, 0)
    BY <2>1, <2>2
  <2> QED
    BY <2>3
<1>3. m - 1 \in 0 .. N /\ m \in 1 .. N
  BY <1>2
<1>4. PICK g : Upto(g, m - 1)
  BY <1>1, <1>3
<1> DEFINE f == [n \in 0 .. m |-> IF n = m THEN step[m][g[m - 1]] ELSE g[n]]
<1>5. \A n \in 0 .. m - 1 : f[n] = g[n]
  BY <1>3
<1>6. f[m] = step[m][g[m - 1]] /\ f[m - 1] = g[m - 1] /\ g[m - 1] \in P[m - 1]
  BY <1>3, <1>4, <1>5
<1>7. f = [n \in 0 .. m |-> f[n]]
  OBVIOUS
<1> HIDE DEF f
<1>8. f[0] = a
  BY <1>3, <1>4, <1>5
<1>9. \A n \in 1 .. m : f[n] = step[n][f[n - 1]]
  <2> SUFFICES ASSUME NEW n \in 1 .. m PROVE f[n] = step[n][f[n - 1]]
    OBVIOUS
  <2>1. CASE n = m
    BY <1>6, <2>1
  <2>2. CASE n # m
    <3>1. n \in 0 .. m - 1 /\ n - 1 \in 0 .. m - 1 /\ n \in 1 .. m - 1
      BY <1>3, <2>2
    <3>2. f[n] = g[n] /\ f[n - 1] = g[n - 1] /\ g[n] = step[n][g[n - 1]]
      BY <1>4, <1>5, <3>1
    <3> QED
      BY <3>2
  <2> QED
    BY <2>1, <2>2
<1>10. \A n \in 0 .. m : f[n] \in P[n]
  <2> SUFFICES ASSUME NEW n \in 0 .. m PROVE f[n] \in P[n]
    OBVIOUS
  <2>1. CASE n = m
    BY <1>3, <1>6, <2>1
  <2>2. CASE n # m
    <3>1. n \in 0 .. m - 1
      BY <1>3, <2>2
    <3> QED
      BY <1>4, <1>5, <3>1
  <2> QED
    BY <2>1, <2>2
<1> QED
  BY <1>7, <1>8, <1>9, <1>10

\* and what each stage keeps is true of all of them.
LEMMA StagesHold ==
    ASSUME NEW N \in Nat, NEW P, NEW f, f[0] \in P[0],
           \A n \in 1 .. N : f[n - 1] \in P[n - 1] => f[n] \in P[n]
    PROVE  \A n \in 0 .. N : f[n] \in P[n]
<1> DEFINE Bad == {m \in 0 .. N : f[m] \notin P[m]}
<1> SUFFICES ASSUME Bad # {} PROVE FALSE
  OBVIOUS
<1>0. Bad \in SUBSET Nat
  OBVIOUS
<1> HIDE DEF Bad
<1>1. PICK m \in Bad : \A l \in Bad : m <= l
  BY <1>0, LeastElement
<1> USE DEF Bad
<1>2. m \in 1 .. N /\ m - 1 \in 0 .. N
  OBVIOUS
<1>3. m - 1 \notin Bad
  BY <1>1, <1>2
<1>4. f[m - 1] \in P[m - 1]
  BY <1>2, <1>3
<1> QED
  BY <1>2, <1>4

-----------------------------------------------------------------------------
(* The cache.  Its numbers are apart, and no more than Mcache of a bucket. *)

Apart(c) == c \in Seq(Nat) /\ IsInjective(c)

InBucket(c, r) == {x \in ToSet(c) : x % Nhash = r}

BucketsFit(c) == \A r \in Nat : Cardinality(InBucket(c, r)) <= Mcache

LEMMA HashIsNat == \A x \in Nat : x % Nhash \in Nat
BY BtreeAssumption

LEMMA RemovedApart ==
    ASSUME NEW c, Apart(c), NEW i \in DOMAIN c
    PROVE  Apart(RemoveAt(c, i)) /\ ToSet(RemoveAt(c, i)) = ToSet(c) \ {c[i]}
<1>1. c \in Seq(Nat) /\ i \in 1 .. Len(c) /\ DOMAIN c = 1 .. Len(c) /\ Len(c) \in Nat
  BY DEF Apart
<1> DEFINE d == RemoveAt(c, i)
<1>2. /\ d \in Seq(Nat) /\ Len(d) = Len(c) - 1
      /\ \A j \in 1 .. Len(c) - 1 : d[j] = IF j < i THEN c[j] ELSE c[j + 1]
  BY <1>1, RemoveAtFacts
<1> HIDE DEF d
<1> DEFINE from == [j \in 1 .. Len(c) - 1 |-> IF j < i THEN j ELSE j + 1]
<1>3. \A j \in 1 .. Len(c) - 1 : from[j] \in 1 .. Len(c) /\ from[j] # i /\ d[j] = c[from[j]]
  BY <1>1, <1>2, SMTT(60)
<1>4. \A j, k \in 1 .. Len(c) - 1 : from[j] = from[k] => j = k
  BY <1>1
<1>5. ASSUME NEW k \in 1 .. Len(c), k # i PROVE \E j \in 1 .. Len(c) - 1 : from[j] = k
  <2>1. CASE k < i
    BY <1>1, <2>1
  <2>2. CASE k > i
    <3>1. k - 1 \in 1 .. Len(c) - 1 /\ ~(k - 1 < i)
      BY <1>1, <2>2
    <3>2. from[k - 1] = k
      BY <3>1
    <3> QED
      BY <3>1, <3>2
  <2> QED
    BY <1>1, <1>5, <2>1, <2>2
<1> HIDE DEF from
<1>6. \A j, k \in 1 .. Len(c) : c[j] = c[k] => j = k
  BY <1>1 DEF Apart, IsInjective
<1>7. DOMAIN d = 1 .. Len(c) - 1
  BY <1>2
<1>8. IsInjective(d)
  <2> SUFFICES ASSUME NEW j \in 1 .. Len(c) - 1, NEW k \in 1 .. Len(c) - 1, d[j] = d[k]
               PROVE  j = k
    BY <1>7 DEF IsInjective
  <2>1. from[j] \in 1 .. Len(c) /\ from[k] \in 1 .. Len(c) /\ c[from[j]] = c[from[k]]
    BY <1>3
  <2>2. from[j] = from[k]
    BY <1>6, <2>1
  <2> QED
    BY <1>4, <2>2
<1>9. ToSet(d) \subseteq ToSet(c) \ {c[i]}
  BY <1>1, <1>3, <1>6, <1>7, SMTT(60) DEF ToSet
<1>10. ToSet(c) \ {c[i]} \subseteq ToSet(d)
  <2> SUFFICES ASSUME NEW k \in 1 .. Len(c), c[k] # c[i] PROVE c[k] \in ToSet(d)
    BY <1>1 DEF ToSet
  <2>1. PICK j \in 1 .. Len(c) - 1 : from[j] = k
    BY <1>5
  <2>2. d[j] = c[k]
    BY <1>3, <2>1
  <2> QED
    BY <1>7, <2>2 DEF ToSet
<1> QED
  BY <1>2, <1>8, <1>9, <1>10 DEF Apart, d

LEMMA FirstRemoved ==
    ASSUME NEW c, Apart(c), NEW id
    PROVE  Apart(RemoveFirst(c, id)) /\ ToSet(RemoveFirst(c, id)) = ToSet(c) \ {id}
<1>1. DOMAIN c = 1 .. Len(c)
  BY DEF Apart
<1>2. CASE \E i \in 1 .. Len(c) : c[i] = id
  <2>1. PICK i \in 1 .. Len(c) : c[i] = id
    BY <1>2
  <2>2. {j \in 1 .. Len(c) : c[j] = id} = {i}
    BY <1>1, <2>1 DEF Apart, IsInjective
  <2>3. SelectInSeq(c, LAMBDA v : v = id) = Min({i})
    BY <2>2 DEF SelectInSeq
  <2>4. RemoveFirst(c, id) = RemoveAt(c, i)
    BY <1>2, <2>3, LeastIs DEF RemoveFirst
  <2> QED
    BY <1>1, <2>1, <2>4, RemovedApart
<1>3. CASE ~ \E i \in 1 .. Len(c) : c[i] = id
  BY <1>1, <1>3 DEF RemoveFirst, ToSet
<1> QED
  BY <1>2, <1>3

LEMMA PutInFront ==
    ASSUME NEW c, Apart(c), NEW id \in Nat, id \notin ToSet(c)
    PROVE  /\ Apart(<<id>> \o c) /\ ToSet(<<id>> \o c) = ToSet(c) \cup {id}
           /\ Len(<<id>> \o c) = Len(c) + 1
<1> DEFINE d == <<id>> \o c
<1>1. c \in Seq(Nat) /\ DOMAIN c = 1 .. Len(c) /\ Len(c) \in Nat
  BY DEF Apart
<1>2. /\ d \in Seq(Nat) /\ Len(d) = Len(c) + 1 /\ d[1] = id
      /\ \A j \in 1 .. Len(c) : d[j + 1] = c[j]
  BY <1>1, FrontFacts
<1> HIDE DEF d
<1>3. DOMAIN d = 1 .. Len(c) + 1
  BY <1>2
<1>4. \A j \in 2 .. Len(c) + 1 : j - 1 \in 1 .. Len(c) /\ d[j] = c[j - 1]
  <2> SUFFICES ASSUME NEW j \in 2 .. Len(c) + 1
               PROVE  j - 1 \in 1 .. Len(c) /\ d[j] = c[j - 1]
    OBVIOUS
  <2>1. j - 1 \in 1 .. Len(c) /\ (j - 1) + 1 = j
    BY <1>1
  <2> QED
    BY <1>2, <2>1
<1>5. \A j, k \in 1 .. Len(c) : c[j] = c[k] => j = k
  BY <1>1 DEF Apart, IsInjective
<1>6. \A j \in 1 .. Len(c) : c[j] # id
  BY <1>1 DEF ToSet
<1>7. IsInjective(d)
  <2> SUFFICES ASSUME NEW j \in 1 .. Len(c) + 1, NEW k \in 1 .. Len(c) + 1, d[j] = d[k]
               PROVE  j = k
    BY <1>3 DEF IsInjective
  <2>1. CASE j = 1 /\ k # 1
    BY <1>1, <1>2, <1>4, <1>6, <2>1
  <2>2. CASE j # 1 /\ k = 1
    BY <1>1, <1>2, <1>4, <1>6, <2>2
  <2>3. CASE j # 1 /\ k # 1
    <3>1. j - 1 = k - 1
      BY <1>1, <1>4, <1>5, <2>3
    <3> QED
      BY <1>1, <3>1
  <2> QED
    BY <2>1, <2>2, <2>3
<1>8. ToSet(d) \subseteq ToSet(c) \cup {id}
  <2> SUFFICES ASSUME NEW j \in 1 .. Len(c) + 1 PROVE d[j] \in ToSet(c) \cup {id}
    BY <1>3 DEF ToSet
  <2>1. CASE j = 1
    BY <1>2, <2>1
  <2>2. CASE j # 1
    <3>1. j - 1 \in 1 .. Len(c) /\ d[j] = c[j - 1]
      BY <1>1, <1>4, <2>2
    <3> QED
      BY <1>1, <3>1 DEF ToSet
  <2> QED
    BY <2>1, <2>2
<1>9. ToSet(c) \cup {id} \subseteq ToSet(d)
  <2>1. id \in ToSet(d)
    BY <1>1, <1>2, <1>3 DEF ToSet
  <2>2. ASSUME NEW j \in 1 .. Len(c) PROVE c[j] \in ToSet(d)
    <3>1. j + 1 \in 1 .. Len(c) + 1
      BY <1>1
    <3> QED
      BY <1>2, <1>3, <3>1 DEF ToSet
  <2> QED
    BY <1>1, <2>1, <2>2 DEF ToSet
<1> QED
  BY <1>2, <1>7, <1>8, <1>9 DEF Apart, d

\* A bucket has as many places as numbers.
LEMMA BucketSize ==
    ASSUME NEW c, Apart(c), NEW r
    PROVE  /\ IsFiniteSet(InBucket(c, r)) /\ Cardinality(InBucket(c, r)) \in Nat
           /\ Cardinality({i \in DOMAIN c : c[i] % Nhash = r}) = Cardinality(InBucket(c, r))
<1> DEFINE B == {i \in DOMAIN c : c[i] % Nhash = r}
           T == InBucket(c, r)
           f == [i \in B |-> c[i]]
<1>1. IsFiniteSet(B)
  <2>1. DOMAIN c = 1 .. Len(c) /\ Len(c) \in Nat
    BY DEF Apart
  <2>2. IsFiniteSet(1 .. Len(c))
    BY <2>1, FS_Interval
  <2>3. B \in SUBSET (1 .. Len(c))
    BY <2>1
  <2> QED
    BY <2>2, <2>3, FS_Subset
<1>2. f \in [B -> T] /\ \A t \in T : \E i \in B : f[i] = t
  BY DEF InBucket, ToSet
<1>3. \A i, j \in B : f[i] = f[j] => i = j
  BY DEF Apart, IsInjective
<1> HIDE DEF B, T
<1>4. f \in Surjection(B, T) /\ f \in Injection(B, T)
  BY <1>2, <1>3 DEF Surjection, Injection, IsInjective
<1> HIDE DEF f
<1>5. IsFiniteSet(T) /\ Cardinality(T) = Cardinality(B)
  BY <1>1, <1>4, FS_Surjection
<1>6. Cardinality(T) \in Nat
  BY <1>5, FS_CardinalityType
<1> QED
  BY <1>5, <1>6 DEF B, T

-----------------------------------------------------------------------------
(* What a Btree is made of. *)

Item == [key : Key, val : Val \cup Nat]
Ents == Seq(Item)
Blocks == UNION {[S -> Ents] : S \in SUBSET Nat}
Heads == [cnt : Nat, head : Nat, H : Nat]
BtRecord == [cnt : Nat, head : Nat, H : Nat, hdr : Heads, mem : Blocks, cache : Seq(Nat),
             dirty : Seq(Nat), file : Blocks]

\* The tree, its blocks and its file are as they were, the cache may differ.
OnlyCache(b, g) ==
    /\ g \in BtRecord /\ g.cnt = b.cnt /\ g.head = b.head /\ g.H = b.H /\ g.hdr = b.hdr
    /\ g.mem = b.mem /\ g.dirty = b.dirty /\ g.file = b.file

LEMMA CacheSet ==
    ASSUME NEW b \in BtRecord, NEW c \in Seq(Nat)
    PROVE  LET g == [b EXCEPT !.cache = c] IN OnlyCache(b, g) /\ g.cache = c
BY DEF BtRecord, OnlyCache

LEMMA UsedFacts ==
    ASSUME NEW b \in BtRecord, Apart(b.cache), NEW id \in Nat
    PROVE  /\ OnlyCache(b, Used(b, id)) /\ Apart(Used(b, id).cache)
           /\ ToSet(Used(b, id).cache) = ToSet(b.cache) \cup {id}
<1> DEFINE c == RemoveFirst(b.cache, id)
<1>1. Apart(c) /\ ToSet(c) = ToSet(b.cache) \ {id}
  BY FirstRemoved
<1> HIDE DEF c
<1>2. id \notin ToSet(c)
  BY <1>1
<1>3. Apart(<<id>> \o c) /\ ToSet(<<id>> \o c) = ToSet(c) \cup {id}
  BY <1>1, <1>2, PutInFront
<1> DEFINE d == <<id>> \o c
<1>4. d \in Seq(Nat)
  BY <1>3 DEF Apart
<1>5. Used(b, id) = [b EXCEPT !.cache = d]
  BY DEF Used, c, d
<1> HIDE DEF d
<1>6. OnlyCache(b, Used(b, id)) /\ Used(b, id).cache = d
  BY <1>4, <1>5, CacheSet
<1>7. ToSet(d) = ToSet(b.cache) \cup {id}
  BY <1>1, <1>3 DEF d
<1> QED
  BY <1>3, <1>6, <1>7 DEF d

LEMMA EvictedFacts ==
    ASSUME NEW b \in BtRecord, Apart(b.cache), NEW id \in Nat, Bucket(b, id) # {}
    PROVE  /\ OnlyCache(b, Evicted(b, id)) /\ Apart(Evicted(b, id).cache)
           /\ \E x \in InBucket(b.cache, id % Nhash) :
                 ToSet(Evicted(b, id).cache) = ToSet(b.cache) \ {x}
<1>1. DOMAIN b.cache = 1 .. Len(b.cache) /\ Len(b.cache) \in Nat
  BY DEF Apart
<1>2. Bucket(b, id) \in SUBSET (1 .. Len(b.cache))
  BY <1>1 DEF Bucket
<1> DEFINE i == Max(Bucket(b, id))
<1>3. i \in Bucket(b, id)
  BY <1>1, <1>2, GreatestElement
<1> HIDE DEF i
<1>4. i \in DOMAIN b.cache /\ b.cache[i] % Nhash = id % Nhash
  BY <1>3 DEF Bucket
<1> DEFINE c == RemoveAt(b.cache, i)
<1>5. Apart(c) /\ ToSet(c) = ToSet(b.cache) \ {b.cache[i]}
  BY <1>4, RemovedApart
<1>6. Evicted(b, id) = [b EXCEPT !.cache = c]
  BY DEF Evicted, i
<1> HIDE DEF c
<1>7. OnlyCache(b, Evicted(b, id)) /\ Evicted(b, id).cache = c
  BY <1>5, <1>6, CacheSet DEF Apart
<1>8. b.cache[i] \in InBucket(b.cache, id % Nhash)
  BY <1>4 DEF InBucket, ToSet
<1> QED
  BY <1>5, <1>7, <1>8

\* A number more in a bucket that has room.
LEMMA RoomForOne ==
    ASSUME NEW c, Apart(c), BucketsFit(c), NEW d, Apart(d), NEW id \in Nat,
           ToSet(d) = ToSet(c) \cup {id},
           id \in ToSet(c) \/ Cardinality(InBucket(c, id % Nhash)) < Mcache
    PROVE  BucketsFit(d)
<1> SUFFICES ASSUME NEW r \in Nat PROVE Cardinality(InBucket(d, r)) <= Mcache
  BY DEF BucketsFit
<1>1. /\ IsFiniteSet(InBucket(c, r)) /\ Cardinality(InBucket(c, r)) \in Nat
      /\ Cardinality(InBucket(c, r)) <= Mcache
  BY BucketSize DEF BucketsFit
<1>2. CASE InBucket(d, r) = InBucket(c, r)
  BY <1>1, <1>2
<1>3. CASE InBucket(d, r) # InBucket(c, r)
  <2>1. InBucket(d, r) = InBucket(c, r) \cup {id} /\ id \notin ToSet(c) /\ id % Nhash = r
    BY <1>3 DEF InBucket
  <2>a. Cardinality(InBucket(c, r) \cup {id}) =
            IF id \in InBucket(c, r) THEN Cardinality(InBucket(c, r))
                                     ELSE Cardinality(InBucket(c, r)) + 1
    BY <1>1, FS_AddElement
  <2>2. Cardinality(InBucket(d, r)) <= Cardinality(InBucket(c, r)) + 1
    BY <1>1, <2>1, <2>a
  <2>3. Cardinality(InBucket(d, r)) \in Nat
    BY BucketSize
  <2> QED
    BY <1>1, <2>1, <2>2, <2>3, BtreeAssumption
<1> QED
  BY <1>2, <1>3

LEMMA CachedFacts ==
    ASSUME NEW b \in BtRecord, Apart(b.cache), BucketsFit(b.cache), NEW id \in Nat
    PROVE  LET g == Cached(b, id)
           IN  /\ OnlyCache(b, g) /\ Apart(g.cache) /\ BucketsFit(g.cache)
               /\ id \in ToSet(g.cache) /\ ToSet(g.cache) \subseteq ToSet(b.cache) \cup {id}
<1> DEFINE g == Cached(b, id)
           r == id % Nhash
<1>1. r \in Nat
  BY HashIsNat
<1>2. Contains(b.cache, id) <=> id \in ToSet(b.cache)
  BY DEF Contains, ToSet, Apart
<1>3. Cardinality(Bucket(b, id)) = Cardinality(InBucket(b.cache, r))
  BY BucketSize DEF Bucket
<1>4. CASE Contains(b.cache, id) \/ Cardinality(Bucket(b, id)) < Mcache
  <2>1. g = Used(b, id)
    BY <1>4 DEF Cached
  <2>2. /\ OnlyCache(b, g) /\ Apart(g.cache)
        /\ ToSet(g.cache) = ToSet(b.cache) \cup {id}
    BY <2>1, UsedFacts
  <2>3. id \in ToSet(b.cache) \/ Cardinality(InBucket(b.cache, r)) < Mcache
    BY <1>2, <1>3, <1>4
  <2> HIDE DEF g
  <2>4. BucketsFit(g.cache)
    BY <2>2, <2>3, RoomForOne
  <2> QED
    BY <2>2, <2>4 DEF g
<1>5. CASE ~(Contains(b.cache, id) \/ Cardinality(Bucket(b, id)) < Mcache)
  <2>1. id \notin ToSet(b.cache) /\ ~(Cardinality(InBucket(b.cache, r)) < Mcache)
    BY <1>2, <1>3, <1>5
  <2>2. Bucket(b, id) # {}
    <3>1. Cardinality({}) = 0 /\ Mcache > 0
      BY FS_EmptySet, BtreeAssumption
    <3> QED
      BY <1>3, <2>1, <3>1
  <2> DEFINE e == Evicted(b, id)
  <2>3. OnlyCache(b, e) /\ Apart(e.cache)
    BY <2>2, EvictedFacts
  <2>4. PICK x \in InBucket(b.cache, r) : ToSet(e.cache) = ToSet(b.cache) \ {x}
    BY <2>2, EvictedFacts
  <2>5. g = Used(e, id)
    BY <1>5 DEF Cached
  <2> HIDE DEF e, g
  <2>6. e \in BtRecord
    BY <2>3 DEF OnlyCache
  <2>7. /\ OnlyCache(e, g) /\ Apart(g.cache)
        /\ ToSet(g.cache) = ToSet(e.cache) \cup {id}
    BY <2>3, <2>5, <2>6, UsedFacts
  <2>8. OnlyCache(b, g)
    BY <2>3, <2>7 DEF OnlyCache
  <2>9. BucketsFit(e.cache) /\ Cardinality(InBucket(e.cache, r)) < Mcache
    <3>1. ASSUME NEW q \in Nat
          PROVE  /\ Cardinality(InBucket(e.cache, q)) <= Mcache
                 /\ q = r => Cardinality(InBucket(e.cache, q)) < Mcache
      <4>1. /\ IsFiniteSet(InBucket(b.cache, q)) /\ Cardinality(InBucket(b.cache, q)) \in Nat
            /\ Cardinality(InBucket(b.cache, q)) <= Mcache
        BY BucketSize DEF BucketsFit
      <4>2. InBucket(e.cache, q) = InBucket(b.cache, q) \ {x}
        BY <2>4 DEF InBucket
      <4>3. Cardinality(InBucket(e.cache, q)) =
                IF x \in InBucket(b.cache, q) THEN Cardinality(InBucket(b.cache, q)) - 1
                                              ELSE Cardinality(InBucket(b.cache, q))
        BY <4>1, <4>2, FS_RemoveElement
      <4> QED
        BY <2>4, <4>1, <4>3, BtreeAssumption
    <3> QED
      BY <1>1, <3>1 DEF BucketsFit
  <2>10. BucketsFit(g.cache)
    BY <2>3, <2>7, <2>9, RoomForOne
  <2> QED
    BY <2>4, <2>7, <2>8, <2>10 DEF g
<1> QED
  BY <1>4, <1>5

-----------------------------------------------------------------------------
(* Blocks in memory and on the file. *)

\* What a block has, wherever it is.
BlockOf(b, id) ==
    IF id \in DOMAIN b.mem THEN b.mem[id]
    ELSE IF id \in DOMAIN b.file THEN b.file[id] ELSE NewBlock

Sane(b) ==
    /\ b \in BtRecord
    /\ DOMAIN b.mem \subseteq 1 .. b.cnt /\ DOMAIN b.file \subseteq 1 .. b.cnt
    /\ ToSet(b.cache) \subseteq DOMAIN b.mem /\ ToSet(b.dirty) \subseteq DOMAIN b.mem
    /\ Apart(b.cache) /\ BucketsFit(b.cache)
    /\ Apart(b.dirty) /\ Len(b.dirty) <= MaxDirty

\* But for those of S, the blocks in memory that are not dirty are on the file.
CleanBut(b, S) ==
    \A id \in DOMAIN b.mem \ (ToSet(b.dirty) \cup S) :
        id \in DOMAIN b.file /\ b.file[id] = b.mem[id]

FitsBut(b, S) ==
    /\ \A id \in DOMAIN b.file : Size(b.file[id]) < BLOCK
    /\ \A id \in DOMAIN b.mem \ S : Size(b.mem[id]) < BLOCK

Layer(b, S, F) == Sane(b) /\ CleanBut(b, S) /\ FitsBut(b, F)

\* The tree is the same: its height, and the entries of every block.
SameTree(b, g) ==
    /\ g.cnt = b.cnt /\ g.head = b.head /\ g.H = b.H
    /\ DOMAIN b.mem \subseteq DOMAIN g.mem
    /\ \A id \in Nat : BlockOf(g, id) = BlockOf(b, id)

LEMMA BlocksAre ==
    ASSUME NEW f \in Blocks
    PROVE  f \in [DOMAIN f -> Ents] /\ DOMAIN f \subseteq Nat
BY DEF Blocks

LEMMA AreBlocks ==
    ASSUME NEW f, NEW S \in SUBSET Nat, f \in [S -> Ents]
    PROVE  f \in Blocks
BY DEF Blocks

LEMMA PutFacts ==
    ASSUME NEW f \in Blocks, NEW id \in Nat, NEW e \in Ents
    PROVE  /\ Put(f, id, e) \in Blocks /\ DOMAIN Put(f, id, e) = DOMAIN f \cup {id}
           /\ Put(f, id, e)[id] = e
           /\ \A x \in DOMAIN f : x # id => Put(f, id, e)[x] = f[x]
<1>1. f \in [DOMAIN f -> Ents] /\ DOMAIN f \cup {id} \subseteq Nat
  BY BlocksAre
<1>2. Put(f, id, e) \in [DOMAIN f \cup {id} -> Ents]
  BY <1>1 DEF Put
<1>3. Put(f, id, e) \in Blocks
  BY <1>1, <1>2, AreBlocks
<1> QED
  BY <1>3 DEF Put

LEMMA NewBlockFits == NewBlock \in Ents /\ Len(NewBlock) = 0 /\ Size(NewBlock) < BLOCK
BY BtreeAssumption DEF NewBlock, Ents, Size

LEMMA MemSet ==
    ASSUME NEW b \in BtRecord, NEW m \in Blocks
    PROVE  LET g == [b EXCEPT !.mem = m]
           IN  /\ g \in BtRecord /\ g.mem = m
               /\ g.cnt = b.cnt /\ g.head = b.head /\ g.H = b.H /\ g.hdr = b.hdr
               /\ g.cache = b.cache /\ g.dirty = b.dirty /\ g.file = b.file
BY DEF BtRecord

\* getblock() brings a block to memory and the cache, and changes none.
LEMMA GetblockFacts ==
    ASSUME NEW b, NEW S, NEW F, Layer(b, S, F), NEW id \in 1 .. b.cnt,
           id \in DOMAIN b.mem => id \notin S
    PROVE  LET g == Getblock(b, id)
           IN  /\ Layer(g, IF id \in DOMAIN b.mem \cup DOMAIN b.file THEN S ELSE S \cup {id}, F)
               /\ SameTree(b, g) /\ g.hdr = b.hdr /\ g.dirty = b.dirty /\ g.file = b.file
               /\ DOMAIN g.mem = DOMAIN b.mem \cup {id}
<1> DEFINE g == Getblock(b, id)
           S2 == IF id \in DOMAIN b.mem \cup DOMAIN b.file THEN S ELSE S \cup {id}
<1>0. /\ Sane(b) /\ CleanBut(b, S) /\ FitsBut(b, F) /\ b \in BtRecord
      /\ Apart(b.cache) /\ BucketsFit(b.cache) /\ b.cnt \in Nat /\ id \in Nat
      /\ b.mem \in Blocks /\ b.file \in Blocks
  BY DEF Layer, Sane, BtRecord
<1>1. CASE Contains(b.cache, id) \/ Contains(b.dirty, id)
  <2>1. id \in DOMAIN b.mem
    BY <1>0, <1>1 DEF Sane, Contains, ToSet, Apart
  <2>2. /\ OnlyCache(b, g) /\ Apart(g.cache) /\ BucketsFit(g.cache)
        /\ ToSet(g.cache) \subseteq ToSet(b.cache) \cup {id}
    <3>1. CASE Contains(b.cache, id)
      <4>1. g = Used(b, id)
        BY <3>1 DEF Getblock
      <4>2. /\ OnlyCache(b, g) /\ Apart(g.cache)
            /\ ToSet(g.cache) = ToSet(b.cache) \cup {id}
        BY <1>0, <4>1, UsedFacts
      <4>3. id \in ToSet(b.cache)
        BY <1>0, <3>1 DEF Contains, ToSet, Apart
      <4> HIDE DEF g
      <4>4. BucketsFit(g.cache)
        BY <1>0, <4>2, <4>3, RoomForOne
      <4> QED
        BY <4>2, <4>4
    <3>2. CASE ~Contains(b.cache, id)
      <4>1. g = Cached(b, id)
        BY <1>1, <3>2 DEF Getblock
      <4> QED
        BY <1>0, <4>1, CachedFacts
    <3> QED
      BY <3>1, <3>2
  <2> HIDE DEF g
  <2>3. Sane(g)
    BY <1>0, <2>1, <2>2 DEF Sane, OnlyCache
  <2>4. CleanBut(g, S2) /\ FitsBut(g, F)
    BY <1>0, <2>1, <2>2 DEF CleanBut, FitsBut, OnlyCache
  <2>5. SameTree(b, g) /\ DOMAIN g.mem = DOMAIN b.mem \cup {id}
    BY <2>1, <2>2 DEF SameTree, OnlyCache, BlockOf
  <2> QED
    BY <2>2, <2>3, <2>4, <2>5 DEF OnlyCache, Layer, g
<1>2. CASE ~Contains(b.cache, id) /\ ~Contains(b.dirty, id)
  <2> DEFINE e == IF id \in DOMAIN b.file THEN b.file[id] ELSE NewBlock
             m == Put(b.mem, id, e)
             h == [b EXCEPT !.mem = m]
  <2>1. e \in Ents
    BY <1>0, BlocksAre, NewBlockFits
  <2>2. g = Cached(h, id)
    BY <1>2 DEF Getblock
  <2>2a. id \notin ToSet(b.dirty)
    BY <1>0, <1>2 DEF Contains, ToSet, Apart, Sane
  <2>3. id \in DOMAIN b.mem => id \in DOMAIN b.file /\ e = b.mem[id]
    BY <1>0, <2>2a DEF CleanBut
  <2>3a. Size(e) < BLOCK
    BY <1>0, NewBlockFits DEF FitsBut
  <2>4. id \notin DOMAIN b.mem /\ id \notin DOMAIN b.file => e = NewBlock
    OBVIOUS
  <2>5. id \in DOMAIN b.file => e = b.file[id]
    OBVIOUS
  <2> HIDE DEF e
  <2>6. /\ m \in Blocks /\ DOMAIN m = DOMAIN b.mem \cup {id} /\ m[id] = e
        /\ \A x \in DOMAIN b.mem : m[x] = b.mem[x]
    <3>1. /\ m \in Blocks /\ DOMAIN m = DOMAIN b.mem \cup {id} /\ m[id] = e
          /\ \A x \in DOMAIN b.mem : x # id => m[x] = b.mem[x]
      BY <1>0, <2>1, PutFacts, ZenonT(60)
    <3> HIDE DEF m
    <3> QED
      BY <2>3, <3>1
  <2> HIDE DEF m
  <2>7. /\ h \in BtRecord /\ h.mem = m /\ h.cnt = b.cnt /\ h.head = b.head /\ h.H = b.H
        /\ h.hdr = b.hdr /\ h.cache = b.cache /\ h.dirty = b.dirty /\ h.file = b.file
    BY <1>0, <2>6, MemSet
  <2> HIDE DEF h
  <2>8. /\ OnlyCache(h, g) /\ Apart(g.cache) /\ BucketsFit(g.cache)
        /\ ToSet(g.cache) \subseteq ToSet(b.cache) \cup {id}
    BY <1>0, <2>2, <2>7, CachedFacts
  <2> HIDE DEF g
  <2>9. /\ g \in BtRecord /\ g.mem = m /\ g.cnt = b.cnt /\ g.head = b.head /\ g.H = b.H
        /\ g.hdr = b.hdr /\ g.dirty = b.dirty /\ g.file = b.file
    BY <2>7, <2>8 DEF OnlyCache
  <2>10. Sane(g)
    BY <1>0, <2>6, <2>8, <2>9 DEF Sane
  <2>11. CleanBut(g, S2)
    BY <1>0, <2>3, <2>5, <2>6, <2>9 DEF CleanBut
  <2>12. FitsBut(g, F)
    BY <1>0, <2>3a, <2>6, <2>9 DEF FitsBut
  <2>13. SameTree(b, g)
    <3>1. ASSUME NEW x \in Nat PROVE BlockOf(g, x) = BlockOf(b, x)
      <4>1. CASE x = id
        BY <2>3, <2>4, <2>5, <2>6, <2>9, <4>1 DEF BlockOf
      <4>2. CASE x # id
        BY <2>6, <2>9, <4>2 DEF BlockOf
      <4> QED
        BY <4>1, <4>2
    <3> QED
      BY <2>6, <2>9, <3>1 DEF SameTree
  <2> QED
    BY <2>6, <2>9, <2>10, <2>11, <2>12, <2>13 DEF Layer, g
<1> QED
  BY <1>1, <1>2

\* flush() writes the dirty blocks, and the header with them.
LEMMA FlushedFacts ==
    ASSUME NEW b, NEW S, NEW F, Layer(b, S, F), \A id \in ToSet(b.dirty) : Size(b.mem[id]) < BLOCK
    PROVE  LET f == Flushed(b)
           IN  /\ Layer(f, S, F) /\ SameTree(b, f) /\ f.mem = b.mem /\ f.dirty = <<>>
               /\ f.hdr = IF b.dirty = <<>> THEN b.hdr ELSE Header(b)
               /\ DOMAIN f.file = DOMAIN b.file \cup ToSet(b.dirty)
<1> DEFINE f == Flushed(b)
<1>0. /\ Sane(b) /\ CleanBut(b, S) /\ FitsBut(b, F) /\ b \in BtRecord
      /\ b.mem \in Blocks /\ b.file \in Blocks /\ b.dirty \in Seq(Nat)
      /\ b.mem \in [DOMAIN b.mem -> Ents] /\ b.file \in [DOMAIN b.file -> Ents]
      /\ DOMAIN b.mem \subseteq Nat /\ DOMAIN b.file \subseteq Nat
  <2>1. Sane(b) /\ CleanBut(b, S) /\ FitsBut(b, F) /\ b \in BtRecord
    BY DEF Layer, Sane
  <2>2. b.mem \in Blocks /\ b.file \in Blocks /\ b.dirty \in Seq(Nat)
    BY <2>1 DEF BtRecord
  <2> QED
    BY <2>1, <2>2, BlocksAre
<1>1. CASE b.dirty = <<>>
  <2>1. f = b /\ ToSet(b.dirty) = {}
    BY <1>1 DEF Flushed, ToSet
  <2> QED
    BY <1>1, <2>1 DEF SameTree
<1>2. CASE b.dirty # <<>>
  <2> DEFINE new == [id \in DOMAIN b.file \cup ToSet(b.dirty) |->
                        IF Contains(b.dirty, id) THEN b.mem[id] ELSE b.file[id]]
  <2>1. \A id : Contains(b.dirty, id) <=> id \in ToSet(b.dirty)
    BY <1>0 DEF Contains, ToSet
  <2>2. ToSet(b.dirty) \subseteq DOMAIN b.mem
    BY <1>0 DEF Sane
  <2>3. /\ DOMAIN new = DOMAIN b.file \cup ToSet(b.dirty)
        /\ \A id \in ToSet(b.dirty) : new[id] = b.mem[id]
        /\ \A id \in DOMAIN b.file \ ToSet(b.dirty) : new[id] = b.file[id]
    BY <2>1
  <2>4. new \in [DOMAIN b.file \cup ToSet(b.dirty) -> Ents]
    BY <1>0, <2>1, <2>2
  <2>5. new \in Blocks
    BY <1>0, <2>2, <2>4, AreBlocks
  <2>6. f = [b EXCEPT !.hdr = Header(b), !.dirty = <<>>, !.file = new]
    BY <1>2 DEF Flushed
  <2> HIDE DEF new
  <2>7. Header(b) \in Heads /\ <<>> \in Seq(Nat)
    BY <1>0 DEF BtRecord, Heads, Header
  <2>8. /\ f \in BtRecord /\ f.cnt = b.cnt /\ f.head = b.head /\ f.H = b.H /\ f.mem = b.mem
        /\ f.cache = b.cache /\ f.hdr = Header(b) /\ f.dirty = <<>> /\ f.file = new
    BY <1>0, <2>5, <2>6, <2>7 DEF BtRecord
  <2> HIDE DEF f
  <2>9. ToSet(f.dirty) = {} /\ Apart(f.dirty) /\ Len(f.dirty) <= MaxDirty
    BY <2>8, BtreeAssumption DEF ToSet, Apart, IsInjective
  <2>10. Sane(f)
    BY <1>0, <2>2, <2>3, <2>8, <2>9 DEF Sane
  <2>11. CleanBut(f, S)
    BY <1>0, <2>2, <2>3, <2>8, <2>9 DEF CleanBut
  <2>12. FitsBut(f, F)
    BY <1>0, <2>3, <2>8 DEF FitsBut
  <2>13. SameTree(b, f)
    BY <2>2, <2>3, <2>8 DEF SameTree, BlockOf
  <2> QED
    BY <1>2, <2>3, <2>8, <2>10, <2>11, <2>12, <2>13 DEF Layer, f
<1> QED
  BY <1>1, <1>2

\* putblock() makes a block dirty, after a flush if there are too many.
LEMMA PutblockFacts ==
    ASSUME NEW b, NEW S, Layer(b, S, {}), NEW id \in DOMAIN b.mem
    PROVE  LET p == Putblock(b, id)
           IN  /\ Layer(p, S \ {id}, {}) /\ SameTree(b, p) /\ p.mem = b.mem /\ p.dirty # <<>>
               /\ DOMAIN b.file \subseteq DOMAIN p.file
<1> DEFINE p == Putblock(b, id)
           room == IF Len(b.dirty) >= MaxDirty THEN Flushed(b) ELSE b
<1>0. /\ Sane(b) /\ FitsBut(b, {}) /\ b \in BtRecord /\ b.dirty \in Seq(Nat)
      /\ b.mem \in Blocks /\ DOMAIN b.mem \subseteq Nat
  <2>1. Sane(b) /\ FitsBut(b, {}) /\ b \in BtRecord
    BY DEF Layer, Sane
  <2>2. b.mem \in Blocks /\ b.dirty \in Seq(Nat)
    BY <2>1 DEF BtRecord
  <2> QED
    BY <2>1, <2>2, BlocksAre
<1>1. \A x \in ToSet(b.dirty) : Size(b.mem[x]) < BLOCK
  BY <1>0 DEF Sane, FitsBut
<1>2. /\ Layer(room, S, {}) /\ SameTree(b, room) /\ room.mem = b.mem
      /\ Len(room.dirty) < MaxDirty /\ DOMAIN b.file \subseteq DOMAIN room.file
  <2>1. CASE Len(b.dirty) >= MaxDirty
    <3>1. Len(<<>>) < MaxDirty
      BY BtreeAssumption
    <3> QED
      BY <1>1, <2>1, <3>1, FlushedFacts
  <2>2. CASE ~(Len(b.dirty) >= MaxDirty)
    BY <1>0, <2>2, BtreeAssumption DEF SameTree
  <2> QED
    BY <2>1, <2>2
<1>3. p = IF Contains(room.dirty, id) THEN room ELSE [room EXCEPT !.dirty = <<id>> \o @]
  BY DEF Putblock
<1> HIDE DEF room
<1>4. /\ Sane(room) /\ CleanBut(room, S) /\ FitsBut(room, {}) /\ room \in BtRecord
      /\ Apart(room.dirty) /\ id \in DOMAIN room.mem
  BY <1>2 DEF Layer, Sane
<1>5. Contains(room.dirty, id) <=> id \in ToSet(room.dirty)
  BY <1>4 DEF Contains, ToSet, Apart
<1>6. CASE id \in ToSet(room.dirty)
  <2>1. p = room
    BY <1>3, <1>5, <1>6
  <2>2. room.dirty # <<>>
    BY <1>6 DEF ToSet
  <2>3. CleanBut(room, S \ {id})
    BY <1>4, <1>6 DEF CleanBut
  <2> QED
    BY <1>2, <1>4, <2>1, <2>2, <2>3 DEF Layer
<1>7. CASE id \notin ToSet(room.dirty)
  <2> DEFINE d == <<id>> \o room.dirty
  <2>1. /\ Apart(d) /\ ToSet(d) = ToSet(room.dirty) \cup {id}
        /\ Len(d) = Len(room.dirty) + 1
    BY <1>0, <1>4, <1>7, PutInFront
  <2>2. p = [room EXCEPT !.dirty = d]
    BY <1>3, <1>5, <1>7
  <2> HIDE DEF d
  <2>3. d \in Seq(Nat)
    BY <2>1 DEF Apart
  <2>4. /\ p \in BtRecord /\ p.cnt = room.cnt /\ p.head = room.head /\ p.H = room.H
        /\ p.mem = room.mem /\ p.cache = room.cache /\ p.file = room.file /\ p.dirty = d
    BY <1>4, <2>2, <2>3 DEF BtRecord
  <2> HIDE DEF p
  <2>5. Len(d) <= MaxDirty /\ d # <<>>
    <3>1. Len(room.dirty) \in Nat /\ Len(<<>>) = 0
      BY <1>4 DEF Apart
    <3> QED
      BY <1>2, <2>1, <3>1, BtreeAssumption
  <2>6. Sane(p)
    BY <1>4, <2>1, <2>4, <2>5 DEF Sane
  <2>7. CleanBut(p, S \ {id})
    BY <1>4, <2>1, <2>4 DEF CleanBut
  <2>8. FitsBut(p, {})
    BY <1>4, <2>4 DEF FitsBut
  <2>9. SameTree(b, p)
    BY <1>2, <2>4 DEF SameTree, BlockOf
  <2> QED
    BY <1>2, <2>4, <2>5, <2>6, <2>7, <2>8, <2>9 DEF Layer, p
<1> QED
  BY <1>6, <1>7

-----------------------------------------------------------------------------
(* Slots, and entries added to and moved from a block. *)

LEMMA CountAmong ==
    ASSUME NEW n \in Nat, NEW m \in Nat, m <= n, NEW S \in SUBSET (n - m + 1 .. n)
    PROVE  Cardinality(S) \in 0 .. m
<1>1. IsFiniteSet(n - m + 1 .. n) /\ Cardinality(n - m + 1 .. n) = m
  BY FS_Interval
<1>2. IsFiniteSet(S) /\ Cardinality(S) <= m
  BY <1>1, FS_Subset
<1> QED
  BY <1>2, FS_CardinalityType

LEMMA SlotFacts ==
    ASSUME NEW ents \in Ents, NEW k
    PROVE  /\ Before(ents, k) \in 0 .. Len(ents)
           /\ ents # <<>> => SearchSlot(ents, k) \in DOMAIN ents /\ InsertSlot(ents, k) \in DOMAIN ents
<1>1. DOMAIN ents = 1 .. Len(ents) /\ Len(ents) \in Nat
  BY DEF Ents
<1>2. Before(ents, k) \in 0 .. Len(ents)
  <2> DEFINE S == {i \in DOMAIN ents : ents[i].key < k}
  <2>1. S \in SUBSET (Len(ents) - Len(ents) + 1 .. Len(ents))
    BY <1>1
  <2> HIDE DEF S
  <2>2. Cardinality(S) \in 0 .. Len(ents)
    BY <1>1, <2>1, CountAmong
  <2> QED
    BY <2>2 DEF Before, S
<1>3. ASSUME ents # <<>>, NEW S \in SUBSET (2 .. Len(ents))
      PROVE  1 + Cardinality(S) \in DOMAIN ents
  <2>1. Len(ents) # 0
    BY <1>1, <1>3 DEF Ents
  <2>2. Len(ents) - 1 \in Nat /\ Len(ents) - 1 <= Len(ents) /\ S \in SUBSET (Len(ents) - (Len(ents) - 1) + 1 .. Len(ents))
    BY <1>1, <2>1
  <2>3. Cardinality(S) \in 0 .. Len(ents) - 1
    BY <1>1, <2>2, CountAmong
  <2> QED
    BY <1>1, <2>3
<1>4. ASSUME ents # <<>> PROVE SearchSlot(ents, k) \in DOMAIN ents
  <2> DEFINE S == {i \in 2 .. Len(ents) : ents[i].key <= k}
  <2>1. S \in SUBSET (2 .. Len(ents))
    OBVIOUS
  <2> HIDE DEF S
  <2> QED
    BY <1>3, <1>4, <2>1 DEF SearchSlot, S
<1>5. ASSUME ents # <<>> PROVE InsertSlot(ents, k) \in DOMAIN ents
  <2> DEFINE S == {i \in 2 .. Len(ents) : ents[i].key < k}
  <2>1. S \in SUBSET (2 .. Len(ents))
    OBVIOUS
  <2> HIDE DEF S
  <2> QED
    BY <1>3, <1>5, <2>1 DEF InsertSlot, S
<1> QED
  BY <1>2, <1>4, <1>5

\* The entries a with x between those of ents.
Between(ents, x, a) ==
    /\ a \in Ents /\ Len(a) = Len(ents) + 1
    /\ \E j \in 1 .. Len(ents) + 1 :
          \A i \in 1 .. Len(ents) + 1 :
              a[i] = IF i < j THEN ents[i] ELSE IF i = j THEN x ELSE ents[i - 1]

LEMMA AddedFacts ==
    ASSUME NEW ents \in Ents, NEW k, NEW x \in Item, NEW leaf \in BOOLEAN,
           leaf \/ ents # <<>>
    PROVE  LET a == Added(ents, k, x, leaf)
           IN  \/ Between(ents, x, a)
               \/ leaf /\ a \in Ents /\ Len(a) = Len(ents) /\ a # <<>>
<1>1. DOMAIN ents = 1 .. Len(ents) /\ Len(ents) \in Nat
  BY DEF Ents
<1> DEFINE j == IF leaf THEN Before(ents, k) + 1 ELSE InsertSlot(ents, k) + 1
<1>2. j \in 1 .. Len(ents) + 1
  BY <1>1, SlotFacts
<1>3. CASE leaf /\ Has(ents, j, k)
  <2> DEFINE e == [ents[j] EXCEPT !.val = x.val]
             a == [ents EXCEPT ![j] = e]
  <2>1. Added(ents, k, x, leaf) = a
    BY <1>3 DEF Added
  <2>2. j \in DOMAIN ents
    BY <1>3 DEF Has
  <2> HIDE DEF j
  <2>a. ents[j] \in Item
    BY <1>1, <2>2 DEF Ents
  <2>3. ents[j] \in Item /\ x.val \in Val \cup Nat
    BY <2>a DEF Item
  <2>4. e \in Item
    BY <2>3 DEF Item
  <2> HIDE DEF e
  <2>5. a \in Ents /\ Len(a) = Len(ents)
    BY <2>2, <2>4 DEF Ents
  <2>6. a # <<>>
    BY <1>1, <2>2, <2>5 DEF Ents
  <2> QED
    BY <1>3, <2>1, <2>5, <2>6
<1>4. CASE ~(leaf /\ Has(ents, j, k))
  <2>1. Added(ents, k, x, leaf) = InsertAt(ents, j, x)
    BY <1>4 DEF Added
  <2> HIDE DEF j
  <2> DEFINE a == InsertAt(ents, j, x)
  <2>2. /\ a \in Ents /\ Len(a) = Len(ents) + 1
        /\ \A i \in 1 .. Len(ents) + 1 :
              a[i] = IF i < j THEN ents[i] ELSE IF i = j THEN x ELSE ents[i - 1]
    BY <1>2, InsertAtFacts DEF Ents
  <2> HIDE DEF a
  <2>3. Between(ents, x, a)
    BY <1>2, <2>2 DEF Between
  <2> QED
    BY <2>1, <2>3 DEF a
<1> QED
  BY <1>3, <1>4

\* split() keeps some entries and moves some, and both halves fit.
LEMMA KeptFacts ==
    ASSUME NEW ents \in Ents, Full(ents), 2 + EntrySize * (Len(ents) - 1) < BLOCK
    PROVE  LET n == Kept(ents)
           IN  /\ n \in 1 .. Len(ents) - 1 /\ Len(ents) \in Nat
               /\ 2 + EntrySize * n < BLOCK /\ 2 + EntrySize * (Len(ents) - n) < BLOCK
<1> DEFINE L == Len(ents)
           half == BLOCK \div 2
           Enough(j) == EntrySize * (j + 1) >= half
<1>1. /\ EntrySize \in Nat /\ EntrySize >= 1 /\ BLOCK \in Nat /\ 4 * EntrySize < BLOCK
      /\ half \in Nat /\ 2 * half <= BLOCK /\ BLOCK <= 2 * half + 1 /\ L \in Nat
  BY BtreeAssumption DEF Ents
<1>2. 2 + EntrySize * L >= BLOCK /\ 2 + EntrySize * (L - 1) < BLOCK
  BY DEF Full, Size
<1> HIDE DEF half
<1>3. L >= 1
  <2>1. CASE L = 0
    <3>1. EntrySize * L = 0
      BY <1>1, <2>1
    <3> QED
      BY <1>1, <1>2, <3>1
  <2> QED
    BY <1>1, <2>1
<1> HIDE DEF L
<1> DEFINE S == {j \in 0 .. L - 1 : Enough(j)}
<1>4. L - 1 \in S
  <2>1. EntrySize * ((L - 1) + 1) = EntrySize * L
    BY <1>1
  <2>2. L - 1 \in 0 .. L - 1
    BY <1>1, <1>3
  <2>3. EntrySize * L >= half
    <3> DEFINE y == EntrySize * L
    <3>1. y \in Nat /\ 2 + y >= BLOCK
      BY <1>1, <1>2
    <3> HIDE DEF y
    <3>2. y >= half
      BY <1>1, <3>1
    <3> QED
      BY <3>2 DEF y
  <2> QED
    BY <2>1, <2>2, <2>3
<1>5. S \in SUBSET Nat
  BY <1>1
<1>6. PICK m \in S : \A j \in S : m <= j
  BY <1>4, <1>5, LeastElement
<1>7. \A i \in 0 .. m - 1 : EntrySize * (i + 1) < half
  <2> SUFFICES ASSUME NEW i \in 0 .. m - 1, EntrySize * (i + 1) >= half PROVE FALSE
    BY <1>1
  <2>1. i \in S
    BY <1>1
  <2> QED
    BY <1>6, <2>1
<1> DEFINE IsKept(j) == /\ j = L \/ EntrySize * (j + 1) >= half
                        /\ \A i \in 0 .. j - 1 : EntrySize * (i + 1) < half
<1>8. m \in 0 .. L /\ IsKept(m)
  BY <1>1, <1>6, <1>7
<1> DEFINE n == Kept(ents)
<1>9. n = CHOOSE j \in 0 .. L : IsKept(j)
  BY DEF Kept, L, half
<1> HIDE DEF n, IsKept
<1>10. n \in 0 .. L /\ IsKept(n)
  BY <1>8, <1>9
<1>11. n <= m
  <2> SUFFICES ASSUME n > m PROVE FALSE
    BY <1>1, <1>8, <1>10
  <2>1. m \in 0 .. n - 1
    BY <1>1, <1>8, <1>10
  <2>2. EntrySize * (m + 1) < half /\ EntrySize * (m + 1) >= half
    BY <1>6, <1>10, <2>1 DEF IsKept
  <2> QED
    BY <1>1, <1>8, <2>2
<1>12. n \in 0 .. L - 1 /\ EntrySize * (n + 1) >= half
  BY <1>1, <1>3, <1>6, <1>10, <1>11 DEF IsKept
<1>13. n # 0
  <2> SUFFICES ASSUME n = 0 PROVE FALSE
    OBVIOUS
  <2>1. EntrySize * (n + 1) = EntrySize
    BY <1>1
  <2> QED
    BY <1>1, <1>12, <2>1
<1>14. 2 + EntrySize * n < BLOCK
  <2>1. n - 1 \in 0 .. n - 1 /\ EntrySize * ((n - 1) + 1) = EntrySize * n
    BY <1>1, <1>12, <1>13
  <2>2. EntrySize * n < half
    BY <1>10, <2>1 DEF IsKept
  <2>3. EntrySize * n \in Nat
    BY <1>1, <1>12
  <2> QED
    BY <1>1, <2>2, <2>3
<1>15. 2 + EntrySize * (L - n) < BLOCK
  <2>1. EntrySize * (L - n) = EntrySize * (L - 1) - EntrySize * (n + 1) + 2 * EntrySize
    BY <1>1, <1>12
  <2>2. EntrySize * (L - 1) \in Int /\ EntrySize * (n + 1) \in Int /\ EntrySize * (L - n) \in Int
    BY <1>1, <1>12
  <2> QED
    BY <1>1, <1>2, <1>12, <2>1, <2>2
<1> QED
  BY <1>1, <1>12, <1>13, <1>14, <1>15 DEF n, L

-----------------------------------------------------------------------------
(***************************************************************************)
(* The tree.  V[id] are the entries of the blocks 1 .. n, and lev[id] is   *)
(* the height of a block above the leaves.  The blocks of O were split off *)
(* and have no link yet.                                                   *)
(***************************************************************************)
Link(V, lev, p, i, id) == p \in DOMAIN V /\ lev[p] > 0 /\ i \in DOMAIN V[p] /\ V[p][i].val = id

Linked(V, n, head, lev, O) ==
    /\ \A p, i, id : Link(V, lev, p, i, id) => id \in (1 .. n) \ (O \cup {head}) /\ lev[id] = lev[p] - 1
    /\ \A id, p, q, i, j : Link(V, lev, p, i, id) /\ Link(V, lev, q, j, id) => p = q /\ i = j
    /\ \A id \in (1 .. n) \ (O \cup {head}) : \E p, i : Link(V, lev, p, i, id)

TreeTypes(V, n, head, H, lev, O) ==
    /\ n \in Nat /\ H \in Nat /\ head \in 1 .. n
    /\ V \in [1 .. n -> Ents] /\ lev \in [1 .. n -> 0 .. H] /\ lev[head] = H
    /\ O \subseteq (1 .. n) \ {head}
    /\ \A p \in 1 .. n : lev[p] > 0 => V[p] # <<>>

Tree(V, n, head, H, lev, O) == TreeTypes(V, n, head, H, lev, O) /\ Linked(V, n, head, lev, O)

\* The entries of a leaf change.
LEMMA LeafChanges ==
    ASSUME NEW V, NEW n, NEW head, NEW H, NEW lev, NEW O, Tree(V, n, head, H, lev, O),
           NEW p \in 1 .. n, lev[p] = 0, NEW e \in Ents
    PROVE  Tree([V EXCEPT ![p] = e], n, head, H, lev, O)
<1> DEFINE W == [V EXCEPT ![p] = e]
<1>1. TreeTypes(W, n, head, H, lev, O)
  BY DEF Tree, TreeTypes
<1>2. \A q, i, id : Link(W, lev, q, i, id) <=> Link(V, lev, q, i, id)
  BY DEF Tree, TreeTypes, Link
<1> HIDE DEF W
<1>3. Linked(W, n, head, lev, O)
  BY <1>2 DEF Tree, Linked
<1> QED
  BY <1>1, <1>3 DEF Tree, W

LEMMA EntsFacts == ASSUME NEW e \in Ents
                   PROVE  DOMAIN e = 1 .. Len(e) /\ Len(e) \in Nat /\ (e = <<>> <=> Len(e) = 0)
                          /\ \A i \in 1 .. Len(e) : e[i] \in Item
BY DEF Ents

\* A block gets the link to the one that was split off below it.
LEMMA LinkAdded ==
    ASSUME NEW V, NEW n, NEW head, NEW H, NEW lev, NEW o, Tree(V, n, head, H, lev, {o}),
           NEW p \in 1 .. n, lev[p] > 0, lev[o] = lev[p] - 1,
           NEW x, x.val = o, NEW e, Between(V[p], x, e)
    PROVE  Tree([V EXCEPT ![p] = e], n, head, H, lev, {})
<1> DEFINE W == [V EXCEPT ![p] = e]
           L == Len(V[p])
<1>1. /\ TreeTypes(V, n, head, H, lev, {o}) /\ Linked(V, n, head, lev, {o})
      /\ V[p] \in Ents /\ e \in Ents
  BY DEF Tree, TreeTypes, Between
<1>2. DOMAIN V[p] = 1 .. L /\ L \in Nat /\ DOMAIN e = 1 .. L + 1 /\ Len(e) # 0
  BY <1>1, EntsFacts DEF Between
<1>3. TreeTypes(W, n, head, H, lev, {})
  <2>1. e # <<>>
    BY <1>1, <1>2, EntsFacts
  <2> QED
    BY <1>1, <2>1 DEF TreeTypes
<1>4. PICK j \in 1 .. L + 1 : \A i \in 1 .. L + 1 :
                e[i] = IF i < j THEN V[p][i] ELSE IF i = j THEN x ELSE V[p][i - 1]
  BY DEF Between
<1>5. DOMAIN W = DOMAIN V /\ W[p] = e /\ \A q \in DOMAIN V : q # p => W[q] = V[q]
  BY <1>1 DEF TreeTypes
<1>6. p \in DOMAIN V
  BY <1>1 DEF TreeTypes
<1> HIDE DEF W, L
<1>7. \A q, i, id : q # p => (Link(W, lev, q, i, id) <=> Link(V, lev, q, i, id))
  BY <1>5 DEF Link
<1>8. ASSUME NEW i, NEW id, Link(W, lev, p, i, id)
      PROVE  /\ i \in 1 .. L + 1
             /\ i < j => Link(V, lev, p, i, id)
             /\ i = j => id = o
             /\ i > j => i - 1 \in 1 .. L /\ Link(V, lev, p, i - 1, id)
  <2>1. i \in 1 .. L + 1 /\ e[i].val = id
    BY <1>2, <1>5, <1>8 DEF Link
  <2>2. CASE i < j
    <3>1. i \in 1 .. L /\ e[i] = V[p][i]
      BY <1>2, <1>4, <2>1, <2>2
    <3> QED
      BY <1>2, <1>6, <2>1, <2>2, <3>1 DEF Link
  <2>3. CASE i = j
    BY <1>4, <2>1, <2>3
  <2>4. CASE i > j
    <3>1. i - 1 \in 1 .. L /\ e[i] = V[p][i - 1]
      BY <1>2, <1>4, <2>1, <2>4
    <3> QED
      BY <1>2, <1>6, <2>1, <2>4, <3>1 DEF Link
  <2> QED
    BY <1>2, <1>4, <2>1, <2>2, <2>3, <2>4
<1>9. ASSUME NEW i, NEW id, Link(V, lev, p, i, id) PROVE \E k : Link(W, lev, p, k, id)
  <2>1. i \in 1 .. L /\ V[p][i].val = id
    BY <1>2, <1>9 DEF Link
  <2>2. CASE i < j
    <3>1. i \in 1 .. L + 1 /\ e[i] = V[p][i]
      BY <1>2, <1>4, <2>1, <2>2
    <3>2. Link(W, lev, p, i, id)
      BY <1>2, <1>5, <1>6, <2>1, <3>1 DEF Link
    <3> QED
      BY <3>2
  <2>3. CASE ~(i < j)
    <3>1. i + 1 \in 1 .. L + 1 /\ ~(i + 1 < j) /\ i + 1 # j /\ (i + 1) - 1 = i
      BY <1>2, <1>4, <2>1, <2>3
    <3>2. e[i + 1] = V[p][i]
      BY <1>4, <3>1
    <3>3. Link(W, lev, p, i + 1, id)
      BY <1>2, <1>5, <1>6, <2>1, <3>1, <3>2 DEF Link
    <3> QED
      BY <3>3
  <2> QED
    BY <2>2, <2>3
<1>10. Link(W, lev, p, j, o)
  <2>1. e[j] = x
    BY <1>2, <1>4
  <2> QED
    BY <1>2, <1>4, <1>5, <1>6, <2>1 DEF Link
<1>11. ASSUME NEW q, NEW i, NEW id, Link(W, lev, q, i, id), id # o
       PROVE  \E k : Link(V, lev, q, k, id) /\ q # p => k = i
  BY <1>4, <1>7, <1>8, <1>11
<1>12. ASSUME NEW q, NEW i, Link(W, lev, q, i, o) PROVE q = p /\ i = j
  <2>1. ~Link(V, lev, q, i, o) /\ ~Link(V, lev, q, i - 1, o)
    BY <1>1 DEF Linked
  <2>2. q = p
    BY <1>7, <1>12, <2>1
  <2>3. i \in 1 .. L + 1 /\ ~(i < j) /\ ~(i > j)
    BY <1>8, <1>12, <2>1, <2>2
  <2> QED
    BY <1>2, <1>4, <2>2, <2>3
<1>13. ASSUME NEW q, NEW i, NEW id, Link(W, lev, q, i, id)
       PROVE  id \in (1 .. n) \ {head} /\ lev[id] = lev[q] - 1
  <2>1. CASE id = o
    <3>1. q = p /\ o \in (1 .. n) \ {head}
      BY <1>1, <1>12, <1>13, <2>1 DEF TreeTypes
    <3> QED
      BY <2>1, <3>1
  <2>2. CASE id # o
    <3>1. PICK k : Link(V, lev, q, k, id)
      BY <1>4, <1>7, <1>8, <1>13, <2>2
    <3> QED
      BY <1>1, <3>1 DEF Linked
  <2> QED
    BY <2>1, <2>2
<1>14. ASSUME NEW id, NEW q, NEW r, NEW i, NEW k, Link(W, lev, q, i, id), Link(W, lev, r, k, id)
       PROVE  q = r /\ i = k
  <2>1. CASE id = o
    BY <1>12, <1>14, <2>1
  <2>2. CASE id # o
    <3>1. \A a, b, c, d : Link(V, lev, a, c, id) /\ Link(V, lev, b, d, id) => a = b /\ c = d
      BY <1>1 DEF Linked
    <3>2. q = r
      BY <1>4, <1>7, <1>8, <1>14, <2>2, <3>1
    <3>3. CASE q # p
      BY <1>7, <1>14, <3>1, <3>2, <3>3
    <3>4. CASE q = p
      <4>1. i \in 1 .. L + 1 /\ k \in 1 .. L + 1 /\ i # j /\ k # j
        BY <1>8, <1>14, <2>2, <3>2, <3>4
      <4>2. \/ i < j /\ Link(V, lev, p, i, id)
            \/ i > j /\ Link(V, lev, p, i - 1, id)
        BY <1>2, <1>4, <1>8, <1>14, <3>4, <4>1, SMTT(60)
      <4>a. Link(W, lev, p, k, id)
        BY <1>14, <3>2, <3>4
      <4>3. \/ k < j /\ Link(V, lev, p, k, id)
            \/ k > j /\ Link(V, lev, p, k - 1, id)
        BY <1>2, <1>4, <1>8, <4>1, <4>a
      <4>4. \/ i < j /\ k < j /\ i = k
            \/ i < j /\ k > j /\ i = k - 1
            \/ i > j /\ k < j /\ i - 1 = k
            \/ i > j /\ k > j /\ i - 1 = k - 1
        BY <3>1, <4>2, <4>3
      <4> QED
        BY <1>2, <1>4, <3>2, <4>1, <4>4
    <3> QED
      BY <3>3, <3>4
  <2> QED
    BY <2>1, <2>2
<1>15. ASSUME NEW id \in (1 .. n) \ {head} PROVE \E q, i : Link(W, lev, q, i, id)
  <2>1. CASE id = o
    BY <1>10, <2>1
  <2>2. CASE id # o
    <3>1. PICK q, i : Link(V, lev, q, i, id)
      BY <1>1, <2>2 DEF Linked
    <3> QED
      BY <1>7, <1>9, <3>1
  <2> QED
    BY <2>1, <2>2
<1>16. Linked(W, n, head, lev, {})
  BY <1>13, <1>14, <1>15 DEF Linked
<1> QED
  BY <1>3, <1>16 DEF Tree, W

\* A function on 1 .. n and its value at n + 1.
Longer(f, n, x) == [i \in 1 .. n + 1 |-> IF i = n + 1 THEN x ELSE f[i]]

\* The entries of a block from some place on move to a new one.
LEMMA BlockSplit ==
    ASSUME NEW V, NEW n, NEW head, NEW H, NEW lev, Tree(V, n, head, H, lev, {}),
           NEW p \in 1 .. n, NEW k \in 1 .. Len(V[p]) - 1,
           NEW a \in Ents, Len(a) = k, \A i \in 1 .. k : a[i] = V[p][i],
           NEW e \in Ents, Len(e) = Len(V[p]) - k,
           \A i \in 1 .. Len(V[p]) - k : e[i] = V[p][i + k]
    PROVE  Tree(Longer([V EXCEPT ![p] = a], n, e), n + 1, head, H, Longer(lev, n, lev[p]), {n + 1})
<1> DEFINE t == n + 1
           W == Longer([V EXCEPT ![p] = a], n, e)
           lv == Longer(lev, n, lev[p])
           L == Len(V[p])
<1>1. /\ TreeTypes(V, n, head, H, lev, {}) /\ Linked(V, n, head, lev, {})
      /\ V[p] \in Ents /\ n \in Nat /\ DOMAIN V = 1 .. n /\ H \in Nat /\ head \in 1 .. n
      /\ V \in [1 .. n -> Ents] /\ lev \in [1 .. n -> 0 .. H]
  BY DEF Tree, TreeTypes
<1>2. /\ DOMAIN V[p] = 1 .. L /\ L \in Nat /\ DOMAIN a = 1 .. k /\ DOMAIN e = 1 .. L - k
      /\ a # <<>> /\ e # <<>> /\ k \in Nat /\ k < L
  BY <1>1, EntsFacts
<1>3. t \in Nat /\ t \notin 1 .. n /\ \A q \in 1 .. t : q = t \/ q \in 1 .. n
  BY <1>1
<1>4. /\ W \in [1 .. t -> Ents] /\ W[t] = e /\ W[p] = a
      /\ \A q \in 1 .. n : q # p => W[q] = V[q]
  BY <1>1, <1>3 DEF Longer
<1>5. /\ lv \in [1 .. t -> 0 .. H] /\ lv[t] = lev[p]
      /\ \A q \in 1 .. n : lv[q] = lev[q]
  <2>1. lev[p] \in 0 .. H
    BY <1>1
  <2> QED
    BY <1>1, <1>3, <2>1 DEF Longer
<1> HIDE DEF W, lv, L
<1>6. TreeTypes(W, t, head, H, lv, {t})
  <2>1. \A q \in 1 .. t : lv[q] > 0 => W[q] # <<>>
    <3> SUFFICES ASSUME NEW q \in 1 .. t, lv[q] > 0 PROVE W[q] # <<>>
      OBVIOUS
    <3>1. CASE q = t \/ q = p
      BY <1>2, <1>4, <3>1
    <3>2. CASE q # t /\ q # p
      BY <1>1, <1>3, <1>4, <1>5, <3>2 DEF TreeTypes
    <3> QED
      BY <3>1, <3>2
  <2>2. head \in 1 .. t /\ head # t /\ lv[head] = H /\ t \in 1 .. t
    BY <1>1, <1>3, <1>5 DEF TreeTypes
  <2> QED
    BY <1>1, <1>3, <1>4, <1>5, <2>1, <2>2 DEF TreeTypes
<1>7. ASSUME NEW q, NEW i, NEW id, q # p, q # t
      PROVE  Link(W, lv, q, i, id) <=> Link(V, lev, q, i, id)
  <2>1. DOMAIN W = 1 .. t
    BY <1>4
  <2>2. CASE q \in 1 .. n
    BY <1>1, <1>3, <1>4, <1>5, <1>7, <2>1, <2>2, SMTT(60) DEF Link
  <2>3. CASE q \notin 1 .. n
    BY <1>1, <1>3, <1>7, <2>1, <2>3 DEF Link
  <2> QED
    BY <2>2, <2>3
<1>8. ASSUME NEW i, NEW id, Link(W, lv, p, i, id) PROVE i \in 1 .. k /\ Link(V, lev, p, i, id)
  <2>1. i \in 1 .. k /\ a[i].val = id /\ lev[p] > 0
    BY <1>2, <1>4, <1>5, <1>8 DEF Link
  <2>2. i \in 1 .. L
    BY <1>2, <2>1
  <2> QED
    BY <1>1, <1>2, <2>1, <2>2 DEF Link
<1>9. ASSUME NEW i, NEW id, Link(W, lv, t, i, id)
      PROVE  i \in 1 .. L - k /\ i + k > k /\ Link(V, lev, p, i + k, id)
  <2>1. i \in 1 .. L - k /\ e[i].val = id /\ lev[p] > 0
    BY <1>2, <1>4, <1>5, <1>9 DEF Link
  <2>2. i + k \in 1 .. L /\ i + k > k
    BY <1>2, <2>1
  <2>3. e[i] = V[p][i + k]
    BY <2>1 DEF L
  <2> QED
    BY <1>1, <1>2, <2>1, <2>2, <2>3 DEF Link
<1>10. ASSUME NEW i, NEW id, Link(V, lev, p, i, id)
       PROVE  \E q, j : Link(W, lv, q, j, id)
  <2>1. i \in 1 .. L /\ V[p][i].val = id /\ lev[p] > 0
    BY <1>2, <1>10 DEF Link
  <2>2. CASE i <= k
    <3>1. i \in 1 .. k /\ p \in 1 .. t
      BY <1>1, <1>2, <2>1, <2>2
    <3>2. Link(W, lv, p, i, id)
      BY <1>2, <1>4, <1>5, <2>1, <3>1 DEF Link
    <3> QED
      BY <3>2
  <2>3. CASE i > k
    <3>1. i - k \in 1 .. L - k /\ (i - k) + k = i /\ t \in 1 .. t
      BY <1>1, <1>2, <2>1, <2>3
    <3>2. e[i - k] = V[p][i]
      BY <3>1 DEF L
    <3>3. Link(W, lv, t, i - k, id)
      BY <1>2, <1>4, <1>5, <2>1, <3>1, <3>2 DEF Link
    <3> QED
      BY <3>3
  <2> QED
    BY <1>2, <2>1, <2>2, <2>3
<1>11. ASSUME NEW q, NEW i, NEW id, Link(W, lv, q, i, id)
       PROVE  id \in (1 .. t) \ {t, head} /\ lv[id] = lv[q] - 1
  <2>1. CASE q = p
    <3>1. Link(V, lev, p, i, id)
      BY <1>8, <1>11, <2>1
    <3>2. id \in (1 .. n) \ {head} /\ lev[id] = lev[p] - 1
      BY <1>1, <3>1 DEF Linked
    <3> QED
      BY <1>1, <1>3, <1>5, <2>1, <3>2
  <2>2. CASE q = t
    <3>1. Link(V, lev, p, i + k, id)
      BY <1>9, <1>11, <2>2
    <3>2. id \in (1 .. n) \ {head} /\ lev[id] = lev[p] - 1
      BY <1>1, <3>1 DEF Linked
    <3> QED
      BY <1>1, <1>3, <1>5, <2>2, <3>2
  <2>3. CASE q # p /\ q # t
    <3>a. Link(V, lev, q, i, id)
      BY <1>7, <1>11, <2>3
    <3>1. Link(V, lev, q, i, id) /\ q \in 1 .. n
      BY <1>1, <3>a DEF Link
    <3>2. id \in (1 .. n) \ {head} /\ lev[id] = lev[q] - 1
      BY <1>1, <3>1 DEF Linked
    <3> QED
      BY <1>1, <1>3, <1>5, <3>1, <3>2
  <2> QED
    BY <2>1, <2>2, <2>3
<1>12. ASSUME NEW id, NEW q, NEW r, NEW i, NEW j, Link(W, lv, q, i, id), Link(W, lv, r, j, id)
       PROVE  q = r /\ i = j
  <2> DEFINE from(x) == IF x = t THEN p ELSE x
             place(x, y) == IF x = t THEN y + k ELSE y
  <2>1. /\ Link(V, lev, from(q), place(q, i), id)
        /\ q = p => i <= k /\ i \in Nat
        /\ q = t => i > 0 /\ i \in Nat
    BY <1>2, <1>3, <1>7, <1>8, <1>9, <1>12
  <2>2. /\ Link(V, lev, from(r), place(r, j), id)
        /\ r = p => j <= k /\ j \in Nat
        /\ r = t => j > 0 /\ j \in Nat
    BY <1>2, <1>3, <1>7, <1>8, <1>9, <1>12
  <2>3. from(q) = from(r) /\ place(q, i) = place(r, j)
    BY <1>1, <2>1, <2>2 DEF Linked
  <2>4. CASE q = t /\ r = t
    BY <1>2, <2>1, <2>2, <2>3, <2>4
  <2>5. CASE q = t /\ r # t
    BY <1>2, <2>1, <2>2, <2>3, <2>5
  <2>6. CASE q # t /\ r = t
    BY <1>2, <2>1, <2>2, <2>3, <2>6
  <2>7. CASE q # t /\ r # t
    BY <2>3, <2>7
  <2> QED
    BY <2>4, <2>5, <2>6, <2>7
<1>13. ASSUME NEW id \in (1 .. t) \ {t, head} PROVE \E q, i : Link(W, lv, q, i, id)
  <2>1. id \in (1 .. n) \ {head}
    BY <1>3
  <2>2. PICK q, i : Link(V, lev, q, i, id)
    BY <1>1, <2>1 DEF Linked
  <2>3. q \in 1 .. n /\ q # t
    BY <1>1, <1>3, <2>2 DEF Link
  <2> QED
    BY <1>7, <1>10, <2>2, <2>3
<1>14. Linked(W, t, head, lv, {t})
  <2>1. (1 .. t) \ ({t} \cup {head}) = (1 .. t) \ {t, head}
    OBVIOUS
  <2>2. \A q, i, id : Link(W, lv, q, i, id) =>
                        id \in (1 .. t) \ ({t} \cup {head}) /\ lv[id] = lv[q] - 1
    BY <1>11, <2>1
  <2>3. \A id \in (1 .. t) \ ({t} \cup {head}) : \E q, i : Link(W, lv, q, i, id)
    BY <1>13, <2>1
  <2>4. \A id, q, r, i, j : Link(W, lv, q, i, id) /\ Link(W, lv, r, j, id) => q = r /\ i = j
    BY <1>12
  <2> HIDE DEF W, lv, t
  <2> QED
    BY <2>2, <2>3, <2>4 DEF Linked
<1> QED
  BY <1>6, <1>14 DEF Tree, W, lv

\* A new root links to the old one and to the block that was split off it.
LEMMA RootAdded ==
    ASSUME NEW V, NEW n, NEW head, NEW H, NEW lev, NEW o, Tree(V, n, head, H, lev, {o}),
           lev[o] = H, NEW e \in Ents, Len(e) = 2, e[1].val = head, e[2].val = o
    PROVE  Tree(Longer(V, n, e), n + 1, n + 1, H + 1, Longer(lev, n, H + 1), {})
<1> DEFINE t == n + 1
           W == Longer(V, n, e)
           lv == Longer(lev, n, H + 1)
<1>1. /\ TreeTypes(V, n, head, H, lev, {o}) /\ Linked(V, n, head, lev, {o})
      /\ n \in Nat /\ DOMAIN V = 1 .. n /\ H \in Nat /\ head \in 1 .. n
      /\ V \in [1 .. n -> Ents] /\ lev \in [1 .. n -> 0 .. H] /\ lev[head] = H
      /\ o \in 1 .. n /\ o # head
  BY DEF Tree, TreeTypes
<1>a. DOMAIN e = 1 .. Len(e) /\ (e = <<>> <=> Len(e) = 0)
  BY EntsFacts
<1>2. DOMAIN e = 1 .. 2 /\ e # <<>>
  BY <1>a
<1>3. t \in 1 .. t /\ t \in Nat /\ t \notin 1 .. n /\ \A q \in 1 .. t : q = t \/ q \in 1 .. n
  BY <1>1
<1>4. W \in [1 .. t -> Ents] /\ W[t] = e /\ \A q \in 1 .. n : W[q] = V[q]
  BY <1>1, <1>3 DEF Longer
<1>5. /\ lv \in [1 .. t -> 0 .. H + 1] /\ lv[t] = H + 1
      /\ \A q \in 1 .. n : lv[q] = lev[q]
  BY <1>1, <1>3 DEF Longer
<1> HIDE DEF W, lv
<1>6. TreeTypes(W, t, t, H + 1, lv, {})
  <2>1. \A q \in 1 .. t : lv[q] > 0 => W[q] # <<>>
    BY <1>1, <1>2, <1>3, <1>4, <1>5 DEF TreeTypes
  <2> QED
    BY <1>1, <1>3, <1>4, <1>5, <2>1 DEF TreeTypes
<1>7. ASSUME NEW q, NEW i, NEW id, q # t PROVE Link(W, lv, q, i, id) <=> Link(V, lev, q, i, id)
  <2>1. DOMAIN W = 1 .. t
    BY <1>4
  <2>2. CASE q \in 1 .. n
    BY <1>1, <1>3, <1>4, <1>5, <1>7, <2>1, <2>2 DEF Link
  <2>3. CASE q \notin 1 .. n
    BY <1>1, <1>3, <1>7, <2>1, <2>3 DEF Link
  <2> QED
    BY <2>2, <2>3
<1>8. \A i, id : Link(W, lv, t, i, id) <=> (i = 1 /\ id = head) \/ (i = 2 /\ id = o)
  <2>1. lv[t] > 0 /\ DOMAIN W = 1 .. t
    BY <1>1, <1>4, <1>5
  <2>2. \A i : i \in DOMAIN e <=> i = 1 \/ i = 2
    BY <1>2
  <2> QED
    BY <1>3, <1>4, <2>1, <2>2 DEF Link
<1>9. ASSUME NEW q, NEW i, NEW id, Link(V, lev, q, i, id)
      PROVE  id \in 1 .. n /\ id # head /\ id # o /\ lev[id] = lev[q] - 1 /\ q \in 1 .. n
  BY <1>1, <1>9 DEF Linked, Link
<1>10. ASSUME NEW q, NEW i, NEW id, Link(W, lv, q, i, id)
       PROVE  id \in (1 .. t) \ {t} /\ lv[id] = lv[q] - 1
  <2>1. CASE q = t
    <3>1. id \in 1 .. n /\ lev[id] = H
      BY <1>1, <1>8, <1>10, <2>1
    <3> QED
      BY <1>1, <1>3, <1>5, <2>1, <3>1
  <2>2. CASE q # t
    <3>1. id \in 1 .. n /\ lev[id] = lev[q] - 1 /\ q \in 1 .. n
      BY <1>7, <1>9, <1>10, <2>2
    <3> QED
      BY <1>1, <1>3, <1>5, <3>1
  <2> QED
    BY <2>1, <2>2
<1>11. ASSUME NEW id, NEW q, NEW r, NEW i, NEW j, Link(W, lv, q, i, id), Link(W, lv, r, j, id)
       PROVE  q = r /\ i = j
  <2>1. CASE q = t /\ r = t
    BY <1>1, <1>8, <1>11, <2>1
  <2>2. CASE q # t /\ r # t
    BY <1>1, <1>7, <1>11, <2>2 DEF Linked
  <2>3. CASE q = t /\ r # t
    BY <1>7, <1>8, <1>9, <1>11, <2>3
  <2>4. CASE q # t /\ r = t
    BY <1>7, <1>8, <1>9, <1>11, <2>4
  <2> QED
    BY <2>1, <2>2, <2>3, <2>4
<1>12. ASSUME NEW id \in (1 .. t) \ {t} PROVE \E q, i : Link(W, lv, q, i, id)
  <2>1. id \in 1 .. n
    BY <1>3
  <2>2. CASE id = head \/ id = o
    BY <1>8, <2>2
  <2>3. CASE id # head /\ id # o
    <3>1. PICK q, i : Link(V, lev, q, i, id)
      BY <1>1, <2>1, <2>3 DEF Linked
    <3>2. q # t
      BY <1>3, <1>9, <3>1
    <3> QED
      BY <1>7, <3>1, <3>2
  <2> QED
    BY <2>2, <2>3
<1>13. Linked(W, t, t, lv, {})
  BY <1>10, <1>11, <1>12 DEF Linked
<1> QED
  BY <1>6, <1>13 DEF Tree, W, lv

-----------------------------------------------------------------------------
(* A block is changed in memory, or a new one made. *)

LEMMA LayerFacts ==
    ASSUME NEW b, NEW S, NEW F, Layer(b, S, F)
    PROVE  /\ Sane(b) /\ CleanBut(b, S) /\ FitsBut(b, F) /\ b \in BtRecord /\ b.cnt \in Nat
           /\ b.head \in Nat /\ b.H \in Nat /\ b.hdr \in Heads
           /\ b.mem \in Blocks /\ b.mem \in [DOMAIN b.mem -> Ents] /\ DOMAIN b.mem \subseteq 1 .. b.cnt
           /\ b.file \in Blocks /\ b.file \in [DOMAIN b.file -> Ents]
           /\ DOMAIN b.file \subseteq 1 .. b.cnt /\ b.dirty \in Seq(Nat) /\ b.cache \in Seq(Nat)
<1>1. Sane(b) /\ CleanBut(b, S) /\ FitsBut(b, F) /\ b \in BtRecord
  BY DEF Layer, Sane
<1>2. /\ b.mem \in Blocks /\ b.file \in Blocks /\ b.cnt \in Nat /\ b.head \in Nat /\ b.H \in Nat
      /\ b.hdr \in Heads /\ b.dirty \in Seq(Nat) /\ b.cache \in Seq(Nat)
  BY <1>1 DEF BtRecord
<1>3. DOMAIN b.mem \subseteq 1 .. b.cnt /\ DOMAIN b.file \subseteq 1 .. b.cnt
  BY <1>1 DEF Sane
<1> QED
  BY <1>1, <1>2, <1>3, BlocksAre

LEMMA BlockFacts ==
    ASSUME NEW b, NEW S, NEW F, Layer(b, S, F), NEW id
    PROVE  BlockOf(b, id) \in Ents /\ (id \in DOMAIN b.mem => BlockOf(b, id) = b.mem[id])
BY LayerFacts, NewBlockFits DEF BlockOf

\* The fields of g but mem are those of b.
OnlyMem(b, g) ==
    /\ g \in BtRecord /\ g.cnt = b.cnt /\ g.head = b.head /\ g.H = b.H /\ g.hdr = b.hdr
    /\ g.cache = b.cache /\ g.dirty = b.dirty /\ g.file = b.file

Changed(b, id, e, g) == g = [b EXCEPT !.mem[id] = e]

\* What is known of the result.
ChangedFrom(b, S, F, id, e, g) ==
    /\ Layer(g, S \cup {id}, F \cup {id})
    /\ Size(e) < BLOCK => Layer(g, S \cup {id}, F \ {id})
    /\ OnlyMem(b, g) /\ DOMAIN g.mem = DOMAIN b.mem /\ g.mem[id] = e
    /\ \A x \in Nat : BlockOf(g, x) = IF x = id THEN e ELSE BlockOf(b, x)

LEMMA ChangeFacts ==
    ASSUME NEW b, NEW S, NEW F, Layer(b, S, F), NEW id \in DOMAIN b.mem, NEW e \in Ents,
           NEW g, Changed(b, id, e, g)
    PROVE  ChangedFrom(b, S, F, id, e, g)
<1> DEFINE m == [b.mem EXCEPT ![id] = e]
<1>0. /\ Sane(b) /\ CleanBut(b, S) /\ FitsBut(b, F) /\ b \in BtRecord /\ b.cnt \in Nat
      /\ b.mem \in Blocks /\ b.mem \in [DOMAIN b.mem -> Ents] /\ DOMAIN b.mem \subseteq 1 .. b.cnt
  BY LayerFacts
<1>1. /\ m \in [DOMAIN b.mem -> Ents] /\ DOMAIN m = DOMAIN b.mem /\ m[id] = e
      /\ \A x \in DOMAIN b.mem : x # id => m[x] = b.mem[x]
  BY <1>0
<1>2. DOMAIN b.mem \in SUBSET Nat
  BY <1>0
<1>3. m \in Blocks
  BY <1>1, <1>2, AreBlocks
<1>4. g = [b EXCEPT !.mem = m]
  BY <1>0 DEF Changed
<1> HIDE DEF m
<1>5. OnlyMem(b, g) /\ g.mem = m
  BY <1>0, <1>3, <1>4, MemSet DEF OnlyMem
<1>6. Sane(g)
  BY <1>0, <1>1, <1>5 DEF Sane, OnlyMem
<1>7. CleanBut(g, S \cup {id})
  BY <1>0, <1>1, <1>5 DEF CleanBut, OnlyMem
<1>8. FitsBut(g, F \cup {id}) /\ (Size(e) < BLOCK => FitsBut(g, F \ {id}))
  BY <1>0, <1>1, <1>5 DEF FitsBut, OnlyMem
<1>9. \A x \in Nat : BlockOf(g, x) = IF x = id THEN e ELSE BlockOf(b, x)
  BY <1>0, <1>1, <1>5 DEF BlockOf, OnlyMem
<1> QED
  BY <1>1, <1>5, <1>6, <1>7, <1>8, <1>9 DEF Layer, ChangedFrom

\* getblock() of a number that was never used makes an empty block.
LEMMA NewFacts ==
    ASSUME NEW b, NEW S, NEW F, Layer(b, S, F)
    PROVE  LET t == b.cnt + 1
               g == Getblock([b EXCEPT !.cnt = t], t)
           IN  /\ Layer(g, S \cup {t}, F)
               /\ g.cnt = t /\ g.head = b.head /\ g.H = b.H /\ g.dirty = b.dirty /\ g.file = b.file
               /\ DOMAIN g.mem = DOMAIN b.mem \cup {t} /\ g.mem[t] = NewBlock
               /\ t \notin DOMAIN b.mem /\ t \in Nat
               /\ \A x \in 1 .. b.cnt : BlockOf(g, x) = BlockOf(b, x)
<1> DEFINE t == b.cnt + 1
           h == [b EXCEPT !.cnt = t]
           g == Getblock(h, t)
<1>0. /\ Sane(b) /\ CleanBut(b, S) /\ FitsBut(b, F) /\ b \in BtRecord /\ b.cnt \in Nat
      /\ DOMAIN b.mem \subseteq 1 .. b.cnt /\ DOMAIN b.file \subseteq 1 .. b.cnt
  BY LayerFacts
<1>1. t \in Nat /\ t \in 1 .. t /\ t \notin 1 .. b.cnt /\ 1 .. b.cnt \subseteq 1 .. t
      /\ 1 .. b.cnt \subseteq Nat
  BY <1>0
<1>2. /\ h \in BtRecord /\ h.cnt = t /\ h.head = b.head /\ h.H = b.H /\ h.mem = b.mem
      /\ h.cache = b.cache /\ h.dirty = b.dirty /\ h.file = b.file
  BY <1>0, <1>1 DEF BtRecord
<1> HIDE DEF t, h
<1>3. Sane(h)
  BY <1>0, <1>1, <1>2 DEF Sane
<1>4. CleanBut(h, S) /\ FitsBut(h, F)
  BY <1>0, <1>2 DEF CleanBut, FitsBut
<1>5. t \notin DOMAIN h.mem /\ t \notin DOMAIN h.file
  BY <1>0, <1>1, <1>2
<1>6. /\ Layer(g, S \cup {t}, F) /\ SameTree(h, g) /\ g.dirty = h.dirty /\ g.file = h.file
      /\ DOMAIN g.mem = DOMAIN h.mem \cup {t}
  <2>1. Layer(h, S, F)
    BY <1>3, <1>4 DEF Layer
  <2>2. t \in 1 .. h.cnt
    BY <1>1, <1>2
  <2>3. /\ Layer(g, IF t \in DOMAIN h.mem \cup DOMAIN h.file THEN S ELSE S \cup {t}, F)
        /\ SameTree(h, g) /\ g.dirty = h.dirty /\ g.file = h.file
        /\ DOMAIN g.mem = DOMAIN h.mem \cup {t}
    BY <1>5, <2>1, <2>2, GetblockFacts
  <2> QED
    BY <1>5, <2>3
<1> HIDE DEF g
<1>7. \A x : BlockOf(h, x) = BlockOf(b, x)
  BY <1>2 DEF BlockOf
<1>8. \A x \in 1 .. b.cnt : BlockOf(g, x) = BlockOf(b, x)
  BY <1>1, <1>6, <1>7 DEF SameTree
<1>9. BlockOf(g, t) = NewBlock /\ BlockOf(g, t) = g.mem[t]
  BY <1>1, <1>5, <1>6 DEF SameTree, BlockOf
<1> QED
  BY <1>1, <1>2, <1>5, <1>6, <1>8, <1>9 DEF SameTree, t, h, g

-----------------------------------------------------------------------------
(* The tree of a Btree. *)

Shown(b) == [id \in 1 .. b.cnt |-> BlockOf(b, id)]

TreeOf(b, lev, O) == Tree(Shown(b), b.cnt, b.head, b.H, lev, O)

\* Every block was made, but for those of S.
HasAll(b, S) == 1 .. b.cnt \subseteq DOMAIN b.mem \cup DOMAIN b.file \cup S

\* b and g have the same tree.
Shows(b, g) == Shown(g) = Shown(b) /\ g.cnt = b.cnt /\ g.head = b.head /\ g.H = b.H

LEMMA SameShown ==
    ASSUME NEW b, NEW g, b.cnt \in Nat, SameTree(b, g), NEW lev, NEW O, TreeOf(b, lev, O)
    PROVE  Shown(g) = Shown(b) /\ Shows(b, g) /\ TreeOf(g, lev, O)
<1>1. \A id \in 1 .. b.cnt : BlockOf(g, id) = BlockOf(b, id)
  BY DEF SameTree
<1>2. g.cnt = b.cnt /\ g.head = b.head /\ g.H = b.H
  BY DEF SameTree
<1>3. Shown(g) = Shown(b)
  BY <1>1, <1>2 DEF Shown
<1> QED
  BY <1>2, <1>3 DEF TreeOf, Shows

\* What has been read on the way down to the height H - n.  A root that is
\* new is the only block of the tree, and is in S.
Descending(b, S, lev, n, d) ==
    /\ Layer(d.b, S, {}) /\ SameTree(b, d.b)
    /\ d.b.hdr = b.hdr /\ d.b.dirty = b.dirty /\ d.b.file = b.file
    /\ Len(d.path) = n + 1 /\ d.path[1] = b.head
    /\ \A i \in 1 .. n + 1 : /\ d.path[i] \in 1 .. b.cnt /\ d.path[i] \in DOMAIN d.b.mem
                             /\ lev[d.path[i]] = b.H + 1 - i

Descents == [b : BtRecord, path : Seq(Nat)]

Descendable(b, S, lev) ==
    /\ Layer(b, S, {}) /\ HasAll(b, S) /\ TreeOf(b, lev, {})
    /\ \/ S = {}
       \/ S = {b.head} /\ b.H = 0 /\ b.head \notin DOMAIN b.mem \cup DOMAIN b.file

LEMMA TopFacts ==
    ASSUME NEW b, NEW S, NEW lev, Descendable(b, S, lev)
    PROVE  Top(b) \in Descents /\ Descending(b, S, lev, 0, Top(b))
<1> DEFINE g == Getblock(b, b.head)
           d == Top(b)
<1>1. /\ b.cnt \in Nat /\ b.head \in 1 .. b.cnt /\ b.head \in Nat /\ b.H \in Nat
      /\ lev[b.head] = b.H
  BY LayerFacts DEF Descendable, TreeOf, Tree, TreeTypes
<1>2. b.head \in DOMAIN b.mem => b.head \notin S
  BY DEF Descendable
<1>3. (IF b.head \in DOMAIN b.mem \cup DOMAIN b.file THEN S ELSE S \cup {b.head}) = S
  BY <1>1 DEF Descendable, HasAll
<1>4. /\ Layer(g, S, {}) /\ SameTree(b, g) /\ g.hdr = b.hdr /\ g.dirty = b.dirty
      /\ g.file = b.file /\ DOMAIN g.mem = DOMAIN b.mem \cup {b.head}
  <2>1. Layer(b, S, {})
    BY DEF Descendable
  <2>2. /\ Layer(g, IF b.head \in DOMAIN b.mem \cup DOMAIN b.file THEN S ELSE S \cup {b.head}, {})
        /\ SameTree(b, g) /\ g.hdr = b.hdr /\ g.dirty = b.dirty
        /\ g.file = b.file /\ DOMAIN g.mem = DOMAIN b.mem \cup {b.head}
    BY <1>1, <1>2, <2>1, GetblockFacts
  <2> QED
    BY <1>3, <2>2
<1>5. g \in BtRecord
  BY <1>4, LayerFacts
<1>6. d = [b |-> g, path |-> <<b.head>>]
  BY DEF Top
<1> HIDE DEF g, d
<1>7. d.b = g /\ d.path = <<b.head>> /\ d \in Descents
  BY <1>1, <1>5, <1>6 DEF Descents
<1>8. Len(d.path) = 0 + 1 /\ d.path[1] = b.head /\ \A i \in 1 .. 0 + 1 : i = 1
  BY <1>7
<1>9. \A i \in 1 .. 0 + 1 : /\ d.path[i] \in 1 .. b.cnt /\ d.path[i] \in DOMAIN d.b.mem
                             /\ lev[d.path[i]] = b.H + 1 - i
  BY <1>1, <1>4, <1>7, <1>8
<1>10. Descending(b, S, lev, 0, d)
  BY <1>4, <1>7, <1>8, <1>9 DEF Descending
<1> QED
  BY <1>7, <1>10 DEF d

\* One step of the descent follows the link of its slot.
Lower(V, lev, k, insert, n, d, e) ==
    LET p == d.path[n]
        slot == IF insert THEN InsertSlot(V[p], k) ELSE SearchSlot(V[p], k)
    IN  Link(V, lev, p, slot, e.path[n + 1]) /\ \A i \in 1 .. n : e.path[i] = d.path[i]

LEMMA DownFacts ==
    ASSUME NEW b, NEW S, NEW lev, Descendable(b, S, lev), NEW k, NEW insert \in BOOLEAN,
           NEW n \in 1 .. b.H, NEW d \in Descents, Descending(b, S, lev, n - 1, d)
    PROVE  LET e == Down(d, k, insert)
           IN  e \in Descents /\ Descending(b, S, lev, n, e) /\ Lower(Shown(b), lev, k, insert, n, d, e)
<1>0. /\ b.cnt \in Nat /\ b.H \in Nat /\ n \in Nat /\ n >= 1 /\ n <= b.H
      /\ Shown(b) \in [1 .. b.cnt -> Ents] /\ Linked(Shown(b), b.cnt, b.head, lev, {})
      /\ TreeTypes(Shown(b), b.cnt, b.head, b.H, lev, {})
      /\ S = {} /\ d.path \in Seq(Nat) /\ d.b \in BtRecord
  <2>1. b.cnt \in Nat /\ b.H \in Nat
    BY LayerFacts DEF Descendable
  <2>2. n \in Nat /\ n >= 1 /\ n <= b.H /\ b.H # 0
    BY <2>1
  <2>3. TreeTypes(Shown(b), b.cnt, b.head, b.H, lev, {}) /\ Linked(Shown(b), b.cnt, b.head, lev, {})
    BY DEF Descendable, TreeOf, Tree
  <2>4. S = {}
    BY <2>2 DEF Descendable
  <2>5. d.path \in Seq(Nat) /\ d.b \in BtRecord
    BY DEF Descents
  <2> QED
    BY <2>1, <2>2, <2>3, <2>4, <2>5 DEF TreeTypes
<1> DEFINE p == d.path[n]
           ents == d.b.mem[p]
<1>1. /\ p \in 1 .. b.cnt /\ p \in DOMAIN d.b.mem /\ lev[p] = b.H + 1 - n /\ Last(d.path) = p
      /\ Len(d.path) = n
  <2>1. n \in 1 .. (n - 1) + 1 /\ (n - 1) + 1 = n
    BY <1>0
  <2>2. Len(d.path) = n
    BY <2>1 DEF Descending
  <2> QED
    BY <2>1, <2>2 DEF Descending, Last
<1>2. lev[p] \in Nat /\ lev[p] > 0
  BY <1>0, <1>1
<1>3. ents = Shown(b)[p] /\ ents \in Ents /\ ents # <<>>
  <2>1. BlockOf(d.b, p) = ents /\ BlockOf(d.b, p) \in Ents
    BY <1>1, BlockFacts DEF Descending
  <2>2. BlockOf(d.b, p) = BlockOf(b, p) /\ p \in Nat
    BY <1>0, <1>1 DEF Descending, SameTree
  <2>3. Shown(b)[p] = ents
    BY <1>1, <2>1, <2>2 DEF Shown
  <2> QED
    BY <1>0, <1>1, <1>2, <2>1, <2>3 DEF TreeTypes
<1> DEFINE slot == IF insert THEN InsertSlot(ents, k) ELSE SearchSlot(ents, k)
           id == ents[slot].val
<1>4. slot \in DOMAIN ents
  BY <1>3, SlotFacts
<1> HIDE DEF slot
<1>5. Link(Shown(b), lev, p, slot, id)
  BY <1>0, <1>1, <1>2, <1>3, <1>4 DEF Link
<1>a. slot = IF insert THEN InsertSlot(Shown(b)[d.path[n]], k) ELSE SearchSlot(Shown(b)[d.path[n]], k)
  BY <1>3 DEF slot
<1>b. Link(Shown(b), lev, d.path[n], slot, id)
  BY <1>5
<1>6. id \in 1 .. b.cnt /\ lev[id] = lev[p] - 1
  <2>1. \A q, i, x : Link(Shown(b), lev, q, i, x) => x \in 1 .. b.cnt /\ lev[x] = lev[q] - 1
    BY <1>0 DEF Linked
  <2> HIDE DEF id, p
  <2> QED
    BY <1>5, <2>1
<1> DEFINE g == Getblock(d.b, id)
           e == Down(d, k, insert)
           path2 == Append(d.path, id)
<1>7. e = [b |-> g, path |-> path2]
  BY <1>1 DEF Down, slot
<1> HIDE DEF id, ents, p
<1>8. Layer(d.b, S, {}) /\ d.b.cnt = b.cnt /\ SameTree(b, d.b)
      /\ d.b.hdr = b.hdr /\ d.b.dirty = b.dirty /\ d.b.file = b.file
  BY DEF Descending, SameTree
<1>9. id \in DOMAIN d.b.mem \cup DOMAIN d.b.file
  <2>1. id \in DOMAIN b.mem \cup DOMAIN b.file
    BY <1>0, <1>6 DEF Descendable, HasAll
  <2> QED
    BY <1>8, <2>1 DEF SameTree
<1>10. /\ Layer(g, S, {}) /\ SameTree(d.b, g) /\ g.hdr = b.hdr /\ g.dirty = b.dirty
       /\ g.file = b.file /\ DOMAIN g.mem = DOMAIN d.b.mem \cup {id}
  <2>1. id \in 1 .. d.b.cnt /\ id \notin S
    BY <1>0, <1>6, <1>8
  <2>2. /\ Layer(g, IF id \in DOMAIN d.b.mem \cup DOMAIN d.b.file THEN S ELSE S \cup {id}, {})
        /\ SameTree(d.b, g) /\ g.hdr = d.b.hdr /\ g.dirty = d.b.dirty
        /\ g.file = d.b.file /\ DOMAIN g.mem = DOMAIN d.b.mem \cup {id}
    BY <1>8, <2>1, GetblockFacts
  <2> QED
    BY <1>8, <1>9, <2>2
<1>11. SameTree(b, g)
  BY <1>8, <1>10 DEF SameTree
<1> HIDE DEF g, e
<1>12. path2 \in Seq(Nat) /\ Len(path2) = n + 1 /\ path2[n + 1] = id
       /\ \A i \in 1 .. n : path2[i] = d.path[i]
  BY <1>0, <1>1, <1>6, SMTT(60)
<1> HIDE DEF path2
<1>13. e \in Descents /\ e.b = g /\ e.path = path2
  BY <1>7, <1>10, <1>12, LayerFacts DEF Descents
<1>14. ASSUME NEW i \in 1 .. n + 1
       PROVE  path2[i] \in 1 .. b.cnt /\ path2[i] \in DOMAIN g.mem /\ lev[path2[i]] = b.H + 1 - i
  <2>1. CASE i = n + 1
    <3>1. (b.H + 1 - n) - 1 = b.H + 1 - (n + 1)
      BY <1>0
    <3> QED
      BY <1>1, <1>6, <1>10, <1>12, <2>1, <3>1
  <2>2. CASE i # n + 1
    <3>1. i \in 1 .. n /\ (n - 1) + 1 = n
      BY <1>0, <2>2
    <3> QED
      BY <1>10, <1>12, <3>1 DEF Descending
  <2> QED
    BY <2>1, <2>2
<1>15. path2[1] = b.head
  <2>1. 1 \in 1 .. n
    BY <1>0
  <2> QED
    BY <1>12, <2>1 DEF Descending
<1>16. Descending(b, S, lev, n, e)
  BY <1>10, <1>11, <1>12, <1>13, <1>14, <1>15 DEF Descending
<1>17. Lower(Shown(b), lev, k, insert, n, d, e)
  BY <1>12, <1>13, <1>a, <1>b DEF Lower
<1> QED
  BY <1>13, <1>16, <1>17 DEF e

\* What each step of the descent keeps is true of where it ends.
LEMMA DescentInduction ==
    ASSUME NEW b, b.H \in Nat, NEW k, NEW insert, NEW P, Top(b) \in P[0],
           \A n \in 1 .. b.H : \A d \in P[n - 1] : Down(d, k, insert) \in P[n]
    PROVE  Descend(b, k, insert) \in P[b.H]
<1> DEFINE step == [n \in 1 .. b.H |-> [d \in P[n - 1] |-> Down(d, k, insert)]]
           D1 == Descent(b, k, insert)
<1>1. b.H \in Nat
  OBVIOUS
<1>2. Top(b) \in P[0]
  OBVIOUS
<1>3. \A n \in 1 .. b.H : \A d \in P[n - 1] : step[n][d] \in P[n] /\ step[n][d] = Down(d, k, insert)
  OBVIOUS
<1> HIDE DEF step
<1>a. \A n \in 1 .. b.H : \A d \in P[n - 1] : step[n][d] \in P[n]
  BY <1>3
<1>b. Stages(b.H, Top(b), P, step)
  BY <1>1, <1>2, <1>a DEF Stages
<1>c. PICK f : Staged(b.H, Top(b), P, step, f)
  BY <1>b, StagesExist
<1>4. /\ f = [n \in 0 .. b.H |-> f[n]]
      /\ f[0] = Top(b) /\ \A n \in 1 .. b.H : f[n] = step[n][f[n - 1]]
      /\ \A n \in 0 .. b.H : f[n] \in P[n]
  BY <1>c DEF Staged
<1>5. \A n \in 1 .. b.H : f[n] = Down(f[n - 1], k, insert)
  <2> SUFFICES ASSUME NEW n \in 1 .. b.H PROVE f[n] = Down(f[n - 1], k, insert)
    OBVIOUS
  <2>1. n - 1 \in 0 .. b.H
    BY <1>1
  <2> QED
    BY <1>3, <1>4, <2>1
<1>6. f = [n \in 0 .. b.H |-> IF n = 0 THEN Top(b) ELSE Down(f[n - 1], k, insert)]
  <2>a. \A n \in 0 .. b.H : n = 0 \/ n \in 1 .. b.H
    BY <1>1
  <2>b. f[0] = Top(b)
    BY <1>4
  <2>1. \A n \in 0 .. b.H : f[n] = IF n = 0 THEN Top(b) ELSE Down(f[n - 1], k, insert)
    BY <1>5, <2>a, <2>b
  <2> QED
    BY <1>4, <2>1
<1>7. D1 = [n \in 0 .. b.H |-> IF n = 0 THEN Top(b) ELSE Down(D1[n - 1], k, insert)]
  BY <1>6 DEF Descent
<1> HIDE DEF D1
<1>8. D1[0] = Top(b) /\ \A n \in 1 .. b.H : D1[n] = Down(D1[n - 1], k, insert)
  <2>1. 0 \in 0 .. b.H /\ \A n \in 1 .. b.H : n \in 0 .. b.H /\ n # 0
    BY <1>1
  <2> QED
    BY <1>7, <2>1
<1>9. \A n \in 1 .. b.H : D1[n - 1] \in P[n - 1] => D1[n] \in P[n]
  BY <1>8
<1>10. \A n \in 0 .. b.H : D1[n] \in P[n]
  BY <1>1, <1>2, <1>8, <1>9, StagesHold
<1>11. D1[b.H] \in P[b.H]
  <2>1. b.H \in 0 .. b.H
    BY <1>1
  <2> QED
    BY <1>10, <2>1
<1> QED
  BY <1>11 DEF Descend, D1

\* The descent of searchR and insertR.
LEMMA DescentFacts ==
    ASSUME NEW b, NEW S, NEW lev, Descendable(b, S, lev), NEW k, NEW insert \in BOOLEAN
    PROVE  /\ Descend(b, k, insert) \in Descents
           /\ Descending(b, S, lev, b.H, Descend(b, k, insert))
           /\ HasAll(Descend(b, k, insert).b, {})
<1> DEFINE P == [n \in 0 .. b.H |-> {d \in Descents : Descending(b, S, lev, n, d)}]
           d == Descend(b, k, insert)
<1>1. b.H \in Nat /\ b.H \in 0 .. b.H
  BY LayerFacts DEF Descendable
<1>2. Top(b) \in P[0]
  BY <1>1, TopFacts
<1>3. ASSUME NEW n \in 1 .. b.H, NEW e \in P[n - 1] PROVE Down(e, k, insert) \in P[n]
  <2>1. n - 1 \in 0 .. b.H /\ n \in 0 .. b.H
    BY <1>1
  <2>2. e \in Descents /\ Descending(b, S, lev, n - 1, e)
    BY <2>1
  <2>3. Down(e, k, insert) \in Descents /\ Descending(b, S, lev, n, Down(e, k, insert))
    <3>1. LET c == Down(e, k, insert)
          IN  c \in Descents /\ Descending(b, S, lev, n, c) /\ Lower(Shown(b), lev, k, insert, n, e, c)
      BY <2>2, DownFacts
    <3> QED
      BY <3>1
  <2> QED
    BY <2>1, <2>3
<1> HIDE DEF P
<1>4. d \in P[b.H]
  BY <1>1, <1>2, <1>3, DescentInduction
<1>5. d \in Descents /\ Descending(b, S, lev, b.H, d)
  BY <1>1, <1>4 DEF P
<1> HIDE DEF d
<1>6. HasAll(d.b, {})
  <2>1. SameTree(b, d.b) /\ d.b.file = b.file
    BY <1>5 DEF Descending
  <2>2. b.head \in DOMAIN d.b.mem
    <3>1. 1 \in 1 .. b.H + 1
      BY <1>1
    <3> QED
      BY <1>5, <3>1 DEF Descending
  <2> QED
    BY <2>1, <2>2 DEF HasAll, SameTree, Descendable
<1> QED
  BY <1>5, <1>6 DEF d

-----------------------------------------------------------------------------
(* A block is split: its halves are put, and the new one is not linked. *)

LEMMA LayerMore ==
    ASSUME NEW b, NEW S, NEW F, Layer(b, S, F), NEW S2, S \subseteq S2
    PROVE  Layer(b, S2, F)
BY DEF Layer, CleanBut

\* The first m entries, and the others.
Halves(ents, m, a, e) ==
    /\ m \in 1 .. Len(ents) - 1
    /\ a \in Ents /\ Len(a) = m /\ \A i \in 1 .. m : a[i] = ents[i]
    /\ e \in Ents /\ Len(e) = Len(ents) - m /\ \A i \in 1 .. Len(ents) - m : e[i] = ents[i + m]

SplitInto(b, S, lev, id, s) ==
    /\ Layer(s.b, S \ {id}, {}) /\ HasAll(s.b, {})
    /\ TreeOf(s.b, Longer(lev, b.cnt, lev[id]), {b.cnt + 1})
    /\ s.b.head = b.head /\ s.b.H = b.H /\ s.b.cnt = b.cnt + 1 /\ s.b.dirty # <<>>
    /\ DOMAIN b.mem \subseteq DOMAIN s.b.mem /\ BlockOf(s.b, id) # <<>>
    /\ s.up \in Seq(Item) /\ Len(s.up) = 1 /\ s.up[1].val = b.cnt + 1
    /\ \E m, a, e : /\ Halves(Shown(b)[id], m, a, e) /\ s.up[1].key = e[1].key
                   /\ Shown(s.b) = Longer([Shown(b) EXCEPT ![id] = a], b.cnt, e)

LEMMA SplitFacts ==
    ASSUME NEW b, NEW S, NEW lev, NEW id, Layer(b, S, {id}), HasAll(b, {}), TreeOf(b, lev, {}),
           id \in DOMAIN b.mem, Full(b.mem[id]), 2 + EntrySize * (Len(b.mem[id]) - 1) < BLOCK
    PROVE  SplitInto(b, S, lev, id, Split(b, id))
<1> DEFINE t == b.cnt + 1
           g == Getblock([b EXCEPT !.cnt = t], t)
           ents == g.mem[id]
           n == Kept(ents)
           e1 == SubSeq(ents, 1, n)
           e2 == g.mem[t] \o SubSeq(ents, n + 1, Len(ents))
           h == [g EXCEPT !.mem[id] = e1]
           moved == [g EXCEPT !.mem[id] = e1, !.mem[t] = e2]
           u == Entry(ents[n + 1].key, t)
           s == Split(b, id)
<1>1. /\ Layer(g, S \cup {t}, {id})
      /\ g.cnt = t /\ g.head = b.head /\ g.H = b.H
      /\ DOMAIN g.mem = DOMAIN b.mem \cup {t} /\ g.mem[t] = NewBlock
      /\ t \notin DOMAIN b.mem /\ t \in Nat /\ g.file = b.file
      /\ \A x \in 1 .. b.cnt : BlockOf(g, x) = BlockOf(b, x)
  BY NewFacts
<1>2. s = [b |-> Putblock(Putblock(moved, id), t), up |-> <<u>>]
  BY DEF Split
<1>3. /\ b.cnt \in Nat /\ DOMAIN b.mem \subseteq 1 .. b.cnt /\ id \in 1 .. b.cnt /\ id # t
      /\ id \in DOMAIN g.mem /\ t \in DOMAIN g.mem /\ id \in Nat
      /\ g \in BtRecord /\ g.mem \in [DOMAIN g.mem -> Ents]
  <2>1. b.cnt \in Nat /\ DOMAIN b.mem \subseteq 1 .. b.cnt
    BY LayerFacts
  <2> HIDE DEF g
  <2>2. g \in BtRecord /\ g.mem \in [DOMAIN g.mem -> Ents]
    BY <1>1, LayerFacts
  <2> QED
    BY <1>1, <2>1, <2>2
<1>4. ents = b.mem[id] /\ ents \in Ents
  <2> HIDE DEF g
  <2>1. BlockOf(g, id) = ents /\ BlockOf(b, id) = b.mem[id]
    BY <1>1, <1>3, BlockFacts
  <2> QED
    BY <1>1, <1>3, <2>1
<1> HIDE DEF g, ents
<1> DEFINE L == Len(ents)
<1>5. /\ n \in 1 .. L - 1 /\ L \in Nat
      /\ 2 + EntrySize * n < BLOCK /\ 2 + EntrySize * (L - n) < BLOCK
  BY <1>4, KeptFacts
<1> HIDE DEF n, L
<1>6. /\ e1 \in Ents /\ Len(e1) = n /\ \A i \in 1 .. n : e1[i] = ents[i]
  BY <1>4, <1>5, SubSeqProperties DEF Ents, L
<1>7. /\ e2 \in Ents /\ Len(e2) = L - n /\ \A i \in 1 .. L - n : e2[i] = ents[i + n]
  <2> DEFINE c == SubSeq(ents, n + 1, Len(ents))
  <2>1. c \in Seq(Item) /\ Len(c) = L - n /\ \A i \in 1 .. L - n : c[i] = ents[n + i]
    BY <1>4, <1>5, SubSeqProperties DEF Ents, L
  <2> HIDE DEF c
  <2>2. e2 = <<>> \o c
    BY <1>1 DEF NewBlock, c
  <2>3. <<>> \o c = c
    BY <2>1, ConcatEmptySeq
  <2>4. \A i \in 1 .. L - n : c[i] = ents[i + n]
    BY <1>5, <2>1
  <2> QED
    BY <2>1, <2>2, <2>3, <2>4 DEF Ents
<1> HIDE DEF e1, e2
<1>8. Size(e1) < BLOCK /\ Size(e2) < BLOCK /\ e1 # <<>> /\ e2 # <<>>
  <2>1. Size(e1) < BLOCK /\ Size(e2) < BLOCK
    BY <1>5, <1>6, <1>7 DEF Size
  <2>2. Len(<<>>) = 0
    OBVIOUS
  <2> QED
    BY <1>5, <1>6, <1>7, <2>1, <2>2
<1>9. /\ Layer(h, S \cup {t} \cup {id}, {}) /\ OnlyMem(g, h) /\ DOMAIN h.mem = DOMAIN g.mem
      /\ \A x \in Nat : BlockOf(h, x) = IF x = id THEN e1 ELSE BlockOf(g, x)
  <2>1. /\ Layer(h, S \cup {t} \cup {id}, {id} \ {id}) /\ OnlyMem(g, h) /\ DOMAIN h.mem = DOMAIN g.mem
        /\ \A x \in Nat : BlockOf(h, x) = IF x = id THEN e1 ELSE BlockOf(g, x)
    <3>1. Changed(g, id, e1, h)
      BY DEF Changed
    <3>2. Layer(g, S \cup {t}, {id}) /\ id \in DOMAIN g.mem /\ e1 \in Ents
      BY <1>1, <1>3, <1>6
    <3> HIDE DEF h, t
    <3>3. ChangedFrom(g, S \cup {t}, {id}, id, e1, h)
      BY <3>1, <3>2, ChangeFacts
    <3> QED
      BY <1>8, <3>3 DEF ChangedFrom
  <2> HIDE DEF h
  <2>2. {id} \ {id} = {}
    OBVIOUS
  <2> QED
    BY <2>1, <2>2
<1>10. moved = [h EXCEPT !.mem[t] = e2]
  BY <1>3 DEF h
<1> HIDE DEF h, moved
<1>11. /\ Layer(moved, S \cup {t} \cup {id}, {}) /\ OnlyMem(h, moved)
       /\ DOMAIN moved.mem = DOMAIN h.mem
       /\ \A x \in Nat : BlockOf(moved, x) = IF x = t THEN e2 ELSE BlockOf(h, x)
  <2>1. /\ Layer(moved, S \cup {t} \cup {id} \cup {t}, {} \ {t}) /\ OnlyMem(h, moved)
        /\ DOMAIN moved.mem = DOMAIN h.mem
        /\ \A x \in Nat : BlockOf(moved, x) = IF x = t THEN e2 ELSE BlockOf(h, x)
    <3>1. t \in DOMAIN h.mem /\ Changed(h, t, e2, moved)
      BY <1>3, <1>9, <1>10 DEF Changed
    <3>2. Layer(h, S \cup {t} \cup {id}, {}) /\ t \in DOMAIN h.mem /\ e2 \in Ents
      BY <1>7, <1>9, <3>1
    <3> HIDE DEF t
    <3>3. ChangedFrom(h, S \cup {t} \cup {id}, {}, t, e2, moved)
      BY <3>1, <3>2, ChangeFacts
    <3> QED
      BY <1>8, <3>3 DEF ChangedFrom
  <2>2. {} \ {t} = {} /\ S \cup {t} \cup {id} \cup {t} = S \cup {t} \cup {id}
    OBVIOUS
  <2> QED
    BY <2>1, <2>2
<1> DEFINE p1 == Putblock(moved, id)
           p2 == Putblock(p1, t)
<1>12. /\ Layer(p1, (S \cup {t} \cup {id}) \ {id}, {}) /\ SameTree(moved, p1)
       /\ p1.mem = moved.mem /\ DOMAIN moved.file \subseteq DOMAIN p1.file
  <2>1. id \in DOMAIN moved.mem
    BY <1>3, <1>9, <1>11
  <2> QED
    BY <1>11, <2>1, PutblockFacts
<1> HIDE DEF p1
<1>13. /\ Layer(p2, ((S \cup {t} \cup {id}) \ {id}) \ {t}, {}) /\ SameTree(p1, p2)
       /\ p2.mem = p1.mem /\ p2.dirty # <<>> /\ DOMAIN p1.file \subseteq DOMAIN p2.file
  <2>1. t \in DOMAIN p1.mem
    BY <1>3, <1>9, <1>11, <1>12
  <2> QED
    BY <1>12, <2>1, PutblockFacts
<1> HIDE DEF p2
<1>14. Layer(p2, S \ {id}, {})
  <2>1. ((S \cup {t} \cup {id}) \ {id}) \ {t} \subseteq S \ {id}
    OBVIOUS
  <2> QED
    BY <1>13, <2>1, LayerMore
<1>15. p2.cnt = t /\ p2.head = b.head /\ p2.H = b.H /\ p2.mem = moved.mem
       /\ DOMAIN p2.mem = DOMAIN b.mem \cup {t}
  BY <1>1, <1>9, <1>11, <1>12, <1>13 DEF SameTree, OnlyMem
<1>16. \A x \in Nat : BlockOf(p2, x) = IF x = t THEN e2 ELSE IF x = id THEN e1 ELSE BlockOf(g, x)
  BY <1>9, <1>11, <1>12, <1>13 DEF SameTree
<1>17. HasAll(p2, {})
  <2>1. DOMAIN b.file \subseteq DOMAIN p2.file
    BY <1>1, <1>9, <1>11, <1>12, <1>13 DEF OnlyMem
  <2>2. 1 .. t = (1 .. b.cnt) \cup {t}
    BY <1>3
  <2>3. 1 .. b.cnt \subseteq DOMAIN b.mem \cup DOMAIN b.file
    BY DEF HasAll
  <2> HIDE DEF t
  <2> QED
    BY <1>15, <2>1, <2>2, <2>3 DEF HasAll
<1>18. Shown(p2) = Longer([Shown(b) EXCEPT ![id] = e1], b.cnt, e2)
  <2> DEFINE w == Longer([Shown(b) EXCEPT ![id] = e1], b.cnt, e2)
  <2>1. \A x \in 1 .. t : x \in Nat /\ (x # t => x \in 1 .. b.cnt)
    BY <1>3
  <2>2. Shown(p2) = [x \in 1 .. t |-> BlockOf(p2, x)]
    BY <1>15 DEF Shown
  <2>3. w = [x \in 1 .. t |-> IF x = t THEN e2 ELSE [Shown(b) EXCEPT ![id] = e1][x]]
    BY DEF Longer
  <2>4. \A x \in 1 .. b.cnt : [Shown(b) EXCEPT ![id] = e1][x] = IF x = id THEN e1 ELSE BlockOf(b, x)
    BY DEF Shown
  <2>5. \A x \in 1 .. t : BlockOf(p2, x) = IF x = t THEN e2 ELSE [Shown(b) EXCEPT ![id] = e1][x]
    BY <1>1, <1>16, <2>1, <2>4
  <2> QED
    BY <2>2, <2>3, <2>5
<1>19. TreeOf(p2, Longer(lev, b.cnt, lev[id]), {t})
  <2> DEFINE V == Shown(b)
  <2>1. Tree(V, b.cnt, b.head, b.H, lev, {})
    BY DEF TreeOf
  <2>2. V[id] = ents
    BY <1>3, <1>4, BlockFacts DEF Shown
  <2> HIDE DEF V
  <2>3. n \in 1 .. Len(V[id]) - 1 /\ Len(e2) = Len(V[id]) - n
        /\ (\A i \in 1 .. n : e1[i] = V[id][i])
        /\ \A i \in 1 .. Len(V[id]) - n : e2[i] = V[id][i + n]
    BY <1>5, <1>6, <1>7, <2>2 DEF L
  <2>4. Tree(Longer([V EXCEPT ![id] = e1], b.cnt, e2), b.cnt + 1, b.head, b.H,
             Longer(lev, b.cnt, lev[id]), {b.cnt + 1})
    BY <1>3, <1>6, <1>7, <2>1, <2>3, BlockSplit
  <2> QED
    BY <1>15, <1>18, <2>4 DEF TreeOf, V
<1>20. u \in Item /\ u.val = t /\ u.key = e2[1].key
  <2>1. n + 1 \in 1 .. Len(ents)
    BY <1>5 DEF L
  <2>4. 1 \in 1 .. L - n /\ 1 + n = n + 1
    BY <1>5
  <2>5. e2[1] = ents[n + 1]
    BY <1>7, <2>4
  <2>2. ents[n + 1] \in Item
    BY <1>4, <2>1, EntsFacts
  <2>3. ents[n + 1].key \in Key
    BY <2>2 DEF Item
  <2> QED
    BY <1>1, <2>3, <2>5 DEF Entry, Item
<1> HIDE DEF u
<1>21. s.b = p2 /\ s.up = <<u>>
  BY <1>2 DEF p1, p2
<1>22. BlockOf(p2, id) # <<>>
  BY <1>3, <1>8, <1>16
<1>23. s.up \in Seq(Item) /\ Len(s.up) = 1 /\ s.up[1].val = t /\ s.up[1].key = e2[1].key
  BY <1>20, <1>21
<1>24. Halves(Shown(b)[id], n, e1, e2)
  <2>1. Shown(b)[id] = ents
    BY <1>3, <1>4, BlockFacts DEF Shown
  <2> QED
    BY <1>5, <1>6, <1>7, <2>1 DEF Halves, L
<1> HIDE DEF s
<1>25. \E m, a, e : /\ Halves(Shown(b)[id], m, a, e) /\ s.up[1].key = e[1].key
                   /\ Shown(s.b) = Longer([Shown(b) EXCEPT ![id] = a], b.cnt, e)
  BY <1>18, <1>21, <1>23, <1>24
<1> QED
  BY <1>13, <1>14, <1>15, <1>17, <1>19, <1>21, <1>22, <1>23, <1>25 DEF s, SplitInto

-----------------------------------------------------------------------------
(* The way back from the leaf. *)

Ascents == [b : BtRecord, up : Seq(Item)]

\* The blocks that are neither put nor on the file, n blocks above the leaf.
Pending(S, n) == IF n = 0 THEN S ELSE {}

\* The path of a descent in b.
PathOf(b, path, S) ==
    /\ b.H \in Nat /\ path \in Seq(Nat) /\ Len(path) = b.H + 1 /\ path[1] = b.head
    /\ S = {} \/ (S = {b.head} /\ b.H = 0)

\* A block that was split off has no link yet, and is as high as the block
\* that was split.
Lifted(lev, n, a) ==
    IF a.up = <<>> THEN n > 0 /\ TreeOf(a.b, lev, {})
    ELSE /\ Len(a.up) = 1
         /\ n = 0 => TreeOf(a.b, lev, {})
         /\ n > 0 => /\ a.up[1].val \in 1 .. a.b.cnt /\ lev[a.up[1].val] = n - 1
                     /\ TreeOf(a.b, lev, {a.up[1].val})

Rising(b, path, S, lev, n, a) ==
    /\ a.b.head = b.head /\ a.b.H = b.H
    /\ Layer(a.b, Pending(S, n), {}) /\ HasAll(a.b, {})
    /\ \A i \in 1 .. b.H + 1 : /\ path[i] \in DOMAIN a.b.mem /\ path[i] \in 1 .. a.b.cnt
                               /\ lev[path[i]] = b.H + 1 - i
    /\ n > 0 => a.b.dirty # <<>>
    /\ n > 0 /\ a.up # <<>> => BlockOf(a.b, path[b.H + 2 - n]) # <<>>
    /\ Lifted(lev, n, a)

\* What is added to the block id of a, and what that gives.
Grown(a, S, lev, id, e, g) ==
    /\ Changed(a.b, id, e, g) /\ ChangedFrom(a.b, S, {}, id, e, g)
    /\ e \in Ents /\ 2 + EntrySize * (Len(e) - 1) < BLOCK
    /\ HasAll(g, {}) /\ TreeOf(g, lev, {})
    /\ Shown(a.b)[id] = a.b.mem[id] /\ Shown(g) = [Shown(a.b) EXCEPT ![id] = e]

LEMMA GrownFacts ==
    ASSUME NEW b, NEW path, NEW S, NEW lev, PathOf(b, path, S), NEW n \in 1 .. b.H + 1,
           NEW a \in Ascents, Rising(b, path, S, lev, n - 1, a), a.up # <<>>, NEW k,
           NEW id, id = path[b.H + 2 - n], NEW leaf \in BOOLEAN, leaf <=> n = 1,
           NEW e, e = Added(a.b.mem[id], k, a.up[1], leaf),
           NEW g, g = [a.b EXCEPT !.mem[id] = e]
    PROVE  Grown(a, Pending(S, n - 1), lev, id, e, g)
<1> DEFINE P == Pending(S, n - 1)
           ents == a.b.mem[id]
           x == a.up[1]
           V == Shown(a.b)
<1>1. /\ b.H \in Nat /\ n \in Nat /\ n - 1 \in Nat /\ b.H + 2 - n \in 1 .. b.H + 1 /\ n >= 1
      /\ b.H + 1 - (b.H + 2 - n) = n - 1
  <2> DEFINE h == b.H
  <2>1. h \in Nat /\ n \in 1 .. h + 1
    BY DEF PathOf
  <2> HIDE DEF h
  <2>2. h + 1 - (h + 2 - n) = n - 1 /\ h + 2 - n \in 1 .. h + 1
    BY <2>1
  <2> QED
    BY <2>1, <2>2 DEF h
<1>2. id \in DOMAIN a.b.mem /\ id \in 1 .. a.b.cnt /\ lev[id] = n - 1
  BY <1>1 DEF Rising
<1>3. Layer(a.b, P, {}) /\ HasAll(a.b, {}) /\ a.b.head = b.head /\ a.b.H = b.H
  BY DEF Rising
<1>4. ents \in Ents /\ V[id] = ents /\ Size(ents) < BLOCK /\ a.b.cnt \in Nat
  <2>1. BlockOf(a.b, id) \in Ents /\ BlockOf(a.b, id) = ents
    BY <1>2, <1>3, BlockFacts
  <2>2. FitsBut(a.b, {}) /\ a.b.cnt \in Nat
    BY <1>3, LayerFacts
  <2>3. Size(ents) < BLOCK
    BY <1>2, <2>2 DEF FitsBut
  <2> QED
    BY <1>2, <2>1, <2>2, <2>3 DEF Shown
<1>5. x \in Item
  <2>1. a.up \in Seq(Item) /\ Len(a.up) = 1
    BY DEF Ascents, Rising, Lifted
  <2> QED
    BY <2>1
<1>6. leaf \in BOOLEAN /\ (leaf <=> n = 1)
  OBVIOUS
<1>7. ASSUME n = 1
       PROVE  /\ e \in Ents /\ (Len(e) = Len(ents) + 1 \/ Len(e) = Len(ents))
              /\ Tree([V EXCEPT ![id] = e], a.b.cnt, a.b.head, a.b.H, lev, {})
  <2>1. Tree(V, a.b.cnt, a.b.head, a.b.H, lev, {})
    BY <1>7 DEF Rising, Lifted, TreeOf
  <2>2. lev[id] = 0 /\ leaf
    <3>1. leaf
      BY <1>6, <1>7
    <3>2. lev[id] = 0
      BY <1>2, <1>7
    <3> QED
      BY <3>1, <3>2
  <2>3. e \in Ents /\ (Len(e) = Len(ents) + 1 \/ Len(e) = Len(ents))
    <3> HIDE DEF x, ents
    <3>1. \/ Between(ents, x, e)
          \/ leaf /\ e \in Ents /\ Len(e) = Len(ents) /\ e # <<>>
      BY <1>4, <1>5, <1>6, <2>2, AddedFacts DEF x, ents
    <3> QED
      BY <3>1 DEF Between
  <2>4. Tree([V EXCEPT ![id] = e], a.b.cnt, a.b.head, a.b.H, lev, {})
    <3> HIDE DEF V
    <3> QED
      BY <1>2, <2>1, <2>2, <2>3, LeafChanges
  <2> HIDE DEF V, ents
  <2> QED
    BY <2>3, <2>4
<1>8. ASSUME n # 1
       PROVE  /\ e \in Ents /\ (Len(e) = Len(ents) + 1 \/ Len(e) = Len(ents))
              /\ Tree([V EXCEPT ![id] = e], a.b.cnt, a.b.head, a.b.H, lev, {})
  <2>1. n - 1 > 0 /\ ~leaf /\ lev[id] > 0
    BY <1>1, <1>2, <1>6, <1>8
  <2>2. /\ Tree(V, a.b.cnt, a.b.head, a.b.H, lev, {x.val})
        /\ x.val \in 1 .. a.b.cnt /\ lev[x.val] = (n - 1) - 1
    BY <2>1 DEF Rising, Lifted, TreeOf
  <2>3. ents # <<>>
    BY <1>2, <1>4, <2>1, <2>2 DEF Tree, TreeTypes
  <2>4. Between(V[id], x, e)
    <3> HIDE DEF x, ents, V
    <3>1. \/ Between(ents, x, e)
          \/ leaf /\ e \in Ents /\ Len(e) = Len(ents) /\ e # <<>>
      BY <1>4, <1>5, <1>6, <2>3, AddedFacts DEF x, ents
    <3> QED
      BY <1>4, <2>1, <3>1
  <2>5. e \in Ents /\ Len(e) = Len(ents) + 1
    BY <1>4, <2>4 DEF Between
  <2>6. Tree([V EXCEPT ![id] = e], a.b.cnt, a.b.head, a.b.H, lev, {})
    <3> HIDE DEF V
    <3>1. lev[x.val] = lev[id] - 1
      BY <1>2, <2>2
    <3> HIDE DEF x
    <3> DEFINE o == x.val
    <3>2. o = x.val
      OBVIOUS
    <3> HIDE DEF o
    <3> QED
      BY <1>2, <2>1, <2>2, <2>4, <3>1, <3>2, LinkAdded
  <2> HIDE DEF V, ents
  <2> QED
    BY <2>5, <2>6
<1> HIDE DEF V, ents
<1>9. /\ e \in Ents /\ (Len(e) = Len(ents) + 1 \/ Len(e) = Len(ents))
      /\ Tree([V EXCEPT ![id] = e], a.b.cnt, a.b.head, a.b.H, lev, {})
  BY <1>7, <1>8
<1>10. 2 + EntrySize * (Len(e) - 1) < BLOCK
  <2> DEFINE L == Len(ents)
  <2>1. L \in Nat /\ 2 + EntrySize * L < BLOCK
    BY <1>4, EntsFacts DEF Size
  <2>a. Len(e) = L + 1 \/ Len(e) = L
    BY <1>9
  <2>2. Len(e) - 1 = L \/ Len(e) - 1 = L - 1
    BY <2>1, <2>a
  <2> HIDE DEF L
  <2>3. EntrySize * (L - 1) = EntrySize * L - EntrySize
    BY <2>1, BtreeAssumption
  <2>4. EntrySize * L \in Int
    BY <2>1, BtreeAssumption
  <2> DEFINE M == Len(e) - 1
  <2>5. M = L \/ M = L - 1
    BY <2>2
  <2> HIDE DEF M
  <2>6. 2 + EntrySize * M < BLOCK
    <3>1. CASE M = L
      BY <2>1, <3>1
    <3>2. CASE M = L - 1
      <4>1. EntrySize * M = EntrySize * L - EntrySize
        BY <2>3, <3>2
      <4> DEFINE q == EntrySize * L
                 r == EntrySize * M
      <4>2. 2 + q < BLOCK /\ q \in Int /\ r = q - EntrySize
        BY <2>1, <2>4, <4>1
      <4> HIDE DEF q, r
      <4>3. 2 + r < BLOCK
        BY <4>2, BtreeAssumption, SMTT(60)
      <4> QED
        BY <4>3 DEF r
    <3> QED
      BY <2>5, <3>1, <3>2
  <2> QED
    BY <2>6 DEF M
<1>11. Changed(a.b, id, e, g)
  BY DEF Changed
<1> HIDE DEF P
<1>12. ChangedFrom(a.b, P, {}, id, e, g)
  BY <1>2, <1>3, <1>9, <1>11, ChangeFacts
<1>13. /\ g.cnt = a.b.cnt /\ g.head = a.b.head /\ g.H = a.b.H /\ g.file = a.b.file
       /\ DOMAIN g.mem = DOMAIN a.b.mem
       /\ \A i \in Nat : BlockOf(g, i) = IF i = id THEN e ELSE BlockOf(a.b, i)
  BY <1>12 DEF ChangedFrom, OnlyMem
<1>14. HasAll(g, {})
  BY <1>3, <1>13 DEF HasAll
<1>15. Shown(g) = [V EXCEPT ![id] = e]
  <2>1. \A i \in 1 .. a.b.cnt : BlockOf(g, i) = IF i = id THEN e ELSE BlockOf(a.b, i)
    BY <1>4, <1>13
  <2> QED
    BY <1>13, <2>1 DEF Shown, V
<1>16. TreeOf(g, lev, {})
  BY <1>9, <1>13, <1>15 DEF TreeOf
<1>17. Shown(a.b)[id] = a.b.mem[id] /\ Shown(g) = [Shown(a.b) EXCEPT ![id] = e]
  BY <1>4, <1>15 DEF V, ents
<1> QED
  BY <1>9, <1>10, <1>11, <1>12, <1>14, <1>16, <1>17 DEF Grown, P

\* What one step of the way back does to the tree.
Climbed(lev, id, k, leaf, a, l, c) ==
    IF a.up = <<>> THEN c = a /\ l = lev
    ELSE LET ents == Added(Shown(a.b)[id], k, a.up[1], leaf)
             V == [Shown(a.b) EXCEPT ![id] = ents]
             n == a.b.cnt
         IN  /\ Tree(V, n, a.b.head, a.b.H, lev, {})
             /\ \/ c.up = <<>> /\ l = lev /\ c.b.cnt = n /\ Shown(c.b) = V
                \/ /\ c.up # <<>> /\ l = Longer(lev, n, lev[id]) /\ c.b.cnt = n + 1
                   /\ c.up[1].val = n + 1
                   /\ \E m, f, e : /\ Halves(ents, m, f, e) /\ c.up[1].key = e[1].key
                                   /\ Shown(c.b) = Longer([V EXCEPT ![id] = f], n, e)

LEMMA ClimbFacts ==
    ASSUME NEW b, NEW path, NEW S, NEW lev, PathOf(b, path, S), NEW n \in 1 .. b.H + 1,
           NEW a \in Ascents, Rising(b, path, S, lev, n - 1, a), NEW k
    PROVE  LET c == Climb(a, path[b.H + 2 - n], k, n = 1)
           IN  c \in Ascents /\ \E l : /\ Rising(b, path, S, l, n, c)
                                     /\ Climbed(lev, path[b.H + 2 - n], k, n = 1, a, l, c)
<1> DEFINE id == path[b.H + 2 - n]
           leaf == (n = 1)
           c == Climb(a, id, k, leaf)
           P == Pending(S, n - 1)
<1>1. /\ b.H \in Nat /\ n \in Nat /\ n - 1 \in Nat /\ b.H + 2 - n \in 1 .. b.H + 1 /\ n >= 1
      /\ b.H + 1 - (b.H + 2 - n) = n - 1 /\ n > 0
  <2> DEFINE h == b.H
  <2>1. h \in Nat /\ n \in 1 .. h + 1
    BY DEF PathOf
  <2> HIDE DEF h
  <2>2. h + 1 - (h + 2 - n) = n - 1 /\ h + 2 - n \in 1 .. h + 1
    BY <2>1
  <2> QED
    BY <2>1, <2>2 DEF h
<1>2. /\ id \in DOMAIN a.b.mem /\ id \in 1 .. a.b.cnt /\ lev[id] = n - 1
      /\ a.b.head = b.head /\ a.b.H = b.H /\ Layer(a.b, P, {}) /\ a.b.cnt \in Nat
      /\ \A i \in 1 .. b.H + 1 : /\ path[i] \in DOMAIN a.b.mem /\ path[i] \in 1 .. a.b.cnt
                                 /\ lev[path[i]] = b.H + 1 - i
  <2>1. Layer(a.b, P, {})
    BY DEF Rising
  <2>2. a.b.cnt \in Nat
    BY <2>1, LayerFacts
  <2> QED
    BY <1>1, <2>1, <2>2 DEF Rising
<1>3. Pending(S, n) = {} /\ (P \cup {id}) \ {id} = {}
  <2>1. CASE n = 1
    <3>1. P = S
      BY <2>1 DEF Pending
    <3>2. S = {} \/ S = {id}
      <4>1. b.H = 0 => b.H + 2 - n = 1
        BY <2>1
      <4>2. path[1] = b.head /\ (S = {} \/ (S = {b.head} /\ b.H = 0))
        BY DEF PathOf
      <4> QED
        BY <4>1, <4>2
    <3> HIDE DEF P, id
    <3> QED
      BY <2>1, <3>1, <3>2 DEF Pending
  <2>2. CASE n # 1
    <3>1. P = {}
      BY <1>1, <2>2 DEF Pending
    <3> HIDE DEF P, id
    <3> QED
      BY <1>1, <3>1 DEF Pending
  <2> QED
    BY <2>1, <2>2
<1>4. CASE a.up = <<>>
  <2>1. c = a /\ n - 1 > 0
    BY <1>4 DEF Climb, Rising, Lifted
  <2>2. P = {}
    BY <2>1 DEF Pending
  <2>3. Rising(b, path, S, lev, n, a)
    BY <1>1, <1>3, <1>4, <2>1, <2>2 DEF Rising, Lifted
  <2> HIDE DEF c
  <2>4. c \in Ascents /\ Rising(b, path, S, lev, n, c)
    BY <2>1, <2>3
  <2>5. Climbed(lev, id, k, leaf, a, lev, c)
    BY <1>4, <2>1 DEF Climbed
  <2> QED
    BY <2>4, <2>5 DEF c
<1>5. CASE a.up # <<>>
  <2> DEFINE e == Added(a.b.mem[id], k, a.up[1], leaf)
             g == [a.b EXCEPT !.mem[id] = e]
  <2>1. Grown(a, P, lev, id, e, g)
    BY <1>5, GrownFacts
  <2>2. c = IF Full(g.mem[id]) THEN Split(g, id) ELSE [b |-> Putblock(g, id), up |-> <<>>]
    BY <1>5 DEF Climb
  <2> HIDE DEF e, g, c, P, leaf
  <2>3. /\ ChangedFrom(a.b, P, {}, id, e, g) /\ e \in Ents
        /\ 2 + EntrySize * (Len(e) - 1) < BLOCK
        /\ HasAll(g, {}) /\ TreeOf(g, lev, {})
        /\ Shown(a.b)[id] = a.b.mem[id] /\ Shown(g) = [Shown(a.b) EXCEPT ![id] = e]
    BY <2>1 DEF Grown
  <2>4. /\ g.cnt = a.b.cnt /\ g.head = b.head /\ g.H = b.H /\ g.mem[id] = e
        /\ DOMAIN g.mem = DOMAIN a.b.mem
    BY <1>2, <2>3 DEF ChangedFrom, OnlyMem
  <2>a. e = Added(Shown(a.b)[id], k, a.up[1], leaf)
    BY <2>3 DEF e
  <2>b. Tree(Shown(g), a.b.cnt, a.b.head, a.b.H, lev, {}) /\ Shown(g)[id] = e
    <3>1. Tree(Shown(g), a.b.cnt, a.b.head, a.b.H, lev, {})
      BY <1>2, <2>3, <2>4 DEF TreeOf
    <3>2. id \in DOMAIN Shown(a.b)
      BY <1>2 DEF Shown
    <3> QED
      BY <2>3, <3>1, <3>2
  <2>5. CASE ~Full(g.mem[id])
    <3> DEFINE p == Putblock(g, id)
    <3>1. c = [b |-> p, up |-> <<>>]
      BY <2>2, <2>5
    <3>2. Size(e) < BLOCK
      <4>1. Len(e) \in Nat
        BY <2>3, EntsFacts
      <4> QED
        BY <2>4, <2>5, <4>1, BtreeAssumption DEF Full, Size
    <3>3. {} \ {id} = {}
      OBVIOUS
    <3>4. Layer(g, P \cup {id}, {} \ {id})
      BY <2>3, <3>2 DEF ChangedFrom
    <3>5. Layer(g, P \cup {id}, {}) /\ id \in DOMAIN g.mem
      BY <1>2, <2>4, <3>3, <3>4
    <3>6. /\ Layer(p, (P \cup {id}) \ {id}, {}) /\ SameTree(g, p) /\ p.mem = g.mem
          /\ p.dirty # <<>> /\ DOMAIN g.file \subseteq DOMAIN p.file
      BY <3>5, PutblockFacts
    <3> HIDE DEF p
    <3>7. Layer(p, Pending(S, n), {}) /\ p \in BtRecord
      BY <1>3, <3>6, LayerFacts
    <3>8. p.cnt = g.cnt /\ p.head = g.head /\ p.H = g.H
      BY <3>6 DEF SameTree
    <3>9. HasAll(p, {})
      BY <2>3, <3>6, <3>8 DEF HasAll
    <3>10. TreeOf(p, lev, {}) /\ Shown(p) = Shown(g)
      BY <1>2, <2>3, <2>4, <3>6, SameShown
    <3>11. c.b = p /\ c.up = <<>> /\ c \in Ascents
      <4>1. <<>> \in Seq(Item)
        OBVIOUS
      <4> QED
        BY <3>1, <3>7, <4>1 DEF Ascents
    <3>12. \A i \in 1 .. b.H + 1 : /\ path[i] \in DOMAIN c.b.mem /\ path[i] \in 1 .. c.b.cnt
                                  /\ lev[path[i]] = b.H + 1 - i
      BY <1>2, <2>4, <3>6, <3>8, <3>11
    <3>13. Lifted(lev, n, c)
      BY <1>1, <3>10, <3>11 DEF Lifted
    <3>14. Rising(b, path, S, lev, n, c)
      BY <2>4, <3>6, <3>7, <3>8, <3>9, <3>11, <3>12, <3>13 DEF Rising
    <3>15. Climbed(lev, id, k, leaf, a, lev, c)
      BY <1>5, <2>3, <2>4, <2>a, <2>b, <3>8, <3>10, <3>11 DEF Climbed
    <3> QED
      BY <3>11, <3>14, <3>15 DEF c, leaf
  <2>6. CASE Full(g.mem[id])
    <3> DEFINE s == Split(g, id)
               t == g.cnt + 1
               l == Longer(lev, g.cnt, lev[id])
    <3>1. Layer(g, P \cup {id}, {id}) /\ id \in DOMAIN g.mem
      <4>1. Layer(g, P \cup {id}, {} \cup {id})
        BY <2>3 DEF ChangedFrom
      <4>2. {} \cup {id} = {id}
        OBVIOUS
      <4> HIDE DEF id
      <4> QED
        BY <1>2, <2>4, <4>1, <4>2
    <3>2. 2 + EntrySize * (Len(g.mem[id]) - 1) < BLOCK
      BY <2>3, <2>4
    <3>3. /\ Layer(s.b, (P \cup {id}) \ {id}, {}) /\ HasAll(s.b, {})
          /\ TreeOf(s.b, Longer(lev, g.cnt, lev[id]), {g.cnt + 1})
          /\ s.b.head = g.head /\ s.b.H = g.H /\ s.b.cnt = g.cnt + 1 /\ s.b.dirty # <<>>
          /\ DOMAIN g.mem \subseteq DOMAIN s.b.mem /\ BlockOf(s.b, id) # <<>>
          /\ s.up \in Seq(Item) /\ Len(s.up) = 1 /\ s.up[1].val = g.cnt + 1
          /\ \E m, f, h : /\ Halves(Shown(g)[id], m, f, h) /\ s.up[1].key = h[1].key
                         /\ Shown(s.b) = Longer([Shown(g) EXCEPT ![id] = f], g.cnt, h)
      <4>1. HasAll(g, {}) /\ TreeOf(g, lev, {})
        BY <2>3
      <4>2. SplitInto(g, P \cup {id}, lev, id, s)
        <5> HIDE DEF id
        <5> QED
          BY <2>6, <3>1, <3>2, <4>1, SplitFacts
      <4> QED
        BY <4>2 DEF SplitInto
    <3>4. c = s
      BY <2>2, <2>6
    <3>5. s = [b |-> s.b, up |-> s.up]
      BY DEF Split
    <3> HIDE DEF s
    <3>6. Layer(s.b, Pending(S, n), {}) /\ s.b \in BtRecord
      BY <1>3, <3>3, LayerFacts
    <3>7. c \in Ascents
      BY <3>3, <3>4, <3>5, <3>6 DEF Ascents
    <3>8. t \in 1 .. t /\ (\A x \in 1 .. g.cnt : x \in 1 .. t /\ l[x] = lev[x])
          /\ l[t] = lev[id] /\ t = g.cnt + 1
      BY <1>2, <2>4 DEF Longer
    <3> HIDE DEF l, t
    <3>9. \A i \in 1 .. b.H + 1 : /\ path[i] \in DOMAIN c.b.mem /\ path[i] \in 1 .. c.b.cnt
                                 /\ l[path[i]] = b.H + 1 - i
      BY <1>2, <2>4, <3>3, <3>4, <3>8
    <3>10. TreeOf(c.b, l, {c.up[1].val}) /\ c.up[1].val = t /\ c.b.cnt = t
      BY <3>3, <3>4, <3>8 DEF l
    <3>11. c.up # <<>>
      <4>1. Len(<<>>) = 0
        OBVIOUS
      <4> QED
        BY <3>3, <3>4, <4>1
    <3>12. Lifted(l, n, c)
      <4>1. Len(c.up) = 1 /\ n > 0 /\ c.up[1].val \in 1 .. c.b.cnt /\ l[c.up[1].val] = n - 1
        BY <1>1, <1>2, <3>3, <3>4, <3>8, <3>10
      <4>2. n # 0
        BY <1>1
      <4> QED
        BY <3>10, <3>11, <4>1, <4>2 DEF Lifted
    <3>13. Rising(b, path, S, l, n, c)
      BY <2>4, <3>3, <3>4, <3>6, <3>9, <3>12 DEF Rising
    <3>14. Climbed(lev, id, k, leaf, a, l, c)
      <4>1. l = Longer(lev, a.b.cnt, lev[id]) /\ c.b.cnt = a.b.cnt + 1 /\ c.up[1].val = a.b.cnt + 1
        BY <2>4, <3>3, <3>4 DEF l
      <4>2. \E m, f, h : /\ Halves(e, m, f, h) /\ c.up[1].key = h[1].key
                        /\ Shown(c.b) = Longer([Shown(g) EXCEPT ![id] = f], a.b.cnt, h)
        BY <2>4, <2>b, <3>3, <3>4
      <4> DEFINE ents == Added(Shown(a.b)[id], k, a.up[1], leaf)
                 V == [Shown(a.b) EXCEPT ![id] = ents]
      <4>3. e = ents
        BY <2>a
      <4> HIDE DEF e, ents
      <4>4. Shown(g) = V
        BY <2>3, <4>3
      <4> HIDE DEF V, g, id, c, l, leaf
      <4>5. Tree(V, a.b.cnt, a.b.head, a.b.H, lev, {})
        BY <2>b, <4>4
      <4>6. \E m, f, h : /\ Halves(ents, m, f, h) /\ c.up[1].key = h[1].key
                        /\ Shown(c.b) = Longer([V EXCEPT ![id] = f], a.b.cnt, h)
        BY <4>2, <4>3, <4>4
      <4> QED
        BY <1>5, <3>11, <4>1, <4>5, <4>6 DEF Climbed, V, ents
    <3> QED
      BY <3>7, <3>13, <3>14 DEF c, leaf
  <2> QED
    BY <2>5, <2>6
<1> QED
  BY <1>4, <1>5

\* What each step of the way back keeps is true of what insertR() leaves.
LEMMA AscentInduction ==
    ASSUME NEW N \in Nat, NEW d, Len(d.path) = N, NEW k, NEW v, NEW P,
           [b |-> d.b, up |-> <<Entry(k, v)>>] \in P[0],
           \A n \in 1 .. N : \A a \in P[n - 1] : Climb(a, d.path[N + 1 - n], k, n = 1) \in P[n]
    PROVE  Ascent(d, k, v)[N] \in P[N]
<1> DEFINE first == [b |-> d.b, up |-> <<Entry(k, v)>>]
           Step(n, a) == Climb(a, d.path[N + 1 - n], k, n = 1)
           step == [n \in 1 .. N |-> [a \in P[n - 1] |-> Step(n, a)]]
           A == Ascent(d, k, v)
<1>1. N \in Nat /\ Len(d.path) = N /\ 0 \in 0 .. N /\ N \in 0 .. N
      /\ \A n \in 1 .. N : n - 1 \in 0 .. N /\ n \in 0 .. N /\ n # 0
  OBVIOUS
<1>2. first \in P[0]
  OBVIOUS
<1>3. \A n \in 1 .. N : \A a \in P[n - 1] : step[n][a] \in P[n] /\ step[n][a] = Step(n, a)
  OBVIOUS
<1> HIDE DEF step, Step, first
<1>a. \A n \in 1 .. N : \A a \in P[n - 1] : step[n][a] \in P[n]
  BY <1>3
<1>b. Stages(N, first, P, step)
  BY <1>1, <1>2, <1>a DEF Stages
<1>c. PICK f : Staged(N, first, P, step, f)
  BY <1>b, StagesExist
<1>4. /\ f = [n \in 0 .. N |-> f[n]]
      /\ f[0] = first /\ \A n \in 1 .. N : f[n] = step[n][f[n - 1]]
      /\ \A n \in 0 .. N : f[n] \in P[n]
  BY <1>c DEF Staged
<1>5. \A n \in 1 .. N : f[n] = Step(n, f[n - 1])
  BY <1>1, <1>3, <1>4
<1>6. f = [n \in 0 .. N |-> IF n = 0 THEN first ELSE Step(n, f[n - 1])]
  <2>1. \A n \in 0 .. N : n = 0 \/ n \in 1 .. N
    BY <1>1
  <2>2. f[0] = first
    BY <1>4
  <2>3. \A n \in 0 .. N : f[n] = IF n = 0 THEN first ELSE Step(n, f[n - 1])
    BY <1>5, <2>1, <2>2
  <2> QED
    BY <1>4, <2>3
<1>7. A = [n \in 0 .. N |-> IF n = 0 THEN first ELSE Step(n, A[n - 1])]
  <2>1. A = CHOOSE g : g = [n \in 0 .. N |-> IF n = 0 THEN first ELSE Step(n, g[n - 1])]
    BY <1>1 DEF Ascent, first, Step
  <2> QED
    BY <1>6, <2>1
<1> HIDE DEF A
<1>8. A[0] = first /\ \A n \in 1 .. N : A[n] = Step(n, A[n - 1])
  BY <1>1, <1>7
<1>9. \A n \in 1 .. N : \A a \in P[n - 1] : Step(n, a) \in P[n]
  BY <1>3
<1>10. A[0] \in P[0] /\ \A n \in 1 .. N : A[n - 1] \in P[n - 1] => A[n] \in P[n]
  BY <1>2, <1>8, <1>9
<1>11. \A n \in 0 .. N : A[n] \in P[n]
  BY <1>1, <1>10, StagesHold
<1> QED
  BY <1>1, <1>11 DEF A

LEMMA AscentFacts ==
    ASSUME NEW b, NEW path, NEW S, NEW lev, PathOf(b, path, S), NEW d \in Descents,
           d.path = path, NEW k, NEW v,
           LET a == [b |-> d.b, up |-> <<Entry(k, v)>>]
           IN  a \in Ascents /\ Rising(b, path, S, lev, 0, a)
    PROVE  LET c == Ascent(d, k, v)[Len(path)]
           IN  c \in Ascents /\ \E l : Rising(b, path, S, l, b.H + 1, c)
<1> DEFINE N == b.H + 1
           first == [b |-> d.b, up |-> <<Entry(k, v)>>]
           Step(n, a) == Climb(a, path[N + 1 - n], k, n = 1)
           P == [n \in 0 .. N |-> {a \in Ascents : \E l : Rising(b, path, S, l, n, a)}]
<1>1. N \in Nat /\ Len(path) = N /\ 0 \in 0 .. N /\ N \in 0 .. N
      /\ \A n \in 1 .. N : n - 1 \in 0 .. N /\ n \in 0 .. N /\ n # 0
  BY DEF PathOf
<1>2. first \in P[0]
  BY <1>1
<1>3. \A n \in 1 .. N : \A a \in P[n - 1] : Step(n, a) \in P[n]
  <2> SUFFICES ASSUME NEW n \in 1 .. N, NEW a \in P[n - 1] PROVE Step(n, a) \in P[n]
    OBVIOUS
  <2>1. a \in Ascents /\ \E l : Rising(b, path, S, l, n - 1, a)
    BY <1>1
  <2>2. PICK l : Rising(b, path, S, l, n - 1, a)
    BY <2>1
  <2>3. b.H + 2 - n = N + 1 - n
    <3> DEFINE h == b.H
    <3>1. h \in Nat /\ n \in 1 .. h + 1
      BY DEF PathOf
    <3> HIDE DEF h
    <3>2. h + 2 - n = (h + 1) + 1 - n
      BY <3>1
    <3> QED
      BY <3>2 DEF h
  <2>4. LET c == Climb(a, path[b.H + 2 - n], k, n = 1)
        IN  c \in Ascents /\ \E m : /\ Rising(b, path, S, m, n, c)
                                  /\ Climbed(l, path[b.H + 2 - n], k, n = 1, a, m, c)
    BY <2>1, <2>2, ClimbFacts
  <2>5. Step(n, a) \in Ascents /\ \E m : Rising(b, path, S, m, n, Step(n, a))
    BY <2>3, <2>4
  <2> HIDE DEF Step
  <2> QED
    BY <1>1, <2>5
<1> HIDE DEF P, first, N
<1>4. Len(d.path) = N
  BY <1>1
<1>5. Ascent(d, k, v)[N] \in P[N]
  BY <1>1, <1>2, <1>3, <1>4, AscentInduction DEF first
<1>6. Ascent(d, k, v)[N] \in Ascents /\ \E l : Rising(b, path, S, l, N, Ascent(d, k, v)[N])
  BY <1>1, <1>5 DEF P
<1> QED
  BY <1>1, <1>6 DEF N

\* What insertR() leaves, and the block that was split off the root.
InsertedInto(b, lev, a) ==
    /\ a \in Ascents /\ a.b.head = b.head /\ a.b.H = b.H
    /\ Layer(a.b, {}, {}) /\ HasAll(a.b, {}) /\ a.b.dirty # <<>>
    /\ a.up = <<>> => TreeOf(a.b, lev, {})
    /\ a.up # <<>> => /\ Len(a.up) = 1 /\ lev[a.up[1].val] = b.H
                      /\ TreeOf(a.b, lev, {a.up[1].val})
                      /\ b.head \in DOMAIN a.b.mem /\ BlockOf(a.b, b.head) # <<>>

AscentStart(b, S, lev, k, v, d) ==
    LET a == [b |-> d.b, up |-> <<Entry(k, v)>>]
    IN  /\ d \in Descents /\ Descending(b, S, lev, b.H, d) /\ Shows(b, d.b) /\ b.H \in Nat
        /\ PathOf(d.b, d.path, S) /\ a \in Ascents /\ Rising(d.b, d.path, S, lev, 0, a)

LEMMA AscentStarts ==
    ASSUME NEW b, NEW S, NEW lev, Descendable(b, S, lev), NEW k \in Key, NEW v \in Val
    PROVE  AscentStart(b, S, lev, k, v, Descend(b, k, TRUE))
<1> DEFINE d == Descend(b, k, TRUE)
           path == d.path
           first == [b |-> d.b, up |-> <<Entry(k, v)>>]
<1>1. d \in Descents /\ Descending(b, S, lev, b.H, d) /\ HasAll(d.b, {})
  BY DescentFacts
<1> HIDE DEF d
<1>3. b.H \in Nat /\ b.cnt \in Nat
  BY LayerFacts DEF Descendable
<1>4. d.b.head = b.head /\ d.b.H = b.H /\ d.b.cnt = b.cnt
  BY <1>1 DEF Descending, SameTree
<1>5. PathOf(d.b, path, S)
  <2>1. path \in Seq(Nat) /\ Len(path) = b.H + 1 /\ path[1] = b.head
    BY <1>1 DEF Descents, Descending
  <2>2. S = {} \/ (S = {b.head} /\ b.H = 0)
    BY DEF Descendable
  <2> HIDE DEF path
  <2> QED
    BY <1>3, <1>4, <2>1, <2>2 DEF PathOf
<1>6. first \in Ascents
  <2>1. Entry(k, v) \in Item
    BY DEF Entry, Item
  <2>2. <<Entry(k, v)>> \in Seq(Item) /\ d.b \in BtRecord
    BY <1>1, <2>1 DEF Descents
  <2> QED
    BY <2>2 DEF Ascents
<1>8. TreeOf(d.b, lev, {}) /\ Shows(b, d.b)
  BY <1>1, <1>3, SameShown DEF Descending, Descendable
<1>7. Rising(d.b, path, S, lev, 0, first)
  <2>1. first.b = d.b /\ Len(first.up) = 1 /\ first.up # <<>>
    OBVIOUS
  <2> HIDE DEF first, path
  <2>2. Pending(S, 0) = S /\ Layer(d.b, S, {})
    BY <1>1 DEF Pending, Descending
  <2>4. \A i \in 1 .. d.b.H + 1 : /\ path[i] \in DOMAIN first.b.mem /\ path[i] \in 1 .. first.b.cnt
                                 /\ lev[path[i]] = d.b.H + 1 - i
    BY <1>1, <1>4, <2>1 DEF Descending, path
  <2>5. Lifted(lev, 0, first)
    BY <1>8, <2>1 DEF Lifted
  <2> QED
    BY <1>1, <2>1, <2>2, <2>4, <2>5 DEF Rising
<1> QED
  BY <1>1, <1>3, <1>5, <1>6, <1>7, <1>8 DEF AscentStart, d

LEMMA AscentEnds ==
    ASSUME NEW b, NEW g, Shows(b, g), b.H \in Nat, NEW path, NEW S, PathOf(g, path, S),
           NEW c \in Ascents, NEW l, Rising(g, path, S, l, g.H + 1, c)
    PROVE  InsertedInto(b, l, c)
<1>1. g.head = b.head /\ g.H = b.H /\ g.cnt = b.cnt
  BY DEF Shows
<1>2. g.H + 1 > 0 /\ g.H + 1 # 0 /\ (g.H + 1) - 1 = b.H /\ g.H + 2 - (g.H + 1) = 1
      /\ 1 \in 1 .. g.H + 1
  BY <1>1
<1>3. path[1] = b.head
  BY <1>1 DEF PathOf
<1>4. /\ c.b.head = b.head /\ c.b.H = b.H /\ Layer(c.b, {}, {}) /\ HasAll(c.b, {})
      /\ c.b.dirty # <<>> /\ b.head \in DOMAIN c.b.mem
  BY <1>1, <1>2, <1>3 DEF Rising, Pending
<1>5. c.up # <<>> => BlockOf(c.b, b.head) # <<>>
  BY <1>2, <1>3 DEF Rising
<1>6. /\ c.up = <<>> => TreeOf(c.b, l, {})
      /\ c.up # <<>> => /\ Len(c.up) = 1 /\ l[c.up[1].val] = b.H
                         /\ TreeOf(c.b, l, {c.up[1].val})
  BY <1>2 DEF Rising, Lifted
<1> QED
  BY <1>4, <1>5, <1>6 DEF InsertedInto

LEMMA InsertedFacts ==
    ASSUME NEW b, NEW S, NEW lev, Descendable(b, S, lev), NEW k \in Key, NEW v \in Val
    PROVE  \E l : InsertedInto(b, l, Inserted(b, k, v))
<1> DEFINE d == Descend(b, k, TRUE)
           path == d.path
           first == [b |-> d.b, up |-> <<Entry(k, v)>>]
           c == Inserted(b, k, v)
<1>1. AscentStart(b, S, lev, k, v, d)
  BY AscentStarts
<1>2. c = Ascent(d, k, v)[Len(path)]
  BY DEF Inserted
<1> HIDE DEF d
<1>3. /\ d \in Descents /\ Shows(b, d.b) /\ b.H \in Nat
      /\ PathOf(d.b, path, S) /\ first \in Ascents /\ Rising(d.b, path, S, lev, 0, first)
  BY <1>1 DEF AscentStart
<1> HIDE DEF path
<1>4. c \in Ascents /\ \E l : Rising(d.b, path, S, l, d.b.H + 1, c)
  <2>1. d.path = path
    BY DEF path
  <2> HIDE DEF c
  <2> QED
    BY <1>2, <1>3, <2>1, AscentFacts
<1> HIDE DEF c
<1> QED
  BY <1>3, <1>4, AscentEnds DEF c

\* The root h over that of c links to it and to x.
Headed(c, x, lev, h) ==
    /\ h.cnt = c.cnt + 1 /\ h.head = c.cnt + 1 /\ h.H = c.H + 1
    /\ TreeOf(h, Longer(lev, c.cnt, c.H + 1), {})
    /\ \E e \in Ents : /\ Len(e) = 2 /\ e[1].val = c.head /\ e[1].key = Shown(c)[c.head][1].key
                       /\ e[2] = x /\ Shown(h) = Longer(Shown(c), c.cnt, e)

\* Btree.store() grows the tree by a root over the old one.
LEMMA NewHeadFacts ==
    ASSUME NEW b, NEW lev, NEW a, InsertedInto(b, lev, a), a.up # <<>>
    PROVE  LET h == NewHead(a.b, a.up[1])
           IN  /\ Layer(h, {}, {}) /\ HasAll(h, {}) /\ h.dirty # <<>>
               /\ Headed(a.b, a.up[1], lev, h) /\ \E l : TreeOf(h, l, {})
<1> DEFINE c == a.b
           up == a.up[1]
           t == c.cnt + 1
           g == Getblock([c EXCEPT !.cnt = t], t)
           first == Entry(g.mem[c.head][1].key, c.head)
           e == <<first, up>>
           h == [g EXCEPT !.mem[t] = e]
           p == Putblock(h, t)
           r == NewHead(c, up)
<1>1. /\ c.head = b.head /\ c.H = b.H /\ Layer(c, {}, {}) /\ HasAll(c, {})
      /\ lev[up.val] = c.H /\ TreeOf(c, lev, {up.val})
      /\ c.head \in DOMAIN c.mem /\ BlockOf(c, c.head) # <<>> /\ Len(a.up) = 1
      /\ a.up \in Seq(Item)
  BY DEF InsertedInto, Ascents
<1>2. up \in Item
  BY <1>1
<1> HIDE DEF up, c
<1>3. /\ c.cnt \in Nat /\ c.H \in Nat /\ c.head \in 1 .. c.cnt /\ c.head # t /\ c.head \in Nat
  <2>1. c.cnt \in Nat
    BY <1>1, LayerFacts
  <2>2. c.H \in Nat /\ c.head \in 1 .. c.cnt
    BY <1>1 DEF TreeOf, Tree, TreeTypes
  <2> QED
    BY <2>1, <2>2
<1>4. /\ Layer(g, {} \cup {t}, {})
      /\ g.cnt = t /\ g.head = c.head /\ g.H = c.H /\ g.file = c.file
      /\ DOMAIN g.mem = DOMAIN c.mem \cup {t} /\ g.mem[t] = NewBlock
      /\ t \notin DOMAIN c.mem /\ t \in Nat
      /\ \A x \in 1 .. c.cnt : BlockOf(g, x) = BlockOf(c, x)
  BY <1>1, NewFacts
<1>5. r = [p EXCEPT !.head = t, !.H = @ + 1]
  <2>1. g.mem[t] \o <<first, up>> = e
    <3> DEFINE u == <<first, up>>
    <3>1. u \in Seq({first, up})
      OBVIOUS
    <3>2. <<>> \o u = u
      <4> HIDE DEF u
      <4> QED
        BY <3>1, ConcatEmptySeq
    <3> QED
      BY <1>4, <3>2 DEF NewBlock
  <2> HIDE DEF first
  <2>2. [g EXCEPT !.mem[t] = @ \o <<first, up>>] = h
    BY <2>1
  <2> HIDE DEF h, e, g
  <2> QED
    BY <2>2 DEF NewHead, g, first
<1> HIDE DEF g, r
<1>6. first \in Item /\ first.val = c.head /\ first.key = Shown(c)[c.head][1].key
  <2>1. BlockOf(g, c.head) = g.mem[c.head] /\ BlockOf(g, c.head) \in Ents
    BY <1>1, <1>4, BlockFacts
  <2>2. g.mem[c.head] # <<>> /\ g.mem[c.head] \in Ents
    BY <1>1, <1>3, <1>4, <2>1
  <2>3. g.mem[c.head][1] \in Item
    BY <2>2 DEF Ents
  <2>4. g.mem[c.head][1].key \in Key
    BY <2>3 DEF Item
  <2>5. g.mem[c.head] = Shown(c)[c.head]
    BY <1>3, <1>4, <2>1 DEF Shown
  <2> QED
    BY <1>3, <2>4, <2>5 DEF Entry, Item
<1> HIDE DEF first
<1>7. /\ e \in Ents /\ Len(e) = 2 /\ e[1].val = c.head /\ e[2].val = up.val
      /\ Size(e) < BLOCK /\ e[2] = up /\ e[1].key = Shown(c)[c.head][1].key
  <2>1. e \in Seq(Item) /\ Len(e) = 2 /\ e[1] = first /\ e[2] = up
    BY <1>2, <1>6
  <2>2. 2 + EntrySize * 2 < BLOCK
    BY BtreeAssumption
  <2> HIDE DEF e
  <2> QED
    BY <1>6, <2>1, <2>2 DEF Ents, Size
<1> HIDE DEF e
<1>8. ChangedFrom(g, {t}, {}, t, e, h)
  <2>1. Changed(g, t, e, h)
    BY DEF Changed
  <2>2. Layer(g, {t}, {}) /\ t \in DOMAIN g.mem
    <3>1. {} \cup {t} = {t}
      OBVIOUS
    <3> QED
      BY <1>4, <3>1
  <2> HIDE DEF h, t
  <2> QED
    BY <1>7, <2>1, <2>2, ChangeFacts
<1> HIDE DEF h
<1>9. /\ Layer(h, {t}, {}) /\ OnlyMem(g, h) /\ DOMAIN h.mem = DOMAIN g.mem
      /\ \A x \in Nat : BlockOf(h, x) = IF x = t THEN e ELSE BlockOf(g, x)
  <2> HIDE DEF t
  <2>1. {t} \cup {t} = {t} /\ {} \ {t} = {}
    OBVIOUS
  <2>2. Layer(h, {t} \cup {t}, {} \ {t})
    BY <1>7, <1>8 DEF ChangedFrom
  <2> QED
    BY <1>8, <2>1, <2>2 DEF ChangedFrom
<1>10. /\ Layer(p, {}, {}) /\ SameTree(h, p) /\ p.mem = h.mem
       /\ p.dirty # <<>> /\ DOMAIN h.file \subseteq DOMAIN p.file
  <2> HIDE DEF t
  <2>1. Layer(h, {t}, {}) /\ t \in DOMAIN h.mem
    BY <1>4, <1>9
  <2>2. Layer(p, {t} \ {t}, {}) /\ SameTree(h, p) /\ p.mem = h.mem
        /\ p.dirty # <<>> /\ DOMAIN h.file \subseteq DOMAIN p.file
    BY <2>1, PutblockFacts
  <2>3. {t} \ {t} = {}
    OBVIOUS
  <2> QED
    BY <2>2, <2>3
<1> HIDE DEF p
<1>11. /\ p.cnt = t /\ p.H = c.H /\ DOMAIN p.mem = DOMAIN c.mem \cup {t}
       /\ DOMAIN c.file \subseteq DOMAIN p.file
       /\ \A x \in 1 .. t : BlockOf(p, x) = IF x = t THEN e ELSE BlockOf(c, x)
  <2>1. p.cnt = t /\ p.H = c.H /\ DOMAIN p.mem = DOMAIN c.mem \cup {t}
        /\ DOMAIN c.file \subseteq DOMAIN p.file
    BY <1>4, <1>9, <1>10 DEF OnlyMem, SameTree
  <2>2. \A x \in 1 .. t : x \in Nat /\ (x = t \/ x \in 1 .. c.cnt)
    BY <1>3
  <2>3. \A x \in Nat : BlockOf(p, x) = BlockOf(h, x)
    BY <1>10 DEF SameTree
  <2> QED
    BY <1>4, <1>9, <2>1, <2>2, <2>3
<1>12. /\ r \in BtRecord /\ r.cnt = t /\ r.head = t /\ r.H = c.H + 1 /\ r.mem = p.mem
       /\ r.cache = p.cache /\ r.dirty = p.dirty /\ r.file = p.file
  <2>1. p \in BtRecord /\ t \in Nat
    BY <1>4, <1>10, LayerFacts
  <2> HIDE DEF t
  <2>2. c.H + 1 \in Nat /\ r = [p EXCEPT !.head = t, !.H = c.H + 1]
    BY <1>3, <1>5, <1>11, <2>1 DEF BtRecord
  <2> QED
    BY <1>11, <2>1, <2>2 DEF BtRecord
<1>13. Layer(r, {}, {})
  BY <1>10, <1>11, <1>12 DEF Layer, Sane, CleanBut, FitsBut
<1>14. HasAll(r, {})
  <2>1. 1 .. t = (1 .. c.cnt) \cup {t}
    BY <1>3
  <2> HIDE DEF t
  <2> QED
    BY <1>1, <1>11, <1>12, <2>1 DEF HasAll
<1>15. Shown(r) = Longer(Shown(c), c.cnt, e)
  <2>1. \A x : BlockOf(r, x) = BlockOf(p, x)
    BY <1>12 DEF BlockOf
  <2>2. \A x \in 1 .. t : x = t \/ x \in 1 .. c.cnt
    BY <1>3
  <2>3. \A x \in 1 .. t : BlockOf(r, x) = IF x = t THEN e ELSE Shown(c)[x]
    BY <1>11, <2>1, <2>2 DEF Shown
  <2>4. Shown(r) = [x \in 1 .. t |-> BlockOf(r, x)]
    BY <1>12 DEF Shown
  <2>5. Longer(Shown(c), c.cnt, e) = [x \in 1 .. t |-> IF x = t THEN e ELSE Shown(c)[x]]
    BY DEF Longer
  <2> QED
    BY <2>3, <2>4, <2>5
<1> DEFINE l == Longer(lev, c.cnt, c.H + 1)
<1>16. TreeOf(r, l, {})
  <2> DEFINE V == Shown(c)
             o == up.val
  <2>1. Tree(V, c.cnt, c.head, c.H, lev, {o}) /\ lev[o] = c.H /\ e[2].val = o
    BY <1>1, <1>7 DEF TreeOf
  <2> HIDE DEF V, o
  <2>2. Tree(Longer(V, c.cnt, e), c.cnt + 1, c.cnt + 1, c.H + 1, Longer(lev, c.cnt, c.H + 1), {})
    BY <1>7, <2>1, RootAdded
  <2> QED
    BY <1>12, <1>15, <2>2 DEF TreeOf, V
<1>17. Headed(c, up, lev, r)
  BY <1>7, <1>12, <1>15, <1>16 DEF Headed
<1> HIDE DEF l
<1> QED
  BY <1>10, <1>12, <1>13, <1>14, <1>16, <1>17 DEF r, c, up

-----------------------------------------------------------------------------
(* Between two calls. *)

Rest(b) ==
    /\ Layer(b, {}, {}) /\ HasAll(b, {})
    /\ DOMAIN b.mem = ToSet(b.cache) \cup ToSet(b.dirty)
    /\ b.dirty = <<>> => b.hdr = Header(b)
    /\ IF b.head = 0 THEN b.cnt = 0 /\ b.H = 0 ELSE \E lev : TreeOf(b, lev, {})

\* What is dropped from the memory is on the file.
LEMMA SettledFacts ==
    ASSUME NEW b, Layer(b, {}, {}), HasAll(b, {}), b.dirty = <<>> => b.hdr = Header(b),
           IF b.head = 0 THEN b.cnt = 0 /\ b.H = 0 ELSE \E lev : TreeOf(b, lev, {})
    PROVE  Rest(Settled(b)) /\ Shows(b, Settled(b))
<1> DEFINE s == Settled(b)
           M == ToSet(b.cache) \cup ToSet(b.dirty)
           m == [i \in M |-> b.mem[i]]
<1>1. /\ Sane(b) /\ CleanBut(b, {}) /\ FitsBut(b, {}) /\ b \in BtRecord /\ b.cnt \in Nat
      /\ b.mem \in [DOMAIN b.mem -> Ents] /\ DOMAIN b.mem \subseteq 1 .. b.cnt
  BY LayerFacts
<1>2. M \subseteq DOMAIN b.mem /\ M \in SUBSET Nat
  BY <1>1 DEF Sane
<1>3. m \in [M -> Ents] /\ DOMAIN m = M /\ \A i \in M : m[i] = b.mem[i]
  BY <1>1, <1>2
<1> HIDE DEF M
<1>4. m \in Blocks
  BY <1>2, <1>3, AreBlocks
<1>5. s = [b EXCEPT !.mem = m]
  BY DEF Settled, M
<1> HIDE DEF m, s
<1>6. OnlyMem(b, s) /\ s.mem = m
  BY <1>1, <1>4, <1>5, MemSet DEF OnlyMem
<1>7. Sane(s)
  BY <1>1, <1>2, <1>3, <1>6 DEF Sane, OnlyMem, M
<1>8. CleanBut(s, {}) /\ FitsBut(s, {})
  BY <1>1, <1>2, <1>3, <1>6 DEF CleanBut, FitsBut, OnlyMem
<1>9. \A x \in DOMAIN b.mem \ M : x \in DOMAIN b.file /\ b.file[x] = b.mem[x]
  BY <1>1 DEF CleanBut, M
<1>10. HasAll(s, {})
  BY <1>3, <1>6, <1>9 DEF HasAll, OnlyMem
<1>11. \A x : BlockOf(s, x) = BlockOf(b, x)
  BY <1>2, <1>3, <1>6, <1>9 DEF BlockOf, OnlyMem
<1>a. Shows(b, s)
  BY <1>6, <1>11 DEF Shows, Shown, OnlyMem
<1>12. \A lev : TreeOf(b, lev, {}) => TreeOf(s, lev, {})
  BY <1>a DEF Shows, TreeOf
<1>13. DOMAIN s.mem = ToSet(s.cache) \cup ToSet(s.dirty)
  BY <1>3, <1>6 DEF OnlyMem, M
<1>14. s.dirty = <<>> => s.hdr = Header(s)
  BY <1>6 DEF OnlyMem, Header
<1>15. IF s.head = 0 THEN s.cnt = 0 /\ s.H = 0 ELSE \E lev : TreeOf(s, lev, {})
  BY <1>6, <1>12 DEF OnlyMem
<1> QED
  BY <1>7, <1>8, <1>10, <1>13, <1>14, <1>15, <1>a DEF Rest, Layer, s

LEMMA EmptySeqs ==
    /\ <<>> \in Seq(Nat) /\ ToSet(<<>>) = {} /\ Apart(<<>>) /\ BucketsFit(<<>>)
    /\ Len(<<>>) = 0 /\ DOMAIN <<>> = {} /\ <<>> \in Blocks
<1>1. <<>> \in Seq(Nat) /\ Len(<<>>) = 0 /\ DOMAIN <<>> = {}
  OBVIOUS
<1>2. ToSet(<<>>) = {} /\ IsInjective(<<>>)
  BY <1>1 DEF ToSet, IsInjective
<1>3. \A r \in Nat : InBucket(<<>>, r) = {}
  BY <1>2 DEF InBucket
<1>4. BucketsFit(<<>>)
  <2>1. Cardinality({}) = 0
    BY FS_EmptySet
  <2>2. \A r \in Nat : Cardinality(InBucket(<<>>, r)) = 0
    BY <1>3, <2>1
  <2>3. 0 <= Mcache
    BY BtreeAssumption
  <2> QED
    BY <2>2, <2>3 DEF BucketsFit
<1>5. <<>> \in [{} -> Ents] /\ {} \in SUBSET Nat
  OBVIOUS
<1> QED
  BY <1>1, <1>2, <1>4, <1>5 DEF Apart, Blocks

LEMMA EmptyRests == Rest(Empty)
<1>1. /\ Empty.cnt = 0 /\ Empty.head = 0 /\ Empty.H = 0 /\ Empty.mem = <<>> /\ Empty.cache = <<>>
      /\ Empty.dirty = <<>> /\ Empty.file = <<>> /\ Empty.hdr = Header(Empty)
      /\ Empty.hdr \in Heads
  BY DEF Empty, Header, Heads
<1>2. Empty \in BtRecord
  BY EmptySeqs DEF Empty, BtRecord, Heads
<1>3. Sane(Empty)
  BY <1>1, <1>2, EmptySeqs, BtreeAssumption DEF Sane
<1>4. CleanBut(Empty, {}) /\ FitsBut(Empty, {})
  BY <1>1, EmptySeqs DEF CleanBut, FitsBut
<1>5. HasAll(Empty, {})
  <2>1. 1 .. 0 = {}
    OBVIOUS
  <2> QED
    BY <1>1, <2>1 DEF HasAll
<1>6. DOMAIN Empty.mem = ToSet(Empty.cache) \cup ToSet(Empty.dirty)
  BY <1>1, EmptySeqs
<1> QED
  BY <1>1, <1>3, <1>4, <1>5, <1>6 DEF Rest, Layer

\* close() leaves everything on the file, and open() reads the header.
LEMMA ReopenRests ==
    ASSUME NEW b, Rest(b)
    PROVE  Rest(ReopenIn(b)) /\ Shows(b, ReopenIn(b))
<1> DEFINE f == Flushed(b)
           r == ReopenIn(b)
<1>0. /\ Layer(b, {}, {}) /\ HasAll(b, {}) /\ b.cnt \in Nat /\ b.head \in Nat /\ b.H \in Nat
      /\ Sane(b) /\ FitsBut(b, {})
  <2>1. Layer(b, {}, {}) /\ HasAll(b, {})
    BY DEF Rest
  <2> QED
    BY <2>1, LayerFacts
<1>1. /\ Layer(f, {}, {}) /\ SameTree(b, f) /\ f.mem = b.mem /\ f.dirty = <<>>
      /\ f.hdr = IF b.dirty = <<>> THEN b.hdr ELSE Header(b)
      /\ DOMAIN f.file = DOMAIN b.file \cup ToSet(b.dirty)
  <2>1. \A id \in ToSet(b.dirty) : Size(b.mem[id]) < BLOCK
    BY <1>0 DEF Sane, FitsBut
  <2> QED
    BY <1>0, <2>1, FlushedFacts
<1>2. f.hdr = Header(b)
  BY <1>1 DEF Rest
<1>3. r = [Empty EXCEPT !.cnt = f.hdr.cnt, !.head = f.hdr.head, !.H = f.hdr.H,
                        !.hdr = f.hdr, !.file = f.file]
  BY DEF ReopenIn
<1> HIDE DEF f, r
<1>4. Header(b) \in Heads /\ f.file \in Blocks
  BY <1>0, <1>1, LayerFacts DEF Header, Heads
<1>5. /\ r.cnt = b.cnt /\ r.head = b.head /\ r.H = b.H /\ r.hdr = Header(b) /\ r.mem = <<>>
      /\ r.cache = <<>> /\ r.dirty = <<>> /\ r.file = f.file
  BY <1>2, <1>3 DEF Empty, Header
<1>6. Empty \in BtRecord
  BY EmptyRests, LayerFacts DEF Rest
<1>7. r \in BtRecord
  <2>1. f.hdr.cnt \in Nat /\ f.hdr.head \in Nat /\ f.hdr.H \in Nat /\ f.hdr \in Heads
    BY <1>2, <1>4 DEF Heads
  <2> QED
    BY <1>3, <1>4, <1>6, <2>1 DEF BtRecord
<1>8. /\ Sane(f) /\ CleanBut(f, {}) /\ FitsBut(f, {}) /\ DOMAIN f.file \subseteq 1 .. f.cnt
      /\ f.cnt = b.cnt
  BY <1>1, LayerFacts DEF SameTree
<1>9. Sane(r)
  BY <1>5, <1>7, <1>8, EmptySeqs, BtreeAssumption DEF Sane
<1>10. CleanBut(r, {}) /\ FitsBut(r, {})
  BY <1>5, <1>8, EmptySeqs DEF CleanBut, FitsBut
<1>11. \A id \in DOMAIN f.mem : id \in DOMAIN f.file /\ f.file[id] = f.mem[id]
  BY <1>1, <1>8, EmptySeqs DEF CleanBut
<1>12. HasAll(r, {})
  <2>1. DOMAIN b.mem \cup DOMAIN b.file \subseteq DOMAIN f.file
    BY <1>1, <1>11
  <2> QED
    BY <1>0, <1>5, <2>1 DEF HasAll
<1>13. \A id \in Nat : BlockOf(r, id) = BlockOf(b, id)
  <2>1. \A id \in Nat : BlockOf(r, id) = BlockOf(f, id)
    BY <1>5, <1>11, EmptySeqs DEF BlockOf
  <2> QED
    BY <1>1, <2>1 DEF SameTree
<1>a. Shows(b, r)
  BY <1>0, <1>5, <1>13 DEF Shows, Shown
<1>14. \A lev : TreeOf(b, lev, {}) => TreeOf(r, lev, {})
  BY <1>a DEF Shows, TreeOf
<1>15. IF r.head = 0 THEN r.cnt = 0 /\ r.H = 0 ELSE \E lev : TreeOf(r, lev, {})
  BY <1>5, <1>14 DEF Rest
<1>16. DOMAIN r.mem = ToSet(r.cache) \cup ToSet(r.dirty)
  BY <1>5, EmptySeqs
<1>17. r.hdr = Header(r)
  BY <1>5 DEF Header
<1> QED
  BY <1>9, <1>10, <1>12, <1>15, <1>16, <1>17, <1>a DEF Rest, Layer, r

\* The descent of fetch(), firstkey() and nextkey().
LEMMA ReadRests ==
    ASSUME NEW b, Rest(b), b.head # 0, NEW k, NEW insert \in BOOLEAN
    PROVE  LET g == Settled(Descend(b, k, insert).b)
           IN  Rest(g) /\ Shows(b, g)
<1> DEFINE d == Descend(b, k, insert)
<1>1. PICK lev : TreeOf(b, lev, {})
  BY DEF Rest
<1>2. Descendable(b, {}, lev)
  BY <1>1 DEF Rest, Descendable
<1>3. d \in Descents /\ Descending(b, {}, lev, b.H, d) /\ HasAll(d.b, {})
  BY <1>2, DescentFacts
<1> HIDE DEF d
<1>4. /\ Layer(d.b, {}, {}) /\ SameTree(b, d.b) /\ d.b.hdr = b.hdr /\ d.b.dirty = b.dirty
      /\ b.cnt \in Nat
  <2>1. Layer(b, {}, {})
    BY DEF Rest
  <2>2. b.cnt \in Nat
    BY <2>1, LayerFacts
  <2> QED
    BY <1>3, <2>2 DEF Descending
<1>5. TreeOf(d.b, lev, {}) /\ Shows(b, d.b) /\ d.b.head # 0
  <2>1. d.b.head = b.head
    BY <1>4 DEF SameTree
  <2> QED
    BY <1>1, <1>4, <2>1, SameShown
<1>6. d.b.dirty = <<>> => d.b.hdr = Header(d.b)
  BY <1>4 DEF Rest, SameTree, Header
<1>7. IF d.b.head = 0 THEN d.b.cnt = 0 /\ d.b.H = 0 ELSE \E l : TreeOf(d.b, l, {})
  BY <1>5
<1>8. Rest(Settled(d.b)) /\ Shows(d.b, Settled(d.b))
  BY <1>3, <1>4, <1>6, <1>7, SettledFacts
<1>9. Shows(b, Settled(d.b))
  BY <1>5, <1>8 DEF Shows
<1> QED
  BY <1>8, <1>9 DEF d

\* The first block of a tree that was empty.
Started(g, lev) ==
    /\ lev = [x \in 1 .. 1 |-> 0] /\ Descendable(g, {1}, lev)
    /\ g.cnt = 1 /\ g.head = 1 /\ g.H = 0 /\ Shown(g) = [x \in 1 .. 1 |-> NewBlock]

LEMMA FirstBlock ==
    ASSUME NEW b, Rest(b), b.head = 0
    PROVE  \E lev : Started([b EXCEPT !.cnt = @ + 1, !.head = b.cnt + 1], lev)
<1> DEFINE g == [b EXCEPT !.cnt = @ + 1, !.head = b.cnt + 1]
           lev == [x \in 1 .. 1 |-> 0]
<1>0. /\ Layer(b, {}, {}) /\ Sane(b) /\ CleanBut(b, {}) /\ FitsBut(b, {}) /\ b \in BtRecord
      /\ b.cnt = 0 /\ b.H = 0 /\ DOMAIN b.mem \subseteq 1 .. b.cnt /\ DOMAIN b.file \subseteq 1 .. b.cnt
  <2>1. Layer(b, {}, {}) /\ b.cnt = 0 /\ b.H = 0
    BY DEF Rest
  <2> QED
    BY <2>1, LayerFacts
<1>1. /\ g \in BtRecord /\ g.cnt = 1 /\ g.head = 1 /\ g.H = 0 /\ g.mem = b.mem
      /\ g.cache = b.cache /\ g.dirty = b.dirty /\ g.file = b.file
  <2>1. g = [b EXCEPT !.cnt = 1, !.head = 1]
    BY <1>0 DEF BtRecord
  <2> HIDE DEF g
  <2> QED
    BY <1>0, <2>1 DEF BtRecord
<1> HIDE DEF g
<1>2. DOMAIN b.mem = {} /\ DOMAIN b.file = {}
  BY <1>0
<1>3. Layer(g, {1}, {})
  BY <1>0, <1>1, <1>2 DEF Layer, Sane, CleanBut, FitsBut
<1>4. 1 .. 1 = {1} /\ HasAll(g, {1})
  BY <1>1 DEF HasAll
<1>5. TreeOf(g, lev, {})
  <2> DEFINE V == Shown(g)
  <2>1. V = [x \in 1 .. 1 |-> BlockOf(g, x)]
    BY <1>1 DEF Shown
  <2>2. \A x \in 1 .. 1 : BlockOf(g, x) \in Ents
    BY <1>3, BlockFacts
  <2>3. V \in [1 .. 1 -> Ents]
    BY <2>1, <2>2
  <2> HIDE DEF V
  <2>4. lev \in [1 .. 1 -> 0 .. 0] /\ \A p \in 1 .. 1 : lev[p] = 0
    OBVIOUS
  <2> HIDE DEF lev
  <2>5. TreeTypes(V, 1, 1, 0, lev, {})
    BY <2>3, <2>4 DEF TreeTypes
  <2>6. \A p, i, id : ~Link(V, lev, p, i, id)
    BY <2>3, <2>4 DEF Link
  <2>7. (1 .. 1) \ ({} \cup {1}) = {}
    BY <1>4
  <2>8. Linked(V, 1, 1, lev, {})
    BY <2>6, <2>7 DEF Linked
  <2> QED
    BY <1>1, <2>5, <2>8 DEF TreeOf, Tree, V
<1>7. Shown(g) = [x \in 1 .. 1 |-> NewBlock]
  BY <1>1, <1>2 DEF Shown, BlockOf
<1>a. lev = [x \in 1 .. 1 |-> 0]
  OBVIOUS
<1> HIDE DEF lev
<1>6. Descendable(g, {1}, lev)
  BY <1>1, <1>2, <1>3, <1>4, <1>5 DEF Descendable
<1>8. Started(g, lev)
  BY <1>1, <1>6, <1>7, <1>a DEF Started
<1> QED
  BY <1>8 DEF g

\* What store() leaves, given what insertR() does.
Storing(a) == IF a.up = <<>> THEN a.b ELSE NewHead(a.b, a.up[1])

LEMMA StoreEnds ==
    ASSUME NEW b, NEW l, NEW a, InsertedInto(b, l, a)
    PROVE  Rest(Settled(Storing(a))) /\ Shows(Storing(a), Settled(Storing(a)))
<1> DEFINE g == Storing(a)
<1>1. /\ Layer(g, {}, {}) /\ HasAll(g, {}) /\ g.dirty # <<>>
      /\ \E m : TreeOf(g, m, {})
  <2>1. CASE a.up = <<>>
    <3>1. g = a.b
      BY <2>1 DEF Storing
    <3> HIDE DEF g
    <3> QED
      BY <2>1, <3>1 DEF InsertedInto
  <2>2. CASE a.up # <<>>
    <3>1. g = NewHead(a.b, a.up[1])
      BY <2>2 DEF Storing
    <3> HIDE DEF g
    <3> QED
      BY <2>2, <3>1, NewHeadFacts
  <2> QED
    BY <2>1, <2>2
<1> HIDE DEF g
<1>2. g.head # 0
  BY <1>1 DEF TreeOf, Tree, TreeTypes
<1>3. IF g.head = 0 THEN g.cnt = 0 /\ g.H = 0 ELSE \E m : TreeOf(g, m, {})
  BY <1>1, <1>2
<1> QED
  BY <1>1, <1>3, SettledFacts DEF g

Rooting(b) == IF b.head # 0 THEN b ELSE [b EXCEPT !.cnt = @ + 1, !.head = b.cnt + 1]

LEMMA StoreIs ==
    ASSUME NEW b, NEW k, NEW v
    PROVE  StoreIn(b, k, v) = Settled(Storing(Inserted(Rooting(b), k, v)))
BY DEF StoreIn, Storing, Rooting

LEMMA StoreRests ==
    ASSUME NEW b, Rest(b), NEW k \in Key, NEW v \in Val
    PROVE  Rest(StoreIn(b, k, v))
<1> DEFINE rooted == Rooting(b)
           a == Inserted(rooted, k, v)
<1>1. \E S, lev : Descendable(rooted, S, lev)
  <2>1. CASE b.head # 0
    <3>1. PICK lev : TreeOf(b, lev, {})
      BY <2>1 DEF Rest
    <3>2. Descendable(b, {}, lev)
      BY <3>1 DEF Rest, Descendable
    <3> QED
      BY <2>1, <3>2 DEF Rooting
  <2>2. CASE b.head = 0
    <3>1. \E lev : Started([b EXCEPT !.cnt = @ + 1, !.head = b.cnt + 1], lev)
      BY <2>2, FirstBlock, ZenonT(60)
    <3>2. \E lev : Started(rooted, lev)
      BY <2>2, <3>1 DEF Rooting
    <3> QED
      BY <3>2 DEF Started
  <2> QED
    BY <2>1, <2>2
<1> HIDE DEF rooted
<1>2. PICK S, lev : Descendable(rooted, S, lev)
  BY <1>1
<1>3. PICK l : InsertedInto(rooted, l, a)
  BY <1>2, InsertedFacts
<1> HIDE DEF a
<1>4. StoreIn(b, k, v) = Settled(Storing(a))
  BY StoreIs DEF rooted, a
<1> QED
  BY <1>3, <1>4, StoreEnds

\* What programs before this one have stored: what holds of the empty tree and
\* is kept by each store() is true of it.
LEMMA StoredInduction ==
    ASSUME NEW keys \in Seq(Key), NEW P, Empty \in P[0],
           \A n \in 1 .. Len(keys) : \A x \in P[n - 1] :
              StoreIn(x, keys[n], CHOOSE v \in Val : TRUE) \in P[n]
    PROVE  Stored(keys)[Len(keys)] \in P[Len(keys)]
<1> DEFINE N == Len(keys)
           v0 == CHOOSE v \in Val : TRUE
           step == [n \in 1 .. N |-> [x \in P[n - 1] |-> StoreIn(x, keys[n], v0)]]
           T == Stored(keys)
<1>1. /\ N \in Nat /\ 0 \in 0 .. N /\ N \in 0 .. N
      /\ \A n \in 1 .. N : n - 1 \in 0 .. N /\ n \in 0 .. N /\ n # 0
  OBVIOUS
<1>2. Empty \in P[0] /\ \A n \in 1 .. N : \A x \in P[n - 1] : StoreIn(x, keys[n], v0) \in P[n]
  OBVIOUS
<1> HIDE DEF N, v0
<1>3. \A n \in 1 .. N : \A x \in P[n - 1] : step[n][x] = StoreIn(x, keys[n], v0)
  OBVIOUS
<1>4. \A n \in 1 .. N : \A x \in P[n - 1] : step[n][x] \in P[n]
  BY <1>2, <1>3
<1> HIDE DEF step
<1>5. Stages(N, Empty, P, step)
  BY <1>1, <1>2, <1>4 DEF Stages
<1>6. PICK f : Staged(N, Empty, P, step, f)
  BY <1>5, StagesExist
<1>7. /\ f = [n \in 0 .. N |-> f[n]]
      /\ f[0] = Empty /\ \A n \in 1 .. N : f[n] = step[n][f[n - 1]]
      /\ \A n \in 0 .. N : f[n] \in P[n]
  BY <1>6 DEF Staged
<1>8. \A n \in 1 .. N : f[n] = StoreIn(f[n - 1], keys[n], v0)
  BY <1>1, <1>3, <1>7
<1>9. f = [n \in 0 .. N |-> IF n = 0 THEN Empty ELSE StoreIn(f[n - 1], keys[n], v0)]
  <2>1. \A n \in 0 .. N : n = 0 \/ n \in 1 .. N
    BY <1>1
  <2>2. f[0] = Empty
    BY <1>7
  <2>3. \A n \in 0 .. N : f[n] = IF n = 0 THEN Empty ELSE StoreIn(f[n - 1], keys[n], v0)
    BY <1>8, <2>1, <2>2
  <2> QED
    BY <1>7, <2>3
<1>10. T = [n \in 0 .. N |-> IF n = 0 THEN Empty ELSE StoreIn(T[n - 1], keys[n], v0)]
  BY <1>9 DEF Stored, N, v0
<1> HIDE DEF T
<1>11. T[0] = Empty /\ \A n \in 1 .. N : T[n] = StoreIn(T[n - 1], keys[n], v0)
  BY <1>1, <1>10
<1>12. T[0] \in P[0] /\ \A n \in 1 .. N : T[n - 1] \in P[n - 1] => T[n] \in P[n]
  BY <1>2, <1>11
<1>13. \A n \in 0 .. N : T[n] \in P[n]
  BY <1>1, <1>12, StagesHold
<1> QED
  BY <1>1, <1>13 DEF T, N

LEMMA StoredRests ==
    ASSUME NEW keys \in Seq(Key)
    PROVE  Rest(Stored(keys)[Len(keys)])
<1> DEFINE N == Len(keys)
           v0 == CHOOSE v \in Val : TRUE
           R == {b \in BtRecord : Rest(b)}
           P == [n \in 0 .. N |-> R]
<1>1. /\ N \in Nat /\ 0 \in 0 .. N /\ N \in 0 .. N
      /\ \A n \in 1 .. N : n - 1 \in 0 .. N /\ n \in 0 .. N /\ keys[n] \in Key
  OBVIOUS
<1>2. v0 \in Val
  BY BtreeAssumption
<1>3. \A b : Rest(b) <=> b \in R
  BY LayerFacts DEF Rest
<1>4. \A n \in 0 .. N : P[n] = R
  OBVIOUS
<1> HIDE DEF P, R
<1>5. ASSUME NEW n \in 1 .. N, NEW x \in P[n - 1] PROVE StoreIn(x, keys[n], v0) \in P[n]
  <2> HIDE DEF N, v0
  <2>1. x \in R /\ P[n] = R
    BY <1>1, <1>4
  <2>2. Rest(x) /\ keys[n] \in Key
    BY <1>1, <1>3, <2>1
  <2>3. Rest(StoreIn(x, keys[n], v0))
    BY <1>2, <2>2, StoreRests
  <2> QED
    BY <1>3, <2>1, <2>3
<1>6. Empty \in P[0]
  BY <1>1, <1>3, <1>4, EmptyRests
<1>7. Stored(keys)[Len(keys)] \in P[Len(keys)]
  BY <1>5, <1>6, StoredInduction
<1> QED
  BY <1>1, <1>3, <1>4, <1>7

-----------------------------------------------------------------------------
(* The levels of the tree. *)

Leveled(b, L) ==
    /\ b.H \in Nat /\ L[0] = IF b.head = 0 THEN {} ELSE {b.head}
    /\ \A n \in 1 .. b.H : L[n] = UNION {Links(b, id) : id \in L[n - 1]}

LEMMA LevelsAre ==
    ASSUME NEW b, NEW L, Leveled(b, L)
    PROVE  \A n \in 0 .. b.H : Level(b, n) = L[n]
<1> DEFINE N == b.H
           first == IF b.head = 0 THEN {} ELSE {b.head}
           Step(x) == UNION {Links(b, id) : id \in x}
           f == [n \in 0 .. N |-> L[n]]
           A == Levels(b)
           P == [n \in 0 .. N |-> {L[n]}]
<1>1. /\ N \in Nat /\ 0 \in 0 .. N
      /\ \A n \in 1 .. N : n - 1 \in 0 .. N /\ n \in 0 .. N /\ n > 0
      /\ \A n \in 0 .. N : (n = 0 /\ ~(n > 0)) \/ (n \in 1 .. N /\ n > 0)
  BY DEF Leveled
<1>2. L[0] = first /\ \A n \in 1 .. N : L[n] = Step(L[n - 1])
  BY DEF Leveled
<1>3. Levels(b) = CHOOSE g : g = [n \in 0 .. N |-> IF n > 0 THEN Step(g[n - 1]) ELSE first]
  BY DEF Levels
<1> HIDE DEF N, first, Step
<1>4. f = [n \in 0 .. N |-> IF n > 0 THEN Step(f[n - 1]) ELSE first]
  <2>1. \A n \in 0 .. N : f[n] = IF n > 0 THEN Step(f[n - 1]) ELSE first
    BY <1>1, <1>2
  <2>2. f = [n \in 0 .. N |-> f[n]]
    OBVIOUS
  <2> HIDE DEF f
  <2> QED
    BY <2>1, <2>2
<1> HIDE DEF f
<1>5. A = [n \in 0 .. N |-> IF n > 0 THEN Step(A[n - 1]) ELSE first]
  BY <1>3, <1>4
<1> HIDE DEF A
<1>6. A[0] = first /\ \A n \in 1 .. N : A[n] = Step(A[n - 1])
  BY <1>1, <1>5
<1>7. \A n \in 0 .. N : A[n] \in P[n] <=> A[n] = L[n]
  OBVIOUS
<1> HIDE DEF P
<1>8. \A n \in 1 .. N : A[n - 1] \in P[n - 1] => A[n] \in P[n]
  BY <1>1, <1>2, <1>6, <1>7
<1>9. A[0] \in P[0]
  BY <1>1, <1>2, <1>6, <1>7
<1>10. \A n \in 0 .. N : A[n] \in P[n]
  BY <1>1, <1>8, <1>9, StagesHold
<1> QED
  BY <1>7, <1>10 DEF Level, A, N

LEMMA NoLevels ==
    ASSUME NEW b, b.head = 0, b.H = 0
    PROVE  Level(b, 0) = {}
<1> DEFINE L == [n \in 0 .. 0 |-> {}]
<1>1. b.H \in Nat /\ L[0] = IF b.head = 0 THEN {} ELSE {b.head}
  OBVIOUS
<1>2. 1 .. b.H = {} /\ 0 \in 0 .. b.H
  OBVIOUS
<1>3. \A n \in 1 .. b.H : L[n] = UNION {Links(b, id) : id \in L[n - 1]}
  BY <1>2
<1>4. L[0] = {} /\ Leveled(b, L)
  BY <1>1, <1>3 DEF Leveled
<1> HIDE DEF L
<1>5. \A n \in 0 .. b.H : Level(b, n) = L[n]
  BY <1>4, LevelsAre
<1> QED
  BY <1>2, <1>4, <1>5

\* A block is at depth H - lev[id].
LEMMA LevelFacts ==
    ASSUME NEW b, Layer(b, {}, {}), HasAll(b, {}), b.head # 0, NEW lev, TreeOf(b, lev, {})
    PROVE  \A n \in 0 .. b.H : Level(b, n) = {id \in 1 .. b.cnt : lev[id] = b.H - n}
<1> DEFINE V == Shown(b)
           N == b.H
           L == [n \in 0 .. N |-> {id \in 1 .. b.cnt : lev[id] = N - n}]
<1>1. /\ Linked(V, b.cnt, b.head, lev, {}) /\ N \in Nat /\ b.head \in 1 .. b.cnt
      /\ V \in [1 .. b.cnt -> Ents] /\ lev \in [1 .. b.cnt -> 0 .. N] /\ lev[b.head] = N
      /\ b.cnt \in Nat
  BY DEF TreeOf, Tree, TreeTypes
<1>2. \A id \in 1 .. b.cnt : View(b, id) = V[id]
  <2>1. \A id \in 1 .. b.cnt : id \in DOMAIN b.mem \/ id \in DOMAIN b.file
    BY DEF HasAll
  <2> QED
    BY <2>1 DEF View, Shown, BlockOf
<1>a. \A p, i, id : Link(V, lev, p, i, id) => id \in (1 .. b.cnt) \ {b.head} /\ lev[id] = lev[p] - 1
  BY <1>1 DEF Linked
<1>b. \A id \in (1 .. b.cnt) \ {b.head} : \E p, i : Link(V, lev, p, i, id)
  BY <1>1 DEF Linked
<1>c. DOMAIN V = 1 .. b.cnt
  BY <1>1
<1> HIDE DEF V
<1>3. L[0] = {b.head}
  <2>1. L[0] = {id \in 1 .. b.cnt : lev[id] = N}
    BY <1>1
  <2>2. ASSUME NEW id \in 1 .. b.cnt, lev[id] = N, id # b.head PROVE FALSE
    <3>1. PICK p, i : Link(V, lev, p, i, id)
      BY <1>b, <2>2
    <3>2. lev[id] = lev[p] - 1 /\ p \in 1 .. b.cnt
      BY <1>a, <1>c, <3>1 DEF Link
    <3> QED
      BY <1>1, <2>2, <3>2
  <2> HIDE DEF L
  <2> QED
    BY <1>1, <2>1, <2>2
<1>4. ASSUME NEW n \in 1 .. N PROVE L[n] = UNION {Links(b, id) : id \in L[n - 1]}
  <2>1. n - 1 \in 0 .. N /\ n \in 0 .. N
    BY <1>1
  <2>2. L[n] = {id \in 1 .. b.cnt : lev[id] = N - n}
        /\ L[n - 1] = {id \in 1 .. b.cnt : lev[id] = N - n + 1}
    BY <1>1, <2>1
  <2> HIDE DEF L
  <2>3. \A id \in L[n - 1] : \A x : x \in Links(b, id) <=> \E i : Link(V, lev, id, i, x)
    <3> SUFFICES ASSUME NEW id \in L[n - 1], NEW x
                 PROVE  x \in Links(b, id) <=> \E i : Link(V, lev, id, i, x)
      OBVIOUS
    <3>1. id \in 1 .. b.cnt /\ lev[id] > 0
      BY <1>1, <2>2
    <3> QED
      BY <1>2, <1>c, <3>1 DEF Links, Link
  <2>4. ASSUME NEW x, NEW id \in L[n - 1], x \in Links(b, id) PROVE x \in L[n]
    <3>1. x \in 1 .. b.cnt /\ lev[x] = lev[id] - 1 /\ lev[id] = N - n + 1
      BY <1>a, <2>2, <2>3, <2>4
    <3> QED
      BY <1>1, <2>2, <3>1
  <2>5. ASSUME NEW x \in L[n] PROVE \E id \in L[n - 1] : x \in Links(b, id)
    <3>1. x \in 1 .. b.cnt /\ lev[x] = N - n /\ x # b.head
      BY <1>1, <2>2
    <3>2. PICK p, i : Link(V, lev, p, i, x)
      BY <1>b, <3>1
    <3>3. p \in 1 .. b.cnt /\ lev[x] = lev[p] - 1
      BY <1>a, <1>c, <3>2 DEF Link
    <3>4. lev[p] = N - n + 1
      <4>1. lev[p] \in 0 .. N
        BY <1>1, <3>3
      <4> QED
        BY <1>1, <3>1, <3>3, <4>1, SMTT(60)
    <3> QED
      BY <2>2, <2>3, <3>2, <3>3, <3>4
  <2> QED
    BY <2>4, <2>5
<1>5. \A n \in 0 .. N : L[n] = {id \in 1 .. b.cnt : lev[id] = N - n}
  OBVIOUS
<1> HIDE DEF L
<1>6. L[0] = IF b.head = 0 THEN {} ELSE {b.head}
  BY <1>3
<1>7. \A n \in 0 .. b.H : Level(b, n) = L[n]
  <2>1. Leveled(b, L)
    BY <1>1, <1>4, <1>6 DEF Leveled
  <2> QED
    BY <2>1, LevelsAre
<1> QED
  BY <1>5, <1>7

-----------------------------------------------------------------------------
(* The program. *)

Inv == Rest(bt) /\ stores \in 0 .. MaxStores

LEMMA InitHolds == Init => Inv
<1> SUFFICES ASSUME Init PROVE Inv
  OBVIOUS
<1>1. PICK keys \in Loaded : bt = ReopenIn(Stored(keys)[Len(keys)])
  BY DEF Init
<1>2. keys \in Seq(Key)
  BY BtreeAssumption
<1>3. Rest(bt)
  BY <1>1, <1>2, StoredRests, ReopenRests
<1>4. stores \in 0 .. MaxStores
  BY BtreeAssumption DEF Init
<1> QED
  BY <1>3, <1>4 DEF Inv

LEMMA NextHolds == Inv /\ [Next]_vars => Inv'
<1> SUFFICES ASSUME Inv, [Next]_vars PROVE Inv'
  OBVIOUS
<1>0. Rest(bt) /\ stores \in 0 .. MaxStores
  BY DEF Inv
<1>a. ASSUME NEW k, bt.head # 0 PROVE Rest(Settled(Descend(bt, k, FALSE).b))
  BY <1>0, <1>a, ReadRests
<1>1. ASSUME NEW k \in Key, Fetch(k) PROVE Inv'
  <2>1. CASE UNCHANGED <<bt, stores>>
    BY <1>0, <2>1 DEF Inv
  <2>2. CASE bt.head # 0 /\ bt' = Settled(Descend(bt, k, FALSE).b) /\ UNCHANGED stores
    BY <1>0, <1>a, <2>2 DEF Inv
  <2> QED
    BY <1>1, <2>1, <2>2 DEF Fetch
<1>2. ASSUME NEW k \in Key, Nextkey(k) PROVE Inv'
  <2>1. /\ \E id \in Level(bt, bt.H) : \E e \in ToSet(View(bt, id)) : e.key = k
        /\ bt' = Settled(Descend(bt, k, FALSE).b) /\ UNCHANGED stores
    BY <1>2 DEF Nextkey
  <2>2. bt.head # 0
    <3> SUFFICES ASSUME bt.head = 0 PROVE FALSE
      OBVIOUS
    <3>1. bt.H = 0
      BY <1>0 DEF Rest
    <3>2. Level(bt, 0) = {}
      BY <3>1, NoLevels
    <3> QED
      BY <2>1, <3>1, <3>2
  <2> QED
    BY <1>0, <1>a, <2>1, <2>2 DEF Inv
<1>3. ASSUME NEW k \in Key, NEW v \in Val, Store(k, v) PROVE Inv'
  <2>1. bt' = StoreIn(bt, k, v) /\ stores' = stores + 1 /\ stores < MaxStores
    BY <1>3 DEF Store
  <2>2. stores' \in 0 .. MaxStores
    BY <1>0, <2>1, BtreeAssumption
  <2>3. Rest(StoreIn(bt, k, v))
    BY <1>0, StoreRests
  <2> QED
    BY <2>1, <2>2, <2>3 DEF Inv
<1>4. CASE Firstkey
  <2>1. bt.head # 0 /\ bt' = Settled(Descend(bt, -1, FALSE).b) /\ UNCHANGED stores
    BY <1>4 DEF Firstkey
  <2> QED
    BY <1>0, <1>a, <2>1 DEF Inv
<1>5. CASE Reopen
  <2>1. bt' = ReopenIn(bt) /\ UNCHANGED stores
    BY <1>5 DEF Reopen
  <2> QED
    BY <1>0, <2>1, ReopenRests DEF Inv
<1>6. CASE UNCHANGED vars
  BY <1>0, <1>6 DEF Inv, vars
<1> QED
  BY <1>1, <1>2, <1>3, <1>4, <1>5, <1>6 DEF Next

LEMMA Always == Spec => []Inv
BY InitHolds, NextHolds, PTL DEF Spec

LEMMA InvTyped == Inv => TypeOK
<1> SUFFICES ASSUME Inv PROVE TypeOK
  OBVIOUS
<1>1. /\ Layer(bt, {}, {}) /\ Sane(bt) /\ bt.cnt \in Nat /\ bt.head \in Nat /\ bt.H \in Nat
      /\ DOMAIN bt.mem \subseteq 1 .. bt.cnt /\ DOMAIN bt.file \subseteq 1 .. bt.cnt
      /\ DOMAIN bt.mem = ToSet(bt.cache) \cup ToSet(bt.dirty) /\ stores \in 0 .. MaxStores
  <2>1. Layer(bt, {}, {}) /\ DOMAIN bt.mem = ToSet(bt.cache) \cup ToSet(bt.dirty)
        /\ stores \in 0 .. MaxStores
    BY DEF Inv, Rest
  <2> QED
    BY <2>1, LayerFacts
<1>2. bt.head \in 0 .. bt.cnt
  <2>1. CASE bt.head = 0
    BY <1>1, <2>1
  <2>2. CASE bt.head # 0
    <3>1. PICK lev : TreeOf(bt, lev, {})
      BY <2>2 DEF Inv, Rest
    <3>2. bt.head \in 1 .. bt.cnt
      BY <3>1 DEF TreeOf, Tree, TreeTypes
    <3> QED
      BY <1>1, <3>2
  <2> QED
    BY <2>1, <2>2
<1>3. /\ Apart(bt.cache) /\ BucketsFit(bt.cache) /\ Apart(bt.dirty)
      /\ Len(bt.dirty) <= MaxDirty
  BY <1>1 DEF Sane
<1>4. ASSUME NEW id \in DOMAIN bt.mem PROVE Cardinality(Bucket(bt, id)) <= Mcache
  <2>1. id \in Nat /\ id % Nhash \in Nat
    BY <1>1, HashIsNat
  <2>2. Cardinality(Bucket(bt, id)) = Cardinality(InBucket(bt.cache, id % Nhash))
    BY <1>3, <2>1, BucketSize DEF Bucket
  <2> QED
    BY <1>3, <2>1, <2>2 DEF BucketsFit
<1> QED
  BY <1>1, <1>2, <1>3, <1>4 DEF TypeOK, Apart

(* A block that is in memory and not dirty is what the file has, whatever  *)
(* is stored, read, evicted and flushed, and however large a block, the    *)
(* cache and the list of dirty blocks are (getblock, putblock, flush).     *)
THEOREM WhatIsCleanIsWritten == Spec => []CleanMeansWritten
<1>1. Inv => CleanMeansWritten
  <2> SUFFICES ASSUME Inv PROVE CleanMeansWritten
    OBVIOUS
  <2>1. TypeOK
    BY InvTyped
  <2>2. CleanBut(bt, {})
    BY DEF Inv, Rest, Layer
  <2> QED
    BY <2>1, <2>2 DEF CleanMeansWritten, CleanBut
<1> QED
  BY <1>1, Always, PTL

(* No block is full, in memory or on the file: split() comes in time, and  *)
(* both of its halves fit (insertR, split, flush).                         *)
THEOREM EveryBlockFits == Spec => []FileFits
<1>1. Inv => FileFits
  <2> SUFFICES ASSUME Inv PROVE FileFits
    OBVIOUS
  <2>1. FitsBut(bt, {})
    BY DEF Inv, Rest, Layer
  <2> QED
    BY <2>1 DEF FileFits, FitsBut
<1> QED
  BY <1>1, Always, PTL

LEMMA InvLinked == Inv => EveryBlockLinked
<1> SUFFICES ASSUME Inv PROVE EveryBlockLinked
  OBVIOUS
<1> DEFINE inner == UNION {Level(bt, n) : n \in 0 .. bt.H - 1}
           Places(id) == {at \in inner \X (1 .. BLOCK) :
                             /\ at[2] \in DOMAIN View(bt, at[1])
                             /\ View(bt, at[1])[at[2]].val = id}
<1>0. Layer(bt, {}, {}) /\ HasAll(bt, {}) /\ bt.cnt \in Nat /\ bt.H \in Nat
  <2>1. Layer(bt, {}, {}) /\ HasAll(bt, {})
    BY DEF Inv, Rest
  <2> QED
    BY <2>1, LayerFacts
<1>a. SUFFICES /\ inner \cup Level(bt, bt.H) = 1 .. bt.cnt
               /\ \A id \in 1 .. bt.cnt :
                     Cardinality(Places(id)) = IF id = bt.head THEN 0 ELSE 1
  BY DEF EveryBlockLinked
<1>1. CASE bt.head = 0
  <2>1. bt.cnt = 0 /\ bt.H = 0
    BY <1>1 DEF Inv, Rest
  <2>2. Level(bt, bt.H) = {}
    BY <1>1, <2>1, NoLevels
  <2>3. 0 .. bt.H - 1 = {} /\ 1 .. bt.cnt = {}
    BY <2>1
  <2>4. inner = {}
    BY <2>3
  <2> HIDE DEF inner, Places
  <2> QED
    BY <2>2, <2>3, <2>4
<1>2. CASE bt.head # 0
  <2>1. PICK lev : TreeOf(bt, lev, {})
    BY <1>2 DEF Inv, Rest
  <2> DEFINE V == Shown(bt)
             N == bt.H
  <2>2. /\ Linked(V, bt.cnt, bt.head, lev, {}) /\ V \in [1 .. bt.cnt -> Ents]
        /\ lev \in [1 .. bt.cnt -> 0 .. N] /\ DOMAIN V = 1 .. bt.cnt
    BY <2>1 DEF TreeOf, Tree, TreeTypes
  <2>3. \A n \in 0 .. N : Level(bt, n) = {id \in 1 .. bt.cnt : lev[id] = N - n}
    BY <1>0, <1>2, <2>1, LevelFacts
  <2>4. inner = {id \in 1 .. bt.cnt : lev[id] > 0}
    <3>1. ASSUME NEW id \in inner PROVE id \in 1 .. bt.cnt /\ lev[id] > 0
      <4>1. PICK n \in 0 .. N - 1 : id \in Level(bt, n)
        OBVIOUS
      <4>2. n \in 0 .. N /\ N - n > 0
        BY <1>0
      <4>3. id \in 1 .. bt.cnt /\ lev[id] = N - n
        BY <2>3, <4>1, <4>2
      <4> QED
        BY <4>2, <4>3
    <3>2. ASSUME NEW id \in 1 .. bt.cnt, lev[id] > 0 PROVE id \in inner
      <4>1. lev[id] \in 0 .. N
        BY <2>2
      <4> DEFINE n == N - lev[id]
      <4>2. n \in 0 .. N - 1 /\ n \in 0 .. N /\ lev[id] = N - n
        BY <1>0, <3>2, <4>1
      <4> HIDE DEF n
      <4>3. id \in Level(bt, n)
        BY <2>3, <4>2
      <4> QED
        BY <4>2, <4>3
    <3> HIDE DEF inner
    <3> QED
      BY <3>1, <3>2
  <2>5. Level(bt, N) = {id \in 1 .. bt.cnt : lev[id] = 0}
    <3>1. N \in 0 .. N /\ N - N = 0
      BY <1>0
    <3> QED
      BY <2>3, <3>1
  <2>6. \A id \in 1 .. bt.cnt : lev[id] = 0 \/ lev[id] > 0
    <3>1. \A id \in 1 .. bt.cnt : lev[id] \in 0 .. N
      BY <2>2
    <3> QED
      BY <1>0, <3>1
  <2> HIDE DEF inner
  <2>7. inner \cup Level(bt, bt.H) = 1 .. bt.cnt
    BY <2>4, <2>5, <2>6
  <2>8. ASSUME NEW p \in inner
        PROVE  View(bt, p) = V[p] /\ V[p] \in Ents /\ DOMAIN V[p] \subseteq 1 .. BLOCK
    <3>1. p \in 1 .. bt.cnt
      BY <2>4
    <3>2. p \in DOMAIN bt.mem \/ p \in DOMAIN bt.file
      BY <1>0, <3>1 DEF HasAll
    <3>3. View(bt, p) = V[p]
      BY <3>1, <3>2 DEF View, Shown, BlockOf
    <3>4. FitsBut(bt, {})
      BY <1>0 DEF Layer
    <3>5. Size(View(bt, p)) < BLOCK
      BY <3>2, <3>4 DEF View, FitsBut
    <3> DEFINE m == Len(V[p])
    <3>6. V[p] \in Ents
      BY <2>2, <3>1
    <3>7. m \in Nat /\ 2 + EntrySize * m < BLOCK /\ DOMAIN V[p] = 1 .. m
      BY <3>3, <3>5, <3>6, EntsFacts DEF Size
    <3> HIDE DEF m
    <3>8. m <= EntrySize * m
      BY <3>7, BtreeAssumption
    <3>9. m <= BLOCK
      <4>1. EntrySize * m \in Int
        BY <3>7, BtreeAssumption
      <4> DEFINE q == EntrySize * m
      <4>2. q \in Int /\ m <= q /\ 2 + q < BLOCK
        BY <3>7, <3>8, <4>1
      <4> HIDE DEF q
      <4> QED
        BY <3>7, <4>2, BtreeAssumption
    <3>10. 1 .. m \subseteq 1 .. BLOCK
      BY <3>7, <3>9, BtreeAssumption
    <3> QED
      BY <3>3, <3>6, <3>7, <3>10
  <2> HIDE DEF V, N
  <2>9. \A p, i, id : Link(V, lev, p, i, id) <=> p \in inner /\ i \in DOMAIN View(bt, p)
                                                /\ View(bt, p)[i].val = id
    BY <2>2, <2>4, <2>8 DEF Link
  <2>10. ASSUME NEW id \in 1 .. bt.cnt
         PROVE  \A p, i : <<p, i>> \in Places(id) <=> Link(V, lev, p, i, id)
    <3> SUFFICES ASSUME NEW p, NEW i
                 PROVE  <<p, i>> \in Places(id) <=> Link(V, lev, p, i, id)
      OBVIOUS
    <3>1. Link(V, lev, p, i, id) => p \in inner /\ i \in 1 .. BLOCK
      BY <2>8, <2>9
    <3> QED
      BY <2>9, <3>1
  <2>11. \A id : \A at \in Places(id) : at = <<at[1], at[2]>>
    OBVIOUS
  <2> HIDE DEF Places
  <2>12. ASSUME NEW id \in 1 .. bt.cnt
         PROVE  Cardinality(Places(id)) = IF id = bt.head THEN 0 ELSE 1
    <3>1. CASE id = bt.head
      <4>1. \A p, i : ~Link(V, lev, p, i, id)
        BY <2>2, <3>1 DEF Linked
      <4>2. Places(id) = {}
        BY <2>10, <2>11, <4>1
      <4>3. Cardinality({}) = 0
        BY FS_EmptySet
      <4> QED
        BY <3>1, <4>2, <4>3
    <3>2. CASE id # bt.head
      <4>1. \E p, i : Link(V, lev, p, i, id)
        BY <2>2, <3>2 DEF Linked
      <4>2. PICK p, i : Link(V, lev, p, i, id)
        BY <4>1
      <4>3. \A q, j : Link(V, lev, q, j, id) => q = p /\ j = i
        BY <2>2, <4>2 DEF Linked
      <4>4. Places(id) = {<<p, i>>}
        <5>1. <<p, i>> \in Places(id)
          BY <2>10, <4>2
        <5>2. ASSUME NEW at \in Places(id) PROVE at = <<p, i>>
          <6>1. at = <<at[1], at[2]>>
            BY <2>11
          <6>2. Link(V, lev, at[1], at[2], id)
            BY <2>10, <6>1
          <6>3. at[1] = p /\ at[2] = i
            BY <4>3, <6>2
          <6> QED
            BY <6>1, <6>3
        <5> QED
          BY <5>1, <5>2
      <4>5. Cardinality({<<p, i>>}) = 1
        BY FS_Singleton
      <4> QED
        BY <3>2, <4>4, <4>5
    <3> QED
      BY <3>1, <3>2
  <2> QED
    BY <2>7, <2>12
<1> QED
  BY <1>1, <1>2

(* Every block is linked once: neither a split nor a new root loses a      *)
(* block or links one twice, in a tree of any height (split, insertR,      *)
(* Btree.store).                                                           *)
THEOREM BlocksAreLinked == Spec => []EveryBlockLinked
BY InvLinked, Always, PTL

-----------------------------------------------------------------------------
(***************************************************************************)
(* The order of the keys.  The entries of a leaf are in order, and those   *)
(* of an inner block but for the first, whose key is never compared.       *)
(***************************************************************************)
Sorted(e, a) == \A i, j \in a .. Len(e) : i < j => e[i].key < e[j].key

LEMMA KeyIsNat == Key \subseteq Nat /\ Nil \notin Key /\ Nil \notin Val /\ \A x \in Item : x.key \in Nat /\ x.key \in Key
BY BtreeAssumption DEF Item

LEMMA EntKeys == ASSUME NEW e \in Ents PROVE \A i \in 1 .. Len(e) : e[i].key \in Nat /\ e[i].key \in Key
BY EntsFacts, KeyIsNat

LEMMA LowSegment ==
    ASSUME NEW a \in Nat, a >= 1, NEW L \in Nat, NEW S \in SUBSET (a .. L),
           \A i \in S : \A j \in a .. i : j \in S
    PROVE  /\ Cardinality(S) \in Nat /\ S = a .. (a + Cardinality(S) - 1)
           /\ (a <= L + 1 => a + Cardinality(S) - 1 <= L)
<1>1. CASE S = {}
  <2>1. Cardinality(S) = 0
    BY <1>1, FS_EmptySet
  <2>2. a .. (a + 0 - 1) = {}
    OBVIOUS
  <2> QED
    BY <1>1, <2>1, <2>2
<1>2. CASE S # {}
  <2>0. S \in SUBSET (1 .. L)
    OBVIOUS
  <2>1. PICK g \in S : \A m \in S : g >= m
    BY <1>2, <2>0, GreatestElement
  <2>2. g \in a .. L
    OBVIOUS
  <2>3. S = a .. g
    <3>1. \A j \in a .. g : j \in S
      BY <2>1
    <3>2. \A j \in S : j \in a .. g
      BY <2>1, <2>2
    <3> QED
      BY <3>1, <3>2
  <2>4. Cardinality(a .. g) = g - a + 1
    BY <2>2, FS_Interval
  <2> QED
    BY <2>2, <2>3, <2>4
<1> QED
  BY <1>1, <1>2

LEMMA SlotIs ==
    ASSUME NEW e \in Ents, e # <<>>, Sorted(e, 2), NEW k \in Int
    PROVE  LET m == SearchSlot(e, k)
           IN  /\ m \in 1 .. Len(e) /\ (\A i \in 2 .. m : e[i].key <= k)
               /\ \A i \in m + 1 .. Len(e) : k < e[i].key
<1> DEFINE S == {i \in 2 .. Len(e) : e[i].key <= k}
           c == Cardinality(S)
           L == Len(e)
<1>1. L \in Nat /\ L >= 1 /\ \A i \in 1 .. L : e[i].key \in Nat
  BY EntsFacts, EntKeys
<1>2. \A i \in S : \A j \in 2 .. i : j \in S
  <2> SUFFICES ASSUME NEW i \in S, NEW j \in 2 .. i PROVE j \in S
    OBVIOUS
  <2>1. i \in 2 .. L /\ e[i].key <= k /\ j \in 2 .. L
    OBVIOUS
  <2>2. j < i => e[j].key < e[i].key
    BY <2>1 DEF Sorted
  <2>3. e[j].key \in Nat /\ e[i].key \in Nat
    BY <1>1, <2>1
  <2>4. e[j].key <= k
    BY <2>1, <2>2, <2>3
  <2> QED
    BY <2>1, <2>4
<1>3. S \in SUBSET (2 .. L)
  OBVIOUS
<1>4. SearchSlot(e, k) = 1 + c
  BY DEF SearchSlot
<1>5. \A i \in 2 .. L : i \in S <=> e[i].key <= k
  OBVIOUS
<1> HIDE DEF S, L
<1>6. c \in Nat /\ S = 2 .. (2 + c - 1) /\ (2 <= L + 1 => 2 + c - 1 <= L)
  <2>1. 2 \in Nat /\ 2 >= 1
    OBVIOUS
  <2> QED
    BY <1>1, <1>2, <1>3, <2>1, LowSegment
<1> HIDE DEF c
<1>7. c \in Nat /\ S = 2 .. c + 1 /\ c + 1 <= L
  BY <1>1, <1>6
<1>8. \A i \in 2 .. c + 1 : e[i].key <= k
  <2> SUFFICES ASSUME NEW i \in 2 .. c + 1 PROVE e[i].key <= k
    OBVIOUS
  <2>1. i \in S /\ i \in 2 .. L
    BY <1>1, <1>7
  <2> QED
    BY <1>5, <2>1
<1>9. \A i \in c + 2 .. L : k < e[i].key
  <2> SUFFICES ASSUME NEW i \in c + 2 .. L PROVE k < e[i].key
    OBVIOUS
  <2>1. i \notin S /\ i \in 2 .. L /\ i \in 1 .. L
    BY <1>1, <1>7
  <2> QED
    BY <1>1, <1>5, <2>1
<1>10. 1 + c = c + 1 /\ (1 + c) + 1 = c + 2 /\ 1 + c \in 1 .. L
  BY <1>1, <1>7
<1> QED
  BY <1>4, <1>8, <1>9, <1>10 DEF L

LEMMA BeforeIs ==
    ASSUME NEW e \in Ents, Sorted(e, 1), NEW k \in Int
    PROVE  LET m == Before(e, k)
           IN  /\ m \in 0 .. Len(e) /\ (\A i \in 1 .. m : e[i].key < k)
               /\ \A i \in m + 1 .. Len(e) : k <= e[i].key
<1> DEFINE S == {i \in DOMAIN e : e[i].key < k}
           c == Cardinality(S)
           L == Len(e)
<1>1. L \in Nat /\ DOMAIN e = 1 .. L /\ \A i \in 1 .. L : e[i].key \in Nat
  BY EntsFacts, EntKeys
<1>2. \A i \in S : \A j \in 1 .. i : j \in S
  <2> SUFFICES ASSUME NEW i \in S, NEW j \in 1 .. i PROVE j \in S
    OBVIOUS
  <2>1. i \in 1 .. L /\ e[i].key < k /\ j \in 1 .. L
    BY <1>1
  <2>2. j < i => e[j].key < e[i].key
    BY <2>1 DEF Sorted
  <2>3. e[j].key \in Nat /\ e[i].key \in Nat
    BY <1>1, <2>1
  <2>4. e[j].key < k
    BY <2>1, <2>2, <2>3
  <2> QED
    BY <1>1, <2>1, <2>4
<1>3. S \in SUBSET (1 .. L)
  BY <1>1
<1>4. Before(e, k) = c
  BY DEF Before
<1>5. \A i \in 1 .. L : i \in S <=> e[i].key < k
  BY <1>1
<1> HIDE DEF S, L
<1>6. c \in Nat /\ S = 1 .. (1 + c - 1) /\ (1 <= L + 1 => 1 + c - 1 <= L)
  BY <1>1, <1>2, <1>3, LowSegment
<1> HIDE DEF c
<1>7. c \in Nat /\ S = 1 .. c /\ c <= L
  BY <1>1, <1>6
<1>8. \A i \in 1 .. c : e[i].key < k
  BY <1>1, <1>5, <1>7
<1>9. \A i \in c + 1 .. L : k <= e[i].key
  <2> SUFFICES ASSUME NEW i \in c + 1 .. L PROVE k <= e[i].key
    OBVIOUS
  <2>1. i \notin S /\ i \in 1 .. L
    BY <1>1, <1>7
  <2> QED
    BY <1>1, <1>5, <2>1
<1> QED
  BY <1>1, <1>4, <1>7, <1>8, <1>9 DEF L

\* A key that is in no inner block is inserted where it would be searched.
LEMMA SameSlot ==
    ASSUME NEW e \in Ents, NEW k \in Nat, \A i \in 2 .. Len(e) : e[i].key # k
    PROVE  InsertSlot(e, k) = SearchSlot(e, k)
<1>1. \A i \in 2 .. Len(e) : e[i].key \in Nat
  BY EntKeys, EntsFacts
<1>2. {i \in 2 .. Len(e) : e[i].key < k} = {i \in 2 .. Len(e) : e[i].key <= k}
  BY <1>1
<1> QED
  BY <1>2 DEF InsertSlot, SearchSlot

LEMMA SlotUnique ==
    ASSUME NEW e \in Ents, e # <<>>, Sorted(e, 2), NEW k \in Int, NEW m \in 1 .. Len(e),
           m = 1 \/ e[m].key <= k, m = Len(e) \/ k < e[m + 1].key
    PROVE  SearchSlot(e, k) = m
<1> DEFINE s == SearchSlot(e, k)
           L == Len(e)
<1>1. /\ s \in 1 .. L /\ (\A i \in 2 .. s : e[i].key <= k)
      /\ \A i \in s + 1 .. L : k < e[i].key
  BY SlotIs
<1>2. L \in Nat /\ \A i \in 1 .. L : e[i].key \in Nat
  BY EntsFacts, EntKeys
<1> HIDE DEF s
<1>3. ~(s < m)
  <2> SUFFICES ASSUME s < m PROVE FALSE
    OBVIOUS
  <2>1. m \in s + 1 .. L /\ m # 1
    BY <1>1, <1>2
  <2> QED
    BY <1>1, <1>2, <2>1
<1>4. ~(m < s)
  <2> SUFFICES ASSUME m < s PROVE FALSE
    OBVIOUS
  <2>1. m + 1 \in 2 .. s /\ m # L /\ m + 1 \in 1 .. L
    BY <1>1, <1>2
  <2> QED
    BY <1>1, <1>2, <2>1
<1> QED
  BY <1>1, <1>2, <1>3, <1>4 DEF s

LEMMA SlotMonotone ==
    ASSUME NEW e \in Ents, e # <<>>, Sorted(e, 2), NEW k \in Int, NEW l \in Int, k <= l
    PROVE  SearchSlot(e, k) <= SearchSlot(e, l)
<1> DEFINE s == SearchSlot(e, k)
           t == SearchSlot(e, l)
           L == Len(e)
<1>1. s \in 1 .. L /\ \A i \in 2 .. s : e[i].key <= k
  BY SlotIs
<1>2. t \in 1 .. L /\ \A i \in t + 1 .. L : l < e[i].key
  BY SlotIs
<1>3. L \in Nat /\ \A i \in 1 .. L : e[i].key \in Nat
  BY EntsFacts, EntKeys
<1> HIDE DEF s, t
<1> SUFFICES ASSUME t < s PROVE FALSE
  BY <1>1, <1>2, <1>3 DEF s, t
<1>4. s \in 2 .. s /\ s \in t + 1 .. L
  BY <1>1, <1>2, <1>3
<1> QED
  BY <1>1, <1>2, <1>3, <1>4

-----------------------------------------------------------------------------
(***************************************************************************)
(* The tree as a dictionary C.  K[id] are the numbers whose way from the   *)
(* root leads through block id.                                            *)
(***************************************************************************)
Dicts == [Key -> Val \cup {Nil}]

Convex(S) == \A x, y \in S : \A z \in Int : x <= z /\ z <= y => z \in S

LeafIs(e, S, C) ==
    /\ Sorted(e, 1)
    /\ \A i \in 1 .. Len(e) : e[i].key \in S /\ e[i].val \in Val /\ C[e[i].key] = e[i].val

InnerIs(e, S, C) ==
    /\ Sorted(e, 2)
    /\ \A i \in 2 .. Len(e) : e[i].key \in S
    /\ \A i \in 1 .. Len(e) : C[e[i].key] # Nil

InLeaf(V, n, lev, k) == \E p \in 1 .. n : lev[p] = 0 /\ \E i \in 1 .. Len(V[p]) : V[p][i].key = k

Ordered(V, n, lev, K, C) ==
    /\ K \in [1 .. n -> SUBSET Int] /\ \A p \in 1 .. n : K[p] # {} /\ Convex(K[p])
    /\ \A p, q \in 1 .. n : p # q /\ lev[p] = lev[q] => K[p] \cap K[q] = {}
    /\ \A p \in 1 .. n : lev[p] = 0 => LeafIs(V[p], K[p], C) /\ (n > 1 => V[p] # <<>>)
    /\ \A p \in 1 .. n : lev[p] > 0 => InnerIs(V[p], K[p], C)
    /\ \A k \in Key : C[k] # Nil => InLeaf(V, n, lev, k)

\* A parent sees block o, which was split off s and has no link yet, as a part
\* of s; s = o = 0 if there is none.
Seen(K, s, o, id) == IF id = s THEN K[s] \cup K[o] ELSE K[id]

Slot(e, S, i) == {k \in S : SearchSlot(e, k) = i}

Ways(V, head, lev, K, s, o) ==
    /\ Seen(K, s, o, head) = Int
    /\ \A p, i, id : Link(V, lev, p, i, id) => Slot(V[p], K[p], i) = Seen(K, s, o, id)

Keyed(V, n, head, lev, K, C, s, o) == Ordered(V, n, lev, K, C) /\ Ways(V, head, lev, K, s, o)

\* x parts the numbers of s from those of o.
Parted(K, s, o, x) == x \in K[o] /\ (\A k \in K[s] : k < x) /\ \A k \in K[o] : x <= k

\* The entries e of a leaf are those of ents, with v for k.
LeafWith(ents, k, v, e) ==
    /\ e \in Ents /\ Sorted(e, 1)
    /\ \E i \in 1 .. Len(e) : e[i].key = k
    /\ \A i \in 1 .. Len(e) :
         \/ e[i].key = k /\ e[i].val = v
         \/ e[i].key # k /\ \E m \in 1 .. Len(ents) : ents[m] = e[i]
    /\ \A m \in 1 .. Len(ents) : \E i \in 1 .. Len(e) : e[i].key = ents[m].key

LEMMA AddedToLeaf ==
    ASSUME NEW ents \in Ents, Sorted(ents, 1), NEW k \in Key, NEW v \in Val
    PROVE  LeafWith(ents, k, v, Added(ents, k, Entry(k, v), TRUE))
<1> DEFINE j == Before(ents, k) + 1
           L == Len(ents)
           e == Added(ents, k, Entry(k, v), TRUE)
           x == Entry(k, v)
<1>1. /\ L \in Nat /\ DOMAIN ents = 1 .. L /\ k \in Nat /\ k \in Int
      /\ \A i \in 1 .. L : ents[i] \in Item /\ ents[i].key \in Nat
  BY EntsFacts, EntKeys, KeyIsNat
<1>2. x \in Item /\ x.key = k /\ x.val = v
  BY DEF Entry, Item
<1>3. /\ j \in 1 .. L + 1 /\ (\A i \in 1 .. j - 1 : ents[i].key < k)
      /\ \A i \in j .. L : k <= ents[i].key
  <2> DEFINE c == Before(ents, k)
  <2>1. /\ c \in 0 .. L /\ (\A i \in 1 .. c : ents[i].key < k)
        /\ \A i \in c + 1 .. L : k <= ents[i].key
    BY <1>1, BeforeIs
  <2> HIDE DEF c
  <2>2. (c + 1) - 1 = c /\ c + 1 \in 1 .. L + 1
    BY <1>1, <2>1
  <2> QED
    BY <2>1, <2>2 DEF c
<1>4. CASE Has(ents, j, k)
  <2> DEFINE y == [ents[j] EXCEPT !.val = v]
  <2>1. j \in 1 .. L /\ ents[j].key = k
    BY <1>1, <1>4 DEF Has
  <2>2. e = [ents EXCEPT ![j].val = x.val]
    BY <1>4 DEF Added
  <2> HIDE DEF j, x
  <2>3. y \in Item /\ y.key = k /\ y.val = v
    <3>1. ents[j] \in Item
      BY <1>1, <2>1
    <3> QED
      BY <1>2, <2>1, <3>1 DEF Item
  <2> HIDE DEF y, e
  <2>4. e = [ents EXCEPT ![j] = y]
    BY <1>2, <2>2 DEF y
  <2>5. /\ e \in Ents /\ Len(e) = L /\ e[j] = y
        /\ \A i \in 1 .. L : i # j => e[i] = ents[i]
    BY <1>1, <2>1, <2>3, <2>4 DEF Ents
  <2>6. \A i \in 1 .. L : e[i].key = ents[i].key
    BY <2>1, <2>3, <2>5
  <2>7. Sorted(e, 1)
    BY <2>5, <2>6 DEF Sorted
  <2>8. ASSUME NEW i \in 1 .. L, i # j PROVE ents[i].key # k
    <3>1. i < j => ents[i].key < ents[j].key
      BY <2>1 DEF Sorted
    <3>2. j < i => ents[j].key < ents[i].key
      BY <2>1 DEF Sorted
    <3> QED
      BY <1>1, <2>1, <2>8, <3>1, <3>2
  <2>9. \A i \in 1 .. L : \/ e[i].key = k /\ e[i].val = v
                          \/ e[i].key # k /\ \E m \in 1 .. L : ents[m] = e[i]
    BY <2>3, <2>5, <2>8
  <2> QED
    BY <2>1, <2>3, <2>5, <2>6, <2>7, <2>9 DEF e, LeafWith
<1>5. CASE ~Has(ents, j, k)
  <2>1. e = InsertAt(ents, j, x)
    BY <1>5 DEF Added
  <2>a. j \in 1 .. L => ents[j].key # k
    BY <1>1, <1>5 DEF Has
  <2> HIDE DEF j, x
  <2>2. /\ e \in Seq(Item) /\ Len(e) = L + 1
        /\ \A i \in 1 .. L + 1 :
              e[i] = IF i < j THEN ents[i] ELSE IF i = j THEN x ELSE ents[i - 1]
    <3>1. ents \in Seq(Item) /\ j \in 1 .. Len(ents) + 1 /\ x \in Item
      BY <1>2, <1>3 DEF Ents, x
    <3> HIDE DEF e
    <3> QED
      BY <2>1, <3>1, InsertAtFacts, SMTT(60)
  <2> HIDE DEF e, L
  <2>3. e \in Ents
    BY <2>2 DEF Ents
  <2>4. /\ \A i \in 1 .. L + 1 : i < j => e[i] = ents[i] /\ i \in 1 .. L /\ ents[i].key < k
        /\ e[j] = x
        /\ \A i \in 1 .. L + 1 : j < i => e[i] = ents[i - 1] /\ i - 1 \in 1 .. L
                                          /\ i - 1 \in j .. L
    BY <1>1, <1>3, <2>2
  <2>5. \A i \in j .. L : k < ents[i].key
    <3> SUFFICES ASSUME NEW i \in j .. L PROVE k < ents[i].key
      OBVIOUS
    <3>1. i \in 1 .. L /\ k <= ents[i].key /\ ents[i].key \in Nat
      BY <1>1, <1>3
    <3>2. CASE i = j
      BY <1>1, <2>a, <3>1, <3>2
    <3>3. CASE i # j
      <4>1. j \in 1 .. L /\ j < i /\ ents[j].key \in Nat /\ k <= ents[j].key
        BY <1>1, <1>3, <3>3
      <4>2. ents[j].key < ents[i].key
        BY <3>1, <4>1 DEF Sorted, L
      <4> QED
        BY <1>1, <3>1, <4>1, <4>2
    <3> QED
      BY <3>2, <3>3
  <2>6. \A i \in 1 .. L + 1 : j < i => e[i].key > k /\ e[i].key # k
    <3> SUFFICES ASSUME NEW i \in 1 .. L + 1, j < i PROVE e[i].key > k /\ e[i].key # k
      OBVIOUS
    <3>1. e[i] = ents[i - 1] /\ i - 1 \in 1 .. L /\ i - 1 \in j .. L
      BY <2>4
    <3>2. k < ents[i - 1].key /\ ents[i - 1].key \in Nat
      BY <1>1, <2>5, <3>1
    <3> QED
      BY <1>1, <3>1, <3>2
  <2>7. ASSUME NEW i \in 1 .. L + 1, NEW m \in 1 .. L + 1, i < m PROVE e[i].key < e[m].key
    <3>1. CASE m < j
      <4>1. i < j
        BY <1>1, <1>3, <2>7, <3>1
      <4>2. e[i] = ents[i] /\ e[m] = ents[m] /\ i \in 1 .. L /\ m \in 1 .. L
        BY <2>4, <3>1, <4>1
      <4> QED
        BY <2>7, <4>2 DEF Sorted, L
    <3>2. CASE m = j
      BY <1>2, <2>4, <2>7, <3>2
    <3>3. CASE i = j
      BY <1>1, <1>2, <2>4, <2>6, <2>7, <3>3
    <3>4. CASE i < j /\ j < m
      <4>1. e[i] = ents[i] /\ ents[i].key < k /\ i \in 1 .. L
        BY <2>4, <3>4
      <4>2. e[m].key > k /\ e[m] = ents[m - 1] /\ m - 1 \in 1 .. L
        BY <2>4, <2>6, <3>4
      <4>3. ents[i].key \in Nat /\ ents[m - 1].key \in Nat
        BY <1>1, <4>1, <4>2
      <4> QED
        BY <1>1, <4>1, <4>2, <4>3
    <3>5. CASE j < i
      <4>1. e[i] = ents[i - 1] /\ i - 1 \in 1 .. L
        BY <2>4, <3>5
      <4>2. j < m
        BY <1>3, <2>7, <3>5
      <4>3. e[m] = ents[m - 1] /\ m - 1 \in 1 .. L
        BY <2>4, <4>2
      <4>4. i - 1 < m - 1
        BY <2>7
      <4> QED
        BY <4>1, <4>3, <4>4 DEF Sorted, L
    <3> QED
      BY <1>1, <1>3, <2>7, <3>1, <3>2, <3>3, <3>4, <3>5
  <2>8. Sorted(e, 1)
    BY <2>2, <2>7 DEF Sorted
  <2>9. j \in 1 .. L + 1 /\ e[j].key = k /\ e[j].val = v
    BY <1>2, <1>3, <2>4
  <2>10. ASSUME NEW i \in 1 .. L + 1
         PROVE  \/ e[i].key = k /\ e[i].val = v
                \/ e[i].key # k /\ \E m \in 1 .. L : ents[m] = e[i]
    <3>1. CASE i = j
      BY <2>9, <3>1
    <3>2. CASE i < j
      <4>1. e[i] = ents[i] /\ i \in 1 .. L /\ ents[i].key < k
        BY <2>4, <3>2
      <4>2. ents[i].key \in Nat
        BY <1>1, <4>1
      <4> QED
        BY <1>1, <4>1, <4>2
    <3>3. CASE j < i
      BY <2>4, <2>6, <3>3
    <3> QED
      BY <1>3, <3>1, <3>2, <3>3
  <2>11. ASSUME NEW m \in 1 .. L PROVE \E i \in 1 .. L + 1 : e[i].key = ents[m].key
    <3>1. CASE m < j
      <4>1. m \in 1 .. L + 1 /\ e[m] = ents[m]
        BY <1>1, <2>2, <3>1
      <4> QED
        BY <4>1
    <3>2. CASE ~(m < j)
      <4>1. m + 1 \in 1 .. L + 1 /\ j < m + 1 /\ (m + 1) - 1 = m
        BY <1>1, <1>3, <3>2
      <4>2. e[m + 1] = ents[m]
        BY <2>4, <4>1
      <4> QED
        BY <4>1, <4>2
    <3> QED
      BY <3>1, <3>2
  <2> QED
    BY <2>2, <2>3, <2>8, <2>9, <2>10, <2>11 DEF e, L, LeafWith
<1> QED
  BY <1>4, <1>5

Known(V, n, head, lev, K, C, s, o) ==
    /\ n \in Nat /\ head \in 1 .. n /\ V \in [1 .. n -> Ents] /\ DOMAIN V = 1 .. n
    /\ \A p \in 1 .. n : lev[p] \in Nat /\ V[p] \in Ents
    /\ \A p \in 1 .. n : lev[p] > 0 => V[p] # <<>>
    /\ K \in [1 .. n -> SUBSET Int] /\ \A p \in 1 .. n : K[p] # {} /\ Convex(K[p])
    /\ \A p, q \in 1 .. n : p # q /\ lev[p] = lev[q] => K[p] \cap K[q] = {}
    /\ \A p \in 1 .. n : lev[p] = 0 => LeafIs(V[p], K[p], C) /\ (n > 1 => V[p] # <<>>)
    /\ \A p \in 1 .. n : lev[p] > 0 => InnerIs(V[p], K[p], C)
    /\ \A k \in Key : C[k] # Nil => InLeaf(V, n, lev, k)
    /\ Seen(K, s, o, head) = Int
    /\ \A p, i, id : Link(V, lev, p, i, id) => Slot(V[p], K[p], i) = Seen(K, s, o, id)

LEMMA KeyedFacts ==
    ASSUME NEW V, NEW n, NEW head, NEW H, NEW lev, NEW O, Tree(V, n, head, H, lev, O),
           NEW K, NEW C \in Dicts, NEW s, NEW o, Keyed(V, n, head, lev, K, C, s, o)
    PROVE  Known(V, n, head, lev, K, C, s, o)
<1>1. TreeTypes(V, n, head, H, lev, O) /\ Ordered(V, n, lev, K, C) /\ Ways(V, head, lev, K, s, o)
  BY DEF Tree, Keyed
<1>2. /\ n \in Nat /\ H \in Nat /\ head \in 1 .. n /\ V \in [1 .. n -> Ents]
      /\ lev \in [1 .. n -> 0 .. H] /\ \A p \in 1 .. n : lev[p] > 0 => V[p] # <<>>
  BY <1>1 DEF TreeTypes
<1>3. \A p \in 1 .. n : lev[p] \in Nat /\ V[p] \in Ents
  BY <1>2
<1>4. DOMAIN V = 1 .. n
  BY <1>2
<1> QED
  BY <1>1, <1>2, <1>3, <1>4 DEF Ordered, Ways, Known

LEMMA KeysIn ==
    ASSUME NEW e \in Ents
    PROVE  \A i \in 1 .. Len(e) : e[i].key \in Key /\ e[i].key \in Nat /\ e[i].key \in Int
BY EntKeys

LEMMA DictPut ==
    ASSUME NEW C \in Dicts, NEW k \in Key, NEW v \in Val
    PROVE  LET c == [C EXCEPT ![k] = v]
           IN  /\ c \in Dicts /\ c[k] = v /\ v # Nil /\ (\A l \in Key : l # k => c[l] = C[l])
               /\ \A l \in Key : C[l] # Nil => c[l] # Nil
<1>1. v # Nil
  BY KeyIsNat
<1> QED
  BY <1>1 DEF Dicts

LEMMA LeafPut ==
    ASSUME NEW V, NEW n, NEW head, NEW H, NEW lev, Tree(V, n, head, H, lev, {}),
           NEW K, NEW C \in Dicts, Keyed(V, n, head, lev, K, C, 0, 0),
           NEW p \in 1 .. n, lev[p] = 0, NEW k \in Key, k \in K[p], NEW v \in Val
    PROVE  LET e == Added(V[p], k, Entry(k, v), TRUE)
               c == [C EXCEPT ![k] = v]
           IN  c \in Dicts /\ e \in Ents /\ Keyed([V EXCEPT ![p] = e], n, head, lev, K, c, 0, 0)
<1> DEFINE e == Added(V[p], k, Entry(k, v), TRUE)
           c == [C EXCEPT ![k] = v]
           W == [V EXCEPT ![p] = e]
<1>1. /\ n \in Nat /\ head \in 1 .. n /\ V \in [1 .. n -> Ents] /\ DOMAIN V = 1 .. n
      /\ (\A q \in 1 .. n : lev[q] \in Nat /\ V[q] \in Ents)
      /\ K \in [1 .. n -> SUBSET Int] /\ (\A q \in 1 .. n : K[q] # {} /\ Convex(K[q]))
      /\ (\A q, r \in 1 .. n : q # r /\ lev[q] = lev[r] => K[q] \cap K[r] = {})
      /\ (\A q \in 1 .. n : lev[q] = 0 => LeafIs(V[q], K[q], C) /\ (n > 1 => V[q] # <<>>))
      /\ (\A q \in 1 .. n : lev[q] > 0 => InnerIs(V[q], K[q], C))
      /\ (\A l \in Key : C[l] # Nil => InLeaf(V, n, lev, l))
      /\ Seen(K, 0, 0, head) = Int
      /\ \A q, i, id : Link(V, lev, q, i, id) => Slot(V[q], K[q], i) = Seen(K, 0, 0, id)
  <2>1. Known(V, n, head, lev, K, C, 0, 0)
    BY KeyedFacts
  <2> QED
    BY <2>1 DEF Known
<1>2. /\ c \in Dicts /\ c[k] = v /\ v # Nil /\ (\A l \in Key : l # k => c[l] = C[l])
      /\ \A l \in Key : C[l] # Nil => c[l] # Nil
  BY DictPut
<1>3. /\ e \in Ents /\ Sorted(e, 1)
      /\ (\E i \in 1 .. Len(e) : e[i].key = k)
      /\ (\A i \in 1 .. Len(e) : \/ e[i].key = k /\ e[i].val = v
                                 \/ e[i].key # k /\ \E m \in 1 .. Len(V[p]) : V[p][m] = e[i])
      /\ \A m \in 1 .. Len(V[p]) : \E i \in 1 .. Len(e) : e[i].key = V[p][m].key
  <2> DEFINE ents == V[p]
  <2>1. ents \in Ents /\ Sorted(ents, 1)
    BY <1>1 DEF LeafIs
  <2> HIDE DEF ents
  <2>2. LeafWith(ents, k, v, Added(ents, k, Entry(k, v), TRUE))
    BY <2>1, AddedToLeaf
  <2> QED
    BY <2>2 DEF ents, LeafWith
<1>4. DOMAIN W = 1 .. n /\ W[p] = e /\ \A q \in 1 .. n : q # p => W[q] = V[q]
  BY <1>1
<1> HIDE DEF e, c, W
<1>5. LeafIs(e, K[p], c)
  <2> SUFFICES ASSUME NEW i \in 1 .. Len(e)
               PROVE  e[i].key \in K[p] /\ e[i].val \in Val /\ c[e[i].key] = e[i].val
    BY <1>3 DEF LeafIs
  <2>1. CASE e[i].key = k /\ e[i].val = v
    BY <1>2, <2>1
  <2>2. CASE e[i].key # k /\ \E m \in 1 .. Len(V[p]) : V[p][m] = e[i]
    <3>1. PICK m \in 1 .. Len(V[p]) : V[p][m] = e[i]
      BY <2>2
    <3>2. V[p][m].key \in K[p] /\ V[p][m].val \in Val /\ C[V[p][m].key] = V[p][m].val
      BY <1>1 DEF LeafIs
    <3>3. e[i].key \in Key
      BY <1>3, KeysIn
    <3> QED
      BY <1>2, <2>2, <3>1, <3>2, <3>3
  <2> QED
    BY <1>3, <2>1, <2>2
<1>6. e # <<>>
  <2>1. Len(<<>>) = 0
    OBVIOUS
  <2>2. Len(e) # 0
    BY <1>3
  <2> QED
    BY <2>1, <2>2
<1>7. ASSUME NEW q \in 1 .. n, lev[q] = 0
      PROVE  LeafIs(W[q], K[q], c) /\ (n > 1 => W[q] # <<>>)
  <2>1. CASE q = p
    BY <1>4, <1>5, <1>6, <2>1
  <2>2. CASE q # p
    <3>1. LeafIs(V[q], K[q], C) /\ (n > 1 => V[q] # <<>>) /\ K[q] \cap K[p] = {} /\ W[q] = V[q]
          /\ V[q] \in Ents
      BY <1>1, <1>4, <1>7, <2>2
    <3>2. \A i \in 1 .. Len(V[q]) : V[q][i].key \in Key /\ V[q][i].key # k
      BY <3>1, KeysIn DEF LeafIs
    <3>3. LeafIs(V[q], K[q], c)
      BY <1>2, <3>1, <3>2 DEF LeafIs
    <3> QED
      BY <3>1, <3>3
  <2> QED
    BY <2>1, <2>2
<1>8. ASSUME NEW q \in 1 .. n, lev[q] > 0
      PROVE  InnerIs(W[q], K[q], c)
  <2>1. W[q] = V[q] /\ InnerIs(V[q], K[q], C) /\ V[q] \in Ents
    BY <1>1, <1>4, <1>8
  <2>2. \A i \in 1 .. Len(V[q]) : V[q][i].key \in Key
    BY <2>1, KeysIn
  <2> QED
    BY <1>2, <2>1, <2>2 DEF InnerIs
<1>9. ASSUME NEW l \in Key, c[l] # Nil PROVE InLeaf(W, n, lev, l)
  <2>1. CASE l = k
    BY <1>3, <1>4, <2>1 DEF InLeaf
  <2>2. CASE l # k
    <3>1. InLeaf(V, n, lev, l)
      BY <1>1, <1>2, <1>9, <2>2
    <3>2. PICK q \in 1 .. n : lev[q] = 0 /\ \E i \in 1 .. Len(V[q]) : V[q][i].key = l
      BY <3>1 DEF InLeaf
    <3>3. \E i \in 1 .. Len(W[q]) : W[q][i].key = l
      <4>1. CASE q = p
        BY <1>3, <1>4, <3>2, <4>1
      <4>2. CASE q # p
        BY <1>4, <3>2, <4>2
      <4> QED
        BY <4>1, <4>2
    <3> QED
      BY <3>2, <3>3 DEF InLeaf
  <2> QED
    BY <2>1, <2>2
<1>10. Ordered(W, n, lev, K, c)
  BY <1>1, <1>7, <1>8, <1>9 DEF Ordered
<1>11. Ways(W, head, lev, K, 0, 0)
  <2>1. ASSUME NEW q, NEW i, NEW id, Link(W, lev, q, i, id) PROVE Slot(W[q], K[q], i) = Seen(K, 0, 0, id)
    <3>1. q \in 1 .. n /\ q # p
      BY <1>4, <2>1 DEF Link
    <3>2. W[q] = V[q] /\ Link(V, lev, q, i, id)
      BY <1>1, <1>4, <2>1, <3>1 DEF Link
    <3> QED
      BY <1>1, <3>2
  <2> QED
    BY <1>1, <2>1 DEF Ways
<1> QED
  BY <1>2, <1>3, <1>10, <1>11 DEF Keyed, W, e, c

\* A link put behind slot j, where y and the key of the link lead.
LinkWith(ents, j, x, e) ==
    /\ e \in Ents /\ Len(e) = Len(ents) + 1 /\ Sorted(e, 2) /\ e[j + 1] = x
    /\ \A i \in 1 .. j : e[i] = ents[i]
    /\ \A i \in j + 2 .. Len(ents) + 1 : e[i] = ents[i - 1] /\ i - 1 \in j + 1 .. Len(ents)
    /\ \A k \in Int : LET m == SearchSlot(ents, k)
                      IN  /\ m < j => SearchSlot(e, k) = m
                          /\ m = j /\ k < x.key => SearchSlot(e, k) = j
                          /\ m = j /\ ~(k < x.key) => SearchSlot(e, k) = j + 1
                          /\ m > j => SearchSlot(e, k) = m + 1

LEMMA LinkInserted ==
    ASSUME NEW ents \in Ents, ents # <<>>, Sorted(ents, 2), NEW j \in 1 .. Len(ents), NEW x \in Item,
           SearchSlot(ents, x.key) = j, NEW y \in Int, y < x.key, SearchSlot(ents, y) = j
    PROVE  LinkWith(ents, j, x, InsertAt(ents, j + 1, x))
<1> DEFINE e == InsertAt(ents, j + 1, x)
           L == Len(ents)
           u == x.key
<1>1. /\ L \in Nat /\ u \in Int /\ \A i \in 1 .. L : ents[i] \in Item /\ ents[i].key \in Int
  BY EntsFacts, EntKeys, KeyIsNat
<1>2. e \in Ents /\ Len(e) = L + 1
      /\ \A i \in 1 .. L + 1 : e[i] = IF i < j + 1 THEN ents[i] ELSE IF i = j + 1 THEN x ELSE ents[i - 1]
  <2>1. ents \in Seq(Item) /\ j + 1 \in 1 .. Len(ents) + 1
    BY <1>1 DEF Ents
  <2>2. e \in Seq(Item) /\ Len(e) = L + 1
        /\ \A i \in 1 .. L + 1 : e[i] = IF i < j + 1 THEN ents[i] ELSE IF i = j + 1 THEN x ELSE ents[i - 1]
    BY <2>1, InsertAtFacts, SMTT(60)
  <2> QED
    BY <2>2 DEF Ents
<1>3. (\A i \in 2 .. j : ents[i].key <= y) /\ \A i \in j + 1 .. L : y < ents[i].key
  BY SlotIs
<1>4. \A i \in j + 1 .. L : u < ents[i].key
  BY <1>1, SlotIs
<1> HIDE DEF e, L, u
<1>5. /\ e[j + 1] = x /\ (\A i \in 1 .. j : e[i] = ents[i] /\ i \in 1 .. L)
      /\ \A i \in j + 2 .. L + 1 : e[i] = ents[i - 1] /\ i - 1 \in j + 1 .. L /\ i - 1 \in 1 .. L
  BY <1>1, <1>2 DEF L
<1>6. \A i \in 2 .. j : ents[i].key < u /\ ents[i].key \in Int
  <2> SUFFICES ASSUME NEW i \in 2 .. j PROVE ents[i].key < u /\ ents[i].key \in Int
    OBVIOUS
  <2>1. i \in 1 .. L /\ ents[i].key <= y
    BY <1>1, <1>3 DEF L
  <2>2. ents[i].key \in Int
    BY <1>1, <2>1
  <2> QED
    BY <1>1, <2>1, <2>2 DEF u
<1>7. Sorted(e, 2)
  <2> SUFFICES ASSUME NEW i \in 2 .. L + 1, NEW m \in 2 .. L + 1, i < m PROVE e[i].key < e[m].key
    BY <1>2 DEF Sorted
  <2>1. CASE m <= j
    <3>1. e[i] = ents[i] /\ e[m] = ents[m] /\ i \in 2 .. L /\ m \in 2 .. L
      BY <1>1, <1>5, <2>1 DEF L
    <3> QED
      BY <3>1 DEF Sorted, L
  <2>2. CASE m = j + 1
    <3>1. i \in 2 .. j /\ i \in 1 .. j
      BY <1>1, <2>2 DEF L
    <3> QED
      BY <1>5, <1>6, <2>2, <3>1 DEF u
  <2>3. CASE m > j + 1
    <3>1. m \in j + 2 .. L + 1
      BY <1>1, <2>3 DEF L
    <3>2. e[m] = ents[m - 1] /\ m - 1 \in j + 1 .. L /\ u < ents[m - 1].key /\ ents[m - 1].key \in Int
      BY <1>1, <1>4, <1>5, <3>1
    <3>3. CASE i <= j
      <4>1. i \in 2 .. j /\ i \in 1 .. j
        BY <1>1, <3>3 DEF L
      <4>2. e[i] = ents[i] /\ ents[i].key < u /\ ents[i].key \in Int
        BY <1>5, <1>6, <4>1
      <4> QED
        BY <1>1, <3>2, <4>2, SMTT(60)
    <3>4. CASE i = j + 1
      BY <1>5, <3>2, <3>4 DEF u
    <3>5. CASE i > j + 1
      <4>1. i \in j + 2 .. L + 1
        BY <1>1, <3>5 DEF L
      <4>2. e[i] = ents[i - 1] /\ i - 1 \in 2 .. L /\ m - 1 \in 2 .. L /\ i - 1 < m - 1
        BY <1>1, <1>5, <3>2, <4>1 DEF L
      <4> QED
        BY <3>2, <4>2 DEF Sorted, L
    <3> QED
      BY <1>1, <3>3, <3>4, <3>5 DEF L
  <2> QED
    BY <1>1, <2>1, <2>2, <2>3 DEF L
<1>8. e # <<>>
  <2>1. Len(<<>>) = 0
    OBVIOUS
  <2> QED
    BY <1>1, <1>2, <2>1
<1>9. ASSUME NEW k \in Int, NEW m \in 1 .. L + 1, m = 1 \/ e[m].key <= k,
             m = L + 1 \/ k < e[m + 1].key
      PROVE  SearchSlot(e, k) = m
  BY <1>2, <1>7, <1>8, <1>9, SlotUnique
<1>10. ASSUME NEW k \in Int, NEW m, m = SearchSlot(ents, k)
       PROVE  /\ m < j => SearchSlot(e, k) = m
              /\ m = j /\ k < u => SearchSlot(e, k) = j
              /\ m = j /\ ~(k < u) => SearchSlot(e, k) = j + 1
              /\ m > j => SearchSlot(e, k) = m + 1
  <2>1. /\ m \in 1 .. L /\ (\A i \in 2 .. m : ents[i].key <= k)
        /\ \A i \in m + 1 .. L : k < ents[i].key
    BY <1>10, SlotIs DEF L
  <2>a. j \in 1 .. L
    BY DEF L
  <2>b. (m = 1 \/ ents[m].key <= k) /\ (m = L \/ k < ents[m + 1].key)
    <3>1. m = 1 \/ m \in 2 .. m
      BY <1>1, <2>1
    <3>2. m = L \/ m + 1 \in m + 1 .. L
      BY <1>1, <2>1
    <3> QED
      BY <2>1, <3>1, <3>2
  <2>2. CASE m < j
    <3>1. m \in 1 .. L + 1 /\ e[m] = ents[m] /\ e[m + 1] = ents[m + 1] /\ m # L
      BY <1>1, <1>5, <2>1, <2>2, <2>a
    <3>2. m = 1 \/ e[m].key <= k
      BY <2>b, <3>1
    <3>3. m = L + 1 \/ k < e[m + 1].key
      BY <2>b, <3>1
    <3>4. SearchSlot(e, k) = m
      BY <1>9, <3>1, <3>2, <3>3
    <3> QED
      BY <2>1, <2>2, <2>a, <3>4
  <2>3. CASE m = j /\ k < u
    <3>1. m \in 1 .. L + 1 /\ e[m] = ents[m] /\ e[m + 1] = x
      BY <1>1, <1>5, <2>1, <2>3, <2>a
    <3>2. m = 1 \/ e[m].key <= k
      BY <2>b, <3>1
    <3>3. m = L + 1 \/ k < e[m + 1].key
      BY <2>3, <3>1 DEF u
    <3>4. SearchSlot(e, k) = m
      BY <1>9, <3>1, <3>2, <3>3
    <3> QED
      BY <2>1, <2>3, <2>a, <3>4
  <2>4. CASE m = j /\ ~(k < u)
    <3>1. j + 1 \in 1 .. L + 1 /\ e[j + 1] = x
      BY <1>1, <1>5, <2>a
    <3>2. j + 1 = 1 \/ e[j + 1].key <= k
      BY <1>1, <2>4, <3>1 DEF u
    <3>3. j + 1 = L + 1 \/ k < e[(j + 1) + 1].key
      <4>1. CASE j # L
        <5>1. (j + 1) + 1 \in j + 2 .. L + 1 /\ ((j + 1) + 1) - 1 = m + 1
          BY <1>1, <2>4, <2>a, <4>1
        <5>2. e[(j + 1) + 1] = ents[m + 1]
          BY <1>5, <5>1
        <5> QED
          BY <2>4, <2>b, <4>1, <5>2
      <4> QED
        BY <4>1
    <3>4. SearchSlot(e, k) = j + 1
      BY <1>9, <3>1, <3>2, <3>3
    <3> QED
      BY <2>1, <2>4, <2>a, <3>4
  <2>5. CASE m > j
    <3>1. m + 1 \in 1 .. L + 1 /\ m + 1 \in j + 2 .. L + 1 /\ (m + 1) - 1 = m /\ m # 1
      BY <1>1, <2>1, <2>5, <2>a
    <3>a. e[m + 1] = ents[m]
      BY <1>5, <3>1
    <3>2. m + 1 = 1 \/ e[m + 1].key <= k
      BY <2>b, <3>1, <3>a
    <3>3. m + 1 = L + 1 \/ k < e[(m + 1) + 1].key
      <4>1. CASE m # L
        <5>1. (m + 1) + 1 \in j + 2 .. L + 1 /\ ((m + 1) + 1) - 1 = m + 1
          BY <1>1, <2>1, <2>5, <2>a, <4>1
        <5>2. e[(m + 1) + 1] = ents[m + 1]
          BY <1>5, <5>1
        <5> QED
          BY <2>b, <4>1, <5>2
      <4> QED
        BY <4>1
    <3>4. SearchSlot(e, k) = m + 1
      BY <1>9, <3>1, <3>2, <3>3
    <3> QED
      BY <2>1, <2>5, <2>a, <3>4
  <2> QED
    BY <2>2, <2>3, <2>4, <2>5
<1>11. \A i \in j + 2 .. L + 1 : e[i] = ents[i - 1] /\ i - 1 \in j + 1 .. L
  BY <1>5
<1> QED
  BY <1>2, <1>5, <1>7, <1>10, <1>11 DEF LinkWith, e, L, u

\* Block o was split off s at x, and is as high.
SplitOff(n, lev, K, C, s, o, x) ==
    /\ s \in 1 .. n /\ o \in 1 .. n /\ s # o /\ lev[o] = lev[s]
    /\ Parted(K, s, o, x) /\ C[x] # Nil

LEMMA LinkPut ==
    ASSUME NEW V, NEW n, NEW head, NEW H, NEW lev, NEW o, Tree(V, n, head, H, lev, {o}),
           NEW K, NEW C \in Dicts, NEW s, Keyed(V, n, head, lev, K, C, s, o),
           NEW x \in Item, x.val = o, SplitOff(n, lev, K, C, s, o, x.key),
           NEW p \in 1 .. n, lev[p] > 0, lev[s] = lev[p] - 1,
           NEW k \in Key, k \in K[p], k \in K[s] \cup K[o],
           \A i \in 2 .. Len(V[p]) : V[p][i].key # k
    PROVE  LET e == Added(V[p], k, x, FALSE)
           IN  e \in Ents /\ Keyed([V EXCEPT ![p] = e], n, head, lev, K, C, 0, 0)
<1> DEFINE ents == V[p]
           e == Added(ents, k, x, FALSE)
           W == [V EXCEPT ![p] = e]
           j == SearchSlot(ents, k)
           L == Len(ents)
<1>1. /\ n \in Nat /\ head \in 1 .. n /\ V \in [1 .. n -> Ents] /\ DOMAIN V = 1 .. n
      /\ (\A q \in 1 .. n : lev[q] \in Nat /\ V[q] \in Ents)
      /\ (\A q \in 1 .. n : lev[q] > 0 => V[q] # <<>>)
      /\ K \in [1 .. n -> SUBSET Int] /\ (\A q \in 1 .. n : K[q] # {} /\ Convex(K[q]))
      /\ (\A q, r \in 1 .. n : q # r /\ lev[q] = lev[r] => K[q] \cap K[r] = {})
      /\ (\A q \in 1 .. n : lev[q] = 0 => LeafIs(V[q], K[q], C) /\ (n > 1 => V[q] # <<>>))
      /\ (\A q \in 1 .. n : lev[q] > 0 => InnerIs(V[q], K[q], C))
      /\ (\A l \in Key : C[l] # Nil => InLeaf(V, n, lev, l))
      /\ Seen(K, s, o, head) = Int
      /\ \A q, i, id : Link(V, lev, q, i, id) => Slot(V[q], K[q], i) = Seen(K, s, o, id)
  <2>1. Known(V, n, head, lev, K, C, s, o)
    BY KeyedFacts
  <2> QED
    BY <2>1 DEF Known
<1>2. /\ s \in 1 .. n /\ o \in 1 .. n /\ s # o /\ lev[o] = lev[s] /\ x.key \in K[o]
      /\ (\A l \in K[s] : l < x.key) /\ (\A l \in K[o] : x.key <= l) /\ C[x.key] # Nil
  BY DEF SplitOff, Parted
<1>3. /\ \A q, i, id : Link(V, lev, q, i, id) => id \in 1 .. n /\ id # o /\ id # head /\ lev[id] = lev[q] - 1
      /\ \A id, q, r, i, m : Link(V, lev, q, i, id) /\ Link(V, lev, r, m, id) => q = r /\ i = m
  <2>1. Linked(V, n, head, lev, {o})
    BY DEF Tree
  <2> QED
    BY <2>1 DEF Linked
<1>4. ents \in Ents /\ ents # <<>> /\ InnerIs(ents, K[p], C) /\ Sorted(ents, 2) /\ L \in Nat
      /\ DOMAIN ents = 1 .. L
  <2>1. ents \in Ents /\ ents # <<>> /\ InnerIs(ents, K[p], C)
    BY <1>1
  <2> QED
    BY <2>1, EntsFacts DEF InnerIs
<1>5. k \in Int /\ x.key \in Int /\ x.key \in Key
  BY KeyIsNat
<1> HIDE DEF ents, W
<1>6. j \in 1 .. L
  BY <1>4, <1>5, SlotIs
<1>7. InsertSlot(ents, k) = j
  <2>1. k \in Nat /\ \A i \in 2 .. Len(ents) : ents[i].key # k
    BY KeyIsNat DEF ents
  <2> QED
    BY <1>4, <2>1, SameSlot
<1> HIDE DEF j, L
<1>8. Link(V, lev, p, j, s)
  <2> DEFINE id == ents[j].val
  <2>1. Link(V, lev, p, j, id)
    BY <1>1, <1>4, <1>6 DEF Link, ents
  <2> HIDE DEF id
  <2>2. k \in Slot(ents, K[p], j)
    BY DEF Slot, j
  <2>3. k \in Seen(K, s, o, id) /\ id \in 1 .. n /\ id # o /\ lev[id] = lev[s]
    BY <1>1, <1>3, <2>1, <2>2 DEF ents
  <2>4. ASSUME id # s PROVE FALSE
    <3>1. k \in K[id]
      BY <2>3, <2>4 DEF Seen
    <3>2. K[id] \cap K[s] = {} /\ K[id] \cap K[o] = {}
      BY <1>1, <1>2, <2>3, <2>4
    <3> QED
      BY <3>1, <3>2
  <2> QED
    BY <2>1, <2>4
<1>9. Slot(ents, K[p], j) = K[s] \cup K[o]
  BY <1>1, <1>8 DEF Seen, ents
<1>10. \A l \in K[s] \cup K[o] : l \in Int /\ l \in K[p] /\ SearchSlot(ents, l) = j
  BY <1>1, <1>2, <1>9 DEF Slot
<1>11. PICK y \in K[s] : TRUE
  BY <1>1, <1>2
<1>12. y \in Int /\ y < x.key /\ SearchSlot(ents, y) = j /\ SearchSlot(ents, x.key) = j
       /\ x.key \in K[p]
  BY <1>2, <1>10, <1>11
<1>13. e = InsertAt(ents, j + 1, x)
  BY <1>7 DEF Added
<1>14. LinkWith(ents, j, x, e)
  BY <1>4, <1>6, <1>12, <1>13, LinkInserted DEF L
<1> HIDE DEF e
<1>15. /\ e \in Ents /\ Len(e) = L + 1 /\ Sorted(e, 2) /\ e[j + 1] = x
       /\ (\A i \in 1 .. j : e[i] = ents[i])
       /\ \A i \in j + 2 .. L + 1 : e[i] = ents[i - 1] /\ i - 1 \in j + 1 .. L
  BY <1>14 DEF LinkWith, L
<1>16. ASSUME NEW l \in Int, NEW m, m = SearchSlot(ents, l)
       PROVE  /\ m < j => SearchSlot(e, l) = m
              /\ m = j /\ l < x.key => SearchSlot(e, l) = j
              /\ m = j /\ ~(l < x.key) => SearchSlot(e, l) = j + 1
              /\ m > j => SearchSlot(e, l) = m + 1
              /\ m \in 1 .. L
  <2>1. m \in 1 .. L
    BY <1>4, <1>16, SlotIs DEF L
  <2> QED
    BY <1>14, <1>16, <2>1 DEF LinkWith
<1>a. ASSUME NEW l \in K[p], NEW m, m = SearchSlot(ents, l), NEW t, t = SearchSlot(e, l)
      PROVE  /\ m \in 1 .. L /\ l \in Int
             /\ \/ m < j /\ t = m
                \/ m = j /\ l < x.key /\ t = j
                \/ m = j /\ ~(l < x.key) /\ t = j + 1
                \/ m > j /\ t = m + 1
  <2>1. l \in Int
    BY <1>1
  <2>2. /\ m < j => t = m
        /\ m = j /\ l < x.key => t = j
        /\ m = j /\ ~(l < x.key) => t = j + 1
        /\ m > j => t = m + 1
        /\ m \in 1 .. L
    BY <1>16, <1>a, <2>1
  <2>3. m < j \/ m = j \/ m > j
    BY <1>4, <1>6, <2>2
  <2> QED
    BY <2>1, <2>2, <2>3
<1>17. DOMAIN W = 1 .. n /\ W[p] = e /\ \A q \in 1 .. n : q # p => W[q] = V[q]
  BY <1>1 DEF W
<1>18. InnerIs(e, K[p], C)
  <2>1. ASSUME NEW i \in 1 .. L + 1 PROVE C[e[i].key] # Nil /\ (i \in 2 .. L + 1 => e[i].key \in K[p])
    <3>1. CASE i <= j
      <4>1. e[i] = ents[i] /\ i \in 1 .. L
        BY <1>4, <1>6, <1>15, <3>1
      <4> QED
        BY <1>4, <4>1 DEF InnerIs, L
    <3>2. CASE i = j + 1
      BY <1>2, <1>12, <1>15, <3>2
    <3>3. CASE i > j + 1
      <4>1. i \in j + 2 .. L + 1
        BY <1>4, <1>6, <3>3
      <4>2. e[i] = ents[i - 1] /\ i - 1 \in 2 .. L /\ i - 1 \in 1 .. L
        BY <1>4, <1>6, <1>15, <4>1
      <4> QED
        BY <1>4, <4>2 DEF InnerIs, L
    <3> QED
      BY <1>4, <1>6, <3>1, <3>2, <3>3
  <2>2. \A i \in 2 .. L + 1 : i \in 1 .. L + 1
    BY <1>4
  <2> QED
    BY <1>15, <2>1, <2>2 DEF InnerIs
<1>19. Ordered(W, n, lev, K, C)
  <2>1. \A q \in 1 .. n : lev[q] = 0 => W[q] = V[q]
    BY <1>17
  <2>2. \A q \in 1 .. n : lev[q] = 0 => LeafIs(W[q], K[q], C) /\ (n > 1 => W[q] # <<>>)
    BY <1>1, <2>1
  <2>3. \A q \in 1 .. n : lev[q] > 0 => InnerIs(W[q], K[q], C)
    BY <1>1, <1>17, <1>18
  <2>4. ASSUME NEW l \in Key, C[l] # Nil PROVE InLeaf(W, n, lev, l)
    <3>1. InLeaf(V, n, lev, l)
      BY <1>1, <2>4
    <3>2. PICK q \in 1 .. n : lev[q] = 0 /\ \E i \in 1 .. Len(V[q]) : V[q][i].key = l
      BY <3>1 DEF InLeaf
    <3>3. W[q] = V[q]
      BY <2>1, <3>2
    <3> QED
      BY <3>2, <3>3 DEF InLeaf
  <2> QED
    BY <1>1, <2>2, <2>3, <2>4 DEF Ordered
<1>20. ASSUME NEW q, NEW i, NEW id, Link(V, lev, q, i, id), ~(q = p /\ i = j)
       PROVE  Slot(V[q], K[q], i) = Seen(K, 0, 0, id)
  <2>1. id # s /\ id \in 1 .. n /\ id # 0
    BY <1>1, <1>3, <1>8, <1>20
  <2> QED
    BY <1>1, <1>20, <2>1 DEF Seen
<1>21. s # 0 /\ o # 0 /\ head # 0
  BY <1>1, <1>2, SMTT(60)
<1>22. ASSUME NEW i \in 1 .. L + 1, NEW id, e[i].val = id
       PROVE  Slot(e, K[p], i) = Seen(K, 0, 0, id)
  <2>a. \A l \in K[p] : l \in Int
    BY <1>1
  <2>1. CASE i < j
    <3>1. e[i] = ents[i] /\ i \in 1 .. L
      BY <1>4, <1>6, <1>15, <2>1
    <3>2. Link(V, lev, p, i, id)
      BY <1>1, <1>4, <1>22, <3>1 DEF Link, ents
    <3>3. Slot(ents, K[p], i) = Seen(K, 0, 0, id)
      BY <1>20, <2>1, <3>2 DEF ents
    <3>4. ASSUME NEW l \in K[p] PROVE SearchSlot(e, l) = i <=> SearchSlot(ents, l) = i
      <4> DEFINE m == SearchSlot(ents, l)
                 t == SearchSlot(e, l)
      <4>1. /\ m \in 1 .. L /\ l \in Int
            /\ \/ m < j /\ t = m
               \/ m = j /\ l < x.key /\ t = j
               \/ m = j /\ ~(l < x.key) /\ t = j + 1
               \/ m > j /\ t = m + 1
        BY <1>a
      <4> HIDE DEF m, t
      <4>2. t = i <=> m = i
        BY <1>4, <1>6, <4>1, <2>1
      <4> QED
        BY <4>2 DEF m, t
    <3> QED
      BY <3>3, <3>4 DEF Slot
  <2>2. CASE i = j
    <3>1. id = s
      BY <1>8, <1>15, <1>22, <2>2 DEF Link, ents
    <3>2. ASSUME NEW l \in K[p] PROVE SearchSlot(e, l) = j <=> SearchSlot(ents, l) = j /\ l < x.key
      <4> DEFINE m == SearchSlot(ents, l)
                 t == SearchSlot(e, l)
      <4>1. /\ m \in 1 .. L /\ l \in Int
            /\ \/ m < j /\ t = m
               \/ m = j /\ l < x.key /\ t = j
               \/ m = j /\ ~(l < x.key) /\ t = j + 1
               \/ m > j /\ t = m + 1
        BY <1>a
      <4> HIDE DEF m, t
      <4>2. t = j <=> m = j /\ l < x.key
        BY <1>4, <1>6, <4>1
      <4> QED
        BY <4>2 DEF m, t
    <3>3. Slot(e, K[p], j) = {l \in Slot(ents, K[p], j) : l < x.key}
      BY <3>2 DEF Slot
    <3>4. \A l \in K[o] : ~(l < x.key)
      BY <1>2, <1>5, <1>10
    <3>5. Slot(e, K[p], j) = K[s]
      BY <1>2, <1>9, <3>3, <3>4
    <3> QED
      BY <1>21, <2>2, <3>1, <3>5 DEF Seen
  <2>3. CASE i = j + 1
    <3>1. id = o
      BY <1>15, <1>22, <2>3
    <3>2. ASSUME NEW l \in K[p] PROVE SearchSlot(e, l) = j + 1 <=> SearchSlot(ents, l) = j /\ ~(l < x.key)
      <4> DEFINE m == SearchSlot(ents, l)
                 t == SearchSlot(e, l)
      <4>1. /\ m \in 1 .. L /\ l \in Int
            /\ \/ m < j /\ t = m
               \/ m = j /\ l < x.key /\ t = j
               \/ m = j /\ ~(l < x.key) /\ t = j + 1
               \/ m > j /\ t = m + 1
        BY <1>a
      <4> HIDE DEF m, t
      <4>2. t = j + 1 <=> m = j /\ ~(l < x.key)
        BY <1>4, <1>6, <4>1
      <4> QED
        BY <4>2 DEF m, t
    <3>3. Slot(e, K[p], j + 1) = {l \in Slot(ents, K[p], j) : ~(l < x.key)}
      BY <3>2 DEF Slot
    <3>4. \A l \in K[o] : ~(l < x.key)
      BY <1>2, <1>5, <1>10
    <3>5. Slot(e, K[p], j + 1) = K[o]
      BY <1>2, <1>9, <3>3, <3>4
    <3> QED
      BY <1>21, <2>3, <3>1, <3>5 DEF Seen
  <2>4. CASE i > j + 1
    <3>1. i \in j + 2 .. L + 1
      BY <1>4, <1>6, <2>4
    <3>2. e[i] = ents[i - 1] /\ i - 1 \in 1 .. L /\ i - 1 # j /\ i - 1 > j
      BY <1>4, <1>6, <1>15, <3>1
    <3>3. Link(V, lev, p, i - 1, id)
      BY <1>1, <1>4, <1>22, <3>2 DEF Link, ents
    <3>4. Slot(ents, K[p], i - 1) = Seen(K, 0, 0, id)
      BY <1>20, <3>2, <3>3 DEF ents
    <3>5. ASSUME NEW l \in K[p] PROVE SearchSlot(e, l) = i <=> SearchSlot(ents, l) = i - 1
      <4> DEFINE m == SearchSlot(ents, l)
                 t == SearchSlot(e, l)
      <4>1. /\ m \in 1 .. L /\ l \in Int
            /\ \/ m < j /\ t = m
               \/ m = j /\ l < x.key /\ t = j
               \/ m = j /\ ~(l < x.key) /\ t = j + 1
               \/ m > j /\ t = m + 1
        BY <1>a
      <4> HIDE DEF m, t
      <4>2. t = i <=> m = i - 1
        BY <1>4, <1>6, <4>1, <2>4
      <4> QED
        BY <4>2 DEF m, t
    <3> QED
      BY <3>4, <3>5 DEF Slot
  <2> QED
    BY <1>4, <1>6, <2>1, <2>2, <2>3, <2>4
<1>23. Ways(W, head, lev, K, 0, 0)
  <2>1. ASSUME NEW q, NEW i, NEW id, Link(W, lev, q, i, id) PROVE Slot(W[q], K[q], i) = Seen(K, 0, 0, id)
    <3>1. q \in 1 .. n
      BY <1>17, <2>1 DEF Link
    <3>2. CASE q = p
      <4>1. i \in 1 .. L + 1 /\ e[i].val = id
        <5>1. DOMAIN e = 1 .. L + 1
          BY <1>15, EntsFacts
        <5> QED
          BY <1>17, <2>1, <3>2, <5>1 DEF Link
      <4> QED
        BY <1>17, <1>22, <3>2, <4>1
    <3>3. CASE q # p
      <4>1. Link(V, lev, q, i, id)
        BY <1>1, <1>17, <2>1, <3>1, <3>3 DEF Link
      <4> QED
        BY <1>17, <1>20, <3>1, <3>3, <4>1
    <3> QED
      BY <3>2, <3>3
  <2>2. Seen(K, 0, 0, head) = Int
    <3>1. head # s
      BY <1>3, <1>8
    <3> QED
      BY <1>1, <1>21, <3>1 DEF Seen
  <2> QED
    BY <2>1, <2>2 DEF Ways
<1> QED
  BY <1>15, <1>19, <1>23 DEF Keyed, W, e, ents

LEMMA HalvesSorted ==
    ASSUME NEW ents \in Ents, NEW m, NEW a, NEW e, Halves(ents, m, a, e), NEW f \in {1, 2}, Sorted(ents, f)
    PROVE  Sorted(a, f) /\ Sorted(e, f) /\ a # <<>> /\ e # <<>>
<1> DEFINE L == Len(ents)
<1>1. /\ L \in Nat /\ m \in 1 .. L - 1 /\ Len(a) = m /\ (\A i \in 1 .. m : a[i] = ents[i])
      /\ Len(e) = L - m /\ (\A i \in 1 .. L - m : e[i] = ents[i + m]) /\ f \in Nat /\ f >= 1
  BY EntsFacts DEF Halves
<1>2. \A i, q \in f .. L : i < q => ents[i].key < ents[q].key
  BY DEF Sorted
<1> HIDE DEF L
<1>3. Sorted(a, f)
  <2> SUFFICES ASSUME NEW i \in f .. m, NEW q \in f .. m, i < q PROVE a[i].key < a[q].key
    BY <1>1 DEF Sorted
  <2>1. i \in f .. L /\ q \in f .. L /\ i \in 1 .. m /\ q \in 1 .. m
    BY <1>1
  <2> QED
    BY <1>1, <1>2, <2>1
<1>4. Sorted(e, f)
  <2> SUFFICES ASSUME NEW i \in f .. L - m, NEW q \in f .. L - m, i < q PROVE e[i].key < e[q].key
    BY <1>1 DEF Sorted
  <2>1. i + m \in f .. L /\ q + m \in f .. L /\ i \in 1 .. L - m /\ q \in 1 .. L - m /\ i + m < q + m
    BY <1>1
  <2>2. e[i] = ents[i + m] /\ e[q] = ents[q + m]
    BY <1>1, <2>1
  <2> QED
    BY <1>2, <2>1, <2>2
<1>5. a # <<>> /\ e # <<>>
  <2>1. Len(<<>>) = 0
    OBVIOUS
  <2> QED
    BY <1>1, <2>1
<1> QED
  BY <1>3, <1>4, <1>5

LEMMA HalvesSlots ==
    ASSUME NEW ents \in Ents, NEW m, NEW a, NEW e, Halves(ents, m, a, e), Sorted(ents, 2),
           NEW y \in Int
    PROVE  /\ SearchSlot(ents, y) \in 1 .. Len(ents)
           /\ y < e[1].key => SearchSlot(a, y) = SearchSlot(ents, y) /\ SearchSlot(ents, y) <= m
           /\ ~(y < e[1].key) => SearchSlot(e, y) = SearchSlot(ents, y) - m /\ SearchSlot(ents, y) > m
<1> DEFINE L == Len(ents)
           s == SearchSlot(ents, y)
           x == e[1].key
<1>1. /\ L \in Nat /\ m \in 1 .. L - 1 /\ Len(a) = m /\ (\A i \in 1 .. m : a[i] = ents[i])
      /\ Len(e) = L - m /\ (\A i \in 1 .. L - m : e[i] = ents[i + m])
      /\ a \in Ents /\ e \in Ents
  BY EntsFacts DEF Halves
<1>2. 2 \in {1, 2} /\ Sorted(a, 2) /\ Sorted(e, 2) /\ a # <<>> /\ e # <<>>
  <2>1. 2 \in {1, 2}
    OBVIOUS
  <2> QED
    BY <2>1, HalvesSorted
<1>3. \A i \in 1 .. L : ents[i].key \in Int
  BY KeysIn
<1>4. ents # <<>>
  <2>1. Len(<<>>) = 0
    OBVIOUS
  <2> QED
    BY <1>1, <2>1
<1>5. /\ s \in 1 .. L /\ (\A i \in 2 .. s : ents[i].key <= y)
      /\ \A i \in s + 1 .. L : y < ents[i].key
  BY <1>4, SlotIs
<1> HIDE DEF L, s
<1>6. x = ents[m + 1].key /\ m + 1 \in 1 .. L /\ x \in Int
  <2>1. 1 \in 1 .. L - m /\ 1 + m = m + 1 /\ m + 1 \in 1 .. L
    BY <1>1
  <2>2. e[1] = ents[m + 1]
    BY <1>1, <2>1
  <2> QED
    BY <1>3, <2>1, <2>2
<1>7. (s = 1 \/ ents[s].key <= y) /\ (s = L \/ y < ents[s + 1].key)
  <2>1. s = 1 \/ s \in 2 .. s
    BY <1>1, <1>5
  <2>2. s = L \/ s + 1 \in s + 1 .. L
    BY <1>1, <1>5
  <2> QED
    BY <1>5, <2>1, <2>2
<1> HIDE DEF x
<1>8. ASSUME y < x PROVE SearchSlot(a, y) = s /\ s <= m
  <2>1. s <= m
    <3> SUFFICES ASSUME ~(s <= m) PROVE FALSE
      OBVIOUS
    <3>1. m + 1 \in 2 .. s
      BY <1>1, <1>5
    <3> QED
      BY <1>5, <1>6, <1>8, <3>1
  <2>2. s \in 1 .. Len(a) /\ a[s] = ents[s]
    BY <1>1, <1>5, <2>1
  <2>3. s = 1 \/ a[s].key <= y
    BY <1>7, <2>2
  <2>4. s = Len(a) \/ y < a[s + 1].key
    <3>1. CASE s # m
      <4>1. s + 1 \in 1 .. m /\ s # L
        BY <1>1, <1>5, <2>1, <3>1
      <4> QED
        BY <1>1, <1>7, <4>1
    <3> QED
      BY <1>1, <3>1
  <2>5. SearchSlot(a, y) = s
    BY <1>1, <1>2, <2>2, <2>3, <2>4, SlotUnique
  <2> QED
    BY <2>1, <2>5
<1>9. ASSUME ~(y < x) PROVE SearchSlot(e, y) = s - m /\ s > m
  <2>1. s > m
    <3> SUFFICES ASSUME ~(s > m) PROVE FALSE
      OBVIOUS
    <3>1. m + 1 \in s + 1 .. L
      BY <1>1, <1>5
    <3> QED
      BY <1>5, <1>6, <1>9, <3>1
  <2>2. s - m \in 1 .. Len(e) /\ (s - m) + m = s
    BY <1>1, <1>5, <2>1
  <2>a. e[s - m] = ents[s]
    BY <1>1, <2>2
  <2>3. s - m = 1 \/ e[s - m].key <= y
    <3>1. s # 1
      BY <1>1, <2>1
    <3> QED
      BY <1>7, <2>a, <3>1
  <2>4. s - m = Len(e) \/ y < e[(s - m) + 1].key
    <3>1. CASE s # L
      <4>1. (s - m) + 1 \in 1 .. L - m /\ ((s - m) + 1) + m = s + 1
        BY <1>1, <1>5, <2>1, <3>1
      <4>2. e[(s - m) + 1] = ents[s + 1]
        BY <1>1, <4>1
      <4> QED
        BY <1>7, <3>1, <4>2
    <3> QED
      BY <1>1, <3>1
  <2>5. SearchSlot(e, y) = s - m
    <3> DEFINE t == s - m
    <3>1. t \in 1 .. Len(e) /\ (t = 1 \/ e[t].key <= y) /\ (t = Len(e) \/ y < e[t + 1].key)
      BY <2>2, <2>3, <2>4
    <3> HIDE DEF t
    <3>2. SearchSlot(e, y) = t
      BY <1>1, <1>2, <3>1, SlotUnique
    <3> QED
      BY <3>2 DEF t
  <2> QED
    BY <2>1, <2>5
<1> QED
  BY <1>5, <1>8, <1>9 DEF L, s, x

LEMMA LongerFacts ==
    ASSUME NEW n \in Nat, NEW f, NEW x
    PROVE  /\ DOMAIN Longer(f, n, x) = 1 .. n + 1 /\ Longer(f, n, x)[n + 1] = x
           /\ \A q \in 1 .. n : Longer(f, n, x)[q] = f[q] /\ q # n + 1 /\ q \in 1 .. n + 1
           /\ \A q \in 1 .. n + 1 : q = n + 1 \/ q \in 1 .. n
BY DEF Longer

LEMMA Halved ==
    ASSUME NEW V, NEW n, NEW head, NEW H, NEW lev, Tree(V, n, head, H, lev, {}),
           NEW K, NEW C \in Dicts, Keyed(V, n, head, lev, K, C, 0, 0),
           NEW p \in 1 .. n, NEW m, NEW a, NEW e, Halves(V[p], m, a, e)
    PROVE  \E K2 : /\ Keyed(Longer([V EXCEPT ![p] = a], n, e), n + 1, head, Longer(lev, n, lev[p]), K2, C, p, n + 1)
                   /\ SplitOff(n + 1, Longer(lev, n, lev[p]), K2, C, p, n + 1, e[1].key)
                   /\ (\A q \in 1 .. n : q # p => K2[q] = K[q]) /\ K2[p] \cup K2[n + 1] = K[p]
<1> DEFINE ents == V[p]
           L == Len(ents)
           U == [V EXCEPT ![p] = a]
           W == Longer(U, n, e)
           lv == Longer(lev, n, lev[p])
           t == n + 1
           x == e[1].key
           A == {y \in K[p] : y < x}
           B == {y \in K[p] : ~(y < x)}
           K1 == [K EXCEPT ![p] = A]
           K2 == Longer(K1, n, B)
<1>1. /\ n \in Nat /\ head \in 1 .. n /\ V \in [1 .. n -> Ents] /\ DOMAIN V = 1 .. n
      /\ (\A q \in 1 .. n : lev[q] \in Nat /\ V[q] \in Ents)
      /\ (\A q \in 1 .. n : lev[q] > 0 => V[q] # <<>>)
      /\ K \in [1 .. n -> SUBSET Int] /\ (\A q \in 1 .. n : K[q] # {} /\ Convex(K[q]))
      /\ (\A q, r \in 1 .. n : q # r /\ lev[q] = lev[r] => K[q] \cap K[r] = {})
      /\ (\A q \in 1 .. n : lev[q] = 0 => LeafIs(V[q], K[q], C) /\ (n > 1 => V[q] # <<>>))
      /\ (\A q \in 1 .. n : lev[q] > 0 => InnerIs(V[q], K[q], C))
      /\ (\A l \in Key : C[l] # Nil => InLeaf(V, n, lev, l))
      /\ Seen(K, 0, 0, head) = Int
      /\ \A q, i, id : Link(V, lev, q, i, id) => Slot(V[q], K[q], i) = Seen(K, 0, 0, id)
  <2>1. Known(V, n, head, lev, K, C, 0, 0)
    BY KeyedFacts
  <2> QED
    BY <2>1 DEF Known
<1>2. \A q, i, id : Link(V, lev, q, i, id) => id \in 1 .. n /\ lev[id] = lev[q] - 1
  <2>1. Linked(V, n, head, lev, {})
    BY DEF Tree
  <2> QED
    BY <2>1 DEF Linked
<1>3. ents \in Ents /\ L \in Nat /\ DOMAIN ents = 1 .. L
      /\ (lev[p] = 0 => LeafIs(ents, K[p], C)) /\ (lev[p] > 0 => InnerIs(ents, K[p], C) /\ Sorted(ents, 2))
      /\ K[p] \in SUBSET Int /\ Convex(K[p]) /\ (lev[p] = 0 \/ lev[p] > 0)
  <2>1. ents \in Ents /\ K[p] \in SUBSET Int /\ Convex(K[p]) /\ (lev[p] = 0 \/ lev[p] > 0)
    BY <1>1
  <2> QED
    BY <1>1, <2>1, EntsFacts DEF InnerIs
<1>4. Halves(ents, m, a, e)
  OBVIOUS
<1> HIDE DEF ents, L
<1>5. /\ m \in 1 .. L - 1 /\ Len(a) = m /\ (\A i \in 1 .. m : a[i] = ents[i] /\ i \in 1 .. L)
      /\ Len(e) = L - m /\ (\A i \in 1 .. L - m : e[i] = ents[i + m] /\ i + m \in 2 .. L /\ i + m \in 1 .. L)
      /\ a \in Ents /\ e \in Ents /\ DOMAIN a = 1 .. m /\ DOMAIN e = 1 .. L - m
  <2>1. /\ m \in 1 .. L - 1 /\ Len(a) = m /\ (\A i \in 1 .. m : a[i] = ents[i])
        /\ Len(e) = L - m /\ (\A i \in 1 .. L - m : e[i] = ents[i + m])
        /\ a \in Ents /\ e \in Ents
    BY <1>4 DEF Halves, L
  <2> QED
    BY <1>3, <2>1, EntsFacts
<1>6. x = ents[m + 1].key /\ m + 1 \in 2 .. L /\ x \in Int /\ x \in Key
  <2>1. 1 \in 1 .. L - m /\ 1 + m = m + 1
    BY <1>3, <1>5
  <2>2. e[1] = ents[m + 1] /\ m + 1 \in 2 .. L /\ m + 1 \in 1 .. L
    BY <1>5, <2>1
  <2> QED
    BY <1>3, <2>2, KeysIn DEF L
<1> HIDE DEF x
<1>7. x \in K[p] /\ C[x] # Nil
  <2>1. CASE lev[p] = 0
    <3>1. ents[m + 1].key \in K[p] /\ ents[m + 1].val \in Val /\ C[ents[m + 1].key] = ents[m + 1].val
      BY <1>3, <1>6, <2>1 DEF LeafIs, L
    <3> QED
      BY <1>6, <3>1, KeyIsNat
  <2>2. CASE lev[p] > 0
    BY <1>3, <1>6, <2>2 DEF InnerIs, L
  <2> QED
    BY <1>3, <2>1, <2>2
<1>8. A # {}
  <2>1. CASE lev[p] = 0
    <3>1. ents[1].key \in K[p] /\ ents[1].key < ents[m + 1].key
      <4>1. 1 \in 1 .. L /\ m + 1 \in 1 .. L /\ 1 < m + 1
        BY <1>3, <1>5, <1>6
      <4> QED
        BY <1>3, <2>1, <4>1 DEF LeafIs, Sorted, L
    <3> QED
      BY <1>6, <3>1
  <2>2. CASE lev[p] > 0
    <3> DEFINE id == ents[1].val
    <3>1. Link(V, lev, p, 1, id)
      BY <1>1, <1>3, <1>5, <2>2 DEF Link, ents
    <3> HIDE DEF id
    <3>2. Slot(ents, K[p], 1) = K[id] /\ K[id] # {}
      <4>1. id \in 1 .. n /\ id # 0
        BY <1>2, <3>1
      <4> QED
        BY <1>1, <3>1, <4>1 DEF Seen, ents
    <3>3. PICK y \in K[p] : SearchSlot(ents, y) = 1
      BY <3>2 DEF Slot
    <3>4. y \in Int
      BY <1>3
    <3>5. ~(y < e[1].key) => SearchSlot(ents, y) > m
      BY <1>3, <1>4, <2>2, <3>4, HalvesSlots
    <3>6. y < x
      BY <1>3, <1>5, <3>3, <3>5 DEF x
    <3> QED
      BY <3>6
  <2> QED
    BY <1>3, <2>1, <2>2
<1>9. A \in SUBSET Int /\ B \in SUBSET Int /\ x \in B /\ A \cup B = K[p] /\ A \cap B = {}
      /\ A \subseteq K[p] /\ B \subseteq K[p]
  BY <1>3, <1>6, <1>7
<1>10. Convex(A) /\ Convex(B)
  BY <1>3, <1>6, SMTT(60) DEF Convex
<1>11. /\ DOMAIN W = 1 .. t /\ W[t] = e /\ W[p] = a /\ \A q \in 1 .. n : q # p => W[q] = V[q]
  <2>1. U[p] = a /\ \A q \in 1 .. n : q # p => U[q] = V[q]
    BY <1>1
  <2> HIDE DEF U
  <2>2. n \in Nat
    BY <1>1
  <2>3. DOMAIN W = 1 .. t /\ W[t] = e /\ \A q \in 1 .. n : W[q] = U[q]
    BY <2>2, LongerFacts
  <2> HIDE DEF W
  <2> QED
    BY <2>1, <2>3
<1>12. /\ K2[t] = B /\ K2[p] = A /\ (\A q \in 1 .. n : q # p => K2[q] = K[q])
       /\ K2 \in [1 .. t -> SUBSET Int]
  <2>1. K1[p] = A /\ (\A q \in 1 .. n : q # p => K1[q] = K[q]) /\ \A q \in 1 .. n : K1[q] \in SUBSET Int
    BY <1>1, <1>9
  <2> HIDE DEF K1, A, B
  <2>2. /\ K2[t] = B /\ K2[p] = A /\ (\A q \in 1 .. n : q # p => K2[q] = K[q])
    <3>1. n + 1 \in 1 .. n + 1 /\ \A q \in 1 .. n : q \in 1 .. n + 1 /\ q # n + 1
      BY <1>1
    <3>2. K2[t] = B /\ \A q \in 1 .. n : K2[q] = K1[q]
      BY <3>1 DEF Longer
    <3> HIDE DEF K2
    <3> QED
      BY <2>1, <3>2
  <2>3. K2 = [q \in 1 .. n + 1 |-> IF q = n + 1 THEN B ELSE K1[q]]
    BY DEF Longer
  <2>4. \A q \in 1 .. n + 1 : q = n + 1 \/ q \in 1 .. n
    BY <1>1
  <2> QED
    BY <1>9, <2>1, <2>2, <2>3, <2>4
<1>13. /\ lv[t] = lev[p] /\ (\A q \in 1 .. n : lv[q] = lev[q] /\ q # t /\ q \in 1 .. t)
       /\ t \in 1 .. t /\ (\A q \in 1 .. t : q = t \/ q \in 1 .. n) /\ t \in Nat
  BY <1>1, LongerFacts
<1> HIDE DEF W, K2, lv, t, U, K1
<1>14. ASSUME NEW q \in 1 .. t
       PROVE  /\ q = t \/ q \in 1 .. n
              /\ K2[q] # {} /\ Convex(K2[q])
  <2>1. CASE q = t
    BY <1>9, <1>10, <1>12, <2>1
  <2>2. CASE q = p
    BY <1>8, <1>10, <1>12, <2>2
  <2>3. CASE q \in 1 .. n /\ q # p
    BY <1>1, <1>12, <2>3
  <2> QED
    BY <1>13, <2>1, <2>2, <2>3
<1>15. ASSUME NEW q \in 1 .. t, NEW r \in 1 .. t, q # r, lv[q] = lv[r] PROVE K2[q] \cap K2[r] = {}
  <2>1. ASSUME NEW u \in 1 .. t PROVE
          LET z == IF u = t THEN p ELSE u
          IN  /\ z \in 1 .. n /\ lv[u] = lev[z] /\ K2[u] \subseteq K[z]
              /\ (z = p => ((u = t /\ K2[u] = B) \/ (u = p /\ K2[u] = A)))
    <3>1. CASE u = t
      <4> HIDE DEF A, B
      <4> QED
        BY <1>9, <1>12, <1>13, <3>1
    <3>2. CASE u # t
      <4>1. u \in 1 .. n /\ lv[u] = lev[u]
        BY <1>13, <3>2
      <4>2. u = p => K2[u] = A
        BY <1>12
      <4>3. u # p => K2[u] = K[u]
        BY <1>12, <4>1
      <4>4. K2[u] \subseteq K[u]
        BY <1>9, <4>2, <4>3
      <4> QED
        BY <3>2, <4>1, <4>2, <4>4
    <3> QED
      BY <3>1, <3>2
  <2> DEFINE z == IF q = t THEN p ELSE q
             w == IF r = t THEN p ELSE r
  <2>2. /\ z \in 1 .. n /\ lv[q] = lev[z] /\ K2[q] \subseteq K[z]
        /\ (z = p => ((q = t /\ K2[q] = B) \/ (q = p /\ K2[q] = A)))
    BY <2>1
  <2>3. /\ w \in 1 .. n /\ lv[r] = lev[w] /\ K2[r] \subseteq K[w]
        /\ (w = p => ((r = t /\ K2[r] = B) \/ (r = p /\ K2[r] = A)))
    BY <2>1
  <2>4. z = w => z = p
    BY <1>15
  <2> HIDE DEF z, w, A, B
  <2>5. CASE z # w
    <3>1. K[z] \cap K[w] = {}
      BY <1>1, <1>15, <2>2, <2>3, <2>5
    <3> QED
      BY <2>2, <2>3, <3>1
  <2>6. CASE z = w
    BY <1>9, <1>15, <2>2, <2>3, <2>4, <2>6
  <2> QED
    BY <2>5, <2>6
<1>16. a # <<>> /\ e # <<>>
  <2>1. Len(<<>>) = 0
    OBVIOUS
  <2> QED
    BY <1>3, <1>5, <2>1
<1>17. ASSUME lev[p] = 0 PROVE LeafIs(a, A, C) /\ LeafIs(e, B, C)
  <2>1. Sorted(ents, 1) /\ \A i \in 1 .. L : ents[i].key \in K[p] /\ ents[i].val \in Val /\ C[ents[i].key] = ents[i].val
    BY <1>3, <1>17 DEF LeafIs, L
  <2>2. Sorted(a, 1) /\ Sorted(e, 1)
    <3>1. 1 \in {1, 2}
      OBVIOUS
    <3> QED
      BY <1>3, <1>4, <2>1, <3>1, HalvesSorted
  <2>3. ASSUME NEW i \in 1 .. m PROVE a[i].key \in A /\ a[i].val \in Val /\ C[a[i].key] = a[i].val
    <3>1. a[i] = ents[i] /\ i \in 1 .. L /\ m + 1 \in 1 .. L /\ i < m + 1
      BY <1>3, <1>5, <1>6
    <3>2. ents[i].key < ents[m + 1].key
      BY <2>1, <3>1 DEF Sorted, L
    <3> QED
      BY <1>6, <2>1, <3>1, <3>2
  <2>4. ASSUME NEW i \in 1 .. L - m PROVE e[i].key \in B /\ e[i].val \in Val /\ C[e[i].key] = e[i].val
    <3>1. e[i] = ents[i + m] /\ i + m \in 1 .. L /\ m + 1 \in 1 .. L
      BY <1>3, <1>5, <1>6
    <3>2. ~(ents[i + m].key < ents[m + 1].key)
      <4>1. CASE i = 1
        <5>1. i + m = m + 1
          BY <1>5, <4>1
        <5>2. ents[i + m].key \in Int
          BY <1>6, <5>1
        <5> QED
          BY <5>1, <5>2
      <4>2. CASE i # 1
        <5>1. m + 1 < i + m
          BY <1>3, <1>5, <4>2
        <5>2. ents[m + 1].key < ents[i + m].key
          BY <2>1, <3>1, <5>1 DEF Sorted, L
        <5>3. ents[i + m].key \in Int /\ ents[m + 1].key \in Int
          BY <1>3, <2>1, <3>1
        <5> QED
          BY <5>2, <5>3
      <4> QED
        BY <4>1, <4>2
    <3> QED
      BY <1>6, <2>1, <3>1, <3>2
  <2> HIDE DEF A, B
  <2> QED
    BY <1>5, <2>2, <2>3, <2>4 DEF LeafIs
<1>18. ASSUME lev[p] > 0 PROVE InnerIs(a, A, C) /\ InnerIs(e, B, C)
  <2>1. /\ Sorted(ents, 2) /\ (\A i \in 2 .. L : ents[i].key \in K[p])
        /\ \A i \in 1 .. L : C[ents[i].key] # Nil
    BY <1>3, <1>18 DEF InnerIs, L
  <2>2. Sorted(a, 2) /\ Sorted(e, 2)
    <3>1. 2 \in {1, 2}
      OBVIOUS
    <3> QED
      BY <1>3, <1>4, <2>1, <3>1, HalvesSorted
  <2>3. ASSUME NEW i \in 2 .. m PROVE a[i].key \in A
    <3>1. a[i] = ents[i] /\ i \in 2 .. L /\ m + 1 \in 2 .. L /\ i < m + 1
      BY <1>3, <1>5, <1>6
    <3>2. ents[i].key < ents[m + 1].key
      BY <2>1, <3>1 DEF Sorted, L
    <3> QED
      BY <1>6, <2>1, <3>1, <3>2
  <2>4. ASSUME NEW i \in 2 .. L - m PROVE e[i].key \in B
    <3>1. e[i] = ents[i + m] /\ i + m \in 2 .. L /\ m + 1 \in 2 .. L /\ m + 1 < i + m
      BY <1>3, <1>5, <1>6
    <3>2. ents[m + 1].key < ents[i + m].key
      BY <2>1, <3>1 DEF Sorted, L
    <3>3. ents[i + m].key \in Int /\ ents[m + 1].key \in Int /\ ents[i + m].key \in K[p]
      BY <1>3, <2>1, <3>1
    <3> QED
      BY <1>6, <3>1, <3>2, <3>3
  <2>5. \A i \in 1 .. m : C[a[i].key] # Nil
    BY <1>5, <2>1
  <2>6. \A i \in 1 .. L - m : C[e[i].key] # Nil
    BY <1>5, <2>1
  <2> HIDE DEF A, B
  <2> QED
    BY <1>5, <2>2, <2>3, <2>4, <2>5, <2>6 DEF InnerIs
<1>19. ASSUME NEW q \in 1 .. t
       PROVE  /\ lv[q] = 0 => LeafIs(W[q], K2[q], C) /\ W[q] # <<>>
              /\ lv[q] > 0 => InnerIs(W[q], K2[q], C)
  <2> HIDE DEF A, B
  <2>1. CASE q = t
    BY <1>11, <1>12, <1>13, <1>16, <1>17, <1>18, <2>1
  <2>2. CASE q = p
    BY <1>11, <1>12, <1>13, <1>16, <1>17, <1>18, <2>2
  <2>3. CASE q \in 1 .. n /\ q # p
    <3>1. n > 1
      BY <1>1, <2>3
    <3>2. W[q] = V[q] /\ K2[q] = K[q] /\ lv[q] = lev[q]
      BY <1>11, <1>12, <1>13, <2>3
    <3> QED
      BY <1>1, <2>3, <3>1, <3>2
  <2> QED
    BY <1>13, <2>1, <2>2, <2>3
<1>20. ASSUME NEW l \in Key, C[l] # Nil PROVE InLeaf(W, t, lv, l)
  <2>1. InLeaf(V, n, lev, l)
    BY <1>1, <1>20
  <2>2. PICK q \in 1 .. n : lev[q] = 0 /\ \E i \in 1 .. Len(V[q]) : V[q][i].key = l
    BY <2>1 DEF InLeaf
  <2>3. CASE q # p
    <3>1. W[q] = V[q] /\ q \in 1 .. t /\ lv[q] = 0
      BY <1>11, <1>13, <2>2, <2>3
    <3> QED
      BY <2>2, <3>1 DEF InLeaf
  <2>4. CASE q = p
    <3>1. PICK i \in 1 .. L : ents[i].key = l
      BY <2>2, <2>4 DEF ents, L
    <3>2. CASE i <= m
      <4>1. i \in 1 .. Len(a) /\ a[i].key = l
        BY <1>3, <1>5, <3>1, <3>2
      <4>2. W[p] = a /\ p \in 1 .. t /\ lv[p] = 0
        BY <1>11, <1>13, <2>2, <2>4
      <4> QED
        BY <4>1, <4>2 DEF InLeaf
    <3>3. CASE ~(i <= m)
      <4>1. i - m \in 1 .. L - m /\ (i - m) + m = i
        BY <1>3, <1>5, <3>3
      <4>2. i - m \in 1 .. Len(e) /\ e[i - m].key = l
        BY <1>5, <3>1, <4>1
      <4>3. W[t] = e /\ t \in 1 .. t /\ lv[t] = 0
        BY <1>11, <1>13, <2>2, <2>4
      <4> QED
        BY <4>2, <4>3 DEF InLeaf
    <3> QED
      BY <3>2, <3>3
  <2> QED
    BY <2>3, <2>4
<1>21. Ordered(W, t, lv, K2, C)
  <2> HIDE DEF A, B
  <2> QED
    BY <1>12, <1>14, <1>15, <1>19, <1>20 DEF Ordered
<1>22. \A id \in 1 .. n : Seen(K2, p, t, id) = K[id] /\ Seen(K, 0, 0, id) = K[id]
  <2> SUFFICES ASSUME NEW id \in 1 .. n PROVE Seen(K2, p, t, id) = K[id] /\ Seen(K, 0, 0, id) = K[id]
    OBVIOUS
  <2>1. id # 0
    OBVIOUS
  <2> HIDE DEF A, B
  <2> QED
    BY <1>9, <1>12, <2>1 DEF Seen
<1>23. ASSUME lev[p] > 0, NEW y \in K[p]
       PROVE  /\ SearchSlot(ents, y) \in 1 .. L
              /\ y \in A => SearchSlot(a, y) = SearchSlot(ents, y) /\ SearchSlot(ents, y) <= m
              /\ y \in B => SearchSlot(e, y) = SearchSlot(ents, y) - m /\ SearchSlot(ents, y) > m
  <2>1. y \in Int /\ Sorted(ents, 2)
    BY <1>3, <1>23
  <2>2. /\ SearchSlot(ents, y) \in 1 .. Len(ents)
        /\ y < e[1].key => SearchSlot(a, y) = SearchSlot(ents, y) /\ SearchSlot(ents, y) <= m
        /\ ~(y < e[1].key) => SearchSlot(e, y) = SearchSlot(ents, y) - m /\ SearchSlot(ents, y) > m
    BY <1>3, <1>4, <2>1, HalvesSlots
  <2> QED
    BY <2>2 DEF x, L
<1>24. ASSUME NEW q, NEW i, NEW id, Link(W, lv, q, i, id)
       PROVE  Slot(W[q], K2[q], i) = Seen(K2, p, t, id)
  <2>1. q \in 1 .. t
    BY <1>11, <1>24 DEF Link
  <2>2. CASE q = t
    <3>1. i \in 1 .. L - m /\ e[i].val = id /\ lev[p] > 0
      BY <1>5, <1>11, <1>13, <1>24, <2>2 DEF Link
    <3>2. Link(V, lev, p, i + m, id)
      BY <1>1, <1>3, <1>5, <3>1 DEF Link, ents
    <3>3. Slot(ents, K[p], i + m) = K[id] /\ id \in 1 .. n
      BY <1>1, <1>2, <1>22, <3>2 DEF ents
    <3>4. ASSUME NEW y PROVE y \in Slot(e, B, i) <=> y \in Slot(ents, K[p], i + m)
      <4>1. CASE y \in B
        <5> DEFINE f == SearchSlot(ents, y)
        <5>1. y \in K[p] /\ f \in 1 .. L /\ SearchSlot(e, y) = f - m
          BY <1>9, <1>23, <3>1, <4>1
        <5> HIDE DEF f
        <5>2. f - m = i <=> f = i + m
          BY <1>3, <1>5, <3>1, <5>1
        <5> QED
          BY <4>1, <5>1, <5>2 DEF Slot, f
      <4>2. CASE y \in A
        <5> DEFINE f == SearchSlot(ents, y)
        <5>1. f \in 1 .. L /\ f <= m
          BY <1>9, <1>23, <3>1, <4>2
        <5> HIDE DEF f
        <5>2. f # i + m
          BY <1>3, <1>5, <3>1, <5>1
        <5> QED
          BY <1>9, <4>2, <5>2 DEF Slot, f
      <4> HIDE DEF A, B
      <4> QED
        BY <1>9, <4>1, <4>2 DEF Slot
    <3> HIDE DEF A, B
    <3>5. Slot(e, B, i) = Slot(ents, K[p], i + m)
      BY <3>4
    <3> QED
      BY <1>11, <1>12, <1>22, <2>2, <3>3, <3>5
  <2>3. CASE q = p
    <3>1. i \in 1 .. m /\ a[i].val = id /\ lev[p] > 0
      BY <1>5, <1>11, <1>13, <1>24, <2>3 DEF Link
    <3>2. Link(V, lev, p, i, id)
      BY <1>1, <1>3, <1>5, <3>1 DEF Link, ents
    <3>3. Slot(ents, K[p], i) = K[id] /\ id \in 1 .. n
      BY <1>1, <1>2, <1>22, <3>2 DEF ents
    <3>4. ASSUME NEW y PROVE y \in Slot(a, A, i) <=> y \in Slot(ents, K[p], i)
      <4>1. CASE y \in B
        <5> DEFINE f == SearchSlot(ents, y)
        <5>1. f \in 1 .. L /\ f > m
          BY <1>9, <1>23, <3>1, <4>1
        <5> HIDE DEF f
        <5>2. f # i
          BY <1>3, <1>5, <3>1, <5>1
        <5> QED
          BY <1>9, <4>1, <5>2 DEF Slot, f
      <4>2. CASE y \in A
        <5>1. SearchSlot(a, y) = SearchSlot(ents, y) /\ y \in K[p]
          BY <1>9, <1>23, <3>1, <4>2
        <5> QED
          BY <4>2, <5>1 DEF Slot
      <4> HIDE DEF A, B
      <4> QED
        BY <1>9, <4>1, <4>2 DEF Slot
    <3> HIDE DEF A, B
    <3>5. Slot(a, A, i) = Slot(ents, K[p], i)
      BY <3>4
    <3> QED
      BY <1>11, <1>12, <1>22, <2>3, <3>3, <3>5
  <2>4. CASE q \in 1 .. n /\ q # p
    <3>1. W[q] = V[q] /\ K2[q] = K[q] /\ lv[q] = lev[q]
      BY <1>11, <1>12, <1>13, <2>4
    <3>2. Link(V, lev, q, i, id)
      BY <1>1, <1>24, <2>4, <3>1 DEF Link
    <3>3. Slot(V[q], K[q], i) = Seen(K, 0, 0, id) /\ id \in 1 .. n
      BY <1>1, <1>2, <3>2
    <3> QED
      BY <1>22, <3>1, <3>3
  <2> QED
    BY <1>13, <2>1, <2>2, <2>3, <2>4
<1>25. Ways(W, head, lv, K2, p, t)
  <2>1. Seen(K2, p, t, head) = Int
    BY <1>1, <1>22
  <2> QED
    BY <1>24, <2>1 DEF Ways
<1>26. SplitOff(t, lv, K2, C, p, t, x)
  <2>1. x \in K2[t] /\ (\A l \in K2[p] : l < x) /\ \A l \in K2[t] : x <= l
    BY <1>6, <1>9, <1>12
  <2> HIDE DEF A, B
  <2> QED
    BY <1>7, <1>13, <2>1 DEF SplitOff, Parted
<1>27. K2[p] \cup K2[t] = K[p]
  BY <1>9, <1>12
<1> HIDE DEF A, B
<1>28. Keyed(W, t, head, lv, K2, C, p, t)
  BY <1>21, <1>25 DEF Keyed
<1>29. /\ Keyed(W, t, head, lv, K2, C, p, t) /\ SplitOff(t, lv, K2, C, p, t, e[1].key)
       /\ (\A q \in 1 .. n : q # p => K2[q] = K[q]) /\ K2[p] \cup K2[t] = K[p]
  BY <1>12, <1>26, <1>27, <1>28 DEF x
<1> QED
  BY <1>29 DEF W, U, lv, t

LEMMA Rooted ==
    ASSUME NEW V, NEW n, NEW head, NEW H, NEW lev, NEW o, Tree(V, n, head, H, lev, {o}),
           NEW K, NEW C \in Dicts, Keyed(V, n, head, lev, K, C, head, o),
           NEW x \in Item, x.val = o, SplitOff(n, lev, K, C, head, o, x.key), V[head] # <<>>,
           NEW e \in Ents, Len(e) = 2, e[1].val = head, e[1].key = V[head][1].key, e[2] = x
    PROVE  \E K2 : Keyed(Longer(V, n, e), n + 1, n + 1, Longer(lev, n, H + 1), K2, C, 0, 0)
<1> DEFINE W == Longer(V, n, e)
           lv == Longer(lev, n, H + 1)
           t == n + 1
           u == x.key
           K2 == Longer(K, n, Int)
<1>1. /\ n \in Nat /\ head \in 1 .. n /\ V \in [1 .. n -> Ents] /\ DOMAIN V = 1 .. n
      /\ (\A q \in 1 .. n : lev[q] \in Nat /\ V[q] \in Ents)
      /\ (\A q \in 1 .. n : lev[q] > 0 => V[q] # <<>>)
      /\ K \in [1 .. n -> SUBSET Int] /\ (\A q \in 1 .. n : K[q] # {} /\ Convex(K[q]))
      /\ (\A q, r \in 1 .. n : q # r /\ lev[q] = lev[r] => K[q] \cap K[r] = {})
      /\ (\A q \in 1 .. n : lev[q] = 0 => LeafIs(V[q], K[q], C) /\ (n > 1 => V[q] # <<>>))
      /\ (\A q \in 1 .. n : lev[q] > 0 => InnerIs(V[q], K[q], C))
      /\ (\A l \in Key : C[l] # Nil => InLeaf(V, n, lev, l))
      /\ Seen(K, head, o, head) = Int
      /\ \A q, i, id : Link(V, lev, q, i, id) => Slot(V[q], K[q], i) = Seen(K, head, o, id)
  <2>1. Known(V, n, head, lev, K, C, head, o)
    BY KeyedFacts
  <2> QED
    BY <2>1 DEF Known
<1>2. /\ o \in 1 .. n /\ head # o /\ u \in K[o]
      /\ (\A l \in K[head] : l < u) /\ (\A l \in K[o] : u <= l) /\ C[u] # Nil
  BY DEF SplitOff, Parted
<1>3. \A q, i, id : Link(V, lev, q, i, id) => id \in 1 .. n /\ id # o /\ id # head
  <2>1. Linked(V, n, head, lev, {o})
    BY DEF Tree
  <2> QED
    BY <2>1 DEF Linked
<1>4. H \in Nat /\ (\A q \in 1 .. n : lev[q] # H + 1 /\ lev[q] <= H)
  <2>1. H \in Nat /\ lev \in [1 .. n -> 0 .. H]
    BY DEF Tree, TreeTypes
  <2> QED
    BY <2>1
<1>5. u \in Int /\ u \in Key /\ DOMAIN e = 1 .. 2 /\ e # <<>>
  <2>2. u \in Nat /\ u \in Key
    BY KeyIsNat
  <2>3. DOMAIN e = 1 .. Len(e)
    BY EntsFacts
  <2>4. e # <<>>
    <3>1. e = <<>> <=> Len(e) = 0
      BY EntsFacts
    <3> QED
      BY <3>1
  <2> HIDE DEF u
  <2>5. u \in Int
    BY <2>2
  <2> QED
    BY <2>2, <2>3, <2>4, <2>5
<1>6. K[head] \cup K[o] = Int /\ (\A y \in Int : y < u => y \in K[head] /\ y \notin K[o])
      /\ (\A y \in Int : ~(y < u) => y \in K[o] /\ y \notin K[head]) /\ K[o] \subseteq Int /\ K[head] \subseteq Int
  <2>1. K[head] \cup K[o] = Int /\ K[o] \subseteq Int /\ K[head] \subseteq Int
    BY <1>1, <1>2 DEF Seen
  <2> HIDE DEF u
  <2>2. ASSUME NEW y \in Int PROVE /\ y < u => y \in K[head] /\ y \notin K[o]
                                   /\ ~(y < u) => y \in K[o] /\ y \notin K[head]
    BY <1>2, <1>5, <2>1
  <2> QED
    BY <2>1, <2>2
<1>7. ASSUME NEW y \in Int PROVE SearchSlot(e, y) = IF y < u THEN 1 ELSE 2
  <2>1. Sorted(e, 2)
    <3>1. \A i, q \in 2 .. 2 : ~(i < q)
      OBVIOUS
    <3> QED
      BY <3>1 DEF Sorted
  <2>2. CASE y < u
    <3>1. 1 \in 1 .. Len(e) /\ (1 = Len(e) \/ y < e[1 + 1].key)
      BY <2>2
    <3>2. SearchSlot(e, y) = 1
      BY <1>5, <2>1, <3>1, SlotUnique
    <3> QED
      BY <2>2, <3>2
  <2>3. CASE ~(y < u)
    <3>1. 2 \in 1 .. Len(e) /\ (2 = 1 \/ e[2].key <= y)
      BY <1>5, <2>3
    <3>2. SearchSlot(e, y) = 2
      BY <1>5, <2>1, <3>1, SlotUnique
    <3> QED
      BY <2>3, <3>2
  <2> QED
    BY <2>2, <2>3
<1> HIDE DEF u
<1>8. n \in Nat
  BY <1>1
<1>9. DOMAIN W = 1 .. t /\ W[t] = e /\ \A q \in 1 .. n : W[q] = V[q]
  <2>1. W = Longer(V, n, e)
    OBVIOUS
  <2> HIDE DEF W
  <2> QED
    BY <1>8, <2>1, LongerFacts
<1>10. K2[t] = Int /\ \A q \in 1 .. n : K2[q] = K[q]
  BY <1>8, LongerFacts
<1>11. /\ lv[t] = H + 1 /\ (\A q \in 1 .. n : lv[q] = lev[q] /\ q # t /\ q \in 1 .. t)
       /\ t \in 1 .. t /\ (\A q \in 1 .. t : q = t \/ q \in 1 .. n) /\ t \in Nat /\ t # 0
  BY <1>8, LongerFacts
<1>12. K2 \in [1 .. t -> SUBSET Int]
  <2>1. K2 = [q \in 1 .. n + 1 |-> IF q = n + 1 THEN Int ELSE K[q]]
    BY DEF Longer
  <2> QED
    BY <1>1, <1>11, <2>1
<1> HIDE DEF W, K2, lv, t
<1>13. \A q \in 1 .. t : K2[q] # {} /\ Convex(K2[q])
  <2>1. Int # {} /\ Convex(Int)
    <3>1. 0 \in Int
      OBVIOUS
    <3> QED
      BY <3>1 DEF Convex
  <2> QED
    BY <1>1, <1>10, <1>11, <2>1
<1>14. ASSUME NEW q \in 1 .. t, NEW r \in 1 .. t, q # r, lv[q] = lv[r] PROVE K2[q] \cap K2[r] = {}
  <2>1. q \in 1 .. n /\ r \in 1 .. n
    BY <1>4, <1>11, <1>14
  <2> QED
    BY <1>1, <1>10, <1>11, <1>14, <2>1
<1>15. V[head] \in Ents /\ Len(V[head]) >= 1 /\ C[V[head][1].key] # Nil
  <2>1. V[head] \in Ents
    BY <1>1
  <2>2. Len(V[head]) \in Nat /\ Len(V[head]) # 0 /\ (lev[head] = 0 \/ lev[head] > 0)
    BY <1>1, <2>1, EntsFacts
  <2>3. 1 \in 1 .. Len(V[head])
    BY <2>2
  <2>4. CASE lev[head] = 0
    <3>1. V[head][1].val \in Val /\ C[V[head][1].key] = V[head][1].val
      BY <1>1, <2>3, <2>4 DEF LeafIs
    <3> QED
      BY <2>1, <2>2, <3>1, KeyIsNat
  <2>5. CASE lev[head] > 0
    BY <1>1, <2>1, <2>2, <2>3, <2>5 DEF InnerIs
  <2> QED
    BY <2>2, <2>4, <2>5
<1>16. InnerIs(e, Int, C)
  <2>1. \A i \in 1 .. 2 : i = 1 \/ i = 2
    OBVIOUS
  <2>2. \A i \in 2 .. 2 : i = 2
    OBVIOUS
  <2>3. Sorted(e, 2)
    BY <2>2 DEF Sorted
  <2> QED
    BY <1>2, <1>5, <1>15, <2>1, <2>2, <2>3 DEF InnerIs, u
<1>17. ASSUME NEW q \in 1 .. t
       PROVE  /\ lv[q] = 0 => LeafIs(W[q], K2[q], C) /\ (t > 1 => W[q] # <<>>)
              /\ lv[q] > 0 => InnerIs(W[q], K2[q], C)
  <2>1. CASE q = t
    BY <1>4, <1>9, <1>10, <1>11, <1>16, <2>1
  <2>2. CASE q \in 1 .. n
    <3>1. n > 1
      BY <1>1, <1>2
    <3> QED
      BY <1>1, <1>9, <1>10, <1>11, <2>2, <3>1
  <2> QED
    BY <1>11, <2>1, <2>2
<1>18. ASSUME NEW l \in Key, C[l] # Nil PROVE InLeaf(W, t, lv, l)
  <2>1. InLeaf(V, n, lev, l)
    BY <1>1, <1>18
  <2>2. PICK q \in 1 .. n : lev[q] = 0 /\ \E i \in 1 .. Len(V[q]) : V[q][i].key = l
    BY <2>1 DEF InLeaf
  <2>3. W[q] = V[q] /\ q \in 1 .. t /\ lv[q] = 0
    BY <1>9, <1>11, <2>2
  <2> QED
    BY <2>2, <2>3 DEF InLeaf
<1>19. Ordered(W, t, lv, K2, C)
  BY <1>12, <1>13, <1>14, <1>17, <1>18 DEF Ordered
<1>20. \A id \in 1 .. n : Seen(K2, 0, 0, id) = K[id]
  <2>1. \A id \in 1 .. n : id # 0
    OBVIOUS
  <2> QED
    BY <1>10, <2>1 DEF Seen
<1>21. ASSUME NEW q, NEW i, NEW id, Link(W, lv, q, i, id)
       PROVE  Slot(W[q], K2[q], i) = Seen(K2, 0, 0, id)
  <2>1. q \in 1 .. t
    BY <1>9, <1>21 DEF Link
  <2>2. CASE q = t
    <3>1. i \in 1 .. 2 /\ e[i].val = id
      BY <1>5, <1>9, <1>21, <2>2 DEF Link
    <3>2. i = 1 \/ i = 2
      BY <3>1
    <3>3. CASE i = 1
      <4>1. id = head
        BY <3>1, <3>3
      <4>2. \A y \in Int : SearchSlot(e, y) = 1 <=> y \in K[head]
        BY <1>6, <1>7
      <4>3. Slot(e, Int, 1) = K[head]
        BY <1>6, <4>2 DEF Slot
      <4> QED
        BY <1>1, <1>9, <1>10, <1>20, <2>2, <3>3, <4>1, <4>3
    <3>4. CASE i = 2
      <4>1. id = o
        BY <3>1, <3>4
      <4>2. \A y \in Int : SearchSlot(e, y) = 2 <=> y \in K[o]
        BY <1>6, <1>7
      <4>3. Slot(e, Int, 2) = K[o]
        BY <1>6, <4>2 DEF Slot
      <4> QED
        BY <1>2, <1>9, <1>10, <1>20, <2>2, <3>4, <4>1, <4>3
    <3> QED
      BY <3>2, <3>3, <3>4
  <2>3. CASE q \in 1 .. n
    <3>1. W[q] = V[q] /\ K2[q] = K[q] /\ lv[q] = lev[q]
      BY <1>9, <1>10, <1>11, <2>3
    <3>2. Link(V, lev, q, i, id)
      BY <1>1, <1>21, <2>3, <3>1 DEF Link
    <3>3. Slot(V[q], K[q], i) = Seen(K, head, o, id) /\ id \in 1 .. n /\ id # head
      BY <1>1, <1>3, <3>2
    <3>4. Seen(K, head, o, id) = K[id]
      BY <3>3 DEF Seen
    <3> QED
      BY <1>20, <3>1, <3>3, <3>4
  <2> QED
    BY <1>11, <2>1, <2>2, <2>3
<1>22. Ways(W, t, lv, K2, 0, 0)
  <2>1. Seen(K2, 0, 0, t) = Int
    BY <1>10, <1>11 DEF Seen
  <2> QED
    BY <1>21, <2>1 DEF Ways
<1>23. Keyed(W, t, t, lv, K2, C, 0, 0)
  BY <1>19, <1>22 DEF Keyed
<1> QED
  BY <1>23 DEF W, t, lv

-----------------------------------------------------------------------------
(* What is found in the tree. *)

LEMMA BeforeAt ==
    ASSUME NEW e \in Ents, Sorted(e, 1), NEW q \in 1 .. Len(e), NEW k, k = e[q].key
    PROVE  Before(e, k) = q - 1
<1> DEFINE m == Before(e, k)
           L == Len(e)
<1>1. L \in Nat /\ (\A i \in 1 .. L : e[i].key \in Int) /\ k \in Int
  BY EntsFacts, KeysIn
<1>2. m \in 0 .. L /\ (\A i \in 1 .. m : e[i].key < k) /\ \A i \in m + 1 .. L : k <= e[i].key
  BY <1>1, BeforeIs
<1> HIDE DEF m
<1>3. q > m
  <2> SUFFICES ASSUME ~(q > m) PROVE FALSE
    OBVIOUS
  <2>1. q \in 1 .. m
    BY <1>1, <1>2
  <2> QED
    BY <1>1, <1>2, <2>1
<1>4. ~(m + 1 < q)
  <2> SUFFICES ASSUME m + 1 < q PROVE FALSE
    OBVIOUS
  <2>1. m + 1 \in m + 1 .. L /\ m + 1 \in 1 .. L
    BY <1>1, <1>2
  <2>2. e[m + 1].key < e[q].key
    BY <2>1 DEF Sorted
  <2> QED
    BY <1>1, <1>2, <2>1, <2>2
<1> QED
  BY <1>1, <1>2, <1>3, <1>4 DEF m

\* Everything stored is in the leaf to which it leads.
LEMMA InItsLeaf ==
    ASSUME NEW V, NEW n, NEW head, NEW lev, NEW K, NEW C, Known(V, n, head, lev, K, C, 0, 0),
           NEW p \in 1 .. n, lev[p] = 0, NEW k \in Key, k \in K[p], C[k] # Nil
    PROVE  \E i \in 1 .. Len(V[p]) : V[p][i].key = k
<1>1. /\ (\A q, r \in 1 .. n : q # r /\ lev[q] = lev[r] => K[q] \cap K[r] = {})
      /\ (\A q \in 1 .. n : lev[q] = 0 => LeafIs(V[q], K[q], C))
      /\ InLeaf(V, n, lev, k)
  BY DEF Known
<1>2. PICK q \in 1 .. n : lev[q] = 0 /\ \E i \in 1 .. Len(V[q]) : V[q][i].key = k
  BY <1>1 DEF InLeaf
<1>3. k \in K[q]
  BY <1>1, <1>2 DEF LeafIs
<1>4. q = p
  BY <1>1, <1>2, <1>3
<1> QED
  BY <1>2, <1>4

LEMMA FoundInLeaf ==
    ASSUME NEW V, NEW n, NEW head, NEW lev, NEW K, NEW C, Known(V, n, head, lev, K, C, 0, 0),
           NEW p \in 1 .. n, lev[p] = 0, NEW k \in Key, k \in K[p]
    PROVE  LET j == Before(V[p], k) + 1
           IN  (IF Has(V[p], j, k) THEN V[p][j].val ELSE Nil) = C[k]
<1> DEFINE e == V[p]
           j == Before(e, k) + 1
<1>1. LeafIs(e, K[p], C) /\ e \in Ents
  BY DEF Known
<1>2. DOMAIN e = 1 .. Len(e) /\ Sorted(e, 1)
  BY <1>1, EntsFacts DEF LeafIs
<1>3. CASE Has(e, j, k)
  <2>1. C[e[j].key] = e[j].val /\ e[j].key = k
    BY <1>1, <1>2, <1>3 DEF Has, LeafIs
  <2> QED
    BY <1>3, <2>1
<1>4. CASE ~Has(e, j, k)
  <2> SUFFICES ASSUME C[k] # Nil PROVE FALSE
    BY <1>4
  <2>1. PICK i \in 1 .. Len(e) : e[i].key = k
    BY InItsLeaf
  <2> HIDE DEF e
  <2>2. Before(e, k) = i - 1
    BY <1>1, <1>2, <2>1, BeforeAt
  <2>3. j = i
    BY <2>2
  <2> QED
    BY <1>2, <1>4, <2>1, <2>3 DEF Has
<1> QED
  BY <1>3, <1>4

LEMMA FirstInLeaf ==
    ASSUME NEW V, NEW n, NEW head, NEW lev, NEW K, NEW C, Known(V, n, head, lev, K, C, 0, 0),
           NEW p \in 1 .. n, lev[p] = 0, -1 \in K[p], NEW k0 \in Key, C[k0] # Nil
    PROVE  /\ V[p] # <<>> /\ V[p][1].key \in Key /\ C[V[p][1].key] # Nil
           /\ \A l \in Key : C[l] # Nil => V[p][1].key <= l
<1> DEFINE e == V[p]
           u == e[1].key
<1>1. LeafIs(e, K[p], C) /\ (n > 1 => e # <<>>) /\ e \in Ents /\ InLeaf(V, n, lev, k0) /\ n \in Nat
      /\ Convex(K[p]) /\ \A l \in Key : C[l] # Nil => InLeaf(V, n, lev, l)
  BY DEF Known
<1>2. DOMAIN e = 1 .. Len(e) /\ Len(e) \in Nat /\ Sorted(e, 1) /\ (e = <<>> <=> Len(e) = 0)
  BY <1>1, EntsFacts DEF LeafIs
<1>3. e # <<>>
  <2>1. CASE n > 1
    BY <1>1, <2>1
  <2>2. CASE ~(n > 1)
    <3>1. PICK q \in 1 .. n : lev[q] = 0 /\ \E i \in 1 .. Len(V[q]) : V[q][i].key = k0
      BY <1>1 DEF InLeaf
    <3>2. q = p
      BY <1>1, <2>2
    <3>3. \E i \in 1 .. Len(e) : TRUE
      BY <3>1, <3>2
    <3> QED
      BY <1>2, <3>3
  <2> QED
    BY <2>1, <2>2
<1>4. 1 \in 1 .. Len(e)
  BY <1>2, <1>3
<1>5. u \in Key /\ u \in Nat /\ u \in K[p] /\ C[u] # Nil
  <2>1. u \in Key /\ u \in Nat
    BY <1>1, <1>4, KeysIn
  <2>2. u \in K[p] /\ C[u] \in Val
    BY <1>1, <1>4 DEF LeafIs
  <2> QED
    BY <2>1, <2>2, KeyIsNat
<1>6. ASSUME NEW l \in Key, C[l] # Nil, ~(u <= l) PROVE FALSE
  <2>1. l \in Nat
    BY KeyIsNat
  <2>2. -1 <= l /\ l <= u /\ l \in Int /\ -1 \in Int
    BY <1>5, <1>6, <2>1
  <2> HIDE DEF u
  <2>3. l \in K[p]
    BY <1>1, <1>5, <2>2 DEF Convex
  <2>4. PICK i \in 1 .. Len(e) : e[i].key = l
    BY <1>6, <2>3, InItsLeaf
  <2>5. i = 1 \/ 1 < i
    BY <1>2
  <2>6. 1 < i => e[1].key < e[i].key
    BY <1>2, <1>4 DEF Sorted
  <2> QED
    BY <1>5, <1>6, <2>1, <2>4, <2>5, <2>6 DEF u
<1> QED
  BY <1>3, <1>5, <1>6

-----------------------------------------------------------------------------
(* The blocks on the way to the leaf of k, and the next key. *)

Followed(V, n, lev, K, H, k, path) ==
    /\ H \in Nat /\ \A i \in 1 .. H + 1 : path[i] \in 1 .. n /\ lev[path[i]] = H + 1 - i /\ k \in K[path[i]]
    /\ \A i \in 1 .. H : Link(V, lev, path[i], SearchSlot(V[path[i]], k), path[i + 1])

\* Where k and l take the same slot of a block, they go on to the same block.
LEMMA FollowedBy ==
    ASSUME NEW V, NEW n, NEW head, NEW lev, NEW K, NEW C, Known(V, n, head, lev, K, C, 0, 0),
           NEW H, NEW k, NEW path, Followed(V, n, lev, K, H, k, path), NEW i \in 1 .. H,
           NEW l \in K[path[i]], SearchSlot(V[path[i]], l) = SearchSlot(V[path[i]], k)
    PROVE  l \in K[path[i + 1]]
<1>1. Link(V, lev, path[i], SearchSlot(V[path[i]], k), path[i + 1])
  BY DEF Followed
<1>2. path[i + 1] # 0
  <2>1. H \in Nat /\ i + 1 \in 1 .. H + 1
    BY DEF Followed
  <2>2. path[i + 1] \in 1 .. n
    BY <2>1 DEF Followed
  <2> QED
    BY <2>2
<1>3. Slot(V[path[i]], K[path[i]], SearchSlot(V[path[i]], k)) = K[path[i + 1]]
  BY <1>1, <1>2 DEF Known, Seen
<1> QED
  BY <1>3 DEF Slot

LEMMA OnTheWay ==
    ASSUME NEW V, NEW n, NEW head, NEW lev, NEW K, NEW C, Known(V, n, head, lev, K, C, 0, 0),
           NEW H, NEW k, NEW path, Followed(V, n, lev, K, H, k, path), NEW i \in 1 .. H + 1
    PROVE  /\ H \in Nat /\ path[i] \in 1 .. n /\ lev[path[i]] = H + 1 - i /\ k \in K[path[i]]
           /\ V[path[i]] \in Ents /\ DOMAIN V[path[i]] = 1 .. Len(V[path[i]]) /\ Len(V[path[i]]) \in Nat
           /\ Convex(K[path[i]]) /\ K[path[i]] \subseteq Int
           /\ i = H + 1 => LeafIs(V[path[i]], K[path[i]], C)
           /\ i # H + 1 => InnerIs(V[path[i]], K[path[i]], C) /\ V[path[i]] # <<>> /\ i \in 1 .. H
<1>1. H \in Nat /\ path[i] \in 1 .. n /\ lev[path[i]] = H + 1 - i /\ k \in K[path[i]]
  BY DEF Followed
<1> DEFINE p == path[i]
<1> HIDE DEF p
<1>2. p \in 1 .. n /\ lev[p] = H + 1 - i /\ H \in Nat
  BY <1>1 DEF p
<1>3. V[p] \in Ents /\ Convex(K[p]) /\ K[p] \subseteq Int
      /\ (lev[p] = 0 => LeafIs(V[p], K[p], C))
      /\ (lev[p] > 0 => InnerIs(V[p], K[p], C) /\ V[p] # <<>>)
  BY <1>2 DEF Known
<1>4. DOMAIN V[p] = 1 .. Len(V[p]) /\ Len(V[p]) \in Nat
  BY <1>3, EntsFacts
<1>5. (i = H + 1 => lev[p] = 0) /\ (i # H + 1 => lev[p] > 0 /\ i \in 1 .. H)
  BY <1>2
<1> QED
  BY <1>1, <1>3, <1>4, <1>5 DEF p

NextAt(V, path, H, k, i) == NextIn(V[path[i]], k, i = H + 1)

\* What a leaf has next.
LEMMA NextInLeaf ==
    ASSUME NEW V, NEW n, NEW head, NEW lev, NEW K, NEW C, Known(V, n, head, lev, K, C, 0, 0),
           NEW p \in 1 .. n, lev[p] = 0, NEW k \in Key, k \in K[p], C[k] # Nil
    PROVE  LET x == NextIn(V[p], k, TRUE)
           IN  /\ x # Nil => x \in Key /\ C[x] # Nil /\ x > k /\ x \in K[p]
               /\ \A l \in Key : l \in K[p] /\ C[l] # Nil /\ l > k => x # Nil /\ x <= l
<1> DEFINE e == V[p]
           L == Len(e)
           x == NextIn(e, k, TRUE)
<1>1. LeafIs(e, K[p], C) /\ e \in Ents
  BY DEF Known
<1>2. /\ DOMAIN e = 1 .. L /\ L \in Nat /\ Sorted(e, 1) /\ (\A i \in 1 .. L : e[i].key \in Key /\ e[i].key \in Nat)
      /\ \A i \in 1 .. L : e[i].key \in K[p] /\ C[e[i].key] # Nil
  <2>1. DOMAIN e = 1 .. L /\ L \in Nat /\ \A i \in 1 .. L : e[i].key \in Key /\ e[i].key \in Nat
    BY <1>1, EntsFacts, KeysIn
  <2>2. Sorted(e, 1) /\ \A i \in 1 .. L : e[i].key \in K[p] /\ C[e[i].key] \in Val
    BY <1>1 DEF LeafIs
  <2> QED
    BY <2>1, <2>2, KeyIsNat
<1>3. PICK q \in 1 .. L : e[q].key = k
  BY InItsLeaf
<1>4. ASSUME NEW l \in Key, l \in K[p], C[l] # Nil PROVE \E i \in 1 .. L : e[i].key = l
  BY <1>4, InItsLeaf
<1> HIDE DEF e
<1>5. Before(e, k) = q - 1
  BY <1>1, <1>2, <1>3, BeforeAt DEF L
<1>6. x = IF q + 1 \in 1 .. L THEN e[q + 1].key ELSE Nil
  <2>1. Before(e, k) + 2 = q + 1
    BY <1>2, <1>5
  <2> QED
    BY <1>2, <2>1 DEF NextIn
<1> HIDE DEF x
<1>7. \A i, m \in 1 .. L : i < m => e[i].key < e[m].key
  BY <1>2 DEF Sorted, L
<1> HIDE DEF L
<1>8. Nil \notin Key /\ k \in Nat
  BY KeyIsNat
<1>9. ASSUME x # Nil PROVE x \in Key /\ C[x] # Nil /\ x > k /\ x \in K[p]
  <2>1. q + 1 \in 1 .. L /\ x = e[q + 1].key
    BY <1>6, <1>9
  <2>2. e[q].key < e[q + 1].key
    BY <1>2, <1>7, <2>1
  <2> QED
    BY <1>2, <1>3, <1>8, <2>1, <2>2
<1>10. ASSUME NEW l \in Key, l \in K[p], C[l] # Nil, l > k PROVE x # Nil /\ x <= l
  <2>1. PICK i \in 1 .. L : e[i].key = l
    BY <1>4, <1>10
  <2>2. l \in Nat
    BY KeyIsNat
  <2>3. ~(i <= q)
    <3>1. i < q => l < k
      BY <1>3, <1>7, <2>1
    <3>2. i = q => l = k
      BY <1>3, <2>1
    <3> QED
      BY <1>2, <1>8, <1>10, <2>2, <3>1, <3>2
  <2>4. q + 1 \in 1 .. L /\ (q + 1 = i \/ q + 1 < i)
    BY <1>2, <2>3
  <2>5. x = e[q + 1].key /\ x \in Key /\ x \in Nat
    BY <1>2, <1>6, <2>4
  <2>6. x = l \/ x < l
    BY <1>7, <2>1, <2>4, <2>5
  <2> QED
    BY <1>8, <2>2, <2>5, <2>6
<1> QED
  BY <1>9, <1>10 DEF x, e

\* What an inner block has next.
LEMMA NextInInner ==
    ASSUME NEW e \in Ents, e # <<>>, NEW S, NEW C, InnerIs(e, S, C), NEW k \in Key
    PROVE  LET x == NextIn(e, k, FALSE)
               s == SearchSlot(e, k)
           IN  /\ x # Nil => x \in Key /\ C[x] # Nil /\ x > k /\ x \in S
               /\ \A l \in Key : l > k /\ (x = Nil \/ l < x) => SearchSlot(e, l) = s
<1> DEFINE L == Len(e)
           x == NextIn(e, k, FALSE)
           s == SearchSlot(e, k)
<1>1. /\ DOMAIN e = 1 .. L /\ L \in Nat /\ Sorted(e, 2) /\ (\A i \in 1 .. L : e[i].key \in Key /\ e[i].key \in Nat)
      /\ (\A i \in 2 .. L : e[i].key \in S) /\ \A i \in 1 .. L : C[e[i].key] # Nil
  <2>1. DOMAIN e = 1 .. L /\ L \in Nat /\ \A i \in 1 .. L : e[i].key \in Key /\ e[i].key \in Nat
    BY EntsFacts, KeysIn
  <2>2. Sorted(e, 2) /\ (\A i \in 2 .. L : e[i].key \in S) /\ \A i \in 1 .. L : C[e[i].key] # Nil
    BY DEF InnerIs
  <2> QED
    BY <2>1, <2>2
<1>2. k \in Int /\ k \in Nat /\ Nil \notin Key
  BY KeyIsNat
<1>3. s \in 1 .. L /\ (\A i \in 2 .. s : e[i].key <= k) /\ \A i \in s + 1 .. L : k < e[i].key
  BY <1>1, <1>2, SlotIs
<1>4. x = IF s + 1 \in 1 .. L THEN e[s + 1].key ELSE Nil
  BY <1>1 DEF NextIn
<1> HIDE DEF x, s
<1>7. s + 1 \in 1 .. L \/ s = L
  <2> HIDE DEF L
  <2> QED
    BY <1>1, <1>3
<1>5. ASSUME x # Nil PROVE x \in Key /\ C[x] # Nil /\ x > k /\ x \in S
  <2>1. s + 1 \in 1 .. L /\ x = e[s + 1].key /\ s + 1 \in 2 .. L /\ s + 1 \in s + 1 .. L
    BY <1>1, <1>3, <1>4, <1>5
  <2> QED
    BY <1>1, <1>2, <1>3, <2>1
<1>6. ASSUME NEW l \in Key, l > k, x = Nil \/ l < x PROVE SearchSlot(e, l) = s
  <2>1. l \in Int /\ l \in Nat
    BY KeyIsNat
  <2>2. s = 1 \/ e[s].key <= l
    <3>1. s # 1 => s \in 2 .. s /\ e[s].key \in Nat
      BY <1>1, <1>3
    <3>2. s # 1 => e[s].key <= k
      BY <1>3, <3>1
    <3> QED
      BY <1>2, <1>6, <2>1, <3>1, <3>2
  <2>3. s = L \/ l < e[s + 1].key
    <3>1. s # L => s + 1 \in 1 .. L
      BY <1>7
    <3>2. s # L => x = e[s + 1].key /\ x \in Key
      BY <1>1, <1>4, <3>1
    <3> QED
      BY <1>2, <1>6, <3>2
  <2> QED
    BY <1>1, <1>3, <2>1, <2>2, <2>3, SlotUnique
<1> QED
  BY <1>5, <1>6 DEF x, s

LEMMA NextOne ==
    ASSUME NEW V, NEW n, NEW head, NEW lev, NEW K, NEW C, Known(V, n, head, lev, K, C, 0, 0),
           NEW H, NEW k \in Key, C[k] # Nil, NEW path, Followed(V, n, lev, K, H, k, path),
           NEW i \in 1 .. H + 1
    PROVE  LET x == NextAt(V, path, H, k, i)
           IN  /\ x # Nil => x \in Key /\ C[x] # Nil /\ x > k /\ x \in K[path[i]]
               /\ \A l \in Key : l \in K[path[i]] /\ C[l] # Nil /\ l > k /\ (x = Nil \/ l < x)
                                    => i # H + 1 /\ l \in K[path[i + 1]]
<1>1. /\ H \in Nat /\ path[i] \in 1 .. n /\ lev[path[i]] = H + 1 - i /\ k \in K[path[i]]
      /\ V[path[i]] \in Ents
      /\ i # H + 1 => InnerIs(V[path[i]], K[path[i]], C) /\ V[path[i]] # <<>> /\ i \in 1 .. H
  BY OnTheWay
<1> DEFINE x == NextAt(V, path, H, k, i)
<1>a. k \in Nat /\ Nil \notin Key /\ \A l \in Key : l \in Nat
  BY KeyIsNat
<1>2. CASE i = H + 1
  <2>1. lev[path[i]] = 0
    BY <1>1, <1>2
  <2> DEFINE p == path[i]
  <2>2. p \in 1 .. n /\ lev[p] = 0 /\ k \in K[p]
    BY <1>1, <2>1
  <2> HIDE DEF p
  <2>3. LET y == NextIn(V[p], k, TRUE)
        IN  /\ y # Nil => y \in Key /\ C[y] # Nil /\ y > k /\ y \in K[p]
            /\ \A l \in Key : l \in K[p] /\ C[l] # Nil /\ l > k => y # Nil /\ y <= l
    BY <2>2, NextInLeaf
  <2>4. x = NextIn(V[p], k, TRUE)
    BY <1>2 DEF NextAt, p
  <2> HIDE DEF x
  <2>5. x # Nil => x \in Key /\ C[x] # Nil /\ x > k /\ x \in K[p]
    BY <2>3, <2>4
  <2>6. \A l \in Key : l \in K[p] /\ C[l] # Nil /\ l > k => x # Nil /\ x <= l
    BY <2>3, <2>4
  <2>7. ASSUME NEW l \in Key, l \in K[p], C[l] # Nil, l > k, x = Nil \/ l < x PROVE FALSE
    <3>1. x # Nil /\ x <= l /\ l < x
      BY <2>6, <2>7
    <3>2. x \in Nat /\ l \in Nat
      BY <1>a, <2>5, <3>1
    <3> QED
      BY <3>1, <3>2
  <2> QED
    BY <2>5, <2>7 DEF x, p
<1>3. CASE i # H + 1
  <2> DEFINE e == V[path[i]]
             S == K[path[i]]
  <2>1. e \in Ents /\ e # <<>> /\ InnerIs(e, S, C) /\ i \in 1 .. H
    BY <1>1, <1>3
  <2>2. x = NextIn(e, k, FALSE)
    <3>1. (i = H + 1) = FALSE
      BY <1>3
    <3> QED
      BY <3>1 DEF NextAt
  <2> HIDE DEF x, e, S
  <2>3. /\ x # Nil => x \in Key /\ C[x] # Nil /\ x > k /\ x \in S
        /\ \A l \in Key : l > k /\ (x = Nil \/ l < x) => SearchSlot(e, l) = SearchSlot(e, k)
    BY <2>1, <2>2, NextInInner
  <2>4. ASSUME NEW l \in Key, l \in S, l > k, x = Nil \/ l < x PROVE l \in K[path[i + 1]]
    <3>1. SearchSlot(V[path[i]], l) = SearchSlot(V[path[i]], k)
      BY <2>3, <2>4 DEF e
    <3>2. l \in K[path[i]]
      BY <2>4 DEF S
    <3> QED
      BY <2>1, <3>1, <3>2, FollowedBy
  <2> QED
    BY <1>3, <2>3, <2>4 DEF x, e, S
<1> QED
  BY <1>2, <1>3

\* A key of block path[i] that is larger than k is followed to the leaf unless
\* it is found before.
LEMMA NoneWithin ==
    ASSUME NEW V, NEW n, NEW head, NEW lev, NEW K, NEW C, Known(V, n, head, lev, K, C, 0, 0),
           NEW H, NEW k \in Key, C[k] # Nil, NEW path, Followed(V, n, lev, K, H, k, path),
           NEW i \in 1 .. H + 1, NEW l \in Key, C[l] # Nil, l > k, l \in K[path[i]],
           \A m \in i .. H + 1 : NextAt(V, path, H, k, m) = Nil
    PROVE  FALSE
<1> DEFINE S == {m \in i .. H + 1 : l \in K[path[m]]}
<1>1. H \in Nat /\ H + 1 \in Nat /\ i \in S /\ S # {} /\ S \in SUBSET (1 .. H + 1)
  BY DEF Followed
<1>2. \A m \in i .. H + 1 : m \in S <=> l \in K[path[m]]
  OBVIOUS
<1>a. S \subseteq i .. H + 1
  OBVIOUS
<1> HIDE DEF S
<1>3. Max(S) \in S /\ \A m \in S : Max(S) >= m
  BY <1>1, GreatestElement
<1> DEFINE g == Max(S)
<1>4. g \in S /\ (\A m \in S : g >= m) /\ g \in i .. H + 1 /\ g \in 1 .. H + 1
  BY <1>1, <1>3, <1>a
<1> HIDE DEF g
<1>5. l \in K[path[g]] /\ NextAt(V, path, H, k, g) = Nil
  BY <1>2, <1>4
<1>6. g # H + 1 /\ l \in K[path[g + 1]]
  BY <1>4, <1>5, NextOne
<1>7. g + 1 \in i .. H + 1
  BY <1>1, <1>4, <1>6
<1>8. g + 1 \in S
  BY <1>2, <1>6, <1>7
<1> QED
  BY <1>4, <1>8

NextFound(V, path, H, k) == {i \in 1 .. H + 1 : NextAt(V, path, H, k, i) # Nil}

NextResult(V, path, H, k) ==
    LET found == NextFound(V, path, H, k)
    IN  IF found = {} THEN Nil ELSE NextAt(V, path, H, k, Max(found))

\* x is the least element of S, or Nil.
Least(S, x) == IF S = {} THEN x = Nil ELSE x \in S /\ \A l \in S : x <= l

\* nextkey() returns the least key above k.
LEMMA NextIs ==
    ASSUME NEW V, NEW n, NEW head, NEW lev, NEW K, NEW C, Known(V, n, head, lev, K, C, 0, 0),
           NEW H, NEW k \in Key, C[k] # Nil, NEW path, Followed(V, n, lev, K, H, k, path),
           path[1] = head
    PROVE  Least({l \in Key : C[l] # Nil /\ l > k}, NextResult(V, path, H, k))
<1> DEFINE found == NextFound(V, path, H, k)
           S == {l \in Key : C[l] # Nil /\ l > k}
           N(m) == NextAt(V, path, H, k, m)
           res == NextResult(V, path, H, k)
<1>1. H \in Nat /\ H + 1 \in Nat /\ head \in 1 .. n /\ head # 0
  BY DEF Followed, Known
<1>2. \A m \in 1 .. H + 1 : m \in found <=> N(m) # Nil
  BY DEF NextFound
<1>3. found \in SUBSET (1 .. H + 1)
  BY DEF NextFound
<1>4. \A l \in S : l \in Key /\ C[l] # Nil /\ l > k /\ l \in Nat
  BY KeyIsNat
<1>5. \A l \in S : l \in K[path[1]]
  <2>1. K[head] = Int
    BY <1>1 DEF Known, Seen
  <2> QED
    BY <1>4, <2>1
<1>b. \A l \in Key : C[l] # Nil /\ l > k => l \in S
  OBVIOUS
<1> HIDE DEF found, S, N, res
<1>6. CASE found = {}
  <2>a. res = Nil
    BY <1>6 DEF found, res, NextResult
  <2> SUFFICES ASSUME NEW l \in S PROVE FALSE
    BY <2>a DEF S, res, Least
  <2>1. \A m \in 1 .. H + 1 : NextAt(V, path, H, k, m) = Nil
    BY <1>2, <1>6 DEF N
  <2>2. 1 \in 1 .. H + 1 /\ l \in Key /\ C[l] # Nil /\ l > k /\ l \in K[path[1]]
    BY <1>1, <1>4, <1>5
  <2> QED
    BY <2>1, <2>2, NoneWithin
<1>7. CASE found # {}
  <2> DEFINE g == Max(found)
             x == N(g)
  <2>1. g \in found /\ (\A m \in found : g >= m)
    BY <1>1, <1>3, <1>7, GreatestElement
  <2> HIDE DEF g
  <2>2. g \in 1 .. H + 1 /\ x # Nil
    BY <1>2, <1>3, <2>1
  <2>3. /\ x \in Key /\ C[x] # Nil /\ x > k /\ x \in K[path[g]]
        /\ \A l \in Key : l \in K[path[g]] /\ C[l] # Nil /\ l > k /\ l < x
                                    => g # H + 1 /\ l \in K[path[g + 1]]
    BY <2>2, NextOne DEF N
  <2> HIDE DEF x
  <2>4. x \in S /\ x \in Nat /\ k \in Nat
    BY <1>b, <2>3, KeyIsNat
  <2>5. ASSUME NEW l \in S, ~(x <= l) PROVE FALSE
    <3>1. l \in Key /\ C[l] # Nil /\ l > k /\ l \in Nat
      BY <1>4
    <3>2. k <= l /\ l <= x /\ l < x /\ l \in Int
      BY <2>4, <2>5, <3>1
    <3>3. l \in K[path[g]]
      <4>1. k \in K[path[g]] /\ Convex(K[path[g]])
        BY <2>2, OnTheWay
      <4> QED
        BY <2>3, <3>2, <4>1 DEF Convex
    <3>4. g # H + 1 /\ l \in K[path[g + 1]]
      BY <2>3, <3>1, <3>2, <3>3
    <3>5. g + 1 \in 1 .. H + 1
      BY <1>1, <2>2, <3>4
    <3>6. \A m \in g + 1 .. H + 1 : NextAt(V, path, H, k, m) = Nil
      <4> SUFFICES ASSUME NEW m \in g + 1 .. H + 1 PROVE N(m) = Nil
        BY DEF N
      <4>1. m \in 1 .. H + 1 /\ ~(g >= m)
        BY <1>1, <2>2
      <4> QED
        BY <1>2, <2>1, <4>1
    <3> QED
      BY <3>1, <3>4, <3>5, <3>6, NoneWithin
  <2>6. res = x
    BY <1>7 DEF found, N, g, x, res, NextResult
  <2>7. Least(S, res)
    BY <2>4, <2>5, <2>6 DEF Least
  <2> QED
    BY <2>7 DEF S, res
<1> QED
  BY <1>6, <1>7

-----------------------------------------------------------------------------
(* The descent of a key. *)

\* k is the key of no inner block, but perhaps of a first entry.
NoInner(V, n, lev, k) == \A p \in 1 .. n : lev[p] > 0 => \A j \in 2 .. Len(V[p]) : V[p][j].key # k

\* The way of k down to the height H - m.
Following(V, n, lev, K, H, k, m, path) ==
    /\ \A i \in 1 .. m + 1 : path[i] \in 1 .. n /\ lev[path[i]] = H + 1 - i /\ k \in K[path[i]]
    /\ \A i \in 1 .. m : Link(V, lev, path[i], SearchSlot(V[path[i]], k), path[i + 1])

LEMMA FollowDown ==
    ASSUME NEW V, NEW n, NEW head, NEW lev, NEW K, NEW C, Known(V, n, head, lev, K, C, 0, 0),
           NEW H \in Nat, NEW m \in 1 .. H, NEW k \in Int, NEW insert \in BOOLEAN,
           insert => k \in Nat /\ NoInner(V, n, lev, k),
           NEW d, NEW e, Following(V, n, lev, K, H, k, m - 1, d.path), Lower(V, lev, k, insert, m, d, e),
           e.path[m + 1] \in 1 .. n, lev[e.path[m + 1]] = H + 1 - (m + 1)
    PROVE  Following(V, n, lev, K, H, k, m, e.path)
<1> DEFINE p == d.path[m]
           id == e.path[m + 1]
           slot == SearchSlot(V[p], k)
<1>1. /\ m \in Nat /\ m \in 1 .. (m - 1) + 1 /\ (m - 1) + 1 = m
      /\ \A i \in 1 .. m + 1 : i = m + 1 \/ i \in 1 .. m
      /\ \A i \in 1 .. m : i = m \/ i \in 1 .. m - 1
  OBVIOUS
<1>a. \A i \in 1 .. m - 1 : i \in 1 .. m /\ i + 1 \in 1 .. m
  BY <1>1
<1>2. /\ \A i \in 1 .. m : d.path[i] \in 1 .. n /\ lev[d.path[i]] = H + 1 - i /\ k \in K[d.path[i]]
      /\ \A i \in 1 .. m - 1 : Link(V, lev, d.path[i], SearchSlot(V[d.path[i]], k), d.path[i + 1])
  BY <1>1 DEF Following
<1>3. \A i \in 1 .. m : e.path[i] = d.path[i]
  BY DEF Lower
<1>4. p \in 1 .. n /\ lev[p] = H + 1 - m /\ k \in K[p] /\ lev[p] > 0 /\ m \in 1 .. m
  <2>1. m \in 1 .. m
    BY <1>1
  <2>2. p \in 1 .. n /\ lev[p] = H + 1 - m /\ k \in K[p]
    BY <1>2, <2>1
  <2>3. H + 1 - m > 0
    OBVIOUS
  <2> QED
    BY <2>1, <2>2, <2>3
<1>5. Link(V, lev, p, slot, id)
  <2>1. Link(V, lev, p, IF insert THEN InsertSlot(V[p], k) ELSE slot, id)
    BY DEF Lower
  <2>2. insert => InsertSlot(V[p], k) = slot
    <3> SUFFICES ASSUME insert PROVE InsertSlot(V[p], k) = slot
      OBVIOUS
    <3>1. k \in Nat /\ \A j \in 2 .. Len(V[p]) : V[p][j].key # k
      BY <1>4 DEF NoInner
    <3>2. V[p] \in Ents
      BY <1>4 DEF Known
    <3> HIDE DEF p
    <3> QED
      BY <3>1, <3>2, SameSlot
  <2> HIDE DEF p, slot, id
  <2> QED
    BY <2>1, <2>2
<1> HIDE DEF p, id, slot
<1>6. k \in K[id] /\ id \in 1 .. n /\ lev[id] = H + 1 - (m + 1)
  <2>1. id \in 1 .. n /\ lev[id] = H + 1 - (m + 1) /\ id # 0
    BY DEF id
  <2>2. Slot(V[p], K[p], slot) = Seen(K, 0, 0, id)
    BY <1>5 DEF Known
  <2>3. k \in Slot(V[p], K[p], slot)
    BY <1>4 DEF Slot, slot
  <2> QED
    BY <2>1, <2>2, <2>3 DEF Seen
<1>7. \A i \in 1 .. m + 1 : e.path[i] \in 1 .. n /\ lev[e.path[i]] = H + 1 - i /\ k \in K[e.path[i]]
  <2> SUFFICES ASSUME NEW i \in 1 .. m + 1
               PROVE  e.path[i] \in 1 .. n /\ lev[e.path[i]] = H + 1 - i /\ k \in K[e.path[i]]
    OBVIOUS
  <2>1. CASE i = m + 1
    BY <1>6, <2>1 DEF id
  <2>2. CASE i \in 1 .. m
    BY <1>2, <1>3, <2>2
  <2> QED
    BY <1>1, <2>1, <2>2
<1>8. \A i \in 1 .. m : Link(V, lev, e.path[i], SearchSlot(V[e.path[i]], k), e.path[i + 1])
  <2> SUFFICES ASSUME NEW i \in 1 .. m
               PROVE  Link(V, lev, e.path[i], SearchSlot(V[e.path[i]], k), e.path[i + 1])
    OBVIOUS
  <2>1. CASE i = m
    <3>1. e.path[i] = p /\ e.path[i + 1] = id
      BY <1>3, <1>4, <2>1 DEF p, id
    <3> QED
      BY <1>5, <3>1 DEF slot
  <2>2. CASE i \in 1 .. m - 1
    <3>1. e.path[i] = d.path[i] /\ e.path[i + 1] = d.path[i + 1]
      BY <1>3, <1>a, <2>2
    <3> QED
      BY <1>2, <2>2, <3>1
  <2> QED
    BY <1>1, <2>1, <2>2
<1> QED
  BY <1>7, <1>8 DEF Following

\* The slots that are taken lead to the leaf of k.
LEMMA DescentFollows ==
    ASSUME NEW b, NEW S, NEW lev, Descendable(b, S, lev), NEW K, NEW C \in Dicts,
           Keyed(Shown(b), b.cnt, b.head, lev, K, C, 0, 0), NEW k \in Int, NEW insert \in BOOLEAN,
           insert => k \in Nat /\ NoInner(Shown(b), b.cnt, lev, k)
    PROVE  LET d == Descend(b, k, insert)
           IN  /\ d \in Descents /\ Descending(b, S, lev, b.H, d)
               /\ Followed(Shown(b), b.cnt, lev, K, b.H, k, d.path) /\ d.path[1] = b.head
<1> DEFINE V == Shown(b)
           H == b.H
           N == b.cnt
           Q(n, d) == Descending(b, S, lev, n, d) /\ Following(V, N, lev, K, H, k, n, d.path)
           P == [n \in 0 .. H |-> {d \in Descents : Q(n, d)}]
<1>1. H \in Nat /\ H \in 0 .. H /\ 0 \in 0 .. H /\ \A n \in 1 .. H : n \in 0 .. H /\ n - 1 \in 0 .. H
  <2>1. b.H \in Nat
    BY LayerFacts DEF Descendable
  <2> HIDE DEF H
  <2>2. H \in Nat
    BY <2>1 DEF H
  <2> QED
    BY <2>2
<1>2. Known(V, N, b.head, lev, K, C, 0, 0) /\ TreeOf(b, lev, {})
  <2>1. Tree(Shown(b), b.cnt, b.head, b.H, lev, {})
    BY DEF Descendable, TreeOf
  <2>2. Known(Shown(b), b.cnt, b.head, lev, K, C, 0, 0)
    BY <2>1, KeyedFacts
  <2> QED
    BY <2>1, <2>2 DEF TreeOf
<1>3. Top(b) \in P[0]
  <2> DEFINE d == Top(b)
  <2>1. d \in Descents /\ Descending(b, S, lev, 0, d)
    BY TopFacts
  <2> HIDE DEF d
  <2>2. d.path[1] = b.head /\ \A i \in 1 .. 0 + 1 : i = 1 /\ d.path[i] \in 1 .. N /\ lev[d.path[i]] = H + 1 - i
    BY <2>1 DEF Descending
  <2>3. b.head # 0 /\ k \in K[b.head]
    <3>1. b.head \in 1 .. N /\ Seen(K, 0, 0, b.head) = Int
      BY <1>2 DEF Known
    <3>2. b.head # 0
      BY <3>1
    <3> QED
      BY <3>1, <3>2 DEF Seen
  <2>4. Following(V, N, lev, K, H, k, 0, d.path)
    <3>1. 1 .. 0 = {}
      OBVIOUS
    <3> QED
      BY <2>2, <2>3, <3>1 DEF Following
  <2> QED
    BY <1>1, <2>1, <2>4 DEF d
<1>4. ASSUME NEW n \in 1 .. H, NEW d \in P[n - 1] PROVE Down(d, k, insert) \in P[n]
  <2> DEFINE e == Down(d, k, insert)
  <2>1. d \in Descents /\ Descending(b, S, lev, n - 1, d) /\ Following(V, N, lev, K, H, k, n - 1, d.path)
    BY <1>1, <1>4
  <2>2. e \in Descents /\ Descending(b, S, lev, n, e) /\ Lower(V, lev, k, insert, n, d, e)
    <3>1. LET c == Down(d, k, insert)
          IN  c \in Descents /\ Descending(b, S, lev, n, c) /\ Lower(Shown(b), lev, k, insert, n, d, c)
      BY <2>1, DownFacts
    <3> QED
      BY <3>1
  <2> HIDE DEF e
  <2>3. e.path[n + 1] \in 1 .. N /\ lev[e.path[n + 1]] = H + 1 - (n + 1)
    <3>1. n + 1 \in 1 .. n + 1
      BY <1>1
    <3> QED
      BY <2>2, <3>1 DEF Descending
  <2> HIDE DEF V, N, H
  <2>4. insert => k \in Nat /\ NoInner(V, N, lev, k)
    BY DEF V, N
  <2>5. Following(V, N, lev, K, H, k, n, e.path)
    BY <1>1, <1>2, <2>1, <2>2, <2>3, <2>4, FollowDown
  <2> QED
    BY <1>1, <2>2, <2>5 DEF e
<1> HIDE DEF P
<1>5. Descend(b, k, insert) \in P[b.H]
  BY <1>1, <1>3, <1>4, DescentInduction
<1> DEFINE d == Descend(b, k, insert)
<1>6. d \in Descents /\ Descending(b, S, lev, H, d) /\ Following(V, N, lev, K, H, k, H, d.path)
  BY <1>1, <1>5 DEF P
<1> HIDE DEF d
<1>7. Followed(V, N, lev, K, H, k, d.path) /\ d.path[1] = b.head
  BY <1>1, <1>6 DEF Followed, Following, Descending
<1> QED
  BY <1>6, <1>7 DEF d

-----------------------------------------------------------------------------
(* The way back: the dictionary is that of the leaves as soon as the leaf  *)
(* has the entry, and what is split off below has no link yet.             *)

Clear(V, lev, K, k, p) == k \in K[p] /\ (lev[p] > 0 => \A j \in 2 .. Len(V[p]) : V[p][j].key # k)

Placing(b, path, k, v, C, lev, n, a, K) ==
    LET V == Shown(a.b)
        N == a.b.cnt
        c == IF n = 0 THEN C ELSE [C EXCEPT ![k] = v]
        s == path[b.H + 2 - n]
        o == a.up[1].val
    IN  /\ a.up = <<>> \/ n = 0 => Keyed(V, N, b.head, lev, K, c, 0, 0)
        /\ n = 0 => a.up = <<Entry(k, v)>>
        /\ a.up # <<>> /\ n > 0 => /\ Keyed(V, N, b.head, lev, K, c, s, o)
                                   /\ SplitOff(N, lev, K, c, s, o, a.up[1].key)
                                   /\ k \in K[s] \cup K[o]
        /\ \A i \in 1 .. b.H + 1 - n : Clear(V, lev, K, k, path[i])

\* What a step adds to the block p.
Put1(b, path, k, v, C, lev, n, a, p, ents) ==
    LET V == Shown(a.b)
    IN  /\ ents \in Ents
        /\ \E K : /\ Keyed([V EXCEPT ![p] = ents], a.b.cnt, b.head, lev, K, [C EXCEPT ![k] = v], 0, 0)
                  /\ \A i \in 1 .. b.H + 2 - n : Clear(V, lev, K, k, path[i])

LEMMA PlacedHere ==
    ASSUME NEW b, NEW path, NEW S, NEW lev, PathOf(b, path, S), NEW n \in 1 .. b.H + 1,
           NEW a \in Ascents, Rising(b, path, S, lev, n - 1, a), a.up # <<>>,
           NEW k \in Key, NEW v \in Val, NEW C \in Dicts, NEW K, Placing(b, path, k, v, C, lev, n - 1, a, K),
           NEW p, p = path[b.H + 2 - n], NEW ents, ents = Added(Shown(a.b)[p], k, a.up[1], n = 1)
    PROVE  Put1(b, path, k, v, C, lev, n, a, p, ents)
<1> DEFINE V == Shown(a.b)
           N == a.b.cnt
           c == [C EXCEPT ![k] = v]
           H == b.H
           x == a.up[1]
<1>1. /\ H \in Nat /\ n \in Nat /\ n - 1 \in Nat /\ H + 2 - n \in 1 .. H + 1 /\ n >= 1
      /\ H + 1 - (H + 2 - n) = n - 1 /\ H + 1 - (n - 1) = H + 2 - n
      /\ H + 2 - n \in 1 .. H + 2 - n
  <2>1. H \in Nat /\ n \in 1 .. H + 1
    BY DEF PathOf
  <2> HIDE DEF H
  <2> QED
    BY <2>1
<1>2. /\ a.b.head = b.head /\ a.b.H = H
      /\ \A i \in 1 .. H + 1 : path[i] \in 1 .. N /\ lev[path[i]] = H + 1 - i
  BY DEF Rising
<1>3. p \in 1 .. N /\ lev[p] = n - 1
  BY <1>1, <1>2
<1>4. \A i \in 1 .. H + 2 - n : Clear(V, lev, K, k, path[i])
  <2>1. \A i \in 1 .. b.H + 1 - (n - 1) : Clear(Shown(a.b), lev, K, k, path[i])
    BY DEF Placing
  <2> QED
    BY <1>1, <2>1
<1>5. Clear(V, lev, K, k, p)
  <2>1. p = path[H + 2 - n]
    OBVIOUS
  <2> HIDE DEF H, V
  <2> QED
    BY <1>1, <1>4, <2>1
<1>6. x \in Item /\ Len(a.up) = 1
  <2>1. a.up \in Seq(Item) /\ Len(a.up) = 1
    BY DEF Ascents, Rising, Lifted
  <2> QED
    BY <2>1
<1>7. c \in Dicts
  BY DictPut
<1>8. CASE n = 1
  <2>1. n - 1 = 0
    BY <1>8
  <2>2. Keyed(Shown(a.b), a.b.cnt, b.head, lev, K, C, 0, 0) /\ a.up = <<Entry(k, v)>>
    BY <2>1 DEF Placing
  <2>3. TreeOf(a.b, lev, {})
    BY <2>1 DEF Rising, Lifted
  <2>4. Tree(V, N, b.head, H, lev, {}) /\ Keyed(V, N, b.head, lev, K, C, 0, 0)
    BY <1>2, <2>2, <2>3 DEF TreeOf
  <2>5. x = Entry(k, v)
    BY <2>2
  <2>6. ents = Added(V[p], k, Entry(k, v), TRUE)
    <3>1. (n = 1) = TRUE
      BY <1>8
    <3> QED
      BY <2>5, <3>1
  <2>7. lev[p] = 0 /\ k \in K[p]
    BY <1>3, <1>5, <2>1 DEF Clear
  <2> HIDE DEF V, N, H, x
  <2>8. LET e == Added(V[p], k, Entry(k, v), TRUE)
            d == [C EXCEPT ![k] = v]
        IN  d \in Dicts /\ e \in Ents /\ Keyed([V EXCEPT ![p] = e], N, b.head, lev, K, d, 0, 0)
    BY <1>3, <2>4, <2>7, LeafPut
  <2>9. ents \in Ents /\ Keyed([V EXCEPT ![p] = ents], N, b.head, lev, K, c, 0, 0)
    BY <2>6, <2>8
  <2> QED
    BY <1>4, <2>9 DEF Put1, V, N, H
<1>9. CASE n # 1
  <2>1. n - 1 > 0 /\ n - 1 # 0
    BY <1>1, <1>9
  <2> DEFINE s == path[b.H + 2 - (n - 1)]
             o == x.val
  <2>2. /\ Keyed(V, N, b.head, lev, K, c, s, o)
        /\ SplitOff(N, lev, K, c, s, o, x.key)
        /\ k \in K[s] \cup K[o]
    BY <2>1 DEF Placing
  <2>3. TreeOf(a.b, lev, {o})
    BY <2>1 DEF Rising, Lifted
  <2>4. Tree(V, N, b.head, H, lev, {o})
    BY <1>2, <2>3 DEF TreeOf
  <2>5. lev[s] = lev[p] - 1
    <3>1. H + 2 - (n - 1) \in 1 .. H + 1 /\ H + 1 - (H + 2 - (n - 1)) = (n - 1) - 1
      <4> HIDE DEF H
      <4> QED
        BY <1>1, <2>1
    <3> QED
      BY <1>2, <1>3, <3>1
  <2>6. ents = Added(V[p], k, x, FALSE)
    <3>1. (n = 1) = FALSE
      BY <1>9
    <3> QED
      BY <3>1
  <2>7. lev[p] > 0 /\ k \in K[p] /\ \A i \in 2 .. Len(V[p]) : V[p][i].key # k
    BY <1>3, <1>5, <2>1 DEF Clear
  <2>b. x.val = o
    OBVIOUS
  <2> HIDE DEF V, N, H, x, s, o, c
  <2>8. LET e == Added(V[p], k, x, FALSE)
        IN  e \in Ents /\ Keyed([V EXCEPT ![p] = e], N, b.head, lev, K, c, 0, 0)
    BY <1>3, <1>6, <1>7, <2>2, <2>4, <2>5, <2>7, <2>b, LinkPut, ZenonT(60)
  <2>9. ents \in Ents /\ Keyed([V EXCEPT ![p] = ents], N, b.head, lev, K, c, 0, 0)
    BY <2>6, <2>8
  <2> QED
    BY <1>4, <2>9 DEF Put1, V, N, H, c
<1> QED
  BY <1>8, <1>9

LEMMA PlacedClimb ==
    ASSUME NEW b, NEW path, NEW S, NEW lev, PathOf(b, path, S), NEW n \in 1 .. b.H + 1,
           NEW a \in Ascents, Rising(b, path, S, lev, n - 1, a),
           NEW k \in Key, NEW v \in Val, NEW C \in Dicts, NEW K, Placing(b, path, k, v, C, lev, n - 1, a, K),
           NEW l, NEW d \in Ascents, Rising(b, path, S, l, n, d),
           Climbed(lev, path[b.H + 2 - n], k, n = 1, a, l, d)
    PROVE  \E K2 : Placing(b, path, k, v, C, l, n, d, K2)
<1> DEFINE V == Shown(a.b)
           N == a.b.cnt
           c == [C EXCEPT ![k] = v]
           H == b.H
           p == path[b.H + 2 - n]
           ents == Added(Shown(a.b)[p], k, a.up[1], n = 1)
           W == [V EXCEPT ![p] = ents]
<1>1. /\ H \in Nat /\ n \in Nat /\ n - 1 \in Nat /\ H + 2 - n \in 1 .. H + 1 /\ n >= 1 /\ n > 0 /\ n # 0
      /\ H + 1 - (H + 2 - n) = n - 1 /\ H + 1 - (n - 1) = H + 2 - n
      /\ H + 2 - n \in 1 .. H + 2 - n
      /\ \A i \in 1 .. H + 1 - n : i \in 1 .. H + 2 - n /\ i \in 1 .. H + 1 /\ H + 1 - i # n - 1
  <2>1. H \in Nat /\ n \in 1 .. H + 1
    BY DEF PathOf
  <2> HIDE DEF H
  <2> QED
    BY <2>1
<1>2. /\ a.b.head = b.head /\ a.b.H = H
      /\ \A i \in 1 .. H + 1 : path[i] \in 1 .. N /\ lev[path[i]] = H + 1 - i
  BY DEF Rising
<1>3. p \in 1 .. N /\ lev[p] = n - 1
  BY <1>1, <1>2
<1>4. \A i \in 1 .. H + 1 - n : path[i] \in 1 .. N /\ path[i] # p
  BY <1>1, <1>2, <1>3
<1>5. CASE a.up = <<>>
  <2>1. d = a /\ l = lev
    BY <1>5 DEF Climbed
  <2>2. n - 1 > 0 /\ n - 1 # 0
    BY <1>1, <1>5 DEF Rising, Lifted
  <2>3. /\ Keyed(Shown(a.b), a.b.cnt, b.head, lev, K, [C EXCEPT ![k] = v], 0, 0)
        /\ \A i \in 1 .. b.H + 1 - (n - 1) : Clear(Shown(a.b), lev, K, k, path[i])
    BY <1>5, <2>2 DEF Placing
  <2>4. \A i \in 1 .. b.H + 1 - n : Clear(Shown(a.b), lev, K, k, path[i])
    BY <1>1, <2>3
  <2>5. Placing(b, path, k, v, C, l, n, d, K)
    BY <1>1, <1>5, <2>1, <2>3, <2>4 DEF Placing
  <2> QED
    BY <2>5
<1>6. CASE a.up # <<>>
  <2>1. Put1(b, path, k, v, C, lev, n, a, p, ents)
    BY <1>6, PlacedHere
  <2>2. /\ Tree(W, N, b.head, H, lev, {})
        /\ \/ d.up = <<>> /\ l = lev /\ d.b.cnt = N /\ Shown(d.b) = W
           \/ /\ d.up # <<>> /\ l = Longer(lev, N, lev[p]) /\ d.b.cnt = N + 1
              /\ d.up[1].val = N + 1
              /\ \E m, f, e : /\ Halves(ents, m, f, e) /\ d.up[1].key = e[1].key
                              /\ Shown(d.b) = Longer([W EXCEPT ![p] = f], N, e)
    BY <1>2, <1>6 DEF Climbed
  <2> HIDE DEF ents, p
  <2>3. ents \in Ents /\ \E K1 : /\ Keyed(W, N, b.head, lev, K1, c, 0, 0)
                                 /\ \A i \in 1 .. H + 2 - n : Clear(V, lev, K1, k, path[i])
    BY <2>1 DEF Put1
  <2>4. PICK K1 : /\ Keyed(W, N, b.head, lev, K1, c, 0, 0)
                  /\ \A i \in 1 .. H + 2 - n : Clear(V, lev, K1, k, path[i])
    BY <2>3
  <2>5. W[p] = ents /\ \A i \in 1 .. H + 1 - n : W[path[i]] = V[path[i]]
    <3>1. DOMAIN V = 1 .. N
      BY DEF Shown
    <3> QED
      BY <1>3, <1>4, <3>1
  <2>6. \A i \in 1 .. H + 1 - n : Clear(W, lev, K1, k, path[i])
    BY <1>1, <2>4, <2>5 DEF Clear
  <2>7. k \in K1[p]
    BY <1>1, <2>4 DEF Clear, p
  <2>8. c \in Dicts
    BY DictPut
  <2> HIDE DEF W
  <2>9. CASE d.up = <<>> /\ l = lev /\ d.b.cnt = N /\ Shown(d.b) = W
    <3>1. Placing(b, path, k, v, C, l, n, d, K1)
      BY <1>1, <2>4, <2>6, <2>9 DEF Placing
    <3> QED
      BY <3>1
  <2>10. CASE /\ d.up # <<>> /\ l = Longer(lev, N, lev[p]) /\ d.b.cnt = N + 1
              /\ d.up[1].val = N + 1
              /\ \E m, f, e : /\ Halves(ents, m, f, e) /\ d.up[1].key = e[1].key
                              /\ Shown(d.b) = Longer([W EXCEPT ![p] = f], N, e)
    <3>1. PICK m, f, e : /\ Halves(ents, m, f, e) /\ d.up[1].key = e[1].key
                         /\ Shown(d.b) = Longer([W EXCEPT ![p] = f], N, e)
      BY <2>10
    <3> DEFINE X == Longer([W EXCEPT ![p] = f], N, e)
    <3>a. l = Longer(lev, N, lev[p]) /\ d.b.cnt = N + 1 /\ d.up[1].val = N + 1 /\ d.up # <<>>
      BY <2>10
    <3>2. Halves(W[p], m, f, e)
      BY <2>5, <3>1
    <3> HIDE DEF V, N, H, c
    <3>3. \E K2 : /\ Keyed(X, N + 1, b.head, Longer(lev, N, lev[p]), K2, c, p, N + 1)
                  /\ SplitOff(N + 1, Longer(lev, N, lev[p]), K2, c, p, N + 1, e[1].key)
                  /\ (\A q \in 1 .. N : q # p => K2[q] = K1[q]) /\ K2[p] \cup K2[N + 1] = K1[p]
      <4> HIDE DEF X
      <4>1. X = Longer([W EXCEPT ![p] = f], N, e)
        BY DEF X
      <4>2. Tree(W, N, b.head, H, lev, {}) /\ Keyed(W, N, b.head, lev, K1, c, 0, 0)
        BY <2>2, <2>4
      <4> HIDE DEF W, ents, p
      <4>3. \E K2 : /\ Keyed(Longer([W EXCEPT ![p] = f], N, e), N + 1, b.head, Longer(lev, N, lev[p]), K2, c, p, N + 1)
                    /\ SplitOff(N + 1, Longer(lev, N, lev[p]), K2, c, p, N + 1, e[1].key)
                    /\ (\A q \in 1 .. N : q # p => K2[q] = K1[q]) /\ K2[p] \cup K2[N + 1] = K1[p]
        BY <1>3, <2>8, <3>2, <4>2, Halved
      <4> QED
        BY <4>1, <4>3
    <3>4. PICK K2 : /\ Keyed(X, N + 1, b.head, l, K2, c, p, N + 1)
                    /\ SplitOff(N + 1, l, K2, c, p, N + 1, e[1].key)
                    /\ (\A q \in 1 .. N : q # p => K2[q] = K1[q]) /\ K2[p] \cup K2[N + 1] = K1[p]
      BY <3>3, <3>a
    <3>5. N \in Nat
      BY <2>2 DEF Tree, TreeTypes
    <3>6. ASSUME NEW i \in 1 .. H + 1 - n PROVE Clear(X, l, K2, k, path[i])
      <4> DEFINE q == path[i]
      <4>1. q \in 1 .. N /\ q # p /\ Clear(W, lev, K1, k, q)
        BY <1>4, <2>6
      <4> HIDE DEF q
      <4>2. X[q] = [W EXCEPT ![p] = f][q] /\ l[q] = lev[q]
        <5> DEFINE Z == [W EXCEPT ![p] = f]
        <5>1. q \in 1 .. N + 1 /\ q # N + 1
          BY <3>5, <4>1
        <5>2. X = Longer(Z, N, e)
          OBVIOUS
        <5> HIDE DEF X, Z
        <5>3. X[q] = Z[q]
          BY <5>1, <5>2 DEF Longer
        <5>4. l[q] = lev[q]
          BY <3>a, <5>1 DEF Longer
        <5> QED
          BY <5>3, <5>4 DEF Z
      <4>3. [W EXCEPT ![p] = f][q] = W[q]
        <5>1. DOMAIN W = 1 .. N
          BY <2>2 DEF Tree, TreeTypes
        <5> QED
          BY <4>1, <5>1
      <4>4. K2[q] = K1[q]
        BY <3>4, <4>1
      <4> HIDE DEF X
      <4>5. Clear(X, l, K2, k, q)
        BY <4>1, <4>2, <4>3, <4>4 DEF Clear
      <4> QED
        BY <4>5 DEF q
    <3> HIDE DEF X
    <3>7. Shown(d.b) = X
      BY <3>1 DEF X
    <3>8. /\ Keyed(Shown(d.b), d.b.cnt, b.head, l, K2, [C EXCEPT ![k] = v], path[b.H + 2 - n], d.up[1].val)
          /\ SplitOff(d.b.cnt, l, K2, [C EXCEPT ![k] = v], path[b.H + 2 - n], d.up[1].val, d.up[1].key)
          /\ k \in K2[path[b.H + 2 - n]] \cup K2[d.up[1].val]
      BY <2>7, <3>1, <3>4, <3>7, <3>a DEF p, c
    <3>9. \A i \in 1 .. b.H + 1 - n : Clear(Shown(d.b), l, K2, k, path[i])
      BY <3>6, <3>7 DEF H
    <3>10. Placing(b, path, k, v, C, l, n, d, K2)
      BY <1>1, <3>8, <3>9, <3>a DEF Placing
    <3> QED
      BY <3>10
  <2> QED
    BY <2>2, <2>9, <2>10
<1> QED
  BY <1>5, <1>6

\* The tree that insertR() leaves, with the block that was split off the root.
PlacedInto(c, lev, a, K) ==
    /\ a.up = <<>> => Keyed(Shown(a.b), a.b.cnt, a.b.head, lev, K, c, 0, 0)
    /\ a.up # <<>> =>
          /\ Keyed(Shown(a.b), a.b.cnt, a.b.head, lev, K, c, a.b.head, a.up[1].val)
          /\ SplitOff(a.b.cnt, lev, K, c, a.b.head, a.up[1].val, a.up[1].key)

LEMMA StartPlaced ==
    ASSUME NEW b, NEW S, NEW lev, NEW K, NEW C,
           Keyed(Shown(b), b.cnt, b.head, lev, K, C, 0, 0),
           NEW k, NEW v, NoInner(Shown(b), b.cnt, lev, k),
           NEW d, AscentStart(b, S, lev, k, v, d), Followed(Shown(b), b.cnt, lev, K, b.H, k, d.path)
    PROVE  Placing(d.b, d.path, k, v, C, lev, 0, [b |-> d.b, up |-> <<Entry(k, v)>>], K)
<1> DEFINE a == [b |-> d.b, up |-> <<Entry(k, v)>>]
           g == d.b
           path == d.path
<1>1. Shown(g) = Shown(b) /\ g.cnt = b.cnt /\ g.head = b.head /\ g.H = b.H
  BY DEF AscentStart, Shows
<1>2. a.b = g /\ a.up = <<Entry(k, v)>>
  OBVIOUS
<1> HIDE DEF a, g
<1>3. b.H \in Nat /\ b.H + 1 - 0 = b.H + 1
  <2> DEFINE h == b.H
  <2>1. h \in Nat
    BY DEF Followed
  <2> HIDE DEF h
  <2>2. h + 1 - 0 = h + 1
    BY <2>1
  <2> QED
    BY <2>1, <2>2 DEF h
<1>4. \A i \in 1 .. b.H + 1 : Clear(Shown(b), lev, K, k, path[i])
  <2> SUFFICES ASSUME NEW i \in 1 .. b.H + 1 PROVE Clear(Shown(b), lev, K, k, path[i])
    OBVIOUS
  <2>1. path[i] \in 1 .. b.cnt /\ k \in K[path[i]]
    BY DEF Followed
  <2> HIDE DEF path
  <2> QED
    BY <2>1 DEF Clear, NoInner
<1>5. \A i \in 1 .. g.H + 1 - 0 : Clear(Shown(a.b), lev, K, k, path[i])
  BY <1>1, <1>2, <1>3, <1>4
<1>6. Keyed(Shown(a.b), a.b.cnt, g.head, lev, K, C, 0, 0)
  BY <1>1, <1>2
<1> HIDE DEF path
<1>7. Placing(g, path, k, v, C, lev, 0, a, K)
  BY <1>2, <1>5, <1>6 DEF Placing
<1> QED
  BY <1>7 DEF a, g, path

LEMMA EndPlaced ==
    ASSUME NEW b, NEW g, Shows(b, g), NEW path, NEW S, PathOf(g, path, S),
           NEW k, NEW v, NEW C, NEW lev, NEW K, NEW a,
           Placing(g, path, k, v, C, lev, g.H + 1, a, K), Rising(g, path, S, lev, g.H + 1, a)
    PROVE  PlacedInto([C EXCEPT ![k] = v], lev, a, K)
<1> DEFINE n == g.H + 1
           c == [C EXCEPT ![k] = v]
<1>1. n > 0 /\ n # 0 /\ g.H + 2 - n = 1
  <2> DEFINE h == g.H
  <2>1. h \in Nat
    BY DEF PathOf
  <2> HIDE DEF h
  <2>2. h + 1 > 0 /\ h + 1 # 0 /\ h + 2 - (h + 1) = 1
    BY <2>1
  <2> QED
    BY <2>2 DEF h
<1>2. path[1] = g.head /\ a.b.head = g.head
  BY DEF PathOf, Rising
<1> HIDE DEF n
<1>3. Placing(g, path, k, v, C, lev, n, a, K)
  BY DEF n
<1>4. a.up = <<>> => Keyed(Shown(a.b), a.b.cnt, a.b.head, lev, K, c, 0, 0)
  BY <1>1, <1>2, <1>3 DEF Placing
<1>5. a.up # <<>> => /\ Keyed(Shown(a.b), a.b.cnt, a.b.head, lev, K, c, a.b.head, a.up[1].val)
                     /\ SplitOff(a.b.cnt, lev, K, c, a.b.head, a.up[1].val, a.up[1].key)
  BY <1>1, <1>2, <1>3 DEF Placing
<1> QED
  BY <1>4, <1>5 DEF PlacedInto

LEMMA InsertPlaces ==
    ASSUME NEW b, NEW S, NEW lev, Descendable(b, S, lev), NEW K, NEW C \in Dicts,
           Keyed(Shown(b), b.cnt, b.head, lev, K, C, 0, 0), NEW k \in Key, NEW v \in Val,
           NoInner(Shown(b), b.cnt, lev, k)
    PROVE  LET a == Inserted(b, k, v)
           IN  \E l, K2 : InsertedInto(b, l, a) /\ PlacedInto([C EXCEPT ![k] = v], l, a, K2)
<1> DEFINE d == Descend(b, k, TRUE)
           g == d.b
           path == d.path
           N == g.H + 1
           Step(n, a) == Climb(a, path[N + 1 - n], k, n = 1)
           first == [b |-> g, up |-> <<Entry(k, v)>>]
           Good(n, a) == \E l, K1 : Rising(g, path, S, l, n, a) /\ Placing(g, path, k, v, C, l, n, a, K1)
           P == [n \in 0 .. N |-> {a \in Ascents : Good(n, a)}]
<1>1. AscentStart(b, S, lev, k, v, d)
  BY AscentStarts
<1>2. Followed(Shown(b), b.cnt, lev, K, b.H, k, d.path)
  <2>1. k \in Int /\ k \in Nat /\ TRUE \in BOOLEAN
    BY KeyIsNat
  <2> QED
    BY <2>1, DescentFollows
<1> HIDE DEF d
<1>3. /\ PathOf(g, path, S) /\ Shows(b, g) /\ b.H \in Nat
      /\ first \in Ascents /\ Rising(g, path, S, lev, 0, first)
  BY <1>1 DEF AscentStart
<1>4. Placing(g, path, k, v, C, lev, 0, first, K)
  BY <1>1, <1>2, StartPlaced
<1> HIDE DEF g, path
<1>5. N \in Nat /\ Len(path) = N /\ 0 \in 0 .. N /\ N \in 0 .. N
      /\ \A n \in 1 .. N : n - 1 \in 0 .. N /\ n \in 0 .. N /\ n # 0
  BY <1>3 DEF PathOf
<1>6. first \in P[0]
  <2>1. Good(0, first)
    BY <1>3, <1>4
  <2> HIDE DEF Good, first
  <2> QED
    BY <1>3, <1>5, <2>1
<1>7. ASSUME NEW n \in 1 .. N, NEW a \in P[n - 1] PROVE Step(n, a) \in P[n]
  <2>1. a \in Ascents /\ Good(n - 1, a)
    <3> HIDE DEF Good
    <3> QED
      BY <1>5
  <2>2. PICK l, K1 : Rising(g, path, S, l, n - 1, a) /\ Placing(g, path, k, v, C, l, n - 1, a, K1)
    BY <2>1
  <2>3. g.H + 2 - n = N + 1 - n
    <3> DEFINE h == g.H
    <3>1. h \in Nat /\ n \in 1 .. h + 1
      BY <1>3 DEF PathOf
    <3> HIDE DEF h
    <3>2. h + 2 - n = (h + 1) + 1 - n
      BY <3>1
    <3> QED
      BY <3>2 DEF h
  <2> DEFINE c == Climb(a, path[g.H + 2 - n], k, n = 1)
  <2>4. c \in Ascents /\ \E m : /\ Rising(g, path, S, m, n, c)
                                /\ Climbed(l, path[g.H + 2 - n], k, n = 1, a, m, c)
    BY <1>3, <2>1, <2>2, ClimbFacts
  <2> HIDE DEF c
  <2>5. PICK m : Rising(g, path, S, m, n, c) /\ Climbed(l, path[g.H + 2 - n], k, n = 1, a, m, c)
    BY <2>4
  <2>6. n \in 1 .. g.H + 1
    OBVIOUS
  <2>7. \E K2 : Placing(g, path, k, v, C, m, n, c, K2)
    <3> HIDE DEF N, P, Good
    <3> QED
      BY <1>3, <2>1, <2>2, <2>4, <2>5, <2>6, PlacedClimb
  <2>8. Good(n, c)
    BY <2>5, <2>7
  <2> HIDE DEF Good
  <2>9. c \in P[n]
    BY <1>5, <2>4, <2>8
  <2>10. c = Step(n, a)
    BY <2>3 DEF c
  <2> QED
    BY <2>9, <2>10
<1>8. \A n \in 1 .. N : \A a \in P[n - 1] : Step(n, a) \in P[n]
  BY <1>7
<1> HIDE DEF P, N, first
<1>9. Ascent(d, k, v)[N] \in P[N]
  BY <1>5, <1>6, <1>8, AscentInduction DEF first, path, g
<1>10. Inserted(b, k, v) = Ascent(d, k, v)[N]
  BY <1>5 DEF Inserted, d, path
<1> DEFINE a == Ascent(d, k, v)[N]
<1> HIDE DEF a
<1>11. a \in Ascents /\ Good(N, a)
  <2> HIDE DEF Good
  <2>1. a \in P[N]
    BY <1>9 DEF a
  <2> QED
    BY <1>5, <2>1 DEF P
<1>12. PICK l, K1 : Rising(g, path, S, l, N, a) /\ Placing(g, path, k, v, C, l, N, a, K1)
  BY <1>11
<1> HIDE DEF Good
<1>13. Rising(g, path, S, l, g.H + 1, a) /\ Placing(g, path, k, v, C, l, g.H + 1, a, K1)
  BY <1>12 DEF N
<1>14. InsertedInto(b, l, a)
  BY <1>3, <1>11, <1>13, AscentEnds
<1>15. PlacedInto([C EXCEPT ![k] = v], l, a, K1)
  BY <1>3, <1>13, EndPlaced
<1> QED
  BY <1>10, <1>14, <1>15 DEF a

\* Btree.store() without what it drops from the memory.
LEMMA StorePlaces ==
    ASSUME NEW b, NEW S, NEW lev, Descendable(b, S, lev), NEW K, NEW C \in Dicts,
           Keyed(Shown(b), b.cnt, b.head, lev, K, C, 0, 0), NEW k \in Key, NEW v \in Val,
           NoInner(Shown(b), b.cnt, lev, k)
    PROVE  LET a == Inserted(b, k, v)
               h == Storing(a)
           IN  /\ \E l : InsertedInto(b, l, a)
               /\ \E l, K2 : /\ TreeOf(h, l, {})
                             /\ Keyed(Shown(h), h.cnt, h.head, l, K2, [C EXCEPT ![k] = v], 0, 0)
<1> DEFINE a == Inserted(b, k, v)
           h == Storing(a)
           c == [C EXCEPT ![k] = v]
           Good == \E l, K2 : TreeOf(h, l, {}) /\ Keyed(Shown(h), h.cnt, h.head, l, K2, c, 0, 0)
<1>1. PICK l, K1 : InsertedInto(b, l, a) /\ PlacedInto(c, l, a, K1)
  BY InsertPlaces
<1>2. c \in Dicts
  BY DictPut
<1> HIDE DEF a, c
<1>3. CASE a.up = <<>>
  <2>1. h = a.b
    BY <1>3 DEF Storing
  <2>2. TreeOf(a.b, l, {}) /\ Keyed(Shown(a.b), a.b.cnt, a.b.head, l, K1, c, 0, 0)
    BY <1>1, <1>3 DEF InsertedInto, PlacedInto
  <2>3. Good
    BY <2>1, <2>2
  <2> QED
    BY <1>1, <2>3 DEF a, c
<1>4. CASE a.up # <<>>
  <2> DEFINE g == a.b
             x == a.up[1]
             V == Shown(g)
  <2>1. h = NewHead(g, x)
    BY <1>4 DEF Storing
  <2>2. Headed(g, x, l, h)
    BY <1>1, <1>4, <2>1, NewHeadFacts
  <2>3. /\ g.head = b.head /\ g.H = b.H /\ TreeOf(g, l, {x.val}) /\ l[x.val] = b.H
        /\ BlockOf(g, b.head) # <<>> /\ a \in Ascents /\ Len(a.up) = 1
    BY <1>1, <1>4 DEF InsertedInto
  <2>4. /\ Keyed(V, g.cnt, g.head, l, K1, c, g.head, x.val)
        /\ SplitOff(g.cnt, l, K1, c, g.head, x.val, x.key)
    BY <1>1, <1>4 DEF PlacedInto
  <2>5. x \in Item
    <3>1. a.up \in Seq(Item) /\ Len(a.up) = 1
      BY <2>3 DEF Ascents
    <3> QED
      BY <3>1
  <2>6. Tree(V, g.cnt, g.head, g.H, l, {x.val})
    BY <2>3 DEF TreeOf
  <2>7. V[g.head] # <<>>
    <3>1. g.head \in 1 .. g.cnt
      BY <2>6 DEF Tree, TreeTypes
    <3> QED
      BY <2>3, <3>1 DEF Shown
  <2> DEFINE o == x.val
             lv == Longer(l, g.cnt, g.H + 1)
  <2>8. PICK e \in Ents : /\ Len(e) = 2 /\ e[1].val = g.head /\ e[1].key = V[g.head][1].key
                          /\ e[2] = x /\ Shown(h) = Longer(V, g.cnt, e)
    BY <2>2 DEF Headed
  <2>9. h.cnt = g.cnt + 1 /\ h.head = g.cnt + 1 /\ TreeOf(h, lv, {})
    BY <2>2 DEF Headed
  <2>a. x.val = o
    OBVIOUS
  <2> HIDE DEF h, g, V, x, o
  <2>10. \E K2 : Keyed(Longer(V, g.cnt, e), g.cnt + 1, g.cnt + 1, lv, K2, c, 0, 0)
    BY <1>2, <2>4, <2>5, <2>6, <2>7, <2>8, <2>a, Rooted
  <2> HIDE DEF lv
  <2>11. \E K2 : Keyed(Shown(h), h.cnt, h.head, lv, K2, c, 0, 0)
    BY <2>8, <2>9, <2>10
  <2>12. Good
    BY <2>9, <2>11
  <2> QED
    BY <1>1, <2>12 DEF a, c, h
<1> QED
  BY <1>3, <1>4

-----------------------------------------------------------------------------
(* The dictionary of a Btree, from call to call. *)

Dict(b, C) ==
    /\ C \in Dicts
    /\ b.head = 0 => \A k \in Key : C[k] = Nil
    /\ b.head # 0 => \E k \in Key : C[k] # Nil
    /\ b.head # 0 => \E lev, K : TreeOf(b, lev, {}) /\ Keyed(Shown(b), b.cnt, b.head, lev, K, C, 0, 0)

\* The call store() of k does not meet k in an inner block.
Free(b, C, k) ==
    \A lev, K : b.head # 0 /\ TreeOf(b, lev, {}) /\ Keyed(Shown(b), b.cnt, b.head, lev, K, C, 0, 0)
                   => NoInner(Shown(b), b.cnt, lev, k)

LEMMA DictSame ==
    ASSUME NEW b, NEW g, Shows(b, g), NEW C, Dict(b, C)
    PROVE  Dict(g, C)
<1>1. Shown(g) = Shown(b) /\ g.cnt = b.cnt /\ g.head = b.head /\ g.H = b.H
  BY DEF Shows
<1>2. C \in Dicts /\ (g.head = 0 => \A k \in Key : C[k] = Nil) /\ (g.head # 0 => \E k \in Key : C[k] # Nil)
  BY <1>1 DEF Dict
<1>3. ASSUME g.head # 0
      PROVE  \E lev, K : TreeOf(g, lev, {}) /\ Keyed(Shown(g), g.cnt, g.head, lev, K, C, 0, 0)
  <2>1. PICK lev, K : TreeOf(b, lev, {}) /\ Keyed(Shown(b), b.cnt, b.head, lev, K, C, 0, 0)
    BY <1>1, <1>3 DEF Dict
  <2>2. TreeOf(g, lev, {}) /\ Keyed(Shown(g), g.cnt, g.head, lev, K, C, 0, 0)
    BY <1>1, <2>1 DEF TreeOf
  <2> QED
    BY <2>2
<1> QED
  BY <1>2, <1>3 DEF Dict

\* A key that is not stored is in no inner block.
LEMMA FreeNil ==
    ASSUME NEW b, NEW C, C \in Dicts, NEW k, C[k] = Nil
    PROVE  Free(b, C, k)
<1> SUFFICES ASSUME NEW lev, NEW K, Keyed(Shown(b), b.cnt, b.head, lev, K, C, 0, 0)
             PROVE  NoInner(Shown(b), b.cnt, lev, k)
  BY DEF Free
<1> DEFINE V == Shown(b)
<1>1. \A p \in 1 .. b.cnt : lev[p] > 0 => InnerIs(V[p], K[p], C)
  BY DEF Keyed, Ordered
<1> HIDE DEF V
<1> SUFFICES ASSUME NEW p \in 1 .. b.cnt, lev[p] > 0, NEW j \in 2 .. Len(V[p]) PROVE V[p][j].key # k
  BY DEF NoInner, V
<1>2. \A i \in 1 .. Len(V[p]) : C[V[p][i].key] # Nil
  BY <1>1 DEF InnerIs
<1>3. j \in 1 .. Len(V[p])
  OBVIOUS
<1> QED
  BY <1>2, <1>3

\* The tree of one empty block.
LEMMA FreshKeyed ==
    ASSUME NEW V, V = [x \in 1 .. 1 |-> NewBlock], NEW lev, lev = [x \in 1 .. 1 |-> 0],
           NEW C, \A k \in Key : C[k] = Nil, NEW k
    PROVE  (\E K : Keyed(V, 1, 1, lev, K, C, 0, 0)) /\ NoInner(V, 1, lev, k)
<1> DEFINE K == [x \in 1 .. 1 |-> Int]
<1>1. /\ V[1] = <<>> /\ lev[1] = 0 /\ K[1] = Int /\ \A p \in 1 .. 1 : p = 1
      /\ DOMAIN V = 1 .. 1 /\ 1 \in 1 .. 1
  BY DEF NewBlock
<1>2. K \in [1 .. 1 -> SUBSET Int] /\ Int # {}
  <2>1. 0 \in Int
    OBVIOUS
  <2> QED
    BY <2>1
<1>3. Convex(Int)
  BY DEF Convex
<1>4. LeafIs(<<>>, Int, C)
  BY DEF LeafIs, Sorted
<1> HIDE DEF K
<1>5. Ordered(V, 1, lev, K, C)
  <2>1. \A p \in 1 .. 1 : K[p] # {} /\ Convex(K[p])
    BY <1>1, <1>2, <1>3
  <2>2. \A p, q \in 1 .. 1 : p # q /\ lev[p] = lev[q] => K[p] \cap K[q] = {}
    BY <1>1
  <2>3. \A p \in 1 .. 1 : lev[p] = 0 => LeafIs(V[p], K[p], C) /\ (1 > 1 => V[p] # <<>>)
    BY <1>1, <1>4
  <2>4. \A p \in 1 .. 1 : lev[p] > 0 => InnerIs(V[p], K[p], C)
    BY <1>1
  <2>5. \A l \in Key : C[l] # Nil => InLeaf(V, 1, lev, l)
    OBVIOUS
  <2> QED
    BY <1>2, <2>1, <2>2, <2>3, <2>4, <2>5 DEF Ordered
<1>6. Ways(V, 1, lev, K, 0, 0)
  <2>1. Seen(K, 0, 0, 1) = Int
    BY <1>1 DEF Seen
  <2>2. \A p, i, id : ~Link(V, lev, p, i, id)
    BY <1>1 DEF Link
  <2> QED
    BY <2>1, <2>2 DEF Ways
<1>7. Keyed(V, 1, 1, lev, K, C, 0, 0)
  BY <1>5, <1>6 DEF Keyed
<1>8. NoInner(V, 1, lev, k)
  BY <1>1 DEF NoInner
<1> QED
  BY <1>7, <1>8

\* store() changes the dictionary as it should.
LEMMA StoreDict ==
    ASSUME NEW b, Rest(b), NEW C, Dict(b, C), NEW k \in Key, NEW v \in Val, Free(b, C, k)
    PROVE  Dict(StoreIn(b, k, v), [C EXCEPT ![k] = v])
<1> DEFINE rooted == Rooting(b)
           a == Inserted(rooted, k, v)
           h == Storing(a)
           c == [C EXCEPT ![k] = v]
<1>0. C \in Dicts
  BY DEF Dict
<1>1. \E S, lev, K : /\ Descendable(rooted, S, lev)
                     /\ Keyed(Shown(rooted), rooted.cnt, rooted.head, lev, K, C, 0, 0)
                     /\ NoInner(Shown(rooted), rooted.cnt, lev, k)
  <2>1. CASE b.head # 0
    <3>1. PICK lev, K : TreeOf(b, lev, {}) /\ Keyed(Shown(b), b.cnt, b.head, lev, K, C, 0, 0)
      BY <2>1 DEF Dict
    <3>2. Descendable(b, {}, lev)
      BY <3>1 DEF Rest, Descendable
    <3>3. NoInner(Shown(b), b.cnt, lev, k)
      BY <2>1, <3>1 DEF Free
    <3>4. rooted = b
      BY <2>1 DEF Rooting
    <3> QED
      BY <3>1, <3>2, <3>3, <3>4
  <2>2. CASE b.head = 0
    <3>1. \E lev : Started([b EXCEPT !.cnt = @ + 1, !.head = b.cnt + 1], lev)
      BY <2>2, FirstBlock, ZenonT(60)
    <3>2. \E lev : Started(rooted, lev)
      BY <2>2, <3>1 DEF Rooting
    <3> HIDE DEF rooted
    <3>3. PICK lev : Started(rooted, lev)
      BY <3>2
    <3>4. /\ lev = [x \in 1 .. 1 |-> 0] /\ Descendable(rooted, {1}, lev)
          /\ rooted.cnt = 1 /\ rooted.head = 1 /\ Shown(rooted) = [x \in 1 .. 1 |-> NewBlock]
      BY <3>3 DEF Started
    <3>5. \A l \in Key : C[l] = Nil
      BY <2>2 DEF Dict
    <3>6. (\E K : Keyed(Shown(rooted), 1, 1, lev, K, C, 0, 0)) /\ NoInner(Shown(rooted), 1, lev, k)
      BY <3>4, <3>5, FreshKeyed
    <3> QED
      BY <3>4, <3>6
  <2> QED
    BY <2>1, <2>2
<1> HIDE DEF rooted
<1>2. PICK S, lev, K : /\ Descendable(rooted, S, lev)
                       /\ Keyed(Shown(rooted), rooted.cnt, rooted.head, lev, K, C, 0, 0)
                       /\ NoInner(Shown(rooted), rooted.cnt, lev, k)
  BY <1>1
<1>3. /\ \E l : InsertedInto(rooted, l, a)
      /\ \E l, K2 : TreeOf(h, l, {}) /\ Keyed(Shown(h), h.cnt, h.head, l, K2, c, 0, 0)
  BY <1>0, <1>2, StorePlaces
<1>4. Dict(h, c)
  <2>1. c \in Dicts /\ c[k] # Nil
    BY <1>0, DictPut
  <2> HIDE DEF h, c
  <2>2. PICK l, K2 : TreeOf(h, l, {}) /\ Keyed(Shown(h), h.cnt, h.head, l, K2, c, 0, 0)
    BY <1>3
  <2>3. h.head # 0
    <3>1. h.head \in 1 .. h.cnt
      BY <2>2 DEF TreeOf, Tree, TreeTypes
    <3> QED
      BY <3>1
  <2> QED
    BY <2>1, <2>2, <2>3 DEF Dict
<1> HIDE DEF c, a
<1>5. Shows(h, Settled(h))
  BY <1>3, StoreEnds
<1>6. StoreIn(b, k, v) = Settled(h)
  BY StoreIs DEF rooted, a
<1> HIDE DEF h
<1> QED
  BY <1>4, <1>5, <1>6, DictSame DEF c

\* What programs before this one have stored is a dictionary, as long as none
\* stored a key again.
LEMMA StoredDict ==
    ASSUME NEW keys \in Seq(Key), IsInjective(keys)
    PROVE  \E C : Dict(Stored(keys)[Len(keys)], C)
<1> DEFINE N == Len(keys)
           v0 == CHOOSE v \in Val : TRUE
           Upto(n, C) == \A k \in Key : C[k] # Nil => \E i \in 1 .. n : keys[i] = k
           Good(n, b) == Rest(b) /\ \E C : Dict(b, C) /\ Upto(n, C)
           P == [n \in 0 .. N |-> {b \in BtRecord : Good(n, b)}]
<1>1. /\ N \in Nat /\ 0 \in 0 .. N /\ N \in 0 .. N /\ DOMAIN keys = 1 .. N
      /\ \A n \in 1 .. N : n - 1 \in 0 .. N /\ n \in 0 .. N /\ keys[n] \in Key
  OBVIOUS
<1>2. v0 \in Val
  BY BtreeAssumption
<1>3. \A n \in 0 .. N : \A b : b \in P[n] <=> Good(n, b)
  <2> SUFFICES ASSUME NEW n \in 0 .. N, NEW b PROVE b \in P[n] <=> Good(n, b)
    OBVIOUS
  <2>1. Good(n, b) => b \in BtRecord
    BY LayerFacts DEF Rest
  <2> HIDE DEF Good
  <2> QED
    BY <2>1
<1> HIDE DEF P, N, v0
<1>4. Empty \in P[0]
  <2> DEFINE C == [k \in Key |-> Nil]
  <2>1. Dict(Empty, C) /\ Upto(0, C)
    BY DEF Dict, Dicts, Empty
  <2>2. Good(0, Empty)
    BY <2>1, EmptyRests
  <2> HIDE DEF Good
  <2> QED
    BY <1>1, <1>3, <2>2
<1>5. ASSUME NEW n \in 1 .. N, NEW b \in P[n - 1] PROVE StoreIn(b, keys[n], v0) \in P[n]
  <2> DEFINE k == keys[n]
             g == StoreIn(b, k, v0)
  <2>1. k \in Key /\ n - 1 \in 0 .. N /\ n \in 0 .. N
    BY <1>1
  <2>2. Good(n - 1, b)
    <3> HIDE DEF Good
    <3> QED
      BY <1>3, <2>1
  <2>3. PICK C : Rest(b) /\ Dict(b, C) /\ Upto(n - 1, C)
    BY <2>2
  <2>4. C[k] = Nil
    <3> SUFFICES ASSUME C[k] # Nil PROVE FALSE
      OBVIOUS
    <3>1. PICK i \in 1 .. n - 1 : keys[i] = k
      BY <2>1, <2>3
    <3>2. i \in DOMAIN keys /\ n \in DOMAIN keys /\ i # n
      BY <1>1
    <3> QED
      BY <3>1, <3>2 DEF IsInjective
  <2>5. C \in Dicts
    BY <2>3 DEF Dict
  <2> DEFINE c == [C EXCEPT ![k] = v0]
  <2>6. Upto(n, c)
    <3>1. ASSUME NEW l \in Key, c[l] # Nil PROVE \E i \in 1 .. n : keys[i] = l
      <4>1. CASE l = k
        <5>1. n \in 1 .. n
          BY <1>1
        <5> QED
          BY <4>1, <5>1
      <4>2. CASE l # k
        <5>1. C[l] # Nil
          BY <3>1, <4>2, <2>5 DEF Dicts
        <5>2. PICK i \in 1 .. n - 1 : keys[i] = l
          BY <2>3, <5>1
        <5>3. i \in 1 .. n
          BY <1>1
        <5> QED
          BY <5>2, <5>3
      <4> QED
        BY <4>1, <4>2
    <3> QED
      BY <3>1
  <2> HIDE DEF Upto, k, c
  <2>7. Rest(g)
    BY <1>2, <2>1, <2>3, StoreRests
  <2>8. Dict(g, c)
    BY <1>2, <2>1, <2>3, <2>4, <2>5, FreeNil, StoreDict DEF c
  <2> HIDE DEF g
  <2>9. Good(n, g)
    BY <2>6, <2>7, <2>8
  <2> HIDE DEF Good
  <2>10. g \in P[n]
    BY <1>3, <2>1, <2>9
  <2> QED
    BY <2>10 DEF g, k
<1>6. Stored(keys)[Len(keys)] \in P[Len(keys)]
  BY <1>4, <1>5, StoredInduction DEF v0, N
<1>7. Good(N, Stored(keys)[N])
  <2> HIDE DEF Good
  <2> QED
    BY <1>1, <1>3, <1>6 DEF N
<1> QED
  BY <1>7 DEF N

-----------------------------------------------------------------------------
(* What the calls find. *)

ContentsOf(b) ==
    LET entries == UNION {ToSet(View(b, id)) : id \in Level(b, b.H)}
    IN  [k \in Key |-> LET es == {e \in entries : e.key = k}
                       IN  IF es = {} THEN Nil ELSE (CHOOSE e \in es : TRUE).val]

\* The entries of the leaves, and what the blocks have.
LEMMA LeafEntries ==
    ASSUME NEW b, Rest(b), b.head # 0, NEW lev, TreeOf(b, lev, {})
    PROVE  UNION {ToSet(View(b, id)) : id \in Level(b, b.H)}
              = {Shown(b)[at[1]][at[2]] : at \in {x \in (1 .. b.cnt) \X Nat :
                                                    lev[x[1]] = 0 /\ x[2] \in DOMAIN Shown(b)[x[1]]}}
<1> DEFINE V == Shown(b)
           L == {id \in 1 .. b.cnt : lev[id] = 0}
<1>1. Layer(b, {}, {}) /\ HasAll(b, {})
  BY DEF Rest
<1>2. b.H \in Nat /\ V \in [1 .. b.cnt -> Ents]
  BY DEF TreeOf, Tree, TreeTypes
<1>3. Level(b, b.H) = L
  <2> DEFINE h == b.H
  <2>1. \A n \in 0 .. b.H : Level(b, n) = {id \in 1 .. b.cnt : lev[id] = b.H - n}
    BY <1>1, LevelFacts
  <2>2. h \in Nat
    BY <1>2
  <2>3. \A n \in 0 .. h : Level(b, n) = {id \in 1 .. b.cnt : lev[id] = h - n}
    BY <2>1
  <2> HIDE DEF h
  <2>4. h \in 0 .. h /\ h - h = 0
    BY <2>2
  <2>5. Level(b, h) = {id \in 1 .. b.cnt : lev[id] = 0}
    BY <2>3, <2>4
  <2> QED
    BY <2>5 DEF h
<1>4. \A id \in 1 .. b.cnt : View(b, id) = V[id]
  <2>1. \A id \in 1 .. b.cnt : id \in DOMAIN b.mem \/ id \in DOMAIN b.file
    BY <1>1 DEF HasAll
  <2> QED
    BY <2>1 DEF View, Shown, BlockOf
<1>5. \A id \in 1 .. b.cnt : DOMAIN V[id] \subseteq Nat
  <2> SUFFICES ASSUME NEW id \in 1 .. b.cnt PROVE DOMAIN V[id] \subseteq Nat
    OBVIOUS
  <2>1. V[id] \in Ents
    BY <1>2
  <2> QED
    BY <2>1, EntsFacts
<1> HIDE DEF V
<1>6. UNION {ToSet(View(b, id)) : id \in L} = UNION {ToSet(V[id]) : id \in L}
  BY <1>4
<1> DEFINE Q == {x \in (1 .. b.cnt) \X Nat : lev[x[1]] = 0 /\ x[2] \in DOMAIN V[x[1]]}
           U == {V[at[1]][at[2]] : at \in Q}
<1>7. ASSUME NEW e, e \in UNION {ToSet(V[id]) : id \in L} PROVE e \in U
  <2>1. PICK id \in L : e \in ToSet(V[id])
    BY <1>7
  <2>2. PICK i \in DOMAIN V[id] : e = V[id][i]
    BY <2>1 DEF ToSet
  <2>3. <<id, i>> \in Q
    BY <1>5, <2>1, <2>2
  <2>4. e = V[<<id, i>>[1]][<<id, i>>[2]]
    BY <2>2
  <2> HIDE DEF Q
  <2> QED
    BY <2>3, <2>4
<1>8. ASSUME NEW e, e \in U PROVE e \in UNION {ToSet(V[id]) : id \in L}
  <2>1. PICK at \in Q : e = V[at[1]][at[2]]
    BY <1>8
  <2>2. at[1] \in L /\ at[2] \in DOMAIN V[at[1]]
    BY <2>1
  <2>3. e \in ToSet(V[at[1]])
    BY <2>1, <2>2 DEF ToSet
  <2> QED
    BY <2>2, <2>3
<1>9. UNION {ToSet(V[id]) : id \in L} = U
  BY <1>7, <1>8
<1> QED
  BY <1>3, <1>6, <1>9 DEF V

\* Each entry of a leaf is what is stored for its key.
Entered(E, C, k) ==
    /\ \A e \in E : e.key = k => C[k] # Nil /\ e.val = C[k]
    /\ C[k] # Nil => \E e \in E : e.key = k

LEMMA EntriesAre ==
    ASSUME NEW b, Rest(b), NEW C, Dict(b, C), NEW k \in Key
    PROVE  Entered(UNION {ToSet(View(b, id)) : id \in Level(b, b.H)}, C, k)
<1> DEFINE E == UNION {ToSet(View(b, id)) : id \in Level(b, b.H)}
<1>0. C \in Dicts
  BY DEF Dict
<1>1. CASE b.head = 0
  <2>1. b.H = 0
    BY <1>1 DEF Rest
  <2>2. Level(b, 0) = {}
    BY <1>1, <2>1, NoLevels
  <2>3. E = {}
    BY <2>1, <2>2
  <2>4. C[k] = Nil
    BY <1>1 DEF Dict
  <2> HIDE DEF E
  <2>5. Entered(E, C, k)
    BY <2>3, <2>4 DEF Entered
  <2> QED
    BY <2>5 DEF E
<1>2. CASE b.head # 0
  <2> DEFINE V == Shown(b)
  <2>1. PICK lev, K : TreeOf(b, lev, {}) /\ Keyed(V, b.cnt, b.head, lev, K, C, 0, 0)
    BY <1>2 DEF Dict
  <2>2. Known(V, b.cnt, b.head, lev, K, C, 0, 0)
    <3>1. Tree(V, b.cnt, b.head, b.H, lev, {})
      BY <2>1 DEF TreeOf
    <3> HIDE DEF V
    <3> QED
      BY <1>0, <2>1, <3>1, KeyedFacts
  <2> DEFINE Q == {x \in (1 .. b.cnt) \X Nat : lev[x[1]] = 0 /\ x[2] \in DOMAIN V[x[1]]}
  <2>3. E = {V[at[1]][at[2]] : at \in Q}
    BY <1>2, <2>1, LeafEntries
  <2> HIDE DEF E, V
  <2>4. /\ \A p \in 1 .. b.cnt : V[p] \in Ents /\ (lev[p] = 0 => LeafIs(V[p], K[p], C))
        /\ \A l \in Key : C[l] # Nil => InLeaf(V, b.cnt, lev, l)
    BY <2>2 DEF Known
  <2>5. ASSUME NEW e \in E, e.key = k PROVE C[k] # Nil /\ e.val = C[k]
    <3>1. PICK at \in Q : e = V[at[1]][at[2]]
      BY <2>3
    <3> DEFINE p == at[1]
               i == at[2]
    <3>2. p \in 1 .. b.cnt /\ lev[p] = 0 /\ i \in DOMAIN V[p]
      BY <3>1
    <3>3. e = V[p][i]
      BY <3>1
    <3> HIDE DEF p, i
    <3>4. i \in 1 .. Len(V[p])
      BY <2>4, <3>2, EntsFacts
    <3>5. e.val \in Val /\ C[e.key] = e.val
      BY <2>4, <3>2, <3>3, <3>4 DEF LeafIs
    <3>6. Nil \notin Val
      BY KeyIsNat
    <3> QED
      BY <2>5, <3>5, <3>6
  <2>6. ASSUME C[k] # Nil PROVE \E e \in E : e.key = k
    <3>1. PICK p \in 1 .. b.cnt : lev[p] = 0 /\ \E i \in 1 .. Len(V[p]) : V[p][i].key = k
      BY <2>4, <2>6 DEF InLeaf
    <3>2. PICK i \in 1 .. Len(V[p]) : V[p][i].key = k
      BY <3>1
    <3>3. i \in DOMAIN V[p] /\ i \in Nat
      BY <2>4, EntsFacts
    <3>4. <<p, i>> \in Q /\ <<p, i>>[1] = p /\ <<p, i>>[2] = i
      BY <3>1, <3>3
    <3> HIDE DEF Q
    <3>5. V[p][i] \in E
      BY <2>3, <3>4
    <3> QED
      BY <3>2, <3>5
  <2>7. Entered(E, C, k)
    BY <2>5, <2>6 DEF Entered
  <2> QED
    BY <2>7 DEF E
<1> QED
  BY <1>1, <1>2

\* The entries of the blocks at depth H are the dictionary.
LEMMA ContentsIs ==
    ASSUME NEW b, Rest(b), NEW C, Dict(b, C)
    PROVE  ContentsOf(b) = C
<1> DEFINE E == UNION {ToSet(View(b, id)) : id \in Level(b, b.H)}
           Es(k) == {e \in E : e.key = k}
           X(k) == IF Es(k) = {} THEN Nil ELSE (CHOOSE e \in Es(k) : TRUE).val
<1>1. C \in Dicts
  BY DEF Dict
<1>2. ContentsOf(b) = [k \in Key |-> X(k)]
  BY DEF ContentsOf
<1>3. ASSUME NEW k \in Key PROVE (\A e \in E : e.key = k => C[k] # Nil /\ e.val = C[k])
                                 /\ (C[k] # Nil => \E e \in E : e.key = k)
  <2>1. Entered(E, C, k)
    BY EntriesAre
  <2> HIDE DEF E
  <2> QED
    BY <2>1 DEF Entered
<1> HIDE DEF E
<1>4. ASSUME NEW k \in Key PROVE X(k) = C[k]
  <2>1. CASE C[k] = Nil
    <3>1. Es(k) = {}
      BY <1>3, <2>1
    <3> QED
      BY <2>1, <3>1
  <2>2. CASE C[k] # Nil
    <3>1. Es(k) # {}
      BY <1>3, <2>2
    <3> DEFINE x == CHOOSE e \in Es(k) : TRUE
    <3>2. x \in Es(k)
      BY <3>1
    <3> HIDE DEF x
    <3>3. x \in E /\ x.key = k
      BY <3>2
    <3>4. x.val = C[k]
      BY <1>3, <3>3
    <3> QED
      BY <3>1, <3>4 DEF x
  <2> QED
    BY <2>1, <2>2
<1> HIDE DEF X
<1>5. [k \in Key |-> X(k)] = C
  BY <1>1, <1>4 DEF Dicts
<1> QED
  BY <1>2, <1>5

\* What a descent has read is the way of k in the tree.
Reads(b, C, k, d) ==
    /\ d.path \in Seq(Nat) /\ Len(d.path) = b.H + 1 /\ b.H \in Nat /\ d.path[1] = b.head
    /\ \A i \in 1 .. b.H + 1 : d.b.mem[d.path[i]] = Shown(b)[d.path[i]]
    /\ \E lev, K : /\ Known(Shown(b), b.cnt, b.head, lev, K, C, 0, 0)
                   /\ Followed(Shown(b), b.cnt, lev, K, b.H, k, d.path)

LEMMA ReadIs ==
    ASSUME NEW b, Rest(b), b.head # 0, NEW C, Dict(b, C), NEW k \in Int
    PROVE  Reads(b, C, k, Descend(b, k, FALSE))
<1> DEFINE d == Descend(b, k, FALSE)
<1>1. PICK lev, K : TreeOf(b, lev, {}) /\ Keyed(Shown(b), b.cnt, b.head, lev, K, C, 0, 0)
  BY DEF Dict
<1>2. C \in Dicts
  BY DEF Dict
<1>3. Descendable(b, {}, lev)
  BY <1>1 DEF Rest, Descendable
<1>4. /\ d \in Descents /\ Descending(b, {}, lev, b.H, d)
      /\ Followed(Shown(b), b.cnt, lev, K, b.H, k, d.path) /\ d.path[1] = b.head
  <2>1. FALSE \in BOOLEAN
    OBVIOUS
  <2> QED
    BY <1>1, <1>2, <1>3, <2>1, DescentFollows
<1> HIDE DEF d
<1>5. Known(Shown(b), b.cnt, b.head, lev, K, C, 0, 0)
  <2>1. Tree(Shown(b), b.cnt, b.head, b.H, lev, {})
    BY <1>1 DEF TreeOf
  <2> QED
    BY <1>1, <1>2, <2>1, KeyedFacts
<1>6. /\ Layer(d.b, {}, {}) /\ SameTree(b, d.b) /\ Len(d.path) = b.H + 1
      /\ \A i \in 1 .. b.H + 1 : d.path[i] \in 1 .. b.cnt /\ d.path[i] \in DOMAIN d.b.mem
  BY <1>4 DEF Descending
<1>7. d.path \in Seq(Nat) /\ b.H \in Nat
  BY <1>4 DEF Descents, Followed
<1>8. ASSUME NEW i \in 1 .. b.H + 1 PROVE d.b.mem[d.path[i]] = Shown(b)[d.path[i]]
  <2> DEFINE p == d.path[i]
  <2>1. p \in 1 .. b.cnt /\ p \in DOMAIN d.b.mem
    BY <1>6
  <2> HIDE DEF p
  <2>2. BlockOf(d.b, p) = d.b.mem[p]
    BY <1>6, <2>1, BlockFacts
  <2>3. BlockOf(d.b, p) = BlockOf(b, p)
    BY <1>6, <2>1 DEF SameTree
  <2>4. Shown(b)[p] = BlockOf(b, p)
    BY <2>1 DEF Shown
  <2> QED
    BY <2>2, <2>3, <2>4 DEF p
<1>9. Reads(b, C, k, d)
  BY <1>4, <1>5, <1>6, <1>7, <1>8 DEF Reads
<1> QED
  BY <1>9 DEF d

\* The leaf is the last block read.
LEMMA LeafRead ==
    ASSUME NEW b, NEW C, NEW k, NEW d, Reads(b, C, k, d)
    PROVE  \E lev, K, p : /\ Known(Shown(b), b.cnt, b.head, lev, K, C, 0, 0)
                          /\ p \in 1 .. b.cnt /\ lev[p] = 0 /\ k \in K[p]
                          /\ d.b.mem[Last(d.path)] = Shown(b)[p]
<1> DEFINE h == b.H
           p == d.path[h + 1]
<1>1. PICK lev, K : /\ Known(Shown(b), b.cnt, b.head, lev, K, C, 0, 0)
                    /\ Followed(Shown(b), b.cnt, lev, K, b.H, k, d.path)
  BY DEF Reads
<1>2. /\ h \in Nat /\ Len(d.path) = h + 1
      /\ \A i \in 1 .. h + 1 : /\ d.b.mem[d.path[i]] = Shown(b)[d.path[i]]
                               /\ d.path[i] \in 1 .. b.cnt /\ lev[d.path[i]] = h + 1 - i /\ k \in K[d.path[i]]
  BY <1>1 DEF Reads, Followed
<1> HIDE DEF h
<1>3. h + 1 \in 1 .. h + 1 /\ h + 1 - (h + 1) = 0
  BY <1>2
<1>4. Last(d.path) = p
  BY <1>2 DEF Last
<1>5. p \in 1 .. b.cnt /\ lev[p] = 0 /\ k \in K[p] /\ d.b.mem[p] = Shown(b)[p]
  BY <1>2, <1>3
<1> HIDE DEF p
<1> QED
  BY <1>1, <1>4, <1>5

LEMMA FetchIs ==
    ASSUME NEW b, Rest(b), b.head # 0, NEW C, Dict(b, C), NEW k \in Key
    PROVE  LET d == Descend(b, k, FALSE)
               ents == d.b.mem[Last(d.path)]
               j == Before(ents, k) + 1
           IN  (IF Has(ents, j, k) THEN ents[j].val ELSE Nil) = C[k]
<1> DEFINE d == Descend(b, k, FALSE)
<1>1. Reads(b, C, k, d)
  <2>1. k \in Int
    BY KeyIsNat
  <2> QED
    BY <2>1, ReadIs
<1> HIDE DEF d
<1>2. PICK lev, K, p : /\ Known(Shown(b), b.cnt, b.head, lev, K, C, 0, 0)
                       /\ p \in 1 .. b.cnt /\ lev[p] = 0 /\ k \in K[p]
                       /\ d.b.mem[Last(d.path)] = Shown(b)[p]
  BY <1>1, LeafRead
<1>3. LET j == Before(Shown(b)[p], k) + 1
      IN  (IF Has(Shown(b)[p], j, k) THEN Shown(b)[p][j].val ELSE Nil) = C[k]
  BY <1>2, FoundInLeaf
<1> QED
  BY <1>2, <1>3 DEF d

LEMMA FirstkeyIs ==
    ASSUME NEW b, Rest(b), b.head # 0, NEW C, Dict(b, C)
    PROVE  LET d == Descend(b, -1, FALSE)
           IN  Least({l \in Key : C[l] # Nil}, d.b.mem[Last(d.path)][1].key)
<1> DEFINE d == Descend(b, -1, FALSE)
<1>1. Reads(b, C, -1, d)
  <2>1. -1 \in Int
    OBVIOUS
  <2> QED
    BY <2>1, ReadIs
<1> HIDE DEF d
<1>2. PICK lev, K, p : /\ Known(Shown(b), b.cnt, b.head, lev, K, C, 0, 0)
                       /\ p \in 1 .. b.cnt /\ lev[p] = 0 /\ -1 \in K[p]
                       /\ d.b.mem[Last(d.path)] = Shown(b)[p]
  BY <1>1, LeafRead
<1> DEFINE x == Shown(b)[p][1].key
<1>3. PICK k0 \in Key : C[k0] # Nil
  BY DEF Dict
<1>4. x \in Key /\ C[x] # Nil /\ \A l \in Key : C[l] # Nil => x <= l
  BY <1>2, <1>3, FirstInLeaf
<1>5. d.b.mem[Last(d.path)][1].key = x
  BY <1>2
<1> HIDE DEF x
<1>6. Least({l \in Key : C[l] # Nil}, x)
  BY <1>4 DEF Least
<1> QED
  BY <1>5, <1>6 DEF d

\* What nextkey() returns after a descent.
NextOf(d, k) ==
    LET Next1(i) == NextIn(d.b.mem[d.path[i]], k, i = Len(d.path))
        found == {i \in DOMAIN d.path : Next1(i) # Nil}
    IN  IF found = {} THEN Nil ELSE Next1(Max(found))

LEMMA NextkeyIs ==
    ASSUME NEW b, Rest(b), b.head # 0, NEW C, Dict(b, C), NEW k \in Key, C[k] # Nil
    PROVE  Least({l \in Key : C[l] # Nil /\ l > k}, NextOf(Descend(b, k, FALSE), k))
<1> DEFINE d == Descend(b, k, FALSE)
           h == b.H
           path == d.path
           Next1(i) == NextIn(d.b.mem[path[i]], k, i = Len(path))
           found == {i \in DOMAIN path : Next1(i) # Nil}
           V == Shown(b)
<1>1. Reads(b, C, k, d)
  <2>1. k \in Int
    BY KeyIsNat
  <2> QED
    BY <2>1, ReadIs
<1> HIDE DEF d
<1>2. /\ h \in Nat /\ path \in Seq(Nat) /\ Len(path) = h + 1 /\ path[1] = b.head
      /\ \A i \in 1 .. h + 1 : d.b.mem[path[i]] = V[path[i]]
  BY <1>1 DEF Reads
<1>3. PICK lev, K : Known(V, b.cnt, b.head, lev, K, C, 0, 0) /\ Followed(V, b.cnt, lev, K, h, k, path)
  BY <1>1 DEF Reads
<1> HIDE DEF V, path, h
<1> DEFINE F == NextFound(V, path, h, k)
           y == IF F = {} THEN Nil ELSE NextAt(V, path, h, k, Max(F))
           S == {l \in Key : C[l] # Nil /\ l > k}
<1>4. Least(S, y)
  <2>1. path[1] = b.head
    BY <1>2
  <2> HIDE DEF F, y
  <2>2. Least({l \in Key : C[l] # Nil /\ l > k}, NextResult(V, path, h, k))
    BY <1>3, <2>1, NextIs
  <2> QED
    BY <2>2 DEF F, y, NextResult
<1>5. DOMAIN path = 1 .. h + 1
  BY <1>2
<1>6. \A i \in 1 .. h + 1 : Next1(i) = NextAt(V, path, h, k, i)
  BY <1>2 DEF NextAt
<1>7. found = F
  BY <1>5, <1>6 DEF NextFound
<1>8. found # {} => Max(found) \in 1 .. h + 1
  <2> SUFFICES ASSUME found # {} PROVE Max(found) \in 1 .. h + 1
    OBVIOUS
  <2>1. found \in SUBSET (1 .. h + 1) /\ h + 1 \in Nat
    BY <1>2, <1>5
  <2> HIDE DEF found
  <2>2. PICK m \in found : \A x \in found : m >= x
    BY <2>1, GreatestElement
  <2>3. Max(found) \in found
    BY <2>1, <2>2 DEF Max
  <2> QED
    BY <2>1, <2>3
<1> DEFINE z == IF found = {} THEN Nil ELSE Next1(Max(found))
<1>9. z = y
  <2> HIDE DEF Next1
  <2>1. CASE found = {}
    BY <1>7, <2>1
  <2>2. CASE found # {}
    <3> HIDE DEF found, F
    <3> QED
      BY <1>6, <1>7, <1>8, <2>2
  <2> QED
    BY <2>1, <2>2
<1> HIDE DEF z, y
<1>10. Least(S, z)
  BY <1>4, <1>9
<1>11. z = NextOf(d, k)
  BY DEF z, path, NextOf
<1> QED
  BY <1>10, <1>11 DEF d

-----------------------------------------------------------------------------
(* The program is a dictionary. *)

LEMMA LeastFirst ==
    ASSUME NEW S \in SUBSET Nat, NEW x, Least(S, x)
    PROVE  x = D!First(S)
<1>1. CASE S = {}
  BY <1>1 DEF Least, D!First
<1>2. CASE S # {}
  <2>1. x \in S /\ \A l \in S : x <= l
    BY <1>2 DEF Least
  <2> DEFINE y == CHOOSE k \in S : \A l \in S : k <= l
  <2>2. y \in S /\ \A l \in S : y <= l
    BY <2>1
  <2>3. D!First(S) = y
    BY <1>2 DEF D!First
  <2> HIDE DEF y
  <2>4. x = y
    BY <2>1, <2>2
  <2> QED
    BY <2>3, <2>4
<1> QED
  BY <1>1, <1>2

\* The key of an inner block is a separator.
LEMMA FreeSeparator ==
    ASSUME Rest(bt), NEW C, NEW k, k \notin Separators
    PROVE  Free(bt, C, k)
<1> SUFFICES ASSUME NEW lev, bt.head # 0, TreeOf(bt, lev, {})
             PROVE  NoInner(Shown(bt), bt.cnt, lev, k)
  BY DEF Free
<1> DEFINE V == Shown(bt)
<1>1. Layer(bt, {}, {}) /\ HasAll(bt, {})
  BY DEF Rest
<1>2. /\ bt.H \in Nat /\ V \in [1 .. bt.cnt -> Ents] /\ lev \in [1 .. bt.cnt -> 0 .. bt.H]
  BY DEF TreeOf, Tree, TreeTypes
<1>3. \A n \in 0 .. bt.H : Level(bt, n) = {id \in 1 .. bt.cnt : lev[id] = bt.H - n}
  BY <1>1, LevelFacts
<1>4. \A id \in 1 .. bt.cnt : View(bt, id) = V[id]
  <2>1. \A id \in 1 .. bt.cnt : id \in DOMAIN bt.mem \/ id \in DOMAIN bt.file
    BY <1>1 DEF HasAll
  <2> QED
    BY <2>1 DEF View, Shown, BlockOf
<1> HIDE DEF V
<1> SUFFICES ASSUME NEW p \in 1 .. bt.cnt, lev[p] > 0, NEW j \in 2 .. Len(V[p]) PROVE V[p][j].key # k
  BY DEF NoInner, V
<1> DEFINE h == bt.H
           n == h - lev[p]
<1>5. n \in 0 .. h - 1 /\ n \in 0 .. h /\ lev[p] = h - n
  <2>1. h \in Nat /\ lev[p] \in 0 .. h /\ lev[p] > 0
    BY <1>2
  <2> HIDE DEF h
  <2> QED
    BY <2>1
<1>6. p \in Level(bt, n)
  BY <1>3, <1>5
<1>7. j \in DOMAIN V[p]
  <2>1. V[p] \in Ents
    BY <1>2
  <2>2. DOMAIN V[p] = 1 .. Len(V[p])
    BY <2>1, EntsFacts
  <2> QED
    BY <2>2
<1>8. V[p][j] \in ToSet(View(bt, p))
  BY <1>4, <1>7 DEF ToSet
<1>9. p \in UNION {Level(bt, m) : m \in 0 .. bt.H - 1}
  BY <1>5, <1>6
<1>10. V[p][j].key \in Separators
  BY <1>8, <1>9 DEF Separators
<1> QED
  BY <1>10

DInv == Inv /\ Dict(bt, Contents)

LEMMA InitDict == (\A keys \in Loaded : IsInjective(keys)) /\ Init => DInv /\ D!Init
<1> SUFFICES ASSUME \A keys \in Loaded : IsInjective(keys), Init PROVE DInv /\ D!Init
  OBVIOUS
<1>1. PICK keys \in Loaded : bt = ReopenIn(Stored(keys)[Len(keys)])
  BY DEF Init
<1>2. keys \in Seq(Key) /\ IsInjective(keys)
  BY <1>1, BtreeAssumption
<1> DEFINE b == Stored(keys)[Len(keys)]
<1>3. PICK C : Dict(b, C)
  BY <1>2, StoredDict
<1>4. Rest(b)
  BY <1>2, StoredRests
<1> HIDE DEF b
<1>5. Dict(bt, C)
  <2>1. bt = ReopenIn(b)
    BY <1>1 DEF b
  <2>2. Shows(b, ReopenIn(b))
    BY <1>4, ReopenRests
  <2> QED
    BY <1>3, <2>1, <2>2, DictSame
<1>6. Inv
  BY InitHolds
<1>7. Contents = C
  <2>1. ContentsOf(bt) = C
    BY <1>5, <1>6, ContentsIs DEF Inv
  <2> QED
    BY <2>1 DEF Contents, ContentsOf
<1>8. DInv
  BY <1>5, <1>6, <1>7 DEF DInv
<1>9. D!Init
  BY <1>5, <1>7 DEF Init, D!Init, Dict, Dicts
<1> QED
  BY <1>8, <1>9

\* The tree of the next state has the dictionary c.
LEMMA ContentsNext ==
    ASSUME Inv', NEW c, Dict(bt', c)
    PROVE  Contents' = c /\ DInv'
<1>1. Rest(bt')
  BY DEF Inv
<1>2. ContentsOf(bt') = c
  BY <1>1, ContentsIs
<1>3. Contents' = c
  BY <1>2 DEF Contents, ContentsOf
<1> QED
  BY <1>3 DEF DInv

LEMMA SameDict ==
    ASSUME DInv, Inv', Shows(bt, bt')
    PROVE  Contents' = Contents /\ DInv'
<1> DEFINE c == Contents
<1>1. Dict(bt, c)
  BY DEF DInv
<1> HIDE DEF c
<1>2. Dict(bt', c)
  BY <1>1, DictSame
<1>3. Contents' = c /\ DInv'
  BY <1>2, ContentsNext
<1> QED
  BY <1>3 DEF c

LEMMA FetchStep == ASSUME DInv, Inv', NEW k \in Key, Fetch(k) PROVE DInv' /\ D!Fetch(k)
<1> DEFINE c == Contents
           d == Descend(bt, k, FALSE)
           ents == d.b.mem[Last(d.path)]
           j == Before(ents, k) + 1
           res == IF Has(ents, j, k) THEN ents[j].val ELSE Nil
<1>1. Rest(bt) /\ Dict(bt, c)
  BY DEF DInv, Inv
<1>2. \/ bt.head = 0 /\ Returns("fetch", k, Nil) /\ UNCHANGED <<bt, stores>>
      \/ bt.head # 0 /\ bt' = Settled(d.b) /\ Returns("fetch", k, res) /\ UNCHANGED stores
  BY DEF Fetch
<1> HIDE DEF c
<1>3. CASE bt.head = 0 /\ Returns("fetch", k, Nil) /\ UNCHANGED <<bt, stores>>
  <2>1. Shows(bt, bt')
    BY <1>3 DEF Shows
  <2>2. Contents' = Contents /\ DInv'
    BY <2>1, SameDict
  <2>3. c[k] = Nil
    BY <1>1, <1>3 DEF Dict
  <2> QED
    BY <1>3, <2>2, <2>3 DEF c, D!Fetch, Returns
<1>4. CASE bt.head # 0 /\ bt' = Settled(d.b) /\ Returns("fetch", k, res) /\ UNCHANGED stores
  <2>1. Shows(bt, bt')
    BY <1>1, <1>4, ReadRests
  <2>2. Contents' = Contents /\ DInv'
    BY <2>1, SameDict
  <2>3. res = c[k]
    BY <1>1, <1>4, FetchIs
  <2> HIDE DEF res
  <2> QED
    BY <1>4, <2>2, <2>3 DEF c, D!Fetch, Returns
<1> QED
  BY <1>2, <1>3, <1>4

LEMMA FirstkeyStep == ASSUME DInv, Inv', Firstkey PROVE DInv' /\ D!Firstkey
<1> DEFINE c == Contents
           d == Descend(bt, -1, FALSE)
           res == d.b.mem[Last(d.path)][1].key
           S == {k \in Key : c[k] # Nil}
<1>1. Rest(bt) /\ Dict(bt, c)
  BY DEF DInv, Inv
<1>2. bt.head # 0 /\ bt' = Settled(d.b) /\ Returns("firstkey", Nil, res) /\ UNCHANGED stores
  BY DEF Firstkey
<1> HIDE DEF c
<1>3. Shows(bt, bt')
  BY <1>1, <1>2, ReadRests
<1>4. Contents' = Contents /\ DInv'
  BY <1>3, SameDict
<1>5. Least(S, res)
  BY <1>1, <1>2, FirstkeyIs
<1>6. S \in SUBSET Nat
  BY KeyIsNat
<1> HIDE DEF res, S
<1>7. res = D!First(S)
  BY <1>5, <1>6, LeastFirst
<1>8. S = D!Stored
  BY DEF S, c, D!Stored
<1> QED
  BY <1>2, <1>4, <1>7, <1>8 DEF D!Firstkey, Returns

LEMMA NextkeyStep == ASSUME DInv, Inv', NEW k \in Key, Nextkey(k) PROVE DInv' /\ D!Nextkey(k)
<1> DEFINE c == Contents
           E == UNION {ToSet(View(bt, id)) : id \in Level(bt, bt.H)}
           d == Descend(bt, k, FALSE)
           Next1(i) == NextIn(d.b.mem[d.path[i]], k, i = Len(d.path))
           found == {i \in DOMAIN d.path : Next1(i) # Nil}
           res == IF found = {} THEN Nil ELSE Next1(Max(found))
           S == {l \in Key : c[l] # Nil /\ l > k}
<1>1. Rest(bt) /\ Dict(bt, c)
  BY DEF DInv, Inv
<1>2. /\ \E id \in Level(bt, bt.H) : \E e \in ToSet(View(bt, id)) : e.key = k
      /\ bt' = Settled(d.b) /\ Returns("nextkey", k, res) /\ UNCHANGED stores
  BY DEF Nextkey
<1> HIDE DEF c
<1>3. c[k] # Nil
  <2>1. Entered(E, c, k)
    BY <1>1, EntriesAre
  <2>2. \E e \in E : e.key = k
    BY <1>2
  <2> HIDE DEF E
  <2> QED
    BY <2>1, <2>2 DEF Entered
<1>4. bt.head # 0
  BY <1>1, <1>3 DEF Dict
<1>5. Shows(bt, bt')
  BY <1>1, <1>2, <1>4, ReadRests
<1>6. Contents' = Contents /\ DInv'
  BY <1>5, SameDict
<1>7. Least(S, res)
  <2>1. Least(S, NextOf(d, k))
    BY <1>1, <1>3, <1>4, NextkeyIs
  <2>2. res = NextOf(d, k)
    BY DEF NextOf
  <2> HIDE DEF res, S
  <2> QED
    BY <2>1, <2>2
<1>8. S \in SUBSET Nat
  BY KeyIsNat
<1> HIDE DEF res
<1>9. S = {l \in D!Stored : l > k} /\ k \in D!Stored
  BY <1>3 DEF c, D!Stored
<1> HIDE DEF S
<1>10. res = D!First(S)
  BY <1>7, <1>8, LeastFirst
<1> QED
  BY <1>2, <1>6, <1>9, <1>10 DEF D!Nextkey, Returns

LEMMA StoreStep ==
    ASSUME ~Rewrite, DInv, Inv', NEW k \in Key, NEW v \in Val, Store(k, v)
    PROVE  DInv' /\ D!Store(k, v)
<1> DEFINE c == Contents
           e == [c EXCEPT ![k] = v]
<1>1. Rest(bt) /\ Dict(bt, c)
  BY DEF DInv, Inv
<1>2. k \notin Separators /\ bt' = StoreIn(bt, k, v) /\ Returns("store", k, v)
  BY DEF Store
<1> HIDE DEF c
<1>3. Free(bt, c, k)
  BY <1>1, <1>2, FreeSeparator
<1>4. Dict(StoreIn(bt, k, v), e)
  BY <1>1, <1>3, StoreDict
<1> HIDE DEF e
<1>5. Contents' = e /\ DInv'
  <2>1. Dict(bt', e)
    BY <1>2, <1>4
  <2> QED
    BY <2>1, ContentsNext
<1> QED
  BY <1>2, <1>5 DEF c, e, D!Store, Returns

LEMMA ReopenStep == ASSUME DInv, Inv', Reopen PROVE DInv' /\ D!Reopen
<1>1. Rest(bt)
  BY DEF DInv, Inv
<1>2. bt' = ReopenIn(bt) /\ Returns("open", Nil, Nil)
  BY DEF Reopen
<1>3. Shows(bt, bt')
  BY <1>1, <1>2, ReopenRests
<1>4. Contents' = Contents /\ DInv'
  BY <1>3, SameDict
<1> QED
  BY <1>2, <1>4 DEF D!Reopen, Returns

LEMMA NextDict == ~Rewrite /\ DInv /\ [Next]_vars => DInv' /\ [D!Next]_(D!vars)
<1> SUFFICES ASSUME ~Rewrite, DInv, [Next]_vars PROVE DInv' /\ [D!Next]_(D!vars)
  OBVIOUS
<1>1. Inv'
  BY NextHolds DEF DInv
<1>2. ASSUME NEW k \in Key, Fetch(k) PROVE DInv' /\ D!Next
  <2>1. DInv' /\ D!Fetch(k)
    BY <1>1, <1>2, FetchStep
  <2> QED
    BY <2>1 DEF D!Next
<1>3. ASSUME NEW k \in Key, Nextkey(k) PROVE DInv' /\ D!Next
  <2>1. DInv' /\ D!Nextkey(k)
    BY <1>1, <1>3, NextkeyStep
  <2> QED
    BY <2>1 DEF D!Next
<1>4. ASSUME NEW k \in Key, NEW v \in Val, Store(k, v) PROVE DInv' /\ D!Next
  <2>1. DInv' /\ D!Store(k, v)
    BY <1>1, <1>4, StoreStep
  <2> QED
    BY <2>1 DEF D!Next
<1>5. CASE Firstkey
  BY <1>1, <1>5, FirstkeyStep DEF D!Next
<1>6. CASE Reopen
  BY <1>1, <1>6, ReopenStep DEF D!Next
<1>7. CASE UNCHANGED vars
  <2>1. bt' = bt /\ call' = call /\ result' = result
    BY <1>7 DEF vars
  <2>2. Shows(bt, bt')
    BY <2>1 DEF Shows
  <2>3. Contents' = Contents /\ DInv'
    BY <1>1, <2>2, SameDict
  <2> QED
    BY <2>1, <2>3 DEF D!vars
<1> QED
  BY <1>2, <1>3, <1>4, <1>5, <1>6, <1>7 DEF Next

(* A tree of any height, with any cache and list of dirty blocks, returns   *)
(* what a dictionary would, call by call, through splits, evictions,        *)
(* flushes and reopenings, as long as no key is stored that an inner block  *)
(* has (Rewrite) and nothing loaded was stored twice (Btree.store, fetch,   *)
(* firstkey, nextkey).                                                      *)
THEOREM IsDictionary ==
    ASSUME ~Rewrite, \A keys \in Loaded : IsInjective(keys)
    PROVE  Spec => ImplementsDictionary
<1>1. Init => DInv /\ D!Init
  BY InitDict
<1>2. DInv /\ [Next]_vars => DInv' /\ [D!Next]_(D!vars)
  BY NextDict
<1> QED
  BY <1>1, <1>2, PTL DEF Spec, ImplementsDictionary, D!Spec

=============================================================================
