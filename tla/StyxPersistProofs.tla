------------------------- MODULE StyxPersistProofs --------------------------
(***************************************************************************)
(* Proofs about the persistent Styx proxy of lab 78, for any clients,      *)
(* trees, refusing servers and number of lost connections, as long as the  *)
(* clients attach, walk, open, read and clunk (PlainOps).                  *)
(***************************************************************************)
EXTENDS StyxPersist, FiniteSetTheorems, WellFoundedInduction, SequenceTheorems, TLAPS

PlainOps == Ops \subseteq {"Attach", "Walk", "Open", "Read", "Clunk"}

Replies == [op : Ops, t : Client, ok : BOOLEAN]
ClientStates == [st : {"start", "attached", "walked", "opened"}, out : Ops \cup {None},
                 flushing : BOOLEAN, stray : BOOLEAN]

\* What a sequence of messages has, and that no two of them are of one client.
In(s) == {s[i] : i \in DOMAIN s}

Apart(a, b) == a = Readerror \/ b = Readerror \/ a.t # b.t

Single(s) == \A i, j \in DOMAIN s : i # j => Apart(s[i], s[j])

-----------------------------------------------------------------------------
(* Sequences. *)

LEMMA Appended ==
    ASSUME NEW S, NEW s \in Seq(S), NEW m \in S
    PROVE  /\ Append(s, m) \in Seq(S) /\ In(Append(s, m)) = In(s) \cup {m}
           /\ Single(s) /\ (\A k \in In(s) : Apart(k, m) /\ Apart(m, k)) => Single(Append(s, m))
<1> DEFINE d == Append(s, m)
<1>1. /\ Len(s) \in Nat /\ DOMAIN s = 1 .. Len(s) /\ d \in Seq(S)
      /\ DOMAIN d = 1 .. Len(s) + 1 /\ d[Len(s) + 1] = m
      /\ \A i \in 1 .. Len(s) : d[i] = s[i]
  OBVIOUS
<1> HIDE DEF d
<1>2. In(d) = In(s) \cup {m}
  <2>1. ASSUME NEW x \in In(d) PROVE x \in In(s) \cup {m}
    <3>1. PICK i \in 1 .. Len(s) + 1 : x = d[i]
      BY <1>1, <2>1 DEF In
    <3>2. CASE i = Len(s) + 1
      BY <1>1, <3>1, <3>2
    <3>3. CASE i \in 1 .. Len(s)
      BY <1>1, <3>1, <3>3 DEF In
    <3> QED
      BY <1>1, <3>2, <3>3
  <2>2. m \in In(d)
    <3>1. Len(s) + 1 \in DOMAIN d
      BY <1>1
    <3> QED
      BY <1>1, <3>1 DEF In
  <2>3. ASSUME NEW x \in In(s) PROVE x \in In(d)
    <3>1. PICK i \in 1 .. Len(s) : x = s[i]
      BY <1>1, <2>3 DEF In
    <3>2. i \in DOMAIN d /\ d[i] = x
      BY <1>1, <3>1
    <3> QED
      BY <3>2 DEF In
  <2> QED
    BY <2>1, <2>2, <2>3
<1>3. ASSUME Single(s), \A k \in In(s) : Apart(k, m) /\ Apart(m, k) PROVE Single(d)
  <2> SUFFICES ASSUME NEW i \in 1 .. Len(s) + 1, NEW j \in 1 .. Len(s) + 1, i # j
               PROVE  Apart(d[i], d[j])
    BY <1>1 DEF Single
  <2>1. CASE i \in 1 .. Len(s) /\ j \in 1 .. Len(s)
    BY <1>1, <1>3, <2>1 DEF Single
  <2>2. CASE i = Len(s) + 1
    <3>1. j \in 1 .. Len(s)
      BY <1>1, <2>2
    <3>2. s[j] \in In(s)
      BY <1>1, <3>1 DEF In
    <3> QED
      BY <1>1, <1>3, <2>2, <3>1, <3>2
  <2>3. CASE j = Len(s) + 1
    <3>1. i \in 1 .. Len(s)
      BY <1>1, <2>3
    <3>2. s[i] \in In(s)
      BY <1>1, <3>1 DEF In
    <3> QED
      BY <1>1, <1>3, <2>3, <3>1, <3>2
  <2> QED
    BY <1>1, <2>1, <2>2, <2>3
<1> QED
  BY <1>1, <1>2, <1>3 DEF d

LEMMA Taken ==
    ASSUME NEW S, NEW s \in Seq(S), s # <<>>
    PROVE  /\ Tail(s) \in Seq(S) /\ Head(s) \in S
           /\ In(s) = In(Tail(s)) \cup {Head(s)}
           /\ Single(s) => /\ Single(Tail(s))
                           /\ \A k \in In(Tail(s)) : Apart(k, Head(s)) /\ Apart(Head(s), k)
<1> DEFINE d == Tail(s)
<1>1. /\ Len(s) \in Nat /\ Len(s) >= 1 /\ DOMAIN s = 1 .. Len(s) /\ d \in Seq(S)
      /\ DOMAIN d = 1 .. Len(s) - 1 /\ Head(s) = s[1] /\ s[1] \in S
      /\ \A i \in 1 .. Len(s) - 1 : d[i] = s[i + 1]
  OBVIOUS
<1> HIDE DEF d
<1>2. In(s) = In(d) \cup {s[1]}
  <2>1. ASSUME NEW x \in In(s) PROVE x \in In(d) \cup {s[1]}
    <3>1. PICK i \in 1 .. Len(s) : x = s[i]
      BY <1>1, <2>1 DEF In
    <3>2. CASE i = 1
      BY <3>1, <3>2
    <3>3. CASE i # 1
      <4>1. i - 1 \in 1 .. Len(s) - 1 /\ (i - 1) + 1 = i
        BY <1>1, <3>3
      <4>2. d[i - 1] = x
        BY <1>1, <3>1, <4>1
      <4> QED
        BY <1>1, <4>1, <4>2 DEF In
    <3> QED
      BY <3>2, <3>3
  <2>2. s[1] \in In(s)
    <3>1. 1 \in DOMAIN s
      BY <1>1
    <3> QED
      BY <3>1 DEF In
  <2>3. ASSUME NEW x \in In(d) PROVE x \in In(s)
    <3>1. PICK i \in 1 .. Len(s) - 1 : x = d[i]
      BY <1>1, <2>3 DEF In
    <3>2. i + 1 \in DOMAIN s /\ s[i + 1] = x
      BY <1>1, <3>1
    <3> QED
      BY <3>2 DEF In
  <2> QED
    BY <2>1, <2>2, <2>3
<1>3. ASSUME Single(s) PROVE Single(d)
  <2> SUFFICES ASSUME NEW i \in 1 .. Len(s) - 1, NEW j \in 1 .. Len(s) - 1, i # j
               PROVE  Apart(d[i], d[j])
    BY <1>1 DEF Single
  <2>1. i + 1 \in DOMAIN s /\ j + 1 \in DOMAIN s /\ i + 1 # j + 1
    BY <1>1
  <2> QED
    BY <1>1, <1>3, <2>1 DEF Single
<1>4. ASSUME Single(s), NEW k \in In(d) PROVE Apart(k, s[1]) /\ Apart(s[1], k)
  <2>1. PICK i \in 1 .. Len(s) - 1 : k = d[i]
    BY <1>1 DEF In
  <2>2. i + 1 \in DOMAIN s /\ 1 \in DOMAIN s /\ i + 1 # 1 /\ s[i + 1] = k
    BY <1>1, <2>1
  <2> QED
    BY <1>4, <2>2 DEF Single
<1> QED
  BY <1>1, <1>2, <1>3, <1>4 DEF d

LEMMA Removed ==
    ASSUME NEW S, NEW s \in Seq(S), NEW i \in DOMAIN s
    PROVE  /\ RemoveAt(s, i) \in Seq(S)
           /\ In(s) = In(RemoveAt(s, i)) \cup {s[i]}
           /\ Single(s) => /\ Single(RemoveAt(s, i))
                           /\ \A k \in In(RemoveAt(s, i)) : Apart(k, s[i])
<1> DEFINE a == SubSeq(s, 1, i - 1)
           c == SubSeq(s, i + 1, Len(s))
           d == a \o c
<1>0. Len(s) \in Nat /\ DOMAIN s = 1 .. Len(s) /\ i \in 1 .. Len(s)
  OBVIOUS
<1>1. a \in Seq(S) /\ Len(a) = i - 1 /\ \A j \in 1 .. i - 1 : a[j] = s[j]
  BY <1>0, SubSeqProperties
<1>2. c \in Seq(S) /\ Len(c) = Len(s) - i /\ \A j \in 1 .. Len(s) - i : c[j] = s[i + j]
  BY <1>0, SubSeqProperties
<1> HIDE DEF a, c
<1>c. /\ d \in Seq(S) /\ Len(d) = Len(a) + Len(c)
      /\ \A j \in 1 .. Len(a) + Len(c) : d[j] = IF j <= Len(a) THEN a[j] ELSE c[j - Len(a)]
  BY <1>1, <1>2, ConcatProperties
<1> HIDE DEF d
<1>l. Len(a) + Len(c) = Len(s) - 1
  BY <1>0, <1>1, <1>2
<1>3. /\ d \in Seq(S) /\ DOMAIN d = 1 .. Len(s) - 1
      /\ \A j \in 1 .. Len(s) - 1 : d[j] = IF j <= i - 1 THEN a[j] ELSE c[j - (i - 1)]
  BY <1>c, <1>l, <1>1
<1>4. \A j \in 1 .. Len(s) - 1 : d[j] = IF j < i THEN s[j] ELSE s[j + 1]
  <2> SUFFICES ASSUME NEW j \in 1 .. Len(s) - 1 PROVE d[j] = IF j < i THEN s[j] ELSE s[j + 1]
    OBVIOUS
  <2>1. CASE j < i
    <3>1. j \in 1 .. i - 1 /\ j <= i - 1
      BY <1>0, <2>1
    <3> QED
      BY <1>1, <1>3, <2>1, <3>1
  <2>2. CASE ~(j < i)
    <3>1. j - (i - 1) \in 1 .. Len(s) - i /\ i + (j - (i - 1)) = j + 1 /\ ~(j <= i - 1)
      BY <1>0, <2>2
    <3> QED
      BY <1>2, <1>3, <2>2, <3>1
  <2> QED
    BY <2>1, <2>2
<1> DEFINE from == [j \in 1 .. Len(s) - 1 |-> IF j < i THEN j ELSE j + 1]
<1>5. \A j \in DOMAIN d : from[j] \in DOMAIN s /\ from[j] # i /\ d[j] = s[from[j]]
  BY <1>0, <1>3, <1>4
<1>6. \A j, k \in DOMAIN d : from[j] = from[k] => j = k
  BY <1>0, <1>3
<1>7. ASSUME NEW k \in DOMAIN s, k # i PROVE s[k] \in In(d)
  <2>1. CASE k < i
    <3>1. k \in DOMAIN d /\ d[k] = s[k]
      BY <1>0, <1>3, <1>4, <2>1
    <3> QED
      BY <3>1 DEF In
  <2>2. CASE k > i
    <3>1. k - 1 \in DOMAIN d /\ ~(k - 1 < i) /\ (k - 1) + 1 = k
      BY <1>0, <1>3, <2>2
    <3>2. d[k - 1] = s[k]
      BY <1>3, <1>4, <3>1
    <3> QED
      BY <3>1, <3>2 DEF In
  <2> QED
    BY <1>0, <1>7, <2>1, <2>2
<1> HIDE DEF from
<1>8. In(s) = In(d) \cup {s[i]}
  BY <1>5, <1>7 DEF In
<1>9. ASSUME Single(s) PROVE Single(d) /\ \A k \in In(d) : Apart(k, s[i])
  <2>1. Single(d)
    BY <1>5, <1>6, <1>9 DEF Single
  <2>2. \A k \in In(d) : Apart(k, s[i])
    BY <1>5, <1>9 DEF Single, In
  <2> QED
    BY <2>1, <2>2
<1> QED
  BY <1>3, <1>8, <1>9 DEF d, a, c, RemoveAt

-----------------------------------------------------------------------------
(* What is computed in stages. *)

\* A set of natural numbers that is not empty has a least element.
LEMMA LeastElement ==
    ASSUME NEW S \in SUBSET Nat, S # {}
    PROVE  \E n \in S : \A m \in S : n <= m
<1> DEFINE R == {ss \in Nat \X Nat : ss[1] < ss[2]}
<1>1. IsWellFoundedOn(R, Nat)
  BY NatLessThanWellFounded DEF OpToRel
<1> HIDE DEF R
<1>2. PICK n \in S : \A m \in S : ~(<<m, n>> \in R)
  BY <1>1, WFMin
<1>3. \A m \in S : ~(m < n)
  BY <1>2 DEF R
<1> QED
  BY <1>3

\* What is computed in N stages, each from the one before, exists,
Stages(N, a, P, step) ==
    N \in Nat /\ a \in P[0] /\ \A n \in 1 .. N : \A x \in P[n - 1] : step[n][x] \in P[n]

Staged(N, a, P, step, f) ==
    /\ f = [n \in 0 .. N |-> f[n]]
    /\ f[0] = a /\ \A n \in 1 .. N : f[n] = step[n][f[n - 1]]
    /\ \A n \in 0 .. N : f[n] \in P[n]

LEMMA StagesExist ==
    ASSUME NEW N, NEW a, NEW P, NEW step, Stages(N, a, P, step)
    PROVE  \E f : Staged(N, a, P, step, f)
<1> USE DEF Stages, Staged
<1> DEFINE Upto(f, m) == /\ f = [n \in 0 .. m |-> f[n]]
                         /\ f[0] = a /\ \A n \in 1 .. m : f[n] = step[n][f[n - 1]]
                         /\ \A n \in 0 .. m : f[n] \in P[n]
           Bad == {m \in 0 .. N : ~ \E f : Upto(f, m)}
<1> SUFFICES Bad = {}
  BY N \in 0 .. N
<1> SUFFICES ASSUME Bad # {} PROVE FALSE
  OBVIOUS
<1>0. Bad \in SUBSET Nat
  OBVIOUS
<1> HIDE DEF Bad
<1>1. PICK m \in Bad : \A l \in Bad : m <= l
  BY <1>0, LeastElement
<1> USE DEF Bad
<1>2. m # 0
  <2> DEFINE f == [n \in 0 .. 0 |-> a]
  <2>1. f[0] = a /\ f = [n \in 0 .. 0 |-> f[n]] /\ (\A n \in 0 .. 0 : f[n] \in P[n])
    OBVIOUS
  <2>2. \A n \in 1 .. 0 : f[n] = step[n][f[n - 1]]
    OBVIOUS
  <2>3. Upto(f, 0)
    BY <2>1, <2>2
  <2> QED
    BY <2>3
<1>3. m - 1 \in 0 .. N /\ m \in 1 .. N
  BY <1>2
<1>4. PICK g : Upto(g, m - 1)
  BY <1>1, <1>3
<1> DEFINE f == [n \in 0 .. m |-> IF n = m THEN step[m][g[m - 1]] ELSE g[n]]
<1>5. \A n \in 0 .. m - 1 : f[n] = g[n]
  BY <1>3
<1>6. f[m] = step[m][g[m - 1]] /\ f[m - 1] = g[m - 1] /\ g[m - 1] \in P[m - 1]
  BY <1>3, <1>4, <1>5
<1>7. f = [n \in 0 .. m |-> f[n]]
  OBVIOUS
<1> HIDE DEF f
<1>8. f[0] = a
  BY <1>3, <1>4, <1>5
<1>9. \A n \in 1 .. m : f[n] = step[n][f[n - 1]]
  <2> SUFFICES ASSUME NEW n \in 1 .. m PROVE f[n] = step[n][f[n - 1]]
    OBVIOUS
  <2>1. CASE n = m
    BY <1>6, <2>1
  <2>2. CASE n # m
    <3>1. n \in 0 .. m - 1 /\ n - 1 \in 0 .. m - 1 /\ n \in 1 .. m - 1
      BY <1>3, <2>2
    <3>2. f[n] = g[n] /\ f[n - 1] = g[n - 1] /\ g[n] = step[n][g[n - 1]]
      BY <1>4, <1>5, <3>1
    <3> QED
      BY <3>2
  <2> QED
    BY <2>1, <2>2
<1>10. \A n \in 0 .. m : f[n] \in P[n]
  <2> SUFFICES ASSUME NEW n \in 0 .. m PROVE f[n] \in P[n]
    OBVIOUS
  <2>1. CASE n = m
    BY <1>3, <1>6, <2>1
  <2>2. CASE n # m
    <3>1. n \in 0 .. m - 1
      BY <1>3, <2>2
    <3> QED
      BY <1>4, <1>5, <3>1
  <2> QED
    BY <2>1, <2>2
<1> QED
  BY <1>7, <1>8, <1>9, <1>10

\* and what each stage keeps is true of all of them.
LEMMA StagesHold ==
    ASSUME NEW N \in Nat, NEW P, NEW f, f[0] \in P[0],
           \A n \in 1 .. N : f[n - 1] \in P[n - 1] => f[n] \in P[n]
    PROVE  \A n \in 0 .. N : f[n] \in P[n]
<1> DEFINE Bad == {m \in 0 .. N : f[m] \notin P[m]}
<1> SUFFICES ASSUME Bad # {} PROVE FALSE
  OBVIOUS
<1>0. Bad \in SUBSET Nat
  OBVIOUS
<1> HIDE DEF Bad
<1>1. PICK m \in Bad : \A l \in Bad : m <= l
  BY <1>0, LeastElement
<1> USE DEF Bad
<1>2. m \in 1 .. N /\ m - 1 \in 0 .. N
  OBVIOUS
<1>3. m - 1 \notin Bad
  BY <1>1, <1>2
<1>4. f[m - 1] \in P[m - 1]
  BY <1>2, <1>3
<1> QED
  BY <1>2, <1>4

-----------------------------------------------------------------------------
(* Filtering and answering. *)

\* Those of a sequence has what the sequence has of the set.
LEMMA Filtered ==
    ASSUME NEW S, NEW ms \in Seq(S), NEW set
    PROVE  /\ Those(ms, set) \in Seq(S)
           /\ In(Those(ms, set)) = In(ms) \cap set
           /\ Single(ms) => Single(Those(ms, set))
<1> DEFINE N == Len(ms)
           Q(n) == {q \in Seq(S) : /\ In(q) = {ms[i] : i \in 1 .. n} \cap set
                                   /\ Single(ms) => Single(q)}
           P == [n \in 0 .. N |-> Q(n)]
           step == [n \in 1 .. N |-> [q \in Seq(S) |-> IF ms[n] \in set THEN Append(q, ms[n]) ELSE q]]
           T[i \in 0 .. Len(ms)] ==
               IF i = 0 THEN <<>>
               ELSE IF ms[i] \in set THEN Append(T[i - 1], ms[i]) ELSE T[i - 1]
<1>1. /\ N \in Nat /\ DOMAIN ms = 1 .. N /\ \A n \in 1 .. N : ms[n] \in S
      /\ \A n \in 1 .. N : n - 1 \in 0 .. N /\ n \in 0 .. N /\ n # 0
      /\ 0 \in 0 .. N /\ N \in 0 .. N
  OBVIOUS
<1>2. <<>> \in Q(0)
  BY DEF In, Single
<1>3. ASSUME NEW n \in 1 .. N, NEW q \in Q(n - 1)
      PROVE  /\ q \in Seq(S)
             /\ (IF ms[n] \in set THEN Append(q, ms[n]) ELSE q) \in Q(n)
  <2> DEFINE before == {ms[i] : i \in 1 .. n - 1}
  <2>1. q \in Seq(S) /\ In(q) = before \cap set /\ (Single(ms) => Single(q))
    OBVIOUS
  <2>2. {ms[i] : i \in 1 .. n} = before \cup {ms[n]}
    <3>1. \A i \in 1 .. n : i \in 1 .. n - 1 \/ i = n
      BY <1>1
    <3>2. n \in 1 .. n /\ \A i \in 1 .. n - 1 : i \in 1 .. n
      BY <1>1
    <3> QED
      BY <3>1, <3>2
  <2>3. ASSUME Single(ms), NEW k \in before PROVE Apart(k, ms[n]) /\ Apart(ms[n], k)
    <3>1. PICK i \in 1 .. n - 1 : k = ms[i]
      BY <2>3
    <3>2. i \in DOMAIN ms /\ n \in DOMAIN ms /\ i # n
      BY <1>1
    <3> QED
      BY <2>3, <3>1, <3>2 DEF Single
  <2> HIDE DEF before
  <2>4. CASE ms[n] \in set
    <3>1. /\ Append(q, ms[n]) \in Seq(S) /\ In(Append(q, ms[n])) = In(q) \cup {ms[n]}
          /\ Single(q) /\ (\A k \in In(q) : Apart(k, ms[n]) /\ Apart(ms[n], k))
                => Single(Append(q, ms[n]))
      BY <1>1, <2>1, Appended
    <3>2. In(Append(q, ms[n])) = {ms[i] : i \in 1 .. n} \cap set
      BY <2>1, <2>2, <2>4, <3>1
    <3>3. Single(ms) => Single(Append(q, ms[n]))
      BY <2>1, <2>3, <3>1
    <3> QED
      BY <2>1, <2>4, <3>1, <3>2, <3>3
  <2>5. CASE ms[n] \notin set
    <3>1. In(q) = {ms[i] : i \in 1 .. n} \cap set
      BY <2>1, <2>2, <2>5
    <3> QED
      BY <2>1, <2>5, <3>1
  <2> QED
    BY <2>4, <2>5
<1>4. \A n \in 0 .. N : P[n] = Q(n)
  OBVIOUS
<1>5. \A n \in 1 .. N : \A q \in Seq(S) :
          step[n][q] = IF ms[n] \in set THEN Append(q, ms[n]) ELSE q
  OBVIOUS
<1>6. In(ms) = {ms[i] : i \in 1 .. N}
  BY <1>1 DEF In
<1>7. Q(N) = {q \in Seq(S) : In(q) = In(ms) \cap set /\ (Single(ms) => Single(q))}
  BY <1>6
<1> HIDE DEF N, Q, P, step
<1>8. Stages(N, <<>>, P, step)
  BY <1>1, <1>2, <1>3, <1>4, <1>5 DEF Stages
<1>9. PICK f : Staged(N, <<>>, P, step, f)
  BY <1>8, StagesExist
<1>10. /\ f = [n \in 0 .. N |-> f[n]]
       /\ f[0] = <<>> /\ \A n \in 1 .. N : f[n] = step[n][f[n - 1]]
       /\ \A n \in 0 .. N : f[n] \in Q(n)
  BY <1>4, <1>9 DEF Staged
<1>11. \A n \in 1 .. N : f[n] = IF ms[n] \in set THEN Append(f[n - 1], ms[n]) ELSE f[n - 1]
  BY <1>1, <1>3, <1>5, <1>10
<1>12. f = [n \in 0 .. N |-> IF n = 0 THEN <<>>
                             ELSE IF ms[n] \in set THEN Append(f[n - 1], ms[n]) ELSE f[n - 1]]
  <2>1. \A n \in 0 .. N : n = 0 \/ n \in 1 .. N
    BY <1>1
  <2>2. \A n \in 0 .. N : f[n] = IF n = 0 THEN <<>>
                                 ELSE IF ms[n] \in set THEN Append(f[n - 1], ms[n]) ELSE f[n - 1]
    BY <1>10, <1>11, <2>1
  <2> QED
    BY <1>10, <2>2
<1>13. T = [n \in 0 .. N |-> IF n = 0 THEN <<>>
                             ELSE IF ms[n] \in set THEN Append(T[n - 1], ms[n]) ELSE T[n - 1]]
  BY <1>12 DEF N
<1>14. Those(ms, set) = T[N]
  BY DEF Those, N
<1> HIDE DEF T
<1>15. /\ T[0] = <<>>
       /\ \A n \in 1 .. N : T[n] = IF ms[n] \in set THEN Append(T[n - 1], ms[n]) ELSE T[n - 1]
  BY <1>1, <1>13
<1>16. T[0] \in P[0]
  BY <1>1, <1>2, <1>4, <1>15
<1>17. \A n \in 1 .. N : T[n - 1] \in P[n - 1] => T[n] \in P[n]
  <2> SUFFICES ASSUME NEW n \in 1 .. N, T[n - 1] \in P[n - 1] PROVE T[n] \in P[n]
    OBVIOUS
  <2>1. T[n - 1] \in Q(n - 1)
    BY <1>1, <1>4
  <2>2. (IF ms[n] \in set THEN Append(T[n - 1], ms[n]) ELSE T[n - 1]) \in Q(n)
    BY <1>3, <2>1
  <2> QED
    BY <1>1, <1>4, <1>15, <2>2
<1>18. \A n \in 0 .. N : T[n] \in P[n]
  <2> HIDE DEF T, P
  <2> QED
    BY <1>1, <1>16, <1>17, StagesHold
<1>19. T[N] \in Q(N)
  BY <1>1, <1>4, <1>18
<1> QED
  BY <1>7, <1>14, <1>19

LEMMA ToldTyped ==
    ASSUME NEW c \in ClientStates, NEW r \in Replies
    PROVE  Told(c, r) \in ClientStates
<1> DEFINE s == After(c.st, [r EXCEPT !.op = c.out])
<1>1. s \in {"start", "attached", "walked", "opened"}
  BY DEF After, ClientStates
<1> HIDE DEF s
<1>2. [c EXCEPT !.flushing = FALSE, !.out = None] \in ClientStates
  BY DEF ClientStates
<1>3. [c EXCEPT !.stray = TRUE] \in ClientStates
  BY DEF ClientStates
<1>4. [c EXCEPT !.out = None, !.st = s] \in ClientStates
  BY <1>1 DEF ClientStates
<1>5. [c EXCEPT !.out = None, !.st = After(@, [r EXCEPT !.op = c.out])] \in ClientStates
  BY <1>4 DEF s
<1> QED
  BY <1>2, <1>3, <1>5 DEF Told

\* Replies to different clients leave each client what its reply leaves of it.
LEMMA Answered ==
    ASSUME NEW rs \in Seq(Replies), Single(rs), PlainOps, cl \in [Client -> ClientStates],
           Sendrmsg(rs)
    PROVE  /\ cl' \in [Client -> ClientStates]
           /\ \A r \in In(rs) : cl'[r.t] = Told(cl[r.t], r)
           /\ \A t \in Client : (\A r \in In(rs) : r.t # t) => cl'[t] = cl[t]
<1> DEFINE N == Len(rs)
           C == [Client -> ClientStates]
           Q(n) == {c \in C :
                      /\ \A i \in 1 .. n : c[rs[i].t] = Told(cl[rs[i].t], rs[i])
                      /\ \A t \in Client : (\A i \in 1 .. n : rs[i].t # t) => c[t] = cl[t]}
           P == [n \in 0 .. N |-> Q(n)]
           step == [n \in 1 .. N |-> [c \in C |-> [c EXCEPT ![rs[n].t] = Told(@, rs[n])]]]
           T[i \in 0 .. Len(rs)] ==
               IF i = 0 THEN cl ELSE [T[i - 1] EXCEPT ![rs[i].t] = Told(@, rs[i])]
<1>1. /\ N \in Nat /\ DOMAIN rs = 1 .. N /\ \A n \in 1 .. N : rs[n] \in Replies
      /\ \A n \in 1 .. N : n - 1 \in 0 .. N /\ n \in 0 .. N /\ n # 0
      /\ 0 \in 0 .. N /\ N \in 0 .. N
  OBVIOUS
<1>2. cl \in Q(0)
  OBVIOUS
<1>r. \A n \in 1 .. N : rs[n].t \in Client /\ rs[n] # Readerror
  <2> SUFFICES ASSUME NEW n \in 1 .. N PROVE rs[n].t \in Client /\ rs[n] # Readerror
    OBVIOUS
  <2>1. rs[n].t \in Client /\ rs[n].op \in Ops
    BY <1>1 DEF Replies
  <2>2. Readerror.op \notin Ops
    BY DEF PlainOps, Readerror
  <2> QED
    BY <2>1, <2>2
<1>3. ASSUME NEW n \in 1 .. N, NEW c \in Q(n - 1)
      PROVE  c \in C /\ [c EXCEPT ![rs[n].t] = Told(@, rs[n])] \in Q(n)
  <2>1. /\ c \in C
        /\ \A i \in 1 .. n - 1 : c[rs[i].t] = Told(cl[rs[i].t], rs[i])
        /\ \A t \in Client : (\A i \in 1 .. n - 1 : rs[i].t # t) => c[t] = cl[t]
    OBVIOUS
  <2>2. \A i \in 1 .. n - 1 : rs[i].t # rs[n].t
    <3> SUFFICES ASSUME NEW i \in 1 .. n - 1 PROVE rs[i].t # rs[n].t
      OBVIOUS
    <3>1. i \in DOMAIN rs /\ n \in DOMAIN rs /\ i # n /\ i \in 1 .. N
      BY <1>1
    <3>2. Apart(rs[i], rs[n])
      BY <3>1 DEF Single
    <3> QED
      BY <1>r, <3>1, <3>2 DEF Apart
  <2>3. c[rs[n].t] = cl[rs[n].t]
    BY <1>r, <2>1, <2>2
  <2> DEFINE d == [c EXCEPT ![rs[n].t] = Told(c[rs[n].t], rs[n])]
  <2>4. d \in C
    <3>1. Told(c[rs[n].t], rs[n]) \in ClientStates
      BY <1>1, <1>r, <2>1, ToldTyped
    <3> QED
      BY <1>r, <2>1, <3>1
  <2>5. d[rs[n].t] = Told(cl[rs[n].t], rs[n])
    BY <1>r, <2>1, <2>3
  <2>6. \A t \in Client : t # rs[n].t => d[t] = c[t]
    BY <2>1
  <2> HIDE DEF d
  <2>7. \A i \in 1 .. n : d[rs[i].t] = Told(cl[rs[i].t], rs[i])
    <3> SUFFICES ASSUME NEW i \in 1 .. n PROVE d[rs[i].t] = Told(cl[rs[i].t], rs[i])
      OBVIOUS
    <3>1. CASE i = n
      BY <2>5, <3>1
    <3>2. CASE i # n
      <4>1. i \in 1 .. n - 1 /\ i \in 1 .. N
        BY <1>1, <3>2
      <4> QED
        BY <1>r, <2>1, <2>2, <2>6, <4>1
    <3> QED
      BY <3>1, <3>2
  <2>8. \A t \in Client : (\A i \in 1 .. n : rs[i].t # t) => d[t] = cl[t]
    <3> SUFFICES ASSUME NEW t \in Client, \A i \in 1 .. n : rs[i].t # t PROVE d[t] = cl[t]
      OBVIOUS
    <3>1. n \in 1 .. n /\ \A i \in 1 .. n - 1 : i \in 1 .. n
      BY <1>1
    <3>2. rs[n].t # t /\ \A i \in 1 .. n - 1 : rs[i].t # t
      BY <3>1
    <3> QED
      BY <2>1, <2>6, <3>2
  <2>9. d \in Q(n)
    BY <2>4, <2>7, <2>8
  <2> QED
    BY <2>1, <2>9 DEF d
<1>4. \A n \in 0 .. N : P[n] = Q(n)
  OBVIOUS
<1>5. \A n \in 1 .. N : \A c \in C : step[n][c] = [c EXCEPT ![rs[n].t] = Told(@, rs[n])]
  OBVIOUS
<1>6. \A c \in Q(N) : /\ c \in C
                      /\ \A r \in In(rs) : c[r.t] = Told(cl[r.t], r)
                      /\ \A t \in Client : (\A r \in In(rs) : r.t # t) => c[t] = cl[t]
  BY <1>1, SMTT(60) DEF In
<1> HIDE DEF N, Q, P, step, C
<1>8. Stages(N, cl, P, step)
  <2>1. cl \in P[0]
    BY <1>1, <1>2, <1>4
  <2>2. ASSUME NEW n \in 1 .. N, NEW c \in P[n - 1] PROVE step[n][c] \in P[n]
    <3>1. c \in Q(n - 1)
      BY <1>1, <1>4, <2>2
    <3>2. c \in C /\ [c EXCEPT ![rs[n].t] = Told(@, rs[n])] \in Q(n)
      BY <1>3, <3>1
    <3>3. step[n][c] = [c EXCEPT ![rs[n].t] = Told(@, rs[n])]
      BY <1>5, <3>2
    <3> QED
      BY <1>1, <1>4, <3>2, <3>3
  <2> QED
    BY <1>1, <2>1, <2>2 DEF Stages
<1>9. PICK f : Staged(N, cl, P, step, f)
  BY <1>8, StagesExist
<1>10. /\ f = [n \in 0 .. N |-> f[n]]
       /\ f[0] = cl /\ \A n \in 1 .. N : f[n] = step[n][f[n - 1]]
       /\ \A n \in 0 .. N : f[n] \in Q(n)
  BY <1>4, <1>9 DEF Staged
<1>11. \A n \in 1 .. N : f[n] = [f[n - 1] EXCEPT ![rs[n].t] = Told(@, rs[n])]
  BY <1>1, <1>3, <1>5, <1>10
<1>12. f = [n \in 0 .. N |-> IF n = 0 THEN cl
                             ELSE [f[n - 1] EXCEPT ![rs[n].t] = Told(@, rs[n])]]
  <2>1. \A n \in 0 .. N : n = 0 \/ n \in 1 .. N
    BY <1>1
  <2>2. \A n \in 0 .. N : f[n] = IF n = 0 THEN cl
                                 ELSE [f[n - 1] EXCEPT ![rs[n].t] = Told(@, rs[n])]
    BY <1>10, <1>11, <2>1
  <2> QED
    BY <1>10, <2>2
<1>13. T = [n \in 0 .. N |-> IF n = 0 THEN cl
                             ELSE [T[n - 1] EXCEPT ![rs[n].t] = Told(@, rs[n])]]
  BY <1>12 DEF N
<1>14. cl' = T[N]
  BY DEF Sendrmsg, N
<1> HIDE DEF T
<1>15. /\ T[0] = cl
       /\ \A n \in 1 .. N : T[n] = [T[n - 1] EXCEPT ![rs[n].t] = Told(@, rs[n])]
  BY <1>1, <1>13
<1>16. T[0] \in P[0]
  BY <1>1, <1>2, <1>4, <1>15
<1>17. \A n \in 1 .. N : T[n - 1] \in P[n - 1] => T[n] \in P[n]
  <2> SUFFICES ASSUME NEW n \in 1 .. N, T[n - 1] \in P[n - 1] PROVE T[n] \in P[n]
    OBVIOUS
  <2>1. T[n - 1] \in Q(n - 1)
    BY <1>1, <1>4
  <2>2. [T[n - 1] EXCEPT ![rs[n].t] = Told(@, rs[n])] \in Q(n)
    BY <1>3, <2>1
  <2> QED
    BY <1>1, <1>4, <1>15, <2>2
<1>18. \A n \in 0 .. N : T[n] \in P[n]
  BY <1>1, <1>16, <1>17, StagesHold
<1>19. T[N] \in Q(N)
  BY <1>1, <1>4, <1>18
<1> QED
  BY <1>6, <1>14, <1>19 DEF C

LEMMA AnsweredOne ==
    ASSUME NEW r \in Replies, PlainOps, cl \in [Client -> ClientStates], Sendrmsg(<<r>>)
    PROVE  /\ cl' \in [Client -> ClientStates]
           /\ cl'[r.t] = Told(cl[r.t], r)
           /\ \A t \in Client : t # r.t => cl'[t] = cl[t]
<1>1. <<r>> \in Seq(Replies) /\ In(<<r>>) = {r} /\ Single(<<r>>)
  BY DEF In, Single
<1> QED
  BY <1>1, Answered

-----------------------------------------------------------------------------
(* The invariant. *)

Answers == In(rmsg) \ {Readerror}
Asked(r) == [op |-> r.op, t |-> r.t]

Roots == [attached : -1 .. 1, aname : {Aname[t] : t \in Client} \cup {None}]

Typed ==
    /\ pc \in {"connect", "alt", "fids", "dead"}
    /\ version \in {"offered", "lost", "done"}
    /\ tags \in Seq(Messages) /\ reqs \in Seq(Messages) /\ work \subseteq Messages
    /\ tmsg \in Seq(Messages) /\ rmsg \in Seq(Replies \cup {Readerror})
    /\ fids \in [Fids -> FidStates \cup {None}]
    /\ sfids \in [Fids -> ServerFids \cup {None}]
    /\ todo \subseteq InTable
    /\ root \in Roots
    /\ up \in BOOLEAN
    /\ cl \in [Client -> ClientStates]
    /\ fate \in [Fids -> {"live", "refused", "lost"}] /\ hangups \in 0 .. MaxHangups

\* The connection: what is lost with it, and where run() is.
Connection ==
    /\ ~up => reqs = <<>> /\ work = {}
    /\ up => Readerror \notin In(rmsg)
    /\ \A i \in DOMAIN rmsg : rmsg[i] = Readerror => i = Len(rmsg)
    /\ pc = "alt" /\ ~up => rmsg # <<>> /\ Last(rmsg) = Readerror
    /\ pc \in {"connect", "fids"} => reqs = <<>> /\ work = {} /\ rmsg = <<>>
    /\ pc = "connect" => ~up
    /\ pc = "fids" => up
    /\ pc # "connect" => version = "done"
    /\ version # "done" => \A t \in Client : cl[t].st = "start" /\ cl[t].out = None
    /\ pc = "alt" \/ version # "done" => todo = {}

\* Every request a client waits for is in one place on the way to the proxy or
\* in its Tag table, and what is in the table is in one place beyond it.
Alone == Single(tmsg) /\ Single(tags) /\ Single(reqs) /\ Single(rmsg)

Waited ==
    /\ \A m \in In(tmsg) : m.op = cl[m.t].out
    /\ \A m \in In(tags) : m.op = cl[m.t].out
    /\ \A m \in In(tmsg), k \in In(tags) : m.t # k.t
    /\ \A t \in Client : cl[t].out # None =>
          [op |-> cl[t].out, t |-> t] \in In(tmsg) \cup In(tags)

Beyond ==
    /\ In(reqs) \subseteq In(tags) /\ work \subseteq In(tags)
    /\ \A r \in Answers : Asked(r) \in In(tags)
    /\ In(reqs) \cap work = {}
    /\ \A r \in Answers : Asked(r) \notin In(reqs) /\ Asked(r) \notin work
    /\ \A m \in work : m.op = "Read"
    /\ pc = "alt" /\ up =>
          \A m \in In(tags) : m \in In(reqs) \/ m \in work \/ \E r \in Answers : Asked(r) = m

FidOK(f) ==
    fids[f] # None =>
        /\ fids[f].aname = Aname[f[1]]
        /\ f[2] = "root" => fids[f].path = "/" /\ fids[f].qid = "/" /\ fids[f].state # "OPEN"
        /\ f[2] = "file" => fids[f].path = "a" /\ fids[f].qid = "a"
        /\ fids[f].state = "DEAD" => fate[f] # "live"

\* What a client knows of its fids and may ask, with its Fid table entries.
Agreed(c, r, f) ==
    /\ c.out \in {None} \cup Allowed(c.st)
    /\ c.st = "start" => r = None /\ f = None
    /\ c.st # "start" => r # None
    /\ c.st = "attached" => f = None \/ f.state = "DEAD"
    /\ c.st = "walked" => f # None /\ f.state \in {"NOTOPEN", "DEAD"}
    /\ c.st = "opened" => f # None /\ f.state \in {"OPEN", "DEAD"}

SessionOK(t) == Agreed(cl[t], fids[RootFid(t)], fids[FileFid(t)])

\* What the server holds for an entry, and what a reply makes of an entry.
View(f, x) == IF x = None THEN None ELSE File(f[1], x.path, x.state = "OPEN")

Later(f, r, x) ==
    IF r.op = "Clunk" THEN IF f = FileFid(r.t) THEN None ELSE x
    ELSE IF ~r.ok THEN x
    ELSE IF r.op = "Attach" /\ f = RootFid(r.t) THEN Walked(r.t, "/")
    ELSE IF r.op = "Walk" /\ f = FileFid(r.t) THEN Walked(r.t, "a")
    ELSE IF r.op = "Open" /\ f = FileFid(r.t) THEN [x EXCEPT !.state = "OPEN"]
    ELSE x

\* The server is ahead of the Fid table by the answers under way.
Ahead(f) ==
    /\ (\A r \in Answers : r.t # f[1]) => sfids[f] = View(f, fids[f])
    /\ \A r \in Answers : r.t = f[1] => sfids[f] = View(f, Later(f, r, fids[f]))

ServerOK(f) ==
    /\ ~up => sfids[f] = None
    /\ pc = "fids" /\ (f \in todo \/ fids[f] = None) => sfids[f] = None
    /\ fate[f] = "live" /\ pc = "fids" /\ f \notin todo => sfids[f] = View(f, fids[f])
    /\ fate[f] = "live" /\ pc = "alt" /\ up => Ahead(f)

\* A fid whose Tclunk was answered while the fid was given up stays in the table.
NoZombies ==
    "Clunk" \notin Ops =>
        pc # "dead" /\ \A t \in Client : cl[t].st = "attached" => fids[FileFid(t)] = None

Running ==
    /\ Connection /\ Alone /\ Waited /\ Beyond
    /\ \A f \in Fids : FidOK(f) /\ ServerOK(f)
    /\ \A t \in Client : SessionOK(t)

PersistInv == Typed /\ NoStrayReply /\ NoZombies /\ (pc # "dead" => Running)

-----------------------------------------------------------------------------
(* Messages and fids. *)

LEMMA MessageFacts ==
    ASSUME PlainOps
    PROVE  /\ Ops \subseteq {"Attach", "Walk", "Open", "Read", "Clunk"} /\ None \notin Ops
           /\ \A m \in Messages : /\ m.op \in Ops /\ m.t \in Client /\ m # Readerror
                                  /\ m = [op |-> m.op, t |-> m.t]
           /\ \A op \in Ops, t \in Client : [op |-> op, t |-> t] \in Messages
           /\ \A r \in Replies : /\ r.op \in Ops /\ r.t \in Client /\ r.ok \in BOOLEAN
                                 /\ r # Readerror
                                 /\ Asked(r) \in Messages /\ Asked(r).t = r.t /\ Asked(r).op = r.op
                                 /\ Reply(Asked(r), r.ok) = r
           /\ \A m \in Messages, ok \in BOOLEAN :
                 /\ Reply(m, ok) \in Replies /\ Asked(Reply(m, ok)) = m
                 /\ Reply(m, ok).t = m.t /\ Reply(m, ok).op = m.op /\ Reply(m, ok).ok = ok
<1>1. Ops \subseteq {"Attach", "Walk", "Open", "Read", "Clunk"} /\ None \notin Ops
  BY NoneAssumption DEF PlainOps
<1>2. Readerror.op \notin Ops
  BY <1>1 DEF Readerror
<1>3. \A m \in Messages : /\ m.op \in Ops /\ m.t \in Client /\ m # Readerror
                          /\ m = [op |-> m.op, t |-> m.t]
  BY <1>2 DEF Messages
<1>4. \A op \in Ops, t \in Client : [op |-> op, t |-> t] \in Messages
  BY DEF Messages
<1>5. \A r \in Replies : /\ r.op \in Ops /\ r.t \in Client /\ r.ok \in BOOLEAN
                         /\ r # Readerror /\ r = [op |-> r.op, t |-> r.t, ok |-> r.ok]
  BY <1>2 DEF Replies
<1>6. \A r \in Replies : /\ Asked(r) \in Messages /\ Asked(r).t = r.t /\ Asked(r).op = r.op
                         /\ Reply(Asked(r), r.ok) = r
  BY <1>4, <1>5 DEF Asked, Reply
<1>7. \A m \in Messages, ok \in BOOLEAN :
         /\ Reply(m, ok) \in Replies /\ Asked(Reply(m, ok)) = m
         /\ Reply(m, ok).t = m.t /\ Reply(m, ok).op = m.op /\ Reply(m, ok).ok = ok
  BY <1>3 DEF Asked, Reply, Replies
<1> QED
  BY <1>1, <1>3, <1>4, <1>5, <1>6, <1>7

LEMMA FidFacts ==
    /\ \A t \in Client : /\ FileFid(t) \in Fids /\ FileFid(t)[1] = t /\ FileFid(t)[2] = "file"
                         /\ RootFid(t) \in Fids /\ RootFid(t)[1] = t /\ RootFid(t)[2] = "root"
    /\ \A f \in Fids : f[1] \in Client /\ (f = RootFid(f[1]) \/ f = FileFid(f[1]))
    /\ \A t, u \in Client : /\ RootFid(t) # FileFid(u)
                            /\ (FileFid(t) = FileFid(u) => t = u) /\ (RootFid(t) = RootFid(u) => t = u)
    /\ None \notin FidStates /\ None \notin ServerFids
    /\ \A t \in Client : /\ Aname[t] \in {Aname[u] : u \in Client}
                         /\ Walked(t, "/") \in FidStates /\ Walked(t, "a") \in FidStates
                         /\ File(t, "/", FALSE) \in ServerFids /\ File(t, "a", FALSE) \in ServerFids
<1>1. \A t \in Client : /\ FileFid(t) \in Fids /\ FileFid(t)[1] = t /\ FileFid(t)[2] = "file"
                        /\ RootFid(t) \in Fids /\ RootFid(t)[1] = t /\ RootFid(t)[2] = "root"
  BY DEF FileFid, RootFid, Fids
<1>2. \A f \in Fids : f[1] \in Client /\ (f = RootFid(f[1]) \/ f = FileFid(f[1]))
  BY DEF FileFid, RootFid, Fids
<1>3. \A t, u \in Client :
         /\ RootFid(t) # FileFid(u)
         /\ (FileFid(t) = FileFid(u) => t = u) /\ (RootFid(t) = RootFid(u) => t = u)
  BY DEF FileFid, RootFid
<1>4. None \notin FidStates /\ None \notin ServerFids
  BY NoneAssumption
<1>5. \A t \in Client : Aname[t] \in {Aname[u] : u \in Client}
  OBVIOUS
<1>6. \A t \in Client : Walked(t, "/") \in FidStates /\ Walked(t, "a") \in FidStates
  BY <1>5 DEF Walked, FidStates
<1>7. \A t \in Client : File(t, "/", FALSE) \in ServerFids /\ File(t, "a", FALSE) \in ServerFids
  BY <1>5 DEF File, ServerFids
<1> QED
  BY <1>1, <1>2, <1>3, <1>4, <1>5, <1>6, <1>7

LEMMA ToldWaited ==
    ASSUME NEW c \in ClientStates, NEW r \in Replies, r.op = c.out, r.op # "Flush"
    PROVE  /\ Told(c, r).out = None /\ Told(c, r).st = After(c.st, r)
           /\ Told(c, r).stray = c.stray
<1>1. [r EXCEPT !.op = c.out] = r
  BY DEF Replies
<1>2. Told(c, r) = [c EXCEPT !.out = None, !.st = After(@, r)]
  BY <1>1 DEF Told
<1> QED
  BY <1>2 DEF ClientStates

\* Two messages of one client in a sequence are the same.
LEMMA OneOf ==
    ASSUME NEW s, Single(s), NEW a \in In(s), NEW b \in In(s), a # Readerror, b # Readerror,
           a.t = b.t
    PROVE  a = b
BY DEF In, Single, Apart

LEMMA HandledAt ==
    ASSUME PlainOps, Typed, NEW r \in Replies
    PROVE  /\ (r.op = "Open" => fids[FileFid(r.t)] # None)
                 => HandledFids(r) \in [Fids -> FidStates \cup {None}]
           /\ \A f \in Fids : HandledFids(r)[f] = Later(f, r, fids[f])
<1>1. r.op \in {"Attach", "Walk", "Open", "Read", "Clunk"} /\ r.t \in Client
  BY MessageFacts
<1>2. fids \in [Fids -> FidStates \cup {None}]
  BY DEF Typed
<1>3. \A t \in Client : /\ FileFid(t) \in Fids /\ RootFid(t) \in Fids
                        /\ Walked(t, "/") \in FidStates /\ Walked(t, "a") \in FidStates
  BY FidFacts
<1>4. CASE r.op = "Clunk"
  BY <1>1, <1>2, <1>3, <1>4 DEF HandledFids, Later
<1>5. CASE r.op # "Clunk" /\ ~r.ok
  BY <1>1, <1>2, <1>5 DEF HandledFids, Later
<1>6. CASE r.ok /\ r.op = "Attach"
  <2>1. HandledFids(r) = [fids EXCEPT ![RootFid(r.t)] = Walked(r.t, "/")]
    BY <1>6 DEF HandledFids
  <2> QED
    BY <1>1, <1>2, <1>3, <1>6, <2>1 DEF Later
<1>7. CASE r.ok /\ r.op = "Walk"
  <2>1. HandledFids(r) = [fids EXCEPT ![FileFid(r.t)] = Walked(r.t, "a")]
    BY <1>7 DEF HandledFids
  <2> QED
    BY <1>1, <1>2, <1>3, <1>7, <2>1 DEF Later
<1>8. CASE r.ok /\ r.op = "Open"
  <2>1. HandledFids(r) = [fids EXCEPT ![FileFid(r.t)].state = "OPEN"]
    BY <1>8 DEF HandledFids
  <2>2. ASSUME fids[FileFid(r.t)] # None
        PROVE  [fids[FileFid(r.t)] EXCEPT !.state = "OPEN"] \in FidStates
    <3>1. fids[FileFid(r.t)] \in FidStates
      BY <1>1, <1>2, <1>3, <2>2
    <3> QED
      BY <3>1 DEF FidStates
  <2> QED
    BY <1>1, <1>2, <1>3, <1>8, <2>1, <2>2 DEF Later
<1>9. CASE r.ok /\ r.op = "Read"
  <2>1. HandledFids(r) = fids
    BY <1>9 DEF HandledFids
  <2> QED
    BY <1>1, <1>2, <1>9, <2>1 DEF Later
<1> QED
  BY <1>1, <1>4, <1>5, <1>6, <1>7, <1>8, <1>9

-----------------------------------------------------------------------------
(* The invariant holds at first and is kept by every step. *)

LEMMA PersistStarts == ASSUME PlainOps, Init PROVE PersistInv
<1>1. Typed
  <2>1. cl \in [Client -> ClientStates] /\ None \in Ops \cup {None}
    BY DEF Init, ClientStates
  <2>2. /\ tags \in Seq(Messages) /\ reqs \in Seq(Messages) /\ tmsg \in Seq(Messages)
        /\ rmsg \in Seq(Replies \cup {Readerror})
    BY DEF Init
  <2>3. hangups \in 0 .. MaxHangups /\ root \in Roots
    BY StyxPersistAssumption DEF Init, NoRoot, Roots
  <2> QED
    BY <2>1, <2>2, <2>3 DEF Init, Typed
<1>2. NoStrayReply
  BY DEF Init, NoStrayReply
<1>3. NoZombies
  BY FidFacts DEF Init, NoZombies
<1>4. Connection
  BY DEF Init, Connection, In
<1>5. Alone
  BY DEF Init, Alone, Single
<1>6. Waited /\ Beyond
  <2>1. In(tmsg) = {} /\ In(tags) = {} /\ In(reqs) = {} /\ In(rmsg) = {} /\ work = {}
    BY DEF Init, In
  <2>2. \A t \in Client : cl[t].out = None
    BY DEF Init
  <2> QED
    BY <2>1, <2>2 DEF Waited, Beyond, Answers
<1>7. \A f \in Fids : FidOK(f) /\ ServerOK(f)
  BY DEF Init, FidOK, ServerOK
<1>8. \A t \in Client : SessionOK(t)
  BY FidFacts DEF Init, SessionOK, Agreed
<1> QED
  BY <1>1, <1>2, <1>3, <1>4, <1>5, <1>6, <1>7, <1>8 DEF PersistInv, Running

LEMMA RequestKeeps ==
    ASSUME PlainOps, PersistInv, NEW t \in Client, NEW op \in Ops, Request(t, op)
    PROVE  PersistInv'
<1> DEFINE m == [op |-> op, t |-> t]
<1>1. /\ op \in Allowed(cl[t].st) /\ cl[t].out = None /\ version = "done"
      /\ tmsg' = Append(tmsg, m) /\ cl' = [cl EXCEPT ![t].out = op]
      /\ UNCHANGED <<proxyVars, serverVars, fate, hangups>>
  BY DEF Request
<1>2. /\ UNCHANGED <<pc, version, tags, fids, todo, root>> /\ UNCHANGED <<up, reqs, work>>
      /\ UNCHANGED <<rmsg, sfids, fate, hangups>>
  BY <1>1 DEF proxyVars, serverVars
<1>3. Typed /\ cl \in [Client -> ClientStates] /\ tmsg \in Seq(Messages) /\ None \notin Ops
  BY MessageFacts DEF PersistInv, Typed
<1>4. /\ cl'[t].out = op /\ cl'[t].st = cl[t].st /\ cl'[t].stray = cl[t].stray
      /\ cl'[t] \in ClientStates /\ cl' \in [Client -> ClientStates]
      /\ \A u \in Client : u # t => cl'[u] = cl[u]
  <2>1. [cl[t] EXCEPT !.out = op] \in ClientStates
    BY <1>3 DEF ClientStates
  <2> QED
    BY <1>1, <1>3, <2>1 DEF ClientStates
<1>5. m \in Messages /\ m.op = op /\ m.t = t
  BY DEF Messages
<1> HIDE DEF m
<1>6. /\ tmsg' \in Seq(Messages) /\ In(tmsg') = In(tmsg) \cup {m}
      /\ Single(tmsg) /\ (\A k \in In(tmsg) : Apart(k, m) /\ Apart(m, k)) => Single(tmsg')
  BY <1>1, <1>3, <1>5, Appended
<1>7. Typed'
  BY <1>2, <1>3, <1>4, <1>6 DEF Typed, InTable
<1>8. NoStrayReply'
  BY <1>4 DEF PersistInv, NoStrayReply
<1>9. NoZombies'
  BY <1>2, <1>4 DEF PersistInv, NoZombies
<1>10. ASSUME pc' # "dead" PROVE Running'
  <2>1. pc # "dead" /\ Running
    BY <1>2, <1>10 DEF PersistInv
  <2>2. Connection'
    BY <1>1, <1>2, <2>1 DEF Running, Connection
  <2>3. \A k \in In(tmsg) \cup In(tags) : k \in Messages /\ k.t # t
    <3>1. \A k \in In(tmsg) \cup In(tags) : k \in Messages
      BY <1>3 DEF Typed, In
    <3>2. \A k \in In(tmsg) \cup In(tags) : k.op = cl[k.t].out /\ k.op \in Ops
      BY <2>1, <3>1, MessageFacts DEF Running, Waited
    <3> QED
      BY <1>1, <1>3, <3>1, <3>2
  <2>4. Alone'
    <3>1. \A k \in In(tmsg) : Apart(k, m) /\ Apart(m, k)
      BY <1>5, <2>3 DEF Apart
    <3> QED
      BY <1>2, <1>6, <2>1, <3>1 DEF Running, Alone
  <2>5. Waited'
    <3>1. \A k \in In(tmsg') : k.op = cl'[k.t].out
      BY <1>4, <1>5, <1>6, <2>1, <2>3, MessageFacts DEF Running, Waited
    <3>2. \A k \in In(tags) : k.op = cl'[k.t].out
      BY <1>4, <2>1, <2>3, MessageFacts DEF Running, Waited
    <3>3. \A k \in In(tmsg'), l \in In(tags) : k.t # l.t
      BY <1>5, <1>6, <2>1, <2>3 DEF Running, Waited
    <3>4. \A u \in Client : cl'[u].out # None =>
              [op |-> cl'[u].out, t |-> u] \in In(tmsg') \cup In(tags)
      <4> SUFFICES ASSUME NEW u \in Client, cl'[u].out # None
                   PROVE  [op |-> cl'[u].out, t |-> u] \in In(tmsg') \cup In(tags)
        OBVIOUS
      <4>1. CASE u = t
        BY <1>4, <1>6, <4>1 DEF m
      <4>2. CASE u # t
        BY <1>4, <1>6, <2>1, <4>2 DEF Running, Waited
      <4> QED
        BY <4>1, <4>2
    <3> QED
      BY <1>2, <3>1, <3>2, <3>3, <3>4 DEF Waited
  <2>6. Beyond'
    BY <1>2, <2>1 DEF Running, Beyond, Answers
  <2>7. \A f \in Fids : FidOK(f)' /\ ServerOK(f)'
    BY <1>2, <2>1 DEF Running, FidOK, ServerOK, Ahead, Answers
  <2>8. \A u \in Client : SessionOK(u)'
    <3> SUFFICES ASSUME NEW u \in Client PROVE SessionOK(u)'
      OBVIOUS
    <3>1. SessionOK(u)
      BY <2>1 DEF Running
    <3>2. CASE u = t
      BY <1>1, <1>2, <1>4, <3>1, <3>2 DEF SessionOK, Agreed
    <3>3. CASE u # t
      BY <1>2, <1>4, <3>1, <3>3 DEF SessionOK
    <3> QED
      BY <3>2, <3>3
  <2> QED
    BY <2>2, <2>4, <2>5, <2>6, <2>7, <2>8 DEF Running
<1> QED
  BY <1>7, <1>8, <1>9, <1>10 DEF PersistInv

LEMMA FirstConnectKeeps ==
    ASSUME PlainOps, PersistInv, FirstConnect
    PROVE  PersistInv'
<1>1. /\ pc = "connect" /\ version = "offered"
      /\ \/ version' = "done" /\ up' = TRUE /\ pc' = "alt"
         \/ version' = "lost" /\ UNCHANGED <<up, pc>>
      /\ UNCHANGED <<tags, fids, todo, root, reqs, work, rmsg>>
      /\ UNCHANGED <<sfids, tmsg, cl, fate, hangups>>
  BY DEF FirstConnect
<1>2. Typed /\ NoStrayReply /\ Running /\ Connection
  BY <1>1 DEF PersistInv, Running
<1>3. Typed'
  BY <1>1, <1>2 DEF Typed, InTable
<1>4. NoStrayReply'
  BY <1>1, <1>2 DEF NoStrayReply
<1>5. NoZombies'
  BY <1>1 DEF PersistInv, NoZombies
<1>6. reqs = <<>> /\ work = {} /\ rmsg = <<>> /\ ~up
  BY <1>1, <1>2 DEF Connection
<1>7. In(reqs) = {} /\ In(rmsg) = {} /\ Answers = {}
  BY <1>6 DEF In, Answers
<1>8. \A t \in Client : cl[t].st = "start" /\ cl[t].out = None
  BY <1>1, <1>2 DEF Connection
<1>9. In(tags) = {}
  <2> SUFFICES ASSUME NEW m \in In(tags) PROVE FALSE
    OBVIOUS
  <2>1. m \in Messages
    BY <1>2 DEF Typed, In
  <2> QED
    BY <1>2, <1>8, <2>1, MessageFacts DEF Running, Waited
<1>10. \A f \in Fids : fids[f] = None /\ sfids[f] = None
  <2> SUFFICES ASSUME NEW f \in Fids PROVE fids[f] = None /\ sfids[f] = None
    OBVIOUS
  <2>1. f[1] \in Client /\ (f = RootFid(f[1]) \/ f = FileFid(f[1]))
    BY FidFacts
  <2>2. SessionOK(f[1]) /\ ServerOK(f)
    BY <1>2, <2>1 DEF Running
  <2> QED
    BY <1>6, <1>8, <2>1, <2>2 DEF SessionOK, Agreed, ServerOK
<1>11. Connection'
  BY <1>1, <1>2, <1>6, <1>7, <1>8 DEF Connection
<1>12. Alone' /\ Waited'
  BY <1>1, <1>2 DEF Running, Alone, Waited
<1>13. Beyond'
  BY <1>1, <1>2, <1>7, <1>9 DEF Running, Beyond, Answers
<1>14. \A f \in Fids : FidOK(f)' /\ ServerOK(f)'
  <2> SUFFICES ASSUME NEW f \in Fids PROVE FidOK(f)' /\ ServerOK(f)'
    OBVIOUS
  <2>1. FidOK(f)'
    BY <1>1, <1>10 DEF FidOK
  <2>2. Answers' = {}
    BY <1>1, <1>7 DEF Answers
  <2>3. Ahead(f)'
    BY <1>1, <1>10, <2>2 DEF Ahead, View
  <2> QED
    BY <1>1, <1>6, <1>10, <2>1, <2>3 DEF ServerOK
<1>15. \A t \in Client : SessionOK(t)'
  BY <1>1, <1>2 DEF Running, SessionOK
<1> QED
  BY <1>3, <1>4, <1>5, <1>11, <1>12, <1>13, <1>14, <1>15 DEF PersistInv, Running

LEMMA ConnectKeeps ==
    ASSUME PlainOps, PersistInv, Connect
    PROVE  PersistInv'
<1>1. /\ pc = "connect" /\ version = "done"
      /\ up' = TRUE /\ rmsg' = <<>> /\ pc' = "fids" /\ root' = NoRoot /\ todo' = InTable
      /\ UNCHANGED <<version, tags, fids, reqs, work, sfids, tmsg, cl>>
      /\ UNCHANGED <<fate, hangups>>
  BY DEF Connect
<1>2. Typed /\ NoStrayReply /\ Running /\ Connection
  BY <1>1 DEF PersistInv, Running
<1>3. Typed'
  BY <1>1, <1>2 DEF Typed, InTable, NoRoot, Roots
<1>4. NoStrayReply'
  BY <1>1, <1>2 DEF NoStrayReply
<1>5. NoZombies'
  BY <1>1 DEF PersistInv, NoZombies
<1>6. reqs = <<>> /\ work = {} /\ rmsg = <<>> /\ ~up
  BY <1>1, <1>2 DEF Connection
<1>7. rmsg' = rmsg /\ In(rmsg') = {} /\ Answers' = Answers
  BY <1>1, <1>6 DEF In, Answers
<1>11. Connection'
  BY <1>1, <1>2, <1>6, <1>7 DEF Connection
<1>12. Alone' /\ Waited'
  BY <1>1, <1>2, <1>7 DEF Running, Alone, Waited
<1>13. Beyond'
  BY <1>1, <1>2, <1>7 DEF Running, Beyond
<1>14. \A f \in Fids : FidOK(f)' /\ ServerOK(f)'
  <2> SUFFICES ASSUME NEW f \in Fids PROVE FidOK(f)' /\ ServerOK(f)'
    OBVIOUS
  <2>1. FidOK(f) /\ sfids[f] = None
    BY <1>2, <1>6 DEF Running, ServerOK
  <2>2. FidOK(f)'
    BY <1>1, <2>1 DEF FidOK
  <2>3. f \notin todo' => fids'[f] = None
    BY <1>1 DEF InTable
  <2> QED
    BY <1>1, <2>1, <2>2, <2>3 DEF ServerOK, View
<1>15. \A t \in Client : SessionOK(t)'
  BY <1>1, <1>2 DEF Running, SessionOK
<1> QED
  BY <1>3, <1>4, <1>5, <1>11, <1>12, <1>13, <1>14, <1>15 DEF PersistInv, Running

LEMMA HangupKeeps ==
    ASSUME PlainOps, PersistInv, Hangup
    PROVE  PersistInv'
<1>1. /\ up /\ hangups < MaxHangups /\ hangups' = hangups + 1
      /\ up' = FALSE /\ reqs' = <<>> /\ work' = {} /\ sfids' = [f \in Fids |-> None]
      /\ \/ pc = "fids" /\ pc' = "connect" /\ rmsg' = <<>>
         \/ /\ pc # "fids" /\ pc' = pc
            /\ \E n \in 0 .. Len(rmsg) : rmsg' = Append(SubSeq(rmsg, 1, n), Readerror)
      /\ UNCHANGED <<version, tags, fids, todo, root, tmsg, cl, fate>>
  BY DEF Hangup
<1>2. Typed
  BY DEF PersistInv
<1>3. /\ rmsg' \in Seq(Replies \cup {Readerror})
      /\ In(rmsg') \subseteq In(rmsg) \cup {Readerror}
      /\ Single(rmsg) => Single(rmsg')
      /\ Readerror \notin In(rmsg) => \A i \in DOMAIN rmsg' : rmsg'[i] = Readerror => i = Len(rmsg')
      /\ pc # "fids" => rmsg' # <<>> /\ Last(rmsg') = Readerror
  <2>1. CASE pc = "fids"
    BY <1>1, <2>1 DEF In, Single
  <2>2. CASE pc # "fids"
    <3> DEFINE S == Replies \cup {Readerror}
    <3>1. PICK n \in 0 .. Len(rmsg) : rmsg' = Append(SubSeq(rmsg, 1, n), Readerror)
      BY <1>1, <2>2
    <3> DEFINE q == SubSeq(rmsg, 1, n)
    <3>2. rmsg \in Seq(S) /\ Len(rmsg) \in Nat
      BY <1>2 DEF Typed
    <3>3. q \in Seq(S) /\ Len(q) = n /\ \A i \in 1 .. n : q[i] = rmsg[i]
      BY <3>2, SubSeqProperties
    <3>4. DOMAIN q = 1 .. n /\ \A i \in 1 .. n : i \in DOMAIN rmsg
      BY <3>2, <3>3
    <3>5. In(q) \subseteq In(rmsg) /\ (Single(rmsg) => Single(q))
      BY <3>3, <3>4 DEF In, Single
    <3> HIDE DEF q, S
    <3>6. /\ Append(q, Readerror) \in Seq(S) /\ In(Append(q, Readerror)) = In(q) \cup {Readerror}
          /\ Single(q) /\ (\A k \in In(q) : Apart(k, Readerror) /\ Apart(Readerror, k))
                => Single(Append(q, Readerror))
      BY <3>3, Appended DEF S
    <3>7. \A k : Apart(k, Readerror) /\ Apart(Readerror, k)
      BY DEF Apart
    <3>8. rmsg' = Append(q, Readerror)
      BY <3>1 DEF q
    <3>9. /\ Len(rmsg') = n + 1 /\ DOMAIN rmsg' = 1 .. n + 1 /\ rmsg'[n + 1] = Readerror
          /\ \A i \in 1 .. n : rmsg'[i] = q[i]
      BY <3>3, <3>8
    <3>10. ASSUME Readerror \notin In(rmsg), NEW i \in DOMAIN rmsg', rmsg'[i] = Readerror
           PROVE  i = Len(rmsg')
      <4>1. i \in 1 .. n \/ i = n + 1
        BY <3>9
      <4>2. i \in 1 .. n => rmsg'[i] \in In(rmsg)
        BY <3>3, <3>4, <3>9 DEF In
      <4> QED
        BY <3>9, <3>10, <4>1, <4>2
    <3>11. rmsg' # <<>> /\ Last(rmsg') = Readerror
      BY <3>9 DEF Last
    <3>12. rmsg' \in Seq(S)
      BY <3>6, <3>8
    <3> QED
      BY <2>2, <3>5, <3>6, <3>7, <3>8, <3>10, <3>11, <3>12 DEF S
  <2> QED
    BY <2>1, <2>2
<1>4. Typed'
  <2>1. hangups' \in 0 .. MaxHangups
    BY <1>1, <1>2, StyxPersistAssumption DEF Typed
  <2>2. sfids' \in [Fids -> ServerFids \cup {None}]
    BY <1>1
  <2>e. <<>> \in Seq(Messages)
    OBVIOUS
  <2>3. reqs' \in Seq(Messages) /\ work' \subseteq Messages /\ up' \in BOOLEAN
    BY <1>1, <2>e
  <2>4. pc' \in {"connect", "alt", "fids", "dead"}
    BY <1>1, <1>2 DEF Typed
  <2> QED
    BY <1>1, <1>2, <1>3, <2>1, <2>2, <2>3, <2>4 DEF Typed, InTable
<1>5. NoStrayReply'
  BY <1>1 DEF PersistInv, NoStrayReply
<1>6. NoZombies'
  BY <1>1 DEF PersistInv, NoZombies
<1>7. ASSUME pc' # "dead" PROVE Running'
  <2>1. pc # "dead" /\ Running
    BY <1>1, <1>7 DEF PersistInv
  <2>2. Readerror \notin In(rmsg) /\ pc # "connect"
    BY <1>1, <2>1 DEF Running, Connection
  <2>3. Connection'
    BY <1>1, <1>2, <1>3, <2>1, <2>2 DEF Running, Connection, Typed
  <2>4. Alone'
    BY <1>1, <1>3, <2>1 DEF Running, Alone, Single
  <2>5. Waited'
    BY <1>1, <2>1 DEF Running, Waited
  <2>6. Beyond'
    <3>1. In(reqs') = {} /\ work' = {}
      BY <1>1 DEF In
    <3>2. Answers' \subseteq Answers
      BY <1>3 DEF Answers
    <3> QED
      BY <1>1, <2>1, <3>1, <3>2 DEF Running, Beyond
  <2>7. \A f \in Fids : FidOK(f)' /\ ServerOK(f)'
    <3>1. pc' # "fids"
      BY <1>1
    <3> QED
      BY <1>1, <2>1, <3>1 DEF Running, FidOK, ServerOK
  <2>8. \A t \in Client : SessionOK(t)'
    BY <1>1, <2>1 DEF Running, SessionOK
  <2> QED
    BY <2>3, <2>4, <2>5, <2>6, <2>7, <2>8 DEF Running
<1> QED
  BY <1>4, <1>5, <1>6, <1>7 DEF PersistInv

LEMMA InTyped ==
    ASSUME PlainOps, Typed
    PROVE  /\ In(tags) \subseteq Messages /\ In(reqs) \subseteq Messages
           /\ In(tmsg) \subseteq Messages /\ Answers \subseteq Replies
BY DEF Typed, In, Answers

\* A request the server has is in the Tag table and has no answer under way.
LEMMA NotAnswered ==
    ASSUME PlainOps, Typed, Alone, Beyond, NEW m \in In(reqs) \cup work
    PROVE  m \in Messages /\ m \in In(tags) /\ \A r \in Answers : r.t # m.t
<1>1. m \in In(tags) /\ m \in Messages /\ m # Readerror
  BY InTyped, MessageFacts DEF Beyond
<1>2. ASSUME NEW r \in Answers, r.t = m.t PROVE FALSE
  <2>1. /\ Asked(r) \in In(tags) /\ Asked(r) \notin In(reqs) /\ Asked(r) \notin work
        /\ Asked(r) # Readerror /\ Asked(r).t = m.t
    BY <1>2, InTyped, MessageFacts DEF Beyond
  <2>2. Asked(r) = m
    BY <1>1, <2>1, OneOf DEF Alone
  <2> QED
    BY <2>1, <2>2
<1> QED
  BY <1>1, <1>2

LEMMA ServedAt ==
    ASSUME PlainOps, Typed, NEW m \in Messages, NEW ok \in BOOLEAN,
           ok => Known(m) /\ m.op # "Read"
    PROVE  /\ Served(m, ok) \in [Fids -> ServerFids \cup {None}]
           /\ \A f \in Fids : sfids[f] = View(f, fids[f])
                  => Served(m, ok)[f] = View(f, Later(f, Reply(m, ok), fids[f]))
           /\ \A f \in Fids : f[1] # m.t => Served(m, ok)[f] = sfids[f]
<1> DEFINE r == Reply(m, ok)
<1>1. /\ m.op \in {"Attach", "Walk", "Open", "Read", "Clunk"} /\ m.t \in Client
      /\ r.op = m.op /\ r.t = m.t /\ r.ok = ok
  BY MessageFacts
<1>2. sfids \in [Fids -> ServerFids \cup {None}] /\ fids \in [Fids -> FidStates \cup {None}]
  BY DEF Typed
<1>3. /\ FileFid(m.t) \in Fids /\ RootFid(m.t) \in Fids
      /\ FileFid(m.t)[1] = m.t /\ RootFid(m.t)[1] = m.t /\ RootFid(m.t) # FileFid(m.t)
      /\ File(m.t, "/", FALSE) \in ServerFids /\ File(m.t, "a", FALSE) \in ServerFids
      /\ Walked(m.t, "/") # None /\ Walked(m.t, "a") # None
      /\ None \notin FidStates /\ None \notin ServerFids
  BY <1>1, FidFacts, ZenonT(60)
<1> HIDE DEF r
<1>4. CASE m.op = "Clunk"
  <2>1. Served(m, ok) = [sfids EXCEPT ![FileFid(m.t)] = None]
    BY <1>4 DEF Served
  <2> QED
    BY <1>1, <1>2, <1>3, <1>4, <2>1 DEF Later, View, r
<1>5. CASE m.op # "Clunk" /\ ~ok
  <2>1. Served(m, ok) = sfids
    BY <1>1, <1>5 DEF Served
  <2> QED
    BY <1>1, <1>2, <1>3, <1>5, <2>1 DEF Later, r
<1>6. CASE ok /\ m.op = "Attach"
  <2>1. Served(m, ok) = [sfids EXCEPT ![RootFid(m.t)] = File(m.t, "/", FALSE)]
    BY <1>6 DEF Served
  <2>2. View(RootFid(m.t), Walked(m.t, "/")) = File(m.t, "/", FALSE)
    BY <1>3 DEF View, Walked
  <2> QED
    BY <1>1, <1>2, <1>3, <1>6, <2>1, <2>2, ZenonT(60) DEF Later, r
<1>7. CASE ok /\ m.op = "Walk"
  <2>1. Served(m, ok) = [sfids EXCEPT ![FileFid(m.t)] = File(m.t, "a", FALSE)]
    BY <1>7 DEF Served
  <2>2. View(FileFid(m.t), Walked(m.t, "a")) = File(m.t, "a", FALSE)
    BY <1>3 DEF View, Walked
  <2> QED
    BY <1>1, <1>2, <1>3, <1>7, <2>1, <2>2, ZenonT(60) DEF Later, r
<1>8. CASE ok /\ m.op = "Open"
  <2> DEFINE g == FileFid(m.t)
  <2>1. Served(m, ok) = [sfids EXCEPT ![g] = [sfids[g] EXCEPT !.open = TRUE]]
    BY <1>8 DEF Served
  <2>2. sfids[g] # None
    BY <1>8 DEF Known
  <2>3. sfids[g] \in ServerFids
    BY <1>2, <1>3, <2>2
  <2>4. [sfids[g] EXCEPT !.open = TRUE] \in ServerFids
    BY <2>3 DEF ServerFids
  <2>5. ASSUME sfids[g] = View(g, fids[g])
        PROVE  [sfids[g] EXCEPT !.open = TRUE] = View(g, [fids[g] EXCEPT !.state = "OPEN"])
    <3>1. fids[g] # None /\ fids[g] \in FidStates
      BY <1>2, <1>3, <2>2, <2>5 DEF View
    <3>2. /\ [fids[g] EXCEPT !.state = "OPEN"] \in FidStates
          /\ [fids[g] EXCEPT !.state = "OPEN"].path = fids[g].path
          /\ [fids[g] EXCEPT !.state = "OPEN"].state = "OPEN"
      BY <3>1 DEF FidStates
    <3>3. View(g, [fids[g] EXCEPT !.state = "OPEN"]) = File(g[1], fids[g].path, TRUE)
      BY <1>3, <3>2 DEF View
    <3>4. sfids[g] = File(g[1], fids[g].path, fids[g].state = "OPEN")
      BY <2>5, <3>1 DEF View
    <3>5. /\ sfids[g].aname = Aname[g[1]] /\ sfids[g].path = fids[g].path
          /\ fids[g].path \in {"/", "a", "new"}
      BY <3>1, <3>4 DEF File, FidStates
    <3> DEFINE x == [sfids[g] EXCEPT !.open = TRUE]
               y == File(g[1], fids[g].path, TRUE)
    <3>6. x \in ServerFids /\ x.aname = sfids[g].aname /\ x.path = sfids[g].path /\ x.open = TRUE
      BY <2>3 DEF ServerFids
    <3>7. y.aname = Aname[g[1]] /\ y.path = fids[g].path /\ y.open = TRUE
      BY DEF File
    <3>a. Aname[g[1]] \in {Aname[t] : t \in Client}
      BY <1>1, <1>3
    <3>8. y \in ServerFids
      BY <3>5, <3>a DEF File, ServerFids
    <3>9. \A v, w \in ServerFids : v.aname = w.aname /\ v.path = w.path /\ v.open = w.open => v = w
      BY DEF ServerFids
    <3> HIDE DEF x, y
    <3>10. x = y
      BY <3>5, <3>6, <3>7, <3>8, <3>9
    <3> QED
      BY <3>3, <3>10 DEF x, y
  <2> HIDE DEF g
  <2>6. g \in Fids /\ g[1] = m.t /\ g = FileFid(m.t)
    BY <1>3 DEF g
  <2>7. \A f \in Fids : Later(f, r, fids[f]) = IF f = g THEN [fids[f] EXCEPT !.state = "OPEN"]
                                                        ELSE fids[f]
    BY <1>1, <1>8, <2>6 DEF Later
  <2> QED
    BY <1>2, <2>1, <2>4, <2>5, <2>6, <2>7 DEF r
<1> QED
  BY <1>1, <1>4, <1>5, <1>6, <1>7, <1>8

\* An answer that is added to those under way for a request that had none.
LEMMA AheadOfAnswer ==
    ASSUME PlainOps, Typed, NEW m \in Messages, NEW ok \in BOOLEAN,
           \A r \in Answers : r.t # m.t, Answers' = Answers \cup {Reply(m, ok)},
           UNCHANGED fids, NEW f \in Fids, Ahead(f),
           f[1] # m.t => sfids'[f] = sfids[f],
           sfids[f] = View(f, fids[f]) => sfids'[f] = View(f, Later(f, Reply(m, ok), fids[f]))
    PROVE  Ahead(f)'
<1>1. Reply(m, ok).t = m.t
  BY MessageFacts
<1>2. CASE f[1] = m.t
  <2>1. sfids[f] = View(f, fids[f])
    BY <1>2 DEF Ahead
  <2>2. \A r \in Answers' : r.t = f[1] => r = Reply(m, ok)
    BY <1>2
  <2>3. Reply(m, ok) \in Answers'
    OBVIOUS
  <2> QED
    BY <1>1, <1>2, <2>1, <2>2, <2>3 DEF Ahead
<1>3. CASE f[1] # m.t
  <2>1. \A r \in Answers' : r.t = f[1] => r \in Answers
    BY <1>1, <1>3
  <2>2. Answers \subseteq Answers'
    OBVIOUS
  <2> QED
    BY <1>3, <2>1, <2>2 DEF Ahead
<1> QED
  BY <1>2, <1>3

\* The server answers a request it has.
Replied(m, ok) ==
    /\ m \in In(reqs) \cup work /\ up
    /\ rmsg' = Append(rmsg, Reply(m, ok))
    /\ UNCHANGED <<pc, version, tags, fids, todo, root>> /\ UNCHANGED <<up, tmsg, cl, fate, hangups>>
    /\ reqs' \in Seq(Messages) /\ In(reqs') \subseteq In(reqs) /\ work' \subseteq work
    /\ m \notin In(reqs') /\ m \notin work'
    /\ \A k \in In(reqs) \cup work : k # m => k \in In(reqs') \/ k \in work'
    /\ Single(reqs) => Single(reqs')
    /\ sfids' \in [Fids -> ServerFids \cup {None}]
    /\ \A f \in Fids : sfids[f] = View(f, fids[f])
          => sfids'[f] = View(f, Later(f, Reply(m, ok), fids[f]))
    /\ \A f \in Fids : f[1] # m.t => sfids'[f] = sfids[f]

LEMMA ReplyKeeps ==
    ASSUME PlainOps, PersistInv, NEW m \in Messages, NEW ok \in BOOLEAN, pc # "dead" => Replied(m, ok),
           pc' = pc, UNCHANGED cl, UNCHANGED fids, Typed'
    PROVE  PersistInv'
<1>1. Typed
  BY DEF PersistInv
<1>2. NoStrayReply'
  BY DEF PersistInv, NoStrayReply
<1>3. NoZombies'
  BY DEF PersistInv, NoZombies
<1>4. ASSUME pc' # "dead" PROVE Running'
  <2>1. /\ pc # "dead" /\ Running /\ Connection /\ Alone /\ Waited /\ Beyond
        /\ UNCHANGED <<version, tags, todo, root>> /\ UNCHANGED <<up, tmsg, fate, hangups>>
    BY <1>4 DEF PersistInv, Running, Replied
  <2>2. /\ m \in In(reqs) \cup work /\ up /\ rmsg' = Append(rmsg, Reply(m, ok))
        /\ reqs' \in Seq(Messages) /\ In(reqs') \subseteq In(reqs) /\ work' \subseteq work
        /\ m \notin In(reqs') /\ m \notin work'
        /\ \A k \in In(reqs) \cup work : k # m => k \in In(reqs') \/ k \in work'
        /\ Single(reqs) => Single(reqs')
    BY <1>4 DEF Replied
  <2>3. /\ \A f \in Fids : sfids[f] = View(f, fids[f])
                => sfids'[f] = View(f, Later(f, Reply(m, ok), fids[f]))
        /\ \A f \in Fids : f[1] # m.t => sfids'[f] = sfids[f]
    BY <1>4 DEF Replied
  <2>4. m \in In(tags) /\ \A r \in Answers : r.t # m.t
    BY <1>1, <2>1, <2>2, NotAnswered
  <2>5. /\ Reply(m, ok) \in Replies /\ Asked(Reply(m, ok)) = m /\ Reply(m, ok).t = m.t
        /\ Reply(m, ok) # Readerror
    BY MessageFacts
  <2>6. /\ In(rmsg') = In(rmsg) \cup {Reply(m, ok)}
        /\ Single(rmsg) /\ (\A k \in In(rmsg) : Apart(k, Reply(m, ok)) /\ Apart(Reply(m, ok), k))
              => Single(rmsg')
    <3>1. rmsg \in Seq(Replies \cup {Readerror}) /\ Reply(m, ok) \in Replies \cup {Readerror}
      BY <1>1, <2>5 DEF Typed
    <3> QED
      BY <2>2, <3>1, Appended
  <2>7. Answers' = Answers \cup {Reply(m, ok)}
    BY <2>5, <2>6 DEF Answers
  <2>8. pc = "alt"
    <3>1. In(reqs) \cup work # {}
      BY <2>2
    <3>2. reqs = <<>> => In(reqs) = {}
      BY DEF In
    <3> QED
      BY <1>1, <2>1, <3>1, <3>2 DEF Typed, Connection
  <2>9. Connection'
    <3>1. Readerror \notin In(rmsg')
      BY <2>1, <2>2, <2>5, <2>6 DEF Connection
    <3>2. \A i \in DOMAIN rmsg' : rmsg'[i] # Readerror
      BY <3>1 DEF In
    <3> QED
      BY <2>1, <2>2, <2>8, <3>1, <3>2 DEF Connection
  <2>10. Alone'
    <3>1. \A k \in In(rmsg) : Apart(k, Reply(m, ok)) /\ Apart(Reply(m, ok), k)
      BY <2>4, <2>5 DEF Apart, Answers
    <3> QED
      BY <2>1, <2>2, <2>6, <3>1 DEF Alone
  <2>11. Waited'
    BY <2>1 DEF Waited
  <2>12. Beyond'
    <3>1. \A r \in Answers' : Asked(r) \in In(tags)
      BY <2>1, <2>4, <2>5, <2>7 DEF Beyond
    <3>2. \A r \in Answers' : Asked(r) \notin In(reqs') /\ Asked(r) \notin work'
      BY <2>1, <2>2, <2>5, <2>7 DEF Beyond
    <3>3. ASSUME NEW k \in In(tags)
          PROVE  k \in In(reqs') \/ k \in work' \/ \E r \in Answers' : Asked(r) = k
      <4>1. k \in In(reqs) \/ k \in work \/ \E r \in Answers : Asked(r) = k
        BY <2>1, <2>2, <2>8 DEF Beyond
      <4>2. CASE k = m
        BY <2>5, <2>7, <4>2
      <4>3. CASE k # m
        BY <2>2, <2>7, <4>1, <4>3
      <4> QED
        BY <4>2, <4>3
    <3>4. In(reqs') \subseteq In(tags) /\ work' \subseteq In(tags) /\ In(reqs') \cap work' = {}
      BY <2>1, <2>2 DEF Beyond
    <3>5. \A k \in work' : k.op = "Read"
      BY <2>1, <2>2 DEF Beyond
    <3> QED
      BY <2>1, <3>1, <3>2, <3>3, <3>4, <3>5 DEF Beyond
  <2>13. \A f \in Fids : FidOK(f)' /\ ServerOK(f)'
    <3> SUFFICES ASSUME NEW f \in Fids PROVE FidOK(f)' /\ ServerOK(f)'
      OBVIOUS
    <3>1. FidOK(f)'
      BY <2>1 DEF Running, FidOK
    <3>2. ASSUME fate[f] = "live" PROVE Ahead(f)'
      <4>1. Ahead(f)
        BY <2>1, <2>2, <2>8, <3>2 DEF Running, ServerOK
      <4>2. /\ f[1] # m.t => sfids'[f] = sfids[f]
            /\ sfids[f] = View(f, fids[f]) => sfids'[f] = View(f, Later(f, Reply(m, ok), fids[f]))
        BY <2>3
      <4> QED
        BY <1>1, <2>4, <2>7, <4>1, <4>2, AheadOfAnswer
    <3> QED
      BY <2>1, <2>2, <2>8, <3>1, <3>2 DEF ServerOK
  <2>14. \A t \in Client : SessionOK(t)'
    BY <2>1 DEF Running, SessionOK
  <2> QED
    BY <2>9, <2>10, <2>11, <2>12, <2>13, <2>14 DEF Running
<1> QED
  BY <1>2, <1>3, <1>4 DEF PersistInv

LEMMA ServeReadKeeps ==
    ASSUME PlainOps, PersistInv, NEW m \in work, ServeRead(m)
    PROVE  PersistInv'
<1>1. /\ up /\ work' = work \ {m} /\ rmsg' = Append(rmsg, Reply(m, TRUE))
      /\ UNCHANGED <<pc, version, tags, fids, todo, root>> /\ UNCHANGED <<up, tmsg, cl, fate, hangups>>
      /\ UNCHANGED <<reqs, sfids>>
  BY DEF ServeRead, proxyVars
<1>2. Typed /\ m \in Messages
  BY DEF PersistInv, Typed
<1>3. Reply(m, TRUE) \in Replies /\ Reply(m, TRUE).op = m.op
  BY <1>2, MessageFacts
<1>4. Typed'
  <2>r. rmsg \in Seq(Replies \cup {Readerror}) /\ Reply(m, TRUE) \in Replies \cup {Readerror}
    BY <1>2, <1>3 DEF Typed
  <2>1. rmsg' \in Seq(Replies \cup {Readerror})
    BY <1>1, <2>r, Appended
  <2> QED
    BY <1>1, <1>2, <2>1 DEF Typed, InTable
<1>5. ASSUME pc # "dead" PROVE Replied(m, TRUE)
  <2>1. Running
    BY <1>5 DEF PersistInv
  <2>2. m \notin In(reqs) /\ m.op = "Read"
    BY <2>1 DEF Running, Beyond
  <2>3. \A f \in Fids : Later(f, Reply(m, TRUE), fids[f]) = fids[f]
    BY <1>3, <2>2 DEF Later
  <2>4. sfids \in [Fids -> ServerFids \cup {None}] /\ reqs \in Seq(Messages)
    BY <1>2 DEF Typed
  <2> QED
    BY <1>1, <2>2, <2>3, <2>4 DEF Replied
<1> QED
  BY <1>1, <1>2, <1>4, <1>5, ReplyKeeps

LEMMA ServeKeeps ==
    ASSUME PlainOps, PersistInv, Serve
    PROVE  PersistInv'
<1> DEFINE m == Head(reqs)
<1>1. /\ up /\ reqs # <<>> /\ reqs' = Tail(reqs)
      /\ UNCHANGED <<pc, version, tags, fids, todo, root>> /\ UNCHANGED <<up, tmsg, cl, fate, hangups>>
  BY DEF Serve, proxyVars
<1>2. Typed
  BY DEF PersistInv
<1>3. /\ reqs' \in Seq(Messages) /\ m \in Messages /\ In(reqs) = In(reqs') \cup {m}
      /\ Single(reqs) => Single(reqs') /\ \A k \in In(reqs') : Apart(k, m) /\ Apart(m, k)
  BY <1>1, <1>2, Taken DEF Typed
<1>4. m.op \in {"Attach", "Walk", "Open", "Read", "Clunk"}
  BY <1>3, MessageFacts
<1>5. \/ m.op = "Read" /\ work' = work \cup {m} /\ UNCHANGED <<rmsg, sfids>>
      \/ \E ok \in BOOLEAN : /\ ok => Known(m) /\ m.op # "Read"
                             /\ rmsg' = Append(rmsg, Reply(m, ok)) /\ sfids' = Served(m, ok)
                             /\ UNCHANGED work
  BY <1>4 DEF Serve
<1> HIDE DEF m
<1>6. Single(reqs) => m \notin In(reqs')
  BY <1>3, MessageFacts DEF Apart
<1>7. ASSUME m.op = "Read", work' = work \cup {m}, UNCHANGED <<rmsg, sfids>> PROVE PersistInv'
  <2>1. Typed'
    BY <1>1, <1>2, <1>3, <1>7 DEF Typed, InTable
  <2>2. NoStrayReply'
    BY <1>1 DEF PersistInv, NoStrayReply
  <2>3. NoZombies'
    BY <1>1 DEF PersistInv, NoZombies
  <2>4. ASSUME pc' # "dead" PROVE Running'
    <3>1. pc # "dead" /\ Running
      BY <1>1, <2>4 DEF PersistInv
    <3>2. pc = "alt"
      BY <1>1, <1>2, <3>1 DEF Typed, Running, Connection
    <3>3. m \notin In(reqs')
      BY <1>6, <3>1 DEF Running, Alone
    <3>4. Answers' = Answers
      BY <1>7 DEF Answers
    <3>5. Connection'
      BY <1>1, <1>7, <3>1, <3>2 DEF Running, Connection
    <3>6. Alone' /\ Waited'
      BY <1>1, <1>3, <1>7, <3>1 DEF Running, Alone, Waited
    <3>7. Beyond'
      <4>1. In(reqs') \cap work' = {}
        BY <1>3, <1>7, <3>1, <3>3 DEF Running, Beyond
      <4>2. In(reqs') \cup work' = In(reqs) \cup work
        BY <1>3, <1>7
      <4> QED
        BY <1>1, <1>3, <1>7, <3>1, <3>4, <4>1, <4>2 DEF Running, Beyond
    <3>8. \A f \in Fids : FidOK(f)' /\ ServerOK(f)'
      BY <1>1, <1>7, <3>1, <3>4 DEF Running, FidOK, ServerOK, Ahead
    <3>9. \A t \in Client : SessionOK(t)'
      BY <1>1, <3>1 DEF Running, SessionOK
    <3> QED
      BY <3>5, <3>6, <3>7, <3>8, <3>9 DEF Running
  <2> QED
    BY <2>1, <2>2, <2>3, <2>4 DEF PersistInv
<1>8. ASSUME NEW ok \in BOOLEAN, ok => Known(m) /\ m.op # "Read",
             rmsg' = Append(rmsg, Reply(m, ok)), sfids' = Served(m, ok), UNCHANGED work
      PROVE  PersistInv'
  <2>1. /\ sfids' \in [Fids -> ServerFids \cup {None}]
        /\ \A f \in Fids : sfids[f] = View(f, fids[f])
               => sfids'[f] = View(f, Later(f, Reply(m, ok), fids[f]))
        /\ \A f \in Fids : f[1] # m.t => sfids'[f] = sfids[f]
    BY <1>2, <1>3, <1>8, ServedAt
  <2>2. Typed'
    <3>1. rmsg' \in Seq(Replies \cup {Readerror})
      BY <1>2, <1>3, <1>8, MessageFacts DEF Typed
    <3> QED
      BY <1>1, <1>2, <1>3, <1>8, <2>1, <3>1 DEF Typed, InTable
  <2>3. ASSUME pc # "dead" PROVE Replied(m, ok)
    <3>1. Running
      BY <2>3 DEF PersistInv
    <3>2. m \notin In(reqs') /\ m \notin work
      BY <1>3, <1>6, <3>1 DEF Running, Alone, Beyond
    <3> QED
      BY <1>1, <1>3, <1>8, <2>1, <3>2 DEF Replied
  <2> QED
    BY <1>1, <1>3, <2>2, <2>3, ReplyKeeps
<1> QED
  BY <1>5, <1>7, <1>8

\* What resurrectfid() does to a fid: it is given up, or restored.
Marked(f) ==
    /\ fids' = [fids EXCEPT ![f].state = "DEAD"] /\ UNCHANGED sfids
    /\ \E how \in {"lost", "refused"} : fate' = [fate EXCEPT ![f] = how]

Brought(f) ==
    /\ UNCHANGED <<fids, fate>>
    /\ sfids' = [sfids EXCEPT ![f] = [aname |-> fids[f].aname, path |-> fids[f].path,
                                      open |-> fids[f].state = "OPEN"]]

LEMMA ResurrectFidKeeps ==
    ASSUME PlainOps, PersistInv, NEW f \in Fids, ResurrectFid(f)
    PROVE  PersistInv'
<1>1. /\ pc = "fids" /\ f \in todo /\ todo' = todo \ {f}
      /\ UNCHANGED <<pc, version, tags, up, reqs, work>> /\ UNCHANGED <<rmsg, tmsg, cl, hangups>>
  BY DEF ResurrectFid
<1>2. Typed /\ NoStrayReply /\ Running
  BY <1>1 DEF PersistInv
<1>3. /\ fids \in [Fids -> FidStates \cup {None}] /\ sfids \in [Fids -> ServerFids \cup {None}]
      /\ root \in Roots /\ fids[f] # None /\ fids[f] \in FidStates
      /\ fate \in [Fids -> {"live", "refused", "lost"}]
  BY <1>1, <1>2 DEF Typed, InTable
<1>4. f[1] \in Client /\ fids[f].aname = Aname[f[1]] /\ FidOK(f)
  BY <1>2, <1>3, FidFacts DEF Running, FidOK
<1>5. fids[f].aname \in {Aname[t] : t \in Client}
  BY <1>3 DEF FidStates
<1>6. (Marked(f) \/ Brought(f)) /\ root' \in Roots
  <2>1. [root EXCEPT !.attached = -1] \in Roots
    BY <1>3 DEF Roots
  <2>2. [attached |-> 1, aname |-> fids[f].aname] \in Roots
    BY <1>5 DEF Roots
  <2>3. ASSUME Attached(f) PROVE root' \in Roots /\ root'.aname = fids[f].aname
    BY <1>3, <2>2, <2>3 DEF Attached, RootFor
  <2>4. RootFailed(f) => Marked(f) /\ root' = root
    BY DEF RootFailed, MarkDead, Marked
  <2>5. AttachRefused(f) => Marked(f) /\ root' \in Roots
    BY <2>1 DEF AttachRefused, MarkDead, Marked
  <2>6. FileRefused(f) => Marked(f) /\ root' \in Roots
    BY <2>3 DEF FileRefused, MarkDead, Marked
  <2>7. QidMismatch(f) => Marked(f) /\ root' \in Roots
    BY <2>3 DEF QidMismatch, MarkDead, Marked
  <2>8. Restored(f) => Brought(f) /\ root' \in Roots
    BY <2>3 DEF Restored, Brought, Opened
  <2> QED
    BY <1>3, <2>4, <2>5, <2>6, <2>7, <2>8 DEF ResurrectFid
<1>7. /\ fids' \in [Fids -> FidStates \cup {None}] /\ sfids' \in [Fids -> ServerFids \cup {None}]
      /\ fate' \in [Fids -> {"live", "refused", "lost"}]
      /\ \A g \in Fids : g # f => fids'[g] = fids[g] /\ sfids'[g] = sfids[g] /\ fate'[g] = fate[g]
      /\ fids'[f] # None /\ FidOK(f)'
      /\ fids'[f].state = fids[f].state \/ fids'[f].state = "DEAD"
      /\ fate'[f] = "live" => fids'[f] = fids[f] /\ sfids'[f] = View(f, fids[f])
  <2>1. CASE Marked(f)
    <3>1. PICK how \in {"lost", "refused"} : fate' = [fate EXCEPT ![f] = how]
      BY <2>1 DEF Marked
    <3>2. fids' = [fids EXCEPT ![f] = [fids[f] EXCEPT !.state = "DEAD"]] /\ sfids' = sfids
      BY <2>1 DEF Marked
    <3> DEFINE x == [fids[f] EXCEPT !.state = "DEAD"]
    <3>3. /\ x \in FidStates /\ x.aname = fids[f].aname /\ x.path = fids[f].path
          /\ x.qid = fids[f].qid /\ x.state = "DEAD"
      BY <1>3 DEF FidStates
    <3> HIDE DEF x
    <3>4. fids' = [fids EXCEPT ![f] = x]
      BY <3>2 DEF x
    <3>5. fids'[f] = x /\ x # None /\ fate'[f] = how
      BY <1>3, <3>1, <3>3, <3>4, FidFacts
    <3>6. FidOK(f)'
      BY <1>3, <1>4, <3>3, <3>5 DEF FidOK
    <3> QED
      BY <1>3, <3>1, <3>2, <3>3, <3>4, <3>5, <3>6
  <2>2. CASE Brought(f)
    <3> DEFINE y == [aname |-> fids[f].aname, path |-> fids[f].path, open |-> fids[f].state = "OPEN"]
    <3>1. y \in ServerFids
      BY <1>3 DEF FidStates, ServerFids
    <3>2. y = View(f, fids[f])
      BY <1>3, <1>4 DEF View, File
    <3> HIDE DEF y
    <3>3. fids' = fids /\ fate' = fate /\ sfids' = [sfids EXCEPT ![f] = y]
      BY <2>2 DEF Brought, y
    <3>4. FidOK(f)'
      BY <1>4, <3>3 DEF FidOK
    <3> QED
      BY <1>3, <3>1, <3>2, <3>3, <3>4
  <2> QED
    BY <1>6, <2>1, <2>2
<1>8. Typed'
  <2>1. todo' \subseteq InTable'
    BY <1>1, <1>2, <1>7 DEF Typed, InTable
  <2> QED
    BY <1>1, <1>2, <1>6, <1>7, <2>1 DEF Typed
<1>9. NoStrayReply'
  BY <1>1, <1>2 DEF NoStrayReply
<1>10. NoZombies'
  BY <1>1, <1>3, <1>7, FidFacts DEF PersistInv, NoZombies
<1>11. Answers' = Answers
  BY <1>1 DEF Answers
<1>12. Connection' /\ Alone' /\ Waited' /\ Beyond'
  BY <1>1, <1>2, <1>11 DEF Running, Connection, Alone, Waited, Beyond
<1>13. \A g \in Fids : FidOK(g)' /\ ServerOK(g)'
  <2> SUFFICES ASSUME NEW g \in Fids PROVE FidOK(g)' /\ ServerOK(g)'
    OBVIOUS
  <2>1. FidOK(g) /\ ServerOK(g) /\ up
    BY <1>1, <1>2 DEF Running, Connection
  <2>2. CASE g = f
    BY <1>1, <1>7, <2>1, <2>2 DEF ServerOK, View
  <2>3. CASE g # f
    <3>1. fids'[g] = fids[g] /\ sfids'[g] = sfids[g] /\ fate'[g] = fate[g] /\ (g \in todo' <=> g \in todo)
      BY <1>1, <1>7, <2>3
    <3> QED
      BY <1>1, <2>1, <3>1 DEF FidOK, ServerOK
  <2> QED
    BY <2>2, <2>3
<1>14. \A t \in Client : SessionOK(t)'
  <2> SUFFICES ASSUME NEW t \in Client PROVE SessionOK(t)'
    OBVIOUS
  <2>1. SessionOK(t) /\ RootFid(t) \in Fids /\ FileFid(t) \in Fids
    BY <1>2, FidFacts DEF Running
  <2>2. \A g \in Fids : /\ fids'[g] = None <=> fids[g] = None
                        /\ fids'[g] = fids[g] \/ fids'[g].state = fids[g].state \/ fids'[g].state = "DEAD"
    BY <1>3, <1>7
  <2> QED
    BY <1>1, <2>1, <2>2 DEF SessionOK, Agreed
<1> QED
  BY <1>8, <1>9, <1>10, <1>12, <1>13, <1>14 DEF PersistInv, Running

\* The client and its fids agree again after the reply it waits for.
LEMMA AgreedAfter ==
    ASSUME PlainOps, NEW r \in Replies, NEW c \in ClientStates, r.op = c.out,
           NEW x \in FidStates \cup {None}, NEW y \in FidStates \cup {None}, Agreed(c, x, y),
           r.ok /\ r.op = "Attach" => x = None, r.ok /\ r.op = "Walk" => y = None
    PROVE  /\ Agreed(Told(c, r), Later(RootFid(r.t), r, x), Later(FileFid(r.t), r, y))
           /\ ("Clunk" \notin Ops /\ (c.st = "attached" => y = None) /\ Told(c, r).st = "attached")
                 => Later(FileFid(r.t), r, y) = None
<1> DEFINE d == Told(c, r)
           u == Later(RootFid(r.t), r, x)
           v == Later(FileFid(r.t), r, y)
<1>1. /\ r.op \in Ops /\ Ops \subseteq {"Attach", "Walk", "Open", "Read", "Clunk"} /\ None \notin Ops
      /\ r.t \in Client /\ RootFid(r.t) # FileFid(r.t) /\ None \notin FidStates
      /\ Walked(r.t, "/") \in FidStates /\ Walked(r.t, "a") \in FidStates
      /\ Walked(r.t, "a").state = "NOTOPEN"
  BY MessageFacts, FidFacts DEF Walked
<1>2. d.out = None /\ d.st = After(c.st, r)
  BY <1>1, ToldWaited
<1>3. r.op \in Allowed(c.st) /\ c.st \in {"start", "attached", "walked", "opened"}
  BY <1>1 DEF Agreed, ClientStates
<1>4. /\ c.st = "start" => r.op = "Attach"
      /\ c.st = "attached" => r.op = "Walk"
      /\ c.st = "walked" => r.op \in {"Open", "Clunk"}
      /\ c.st = "opened" => r.op \in {"Read", "Clunk"}
  BY <1>1, <1>3 DEF Allowed
<1> HIDE DEF d
<1>5. CASE r.op = "Clunk"
  <2>1. u = x /\ v = None /\ d.st = "attached"
    BY <1>1, <1>2, <1>5 DEF Later, After
  <2> HIDE DEF u, v
  <2>2. Agreed(d, u, v)
    BY <1>2, <1>3, <1>4, <1>5, <2>1 DEF Agreed
  <2> QED
    BY <1>1, <1>5, <2>1, <2>2 DEF d, u, v
<1>6. CASE ~r.ok /\ r.op # "Clunk"
  <2>1. u = x /\ v = y /\ d.st = c.st
    BY <1>1, <1>2, <1>6 DEF Later, After
  <2> HIDE DEF u, v
  <2>2. Agreed(d, u, v)
    BY <1>2, <1>3, <1>4, <1>6, <2>1 DEF Agreed
  <2> QED
    BY <2>1, <2>2 DEF d, u, v
<1>7. CASE r.ok /\ r.op = "Attach"
  <2>1. u = Walked(r.t, "/") /\ v = y /\ d.st = "attached" /\ c.st = "start"
    BY <1>1, <1>2, <1>3, <1>4, <1>7 DEF Later, After
  <2> HIDE DEF u, v
  <2>2. y = None /\ u # None
    BY <1>1, <2>1 DEF Agreed
  <2>3. Agreed(d, u, v)
    BY <1>2, <2>1, <2>2 DEF Agreed
  <2> QED
    BY <2>1, <2>2, <2>3 DEF d, u, v
<1>8. CASE r.ok /\ r.op = "Walk"
  <2>1. u = x /\ v = Walked(r.t, "a") /\ d.st = "walked" /\ c.st = "attached"
    BY <1>1, <1>2, <1>3, <1>4, <1>8 DEF Later, After
  <2> HIDE DEF u, v
  <2>2. x # None /\ v # None /\ v.state = "NOTOPEN"
    BY <1>1, <2>1 DEF Agreed
  <2>3. Agreed(d, u, v)
    BY <1>2, <2>1, <2>2 DEF Agreed
  <2> QED
    BY <2>1, <2>3 DEF d, u, v
<1>9. CASE r.ok /\ r.op = "Open"
  <2>1. u = x /\ v = [y EXCEPT !.state = "OPEN"] /\ d.st = "opened" /\ c.st = "walked"
    BY <1>1, <1>2, <1>3, <1>4, <1>9 DEF Later, After
  <2> HIDE DEF u
  <2>2. x # None /\ y # None
    BY <2>1 DEF Agreed
  <2>3. y \in FidStates
    BY <2>2
  <2>4. v \in FidStates /\ v.state = "OPEN"
    BY <2>1, <2>3 DEF FidStates
  <2> HIDE DEF v
  <2>5. Agreed(d, u, v)
    BY <1>1, <1>2, <2>1, <2>2, <2>4 DEF Agreed
  <2> QED
    BY <2>1, <2>5 DEF d, u, v
<1>10. CASE r.ok /\ r.op = "Read"
  <2>1. u = x /\ v = y /\ d.st = c.st
    BY <1>1, <1>2, <1>10 DEF Later, After
  <2> HIDE DEF u, v
  <2>2. Agreed(d, u, v)
    BY <1>2, <1>3, <1>4, <1>10, <2>1 DEF Agreed
  <2> QED
    BY <2>1, <2>2 DEF d, u, v
<1> QED
  BY <1>1, <1>5, <1>6, <1>7, <1>8, <1>9, <1>10

\* gettag() finds the one entry of a client.
LEMMA GettagFinds ==
    ASSUME PlainOps, Typed, Single(tags), NEW r \in Replies, Asked(r) \in In(tags)
    PROVE  Gettag(r) \in DOMAIN tags /\ Gettag(r) # 0 /\ tags[Gettag(r)] = Asked(r)
<1>1. PICK j \in DOMAIN tags : tags[j] = Asked(r)
  BY DEF In
<1>2. Asked(r).t = r.t /\ r.op # "Flush" /\ Asked(r).op = r.op
  BY MessageFacts
<1>3. ASSUME NEW i \in DOMAIN tags, SameTag(tags[i], r) PROVE i = j
  <2>1. tags[i] \in Messages /\ tags[i].t = r.t /\ tags[j] \in Messages
    BY <1>1, <1>3 DEF Typed, SameTag
  <2>2. ~Apart(tags[i], tags[j])
    BY <1>1, <1>2, <2>1, MessageFacts DEF Apart
  <2> QED
    BY <2>2 DEF Single
<1>4. SameTag(tags[j], r)
  BY <1>1, <1>2 DEF SameTag
<1>5. {i \in DOMAIN tags : SameTag(tags[i], r)} = {j}
  BY <1>3, <1>4
<1>6. j \in Nat /\ j # 0
  BY DEF Typed
<1>7. \E i \in {j} : \A k \in {j} : k <= i
  BY <1>6
<1>8. Newest({j}) = j
  BY <1>7 DEF Newest
<1> QED
  BY <1>1, <1>5, <1>6, <1>8 DEF Gettag

LEMMA TakeRmsgKeeps ==
    ASSUME PlainOps, PersistInv, TakeRmsg
    PROVE  PersistInv'
<1> DEFINE r == Head(rmsg)
<1>1. /\ pc = "alt" /\ rmsg # <<>> /\ rmsg' = Tail(rmsg)
      /\ \/ r = Readerror /\ pc' = "connect" /\ UNCHANGED <<tags, fids, cl>>
         \/ r # Readerror /\ Handlermsg(r)
      /\ UNCHANGED <<version, todo, root, up, reqs, work>> /\ UNCHANGED <<sfids, tmsg, fate, hangups>>
  BY DEF TakeRmsg
<1>2. Typed /\ NoStrayReply /\ Running /\ Connection /\ Alone /\ Waited /\ Beyond
  BY <1>1 DEF PersistInv, Running
<1>3. /\ rmsg' \in Seq(Replies \cup {Readerror}) /\ r \in Replies \cup {Readerror}
      /\ In(rmsg) = In(rmsg') \cup {r} /\ Single(rmsg')
      /\ \A k \in In(rmsg') : Apart(k, r) /\ Apart(r, k)
  BY <1>1, <1>2, Taken DEF Typed, Alone
<1>4. /\ Len(rmsg) \in Nat /\ Len(rmsg) >= 1 /\ DOMAIN rmsg = 1 .. Len(rmsg) /\ r = rmsg[1]
      /\ Len(rmsg') = Len(rmsg) - 1 /\ DOMAIN rmsg' = 1 .. Len(rmsg) - 1
      /\ \A i \in 1 .. Len(rmsg) - 1 : rmsg'[i] = rmsg[i + 1]
  BY <1>1, <1>2 DEF Typed
<1> HIDE DEF r
<1>5. CASE r = Readerror
  <2>1. Len(rmsg) = 1
    <3>1. 1 \in DOMAIN rmsg /\ rmsg[1] = Readerror
      BY <1>4, <1>5
    <3> QED
      BY <1>2, <3>1 DEF Connection
  <2>2. rmsg' = <<>>
    BY <1>3, <1>4, <2>1
  <2>3. Readerror \in In(rmsg)
    BY <1>3, <1>5
  <2>4. /\ pc' = "connect" /\ UNCHANGED <<tags, fids, cl>> /\ ~up /\ reqs = <<>> /\ work = {}
    BY <1>1, <1>2, <1>5, <2>3 DEF Connection, Typed
  <2>5. Typed'
    BY <1>1, <1>2, <1>3, <2>4 DEF Typed, InTable
  <2>6. NoStrayReply' /\ NoZombies'
    BY <1>1, <1>2, <2>4 DEF PersistInv, NoStrayReply, NoZombies
  <2>7. In(rmsg') = {} /\ Answers' = {}
    BY <2>2 DEF In, Answers
  <2>8. Connection'
    BY <1>1, <1>2, <2>2, <2>4, <2>7 DEF Connection
  <2>9. Alone' /\ Waited'
    BY <1>1, <1>2, <1>3, <2>4 DEF Alone, Waited
  <2>10. Beyond'
    BY <1>1, <1>2, <2>4, <2>7 DEF Beyond
  <2>11. \A f \in Fids : FidOK(f)' /\ ServerOK(f)'
    BY <1>1, <1>2, <2>4 DEF Running, FidOK, ServerOK
  <2>12. \A t \in Client : SessionOK(t)'
    BY <1>2, <2>4 DEF Running, SessionOK
  <2> QED
    BY <2>5, <2>6, <2>8, <2>9, <2>10, <2>11, <2>12 DEF PersistInv, Running
<1>6. CASE r # Readerror
  <2>1. r \in Replies /\ r \in Answers
    BY <1>3, <1>6 DEF Answers
  <2>2. /\ r.t \in Client /\ r.op \in Ops /\ r.op # "Flush" /\ Asked(r) \in Messages /\ Asked(r).t = r.t
        /\ Asked(r).op = r.op /\ Reply(Asked(r), r.ok) = r /\ Asked(r) # Readerror
    BY <2>1, MessageFacts
  <2>3. Asked(r) \in In(tags) /\ cl[r.t].out = r.op
    BY <1>2, <2>1, <2>2 DEF Beyond, Waited
  <2>4. PICK j : j = Gettag(r) /\ j \in DOMAIN tags /\ j # 0 /\ tags[j] = Asked(r)
    BY <1>2, <2>1, <2>3, GettagFinds DEF Alone
  <2>5. /\ tags' = RemoveAt(tags, j)
        /\ \/ Raises(r) /\ pc' = "dead" /\ UNCHANGED <<fids, cl>>
           \/ ~Raises(r) /\ fids' = HandledFids(r) /\ Sendrmsg(<<r>>) /\ UNCHANGED pc
    BY <1>1, <1>6, <2>2, <2>4 DEF Handlermsg, Destroyed
  <2>6. /\ tags' \in Seq(Messages) /\ In(tags) = In(tags') \cup {Asked(r)} /\ Single(tags')
        /\ \A k \in In(tags') : Apart(k, Asked(r))
    BY <1>2, <2>4, <2>5, Removed DEF Typed, Alone
  <2>7. \A k \in In(tags') : k \in Messages /\ k.t # r.t
    <3>1. \A k \in In(tags') : k \in Messages /\ k # Readerror
      BY <1>2, <2>6, InTyped, MessageFacts
    <3> QED
      BY <2>2, <2>6, <3>1 DEF Apart
  <2>8. \A k \in In(rmsg') : k = Readerror \/ k.t # r.t
    BY <1>3, <1>6 DEF Apart
  <2> DEFINE c == cl[r.t]
             x == fids[RootFid(r.t)]
             y == fids[FileFid(r.t)]
  <2>9. /\ c \in ClientStates /\ x \in FidStates \cup {None} /\ y \in FidStates \cup {None}
        /\ Agreed(c, x, y) /\ RootFid(r.t) \in Fids /\ FileFid(r.t) \in Fids
        /\ cl \in [Client -> ClientStates] /\ fids \in [Fids -> FidStates \cup {None}]
    BY <1>2, <2>2, FidFacts DEF Running, SessionOK, Typed
  <2>10. /\ r.op = "Attach" => c.st = "start"
         /\ r.op = "Walk" => c.st = "attached"
         /\ r.op = "Open" => c.st = "walked"
    <3>1. r.op \in Allowed(c.st) /\ c.st \in {"start", "attached", "walked", "opened"}
      BY <2>2, <2>3, <2>9, MessageFacts DEF Agreed, ClientStates
    <3> QED
      BY <3>1 DEF Allowed
  <2>11. (r.op = "Attach" => x = None) /\ (r.op = "Open" => y # None)
    BY <2>9, <2>10 DEF Agreed
  <2>12. Raises(r) => r.ok /\ r.op = "Walk" /\ y # None
    <3>1. r.op \in {"Attach", "Walk", "Open", "Read", "Clunk"}
      BY <2>2, MessageFacts
    <3> QED
      BY <2>11, <3>1 DEF Raises, NewFid
  <2>13. CASE Raises(r)
    <3>1. pc' = "dead" /\ UNCHANGED <<fids, cl>>
      BY <2>5, <2>13
    <3>2. Typed'
      BY <1>1, <1>2, <1>3, <2>6, <3>1 DEF Typed, InTable
    <3>3. NoStrayReply'
      BY <1>2, <3>1 DEF NoStrayReply
    <3>4. NoZombies'
      <4>1. "Clunk" \notin Ops => y = None
        BY <2>2, <2>10, <2>12, <2>13 DEF PersistInv, NoZombies
      <4> QED
        BY <2>12, <2>13, <4>1 DEF NoZombies
    <3> QED
      BY <3>1, <3>2, <3>3, <3>4 DEF PersistInv
  <2>14. CASE ~Raises(r)
    <3>1. fids' = HandledFids(r) /\ Sendrmsg(<<r>>) /\ pc' = pc
      BY <2>5, <2>14
    <3>2. /\ cl' \in [Client -> ClientStates] /\ cl'[r.t] = Told(c, r)
          /\ \A t \in Client : t # r.t => cl'[t] = cl[t]
      BY <2>1, <2>9, <3>1, AnsweredOne
    <3>3. /\ \A f \in Fids : fids'[f] = Later(f, r, fids[f])
          /\ (r.op = "Open" => y # None) => fids' \in [Fids -> FidStates \cup {None}]
      BY <1>2, <2>1, <3>1, HandledAt
    <3>4. \A f \in Fids : f[1] # r.t => fids'[f] = fids[f]
      <4> SUFFICES ASSUME NEW f \in Fids, f[1] # r.t PROVE fids'[f] = fids[f]
        OBVIOUS
      <4>1. f # FileFid(r.t) /\ f # RootFid(r.t)
        BY <2>2, FidFacts
      <4>2. Later(f, r, fids[f]) = fids[f]
        BY <4>1 DEF Later
      <4> QED
        BY <3>3, <4>2
    <3>5. ~(r.ok /\ r.op = "Walk" /\ y # None) /\ ~(r.ok /\ r.op = "Attach" /\ x # None)
      BY <2>11, <2>14 DEF Raises, NewFid
    <3>6. /\ Agreed(cl'[r.t], fids'[RootFid(r.t)], fids'[FileFid(r.t)])
          /\ ("Clunk" \notin Ops /\ (c.st = "attached" => y = None) /\ cl'[r.t].st = "attached")
                => fids'[FileFid(r.t)] = None
      BY <2>1, <2>3, <2>9, <3>2, <3>3, <3>5, AgreedAfter, SMTT(60)
    <3>7. cl'[r.t].out = None /\ cl'[r.t].stray = c.stray
      BY <2>1, <2>2, <2>3, <2>9, <3>2, ToldWaited
    <3>8. fids' \in [Fids -> FidStates \cup {None}]
      BY <2>11, <3>3
    <3>9. Typed'
      <4>1. todo' \subseteq InTable'
        BY <1>1, <1>2 DEF Connection
      <4> QED
        BY <1>1, <1>2, <1>3, <2>6, <3>1, <3>2, <3>8, <4>1 DEF Typed
    <3>10. NoStrayReply'
      BY <1>2, <2>2, <3>2, <3>7 DEF NoStrayReply
    <3>11. NoZombies'
      <4> SUFFICES ASSUME "Clunk" \notin Ops
                   PROVE  /\ pc # "dead"
                          /\ \A t \in Client : cl'[t].st = "attached" => fids'[FileFid(t)] = None
        BY <3>1 DEF NoZombies
      <4>1. pc # "dead" /\ \A t \in Client : cl[t].st = "attached" => fids[FileFid(t)] = None
        BY DEF PersistInv, NoZombies
      <4> SUFFICES ASSUME NEW t \in Client, cl'[t].st = "attached" PROVE fids'[FileFid(t)] = None
        BY <4>1
      <4>2. CASE t = r.t
        BY <2>2, <3>6, <4>1, <4>2
      <4>3. CASE t # r.t
        BY <3>2, <3>4, <4>1, <4>3, FidFacts
      <4> QED
        BY <4>2, <4>3
    <3> HIDE DEF c, x, y
    <3>12. Running'
      <4>1. Connection'
        <5>1. up => Readerror \notin In(rmsg')
          BY <1>2, <1>3 DEF Connection
        <5>2. \A i \in DOMAIN rmsg' : rmsg'[i] = Readerror => i = Len(rmsg')
          <6> SUFFICES ASSUME NEW i \in 1 .. Len(rmsg) - 1, rmsg'[i] = Readerror PROVE i = Len(rmsg')
            BY <1>4
          <6>1. i + 1 \in DOMAIN rmsg /\ rmsg[i + 1] = Readerror
            BY <1>4
          <6>2. i + 1 = Len(rmsg)
            BY <1>2, <6>1 DEF Connection
          <6>3. Len(rmsg') = (i + 1) - 1
            BY <1>4, <6>2
          <6>4. (i + 1) - 1 = i
            OBVIOUS
          <6> QED
            BY <6>3, <6>4
        <5>3. ~up => rmsg' # <<>> /\ Last(rmsg') = Readerror
          <6> SUFFICES ASSUME ~up PROVE rmsg' # <<>> /\ Last(rmsg') = Readerror
            OBVIOUS
          <6>1. rmsg[Len(rmsg)] = Readerror
            BY <1>1, <1>2 DEF Connection, Last
          <6>2. Len(rmsg) # 1
            BY <1>4, <1>6, <6>1
          <6>3. Len(rmsg) - 1 \in 1 .. Len(rmsg) - 1 /\ (Len(rmsg) - 1) + 1 = Len(rmsg)
            BY <1>4, <6>2
          <6>4. rmsg'[Len(rmsg')] = Readerror /\ Len(rmsg') # 0
            BY <1>4, <6>1, <6>3
          <6> QED
            BY <6>4 DEF Last
        <5>4. version = "done" /\ pc' = "alt" /\ todo = {} /\ (~up => reqs = <<>> /\ work = {})
          BY <1>1, <1>2, <3>1 DEF Connection
        <5> QED
          BY <1>1, <5>1, <5>2, <5>3, <5>4 DEF Connection
      <4>2. Alone'
        BY <1>1, <1>2, <1>3, <2>6 DEF Alone
      <4>3. Waited'
        <5>1. \A m \in In(tmsg) : m \in Messages /\ m.t # r.t /\ m.op = cl'[m.t].out
          <6> SUFFICES ASSUME NEW m \in In(tmsg) PROVE m \in Messages /\ m.t # r.t /\ m.op = cl'[m.t].out
            OBVIOUS
          <6>1. m \in Messages /\ m.t \in Client
            BY <1>2, InTyped, MessageFacts
          <6>2. m.t # r.t /\ m.op = cl[m.t].out
            BY <1>2, <2>2, <2>3 DEF Waited
          <6> QED
            BY <3>2, <6>1, <6>2
        <5>2. \A m \in In(tags') : m.op = cl'[m.t].out
          <6> SUFFICES ASSUME NEW m \in In(tags') PROVE m.op = cl'[m.t].out
            OBVIOUS
          <6>1. m \in In(tags) /\ m.t # r.t /\ m.t \in Client
            BY <2>6, <2>7, MessageFacts
          <6>2. m.op = cl[m.t].out
            BY <1>2, <6>1 DEF Waited
          <6> QED
            BY <3>2, <6>1, <6>2
        <5>3. \A m \in In(tmsg), k \in In(tags') : m.t # k.t
          BY <1>2, <2>6 DEF Waited
        <5>4. \A t \in Client : cl'[t].out # None =>
                  [op |-> cl'[t].out, t |-> t] \in In(tmsg) \cup In(tags')
          <6> SUFFICES ASSUME NEW t \in Client, cl'[t].out # None
                       PROVE  [op |-> cl'[t].out, t |-> t] \in In(tmsg) \cup In(tags')
            OBVIOUS
          <6>1. t # r.t /\ cl'[t] = cl[t]
            BY <3>2, <3>7
          <6> DEFINE m == [op |-> cl[t].out, t |-> t]
          <6>2. m \in In(tmsg) \cup In(tags) /\ m.t = t
            BY <1>2, <6>1 DEF Waited
          <6> HIDE DEF m
          <6>3. m # Asked(r)
            BY <2>2, <6>1, <6>2
          <6>4. m \in In(tmsg) \cup In(tags')
            BY <2>6, <6>2, <6>3
          <6> QED
            BY <6>1, <6>4 DEF m
        <5> QED
          BY <1>1, <5>1, <5>2, <5>3, <5>4 DEF Waited
      <4>7. Answers' = In(rmsg') \ {Readerror} /\ Answers = Answers' \cup {r}
        BY <1>3, <1>6 DEF Answers
      <4>8. \A q \in Answers' : q \in Answers /\ q.t # r.t /\ q \in Replies /\ Asked(q).t = q.t
        <5>1. \A q \in Answers' : q \in Answers /\ q.t # r.t
          BY <2>8, <4>7
        <5> QED
          BY <1>2, <5>1, InTyped, MessageFacts
      <4>4. Beyond'
        <5>1. /\ In(reqs) \subseteq In(tags) /\ work \subseteq In(tags)
              /\ Asked(r) \notin In(reqs) /\ Asked(r) \notin work
              /\ In(reqs) \cap work = {} /\ \A m \in work : m.op = "Read"
          BY <1>2, <2>1 DEF Beyond
        <5>2. In(reqs) \subseteq In(tags') /\ work \subseteq In(tags')
          BY <2>6, <5>1
        <5>3. \A q \in Answers' : Asked(q) \in In(tags')
          <6> SUFFICES ASSUME NEW q \in Answers' PROVE Asked(q) \in In(tags')
            OBVIOUS
          <6>1. Asked(q) \in In(tags) /\ Asked(q) # Asked(r)
            BY <1>2, <2>2, <4>8 DEF Beyond
          <6> QED
            BY <2>6, <6>1
        <5>4. \A q \in Answers' : Asked(q) \notin In(reqs) /\ Asked(q) \notin work
          BY <1>2, <4>8 DEF Beyond
        <5>5. ASSUME up, NEW m \in In(tags')
              PROVE  m \in In(reqs) \/ m \in work \/ \E q \in Answers' : Asked(q) = m
          <6>1. m \in In(tags) /\ m.t # r.t
            BY <2>6, <2>7
          <6>2. m \in In(reqs) \/ m \in work \/ \E q \in Answers : Asked(q) = m
            BY <1>1, <1>2, <5>5, <6>1 DEF Beyond
          <6>3. m # Asked(r)
            BY <2>2, <6>1
          <6> QED
            BY <4>7, <6>2, <6>3
        <5> QED
          BY <1>1, <5>1, <5>2, <5>3, <5>4, <5>5 DEF Beyond
      <4>5. \A f \in Fids : FidOK(f)' /\ ServerOK(f)'
        <5> SUFFICES ASSUME NEW f \in Fids PROVE FidOK(f)' /\ ServerOK(f)'
          OBVIOUS
        <5>1. FidOK(f) /\ ServerOK(f)
          BY <1>2 DEF Running
        <5>2. FidOK(f)'
          <6>1. fids'[f] = Later(f, r, fids[f]) /\ fate'[f] = fate[f]
            BY <1>1, <3>3
          <6>2. CASE fids'[f] = fids[f]
            BY <5>1, <6>1, <6>2 DEF FidOK
          <6>3. CASE fids'[f] = None
            BY <6>3 DEF FidOK
          <6>4. CASE fids'[f] = Walked(r.t, "/") /\ f = RootFid(r.t)
            BY <2>2, <6>4, FidFacts DEF FidOK, Walked
          <6>5. CASE fids'[f] = Walked(r.t, "a") /\ f = FileFid(r.t)
            BY <2>2, <6>5, FidFacts DEF FidOK, Walked
          <6>6. CASE fids'[f] = [fids[f] EXCEPT !.state = "OPEN"] /\ f = FileFid(r.t) /\ r.op = "Open"
            <7>1. fids[f] # None /\ fids[f] \in FidStates
              BY <2>9, <2>11, <6>6 DEF y
            <7>2. /\ fids'[f].aname = fids[f].aname /\ fids'[f].path = fids[f].path
                  /\ fids'[f].qid = fids[f].qid /\ fids'[f].state = "OPEN"
              BY <6>6, <7>1 DEF FidStates
            <7>3. f[2] = "file"
              BY <2>2, <6>6, FidFacts
            <7> QED
              BY <5>1, <7>1, <7>2, <7>3 DEF FidOK
          <6> QED
            BY <6>1, <6>2, <6>3, <6>4, <6>5, <6>6 DEF Later
        <5>3. ASSUME up, fate[f] = "live" PROVE Ahead(f)'
          <6>1. Ahead(f)
            BY <1>1, <5>1, <5>3 DEF ServerOK
          <6>2. CASE f[1] = r.t
            <7>1. sfids[f] = View(f, fids'[f])
              BY <2>1, <3>3, <6>1, <6>2 DEF Ahead
            <7>2. \A q \in Answers' : q.t # f[1]
              BY <4>8, <6>2
            <7> QED
              BY <1>1, <7>1, <7>2 DEF Ahead
          <6>3. CASE f[1] # r.t
            <7>1. fids'[f] = fids[f] /\ sfids'[f] = sfids[f]
              BY <1>1, <3>4, <6>3
            <7>2. (\A q \in Answers' : q.t # f[1]) => \A q \in Answers : q.t # f[1]
              BY <4>7, <6>3
            <7> QED
              BY <4>8, <6>1, <7>1, <7>2 DEF Ahead
          <6> QED
            BY <6>2, <6>3
        <5> QED
          BY <1>1, <3>1, <5>1, <5>2, <5>3 DEF ServerOK
      <4>6. \A t \in Client : SessionOK(t)'
        <5> SUFFICES ASSUME NEW t \in Client PROVE SessionOK(t)'
          OBVIOUS
        <5>1. CASE t = r.t
          BY <3>6, <5>1 DEF SessionOK
        <5>2. CASE t # r.t
          BY <1>2, <3>2, <3>4, <5>2, FidFacts DEF Running, SessionOK
        <5> QED
          BY <5>1, <5>2
      <4> QED
        BY <4>1, <4>2, <4>3, <4>4, <4>5, <4>6 DEF Running
    <3> QED
      BY <3>9, <3>10, <3>11, <3>12 DEF PersistInv
  <2> QED
    BY <2>13, <2>14
<1> QED
  BY <1>5, <1>6

\* The first T-message, and what is left of the others.
TmsgTaken(m) ==
    /\ pc = "alt" /\ tmsg # <<>> /\ m = Head(tmsg) /\ tmsg' = Tail(tmsg)
    /\ UNCHANGED <<pc, version, todo, root, up, work>> /\ UNCHANGED <<rmsg, sfids, fate, hangups>>

LEMMA TmsgTakenFacts ==
    ASSUME PlainOps, PersistInv, NEW m, TmsgTaken(m)
    PROVE  /\ Typed /\ NoStrayReply /\ Running /\ Connection /\ Alone /\ Waited /\ Beyond
           /\ m \in Messages /\ tmsg' \in Seq(Messages)
           /\ In(tmsg) = In(tmsg') \cup {m} /\ Single(tmsg')
           /\ \A k \in In(tmsg') : k \in Messages /\ k.t # m.t
           /\ cl[m.t].out = m.op
           /\ \A k \in In(tags) : k \in Messages /\ k.t # m.t
           /\ \A r \in Answers : r.t # m.t
           /\ In(reqs) \subseteq In(tags) /\ Answers' = Answers
<1>1. Typed /\ NoStrayReply /\ Running /\ Connection /\ Alone /\ Waited /\ Beyond
  BY DEF PersistInv, Running, TmsgTaken
<1>2. /\ m \in Messages /\ tmsg' \in Seq(Messages)
      /\ In(tmsg) = In(tmsg') \cup {m} /\ Single(tmsg')
      /\ \A k \in In(tmsg') : Apart(k, m)
  BY <1>1, Taken DEF TmsgTaken, Typed, Alone
<1>3. \A k \in In(tmsg') : k \in Messages /\ k.t # m.t
  BY <1>1, <1>2, InTyped, MessageFacts DEF Apart
<1>4. cl[m.t].out = m.op /\ \A k \in In(tags) : k \in Messages /\ k.t # m.t
  BY <1>1, <1>2, InTyped DEF Waited
<1>5. \A r \in Answers : r.t # m.t
  <2> SUFFICES ASSUME NEW r \in Answers PROVE r.t # m.t
    OBVIOUS
  <2>1. Asked(r) \in In(tags) /\ Asked(r).t = r.t
    BY <1>1, InTyped, MessageFacts DEF Beyond
  <2> QED
    BY <1>4, <2>1
<1>6. In(reqs) \subseteq In(tags) /\ Answers' = Answers
  BY <1>1 DEF Beyond, Answers, TmsgTaken
<1> QED
  BY <1>1, <1>2, <1>3, <1>4, <1>5, <1>6

LEMMA ForwardKeeps ==
    ASSUME PlainOps, PersistInv, NEW m, TmsgTaken(m), Forward(m)
    PROVE  PersistInv'
<1>1. /\ Typed /\ NoStrayReply /\ Running /\ Connection /\ Alone /\ Waited /\ Beyond
      /\ m \in Messages /\ tmsg' \in Seq(Messages)
      /\ In(tmsg) = In(tmsg') \cup {m} /\ Single(tmsg')
      /\ \A k \in In(tmsg') : k \in Messages /\ k.t # m.t
      /\ cl[m.t].out = m.op
      /\ \A k \in In(tags) : k \in Messages /\ k.t # m.t
      /\ \A r \in Answers : r.t # m.t
      /\ In(reqs) \subseteq In(tags) /\ Answers' = Answers
  BY TmsgTakenFacts
<1>2. /\ pc = "alt" /\ UNCHANGED <<pc, version, todo, root, up, work>>
      /\ UNCHANGED <<rmsg, sfids, fate, hangups>> /\ UNCHANGED <<fids, cl>>
      /\ tags' = Append(tags, m) /\ reqs' = IF up THEN reqs \o <<m>> ELSE reqs
  BY DEF TmsgTaken, Forward, Sendtmsg
<1>3. /\ tags' \in Seq(Messages) /\ In(tags') = In(tags) \cup {m} /\ Single(tags')
  <2>1. /\ tags' \in Seq(Messages) /\ In(tags') = In(tags) \cup {m}
        /\ Single(tags) /\ (\A k \in In(tags) : Apart(k, m) /\ Apart(m, k)) => Single(tags')
    BY <1>1, <1>2, Appended DEF Typed
  <2>2. \A k \in In(tags) : Apart(k, m) /\ Apart(m, k)
    BY <1>1 DEF Apart
  <2> QED
    BY <1>1, <2>1, <2>2 DEF Alone
<1>4. /\ reqs' \in Seq(Messages) /\ Single(reqs')
      /\ up => In(reqs') = In(reqs) \cup {m}
      /\ ~up => reqs' = reqs
  <2>1. CASE up
    <3>1. reqs \in Seq(Messages)
      BY <1>1 DEF Typed
    <3>2. reqs' = Append(reqs, m)
      BY <1>1, <1>2, <2>1, <3>1
    <3>3. /\ reqs' \in Seq(Messages) /\ In(reqs') = In(reqs) \cup {m}
          /\ Single(reqs) /\ (\A k \in In(reqs) : Apart(k, m) /\ Apart(m, k)) => Single(reqs')
      BY <1>1, <3>1, <3>2, Appended
    <3>4. \A k \in In(reqs) : Apart(k, m) /\ Apart(m, k)
      BY <1>1 DEF Apart
    <3> QED
      BY <1>1, <2>1, <3>3, <3>4 DEF Alone
  <2>2. CASE ~up
    BY <1>1, <1>2, <2>2 DEF Typed, Alone
  <2> QED
    BY <2>1, <2>2
<1>5. m \notin In(tags) /\ m \notin work /\ m \notin In(reqs)
  BY <1>1 DEF Beyond
<1>6. Typed'
  BY <1>1, <1>2, <1>3, <1>4 DEF Typed, InTable
<1>7. NoStrayReply' /\ NoZombies'
  BY <1>1, <1>2 DEF PersistInv, NoStrayReply, NoZombies
<1>8. Connection'
  BY <1>1, <1>2, <1>4 DEF Connection
<1>9. Alone'
  BY <1>1, <1>2, <1>3, <1>4 DEF Alone
<1>10. Waited'
  <2>1. \A k \in In(tmsg') : k.op = cl[k.t].out
    BY <1>1 DEF Waited
  <2>2. \A k \in In(tags') : k.op = cl[k.t].out
    BY <1>1, <1>3 DEF Waited
  <2>3. \A k \in In(tmsg'), l \in In(tags') : k.t # l.t
    BY <1>1, <1>3 DEF Waited
  <2>4. In(tmsg') \cup In(tags') = In(tmsg) \cup In(tags)
    BY <1>1, <1>3
  <2>5. \A t \in Client : cl[t].out # None =>
            [op |-> cl[t].out, t |-> t] \in In(tmsg') \cup In(tags')
    BY <1>1, <2>4 DEF Waited
  <2> QED
    BY <1>2, <2>1, <2>2, <2>3, <2>5 DEF Waited
<1>11. Beyond'
  <2>1. In(reqs') \subseteq In(tags') /\ work \subseteq In(tags')
    BY <1>1, <1>3, <1>4 DEF Beyond
  <2>2. In(reqs') \cap work = {}
    BY <1>1, <1>4, <1>5 DEF Beyond
  <2>3. \A r \in Answers : Asked(r) \in In(tags') /\ Asked(r) \notin In(reqs') /\ Asked(r) \notin work
    <3> SUFFICES ASSUME NEW r \in Answers
                 PROVE  Asked(r) \in In(tags') /\ Asked(r) \notin In(reqs') /\ Asked(r) \notin work
      OBVIOUS
    <3>1. Asked(r) \in In(tags) /\ Asked(r) \notin In(reqs) /\ Asked(r) \notin work
      BY <1>1 DEF Beyond
    <3> QED
      BY <1>3, <1>4, <1>5, <3>1
  <2>4. ASSUME up, NEW k \in In(tags')
        PROVE  k \in In(reqs') \/ k \in work \/ \E r \in Answers : Asked(r) = k
    <3>1. CASE k = m
      BY <1>4, <2>4, <3>1
    <3>2. CASE k # m
      BY <1>1, <1>2, <1>3, <1>4, <2>4, <3>2 DEF Beyond
    <3> QED
      BY <3>1, <3>2
  <2>5. \A k \in work : k.op = "Read"
    BY <1>1 DEF Beyond
  <2> QED
    BY <1>1, <1>2, <2>1, <2>2, <2>3, <2>4, <2>5 DEF Beyond
<1>12. \A f \in Fids : FidOK(f)' /\ ServerOK(f)'
  BY <1>1, <1>2 DEF Running, FidOK, ServerOK, Ahead
<1>13. \A t \in Client : SessionOK(t)'
  BY <1>1, <1>2 DEF Running, SessionOK
<1> QED
  BY <1>6, <1>7, <1>8, <1>9, <1>10, <1>11, <1>12, <1>13 DEF PersistInv, Running

\* run() answers a request on a DEAD fid by itself.
LEMMA AnswerKeeps ==
    ASSUME PlainOps, PersistInv, NEW m, TmsgTaken(m), Dead(FileFid(m.t)) \/ m.op = "Walk",
           NEW ok \in BOOLEAN, Answer(m, ok), ok <=> m.op = "Clunk",
           fids' = IF m.op = "Clunk" THEN [fids EXCEPT ![FileFid(m.t)] = None] ELSE fids
    PROVE  PersistInv'
<1> DEFINE r == Reply(m, ok)
<1>1. /\ Typed /\ NoStrayReply /\ Running /\ Connection /\ Alone /\ Waited /\ Beyond
      /\ m \in Messages /\ tmsg' \in Seq(Messages)
      /\ In(tmsg) = In(tmsg') \cup {m} /\ Single(tmsg')
      /\ \A k \in In(tmsg') : k \in Messages /\ k.t # m.t
      /\ cl[m.t].out = m.op
      /\ \A k \in In(tags) : k \in Messages /\ k.t # m.t
      /\ \A q \in Answers : q.t # m.t
      /\ In(reqs) \subseteq In(tags) /\ Answers' = Answers
  BY TmsgTakenFacts
<1>2. /\ pc = "alt" /\ UNCHANGED <<pc, version, todo, root, up, work>>
      /\ UNCHANGED <<rmsg, sfids, fate, hangups>> /\ UNCHANGED <<tags, reqs>> /\ Sendrmsg(<<r>>)
  BY DEF TmsgTaken, Answer
<1>3. /\ r \in Replies /\ r.t = m.t /\ r.op = m.op /\ r.ok = ok /\ m.t \in Client /\ m.op \in Ops
      /\ m.op # "Flush" /\ m.op # None
  <2>m. m \in Messages
    BY <1>1
  <2>1. m.t \in Client /\ m.op \in Ops /\ m.op # "Flush" /\ m.op # None
    BY <2>m, MessageFacts
  <2>2. r \in Replies /\ r.t = m.t /\ r.op = m.op /\ r.ok = ok
    BY <2>m, MessageFacts
  <2> QED
    BY <2>1, <2>2
<1> HIDE DEF r
<1>4. /\ cl \in [Client -> ClientStates] /\ fids \in [Fids -> FidStates \cup {None}]
      /\ cl[m.t] \in ClientStates /\ FileFid(m.t) \in Fids /\ RootFid(m.t) \in Fids
      /\ fids[RootFid(m.t)] \in FidStates \cup {None} /\ fids[FileFid(m.t)] \in FidStates \cup {None}
      /\ Agreed(cl[m.t], fids[RootFid(m.t)], fids[FileFid(m.t)])
  BY <1>1, <1>3, FidFacts DEF Typed, Running, SessionOK
<1>5. /\ cl' \in [Client -> ClientStates] /\ cl'[m.t] = Told(cl[m.t], r)
      /\ \A t \in Client : t # m.t => cl'[t] = cl[t]
  BY <1>2, <1>3, <1>4, AnsweredOne
<1>6. cl'[m.t].out = None /\ cl'[m.t].stray = cl[m.t].stray
  BY <1>1, <1>3, <1>4, <1>5, ToldWaited
<1>7. /\ \A f \in Fids : fids'[f] = Later(f, r, fids[f])
      /\ fids' \in [Fids -> FidStates \cup {None}]
  BY <1>3, <1>4 DEF Later
<1>8. \A f \in Fids : \/ fids'[f] = fids[f]
                      \/ fids'[f] = None /\ f = FileFid(m.t) /\ m.op = "Clunk" /\ Dead(f)
  BY <1>4
<1>9. /\ Agreed(cl'[m.t], fids'[RootFid(m.t)], fids'[FileFid(m.t)])
      /\ ("Clunk" \notin Ops /\ (cl[m.t].st = "attached" => fids[FileFid(m.t)] = None)
                             /\ cl'[m.t].st = "attached")
            => fids'[FileFid(m.t)] = None
  BY <1>1, <1>3, <1>4, <1>5, <1>7, AgreedAfter, SMTT(60)
<1>10. \A f \in Fids : f[1] # m.t => fids'[f] = fids[f]
  BY <1>3, <1>8, FidFacts
<1>11. Typed'
  BY <1>1, <1>2, <1>5, <1>7 DEF Typed, Connection
<1>12. NoStrayReply'
  BY <1>1, <1>5, <1>6 DEF NoStrayReply
<1>13. NoZombies'
  <2> SUFFICES ASSUME "Clunk" \notin Ops
               PROVE  /\ pc # "dead"
                      /\ \A t \in Client : cl'[t].st = "attached" => fids'[FileFid(t)] = None
    BY <1>2 DEF NoZombies
  <2>1. pc # "dead" /\ \A t \in Client : cl[t].st = "attached" => fids[FileFid(t)] = None
    BY DEF PersistInv, NoZombies
  <2> SUFFICES ASSUME NEW t \in Client, cl'[t].st = "attached" PROVE fids'[FileFid(t)] = None
    BY <2>1
  <2>2. CASE t = m.t
    BY <1>3, <1>9, <2>1, <2>2
  <2>3. CASE t # m.t
    BY <1>5, <1>10, <2>1, <2>3, FidFacts
  <2> QED
    BY <2>2, <2>3
<1>14. Connection'
  BY <1>1, <1>2 DEF Connection
<1>15. Alone'
  BY <1>1, <1>2 DEF Alone
<1>16. Waited'
  <2>1. \A k \in In(tmsg') : k.op = cl'[k.t].out
    BY <1>1, <1>5, MessageFacts DEF Waited
  <2>2. \A k \in In(tags) : k.op = cl'[k.t].out
    BY <1>1, <1>5, MessageFacts DEF Waited
  <2>3. \A k \in In(tmsg'), l \in In(tags) : k.t # l.t
    BY <1>1 DEF Waited
  <2>4. \A t \in Client : cl'[t].out # None =>
            [op |-> cl'[t].out, t |-> t] \in In(tmsg') \cup In(tags)
    <3> SUFFICES ASSUME NEW t \in Client, cl'[t].out # None
                 PROVE  [op |-> cl'[t].out, t |-> t] \in In(tmsg') \cup In(tags)
      OBVIOUS
    <3>1. t # m.t /\ cl'[t] = cl[t]
      BY <1>5, <1>6
    <3> DEFINE k == [op |-> cl[t].out, t |-> t]
    <3>2. k \in In(tmsg) \cup In(tags) /\ k.t = t
      BY <1>1, <3>1 DEF Waited
    <3> HIDE DEF k
    <3>3. k \in In(tmsg') \cup In(tags)
      BY <1>1, <3>1, <3>2
    <3> QED
      BY <3>1, <3>3 DEF k
  <2> QED
    BY <1>2, <2>1, <2>2, <2>3, <2>4 DEF Waited
<1>17. Beyond'
  BY <1>1, <1>2 DEF Beyond
<1>18. \A f \in Fids : FidOK(f)' /\ ServerOK(f)'
  <2> SUFFICES ASSUME NEW f \in Fids PROVE FidOK(f)' /\ ServerOK(f)'
    OBVIOUS
  <2>1. FidOK(f) /\ ServerOK(f)
    BY <1>1 DEF Running
  <2>2. FidOK(f)'
    BY <1>2, <1>8, <2>1 DEF FidOK
  <2>3. ASSUME fate[f] = "live" PROVE fids'[f] = fids[f]
    BY <1>8, <2>1, <2>3 DEF FidOK, Dead
  <2>4. ASSUME fate[f] = "live", up PROVE Ahead(f)'
    BY <1>1, <1>2, <2>1, <2>3, <2>4 DEF ServerOK, Ahead
  <2> QED
    BY <1>2, <2>1, <2>2, <2>4 DEF ServerOK
<1>19. \A t \in Client : SessionOK(t)'
  <2> SUFFICES ASSUME NEW t \in Client PROVE SessionOK(t)'
    OBVIOUS
  <2>1. CASE t = m.t
    BY <1>9, <2>1 DEF SessionOK
  <2>2. CASE t # m.t
    BY <1>1, <1>5, <1>10, <2>2, FidFacts DEF Running, SessionOK
  <2> QED
    BY <2>1, <2>2
<1> QED
  BY <1>11, <1>12, <1>13, <1>14, <1>15, <1>16, <1>17, <1>18, <1>19 DEF PersistInv, Running

LEMMA TakeTmsgKeeps ==
    ASSUME PlainOps, PersistInv, TakeTmsg
    PROVE  PersistInv'
<1> DEFINE m == Head(tmsg)
<1>1. /\ pc = "alt" /\ tmsg # <<>> /\ Handletmsg(m) /\ tmsg' = Tail(tmsg)
      /\ UNCHANGED <<version, todo, root, up, work, rmsg, sfids, fate, hangups>>
  BY DEF TakeTmsg
<1> HIDE DEF m
<1>2. /\ Typed /\ Running /\ m \in Messages /\ cl[m.t].out = m.op
  <2>1. Typed /\ Running /\ Waited
    BY <1>1 DEF PersistInv, Running
  <2>2. m \in In(tmsg) /\ m \in Messages
    BY <1>1, <2>1, Taken DEF Typed, m
  <2> QED
    BY <2>1, <2>2 DEF Waited
<1>3. /\ m.op \in {"Attach", "Walk", "Open", "Read", "Clunk"} /\ m.op # None /\ m.t \in Client
      /\ HasFid(m) <=> m.op # "Attach"
      /\ FidOf(m) = IF m.op = "Walk" THEN RootFid(m.t) ELSE FileFid(m.t)
  BY <1>2, MessageFacts DEF HasFid, FidOf
<1>4. HasFid(m) => fids[FidOf(m)] # None
  <2>1. Agreed(cl[m.t], fids[RootFid(m.t)], fids[FileFid(m.t)]) /\ cl[m.t] \in ClientStates
    BY <1>2, <1>3 DEF Running, SessionOK, Typed
  <2>2. m.op \in Allowed(cl[m.t].st) /\ cl[m.t].st \in {"start", "attached", "walked", "opened"}
    BY <1>2, <1>3, <2>1 DEF Agreed, ClientStates
  <2>3. /\ m.op = "Walk" => cl[m.t].st = "attached"
        /\ m.op \in {"Open", "Read", "Clunk"} => cl[m.t].st \in {"walked", "opened"}
    BY <2>2 DEF Allowed
  <2> QED
    BY <1>3, <2>1, <2>3 DEF Agreed
<1>5. CASE Forward(m)
  <2>1. TmsgTaken(m)
    BY <1>1, <1>5 DEF TmsgTaken, Forward, m
  <2> QED
    BY <1>5, <2>1, ForwardKeeps
<1>6. CASE /\ HasFid(m) /\ Dead(FidOf(m)) /\ m.op = "Clunk" /\ Answer(m, TRUE)
           /\ fids' = [fids EXCEPT ![FidOf(m)] = None]
  <2>1. TmsgTaken(m)
    BY <1>1, <1>6 DEF TmsgTaken, Answer, m
  <2> QED
    BY <1>3, <1>6, <2>1, AnswerKeeps
<1>7. CASE HasFid(m) /\ Dead(FidOf(m)) /\ m.op # "Clunk" /\ Answer(m, FALSE) /\ UNCHANGED fids
  <2>1. TmsgTaken(m)
    BY <1>1, <1>7 DEF TmsgTaken, Answer, m
  <2> QED
    BY <1>3, <1>7, <2>1, AnswerKeeps
<1> QED
  BY <1>1, <1>3, <1>4, <1>5, <1>6, <1>7 DEF Handletmsg

\* The replies resurrecttags() sends: an error to each request on a DEAD fid.
LEMMA TagsAnswered ==
    ASSUME PlainOps, Typed, Single(tags), ResurrectTags
    PROVE  /\ cl' \in [Client -> ClientStates]
           /\ \A m \in In(tags) : OnDeadFid(m) => cl'[m.t] = Told(cl[m.t], Reply(m, FALSE))
           /\ \A t \in Client : (\A m \in In(tags) : OnDeadFid(m) => m.t # t) => cl'[t] = cl[t]
<1> DEFINE F == {m \in Messages : OnDeadFid(m) \/ Partial(m)}
           G == {m \in Messages : FlushesNothing(m)}
           failed == Those(tags, F)
           flushed == Those(tags, G)
           errors == [i \in DOMAIN failed |-> Reply(failed[i], FALSE)]
           rflushes == [i \in DOMAIN flushed |-> Reply(flushed[i], TRUE)]
<1>1. Sendrmsg(errors \o rflushes)
  BY DEF ResurrectTags
<1>2. \A m \in Messages : m \in F <=> OnDeadFid(m)
  BY MessageFacts DEF Partial
<1>3. G = {}
  BY MessageFacts DEF FlushesNothing
<1>4. tags \in Seq(Messages)
  BY DEF Typed
<1> HIDE DEF F, G
<1>5. failed \in Seq(Messages) /\ In(failed) = In(tags) \cap F /\ Single(failed)
  BY <1>4, Filtered
<1>6. flushed \in Seq(Messages) /\ In(flushed) = {}
  BY <1>3, <1>4, Filtered
<1> HIDE DEF failed, flushed
<1>7. rflushes = <<>>
  <2>1. DOMAIN flushed = {}
    BY <1>6 DEF In
  <2>2. Len(flushed) = 0
    BY <1>6, <2>1
  <2>3. rflushes \in Seq(Replies) /\ Len(rflushes) = 0
    BY <1>6, <2>1, <2>2
  <2> QED
    BY <2>3
<1>8. errors \in Seq(Replies) /\ DOMAIN errors = DOMAIN failed
  <2>0. \A i \in DOMAIN failed : failed[i] \in Messages
    BY <1>5
  <2>1. \A i \in DOMAIN failed : Reply(failed[i], FALSE) \in Replies
    BY <2>0, MessageFacts
  <2>2. DOMAIN failed = 1 .. Len(failed) /\ Len(failed) \in Nat
    BY <1>5
  <2>3. errors \in [1 .. Len(failed) -> Replies]
    BY <2>1, <2>2
  <2> HIDE DEF errors
  <2> QED
    BY <2>2, <2>3
<1>9. Sendrmsg(errors)
  BY <1>1, <1>7, <1>8, ConcatEmptySeq
<1> HIDE DEF rflushes
<1>10. \A i \in DOMAIN errors : errors[i] = Reply(failed[i], FALSE) /\ failed[i] \in Messages
  BY <1>5, <1>8
<1> HIDE DEF errors
<1>11. In(errors) = {Reply(m, FALSE) : m \in In(failed)}
  BY <1>8, <1>10 DEF In
<1>12. Single(errors)
  <2> SUFFICES ASSUME NEW i \in DOMAIN errors, NEW j \in DOMAIN errors, i # j
               PROVE  Apart(errors[i], errors[j])
    BY DEF Single
  <2>1. Apart(failed[i], failed[j])
    BY <1>5, <1>8 DEF Single
  <2>2. failed[i] # Readerror /\ failed[j] # Readerror
    BY <1>10, MessageFacts
  <2>3. errors[i].t = failed[i].t /\ errors[j].t = failed[j].t
    BY <1>10, MessageFacts
  <2> QED
    BY <2>1, <2>2, <2>3 DEF Apart
<1>13. cl \in [Client -> ClientStates]
  BY DEF Typed
<1>14. /\ cl' \in [Client -> ClientStates]
       /\ \A r \in In(errors) : cl'[r.t] = Told(cl[r.t], r)
       /\ \A t \in Client : (\A r \in In(errors) : r.t # t) => cl'[t] = cl[t]
  BY <1>8, <1>9, <1>12, <1>13, Answered
<1>15. \A m \in In(tags) : m \in Messages
  BY InTyped
<1>16. ASSUME NEW m \in In(tags), OnDeadFid(m) PROVE cl'[m.t] = Told(cl[m.t], Reply(m, FALSE))
  <2>1. Reply(m, FALSE) \in In(errors) /\ Reply(m, FALSE).t = m.t
    BY <1>2, <1>5, <1>11, <1>15, <1>16, MessageFacts, ZenonT(60)
  <2> QED
    BY <1>14, <2>1
<1>17. ASSUME NEW t \in Client, \A m \in In(tags) : OnDeadFid(m) => m.t # t PROVE cl'[t] = cl[t]
  <2>1. \A r \in In(errors) : r.t # t
    <3> SUFFICES ASSUME NEW m \in In(failed) PROVE Reply(m, FALSE).t # t
      BY <1>11
    <3>1. m \in In(tags) /\ m \in Messages /\ OnDeadFid(m)
      BY <1>2, <1>5, <1>15
    <3>2. Reply(m, FALSE).t = m.t
      BY <3>1, MessageFacts
    <3> QED
      BY <1>17, <3>1, <3>2
  <2> QED
    BY <1>14, <2>1
<1> QED
  BY <1>14, <1>16, <1>17

LEMMA ResurrectTagsKeeps ==
    ASSUME PlainOps, PersistInv, ResurrectTags
    PROVE  PersistInv'
<1> DEFINE K == {m \in Messages : Kept(m)}
<1>1. /\ pc = "fids" /\ todo = {} /\ pc' = "alt" /\ tags' = Those(tags, K) /\ Resend(tags')
      /\ UNCHANGED <<version, fids, todo, root, up, work>>
      /\ UNCHANGED <<rmsg, sfids, tmsg, fate, hangups>>
  BY DEF ResurrectTags
<1>2. Typed /\ NoStrayReply /\ Running /\ Connection /\ Alone /\ Waited /\ Beyond
  BY <1>1 DEF PersistInv, Running
<1>3. \A m \in Messages : m \in K <=> ~OnDeadFid(m)
  BY MessageFacts DEF Kept, FlushesNothing
<1> HIDE DEF K
<1>4. tags' \in Seq(Messages) /\ In(tags') = In(tags) \cap K /\ Single(tags')
  BY <1>1, <1>2, Filtered DEF Typed, Alone
<1>5. up /\ reqs = <<>> /\ work = {} /\ rmsg = <<>> /\ version = "done"
  BY <1>1, <1>2 DEF Connection
<1>6. reqs' = tags'
  BY <1>1, <1>4, <1>5, ConcatEmptySeq DEF Resend, Sendtmsg
<1>7. Answers = {} /\ Answers' = {} /\ In(rmsg) = {}
  BY <1>1, <1>5 DEF Answers, In
<1>8. /\ cl' \in [Client -> ClientStates]
      /\ \A m \in In(tags) : OnDeadFid(m) => cl'[m.t] = Told(cl[m.t], Reply(m, FALSE))
      /\ \A t \in Client : (\A m \in In(tags) : OnDeadFid(m) => m.t # t) => cl'[t] = cl[t]
  BY <1>2, TagsAnswered DEF Alone
<1>9. \A m \in In(tags) : m \in Messages /\ m.t \in Client /\ m # Readerror /\ m.op = cl[m.t].out
  BY <1>2, InTyped, MessageFacts DEF Waited
<1>10. \A m \in In(tags') : m \in In(tags) /\ ~OnDeadFid(m) /\ cl'[m.t] = cl[m.t]
  <2> SUFFICES ASSUME NEW m \in In(tags') PROVE m \in In(tags) /\ ~OnDeadFid(m) /\ cl'[m.t] = cl[m.t]
    OBVIOUS
  <2>1. m \in In(tags) /\ ~OnDeadFid(m)
    BY <1>3, <1>4, <1>9
  <2>2. \A k \in In(tags) : k.t = m.t => k = m
    BY <1>2, <1>9, <2>1, OneOf DEF Alone
  <2> QED
    BY <1>8, <1>9, <2>1, <2>2
\* A client is answered, or knows what it knew.
<1>11. ASSUME NEW t \in Client
       PROVE  \/ cl'[t] = cl[t]
              \/ \E m \in In(tags) : /\ m.t = t /\ OnDeadFid(m) /\ cl'[t].out = None
                                     /\ cl'[t].st = After(cl[t].st, Reply(m, FALSE))
                                     /\ cl'[t].stray = cl[t].stray
  <2>1. CASE \E m \in In(tags) : OnDeadFid(m) /\ m.t = t
    <3>1. PICK m \in In(tags) : OnDeadFid(m) /\ m.t = t
      BY <2>1
    <3>2. /\ Reply(m, FALSE) \in Replies /\ Reply(m, FALSE).op = m.op /\ m.op # "Flush"
          /\ cl[t] \in ClientStates /\ m.op = cl[t].out
      BY <1>2, <1>9, <3>1, MessageFacts DEF Typed
    <3>3. cl'[t] = Told(cl[t], Reply(m, FALSE))
      BY <1>8, <3>1
    <3>4. /\ Told(cl[t], Reply(m, FALSE)).out = None
          /\ Told(cl[t], Reply(m, FALSE)).st = After(cl[t].st, Reply(m, FALSE))
          /\ Told(cl[t], Reply(m, FALSE)).stray = cl[t].stray
      BY <3>2, ToldWaited
    <3> QED
      BY <3>1, <3>3, <3>4
  <2>2. CASE ~ \E m \in In(tags) : OnDeadFid(m) /\ m.t = t
    BY <1>8, <2>2
  <2> QED
    BY <2>1, <2>2
<1>12. Typed'
  <2>1. <<>> \in Seq(Messages)
    OBVIOUS
  <2> QED
    BY <1>1, <1>2, <1>4, <1>6, <1>8 DEF Typed, InTable
<1>13. NoStrayReply'
  BY <1>2, <1>11 DEF NoStrayReply
<1>14. NoZombies'
  <2> SUFFICES ASSUME "Clunk" \notin Ops, NEW t \in Client, cl'[t].st = "attached"
               PROVE  fids[FileFid(t)] = None
    BY <1>1 DEF NoZombies
  <2>1. cl'[t].st = cl[t].st
    <3>1. ASSUME NEW m \in In(tags) PROVE After(cl[t].st, Reply(m, FALSE)) = cl[t].st
      <4>1. m \in Messages
        BY <1>9
      <4>2. /\ m.op \in Ops /\ Ops \subseteq {"Attach", "Walk", "Open", "Read", "Clunk"}
            /\ Reply(m, FALSE).op = m.op /\ Reply(m, FALSE).ok = FALSE
        BY <4>1, MessageFacts
      <4>3. Reply(m, FALSE).op \notin {"Clunk", "Remove"}
        BY <4>2
      <4> QED
        BY <4>2, <4>3 DEF After
    <3> QED
      BY <1>11, <3>1
  <2> QED
    BY <2>1 DEF PersistInv, NoZombies
<1>15. Connection'
  BY <1>1, <1>2, <1>5, <1>7 DEF Connection
<1>16. Alone'
  BY <1>1, <1>2, <1>4, <1>6 DEF Alone
<1>17. Waited'
  <2>1. \A m \in In(tmsg) : m.op = cl'[m.t].out
    <3> SUFFICES ASSUME NEW m \in In(tmsg) PROVE m.op = cl'[m.t].out
      OBVIOUS
    <3>1. m.t \in Client /\ m.op = cl[m.t].out /\ \A k \in In(tags) : k.t # m.t
      BY <1>2, InTyped, MessageFacts DEF Waited
    <3> QED
      BY <1>8, <3>1
  <2>2. \A m \in In(tags') : m.op = cl'[m.t].out
    BY <1>9, <1>10
  <2>3. \A m \in In(tmsg), k \in In(tags') : m.t # k.t
    BY <1>2, <1>10 DEF Waited
  <2>4. \A t \in Client : cl'[t].out # None =>
            [op |-> cl'[t].out, t |-> t] \in In(tmsg) \cup In(tags')
    <3> SUFFICES ASSUME NEW t \in Client, cl'[t].out # None
                 PROVE  [op |-> cl'[t].out, t |-> t] \in In(tmsg) \cup In(tags')
      OBVIOUS
    <3>1. cl'[t] = cl[t]
      BY <1>11
    <3> DEFINE k == [op |-> cl[t].out, t |-> t]
    <3>2. k \in In(tmsg) \cup In(tags) /\ k.t = t
      BY <1>2, <3>1 DEF Waited
    <3> HIDE DEF k
    <3>3. ASSUME k \in In(tags) PROVE k \in In(tags')
      <4>1. ~OnDeadFid(k)
        <5> SUFFICES ASSUME OnDeadFid(k) PROVE FALSE
          OBVIOUS
        <5>1. /\ Reply(k, FALSE) \in Replies /\ Reply(k, FALSE).op = k.op /\ k.op # "Flush"
              /\ cl[t] \in ClientStates /\ k.op = cl[t].out
          BY <1>2, <1>9, <3>2, <3>3, MessageFacts DEF Typed
        <5>2. Told(cl[t], Reply(k, FALSE)).out = None
          BY <5>1, ToldWaited
        <5> QED
          BY <1>8, <3>2, <3>3, <5>2
      <4> QED
        BY <1>3, <1>4, <1>9, <3>3, <4>1
    <3> QED
      BY <3>1, <3>2, <3>3 DEF k
  <2> QED
    BY <1>1, <2>1, <2>2, <2>3, <2>4 DEF Waited
<1>18. Beyond'
  BY <1>1, <1>5, <1>6, <1>7 DEF Beyond
<1>19. \A f \in Fids : FidOK(f)' /\ ServerOK(f)'
  <2> SUFFICES ASSUME NEW f \in Fids PROVE FidOK(f)' /\ ServerOK(f)'
    OBVIOUS
  <2>1. FidOK(f) /\ ServerOK(f)
    BY <1>2 DEF Running
  <2>2. fate[f] = "live" => sfids[f] = View(f, fids[f])
    BY <1>1, <2>1 DEF ServerOK
  <2>3. fate[f] = "live" => Ahead(f)'
    BY <1>1, <1>7, <2>2 DEF Ahead
  <2> QED
    BY <1>1, <1>5, <2>1, <2>3 DEF FidOK, ServerOK
<1>20. \A t \in Client : SessionOK(t)'
  <2> SUFFICES ASSUME NEW t \in Client PROVE SessionOK(t)'
    OBVIOUS
  <2>1. Agreed(cl[t], fids[RootFid(t)], fids[FileFid(t)]) /\ cl[t] \in ClientStates
    BY <1>2 DEF Running, SessionOK, Typed
  <2>2. CASE cl'[t] = cl[t]
    BY <1>1, <2>1, <2>2 DEF SessionOK
  <2>3. ASSUME NEW m \in In(tags), m.t = t, OnDeadFid(m), cl'[t].out = None,
               cl'[t].st = After(cl[t].st, Reply(m, FALSE))
        PROVE  SessionOK(t)'
    <3>1. /\ m.op \in {"Attach", "Walk", "Open", "Read", "Clunk"} /\ m.op = cl[t].out /\ m.op # None
          /\ Reply(m, FALSE).op = m.op /\ Reply(m, FALSE).ok = FALSE
      BY <1>9, <2>3, MessageFacts
    <3>2. CASE m.op = "Clunk"
      <4>1. cl'[t].st = "attached"
        BY <2>3, <3>1, <3>2 DEF After
      <4>2. fids[FileFid(t)].state = "DEAD"
        BY <2>3, <3>2 DEF OnDeadFid, FidOf, Dead
      <4>3. m.op \in Allowed(cl[t].st) /\ cl[t].st \in {"start", "attached", "walked", "opened"}
        BY <2>1, <3>1 DEF Agreed, ClientStates
      <4>4. cl[t].st # "start"
        BY <3>2, <4>3 DEF Allowed
      <4> QED
        BY <1>1, <2>1, <2>3, <4>1, <4>2, <4>4 DEF SessionOK, Agreed
    <3>3. CASE m.op # "Clunk"
      <4>1. cl'[t].st = cl[t].st
        BY <2>3, <3>1, <3>3 DEF After
      <4> QED
        BY <1>1, <2>1, <2>3, <4>1 DEF SessionOK, Agreed
    <3> QED
      BY <3>2, <3>3
  <2> QED
    BY <1>11, <2>2, <2>3
<1> QED
  BY <1>12, <1>13, <1>14, <1>15, <1>16, <1>17, <1>18, <1>19, <1>20 DEF PersistInv, Running

LEMMA PersistStep ==
    ASSUME PlainOps, PersistInv, [Next]_vars PROVE PersistInv'
<1>1. CASE UNCHANGED vars
  <2>1. /\ UNCHANGED <<pc, version, tags, fids, todo, root>> /\ UNCHANGED <<up, reqs, work>>
        /\ UNCHANGED <<rmsg, sfids, tmsg>> /\ UNCHANGED <<cl, fate, hangups>>
    BY <1>1 DEF vars, proxyVars, serverVars
  <2>2. Typed => Typed'
    BY <2>1 DEF Typed, InTable
  <2>3. (NoStrayReply => NoStrayReply') /\ (NoZombies => NoZombies')
    BY <2>1 DEF NoStrayReply, NoZombies
  <2>4. (Connection => Connection') /\ (Alone => Alone') /\ (Waited => Waited')
    BY <2>1 DEF Connection, Alone, Waited
  <2>5. Beyond => Beyond'
    BY <2>1 DEF Beyond, Answers
  <2>6. \A f \in Fids : (FidOK(f) => FidOK(f)') /\ (ServerOK(f) => ServerOK(f)')
    BY <2>1 DEF FidOK, ServerOK, Ahead, Answers
  <2>7. \A t \in Client : SessionOK(t) => SessionOK(t)'
    BY <2>1 DEF SessionOK
  <2>8. Running => Running'
    BY <2>4, <2>5, <2>6, <2>7 DEF Running
  <2> QED
    BY <2>1, <2>2, <2>3, <2>8 DEF PersistInv
<1>2. ASSUME NEW t \in Client, Flush(t) PROVE FALSE
  BY <1>2, MessageFacts DEF Flush
<1>3. ASSUME NEW t \in Client, NEW op \in Ops, Request(t, op) PROVE PersistInv'
  BY <1>3, RequestKeeps
<1>4. CASE TakeTmsg
  BY <1>4, TakeTmsgKeeps
<1>5. CASE TakeRmsg
  BY <1>5, TakeRmsgKeeps
<1>6. CASE FirstConnect
  BY <1>6, FirstConnectKeeps
<1>7. CASE Connect
  BY <1>7, ConnectKeeps
<1>8. CASE ResurrectTags
  BY <1>8, ResurrectTagsKeeps
<1>9. ASSUME NEW f \in Fids, ResurrectFid(f) PROVE PersistInv'
  BY <1>9, ResurrectFidKeeps
<1>10. CASE Serve
  BY <1>10, ServeKeeps
<1>11. ASSUME NEW m \in work, ServeRead(m) PROVE PersistInv'
  BY <1>11, ServeReadKeeps
<1>12. CASE Hangup
  BY <1>12, HangupKeeps
<1> QED
  BY <1>1, <1>2, <1>3, <1>4, <1>5, <1>6, <1>7, <1>8, <1>9, <1>10, <1>11, <1>12
     DEF Next, ClientStep, ProxyStep, ServerStep

\* What the invariant promises.
LEMMA AgreeByInv == ASSUME PlainOps, PersistInv PROVE FidsAgree
<1> SUFFICES ASSUME Quiet, NEW f \in Fids, fate[f] = "live"
             PROVE  /\ (fids[f] # None) = (sfids[f] # None)
                    /\ fids[f] # None => f \in Session(f[1])
                    /\ fids[f] # None =>
                          sfids[f] = File(f[1], fids[f].path, fids[f].state = "OPEN")
  BY DEF FidsAgree
<1>1. Typed /\ Running /\ pc = "alt" /\ up /\ rmsg = <<>>
  BY DEF Quiet, PersistInv
<1>2. Answers = {}
  BY <1>1 DEF Answers, In
<1>3. FidOK(f) /\ ServerOK(f)
  BY <1>1 DEF Running
<1>4. sfids[f] = View(f, fids[f])
  BY <1>1, <1>2, <1>3 DEF ServerOK, Ahead
<1>5. sfids[f] \in ServerFids \cup {None} /\ None \notin ServerFids
  BY <1>1, FidFacts DEF Typed
<1>6. ASSUME fids[f] # None PROVE sfids[f] # None
  <2>1. fids[f] \in FidStates
    BY <1>1, <1>6 DEF Typed
  <2>2. f[1] \in Client
    BY FidFacts
  <2>3. fids[f].path \in {"/", "a", "new"} /\ (fids[f].state = "OPEN") \in BOOLEAN
    BY <2>1 DEF FidStates
  <2>4. File(f[1], fids[f].path, fids[f].state = "OPEN") \in ServerFids
    BY <2>2, <2>3 DEF File, ServerFids
  <2> QED
    BY <1>4, <1>5, <1>6, <2>4 DEF View
<1>7. fids[f] = None => sfids[f] = None
  BY <1>4 DEF View
<1>8. ASSUME fids[f] # None PROVE f \in Session(f[1])
  <2>1. f[1] \in Client /\ (f = RootFid(f[1]) \/ f = FileFid(f[1]))
    BY FidFacts
  <2>2. Agreed(cl[f[1]], fids[RootFid(f[1])], fids[FileFid(f[1])]) /\ cl[f[1]] \in ClientStates
    BY <1>1, <2>1 DEF Running, SessionOK, Typed
  <2>3. fids[f].state # "DEAD"
    BY <1>3, <1>8 DEF FidOK
  <2>4. cl[f[1]].st \in {"start", "attached", "walked", "opened"}
    BY <2>2 DEF ClientStates
  <2> QED
    BY <1>8, <2>1, <2>2, <2>3, <2>4 DEF Agreed, Session
<1>9. fids[f] # None => sfids[f] = File(f[1], fids[f].path, fids[f].state = "OPEN")
  BY <1>4 DEF View
<1>10. (fids[f] # None) = (sfids[f] # None)
  BY <1>6, <1>7
<1> QED
  BY <1>8, <1>9, <1>10

LEMMA OwedByInv == ASSUME PlainOps, "Clunk" \notin Ops, PersistInv PROVE NothingForgotten
<1>1. Typed /\ Running /\ Connection /\ Waited /\ Beyond
  BY DEF PersistInv, NoZombies, Running
<1>2. TypeOK
  <2>1. todo \subseteq {f \in Fids : fids[f] # None}
    BY <1>1 DEF Typed, InTable
  <2>2. root.attached \in -1 .. 1
    BY <1>1 DEF Typed, Roots
  <2> QED
    BY <1>1, <2>1, <2>2 DEF Typed, Connection, TypeOK
<1>3. ASSUME NEW t \in Client, cl[t].out # None PROVE Owed(t)
  <2> DEFINE m == [op |-> cl[t].out, t |-> t]
  <2>1. m \in In(tmsg) \cup In(tags) /\ m.op = cl[t].out /\ m.t = t
    BY <1>1, <1>3 DEF Waited
  <2> HIDE DEF m
  <2>2. CASE m \in In(tmsg)
    BY <2>2 DEF Owed, In, m
  <2>3. ASSUME m \in In(tags)
        PROVE  /\ \E i \in DOMAIN tags : tags[i] = m
               /\ pc = "alt" /\ up =>
                    \/ m \in work \/ \E i \in DOMAIN reqs : reqs[i] = m
                    \/ \E i \in DOMAIN rmsg :
                         rmsg[i] # Readerror /\ rmsg[i].op = m.op /\ rmsg[i].t = t
    <3>1. \E i \in DOMAIN tags : tags[i] = m
      BY <2>3 DEF In
    <3>2. ASSUME pc = "alt", up, NEW r \in Answers, Asked(r) = m
          PROVE  \E i \in DOMAIN rmsg : rmsg[i] # Readerror /\ rmsg[i].op = m.op /\ rmsg[i].t = t
      <4>1. PICK i \in DOMAIN rmsg : rmsg[i] = r /\ r # Readerror
        BY DEF Answers, In
      <4>2. r.op = m.op /\ r.t = m.t
        BY <3>2 DEF Asked
      <4> QED
        BY <2>1, <4>1, <4>2
    <3>3. m \in In(reqs) => \E i \in DOMAIN reqs : reqs[i] = m
      BY DEF In
    <3> QED
      BY <1>1, <2>3, <3>1, <3>2, <3>3 DEF Beyond
  <2> QED
    BY <2>1, <2>2, <2>3 DEF Owed, m
<1> QED
  BY <1>2, <1>3 DEF NothingForgotten

(* A client never gets a reply it does not wait for: whatever happens to   *)
(* the connection, sendrmsg() answers each request once.                   *)
THEOREM AnsweredOnce ==
    ASSUME PlainOps PROVE Spec => []NoStrayReply
<1>1. PersistInv => NoStrayReply
  BY DEF PersistInv
<1> QED
  BY <1>1, PersistStarts, PersistStep, PTL DEF Spec

(* While the proxy relays and nothing is under way, the server's session   *)
(* is the one the client believes in, but for fids that were given up.     *)
THEOREM SessionsAgree ==
    ASSUME PlainOps PROVE Spec => []FidsAgree
BY PersistStarts, PersistStep, AgreeByInv, PTL DEF Spec

(* No request falls between the old connection and the new one: each one   *)
(* that has no answer is on its way to the proxy, or in the Tag table and, *)
(* while the proxy relays, with the server or answered.                    *)
THEOREM NoneForgotten ==
    ASSUME PlainOps, "Clunk" \notin Ops PROVE Spec => []NothingForgotten
BY PersistStarts, PersistStep, OwedByInv, PTL DEF Spec

=============================================================================
