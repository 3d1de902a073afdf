---------------------------- MODULE IndexProofs -----------------------------
(***************************************************************************)
(* Proofs about the indexes of the mux television: those of the films,     *)
(* which build.c and warp.c write, and those of the guide of programmes.   *)
(* Each has an inductive invariant of its own; the last theorem carries    *)
(* them to Emu.                                                            *)
(***************************************************************************)
EXTENDS Emu, WellFoundedInduction, FiniteSetTheorems, TLAPS

-----------------------------------------------------------------------------
(***************************************************************************)
(* The films.  The lines of a record come in one order, whichever of them  *)
(* there are, so two lines that are not in it are of different records.    *)
(***************************************************************************)
Rank == [on \in {"Title:", "Category:", "Synopsis:", "Movie:", "Trailer:", "blank"} |->
            IF on = "Title:" THEN 0 ELSE IF on = "Category:" THEN 1 ELSE IF on = "Synopsis:" THEN 2
            ELSE IF on = "Movie:" THEN 3 ELSE IF on = "Trailer:" THEN 4 ELSE 5]

Title == {<<l>> : l \in Letter1} \cup {<<1, l>> : l \in Letter1}
DataLine ==
    {Line("Title:", t) : t \in Title} \cup {Line("Category:", c) : c \in SUBSET Category}
    \cup {Line(on, <<>>) : on \in {"Synopsis:", "Movie:", "Trailer:", "blank"}}

\* Where no title begins a record, the lines are in order.
Ranked(d) ==
    \A i, j \in DOMAIN d : i < j =>
        \/ Rank[d[i].on] < Rank[d[j].on]
        \/ \E t \in i + 1 .. j : d[t].on = "Title:"

LEMMA RankIs ==
    /\ Rank["Title:"] = 0 /\ Rank["Category:"] = 1 /\ Rank["Synopsis:"] = 2
    /\ Rank["Movie:"] = 3 /\ Rank["Trailer:"] = 4 /\ Rank["blank"] = 5
    /\ \A on \in {"Title:", "Category:", "Synopsis:", "Movie:", "Trailer:", "blank"} : Rank[on] \in 0 .. 5
BY DEF Rank

LEMMA LineFacts ==
    \A x \in DataLine :
        /\ x.on \in {"Title:", "Category:", "Synopsis:", "Movie:", "Trailer:", "blank"}
        /\ x.on = "Title:" => x.is \in Title /\ x = Line("Title:", x.is)
        /\ x.on = "blank" => x = Blank
        /\ x = Blank => x.on = "blank"
<1> SUFFICES ASSUME NEW x \in DataLine
             PROVE  /\ x.on \in {"Title:", "Category:", "Synopsis:", "Movie:", "Trailer:", "blank"}
                    /\ x.on = "Title:" => x.is \in Title /\ x = Line("Title:", x.is)
                    /\ x.on = "blank" => x = Blank
                    /\ x = Blank => x.on = "blank"
  OBVIOUS
<1>1. Blank.on = "blank" /\ Blank = Line("blank", <<>>)
  BY DEF Blank, Line
<1>2. CASE \E t \in Title : x = Line("Title:", t)
  <2>1. PICK t \in Title : x = Line("Title:", t)
    BY <1>2
  <2>2. x.on = "Title:" /\ x.is = t
    BY <2>1 DEF Line
  <2> QED
    BY <1>1, <2>1, <2>2
<1>3. CASE \E c \in SUBSET Category : x = Line("Category:", c)
  <2>1. x.on = "Category:"
    BY <1>3 DEF Line
  <2> QED
    BY <1>1, <2>1
<1>4. CASE \E on \in {"Synopsis:", "Movie:", "Trailer:", "blank"} : x = Line(on, <<>>)
  <2>1. PICK on \in {"Synopsis:", "Movie:", "Trailer:", "blank"} : x = Line(on, <<>>)
    BY <1>4
  <2>2. x.on = on
    BY <2>1 DEF Line
  <2> QED
    BY <1>1, <2>1, <2>2
<1> QED
  BY <1>2, <1>3, <1>4 DEF DataLine

LEMMA LineRank == \A x \in DataLine : Rank[x.on] \in 0 .. 5
BY LineFacts, RankIs

\* Part of a record: at most two lines, in order, with ranks in a range.
Part(s, lo, hi) ==
    /\ s \in Seq(DataLine)
    /\ \A i \in 1 .. Len(s) : s[i].on # "Title:" /\ lo <= Rank[s[i].on] /\ Rank[s[i].on] <= hi
    /\ \A i, j \in 1 .. Len(s) : i < j => Rank[s[i].on] < Rank[s[j].on]

LEMMA PartNone == ASSUME NEW lo \in Nat, NEW hi \in Nat PROVE Part(<<>>, lo, hi)
BY DEF Part

LEMMA PartOne ==
    ASSUME NEW x \in DataLine, x.on # "Title:", NEW r \in Nat, Rank[x.on] = r
    PROVE  Part(<<x>>, r, r)
BY DEF Part

LEMMA PartsJoin ==
    ASSUME NEW lo \in Nat, NEW mid \in Nat, NEW hi \in Nat, lo <= mid, mid + 1 <= hi, NEW s, NEW t,
           Part(s, lo, mid), Part(t, mid + 1, hi)
    PROVE  Part(s \o t, lo, hi)
<1> DEFINE u == s \o t
<1>1. s \in Seq(DataLine) /\ t \in Seq(DataLine)
  BY DEF Part
<1>2. /\ u \in Seq(DataLine) /\ Len(u) = Len(s) + Len(t)
      /\ \A i \in 1 .. Len(u) : u[i] = IF i <= Len(s) THEN s[i] ELSE t[i - Len(s)]
  BY <1>1
<1> HIDE DEF u
<1>3. Len(s) \in Nat /\ Len(t) \in Nat
  BY <1>1
<1>4. \A i \in 1 .. Len(u) : i <= Len(s) => i \in 1 .. Len(s) /\ u[i] = s[i]
  BY <1>2, <1>3
<1>5. \A i \in 1 .. Len(u) : ~(i <= Len(s)) => i - Len(s) \in 1 .. Len(t) /\ u[i] = t[i - Len(s)]
  BY <1>2, <1>3
<1>6. \A i \in 1 .. Len(u) : Rank[u[i].on] \in 0 .. 5
  <2>1. \A i \in 1 .. Len(u) : u[i] \in DataLine
    BY <1>2
  <2> QED
    BY <2>1, LineRank
<1>7. \A i \in 1 .. Len(u) : i <= Len(s) =>
          u[i].on # "Title:" /\ lo <= Rank[u[i].on] /\ Rank[u[i].on] <= mid
  BY <1>4 DEF Part
<1>8. \A i \in 1 .. Len(u) : ~(i <= Len(s)) =>
          u[i].on # "Title:" /\ mid + 1 <= Rank[u[i].on] /\ Rank[u[i].on] <= hi
  BY <1>5 DEF Part
<1>9. \A i \in 1 .. Len(u) : u[i].on # "Title:" /\ lo <= Rank[u[i].on] /\ Rank[u[i].on] <= hi
  <2> SUFFICES ASSUME NEW i \in 1 .. Len(u)
               PROVE  u[i].on # "Title:" /\ lo <= Rank[u[i].on] /\ Rank[u[i].on] <= hi
    OBVIOUS
  <2> DEFINE r == Rank[u[i].on]
  <2>1. r \in 0 .. 5
    BY <1>6
  <2>2. CASE i <= Len(s)
    <3>1. u[i].on # "Title:" /\ lo <= r /\ r <= mid
      BY <1>7, <2>2
    <3> HIDE DEF r
    <3>2. r <= hi
      BY <2>1, <3>1
    <3> QED
      BY <3>1, <3>2 DEF r
  <2>3. CASE ~(i <= Len(s))
    <3>1. u[i].on # "Title:" /\ mid + 1 <= r /\ r <= hi
      BY <1>8, <2>3
    <3> HIDE DEF r
    <3>2. lo <= r
      BY <2>1, <3>1
    <3> QED
      BY <3>1, <3>2 DEF r
  <2> QED
    BY <2>2, <2>3
<1>10. ASSUME NEW i \in 1 .. Len(u), NEW j \in 1 .. Len(u), i < j
       PROVE  Rank[u[i].on] < Rank[u[j].on]
  <2>1. CASE i <= Len(s) /\ j <= Len(s)
    BY <1>4, <1>10, <2>1 DEF Part
  <2>2. CASE i <= Len(s) /\ ~(j <= Len(s))
    <3> DEFINE r == Rank[u[i].on]
               q == Rank[u[j].on]
    <3>1. r \in 0 .. 5 /\ q \in 0 .. 5
      BY <1>6
    <3>2. r <= mid
      BY <1>7, <2>2
    <3>3. mid + 1 <= q
      BY <1>8, <2>2
    <3> HIDE DEF r, q
    <3>4. r < q
      BY <3>1, <3>2, <3>3
    <3> QED
      BY <3>4 DEF r, q
  <2>3. CASE ~(i <= Len(s)) /\ ~(j <= Len(s))
    <3>1. i - Len(s) < j - Len(s)
      BY <1>3, <1>10
    <3> QED
      BY <1>5, <2>3, <3>1 DEF Part
  <2> QED
    BY <1>2, <1>3, <1>10, <2>1, <2>2, <2>3
<1>11. Part(u, lo, hi)
  BY <1>2, <1>9, <1>10 DEF Part
<1> QED
  BY <1>11 DEF u

LEMMA RecordRanked ==
    ASSUME NEW title \in Title, NEW cats \in SUBSET Category, NEW body \in Bodies
    PROVE  \E s : Part(s, 1, 5) /\ RecordOf(title, cats, body) = <<Line("Title:", title)>> \o s
<1> DEFINE a == IF "Category:" \in body THEN <<Line("Category:", cats)>> ELSE <<>>
           b == IF "Synopsis:" \in body THEN <<Line("Synopsis:", <<>>)>> ELSE <<>>
           m == IF "Movie:" \in body THEN <<Line("Movie:", <<>>), Line("Trailer:", <<>>)>> ELSE <<>>
           z == IF "blank" \in body THEN <<Blank>> ELSE <<>>
           h == <<Line("Title:", title)>>
<1>1. Part(a, 1, 1)
  <2>1. Line("Category:", cats) \in DataLine /\ Line("Category:", cats).on = "Category:"
    BY DEF DataLine, Line
  <2> QED
    BY <2>1, PartNone, PartOne, RankIs
<1>2. Part(b, 2, 2)
  <2>1. Line("Synopsis:", <<>>) \in DataLine /\ Line("Synopsis:", <<>>).on = "Synopsis:"
    BY DEF DataLine, Line
  <2> QED
    BY <2>1, PartNone, PartOne, RankIs
<1>3. Part(m, 3, 4)
  <2> DEFINE x == Line("Movie:", <<>>)
             y == Line("Trailer:", <<>>)
  <2>1. x \in DataLine /\ x.on = "Movie:" /\ y \in DataLine /\ y.on = "Trailer:"
    BY DEF DataLine, Line
  <2> HIDE DEF x, y
  <2>2. Rank[x.on] = 3 /\ Rank[y.on] = 4
    BY <2>1, RankIs
  <2> DEFINE p == <<x, y>>
  <2>3. p \in Seq(DataLine) /\ Len(p) = 2 /\ p[1] = x /\ p[2] = y
    BY <2>1
  <2> HIDE DEF p
  <2>4. \A i \in 1 .. 2 : i = 1 \/ i = 2
    OBVIOUS
  <2>5. Part(p, 3, 4) /\ Part(<<>>, 3, 4)
    BY <2>1, <2>2, <2>3, <2>4, PartNone DEF Part
  <2> USE DEF p
  <2> QED
    BY <2>5 DEF x, y
<1>4. Part(z, 5, 5)
  <2>1. Blank \in DataLine /\ Blank.on = "blank"
    BY DEF DataLine, Line, Blank
  <2> QED
    BY <2>1, PartNone, PartOne, RankIs
<1>5. h \in Seq(DataLine)
  <2>1. Line("Title:", title) \in DataLine
    BY DEF DataLine
  <2> QED
    BY <2>1
<1>6. RecordOf(title, cats, body) = h \o a \o b \o m \o z
  BY DEF RecordOf
<1> HIDE DEF a, b, m, z, h
<1>7. a \in Seq(DataLine) /\ b \in Seq(DataLine) /\ m \in Seq(DataLine) /\ z \in Seq(DataLine)
  BY <1>1, <1>2, <1>3, <1>4 DEF Part
<1>8. Part(a \o b, 1, 2)
  BY <1>1, <1>2, PartsJoin
<1>9. Part((a \o b) \o m, 1, 4)
  BY <1>3, <1>8, PartsJoin
<1>10. Part(((a \o b) \o m) \o z, 1, 5)
  BY <1>4, <1>9, PartsJoin
<1>11. h \o a \o b \o m \o z = h \o (((a \o b) \o m) \o z)
  <2>1. \A p, q, r \in Seq(DataLine) : (p \o q) \o r = p \o (q \o r)
    OBVIOUS
  <2> DEFINE ab == a \o b
             abm == ab \o m
  <2>2. ab \in Seq(DataLine) /\ abm \in Seq(DataLine)
    BY <1>7
  <2>3. (h \o a) \o b = h \o ab
    BY <1>5, <1>7, <2>1, SMTT(60)
  <2> HIDE DEF ab
  <2>4. (h \o ab) \o m = h \o abm
    BY <1>5, <1>7, <2>1, <2>2, SMTT(60)
  <2> HIDE DEF abm
  <2>5. (h \o abm) \o z = h \o (abm \o z)
    BY <1>5, <1>7, <2>1, <2>2, ZenonT(60)
  <2>6. h \o a \o b \o m = h \o abm
    BY <2>3, <2>4, ZenonT(30)
  <2>7. h \o a \o b \o m \o z = h \o (abm \o z)
    BY <2>5, <2>6, ZenonT(30)
  <2>8. abm \o z = ((a \o b) \o m) \o z
    BY DEF ab, abm
  <2> QED
    BY <2>7, <2>8, ZenonT(30)
<1> QED
  BY <1>6, <1>10, <1>11 DEF h

\* A record begins with a title: so what is appended is in order, too.
LEMMA RankedMore ==
    ASSUME NEW d \in Seq(DataLine), Ranked(d), NEW title \in Title, NEW s, Part(s, 1, 5)
    PROVE  /\ d \o (<<Line("Title:", title)>> \o s) \in Seq(DataLine)
           /\ Ranked(d \o (<<Line("Title:", title)>> \o s))
<1> DEFINE x == Line("Title:", title)
           n == Len(d)
           e == d \o (<<x>> \o s)
<1>1. x \in DataLine /\ x.on = "Title:" /\ s \in Seq(DataLine)
  BY DEF Part, DataLine, Line
<1> HIDE DEF x
<1>2. /\ e \in Seq(DataLine) /\ Len(e) = n + 1 + Len(s) /\ e[n + 1] = x
      /\ \A i \in 1 .. n : e[i] = d[i]
      /\ \A i \in 1 .. Len(s) : e[n + 1 + i] = s[i]
  <2>1. <<x>> \o s \in Seq(DataLine) /\ Len(<<x>> \o s) = 1 + Len(s)
    BY <1>1
  <2>2. (<<x>> \o s)[1] = x /\ \A i \in 1 .. Len(s) : (<<x>> \o s)[1 + i] = s[i]
    BY <1>1
  <2> DEFINE y == <<x>> \o s
  <2> HIDE DEF y
  <2>3. y \in Seq(DataLine) /\ Len(y) = 1 + Len(s) /\ y[1] = x /\ \A i \in 1 .. Len(s) : y[1 + i] = s[i]
    BY <2>1, <2>2 DEF y
  <2>4. /\ d \o y \in Seq(DataLine) /\ Len(d \o y) = n + Len(y) /\ (\A i \in 1 .. n : (d \o y)[i] = d[i])
        /\ \A i \in 1 .. Len(y) : (d \o y)[n + i] = y[i]
    BY <2>3
  <2>5. Len(s) \in Nat /\ n \in Nat
    BY <1>1
  <2>6. \A i \in 1 .. Len(s) : 1 + i \in 1 .. Len(y) /\ n + (1 + i) = n + 1 + i
    BY <2>3, <2>5
  <2> QED
    BY <2>3, <2>4, <2>5, <2>6 DEF y
<1> HIDE DEF e
<1>3. n \in Nat /\ Len(s) \in Nat
  BY <1>1
<1> HIDE DEF n
<1>4. ASSUME NEW i \in 1 .. Len(e), NEW j \in 1 .. Len(e), i < j
      PROVE  \/ Rank[e[i].on] < Rank[e[j].on]
             \/ \E t \in i + 1 .. j : e[t].on = "Title:"
  <2>1. CASE j <= n
    <3>1. \/ Rank[d[i].on] < Rank[d[j].on]
          \/ \E t \in i + 1 .. j : d[t].on = "Title:"
      <4>1. i \in DOMAIN d /\ j \in DOMAIN d
        BY <1>3, <1>4, <2>1 DEF n
      <4> QED
        BY <1>4, <4>1 DEF Ranked
    <3>2. \A t \in i .. j : e[t] = d[t]
      BY <1>2, <1>3, <2>1
    <3>3. i \in i .. j /\ j \in i .. j /\ i + 1 .. j \subseteq i .. j
      BY <1>4
    <3> QED
      BY <3>1, <3>2, <3>3
  <2>2. CASE i <= n /\ j > n
    <3>1. n + 1 \in i + 1 .. j
      BY <1>3, <2>2
    <3> QED
      BY <1>1, <1>2, <3>1
  <2>3. CASE i = n + 1
    <3> DEFINE k == j - (n + 1)
    <3>1. k \in 1 .. Len(s) /\ j = n + 1 + k
      BY <1>2, <1>3, <1>4, <2>3
    <3>2. e[j] = s[k]
      BY <1>2, <3>1
    <3>3. 1 <= Rank[s[k].on] /\ Rank[s[k].on] \in 0 .. 5
      <4>1. s[k] \in DataLine /\ k \in 1 .. Len(s)
        BY <1>1, <3>1
      <4> HIDE DEF k
      <4> QED
        BY <4>1, LineRank DEF Part
    <3>4. Rank[e[i].on] = 0
      BY <1>1, <1>2, <2>3, RankIs
    <3> DEFINE r == Rank[s[k].on]
    <3>5. 1 <= r /\ r \in 0 .. 5
      BY <3>3
    <3> HIDE DEF r
    <3>6. 0 < r
      BY <3>5
    <3> QED
      BY <3>2, <3>4, <3>6 DEF r
  <2>4. CASE i > n + 1
    <3> DEFINE k == j - (n + 1)
               m == i - (n + 1)
    <3>1. k \in 1 .. Len(s) /\ j = n + 1 + k /\ m \in 1 .. Len(s) /\ i = n + 1 + m /\ m < k
      <4>1. Len(e) = n + 1 + Len(s)
        BY <1>2
      <4>2. i \in Int /\ j \in Int /\ i <= Len(e) /\ j <= Len(e)
        BY <1>3, <1>4, <4>1
      <4>3. k \in Int /\ m \in Int /\ j = n + 1 + k /\ i = n + 1 + m
        BY <1>3, <4>2
      <4> HIDE DEF k, m
      <4>4. 1 <= m /\ m < k /\ k <= Len(s)
        BY <1>3, <1>4, <2>4, <4>1, <4>2, <4>3
      <4> QED
        BY <1>3, <4>3, <4>4
    <3>2. e[j] = s[k] /\ e[i] = s[m]
      BY <1>2, <3>1
    <3> QED
      BY <3>1, <3>2 DEF Part
  <2> QED
    BY <1>3, <2>1, <2>2, <2>3, <2>4
<1>5. Ranked(e)
  <2>1. DOMAIN e = 1 .. Len(e)
    BY <1>2
  <2> QED
    BY <1>4, <2>1 DEF Ranked
<1> QED
  BY <1>2, <1>5 DEF e, x

\* The first of some lines.
LEMMA FirstOf ==
    ASSUME NEW S \in SUBSET Nat, S # {}
    PROVE  First(S) \in S /\ \A j \in S : First(S) <= j
<1> DEFINE R == {ss \in Nat \X Nat : ss[1] < ss[2]}
<1>1. IsWellFoundedOn(R, Nat)
  BY NatLessThanWellFounded DEF OpToRel
<1> HIDE DEF R
<1>2. PICK n \in S : \A m \in S : ~(<<m, n>> \in R)
  BY <1>1, WFMin
<1>3. \A m \in S : ~(m < n)
  BY <1>2 DEF R
<1>4. \A m \in S : n <= m
  BY <1>3
<1> QED
  BY <1>4 DEF First

-----------------------------------------------------------------------------
(***************************************************************************)
(* What build writes.  An entry is right whatever was appended to the      *)
(* titles and the index after it.                                          *)
(***************************************************************************)
Inside(start) == {i \in start + 1 .. Len(database) : \A t \in Later("Title:", start) : i < t}

EntryRight(e, t) ==
    /\ database[e.info - 1] = Line("Title:", t)
    /\ WholeRecord(e.info - 1) =>
          /\ {e.end, e.mpeg, e.trailer} \subseteq Inside(e.info - 1) \cup {0}
          /\ \A i \in Inside(e.info - 1) : database[i].on = "Movie:" => e.mpeg = i

\* The film whose title is line i is in the index of each of its categories.
FilmIndexed(i) ==
    \A c \in Category : c \in database[First(Later("Category:", i))].is =>
        \E n \in DOMAIN index[c] : index[c][n].info = i + 1

EntryOf(start, synop) ==
    [info |-> start + 1, end |-> synop,
     mpeg |-> Added("Movie:", synop), trailer |-> Added("Trailer:", synop)]

FilmEntries == {EntryOf(i, j) : i \in Nat, j \in Nat}

Data == database \in Seq(DataLine) /\ Ranked(database)

BuildInv ==
    /\ Data
    /\ building \in Nat /\ built \in {"no", "done", "astray"}
    /\ titles \in [Category -> Seq(Title)]
    /\ index \in [Category -> Seq(FilmEntries)]
    /\ building = 0 => \A c \in Category : titles[c] = <<>> /\ index[c] = <<>>
    /\ \A c \in Category : Len(titles[c]) = Len(index[c])
    /\ built = "astray" =>
          \E i \in DOMAIN database : database[i].on = "Title:" /\ ~WholeRecord(i)
    /\ \A c \in Category : \A n \in DOMAIN index[c] : EntryRight(index[c][n], titles[c][n])
    /\ \A i \in DOMAIN database :
          WholeRecord(i) /\ (i <= building \/ built = "done") => FilmIndexed(i)

LEMMA BuildPromise == BuildInv => IndexFollowsTitles
<1> SUFFICES ASSUME BuildInv, NEW c \in Category, NEW n \in DOMAIN index[c]
             PROVE  LET e == index[c][n]
                        inside == {i \in e.info .. Len(database) :
                                      \A t \in Later("Title:", e.info - 1) : i < t}
                    IN  /\ database[e.info - 1] = Line("Title:", titles[c][n])
                        /\ WholeRecord(e.info - 1) =>
                             /\ {e.end, e.mpeg, e.trailer} \subseteq inside \cup {0}
                             /\ \A i \in inside : database[i].on = "Movie:" => e.mpeg = i
  BY DEF IndexFollowsTitles, BuildInv, FilmIndexed
<1> DEFINE e == index[c][n]
<1>1. EntryRight(e, titles[c][n])
  BY DEF BuildInv
<1>2. e.info - 1 + 1 = e.info
  <2>1. e \in FilmEntries
    <3>1. index[c] \in Seq(FilmEntries)
      BY DEF BuildInv
    <3> QED
      BY <3>1
  <2>2. PICK i \in Nat, j \in Nat : e = EntryOf(i, j)
    BY <2>1 DEF FilmEntries
  <2>3. e.info = i + 1
    BY <2>2 DEF EntryOf
  <2> QED
    BY <2>3
<1>3. Inside(e.info - 1) = {i \in e.info .. Len(database) : \A t \in Later("Title:", e.info - 1) : i < t}
  BY <1>2 DEF Inside
<1> HIDE DEF e
<1> QED
  BY <1>1, <1>3 DEF EntryRight, e

LEMMA DataLines ==
    ASSUME Data
    PROVE  /\ Len(database) \in Nat /\ DOMAIN database = 1 .. Len(database)
           /\ \A i \in 1 .. Len(database) : database[i] \in DataLine
BY DEF Data

LEMMA LaterLines ==
    ASSUME Data, NEW i \in Nat, NEW on
    PROVE  /\ Later(on, i) \in SUBSET Nat
           /\ \A j : j \in Later(on, i) <=> j \in i + 1 .. Len(database) /\ database[j].on = on
BY DataLines DEF Later

LEMMA InsideLines ==
    ASSUME Data, NEW start \in Nat
    PROVE  /\ Inside(start) \subseteq start + 1 .. Len(database)
           /\ \A j \in Inside(start) : \A i \in start + 1 .. j :
                 i \in Inside(start) /\ database[i].on # "Title:"
           /\ \A j \in start + 1 .. Len(database) :
                 Later("Title:", start) \cap (start .. j) = {} => j \in Inside(start)
<1>1. \A t \in Later("Title:", start) : t \in Nat /\ t >= start + 1
  BY LaterLines, DataLines
<1>2. \A j : j \in Inside(start) <=>
         j \in start + 1 .. Len(database) /\ \A t \in Later("Title:", start) : j < t
  BY DEF Inside
<1>3. Len(database) \in Nat
  BY DataLines
<1>4. ASSUME NEW j \in Inside(start), NEW i \in start + 1 .. j
      PROVE  i \in Inside(start) /\ database[i].on # "Title:"
  <2>1. j \in start + 1 .. Len(database) /\ i \in start + 1 .. Len(database)
    BY <1>2, <1>3, <1>4
  <2>2. i \in Inside(start)
    BY <1>1, <1>2, <1>4, <2>1
  <2>3. i \notin Later("Title:", start)
    BY <1>2, <2>1, <2>2
  <2> QED
    BY <2>1, <2>2, <2>3, LaterLines
<1>5. ASSUME NEW j \in start + 1 .. Len(database), Later("Title:", start) \cap (start .. j) = {}
      PROVE  j \in Inside(start)
  <2>1. \A t \in Later("Title:", start) : j < t
    BY <1>1, <1>5
  <2> QED
    BY <1>2, <2>1
<1> QED
  BY <1>2, <1>4, <1>5

\* The lines of one record are in order.
LEMMA InsideRanked ==
    ASSUME Data, NEW start \in Nat, NEW j \in Inside(start), NEW i \in start + 1 .. j, i # j
    PROVE  Rank[database[i].on] < Rank[database[j].on]
<1>1. j \in start + 1 .. Len(database) /\ Len(database) \in Nat
  BY InsideLines, DataLines
<1>2. i \in DOMAIN database /\ j \in DOMAIN database /\ i < j
  BY <1>1, DataLines
<1>3. \A t \in i + 1 .. j : t \in start + 1 .. j
  BY <1>1
<1>4. \A t \in i + 1 .. j : database[t].on # "Title:"
  BY <1>3, InsideLines
<1> QED
  BY <1>2, <1>4 DEF Data, Ranked

\* In a whole record the synopsis of the film is in the record, and a blank line after it.
LEMMA FilmWhole ==
    ASSUME Data, NEW start \in DOMAIN database, WholeRecord(start), NEW synop, synop = First(Later("Synopsis:", start))
    PROVE  /\ synop \in Inside(start) /\ database[synop].on = "Synopsis:"
           /\ \E b \in Inside(start) : b \in Later("blank", synop)
<1>1. start \in Nat /\ Len(database) \in Nat
  BY DataLines
<1>2. /\ synop \in start + 1 .. Len(database) /\ database[synop].on = "Synopsis:"
      /\ \A k \in Later("Synopsis:", start) : synop <= k
  <2>1. Later("Synopsis:", start) \in SUBSET Nat /\ Later("Synopsis:", start) # {}
    BY <1>1, LaterLines DEF WholeRecord
  <2>2. synop \in Later("Synopsis:", start) /\ \A k \in Later("Synopsis:", start) : synop <= k
    BY <2>1, FirstOf
  <2> QED
    BY <1>1, <2>2, LaterLines
<1>3. PICK j \in Later("Synopsis:", start) : Later("Title:", start) \cap (start .. j) = {}
  BY DEF WholeRecord
<1>4. PICK b \in Later("blank", start) : Later("Title:", start) \cap (start .. b) = {}
  BY DEF WholeRecord
<1>5. /\ j \in start + 1 .. Len(database)
      /\ b \in start + 1 .. Len(database) /\ database[b].on = "blank"
  BY <1>1, <1>3, <1>4, LaterLines
<1>6. j \in Inside(start) /\ b \in Inside(start)
  BY <1>1, <1>3, <1>4, <1>5, InsideLines
<1>7. synop \in Inside(start)
  <2>1. synop \in start + 1 .. j
    BY <1>1, <1>2, <1>3, <1>5
  <2> QED
    BY <1>1, <1>6, <2>1, InsideLines
<1>8. synop < b
  <2>1. b # synop
    BY <1>2, <1>5
  <2>2. ASSUME b < synop PROVE FALSE
    <3>1. b \in start + 1 .. synop
      BY <1>1, <1>2, <1>5, <2>2
    <3>2. Rank[database[b].on] < Rank[database[synop].on]
      BY <1>1, <1>7, <2>1, <3>1, InsideRanked
    <3>3. Rank[database[b].on] = 5 /\ Rank[database[synop].on] = 2
      BY <1>2, <1>5, RankIs
    <3> QED
      BY <3>2, <3>3
  <2> QED
    BY <1>1, <1>2, <1>5, <2>1, <2>2
<1>9. b \in Later("blank", synop)
  <2>1. synop \in Nat /\ b \in synop + 1 .. Len(database)
    BY <1>1, <1>2, <1>5, <1>8
  <2> QED
    BY <1>5, <2>1, LaterLines
<1> QED
  BY <1>2, <1>6, <1>7, <1>9

\* What is added after the synopsis is found in the record of the film, all of it.
LEMMA AddedRight ==
    ASSUME Data, NEW start \in Nat, NEW synop \in Inside(start), database[synop].on = "Synopsis:",
           NEW b \in Inside(start), b \in Later("blank", synop), NEW on \in {"Movie:", "Trailer:"}
    PROVE  /\ Added(on, synop) \in Inside(start) \cup {0}
           /\ \A i \in Inside(start) : database[i].on = on => Added(on, synop) = i
<1> DEFINE these == {j \in Additions(synop) : database[j].on = on}
<1>1. Len(database) \in Nat /\ Inside(start) \subseteq start + 1 .. Len(database)
  BY DataLines, InsideLines
<1>2. synop \in Nat /\ b \in synop + 1 .. Len(database) /\ database[b].on = "blank"
  BY <1>1, LaterLines
<1>3. database[b] = Blank
  <2>1. b \in 1 .. Len(database)
    BY <1>1, <1>2
  <2>2. database[b] \in DataLine
    BY <2>1, DataLines
  <2> QED
    BY <1>2, <2>2, LineFacts
<1>4. \A j : j \in Additions(synop) <=>
         j \in synop + 1 .. Len(database) /\ \A k \in synop + 1 .. j : database[k] # Blank
  BY DEF Additions
<1>s. synop >= start + 1 /\ synop <= Len(database) /\ b > synop /\ b <= Len(database)
  BY <1>1, <1>2
<1>5. ASSUME NEW j \in these PROVE j \in Inside(start) /\ database[j].on = on
  <2>1. j \in synop + 1 .. Len(database) /\ ~(b \in synop + 1 .. j)
    BY <1>3, <1>4, <1>5
  <2>2. j \in start + 1 .. b
    BY <1>1, <1>2, <1>s, <2>1
  <2> QED
    BY <1>5, <2>2, InsideLines
<1>6. ASSUME NEW i \in Inside(start), database[i].on = on PROVE i \in these
  <2>1. i \in start + 1 .. Len(database) /\ synop \in start + 1 .. Len(database)
    BY <1>1
  <2>2. Rank[database[i].on] \in {3, 4} /\ Rank[database[synop].on] = 2 /\ Rank["blank"] = 5
    BY <1>6, RankIs
  <2>3. synop < i
    <3>1. i # synop
      BY <2>2
    <3>2. ASSUME i < synop PROVE FALSE
      <4>1. i \in start + 1 .. synop
        BY <1>1, <1>2, <2>1, <3>2
      <4>2. Rank[database[i].on] < Rank[database[synop].on]
        BY <3>1, <4>1, InsideRanked
      <4> QED
        BY <2>2, <4>2
    <3> QED
      BY <1>1, <1>2, <2>1, <3>1, <3>2
  <2>4. ASSUME NEW k \in synop + 1 .. i, database[k] = Blank PROVE FALSE
    <3>1. k \in start + 1 .. i
      BY <1>1, <1>2, <1>s, <2>1, <2>4
    <3>2. database[k].on = "blank"
      BY <2>4 DEF Blank, Line
    <3>3. k # i
      BY <1>6, <3>2
    <3> QED
      BY <2>2, <3>1, <3>2, <3>3, InsideRanked
  <2>5. i \in synop + 1 .. Len(database)
    BY <1>1, <1>2, <2>1, <2>3
  <2> QED
    BY <1>4, <1>6, <2>4, <2>5
<1>7. ASSUME NEW i \in these, NEW j \in these PROVE i = j
  <2>1. i \in Inside(start) /\ j \in Inside(start) /\ database[i].on = on /\ database[j].on = on
    BY <1>5
  <2>2. i \in start + 1 .. Len(database) /\ j \in start + 1 .. Len(database)
    BY <1>1, <2>1
  <2>3. Rank[on] \in 0 .. 5
    BY RankIs
  <2>4. ASSUME i < j PROVE FALSE
    <3>1. i \in start + 1 .. j /\ i # j
      BY <1>1, <2>2, <2>4
    <3>2. Rank[on] < Rank[on]
      BY <2>1, <3>1, InsideRanked
    <3> QED
      BY <2>3, <3>2
  <2>5. ASSUME j < i PROVE FALSE
    <3>1. j \in start + 1 .. i /\ i # j
      BY <1>1, <2>2, <2>5
    <3>2. Rank[on] < Rank[on]
      BY <2>1, <3>1, InsideRanked
    <3> QED
      BY <2>3, <3>2
  <2> QED
    BY <1>1, <2>2, <2>4, <2>5
<1>8. Added(on, synop) = IF these = {} THEN 0 ELSE CHOOSE j \in these : \A k \in these : k <= j
  BY DEF Added, Final
<1>9. these \subseteq Nat
  BY <1>1, <1>2, <1>4
<1> HIDE DEF these
<1>10. ASSUME NEW i \in these PROVE Added(on, synop) = i
  <2>1. \A k \in these : k <= i
    BY <1>7, <1>9
  <2>2. (CHOOSE j \in these : \A k \in these : k <= j) \in these
    BY <2>1
  <2> QED
    BY <1>7, <1>8, <2>2
<1> QED
  BY <1>5, <1>6, <1>8, <1>10

LEMMA BuildStarts == MoviesInit => BuildInv
<1> SUFFICES ASSUME MoviesInit PROVE BuildInv
  OBVIOUS
<1>1. /\ database = <<>> /\ building = 0 /\ built = "no"
      /\ titles = [c \in Category |-> <<>>] /\ index = [c \in Category |-> <<>>]
  BY DEF MoviesInit
<1>2. Data
  BY <1>1 DEF Data, Ranked
<1>3. \A c \in Category : titles[c] = <<>> /\ index[c] = <<>>
  BY <1>1
<1>4. /\ titles \in [Category -> Seq(Title)]
      /\ index \in [Category -> Seq(FilmEntries)]
  BY <1>1
<1> QED
  BY <1>1, <1>2, <1>3, <1>4 DEF BuildInv, WholeRecord

LEMMA RecordAdded ==
    ASSUME BuildInv, NEW title \in Title, NEW cats \in SUBSET Category, NEW body \in Bodies,
           AddRecord(title, cats, body)
    PROVE  BuildInv'
<1>1. /\ building = 0 /\ built = "no" /\ database' = database \o RecordOf(title, cats, body)
      /\ UNCHANGED <<building, built, titles, index>>
  BY DEF AddRecord, buildVars, indexVars
<1>2. Data'
  <2>1. PICK s : Part(s, 1, 5) /\ RecordOf(title, cats, body) = <<Line("Title:", title)>> \o s
    BY RecordRanked
  <2>2. database \in Seq(DataLine) /\ Ranked(database)
    BY DEF BuildInv, Data
  <2>3. /\ database \o (<<Line("Title:", title)>> \o s) \in Seq(DataLine)
        /\ Ranked(database \o (<<Line("Title:", title)>> \o s))
    BY <2>1, <2>2, RankedMore
  <2>4. database' = database \o (<<Line("Title:", title)>> \o s)
    BY <1>1, <2>1
  <2>5. database' \in Seq(DataLine) /\ Ranked(database')
    BY <2>3, <2>4
  <2> QED
    BY <2>5 DEF Data, Ranked
<1>3. \A c \in Category : titles'[c] = <<>> /\ index'[c] = <<>>
  BY <1>1 DEF BuildInv
<1>4. index' \in [Category -> Seq(FilmEntries')]
  <2>1. index' = [c \in Category |-> <<>>]
    BY <1>1, <1>3 DEF BuildInv
  <2> QED
    BY <2>1
<1>5. \A c \in Category : DOMAIN index'[c] = {}
  BY <1>3
<1>6. \A i \in DOMAIN database' : ~(i <= building') /\ built' = "no"
  <2>1. DOMAIN database' = 1 .. Len(database') /\ Len(database') \in Nat
    BY <1>2 DEF Data
  <2> QED
    BY <1>1, <2>1
<1> QED
  BY <1>1, <1>2, <1>3, <1>4, <1>5, <1>6 DEF BuildInv

LEMMA FilmBuilt == ASSUME BuildInv, BuildFilm PROVE BuildInv'
<1> DEFINE start == First(Later("Title:", building))
           cat == First(Later("Category:", start))
           synop == First(Later("Synopsis:", start))
           in == {c \in Category : c \in database[cat].is}
           end == Later("Title:", building) = {} \/ Later("Category:", start) = {}
                      \/ Later("Synopsis:", start) = {}
           entry == EntryOf(start, synop)
<1>1. /\ UNCHANGED database
      /\ \/ end /\ built' = "done" /\ UNCHANGED <<building, titles, index>>
         \/ /\ ~end /\ Later("blank", synop) = {}
            /\ built' = "astray" /\ UNCHANGED <<building, titles, index>>
         \/ /\ ~end /\ Later("blank", synop) # {}
            /\ building' = start /\ UNCHANGED built
            /\ titles' = [c \in Category |->
                  IF c \in in THEN Append(titles[c], database[start].is) ELSE titles[c]]
            /\ index' = [c \in Category |-> IF c \in in THEN Append(index[c], entry) ELSE index[c]]
  BY DEF BuildFilm, indexVars, EntryOf
<1>2. /\ Data' /\ (\A i : WholeRecord(i)' <=> WholeRecord(i)) /\ FilmEntries' = FilmEntries
      /\ \A e, t : EntryRight(e, t)' <=> EntryRight(e, t)
  <2>1. database' = database
    BY <1>1
  <2>2. \A on, i : Later(on, i)' = Later(on, i)
    BY <2>1 DEF Later
  <2>3. \A i : Inside(i)' = Inside(i) /\ Additions(i)' = Additions(i)
    BY <2>1, <2>2 DEF Inside, Additions
  <2>4. \A on, i : Added(on, i)' = Added(on, i)
    <3> SUFFICES ASSUME NEW on, NEW i PROVE Added(on, i)' = Added(on, i)
      OBVIOUS
    <3>1. {j \in Additions(i)' : database'[j].on = on} = {j \in Additions(i) : database[j].on = on}
      BY <2>1, <2>3
    <3> QED
      BY <3>1 DEF Added
  <2>5. \A i, j : EntryOf(i, j)' = EntryOf(i, j)
    BY <2>4 DEF EntryOf
  <2>6. Data'
    BY <2>1 DEF BuildInv, Data, Ranked
  <2>7. \A i : WholeRecord(i)' <=> WholeRecord(i)
    BY <2>1, <2>2 DEF WholeRecord
  <2>8. \A e, t : EntryRight(e, t)' <=> EntryRight(e, t)
    BY <2>1, <2>3, <2>7 DEF EntryRight
  <2>9. FilmEntries' = FilmEntries
    BY <2>5 DEF FilmEntries
  <2> QED
    BY <2>6, <2>7, <2>8, <2>9
<1>3. Data /\ building \in Nat
  BY DEF BuildInv
<1>4. ~end => /\ start \in DOMAIN database /\ database[start].on = "Title:" /\ start \in Nat \ {0}
              /\ synop \in Nat
  <2> SUFFICES ASSUME ~end
               PROVE  /\ start \in DOMAIN database /\ database[start].on = "Title:" /\ start \in Nat \ {0}
                      /\ synop \in Nat
    OBVIOUS
  <2>1. start \in Later("Title:", building)
    BY <1>3, LaterLines, FirstOf
  <2>2. start \in building + 1 .. Len(database) /\ database[start].on = "Title:"
    BY <1>3, <2>1, LaterLines
  <2>3. start \in Nat \ {0} /\ start \in DOMAIN database
    BY <1>3, <2>2, DataLines
  <2>4. Later("Synopsis:", start) \in SUBSET Nat
    BY <1>3, <2>3, LaterLines
  <2>5. synop \in Later("Synopsis:", start)
    BY <2>4, FirstOf
  <2> QED
    BY <2>2, <2>3, <2>4, <2>5
<1> HIDE DEF start, synop, in
<1>d. database' = database /\ DOMAIN database' = DOMAIN database
  BY <1>1
\* A film with a whole record that has not been looked at is still to come.
<1>n. ASSUME NEW i \in DOMAIN database, WholeRecord(i), ~(i <= building)
      PROVE  ~end /\ start <= i
  <2>1. i \in building + 1 .. Len(database) /\ database[i].on = "Title:" /\ i \in Nat
    BY <1>3, <1>n, DataLines DEF WholeRecord
  <2>2. i \in Later("Title:", building) /\ Later("Title:", building) \in SUBSET Nat
    BY <1>3, <2>1, LaterLines
  <2>3. start \in Later("Title:", building) /\ start <= i
    BY <2>2, FirstOf DEF start
  <2>4. start \in Nat
    BY <2>2, <2>3
  <2>5. ASSUME NEW on \in {"Category:", "Synopsis:"} PROVE Later(on, start) # {}
    <3>1. PICK j : j \in Later(on, i)
      BY <1>n DEF WholeRecord
    <3>2. j \in i + 1 .. Len(database) /\ database[j].on = on /\ Len(database) \in Nat
      BY <1>3, <2>1, <3>1, LaterLines, DataLines
    <3>3. j \in start + 1 .. Len(database)
      BY <2>1, <2>3, <2>4, <3>2
    <3> QED
      BY <1>3, <2>4, <3>2, <3>3, LaterLines
  <2> QED
    BY <2>2, <2>3, <2>5
<1>f. \A i : (\A c \in Category : \A n \in DOMAIN index[c] :
                  \E m \in DOMAIN index'[c] : index'[c][m].info = index[c][n].info)
             /\ FilmIndexed(i) => FilmIndexed(i)'
  <2>1. \A i : Later("Category:", i)' = Later("Category:", i)
    BY <1>d DEF Later
  <2> QED
    BY <1>d, <2>1 DEF FilmIndexed
<1>5. CASE end /\ built' = "done" /\ UNCHANGED <<building, titles, index>>
  <2>1. ASSUME NEW i \in DOMAIN database, WholeRecord(i) PROVE FilmIndexed(i)'
    <3>1. i <= building
      BY <1>5, <1>n, <2>1
    <3>2. FilmIndexed(i)
      BY <2>1, <3>1 DEF BuildInv
    <3> QED
      BY <1>5, <1>f, <3>2
  <2> QED
    BY <1>2, <1>5, <1>d, <2>1 DEF BuildInv
<1>6. CASE ~end /\ Later("blank", synop) = {} /\ built' = "astray" /\ UNCHANGED <<building, titles, index>>
  <2>1. ~WholeRecord(start) /\ start \in DOMAIN database /\ database[start].on = "Title:"
    BY <1>3, <1>4, <1>6, FilmWhole DEF synop
  <2>2. \A i \in DOMAIN database : WholeRecord(i) /\ i <= building => FilmIndexed(i)'
    BY <1>6, <1>f DEF BuildInv
  <2> QED
    BY <1>2, <1>6, <1>d, <2>1, <2>2 DEF BuildInv
<1>7. ASSUME ~end, Later("blank", synop) # {}, building' = start, UNCHANGED built,
             titles' = [c \in Category |->
                  IF c \in in THEN Append(titles[c], database[start].is) ELSE titles[c]],
             index' = [c \in Category |-> IF c \in in THEN Append(index[c], entry) ELSE index[c]]
      PROVE  BuildInv'
  <2> DEFINE t == database[start].is
  <2>1. t \in Title /\ database[start] = Line("Title:", t)
    BY <1>3, <1>4, <1>7, DataLines, LineFacts
  <2>2. entry \in FilmEntries
    BY <1>4, <1>7 DEF FilmEntries
  <2>3. EntryRight(entry, t)
    <3>0. entry.info - 1 = start
      BY <1>4, <1>7 DEF EntryOf
    <3> SUFFICES ASSUME WholeRecord(start) PROVE EntryRight(entry, t)
      BY <2>1, <3>0 DEF EntryRight
    <3>1. /\ synop \in Inside(start) /\ database[synop].on = "Synopsis:"
          /\ \E b \in Inside(start) : b \in Later("blank", synop)
      BY <1>3, <1>4, <1>7, FilmWhole DEF synop
    <3>2. PICK b \in Inside(start) : b \in Later("blank", synop)
      BY <3>1
    <3> DEFINE m == Added("Movie:", synop)
               r == Added("Trailer:", synop)
    <3>3. m \in Inside(start) \cup {0} /\ \A i \in Inside(start) : database[i].on = "Movie:" => m = i
      BY <1>3, <1>4, <1>7, <3>1, <3>2, AddedRight
    <3>4. r \in Inside(start) \cup {0}
      BY <1>3, <1>4, <1>7, <3>1, <3>2, AddedRight
    <3> HIDE DEF m, r
    <3>5. entry.info = start + 1 /\ entry.end = synop /\ entry.mpeg = m /\ entry.trailer = r
      BY DEF EntryOf, m, r
    <3>6. entry.info - 1 = start
      BY <1>4, <1>7, <3>5
    <3> HIDE DEF entry
    <3> QED
      BY <2>1, <3>1, <3>3, <3>4, <3>5, <3>6 DEF EntryRight
  <2> HIDE DEF t, entry
  <2>4. ASSUME NEW c \in Category
        PROVE  /\ titles[c] \in Seq(Title) /\ index[c] \in Seq(FilmEntries) /\ Len(titles[c]) = Len(index[c])
               /\ titles'[c] \in Seq(Title) /\ index'[c] \in Seq(FilmEntries) /\ Len(titles'[c]) = Len(index'[c])
               /\ \A n \in DOMAIN index'[c] : EntryRight(index'[c][n], titles'[c][n])
               /\ \A n \in DOMAIN index[c] : n \in DOMAIN index'[c] /\ index'[c][n] = index[c][n]
               /\ c \in in => \E n \in DOMAIN index'[c] : index'[c][n] = entry
    <3>1. titles[c] \in Seq(Title) /\ index[c] \in Seq(FilmEntries) /\ Len(titles[c]) = Len(index[c])
      BY DEF BuildInv
    <3>2. \A n \in DOMAIN index[c] : EntryRight(index[c][n], titles[c][n])
      BY DEF BuildInv
    <3>3. CASE c \notin in
      <4>1. titles'[c] = titles[c] /\ index'[c] = index[c]
        BY <1>7, <3>3 DEF t
      <4> QED
        BY <3>1, <3>2, <3>3, <4>1
    <3>4. CASE c \in in
      <4>1. titles'[c] = Append(titles[c], t) /\ index'[c] = Append(index[c], entry)
        BY <1>7, <3>4 DEF t
      <4>2. /\ titles'[c] \in Seq(Title) /\ Len(titles'[c]) = Len(titles[c]) + 1
            /\ titles'[c][Len(titles[c]) + 1] = t
            /\ \A n \in 1 .. Len(titles[c]) : titles'[c][n] = titles[c][n]
        BY <2>1, <3>1, <4>1
      <4>3. /\ index'[c] \in Seq(FilmEntries) /\ Len(index'[c]) = Len(index[c]) + 1
            /\ index'[c][Len(index[c]) + 1] = entry
            /\ \A n \in 1 .. Len(index[c]) : index'[c][n] = index[c][n]
        BY <2>2, <3>1, <4>1
      <4>4. ASSUME NEW n \in DOMAIN index'[c] PROVE EntryRight(index'[c][n], titles'[c][n])
        <5>1. n \in 1 .. Len(index[c]) \/ n = Len(index[c]) + 1
          BY <3>1, <4>3, <4>4
        <5>2. CASE n \in 1 .. Len(index[c])
          BY <3>1, <3>2, <4>2, <4>3, <4>4, <5>2
        <5>3. CASE n = Len(index[c]) + 1
          BY <2>3, <3>1, <4>2, <4>3, <4>4, <5>3
        <5> QED
          BY <5>1, <5>2, <5>3
      <4>5. ASSUME NEW n \in DOMAIN index[c]
            PROVE  n \in DOMAIN index'[c] /\ index'[c][n] = index[c][n]
        <5>1. n \in 1 .. Len(index[c]) /\ Len(index[c]) \in Nat
          BY <3>1
        <5>2. n \in 1 .. Len(index'[c])
          BY <4>3, <5>1
        <5> QED
          BY <4>3, <5>1, <5>2
      <4>6. Len(index[c]) + 1 \in DOMAIN index'[c]
        BY <3>1, <4>3
      <4> QED
        BY <3>1, <4>2, <4>3, <4>4, <4>5, <4>6
    <3> QED
      BY <3>3, <3>4
  <2>5. titles' \in [Category -> Seq(Title)] /\ index' \in [Category -> Seq(FilmEntries')]
    <3>1. titles' \in [Category -> Seq(Title)]
      BY <1>7, <2>4
    <3>2. index' \in [Category -> Seq(FilmEntries)]
      BY <1>7, <2>4
    <3> QED
      BY <1>2, <3>1, <3>2
  <2>6. building' \in Nat /\ building' # 0 /\ built' \in {"no", "done", "astray"}
    BY <1>4, <1>7 DEF BuildInv
  <2>7. built' = "astray" => \E i \in DOMAIN database' : database'[i].on = "Title:" /\ ~WholeRecord(i)'
    BY <1>2, <1>7, <1>d DEF BuildInv
  <2>8. \A c \in Category : \A n \in DOMAIN index'[c] : EntryRight(index[c][n], titles[c][n])'
    BY <1>2, <2>4
  <2>9. ASSUME NEW i \in DOMAIN database, WholeRecord(i), i <= building' \/ built' = "done"
        PROVE  FilmIndexed(i)'
    <3>1. built = "no" /\ i <= start
      <4>1. built = "no"
        BY DEF BuildFilm
      <4> QED
        BY <1>7, <2>9, <4>1
    <3>2. i \in Nat /\ start \in Nat
      BY <1>3, <1>4, <1>7, DataLines
    <3>3. CASE i <= building
      <4>1. FilmIndexed(i)
        BY <2>9, <3>3 DEF BuildInv
      <4>2. \A c \in Category : \A n \in DOMAIN index[c] :
               \E m \in DOMAIN index'[c] : index'[c][m].info = index[c][n].info
        BY <2>4
      <4> QED
        BY <1>f, <4>1, <4>2
    <3>4. CASE ~(i <= building)
      <4>1. i = start
        BY <1>n, <2>9, <3>1, <3>2, <3>4
      <4>2. entry.info = start + 1
        BY DEF entry, EntryOf
      <4>3. \A c \in Category : c \in database[First(Later("Category:", i))].is => c \in in
        BY <4>1 DEF in
      <4>4. First(Later("Category:", i))' = First(Later("Category:", i))
        BY <1>d DEF Later, First
      <4> QED
        BY <1>d, <2>4, <4>1, <4>2, <4>3, <4>4 DEF FilmIndexed
    <3> QED
      BY <3>3, <3>4
  <2> QED
    BY <1>2, <1>d, <2>4, <2>5, <2>6, <2>7, <2>8, <2>9 DEF BuildInv
<1> QED
  BY <1>1, <1>5, <1>6, <1>7

-----------------------------------------------------------------------------
(***************************************************************************)
(* What warp writes, told of the letters f of the titles, the w titles it  *)
(* has read, its row and its z.  While the letters are in order, z is not  *)
(* behind the last of them by more letters than have no title; as long as  *)
(* it is behind, the last title takes the place of the first.              *)
(***************************************************************************)
LastOf(f, w) == IF w = 0 THEN 1 ELSE f[w]
Gaps(f, w, l) == {k \in 2 .. l - 1 : \A n \in 1 .. w : f[n] # k}
GapsTo(f, w, l) == Cardinality(Gaps(f, w, l))

\* The row has a title for the letter of title n.
Found(f, w, row, n) ==
    /\ row[f[n]] + 1 \in 1 .. w /\ f[row[f[n]] + 1] = f[n]
    /\ row[f[n]] + 1 - n <= GapsTo(f, w, f[n])

FoundLast(f, w, row, z, n) ==
    f[n] = LastOf(f, w) => row[f[n]] + 1 - n + LastOf(f, w) - z <= GapsTo(f, w, f[n])

WarpLeads(f, w, row, z) ==
    /\ z \in Nat \ {0} /\ z <= LastOf(f, w)
    /\ LastOf(f, w) - z <= GapsTo(f, w, LastOf(f, w))
    /\ z < LastOf(f, w) => row[LastOf(f, w)] + 1 = w
    /\ w = 0 => row = NoWarp
    /\ \A n \in 1 .. w : f[n] <= LastOf(f, w) /\ Found(f, w, row, n) /\ FoundLast(f, w, row, z, n)

LEMMA GapsFinite ==
    ASSUME NEW f, NEW w, NEW l \in Nat
    PROVE  IsFiniteSet(Gaps(f, w, l)) /\ GapsTo(f, w, l) \in Nat
<1>1. IsFiniteSet(2 .. l - 1) /\ Gaps(f, w, l) \in SUBSET (2 .. l - 1)
  BY FS_Interval DEF Gaps
<1>2. IsFiniteSet(Gaps(f, w, l))
  BY <1>1, FS_Subset
<1> QED
  BY <1>2, FS_CardinalityType DEF GapsTo

\* One more title, whose letter is not before the last: the letters without a
\* title up to the last are the same, and those between the last and the new one
\* are added.
LEMMA GapsMore ==
    ASSUME NEW N \in Nat, NEW f \in [1 .. N -> Letter1], NEW w \in Nat, w < N,
           \A n \in 1 .. w : f[n] <= LastOf(f, w), LastOf(f, w) <= f[w + 1]
    PROVE  /\ LastOf(f, w) \in Letter1
           /\ \A l \in Letter1 : l <= LastOf(f, w) => GapsTo(f, w + 1, l) = GapsTo(f, w, l)
           /\ f[w + 1] > LastOf(f, w) =>
                 GapsTo(f, w + 1, f[w + 1]) =
                     GapsTo(f, w, LastOf(f, w)) + f[w + 1] - 1 - LastOf(f, w)
<1> DEFINE top == LastOf(f, w)
           l == f[w + 1]
<1>1. /\ w + 1 \in 1 .. N /\ (1 .. w) \subseteq 1 .. N
      /\ \A n \in 1 .. w + 1 : n \in 1 .. w \/ n = w + 1
      /\ \A n \in 1 .. w : n \in 1 .. w + 1 /\ n \in 1 .. N
  OBVIOUS
<1>2. Letter1 \subseteq Nat \ {0} /\ 1 \in Letter1
  BY MoviesAssumption DEF Letter1
<1>3. l \in Letter1
  BY <1>1
<1>4. top \in Letter1 /\ (w # 0 => w \in 1 .. w /\ top = f[w])
  BY <1>1, <1>2 DEF LastOf
<1>5. top \in Nat \ {0} /\ l \in Nat \ {0} /\ top <= l
  BY <1>2, <1>3, <1>4
<1>f. \A n \in 1 .. w : f[n] \in Nat /\ f[n] <= top
  BY <1>1, <1>2
<1>w. w = 0 => top = 1
  BY DEF LastOf
<1> HIDE DEF top, l
<1>6. ASSUME NEW k \in Letter1, k <= top PROVE GapsTo(f, w + 1, k) = GapsTo(f, w, k)
  <2>1. k \in Nat
    BY <1>2
  <2>2. \A j \in 2 .. k - 1 : j # l
    BY <1>5, <1>6, <2>1
  <2>3. Gaps(f, w + 1, k) = Gaps(f, w, k)
    BY <1>1, <2>2 DEF Gaps, l
  <2> QED
    BY <2>3 DEF GapsTo
<1>7. ASSUME l > top PROVE GapsTo(f, w + 1, l) = GapsTo(f, w, top) + l - 1 - top
  <2> DEFINE old == Gaps(f, w, top)
             new == top + 1 .. l - 1
  <2>1. Gaps(f, w + 1, l) = old \cup new
    <3>1. ASSUME NEW k \in Gaps(f, w + 1, l) PROVE k \in old \cup new
      <4>1. k \in 2 .. l - 1 /\ \A n \in 1 .. w : f[n] # k
        BY <1>1 DEF Gaps
      <4>2. k # top
        BY <1>4, <1>w, <4>1
      <4>3. CASE k < top
        BY <1>5, <4>1, <4>3 DEF Gaps
      <4>4. CASE k > top
        BY <1>5, <4>1, <4>4
      <4> QED
        BY <1>5, <4>1, <4>2, <4>3, <4>4
    <3>2. ASSUME NEW k \in old PROVE k \in Gaps(f, w + 1, l)
      <4>1. k \in 2 .. top - 1 /\ \A n \in 1 .. w : f[n] # k
        BY DEF Gaps
      <4>2. k \in 2 .. l - 1 /\ k # l
        BY <1>5, <1>7, <4>1
      <4> QED
        BY <1>1, <4>1, <4>2 DEF Gaps, l
    <3>3. ASSUME NEW k \in new PROVE k \in Gaps(f, w + 1, l)
      <4>1. k \in 2 .. l - 1 /\ k # l /\ k > top
        BY <1>5, <3>3
      <4>2. \A n \in 1 .. w : f[n] # k
        BY <1>5, <1>f, <4>1
      <4> QED
        BY <1>1, <4>1, <4>2 DEF Gaps, l
    <3> QED
      BY <3>1, <3>2, <3>3
  <2>2. IsFiniteSet(old) /\ Cardinality(old) \in Nat
    BY <1>5, GapsFinite DEF GapsTo
  <2>3. IsFiniteSet(new) /\ Cardinality(new) = l - 1 - top
    <3>1. top + 1 \in Int /\ l - 1 \in Int
      BY <1>5
    <3>2. IsFiniteSet(new) /\ Cardinality(new) = IF top + 1 > l - 1 THEN 0 ELSE (l - 1) - (top + 1) + 1
      BY <3>1, FS_Interval
    <3> HIDE DEF new
    <3> QED
      BY <1>5, <1>7, <3>2
  <2>4. old \cap new = {}
    BY <1>5 DEF Gaps
  <2> HIDE DEF old, new
  <2>5. Cardinality(old \cup new) = Cardinality(old) + Cardinality(new) - Cardinality(old \cap new)
    BY <2>2, <2>3, FS_Union
  <2>6. Cardinality(old \cap new) = 0
    BY <2>4, FS_EmptySet
  <2>7. GapsTo(f, w + 1, l) = Cardinality(old) + (l - 1 - top)
    <3>1. GapsTo(f, w + 1, l) = Cardinality(old \cup new)
      BY <2>1 DEF GapsTo
    <3> HIDE DEF l, top
    <3> QED
      BY <1>5, <2>2, <2>3, <2>5, <2>6, <3>1
  <2>8. GapsTo(f, w, top) = Cardinality(old)
    BY DEF GapsTo, old
  <2> QED
    BY <1>5, <2>2, <2>7, <2>8
<1> QED
  BY <1>4, <1>6, <1>7 DEF top, l

\* Warp reads one more title.
OneTitle(f, w, row, z, row1, z1) ==
    IF f[w + 1] >= z + 1
    THEN row1 = [k \in Letter1 |-> IF k >= f[w + 1] THEN w ELSE row[k]] /\ z1 = z + 1
    ELSE row1 = row /\ z1 = z

LEMMA WarpReads ==
    ASSUME NEW N \in Nat, NEW f \in [1 .. N -> Letter1], NEW w \in Nat, w < N,
           NEW row \in [Letter1 -> Nat], NEW z, WarpLeads(f, w, row, z), LastOf(f, w) <= f[w + 1],
           NEW row1 \in [Letter1 -> Nat], NEW z1,
           OneTitle(f, w, row, z, row1, z1)
    PROVE  WarpLeads(f, w + 1, row1, z1)
<1> DEFINE top == LastOf(f, w)
           l == f[w + 1]
           G(k) == GapsTo(f, w, k)
           G1(k) == GapsTo(f, w + 1, k)
<1>1. /\ z \in Nat \ {0} /\ z <= top /\ top - z <= G(top)
      /\ z < top => row[top] + 1 = w
      /\ w = 0 => row = NoWarp
      /\ \A n \in 1 .. w : f[n] <= top
  BY DEF WarpLeads
<1>2. /\ top \in Letter1
      /\ \A k \in Letter1 : k <= top => G1(k) = G(k)
      /\ l > top => G1(l) = G(top) + l - 1 - top
  BY <1>1, GapsMore
<1>3. Letter1 \subseteq Nat \ {0}
  BY DEF Letter1
<1>4. /\ w + 1 \in 1 .. N /\ w + 1 \in Nat \ {0} /\ w + 1 \in 1 .. w + 1
      /\ \A n \in 1 .. w + 1 : n \in 1 .. w \/ n = w + 1
      /\ \A n \in 1 .. w : n \in 1 .. w + 1 /\ n \in 1 .. N /\ n \in Nat
  OBVIOUS
<1>5. l \in Letter1 /\ l \in Nat \ {0} /\ top \in Nat \ {0} /\ top <= l
  BY <1>2, <1>3, <1>4
<1>6. \A k \in Letter1 : k \in Nat /\ G(k) \in Nat /\ G1(k) \in Nat /\ row[k] \in Nat /\ row1[k] \in Nat
  BY <1>3, GapsFinite
<1>7. LastOf(f, w + 1) = l
  BY <1>4 DEF LastOf
<1>8. ASSUME NEW n \in 1 .. w
      PROVE  /\ f[n] \in Letter1 /\ f[n] <= top
             /\ row[f[n]] + 1 \in 1 .. w /\ f[row[f[n]] + 1] = f[n]
             /\ row[f[n]] + 1 - n <= G(f[n])
             /\ f[n] = top => row[f[n]] + 1 - n + top - z <= G(f[n])
  <2>1. f[n] \in Letter1
    BY <1>4
  <2>2. f[n] <= top /\ Found(f, w, row, n) /\ FoundLast(f, w, row, z, n)
    BY DEF WarpLeads
  <2> QED
    BY <2>1, <2>2 DEF Found, FoundLast
<1>9. w # 0 => w \in 1 .. w /\ f[w] = top
  BY <1>4 DEF LastOf
<1>w. w = 0 => top = 1
  BY DEF LastOf
<1>r. IF l >= z + 1
      THEN row1 = [k \in Letter1 |-> IF k >= l THEN w ELSE row[k]] /\ z1 = z + 1
      ELSE row1 = row /\ z1 = z
  BY DEF OneTitle
<1> HIDE DEF top, l, G, G1
\* It is enough that these hold.
<1>10. ASSUME z1 \in Nat \ {0}, z1 <= l, l - z1 <= G1(l), z1 < l => row1[l] = w,
              row1[l] + 1 \in 1 .. w + 1, f[row1[l] + 1] = l,
              row1[l] + 1 - (w + 1) + l - z1 <= G1(l),
              \A n \in 1 .. w : /\ row1[f[n]] + 1 \in 1 .. w + 1 /\ f[row1[f[n]] + 1] = f[n]
                                /\ row1[f[n]] + 1 - n <= G1(f[n])
                                /\ f[n] = l => row1[f[n]] + 1 - n + l - z1 <= G1(f[n])
       PROVE  WarpLeads(f, w + 1, row1, z1)
  <2>1. ASSUME NEW n \in 1 .. w + 1
        PROVE  f[n] <= l /\ Found(f, w + 1, row1, n) /\ FoundLast(f, w + 1, row1, z1, n)
    <3>1. CASE n \in 1 .. w
      <4>1. f[n] <= l
        <5>1. f[n] \in Letter1 /\ f[n] <= top
          BY <1>8, <3>1
        <5>2. f[n] \in Nat
          BY <1>3, <5>1
        <5> QED
          BY <1>5, <5>1, <5>2
      <4> QED
        BY <1>7, <1>10, <3>1, <4>1 DEF Found, FoundLast, G1
    <3>2. CASE n = w + 1
      <4>1. f[n] = l
        BY <3>2 DEF l
      <4>2. row1[l] + 1 - (w + 1) <= G1(l)
        BY <1>5, <1>6, <1>10
      <4> QED
        BY <1>5, <1>7, <1>10, <3>2, <4>1, <4>2 DEF Found, FoundLast, G1
    <3> QED
      BY <1>4, <3>1, <3>2
  <2>2. z1 < l => row1[l] + 1 = w + 1
    BY <1>5, <1>6, <1>10
  <2>3. w + 1 # 0
    BY <1>4
  <2> QED
    BY <1>7, <1>10, <2>1, <2>2, <2>3 DEF WarpLeads, G1
\* The same letter, and z is behind it: this title takes the place of the first.
<1>11. CASE l = top /\ z < top
  <2>1. l >= z + 1 /\ z1 = z + 1
    BY <1>1, <1>5, <1>11, <1>r
  <2>2. row1 = [k \in Letter1 |-> IF k >= l THEN w ELSE row[k]]
    BY <1>r, <2>1
  <2>3. row1[l] = w /\ \A k \in Letter1 : k < l => row1[k] = row[k]
    BY <1>5, <1>6, <2>2
  <2>4. w # 0 /\ row[top] + 1 = w
    BY <1>1, <1>5, <1>11, <1>w
  <2>5. G1(l) = G(top)
    BY <1>2, <1>5, <1>11
  <2>6. ASSUME NEW n \in 1 .. w
        PROVE  /\ row1[f[n]] + 1 \in 1 .. w + 1 /\ f[row1[f[n]] + 1] = f[n]
               /\ row1[f[n]] + 1 - n <= G1(f[n])
               /\ f[n] = l => row1[f[n]] + 1 - n + l - z1 <= G1(f[n])
    <3>1. CASE f[n] = l
      <4>1. row[top] + 1 - n + top - z <= G(top)
        BY <1>8, <1>11, <3>1
      <4>2. w + 1 - n + l - z1 <= G1(l) /\ w + 1 - n <= G1(l)
        BY <1>1, <1>4, <1>5, <1>11, <2>1, <2>4, <2>5, <4>1, <1>6
      <4> QED
        BY <1>4, <2>3, <3>1, <4>2 DEF l
    <3>2. CASE f[n] # l
      <4>0. f[n] \in Letter1 /\ f[n] <= top
        BY <1>8
      <4>1. f[n] \in Letter1 /\ f[n] < l /\ f[n] <= top
        <5>1. f[n] \in Nat
          BY <1>3, <4>0
        <5> QED
          BY <1>5, <3>2, <4>0, <5>1
      <4>2. row1[f[n]] = row[f[n]] /\ G1(f[n]) = G(f[n])
        BY <1>2, <2>3, <4>1
      <4> QED
        BY <1>4, <1>8, <3>2, <4>2
    <3> QED
      BY <3>1, <3>2
  <2>7. row1[l] + 1 \in 1 .. w + 1 /\ f[row1[l] + 1] = l
    BY <1>4, <2>3 DEF l
  <2>8. z1 \in Nat \ {0} /\ z1 <= l /\ l - z1 <= G1(l) /\ row1[l] + 1 - (w + 1) + l - z1 <= G1(l)
    BY <1>1, <1>5, <1>6, <1>11, <2>1, <2>3, <2>5
  <2> QED
    BY <1>10, <2>3, <2>6, <2>7, <2>8
\* The same letter, and z is there: nothing changes.
<1>12. CASE l = top /\ z = top
  <2>1. row1 = row /\ z1 = z /\ z1 = l
    BY <1>1, <1>5, <1>12, <1>r
  <2>2. \A k \in Letter1 : k <= top => G1(k) = G(k)
    BY <1>2
  <2>3. ASSUME NEW n \in 1 .. w
        PROVE  /\ row1[f[n]] + 1 \in 1 .. w + 1 /\ f[row1[f[n]] + 1] = f[n]
               /\ row1[f[n]] + 1 - n <= G1(f[n])
               /\ f[n] = l => row1[f[n]] + 1 - n + l - z1 <= G1(f[n])
    <3>1. G1(f[n]) = G(f[n])
      BY <1>8, <2>2
    <3>2. row[f[n]] + 1 \in 1 .. w + 1
      BY <1>4, <1>8
    <3>3. row[f[n]] + 1 - n + l - z1 = row[f[n]] + 1 - n
      <4>1. f[n] \in Letter1
        BY <1>8
      <4>2. row[f[n]] \in Nat /\ n \in Nat
        BY <1>4, <1>6, <4>1
      <4> QED
        BY <1>5, <2>1, <4>2
    <3> QED
      BY <1>8, <2>1, <3>1, <3>2, <3>3
  <2>4. row[l] + 1 \in 1 .. w + 1 /\ f[row[l] + 1] = l
    <3>1. CASE w = 0
      <4>1. row[l] = 0
        BY <1>1, <1>5, <3>1 DEF NoWarp
      <4> QED
        BY <3>1, <4>1 DEF l
    <3>2. CASE w # 0
      <4>1. w \in 1 .. w /\ f[w] = l
        BY <1>9, <1>12, <3>2
      <4>2. row[l] + 1 \in 1 .. w /\ f[row[l] + 1] = l
        BY <1>8, <4>1
      <4> QED
        BY <1>4, <4>2
    <3> QED
      BY <3>1, <3>2
  <2>5. row[l] + 1 - (w + 1) + l - z1 <= G1(l)
    <3>1. row[l] + 1 <= w + 1 /\ G1(l) \in Nat /\ row[l] \in Nat
      BY <1>5, <1>6, <2>4
    <3> QED
      BY <1>5, <2>1, <3>1
  <2>6. z1 \in Nat \ {0} /\ z1 <= l /\ l - z1 <= G1(l) /\ ~(z1 < l)
    BY <1>5, <1>6, <2>1
  <2> QED
    BY <1>10, <2>1, <2>3, <2>4, <2>5, <2>6
\* A new letter, and perhaps letters without a title before it.
<1>13. CASE l > top
  <2>1. l >= z + 1 /\ z1 = z + 1
    BY <1>1, <1>5, <1>13, <1>r
  <2>2. row1 = [k \in Letter1 |-> IF k >= l THEN w ELSE row[k]]
    BY <1>r, <2>1
  <2>3. row1[l] = w /\ \A k \in Letter1 : k < l => row1[k] = row[k]
    BY <1>5, <1>6, <2>2
  <2>4. G1(l) = G(top) + l - 1 - top
    BY <1>2, <1>13
  <2>5. ASSUME NEW n \in 1 .. w
        PROVE  /\ row1[f[n]] + 1 \in 1 .. w + 1 /\ f[row1[f[n]] + 1] = f[n]
               /\ row1[f[n]] + 1 - n <= G1(f[n])
               /\ f[n] # l
    <3>1. f[n] \in Letter1 /\ f[n] <= top
      BY <1>8
    <3>2. f[n] < l
      <4>1. f[n] \in Nat
        BY <1>3, <3>1
      <4> QED
        BY <1>5, <1>13, <3>1, <4>1
    <3>3. row1[f[n]] = row[f[n]] /\ G1(f[n]) = G(f[n])
      BY <1>2, <2>3, <3>1, <3>2
    <3> QED
      BY <1>4, <1>5, <1>6, <1>8, <3>1, <3>2, <3>3, SMTT(60)
  <2>6. row1[l] + 1 \in 1 .. w + 1 /\ f[row1[l] + 1] = l
    BY <1>4, <2>3 DEF l
  <2>7. z1 \in Nat \ {0} /\ z1 <= l /\ l - z1 <= G1(l) /\ row1[l] + 1 - (w + 1) + l - z1 <= G1(l)
    <3>1. G(top) \in Nat
      BY <1>2, <1>6
    <3> QED
      BY <1>1, <1>5, <1>13, <2>1, <2>3, <2>4, <3>1
  <2> QED
    BY <1>10, <2>3, <2>5, <2>6, <2>7
<1> QED
  BY <1>1, <1>5, <1>11, <1>12, <1>13

\* The letters of the titles, and what is known of them once some are read.
LettersOf(c) == [n \in 1 .. Len(titles[c]) |-> LetterOf(c, n)]
WarpRight(c) == WarpLeads(LettersOf(c), warped[c], warp[c], warpz[c])

WarpTypeOK ==
    /\ warp \in [Category -> [Letter1 -> Nat]] /\ warpz \in [Category -> Nat]
    /\ warped \in [Category -> Nat] /\ \A c \in Category : warped[c] <= Len(titles[c])
    /\ \A c \in Category : warped[c] = 0 => warp[c] = NoWarp /\ warpz[c] = 1

WarpInv ==
    /\ WarpTypeOK
    /\ built # "done" => \A c \in Category : warped[c] = 0
    /\ \A c \in Category : Ordered(c) => WarpRight(c)

LEMMA LettersOfTitles ==
    ASSUME BuildInv, NEW c \in Category
    PROVE  /\ Len(titles[c]) \in Nat
           /\ \A n \in 1 .. Len(titles[c]) : LetterOf(c, n) \in Letter1
           /\ LettersOf(c) \in [1 .. Len(titles[c]) -> Letter1]
<1>1. titles[c] \in Seq(Title)
  BY DEF BuildInv
<1>2. \A l \in Letter1 : Last(<<l>>) = l /\ Last(<<1, l>>) = l
  BY DEF Last
<1>3. ASSUME NEW n \in 1 .. Len(titles[c]) PROVE LetterOf(c, n) \in Letter1
  <2>1. titles[c][n] \in Title
    BY <1>1
  <2> QED
    BY <1>2, <2>1 DEF Title, LetterOf
<1> QED
  BY <1>1, <1>3 DEF LettersOf

\* Before the first title.
LEMMA NothingRead == \A f : WarpLeads(f, 0, NoWarp, 1)
<1> SUFFICES ASSUME NEW f PROVE WarpLeads(f, 0, NoWarp, 1)
  OBVIOUS
<1>1. LastOf(f, 0) = 1
  BY DEF LastOf
<1>2. GapsTo(f, 0, 1) \in Nat
  BY GapsFinite
<1> QED
  BY <1>1, <1>2 DEF WarpLeads

LEMMA LeadsAgain ==
    ASSUME NEW c, WarpLeads(LettersOf(c)', warped'[c], warp'[c], warpz'[c])
    PROVE  WarpRight(c)'
BY DEF WarpRight, WarpLeads, LastOf, Found, FoundLast, GapsTo, Gaps, NoWarp, Letter1

LEMMA WarpStarts == MoviesInit => WarpInv
<1> SUFFICES ASSUME MoviesInit PROVE WarpInv
  OBVIOUS
<1>1. /\ warp = [c \in Category |-> NoWarp] /\ warpz = [c \in Category |-> 1]
      /\ warped = [c \in Category |-> 0] /\ titles = [c \in Category |-> <<>>]
  BY DEF MoviesInit
<1>2. NoWarp \in [Letter1 -> Nat]
  BY DEF NoWarp
<1>3. WarpTypeOK
  BY <1>1, <1>2 DEF WarpTypeOK
<1>4. \A c \in Category : WarpRight(c)
  BY <1>1, NothingRead DEF WarpRight
<1> QED
  BY <1>1, <1>3, <1>4 DEF WarpInv

\* Nothing is read by warp before build is done.
LEMMA WarpWaits ==
    ASSUME WarpInv, built = "no", UNCHANGED <<warp, warpz, warped>>,
           \A c \in Category : Len(titles'[c]) \in Nat
    PROVE  WarpInv'
<1>1. WarpTypeOK /\ \A c \in Category : warped[c] = 0
  BY DEF WarpInv
<1>2. \A c \in Category : warped'[c] = 0 /\ warp'[c] = NoWarp /\ warpz'[c] = 1
  BY <1>1 DEF WarpTypeOK
<1>3. WarpTypeOK'
  BY <1>1, <1>2 DEF WarpTypeOK, NoWarp, Letter1
<1>4. ASSUME NEW c \in Category PROVE WarpRight(c)'
  <2>1. WarpLeads(LettersOf(c)', 0, NoWarp, 1)
    BY NothingRead
  <2>2. warped'[c] = 0 /\ warp'[c] = NoWarp /\ warpz'[c] = 1
    BY <1>2
  <2>3. WarpLeads(LettersOf(c)', warped'[c], warp'[c], warpz'[c])
    BY <2>1, <2>2
  <2> QED
    BY <2>3, LeadsAgain
<1> QED
  BY <1>2, <1>3, <1>4 DEF WarpInv

LEMMA WarpMoves == ASSUME BuildInv, WarpInv, NEW c \in Category, WarpTitle(c) PROVE WarpInv'
<1> DEFINE n == warped[c] + 1
           l == LetterOf(c, n)
<1>1. /\ built = "done" /\ warped[c] < Len(titles[c]) /\ UNCHANGED <<built, titles>>
      /\ warped' = [warped EXCEPT ![c] = n]
      /\ IF l >= warpz[c] + 1
         THEN /\ warp' = [warp EXCEPT ![c] = [k \in Letter1 |-> IF k >= l THEN warped[c] ELSE warp[c][k]]]
              /\ warpz' = [warpz EXCEPT ![c] = warpz[c] + 1]
         ELSE UNCHANGED <<warp, warpz>>
  BY DEF WarpTitle, Named, LetterOf, buildVars, indexVars
<1>2. WarpTypeOK
  BY DEF WarpInv
<1>3. warped[c] \in Nat /\ Len(titles[c]) \in Nat /\ warpz[c] \in Nat /\ warp[c] \in [Letter1 -> Nat]
  BY <1>2 DEF WarpTypeOK, BuildInv
<1>4. l \in Letter1 /\ n \in 1 .. Len(titles[c]) /\ n \in Nat \ {0}
  BY <1>1, <1>3, LettersOfTitles DEF Letter1
<1>5. \A k \in 1 .. Len(titles[c]) : LetterOf(c, k) \in Letter1 /\ LetterOf(c, k) \in Nat
  BY LettersOfTitles DEF Letter1
<1>6. \A d, k : LetterOf(d, k)' = LetterOf(d, k)
  BY <1>1 DEF LetterOf
<1> HIDE DEF l
<1>7. \E row, z : /\ row \in [Letter1 -> Nat] /\ z \in Nat
                  /\ warp' = [warp EXCEPT ![c] = row] /\ warpz' = [warpz EXCEPT ![c] = z]
                  /\ IF l >= warpz[c] + 1
                     THEN /\ row = [k \in Letter1 |-> IF k >= l THEN warped[c] ELSE warp[c][k]]
                          /\ z = warpz[c] + 1
                     ELSE row = warp[c] /\ z = warpz[c]
  <2>1. CASE l >= warpz[c] + 1
    <3> DEFINE moved == [k \in Letter1 |-> IF k >= l THEN warped[c] ELSE warp[c][k]]
               next == warpz[c] + 1
    <3>1. moved \in [Letter1 -> Nat] /\ next \in Nat
      BY <1>3
    <3>2. warp' = [warp EXCEPT ![c] = moved] /\ warpz' = [warpz EXCEPT ![c] = next]
      BY <1>1, <2>1
    <3>3. moved = [k \in Letter1 |-> IF k >= l THEN warped[c] ELSE warp[c][k]] /\ next = warpz[c] + 1
      OBVIOUS
    <3> HIDE DEF moved, next
    <3> QED
      BY <2>1, <3>1, <3>2, <3>3
  <2>2. CASE ~(l >= warpz[c] + 1)
    <3>1. warp' = [warp EXCEPT ![c] = warp[c]] /\ warpz' = [warpz EXCEPT ![c] = warpz[c]]
      BY <1>1, <1>2, <2>2 DEF WarpTypeOK
    <3> QED
      BY <1>3, <2>2, <3>1
  <2> QED
    BY <2>1, <2>2
<1>8. PICK row, z : /\ row \in [Letter1 -> Nat] /\ z \in Nat
                    /\ warp' = [warp EXCEPT ![c] = row] /\ warpz' = [warpz EXCEPT ![c] = z]
                    /\ IF l >= warpz[c] + 1
                       THEN /\ row = [k \in Letter1 |-> IF k >= l THEN warped[c] ELSE warp[c][k]]
                            /\ z = warpz[c] + 1
                       ELSE row = warp[c] /\ z = warpz[c]
  BY <1>7
<1>9. /\ warp'[c] = row /\ warpz'[c] = z /\ warped'[c] = n
      /\ \A d \in Category : d # c => /\ warp'[d] = warp[d] /\ warpz'[d] = warpz[d]
                                      /\ warped'[d] = warped[d]
  <2>1. \A d \in Category : warp'[d] = IF d = c THEN row ELSE warp[d]
    BY <1>2, <1>8 DEF WarpTypeOK
  <2>2. \A d \in Category : warpz'[d] = IF d = c THEN z ELSE warpz[d]
    BY <1>2, <1>8 DEF WarpTypeOK
  <2>3. \A d \in Category : warped'[d] = IF d = c THEN n ELSE warped[d]
    BY <1>1, <1>2 DEF WarpTypeOK
  <2> QED
    BY <2>1, <2>2, <2>3
<1>10. WarpTypeOK'
  <2>1. /\ warp' \in [Category -> [Letter1 -> Nat]] /\ warpz' \in [Category -> Nat]
        /\ warped' \in [Category -> Nat]
    BY <1>1, <1>2, <1>4, <1>8 DEF WarpTypeOK
  <2>2. \A d \in Category : warped'[d] <= Len(titles'[d])
    BY <1>1, <1>2, <1>3, <1>4, <1>9, SMTT(60) DEF WarpTypeOK
  <2>3. \A d \in Category : warped'[d] = 0 => warp'[d] = NoWarp /\ warpz'[d] = 1
    BY <1>2, <1>4, <1>9 DEF WarpTypeOK
  <2> QED
    BY <2>1, <2>2, <2>3 DEF WarpTypeOK, NoWarp, Letter1
<1>l. \A d \in Category : LettersOf(d)' = LettersOf(d)
  BY <1>1, <1>6 DEF LettersOf
<1>11. ASSUME NEW d \in Category, d # c, Ordered(d)' PROVE WarpRight(d)'
  <2>1. Ordered(d)
    BY <1>6, <1>9, <1>11 DEF Ordered
  <2>2. WarpLeads(LettersOf(d), warped[d], warp[d], warpz[d])
    BY <2>1 DEF WarpInv, WarpRight
  <2>3. WarpLeads(LettersOf(d)', warped'[d], warp'[d], warpz'[d])
    BY <1>9, <1>11, <1>l, <2>2
  <2> QED
    BY <2>3, LeadsAgain
<1>12. ASSUME Ordered(c)' PROVE WarpRight(c)'
  <2> DEFINE w == warped[c]
             f == LettersOf(c)
             N == Len(titles[c])
  <2>1. \A k \in 2 .. n : LetterOf(c, k - 1) <= LetterOf(c, k)
    BY <1>6, <1>9, <1>12 DEF Ordered
  <2>2. Ordered(c)
    <3>1. 2 .. w \subseteq 2 .. n
      BY <1>3
    <3> QED
      BY <2>1, <3>1 DEF Ordered
  <2>3. WarpLeads(f, w, warp[c], warpz[c])
    BY <2>2 DEF WarpInv, WarpRight
  <2>4. N \in Nat /\ f \in [1 .. N -> Letter1] /\ \A k \in 1 .. N : f[k] = LetterOf(c, k)
    BY LettersOfTitles DEF LettersOf
  <2>5. f[w + 1] = l
    BY <1>4, <2>4 DEF l
  <2>6. LastOf(f, w) <= f[w + 1]
    <3>1. CASE w = 0
      BY <1>4, <2>5, <3>1 DEF LastOf, Letter1
    <3>2. CASE w # 0
      <4>1. n \in 2 .. n /\ n - 1 = w /\ w \in 1 .. N
        BY <1>1, <1>3, <3>2
      <4>2. LetterOf(c, w) <= LetterOf(c, n)
        BY <2>1, <4>1
      <4> QED
        BY <2>4, <2>5, <3>2, <4>1, <4>2 DEF LastOf, l
    <3> QED
      BY <3>1, <3>2
  <2>7. w \in Nat /\ w < N /\ warp[c] \in [Letter1 -> Nat] /\ row \in [Letter1 -> Nat]
    BY <1>1, <1>3, <1>8
  <2>8. OneTitle(f, w, warp[c], warpz[c], row, z)
    BY <1>8, <2>5 DEF OneTitle
  <2> HIDE DEF w, f, N
  <2>9. WarpLeads(f, w + 1, row, z)
    BY <2>3, <2>4, <2>6, <2>7, <2>8, WarpReads
  <2>10. WarpLeads(LettersOf(c)', warped'[c], warp'[c], warpz'[c])
    BY <1>9, <1>l, <2>9 DEF f, w
  <2> QED
    BY <2>10, LeadsAgain
<1> QED
  BY <1>1, <1>10, <1>11, <1>12 DEF WarpInv

LEMMA MoviesStep == BuildInv /\ WarpInv /\ [MoviesNext]_moviesVars => BuildInv' /\ WarpInv'
<1> SUFFICES ASSUME BuildInv, WarpInv, [MoviesNext]_moviesVars PROVE BuildInv' /\ WarpInv'
  OBVIOUS
\* A step that leaves the database and what build wrote alone.
<1>1. ASSUME UNCHANGED <<database, building, built, titles, index>> PROVE BuildInv'
  <2>1. \A on, i : Later(on, i)' = Later(on, i)
    BY <1>1 DEF Later
  <2>2. \A i : Inside(i)' = Inside(i) /\ Additions(i)' = Additions(i)
    BY <1>1, <2>1 DEF Inside, Additions
  <2>3. \A on, i : Added(on, i)' = Added(on, i)
    <3> SUFFICES ASSUME NEW on, NEW i PROVE Added(on, i)' = Added(on, i)
      OBVIOUS
    <3>1. {j \in Additions(i)' : database'[j].on = on} = {j \in Additions(i) : database[j].on = on}
      BY <1>1, <2>2
    <3> QED
      BY <3>1 DEF Added
  <2>4. FilmEntries' = FilmEntries
    BY <2>3 DEF EntryOf, FilmEntries
  <2>5. Data' /\ \A i : WholeRecord(i)' <=> WholeRecord(i)
    <3>1. Data'
      BY <1>1 DEF BuildInv, Data, Ranked
    <3>2. \A i : WholeRecord(i)' <=> WholeRecord(i)
      BY <1>1, <2>1 DEF WholeRecord
    <3> QED
      BY <3>1, <3>2
  <2>6. \A e, t : EntryRight(e, t)' <=> EntryRight(e, t)
    BY <1>1, <2>2, <2>5 DEF EntryRight
  <2>7. \A c \in Category : \A n : EntryRight(index[c][n], titles[c][n])'
                                  <=> EntryRight(index[c][n], titles[c][n])
    BY <1>1, <2>6
  <2>8. \A i : FilmIndexed(i)' <=> FilmIndexed(i)
    BY <1>1, <2>1 DEF FilmIndexed
  <2> QED
    BY <1>1, <2>4, <2>5, <2>7, <2>8 DEF BuildInv
<1>2. ASSUME NEW title \in Title, NEW cats \in SUBSET Category, NEW body \in Bodies,
             AddRecord(title, cats, body)
      PROVE  BuildInv' /\ WarpInv'
  <2>1. BuildInv'
    BY <1>2, RecordAdded
  <2>2. built = "no" /\ UNCHANGED <<warp, warpz, warped>>
    BY <1>2 DEF AddRecord, warpVars
  <2>3. \A c \in Category : Len(titles'[c]) \in Nat
    BY <2>1 DEF BuildInv
  <2> QED
    BY <2>1, <2>2, <2>3, WarpWaits
<1>3. CASE BuildFilm
  <2>1. BuildInv'
    BY <1>3, FilmBuilt
  <2>2. built = "no" /\ UNCHANGED <<warp, warpz, warped>>
    BY <1>3 DEF BuildFilm, warpVars
  <2>3. \A c \in Category : Len(titles'[c]) \in Nat
    BY <2>1 DEF BuildInv
  <2> QED
    BY <2>1, <2>2, <2>3, WarpWaits
<1>4. ASSUME NEW c \in Category, WarpTitle(c) PROVE BuildInv' /\ WarpInv'
  <2>1. BuildInv'
    BY <1>1, <1>4 DEF WarpTitle, buildVars, indexVars
  <2> QED
    BY <1>4, <2>1, WarpMoves
<1>5. CASE UNCHANGED moviesVars
  <2>1. UNCHANGED <<database, building, built, titles, index, warp, warpz, warped>>
    BY <1>5 DEF moviesVars, buildVars, indexVars, warpVars
  <2>2. BuildInv'
    BY <1>1, <2>1
  <2>3. \A d, k : LetterOf(d, k)' = LetterOf(d, k)
    BY <2>1 DEF LetterOf
  <2>4. \A d : Ordered(d)' <=> Ordered(d)
    BY <2>1, <2>3 DEF Ordered
  <2>5. ASSUME NEW d, WarpRight(d) PROVE WarpRight(d)'
    <3>1. LettersOf(d)' = LettersOf(d)
      BY <2>1, <2>3 DEF LettersOf
    <3>2. WarpLeads(LettersOf(d), warped[d], warp[d], warpz[d])
      BY <2>5 DEF WarpRight
    <3>3. WarpLeads(LettersOf(d)', warped'[d], warp'[d], warpz'[d])
      BY <2>1, <3>1, <3>2
    <3> QED
      BY <3>3, LeadsAgain
  <2>6. WarpTypeOK'
    BY <2>1 DEF WarpInv, WarpTypeOK, NoWarp, Letter1
  <2> QED
    BY <2>1, <2>2, <2>4, <2>5, <2>6 DEF WarpInv
<1>6. \A l \in Letter1 : <<l>> \in Title /\ <<1, l>> \in Title
  BY DEF Title
<1> QED
  BY <1>2, <1>3, <1>4, <1>5, <1>6 DEF MoviesNext

LEMMA WarpPromise == BuildInv /\ WarpInv => WarpFinds
<1> SUFFICES ASSUME BuildInv, WarpInv, NEW c \in Category, Ordered(c), NEW n \in 1 .. warped[c]
             PROVE  LET l == LetterOf(c, n)
                        m == warp[c][l] + 1
                    IN  /\ m \in 1 .. warped[c] /\ LetterOf(c, m) = l
                        /\ m - n <= Cardinality(Skipped(c, l))
  BY DEF WarpFinds
<1> DEFINE f == LettersOf(c)
<1>1. /\ \A k \in 1 .. warped[c] : f[k] = LetterOf(c, k)
      /\ 1 .. warped[c] \subseteq 1 .. Len(titles[c])
  <2>1. Len(titles[c]) \in Nat /\ warped[c] \in Nat /\ warped[c] <= Len(titles[c])
    BY LettersOfTitles DEF WarpInv, WarpTypeOK
  <2>2. 1 .. warped[c] \subseteq 1 .. Len(titles[c])
    BY <2>1
  <2> QED
    BY <2>2 DEF LettersOf
<1>2. Found(f, warped[c], warp[c], n)
  BY DEF WarpInv, WarpRight, WarpLeads
<1> HIDE DEF f
<1>3. Gaps(f, warped[c], LetterOf(c, n)) = Skipped(c, LetterOf(c, n))
  BY <1>1 DEF Gaps, Skipped
<1>4. f[n] = LetterOf(c, n)
  BY <1>1
<1>5. GapsTo(f, warped[c], f[n]) = Cardinality(Skipped(c, LetterOf(c, n)))
  BY <1>3, <1>4 DEF GapsTo
<1>6. /\ warp[c][f[n]] + 1 \in 1 .. warped[c] /\ f[warp[c][f[n]] + 1] = f[n]
      /\ warp[c][f[n]] + 1 - n <= GapsTo(f, warped[c], f[n])
  BY <1>2 DEF Found
<1>7. /\ warp[c][LetterOf(c, n)] + 1 \in 1 .. warped[c]
      /\ f[warp[c][LetterOf(c, n)] + 1] = LetterOf(c, n)
      /\ warp[c][LetterOf(c, n)] + 1 - n <= Cardinality(Skipped(c, LetterOf(c, n)))
  BY <1>4, <1>5, <1>6
<1>8. LetterOf(c, warp[c][LetterOf(c, n)] + 1) = LetterOf(c, n)
  BY <1>1, <1>7
<1>9. /\ warp[c][LetterOf(c, n)] + 1 \in 1 .. warped[c]
      /\ LetterOf(c, warp[c][LetterOf(c, n)] + 1) = LetterOf(c, n)
  BY <1>7, <1>8
<1>10. (warp[c][LetterOf(c, n)] + 1) - n <= Cardinality(Skipped(c, LetterOf(c, n)))
  <2>1. n \in 1 .. Len(titles[c])
    BY <1>1
  <2>2. LetterOf(c, n) \in Letter1
    BY <2>1, LettersOfTitles
  <2>3. warp[c][LetterOf(c, n)] \in Nat /\ n \in Nat
    BY <2>2 DEF WarpInv, WarpTypeOK
  <2> QED
    BY <1>7, <2>3
<1> QED
  BY <1>9, <1>10

-----------------------------------------------------------------------------
(***************************************************************************)
(* The guide.  A line of the feed that is whole is that of the first day   *)
(* or of a programme; and a file, while its station's programmes stay in   *)
(* the month of the first day, has what GuideFinds says.                   *)
(***************************************************************************)
FeedLine == [date : Date, station : Station \cup {"none"}, start : Nat, durat : Nat]

IsFirst(f) == f \in Whole /\ \A j \in Whole : f <= j
FirstWhole == CHOOSE i \in Whole : \A j \in Whole : i <= j

\* Where a programme belongs, and which lines are on in a quarter.
TrueQuarter(i) == (feed[i].date.day - feed[FirstWhole].date.day) * Quarters + feed[i].start
OnAt(s, q) ==
    {i \in Whole : feed[i].station = s /\ q \in TrueQuarter(i) .. TrueQuarter(i) + feed[i].durat - 1}

\* The programmes of s stay in the month, and do not come before its first day.
InMonth(s) ==
    \A i \in Whole : feed[i].station = s => /\ feed[i].date.month = feed[FirstWhole].date.month
                                           /\ feed[i].date.day >= feed[FirstWhole].date.day

\* A quarter leads to line n, or to none.
LeadsTo(s, q, n) ==
    \/ n = 0 /\ OnAt(s, q) = {}
    \/ n \in OnAt(s, q) /\ \A k \in OnAt(s, q) : k <= n

FileRight(s) ==
    /\ \A i \in DOMAIN files[s] : LeadsTo(s, i - 1, files[s][i])
    /\ \A i \in Whole : feed[i].station = s /\ feed[i].durat > 0 =>
          TrueQuarter(i) + feed[i].durat <= Len(files[s])

GuideTypeOK ==
    /\ feed \in Seq({Malformed} \cup FeedLine)
    /\ base \in Nat \cup {NoBase}
    /\ at \in [Station -> Nat] /\ files \in [Station -> Seq(Nat)]

FromFirstDay ==
    /\ base = NoBase => Whole = {} /\ \A s \in Station : files[s] = <<>>
    /\ base # NoBase => IsFirst(FirstWhole) /\ base = Date2quart(feed[FirstWhole].date)

GuideInv == GuideTypeOK /\ FromFirstDay /\ \A s \in Station : InMonth(s) => FileRight(s)

LEMMA QuartersFacts == Quarters \in Nat /\ \A d \in Date : Date2quart(d) \in Nat
<1>1. Hours \in Nat
  BY GuideAssumption
<1>2. Quarters \in Nat
  BY <1>1 DEF Quarters
<1>3. ASSUME NEW d \in Date PROVE Date2quart(d) \in Nat
  <2>1. d.month \in {1, 2, 3} /\ d.day \in {1, 2}
    BY <1>3 DEF Date, days
  <2>2. days[d.month] \in {1, 2}
    BY <2>1 DEF days
  <2>3. days[d.month] + d.day \in Nat
    BY <2>1, <2>2
  <2> QED
    BY <1>2, <2>3 DEF Date2quart
<1> QED
  BY <1>2, <1>3

\* Only a whole line has a date.
LEMMA LinesDiffer == Malformed \notin FeedLine
<1> SUFFICES ASSUME Malformed \in FeedLine PROVE FALSE
  OBVIOUS
<1>1. DOMAIN Malformed = {"day"}
  BY DEF Malformed
<1>2. "date" \in DOMAIN Malformed
  BY DEF FeedLine
<1> QED
  BY <1>1, <1>2

LEMMA WholeLines ==
    ASSUME GuideTypeOK
    PROVE  /\ Len(feed) \in Nat /\ Whole \subseteq 1 .. Len(feed)
           /\ \A i \in Whole : feed[i] \in FeedLine
<1>1. Len(feed) \in Nat /\ DOMAIN feed = 1 .. Len(feed)
  BY DEF GuideTypeOK
<1>2. \A i \in DOMAIN feed : feed[i] \in {Malformed} \cup FeedLine
  BY DEF GuideTypeOK
<1> QED
  BY <1>1, <1>2 DEF Whole

LEMMA FirstIsFirst ==
    ASSUME GuideTypeOK, NEW f, IsFirst(f)
    PROVE  FirstWhole = f
<1>1. f \in Whole /\ \A j \in Whole : f <= j
  BY DEF IsFirst
<1>2. FirstWhole \in Whole /\ \A j \in Whole : FirstWhole <= j
  BY <1>1 DEF FirstWhole
<1>3. FirstWhole \in Nat /\ f \in Nat
  BY <1>1, <1>2, WholeLines
<1> QED
  BY <1>1, <1>2, <1>3

LEMMA GuideStarts == GuideInit => GuideInv
<1> SUFFICES ASSUME GuideInit PROVE GuideInv
  OBVIOUS
<1>1. feed = <<>> /\ base = NoBase /\ files = [s \in Station |-> <<>>] /\ at = [s \in Station |-> 0]
  BY DEF GuideInit
<1>2. Whole = {}
  BY <1>1 DEF Whole
<1>3. GuideTypeOK
  BY <1>1 DEF GuideTypeOK
<1>4. FromFirstDay
  BY <1>1, <1>2 DEF FromFirstDay
<1>5. \A s \in Station : FileRight(s)
  BY <1>1, <1>2 DEF FileRight
<1> QED
  BY <1>3, <1>4, <1>5 DEF GuideInv

\* A line is added, at the end.
Adds(x) == feed' = Append(feed, x)

LEMMA LineAdded ==
    ASSUME GuideTypeOK, NEW x \in {Malformed} \cup FeedLine, Adds(x)
    PROVE  /\ feed' \in Seq({Malformed} \cup FeedLine)
           /\ Len(feed') = Len(feed) + 1 /\ feed'[Len(feed) + 1] = x
           /\ \A i \in 1 .. Len(feed) : feed'[i] = feed[i]
           /\ Whole' = IF x = Malformed THEN Whole ELSE Whole \cup {Len(feed) + 1}
<1>1. feed \in Seq({Malformed} \cup FeedLine)
  BY DEF GuideTypeOK
<1>2. /\ feed' \in Seq({Malformed} \cup FeedLine)
      /\ Len(feed') = Len(feed) + 1 /\ feed'[Len(feed) + 1] = x
      /\ \A i \in 1 .. Len(feed) : feed'[i] = feed[i]
  BY <1>1 DEF Adds
<1>3. DOMAIN feed' = 1 .. Len(feed) + 1 /\ DOMAIN feed = 1 .. Len(feed) /\ Len(feed) \in Nat
  BY <1>1, <1>2
<1>4. ASSUME NEW i PROVE i \in Whole' <=> i \in Whole \/ (x # Malformed /\ i = Len(feed) + 1)
  <2>1. i \in Whole' <=> i \in 1 .. Len(feed) + 1 /\ feed'[i] # Malformed
    BY <1>3 DEF Whole
  <2>2. i \in Whole <=> i \in 1 .. Len(feed) /\ feed[i] # Malformed
    BY <1>3 DEF Whole
  <2> QED
    BY <1>2, <1>3, <2>1, <2>2
<1>5. CASE x = Malformed
  BY <1>2, <1>4, <1>5
<1>6. CASE x # Malformed
  BY <1>2, <1>4, <1>6
<1> QED
  BY <1>5, <1>6

\* The lines that were there stay what they are, and the first one is the first.
LEMMA LinesStay ==
    ASSUME GuideTypeOK, GuideTypeOK', NEW x \in {Malformed} \cup FeedLine, Adds(x),
           IsFirst(FirstWhole)
    PROVE  /\ FirstWhole' = FirstWhole /\ IsFirst(FirstWhole)'
           /\ FirstWhole \in Whole
           /\ \A i \in Whole : feed'[i] = feed[i] /\ i <= Len(feed)
           /\ \A i \in Whole : TrueQuarter(i)' = TrueQuarter(i)
<1> DEFINE f == FirstWhole
<1>1. \A i \in Whole : feed'[i] = feed[i] /\ i \in 1 .. Len(feed)
  BY WholeLines, LineAdded
<1>2. f \in Whole /\ \A j \in Whole : f <= j
  BY DEF IsFirst
<1>3. f \in Whole' /\ \A j \in Whole' : f <= j
  BY <1>1, <1>2, LineAdded, WholeLines
<1> HIDE DEF f
<1>4. FirstWhole' \in Whole' /\ \A j \in Whole' : FirstWhole' <= j
  BY <1>3 DEF FirstWhole
<1>5. FirstWhole' \in Nat /\ f \in Nat
  <2>1. Whole' \subseteq Nat
    BY WholeLines, LineAdded, <1>1
  <2> QED
    BY <2>1, <1>3, <1>4
<1>6. FirstWhole' = f
  BY <1>3, <1>4, <1>5
<1>7. \A i \in Whole : TrueQuarter(i)' = TrueQuarter(i)
  BY <1>1, <1>2, <1>6 DEF TrueQuarter, f, Quarters
<1> QED
  BY <1>1, <1>2, <1>4, <1>6, <1>7 DEF f, IsFirst

LEMMA GuideBase == ASSUME GuideInv, NEW d \in Date, BaseDay(d) PROVE GuideInv'
<1> DEFINE x == [date |-> d, station |-> "none", start |-> 0, durat |-> 0]
           k == Len(feed) + 1
<1> USE DEF GuideInv
<1>1. base = NoBase /\ Adds(x) /\ base' = Date2quart(d) /\ UNCHANGED <<files, at>>
  BY DEF BaseDay, Adds
<1>2. x \in FeedLine /\ x # Malformed
  BY LinesDiffer DEF FeedLine
<1>3. Whole = {} /\ \A s \in Station : files[s] = <<>>
  BY <1>1 DEF FromFirstDay
<1> HIDE DEF x
<1>4. Whole' = {k} /\ feed'[k] = x /\ feed' \in Seq({Malformed} \cup FeedLine) /\ k \in Nat
  BY <1>1, <1>2, <1>3, LineAdded, WholeLines
<1>5. GuideTypeOK'
  BY <1>1, <1>4, QuartersFacts DEF GuideTypeOK
<1>6. FirstWhole' = k
  <2>1. k \in Whole' /\ \A j \in Whole' : k <= j
    BY <1>4
  <2> QED
    BY <2>1, <1>4 DEF FirstWhole
<1>7. FromFirstDay'
  <2>1. base' # NoBase
    BY <1>1, QuartersFacts DEF NoBase
  <2>2. IsFirst(FirstWhole)'
    BY <1>4, <1>6 DEF IsFirst
  <2>3. feed'[FirstWhole'].date = d
    BY <1>4, <1>6 DEF x
  <2> QED
    BY <1>1, <2>1, <2>2, <2>3 DEF FromFirstDay
<1>8. ASSUME NEW s \in Station PROVE FileRight(s)'
  <2>1. files'[s] = <<>>
    BY <1>1, <1>3
  <2>2. \A i \in Whole' : feed'[i].durat = 0
    BY <1>4 DEF x
  <2> QED
    BY <2>1, <2>2 DEF FileRight
<1> QED
  BY <1>5, <1>7, <1>8

LEMMA GuideBad == ASSUME GuideInv, BadLine PROVE GuideInv'
<1> USE DEF GuideInv
<1>1. Adds(Malformed) /\ UNCHANGED <<base, files, at>>
  BY DEF BadLine, Adds
<1>2. Whole' = Whole /\ feed' \in Seq({Malformed} \cup FeedLine)
  BY <1>1, LineAdded
<1>3. GuideTypeOK'
  BY <1>1, <1>2 DEF GuideTypeOK
<1>4. CASE base = NoBase
  <2>1. Whole' = {} /\ \A s \in Station : files'[s] = <<>>
    BY <1>1, <1>2, <1>4 DEF FromFirstDay
  <2>2. FromFirstDay'
    BY <1>1, <1>4, <2>1 DEF FromFirstDay
  <2>3. \A s \in Station : FileRight(s)'
    BY <2>1 DEF FileRight
  <2> QED
    BY <1>3, <2>2, <2>3
<1>5. CASE base # NoBase
  <2>1. IsFirst(FirstWhole) /\ base = Date2quart(feed[FirstWhole].date)
    BY <1>5 DEF FromFirstDay
  <2>2. /\ FirstWhole' = FirstWhole /\ IsFirst(FirstWhole)' /\ FirstWhole \in Whole
        /\ \A i \in Whole : feed'[i] = feed[i] /\ i <= Len(feed)
        /\ \A i \in Whole : TrueQuarter(i)' = TrueQuarter(i)
    BY <1>1, <1>3, <2>1, LinesStay
  <2>3. FromFirstDay'
    BY <1>1, <1>5, <2>1, <2>2 DEF FromFirstDay
  <2>4. \A s \in Station : InMonth(s)' => InMonth(s)
    BY <1>2, <2>2 DEF InMonth
  <2>5. ASSUME NEW s \in Station, FileRight(s) PROVE FileRight(s)'
    <3>1. \A q : OnAt(s, q)' = OnAt(s, q)
      BY <1>2, <2>2 DEF OnAt
    <3>2. \A q, n : LeadsTo(s, q, n)' <=> LeadsTo(s, q, n)
      BY <3>1 DEF LeadsTo
    <3> QED
      BY <1>1, <1>2, <2>2, <2>5, <3>2 DEF FileRight
  <2> QED
    BY <1>3, <2>3, <2>4, <2>5
<1> QED
  BY <1>4, <1>5

LEMMA GuideWrites ==
    ASSUME GuideInv, NEW d \in Date, NEW s \in Station, NEW time \in Time, NEW length \in Time,
           Programme(d, s, time, length)
    PROVE  GuideInv'
<1> DEFINE start == Time2quart(time)
           durat == Time2quart(length)
           x == [date |-> d, station |-> s, start |-> start, durat |-> durat]
           q == Date2quart(d) - base + start
           from == IF q < 0 THEN at[s] ELSE q
<1> USE DEF GuideInv
<1>1. /\ base # NoBase /\ Adds(x) /\ UNCHANGED base
      /\ files' = [files EXCEPT ![s] = Written(files[s], from, durat, Len(feed'))]
      /\ at' = [at EXCEPT ![s] = from + durat]
  BY DEF Programme, Adds
<1>2. start \in Nat /\ durat \in Nat
  <2>1. \A t \in Time : Time2quart(t) \in Nat
    <3> SUFFICES ASSUME NEW t \in Time PROVE Time2quart(t) \in Nat
      OBVIOUS
    <3>1. t.hr \in 0 .. Hours - 1 /\ t.min \in 0 .. 59
      BY GuideAssumption DEF Time
    <3>2. t.min \div 15 \in Nat
      BY <3>1
    <3> QED
      BY <3>1, <3>2, GuideAssumption DEF Time2quart
  <2> QED
    BY <2>1
<1>k. PICK k : k = Len(feed) + 1
  OBVIOUS
<1> HIDE DEF start, durat
<1>3. x \in FeedLine /\ x # Malformed
  BY <1>2, LinesDiffer DEF FeedLine
<1>4. x.date = d /\ x.station = s /\ x.start = start /\ x.durat = durat
  OBVIOUS
<1> HIDE DEF x
<1>5. /\ feed' \in Seq({Malformed} \cup FeedLine) /\ Len(feed') = k /\ feed'[k] = x /\ k \in Nat
      /\ Whole' = Whole \cup {k}
  BY <1>1, <1>3, <1>k, LineAdded, WholeLines
<1>6. IsFirst(FirstWhole) /\ base = Date2quart(feed[FirstWhole].date)
  BY <1>1 DEF FromFirstDay
<1>7. from \in Nat
  <2>1. Date2quart(d) \in Nat /\ base \in Nat /\ at[s] \in Nat
    BY <1>1, QuartersFacts DEF GuideTypeOK
  <2> QED
    BY <1>2, <2>1
<1> HIDE DEF from
<1>8. /\ files[s] \in Seq(Nat) /\ Len(files[s]) \in Nat /\ DOMAIN files[s] = 1 .. Len(files[s])
  BY DEF GuideTypeOK
<1> DEFINE end == IF durat > 0 /\ from + durat > Len(files[s]) THEN from + durat ELSE Len(files[s])
<1>w. PICK w : w = Written(files[s], from, durat, k)
  OBVIOUS
<1>9. w = [i \in 1 .. end |-> IF i \in from + 1 .. from + durat THEN k
                              ELSE IF i \in 1 .. Len(files[s]) THEN files[s][i] ELSE 0]
  BY <1>8, <1>w DEF Written
<1>10. end \in Nat /\ end >= Len(files[s]) /\ (durat > 0 => end >= from + durat)
  BY <1>2, <1>7, <1>8
<1> HIDE DEF end
<1>11. \A i \in 1 .. Len(files[s]) : files[s][i] \in Nat
  BY <1>8
<1>12. w \in Seq(Nat) /\ Len(w) = end /\ DOMAIN w = 1 .. end
  <2>1. w \in [1 .. end -> Nat]
    BY <1>5, <1>9, <1>11
  <2> QED
    BY <1>10, <2>1
<1>13. files' = [files EXCEPT ![s] = w]
  BY <1>1, <1>5, <1>w
<1>14. GuideTypeOK'
  BY <1>1, <1>2, <1>5, <1>7, <1>12, <1>13 DEF GuideTypeOK
<1>15. /\ FirstWhole' = FirstWhole /\ IsFirst(FirstWhole)' /\ FirstWhole \in Whole
       /\ \A i \in Whole : feed'[i] = feed[i] /\ i <= Len(feed)
       /\ \A i \in Whole : TrueQuarter(i)' = TrueQuarter(i)
  BY <1>1, <1>3, <1>6, <1>14, LinesStay
<1>16. FromFirstDay'
  BY <1>1, <1>6, <1>15 DEF FromFirstDay
<1>i. ASSUME NEW r \in Station, InMonth(r)' PROVE FileRight(r)
  <2>1. InMonth(r)
    BY <1>5, <1>15, <1>i DEF InMonth
  <2> QED
    BY <2>1
<1>17. ASSUME NEW r \in Station, r # s, InMonth(r)' PROVE FileRight(r)'
  <2>1. FileRight(r) /\ files'[r] = files[r]
    BY <1>13, <1>17, <1>i DEF GuideTypeOK
  <2>2. feed'[k].station # r
    BY <1>4, <1>5, <1>17
  <2>3. \A p : OnAt(r, p)' = OnAt(r, p)
    BY <1>5, <1>15, <2>2 DEF OnAt
  <2>4. \A p, n : LeadsTo(r, p, n)' <=> LeadsTo(r, p, n)
    BY <2>3 DEF LeadsTo
  <2> QED
    BY <1>5, <1>15, <2>1, <2>2, <2>4 DEF FileRight
<1>18. ASSUME InMonth(s)' PROVE FileRight(s)'
  <2>1. FileRight(s)
    BY <1>18, <1>i
  <2>2. /\ d.month = feed[FirstWhole].date.month /\ d.day >= feed[FirstWhole].date.day
    BY <1>4, <1>5, <1>15, <1>18 DEF InMonth
  <2>3. TrueQuarter(k)' = (d.day - feed[FirstWhole].date.day) * Quarters + start
    <3>1. feed'[k].date = d /\ feed'[k].start = start
      BY <1>4, <1>5
    <3>2. feed'[FirstWhole'] = feed[FirstWhole]
      BY <1>15
    <3> QED
      BY <3>1, <3>2 DEF TrueQuarter, Quarters
  <2>4. from = TrueQuarter(k)'
    <3> DEFINE f == feed[FirstWhole].date
               a == days[d.month]
    <3>1. d.day \in {1, 2} /\ f.day \in {1, 2} /\ a \in {1, 2} /\ f.month = d.month
      <4>1. f \in Date
        BY <1>15, WholeLines DEF FeedLine
      <4>2. d.month \in {1, 2, 3}
        BY DEF Date, days
      <4> QED
        BY <4>1, <4>2, <2>2 DEF Date, days
    <3>2. Date2quart(d) = (a + d.day) * Quarters /\ base = (a + f.day) * Quarters
      BY <1>6, <3>1 DEF Date2quart
    <3>3. TrueQuarter(k)' = (d.day - f.day) * Quarters + start /\ d.day >= f.day
      BY <2>2, <2>3
    <3> HIDE DEF f, a
    <3>4. Date2quart(d) - base = (d.day - f.day) * Quarters
      <4>1. Quarters \in Nat
        BY QuartersFacts
      <4>2. CASE d.day = f.day
        BY <3>2, <4>1, <4>2, <3>1
      <4>3. CASE d.day = 2 /\ f.day = 1
        BY <3>2, <4>1, <4>3, <3>1
      <4> QED
        BY <3>1, <3>3, <4>2, <4>3
    <3>5. (d.day - f.day) * Quarters \in Nat
      <4>1. d.day - f.day \in {0, 1} /\ Quarters \in Nat
        BY <3>1, <3>3, QuartersFacts
      <4> QED
        BY <4>1
    <3>6. from = IF q < 0 THEN at[s] ELSE q
      BY DEF from
    <3>7. q = (d.day - f.day) * Quarters + start
      BY <3>4
    <3> HIDE DEF q
    <3> QED
      BY <1>2, <3>3, <3>5, <3>6, <3>7
  <2>5. \A i \in Whole : i < k /\ i # k
    BY <1>15, <1>k, WholeLines
  <2>t. ASSUME NEW j \in Whole PROVE feed[j].durat \in Nat /\ TrueQuarter(j) \in Int
    <3>1. feed[j] \in FeedLine /\ feed[FirstWhole] \in FeedLine
      BY <1>15, WholeLines
    <3>2. feed[j].date.day \in Int /\ feed[FirstWhole].date.day \in Int
      BY <3>1 DEF FeedLine, Date
    <3> DEFINE days1 == feed[j].date.day - feed[FirstWhole].date.day
    <3>3. days1 \in Int /\ Quarters \in Int /\ feed[j].start \in Nat
      BY <3>1, <3>2, QuartersFacts DEF FeedLine
    <3>4. TrueQuarter(j) = days1 * Quarters + feed[j].start
      BY DEF TrueQuarter
    <3> HIDE DEF days1
    <3>5. TrueQuarter(j) \in Int
      BY <3>3, <3>4
    <3> QED
      BY <3>1, <3>5 DEF FeedLine
  <2>7. FileRight(s)'
    <3>1. FileRight(s) /\ files'[s] = w
      BY <1>13, <2>1 DEF GuideTypeOK
    <3>2. feed'[k].station = s /\ feed'[k].durat = durat
      BY <1>4, <1>5
    <3>3. \A p : OnAt(s, p)' = OnAt(s, p) \cup (IF p \in from .. from + durat - 1 THEN {k} ELSE {})
      <4>1. \A p, i : i \in OnAt(s, p)' <=>
               i \in Whole' /\ feed'[i].station = s
               /\ p \in TrueQuarter(i)' .. TrueQuarter(i)' + feed'[i].durat - 1
        BY DEF OnAt
      <4>2. \A p, i : i \in OnAt(s, p) <=>
               i \in Whole /\ feed[i].station = s
               /\ p \in TrueQuarter(i) .. TrueQuarter(i) + feed[i].durat - 1
        BY DEF OnAt
      <4>3. \A p : \A i \in Whole : i \in OnAt(s, p)' <=> i \in OnAt(s, p)
        BY <1>5, <1>15, <4>1, <4>2
      <4>4. \A p : k \in OnAt(s, p)' <=> p \in from .. from + durat - 1
        BY <1>5, <2>4, <3>2, <4>1
      <4>5. \A p, i : i \in OnAt(s, p) => i \in Whole
        BY <4>2
      <4>6. \A p, i : i \in OnAt(s, p)' => i \in Whole \/ i = k
        BY <1>5, <4>1
      <4>7. ASSUME NEW p, p \in from .. from + durat - 1 PROVE OnAt(s, p)' = OnAt(s, p) \cup {k}
        BY <4>3, <4>4, <4>5, <4>6, <4>7
      <4>8. ASSUME NEW p, p \notin from .. from + durat - 1 PROVE OnAt(s, p)' = OnAt(s, p)
        BY <4>3, <4>4, <4>5, <4>6, <4>8
      <4> QED
        BY <4>7, <4>8
    <3>4. ASSUME NEW i \in 1 .. end PROVE LeadsTo(s, i - 1, w[i])'
      <4>1. CASE i \in from + 1 .. from + durat
        <5>1. w[i] = k /\ i - 1 \in from .. from + durat - 1
          BY <1>2, <1>7, <1>9, <1>10, <4>1
        <5>2. OnAt(s, i - 1)' = OnAt(s, i - 1) \cup {k}
          BY <3>3, <5>1
        <5>3. \A j \in OnAt(s, i - 1) : j <= k
          BY <1>15, <1>k, <1>5, WholeLines DEF OnAt
        <5> QED
          BY <1>5, <5>1, <5>2, <5>3 DEF LeadsTo
      <4>2. CASE i \notin from + 1 .. from + durat
        <5>1. i - 1 \notin from .. from + durat - 1
          BY <1>2, <1>7, <1>10, <4>2
        <5>2. OnAt(s, i - 1)' = OnAt(s, i - 1)
          BY <3>3, <5>1
        <5>3. CASE i \in 1 .. Len(files[s])
          <6>1. w[i] = files[s][i]
            BY <1>9, <4>2, <5>3
          <6>2. LeadsTo(s, i - 1, files[s][i])
            BY <1>8, <3>1, <5>3 DEF FileRight
          <6> QED
            BY <5>2, <6>1, <6>2 DEF LeadsTo
        <5>4. CASE i \notin 1 .. Len(files[s])
          <6>1. w[i] = 0 /\ i > Len(files[s])
            BY <1>8, <1>9, <1>10, <4>2, <5>4
          <6>2. ASSUME NEW j \in OnAt(s, i - 1) PROVE FALSE
            <7>1. /\ j \in Whole /\ feed[j].station = s
                  /\ i - 1 \in TrueQuarter(j) .. TrueQuarter(j) + feed[j].durat - 1
              BY <6>2 DEF OnAt
            <7>2. feed[j].durat \in Nat /\ TrueQuarter(j) \in Int
              BY <2>t, <7>1
            <7>3. i - 1 <= TrueQuarter(j) + feed[j].durat - 1 /\ i - 1 >= TrueQuarter(j)
              BY <7>1, <7>2, <1>10
            <7>4. feed[j].durat > 0
              BY <7>2, <7>3, <1>10
            <7>5. TrueQuarter(j) + feed[j].durat <= Len(files[s])
              BY <3>1, <7>1, <7>4 DEF FileRight
            <7> QED
              BY <1>8, <1>10, <6>1, <7>2, <7>3, <7>5, SMTT(60)
          <6> QED
            BY <5>2, <6>1, <6>2 DEF LeadsTo
        <5> QED
          BY <5>3, <5>4
      <4> QED
        BY <4>1, <4>2
    <3>5. ASSUME NEW i \in Whole', feed'[i].station = s, feed'[i].durat > 0
          PROVE  TrueQuarter(i)' + feed'[i].durat <= end
      <4>1. CASE i = k
        BY <1>10, <2>4, <3>2, <3>5, <4>1
      <4>2. CASE i \in Whole
        <5>1. TrueQuarter(i) + feed[i].durat <= Len(files[s])
          BY <1>15, <3>1, <3>5, <4>2 DEF FileRight
        <5>2. TrueQuarter(i)' + feed'[i].durat <= Len(files[s])
          BY <1>15, <4>2, <5>1
        <5>3. feed'[i].durat \in Nat /\ TrueQuarter(i)' \in Int
          BY <1>15, <2>t, <4>2
        <5> QED
          BY <5>2, <5>3, <1>8, <1>10
      <4> QED
        BY <1>5, <4>1, <4>2
    <3> QED
      BY <1>12, <3>1, <3>4, <3>5 DEF FileRight
  <2> QED
    BY <2>7
<1> QED
  BY <1>14, <1>16, <1>17, <1>18

LEMMA GuideStep == GuideInv /\ [GuideNext]_guideVars => GuideInv'
<1> SUFFICES ASSUME GuideInv, [GuideNext]_guideVars PROVE GuideInv'
  OBVIOUS
<1>1. CASE BadLine
  BY <1>1, GuideBad
<1>2. ASSUME NEW d \in Date, BaseDay(d) PROVE GuideInv'
  BY <1>2, GuideBase
<1>3. ASSUME NEW d \in Date, NEW s \in Station, NEW time \in Time, NEW length \in Time,
             Programme(d, s, time, length)
      PROVE  GuideInv'
  BY <1>3, GuideWrites
<1>4. CASE UNCHANGED guideVars
  <2>1. UNCHANGED <<feed, base, files, at>>
    BY <1>4 DEF guideVars
  <2>2. Whole' = Whole
    BY <2>1 DEF Whole
  <2>3. FirstWhole' = FirstWhole
    BY <2>2 DEF FirstWhole
  <2>4. \A i : TrueQuarter(i)' = TrueQuarter(i)
    BY <2>1, <2>3 DEF TrueQuarter, Quarters
  <2>5. \A s, q : OnAt(s, q)' = OnAt(s, q)
    BY <2>1, <2>2, <2>4 DEF OnAt
  <2>6. \A s, q, n : LeadsTo(s, q, n)' <=> LeadsTo(s, q, n)
    BY <2>5 DEF LeadsTo
  <2>7. \A s : FileRight(s)' <=> FileRight(s)
    BY <2>1, <2>2, <2>4, <2>6 DEF FileRight
  <2>8. GuideTypeOK' /\ FromFirstDay' /\ \A s : InMonth(s)' <=> InMonth(s)
    BY <2>1, <2>2, <2>3 DEF GuideInv, GuideTypeOK, FromFirstDay, InMonth, IsFirst
  <2> QED
    BY <2>7, <2>8 DEF GuideInv
<1> QED
  BY <1>1, <1>2, <1>3, <1>4 DEF GuideNext

LEMMA GuidePromise == GuideInv => GuideFinds
<1> DEFINE Of(s) == {i \in Whole : feed[i].station = s}
           Is(n, S) == n = IF S = {} THEN 0 ELSE CHOOSE j \in S : \A k \in S : k <= j
           Kept(s) == /\ \A i \in DOMAIN files[s] : Is(files[s][i], OnAt(s, i - 1))
                      /\ \A i \in Of(s) : feed[i].durat > 0 =>
                           TrueQuarter(i) + feed[i].durat <= Len(files[s])
           Out(s) == \E i \in Of(s) : \/ feed[i].date.month # feed[FirstWhole].date.month
                                      \/ feed[i].date.day < feed[FirstWhole].date.day
<1>o. \A s, q : OnAt(s, q) =
          {i \in Of(s) : q \in TrueQuarter(i) .. TrueQuarter(i) + feed[i].durat - 1}
  BY DEF OnAt
<1>p. (\A s \in Station : Out(s) \/ Kept(s)) => GuideFinds
  <2> DEFINE On(s, q) == {i \in Of(s) : q \in TrueQuarter(i) .. TrueQuarter(i) + feed[i].durat - 1}
  <2>1. (\A s \in Station : Out(s) \/ (/\ \A i \in DOMAIN files[s] : Is(files[s][i], On(s, i - 1))
                                       /\ \A i \in Of(s) : feed[i].durat > 0 =>
                                           TrueQuarter(i) + feed[i].durat <= Len(files[s])))
        => GuideFinds
    BY DEF GuideFinds, TrueQuarter, FirstWhole
  <2>2. \A s, q : OnAt(s, q) = On(s, q)
    BY <1>o
  <2> HIDE DEF On, Of, Is
  <2> QED
    BY <2>1, <2>2
<1> SUFFICES ASSUME GuideInv, NEW s \in Station, ~Out(s)
             PROVE  Kept(s)
  BY <1>p
<1>1. InMonth(s)
  <2> SUFFICES ASSUME NEW i \in Whole, feed[i].station = s
               PROVE  /\ feed[i].date.month = feed[FirstWhole].date.month
                      /\ feed[i].date.day >= feed[FirstWhole].date.day
    BY DEF InMonth
  <2>1. FirstWhole \in Whole
    <3>1. base # NoBase
      BY DEF GuideInv, FromFirstDay
    <3> QED
      BY <3>1 DEF GuideInv, FromFirstDay, IsFirst
  <2>2. feed[i] \in FeedLine /\ feed[FirstWhole] \in FeedLine
    BY <2>1, WholeLines DEF GuideInv
  <2>3. feed[i].date.day \in Int /\ feed[FirstWhole].date.day \in Int
    BY <2>2 DEF FeedLine, Date
  <2>4. /\ feed[i].date.month = feed[FirstWhole].date.month
        /\ ~(feed[i].date.day < feed[FirstWhole].date.day)
    OBVIOUS
  <2> QED
    BY <2>3, <2>4
<1>2. FileRight(s)
  BY <1>1 DEF GuideInv
<1>3. ASSUME NEW i \in DOMAIN files[s]
      PROVE  files[s][i] = IF OnAt(s, i - 1) = {} THEN 0
                           ELSE CHOOSE j \in OnAt(s, i - 1) : \A k \in OnAt(s, i - 1) : k <= j
  <2> DEFINE On == OnAt(s, i - 1)
             n == files[s][i]
  <2>1. (n = 0 /\ On = {}) \/ (n \in On /\ \A k \in On : k <= n)
    BY <1>2 DEF FileRight, LeadsTo
  <2>2. On \subseteq Nat
    BY WholeLines DEF GuideInv, OnAt
  <2> HIDE DEF On, n
  <2>3. ASSUME n \in On, \A k \in On : k <= n PROVE n = CHOOSE j \in On : \A k \in On : k <= j
    <3>1. \A j \in On : (\A k \in On : k <= j) => j = n
      BY <2>2, <2>3
    <3> QED
      BY <2>3, <3>1
  <2>4. n = IF On = {} THEN 0 ELSE CHOOSE j \in On : \A k \in On : k <= j
    BY <2>1, <2>3
  <2> QED
    BY <2>4 DEF On, n
<1> QED
  BY <1>2, <1>3 DEF FileRight

-----------------------------------------------------------------------------
LEMMA IndexersOfEmu == Spec => MoviesSpec /\ GuideSpec
<1>1. Init => MoviesInit /\ GuideInit
  BY DEF Init
<1>2. [Next]_emuVars => [MoviesNext]_moviesVars /\ [GuideNext]_guideVars
  BY DEF Next, emuVars
<1> QED
  BY <1>1, <1>2, PTL DEF Spec, MoviesSpec, GuideSpec

\* The indexes lead to what was asked for, for a database and a feed of any
\* length and any categories, letters and stations.  Build stops short only at a
\* record that is not whole; entry n of a category is of the film with title n,
\* and if the record of that film is whole its text and its movie are found in it;
\* when build is done no film with a whole record is missing.  While the titles
\* are in order, warp of a letter is one of its titles, and no further from the
\* first than letters have been skipped.  And a quarter of an hour of a channel
\* leads to the last programme of the feed that is on in it, as long as the
\* programmes of that channel stay in one month.
THEOREM IndexesLead == Spec => []IndexesFind
<1>1. MoviesInit => BuildInv /\ WarpInv
  BY BuildStarts, WarpStarts
<1>2. BuildInv /\ WarpInv => FilmsFound
  BY BuildPromise, WarpPromise DEF FilmsFound
<1>3. MoviesSpec => []FilmsFound
  BY <1>1, <1>2, MoviesStep, PTL DEF MoviesSpec
<1>4. GuideSpec => []GuideFinds
  BY GuideStarts, GuideStep, GuidePromise, PTL DEF GuideSpec
<1>5. FilmsFound /\ GuideFinds => IndexesFind
  BY DEF IndexesFind
<1> QED
  BY <1>3, <1>4, <1>5, IndexersOfEmu, PTL

=============================================================================
