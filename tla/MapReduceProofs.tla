--------------------------- MODULE MapReduceProofs ---------------------------
(***************************************************************************)
(* Proofs about MapReduce, for any workers, files, M, R and buffers.       *)
(*                                                                         *)
(* In general: connections have numbers of their own, and a worker that    *)
(* uses its connection has it in the table until another program looks at  *)
(* a ctl file (Base).  While no other program looks, serve() counts right: *)
(* mxcnt is the number of map workers whose names were all sent (Counts),  *)
(* from which it follows that it neither waits nor raises.  When besides   *)
(* no worker is killed, the table is exactly the open and closing          *)
(* connections (Tight), and with one path an end of file is behind the     *)
(* name of every map worker that mapped a file (Flow).                     *)
(***************************************************************************)
EXTENDS MapReduce, FiniteSetTheorems, TLAPS

\* Workers with a connection; the connections of the table.
Given(w) == fd[w] # NoConn
Listed == {conns[i] : i \in DOMAIN conns}

Numbered ==
    /\ \A w \in Worker : Given(w) => fd[w].n < qidseq
    /\ \A v, w \in Worker : Given(v) /\ Given(w) /\ fd[v].n = fd[w].n => v = w
    /\ \A w \in Worker : pc[w] \in {"new", "cloning"} => ~Given(w)
    /\ \A w \in Worker : Open(w) => Given(w)
    /\ \A w \in Worker : Reducer(w) => fd[w].msplit < rcnt

Table ==
    /\ \A i, j \in DOMAIN conns : conns[i] = conns[j] => i = j
    /\ \A i \in DOMAIN conns : \E w \in Worker : Given(w) /\ conns[i] = fd[w]

\* A closing that serve() has to do is of a worker that is gone, its entry is
\* still there, and it is to be done once.
Closing == looked = {} =>
    /\ \A x \in delq : /\ x[1] \in Worker /\ pc[x[1]] = "gone" /\ x[2] = fd[x[1]]
                       /\ x[2] \in Listed /\ x[2] # cur
    /\ cur # NoConn => cur \in Listed /\ \E w \in Worker : pc[w] = "gone" /\ cur = fd[w]
    /\ \A w \in Worker : Open(w) => fd[w] \in Listed

Serving == (cur # NoConn) <=> serve \in {"names", "eofs", "remove"}

Base == TypeOK /\ Numbered /\ Table /\ Closing /\ Serving

-----------------------------------------------------------------------------
\* While no other program looks.

Mappers == {w \in Worker : Mapper(w)}
Reducers == {w \in Worker : Reducer(w)}
\* The names of the map worker's files were all sent.
Sent(m) == \/ fd[m] \notin Listed
           \/ fd[m] = cur /\ serve \in {"eofs", "remove"}
SentMappers == {m \in Mappers : Sent(m)}

\* The most that was ever sent to the reduce worker j.
MostSent(j) ==
    IF serve = "names" THEN 2 * mxcnt + (IF j < slot THEN 1 ELSE 0)
    ELSE IF serve = "eofs" THEN 2 * mxcnt - (IF j < slot THEN 0 ELSE 1)
    ELSE 2 * mxcnt

Counts ==
    /\ looked = {}
    /\ mcnt = Cardinality(Mappers)
    /\ rcnt = Cardinality(Reducers)
    /\ mxcnt = Cardinality(SentMappers)
    /\ serve \in {"names", "eofs"} => cur.wtype = "map"
    /\ \A j \in Slots : Len(rchan[j]) <= MostSent(j)

-----------------------------------------------------------------------------
\* While nobody looks and no worker is killed or reads too early.
Tight == \A w \in Worker :
    Given(w) /\ fd[w] \in Listed => Open(w) \/ <<w, fd[w]>> \in delq \/ fd[w] = cur

\* And there is one path.
IsReducerOf(r, j) == r \in Worker /\ Reducer(r) /\ fd[r].msplit = j

\* The reduce worker j has read the name n, or will before an end of file.
Told(j, n) ==
    \/ \E r \in Worker : IsReducerOf(r, j) /\ n \in got[r]
    \/ \E k \in DOMAIN rchan[j] : rchan[j][k] = n /\ \A l \in 1 .. k - 1 : rchan[j][l] # Eof

EofOut(j) ==
    \/ \E k \in DOMAIN rchan[j] : rchan[j][k] = Eof
    \/ \E r \in Worker : IsReducerOf(r, j) /\ ended[r]

SentTo(m, j) == Sent(m) \/ (serve = "names" /\ fd[m] = cur /\ j < slot)

Mapped == {m \in Mappers : got[m] # {}}

Fresh == \A w \in Worker : ~Given(w) => got[w] = {} /\ ~ended[w]

OneSlotEach == \A r, q \in Reducers : fd[r].msplit = fd[q].msplit => r = q

\* A map worker only ends when its du() has nothing more.
AllOffered == \A m \in Mappers : ended[m] => \A d \in Root : feed[d] = <<>>

NoFileLost == \A d \in Root : \A i \in DOMAIN Tree[d] :
    \/ \E w \in Worker : Tree[d][i] \in got[w]
    \/ \E k \in DOMAIN feed[d] : feed[d][k] = Tree[d][i]

\* An end of file is only sent when all is mapped.
EofLast ==
    (serve = "eofs" \/ \E j \in Slots : EofOut(j)) =>
        (\A d \in Root : feed[d] = <<>>) /\ Mapped \subseteq SentMappers

AllTold == \A m \in Mapped, j \in Slots : SentTo(m, j) => Told(j, fd[m].n)

DoneEmpty == serve = "done" => conns = <<>> /\ rcnt = R

Flow == Fresh /\ OneSlotEach /\ AllOffered /\ NoFileLost /\ EofLast /\ AllTold /\ DoneEmpty
-----------------------------------------------------------------------------
(* Base. *)

Labels == {"new", "cloning", "made", "opened", "ready", "wait", "writing", "closing", "gone"}

LEMMA ConnIsNotNoConn == \A x \in Conns : x # NoConn /\ x.n # -1 /\ x.wtype # "none"
BY DEF Conns, NoConn

LEMMA BaseInit == Init => Base
<1> SUFFICES ASSUME Init PROVE Base
  OBVIOUS
<1>1. TypeOK
  <2>1. 0 \in Slots
    BY MapReduceAssumption DEF Slots
  <2> QED
    BY <2>1, MapReduceAssumption DEF Init, TypeOK
<1>2. Numbered /\ Table /\ Closing /\ Serving
  BY DEF Init, Numbered, Given, Open, Table, Closing, Serving, Reducer, NoConn
<1> QED
  BY <1>1, <1>2 DEF Base

\* A worker that goes on: to nothing that opens a file, unless it was open.
LEMMA PcStep ==
    ASSUME Base, NEW w \in Worker, NEW l \in Labels, Goto(w, l), pc[w] # "gone",
           l \in {"new", "cloning"} => ~Given(w), l \notin {"new", "cloning", "gone"} => Open(w),
           UNCHANGED <<srvVars, delq, fd, looked>>
    PROVE  /\ pc' \in [Worker -> Labels]
           /\ Numbered' /\ Table' /\ Closing' /\ Serving'
<1> USE DEF srvVars
<1>1. pc \in [Worker -> Labels] /\ pc' = [pc EXCEPT ![w] = l] /\ pc' \in [Worker -> Labels]
  BY DEF Base, TypeOK, Goto, Labels
<1>2. \A v \in Worker : pc'[v] = IF v = w THEN l ELSE pc[v]
  BY <1>1
<1>3. \A v \in Worker : Open(v)' => Open(v)
  BY <1>2 DEF Open
<1>4. Numbered'
  BY <1>2, <1>3 DEF Base, Numbered, Given, Reducer
<1>5. Table' /\ Serving'
  BY DEF Base, Table, Serving, Given
<1>6. Closing'
  <2> SUFFICES ASSUME looked = {} PROVE Closing'
    BY DEF Closing
  <2>1. \A v \in Worker : pc[v] = "gone" => pc'[v] = "gone"
    BY <1>2
  <2> QED
    BY <1>3, <2>1 DEF Base, Closing, Listed
<1> QED
  BY <1>1, <1>4, <1>5, <1>6

LEMMA OpenCloneBase == ASSUME Base, NEW w \in Worker, OpenClone(w) PROVE Base'
<1>1. ~Given(w) /\ Goto(w, "cloning")
  BY DEF Base, Numbered, OpenClone
<1>2. Numbered' /\ Table' /\ Closing' /\ Serving' /\ pc' \in [Worker -> Labels]
  BY <1>1, PcStep DEF OpenClone, Labels
<1> QED
  BY <1>2 DEF OpenClone, Base, TypeOK, Labels, srvVars

LEMMA OpenReplyBase == ASSUME Base, NEW w \in Worker, OpenReply(w) PROVE Base'
<1>1. Numbered' /\ Table' /\ Closing' /\ Serving' /\ pc' \in [Worker -> Labels]
  BY PcStep DEF OpenReply, Labels, Open
<1> QED
  BY <1>1 DEF OpenReply, Base, TypeOK, Labels, srvVars

\* The four actions of a worker that only change where it is.
LEMMA OtherPcBase ==
    ASSUME Base, NEW w \in Worker, Read(w) \/ HastyRead(w) \/ Write(w) \/ Die(w) PROVE Base'
<1>1. PICK l \in Labels : /\ Goto(w, l) /\ pc[w] # "gone"
                          /\ l \in {"ready", "wait", "writing", "closing", "gone"}
                          /\ l # "gone" => Open(w)
  BY DEF Read, HastyRead, Write, Die, Labels, Open
<1>2. UNCHANGED <<srvVars, rchan, feed, delq, fd, got, ended, looked>>
  BY DEF Read, HastyRead, Write, Die
<1>3. Numbered' /\ Table' /\ Closing' /\ Serving' /\ pc' \in [Worker -> Labels]
  BY <1>1, <1>2, PcStep
<1> QED
  BY <1>2, <1>3 DEF Base, TypeOK, Labels, srvVars

LEMMA MapperTakesBase ==
    ASSUME Base, NEW w \in Worker, NEW d \in Root, MapperTakes(w, d) PROVE Base'
<1>1. PICK l \in Labels : Goto(w, l) /\ l \in {"ready", "closing"}
  BY DEF MapperTakes, Takes, TakesEof, Labels
<1>2. pc[w] = "wait" /\ UNCHANGED <<srvVars, rchan, delq, fd, looked>>
  BY DEF MapperTakes
<1>3. Numbered' /\ Table' /\ Closing' /\ Serving' /\ pc' \in [Worker -> Labels]
  BY <1>1, <1>2, PcStep DEF Open
<1>4. feed \in [Root -> Seq(Files)] /\ got \in [Worker -> SUBSET (Files \cup Nat)] /\ ended \in [Worker -> BOOLEAN]
  BY DEF Base, TypeOK
<1>5. CASE feed[d] # <<>> /\ Takes(w, Head(feed[d])) /\ feed' = [feed EXCEPT ![d] = Tail(@)]
  <2>1. Head(feed[d]) \in Files /\ Tail(feed[d]) \in Seq(Files)
    BY <1>4, <1>5
  <2>2. feed' \in [Root -> Seq(Files)] /\ got' \in [Worker -> SUBSET (Files \cup Nat)] /\ ended' = ended
    BY <1>4, <1>5, <2>1 DEF Takes
  <2> QED
    BY <1>2, <1>3, <2>2 DEF Base, TypeOK, Labels, srvVars
<1>6. CASE TakesEof(w) /\ UNCHANGED feed
  <2>1. ended' \in [Worker -> BOOLEAN] /\ got' = got
    BY <1>4, <1>6 DEF TakesEof
  <2> QED
    BY <1>2, <1>3, <1>6, <2>1 DEF Base, TypeOK, Labels, srvVars
<1> QED
  BY <1>5, <1>6 DEF MapperTakes

\* The reduce worker's channel is one of the R there are.
LEMMA ReducerSlot ==
    ASSUME Base, NEW r \in Worker, Reducer(r) PROVE fd[r] \in Conns /\ fd[r].msplit \in Slots
<1>1. fd[r] \in Conns
  BY DEF Base, TypeOK, Reducer, NoConn
<1>2. fd[r].msplit \in Nat /\ fd[r].msplit < rcnt /\ rcnt \in 0 .. R
  BY <1>1 DEF Base, TypeOK, Conns, Numbered
<1> QED
  BY <1>1, <1>2, MapReduceAssumption DEF Slots

LEMMA ReducerTakesBase ==
    ASSUME Base, NEW w \in Worker, ReducerTakes(w) PROVE Base'
<1> DEFINE j == fd[w].msplit
<1>1. PICK l \in Labels : Goto(w, l) /\ l \in {"ready", "closing"}
  BY DEF ReducerTakes, Takes, TakesEof, Labels
<1>2. pc[w] = "wait" /\ Reducer(w) /\ UNCHANGED <<srvVars, feed, delq, fd, looked>>
  BY DEF ReducerTakes, Reducer
<1>3. Numbered' /\ Table' /\ Closing' /\ Serving' /\ pc' \in [Worker -> Labels]
  BY <1>1, <1>2, PcStep DEF Open
<1>4. /\ rchan \in [Slots -> Seq(Nat \cup {Eof})] /\ got \in [Worker -> SUBSET (Files \cup Nat)]
      /\ ended \in [Worker -> BOOLEAN] /\ j \in Slots
  BY <1>2, ReducerSlot DEF Base, TypeOK
<1>5. rchan[j] # <<>> /\ rchan' = [rchan EXCEPT ![j] = Tail(@)]
  BY DEF ReducerTakes
<1>6. Head(rchan[j]) \in Nat \cup {Eof} /\ Tail(rchan[j]) \in Seq(Nat \cup {Eof})
  BY <1>4, <1>5
<1>7. rchan' \in [Slots -> Seq(Nat \cup {Eof})]
  BY <1>4, <1>5, <1>6
<1>8. CASE Head(rchan[j]) = Eof
  <2>1. TakesEof(w)
    BY <1>8 DEF ReducerTakes
  <2>2. ended' \in [Worker -> BOOLEAN] /\ got' = got
    BY <1>4, <2>1 DEF TakesEof
  <2> QED
    BY <1>2, <1>3, <1>7, <2>2 DEF Base, TypeOK, Labels, srvVars
<1>9. CASE Head(rchan[j]) # Eof
  <2>1. Takes(w, Head(rchan[j])) /\ Head(rchan[j]) \in Nat
    BY <1>6, <1>9 DEF ReducerTakes
  <2>2. got' \in [Worker -> SUBSET (Files \cup Nat)] /\ ended' = ended
    BY <1>4, <2>1 DEF Takes
  <2> QED
    BY <1>2, <1>3, <1>7, <2>2 DEF Base, TypeOK, Labels, srvVars
<1> QED
  BY <1>8, <1>9

\* A new connection, of either kind.
LEMMA NewConnBase ==
    ASSUME Base, serve = "alt", NEW w \in Worker, pc[w] = "cloning",
           NEW t \in {"map", "reduce"}, NEW k \in Nat, NewConn(w, [n |-> Number, wtype |-> t, msplit |-> k]),
           mcnt' \in 0 .. M, rcnt' \in 0 .. R, mcnt' + rcnt' = qidseq + 1, rcnt' >= rcnt,
           t = "reduce" => k < rcnt',
           UNCHANGED <<cur, slot, mxcnt, rchan, feed, delq, got, ended, looked>>
    PROVE  Base'
<1> DEFINE c == [n |-> Number, wtype |-> t, msplit |-> k]
<1>1. qidseq \in Nat /\ c \in Conns /\ c.n = qidseq /\ c # NoConn /\ c.wtype = t /\ c.msplit = k
  <2>1. qidseq \in Nat
    BY MapReduceAssumption DEF Base, TypeOK
  <2> QED
    BY <2>1 DEF Number, Conns, NoConn
<1> HIDE DEF c
<1>2. /\ conns' = Append(conns, c) /\ fd' = [fd EXCEPT ![w] = c] /\ qidseq' = qidseq + 1
      /\ pc' = [pc EXCEPT ![w] = "made"] /\ serve' = serve
  BY DEF NewConn, Goto, c
<1>3. conns \in Seq(Conns) /\ fd \in [Worker -> Conns \cup {NoConn}] /\ pc \in [Worker -> Labels]
  BY DEF Base, TypeOK, Labels
<1>4. /\ conns' \in Seq(Conns) /\ DOMAIN conns' = 1 .. Len(conns) + 1 /\ conns'[Len(conns) + 1] = c
      /\ \A i \in DOMAIN conns : i \in 1 .. Len(conns) /\ conns'[i] = conns[i] /\ i # Len(conns) + 1
      /\ \A i \in 1 .. Len(conns) : i \in DOMAIN conns
  BY <1>1, <1>2, <1>3
<1>5. fd' \in [Worker -> Conns \cup {NoConn}] /\ \A v \in Worker : fd'[v] = IF v = w THEN c ELSE fd[v]
  BY <1>1, <1>2, <1>3
<1>6. pc' \in [Worker -> Labels] /\ \A v \in Worker : pc'[v] = IF v = w THEN "made" ELSE pc[v]
  BY <1>2, <1>3 DEF Labels
<1>7. TypeOK'
  BY <1>2, <1>4, <1>5, <1>6 DEF Base, TypeOK, Labels
<1>8. ~Given(w)
  BY DEF Base, Numbered
<1>9. \A v \in Worker : Given(v) => fd[v].n \in Nat /\ fd[v].n < qidseq /\ v # w
  BY <1>3, <1>8 DEF Given, Base, Numbered, Conns
<1>10. Numbered'
  <2>1. ASSUME NEW v \in Worker, Given(v)' PROVE fd'[v].n < qidseq'
    <3>0. qidseq \in Nat /\ qidseq' = qidseq + 1
      BY <1>1, <1>2
    <3>1. CASE v = w
      <4>1. fd'[v].n = qidseq
        BY <1>1, <1>5, <3>1
      <4> QED
        BY <3>0, <4>1
    <3>2. CASE v # w
      <4>1. fd'[v] = fd[v] /\ Given(v)
        BY <1>5, <2>1, <3>2 DEF Given
      <4> QED
        BY <1>9, <3>0, <4>1
    <3> QED
      BY <3>1, <3>2
  <2>2. \A u, v \in Worker : Given(u)' /\ Given(v)' /\ fd'[u].n = fd'[v].n => u = v
    BY <1>1, <1>5, <1>9 DEF Given, Base, Numbered
  <2>3. \A v \in Worker : pc'[v] \in {"new", "cloning"} => ~Given(v)'
    BY <1>5, <1>6 DEF Given, Base, Numbered
  <2>4. \A v \in Worker : Open(v)' => Given(v)'
    BY <1>1, <1>5, <1>6 DEF Given, Base, Numbered, Open
  <2>5. \A v \in Worker : Reducer(v)' => fd'[v].msplit < rcnt'
    <3>1. \A v \in Worker : Reducer(v) => fd[v].msplit \in Nat /\ fd[v].msplit < rcnt /\ rcnt \in Nat
      BY <1>3, MapReduceAssumption DEF Reducer, Base, Numbered, TypeOK, Conns, NoConn
    <3> QED
      BY <1>1, <1>5, <3>1, MapReduceAssumption DEF Reducer
  <2> QED
    BY <2>1, <2>2, <2>3, <2>4, <2>5 DEF Numbered
<1>11. \A i \in DOMAIN conns : conns[i] # c
  <2>1. \A i \in DOMAIN conns : \E v \in Worker : Given(v) /\ conns[i] = fd[v]
    BY DEF Base, Table
  <2> QED
    BY <1>1, <1>9, <2>1
<1>12. Table'
  <2>1. ASSUME NEW i \in DOMAIN conns', NEW j \in DOMAIN conns', conns'[i] = conns'[j] PROVE i = j
    BY <1>4, <1>11, <2>1, SMTT(60) DEF Base, Table
  <2>2. ASSUME NEW i \in DOMAIN conns' PROVE \E v \in Worker : Given(v)' /\ conns'[i] = fd'[v]
    <3>1. CASE i = Len(conns) + 1
      BY <1>1, <1>4, <1>5, <3>1 DEF Given
    <3>2. CASE i # Len(conns) + 1
      <4>1. i \in DOMAIN conns /\ conns'[i] = conns[i]
        BY <1>4, <3>2
      <4>2. PICK v \in Worker : Given(v) /\ conns[i] = fd[v]
        BY <4>1 DEF Base, Table
      <4> QED
        BY <1>5, <1>9, <4>1, <4>2 DEF Given
    <3> QED
      BY <3>1, <3>2
  <2> QED
    BY <2>1, <2>2 DEF Table
<1>13. Listed' = Listed \cup {c}
  BY <1>4 DEF Listed
<1>14. Closing'
  <2> SUFFICES ASSUME looked = {} PROVE Closing'
    BY DEF Closing
  <2>1. ASSUME NEW v \in Worker, pc[v] = "gone" PROVE v # w /\ pc'[v] = "gone" /\ fd'[v] = fd[v]
    BY <1>5, <1>6, <2>1
  <2>2. ASSUME NEW v \in Worker, Open(v)' PROVE fd'[v] \in Listed'
    BY <1>5, <1>6, <1>13, <2>2 DEF Open, Base, Closing
  <2> QED
    BY <1>13, <2>1, <2>2 DEF Base, Closing
<1> QED
  BY <1>2, <1>7, <1>10, <1>12, <1>14 DEF Base, Serving

LEMMA MakeConnBase == ASSUME Base, NEW w \in Worker, MakeConn(w) PROVE Base'
<1>1. mcnt \in 0 .. M /\ rcnt \in 0 .. R /\ qidseq = mcnt + rcnt /\ M \in Nat /\ R \in Nat
  BY MapReduceAssumption DEF Base, TypeOK
<1>2. /\ serve = "alt" /\ pc[w] = "cloning"
      /\ UNCHANGED <<cur, slot, mxcnt, rchan, feed, delq, got, ended, looked>>
  BY DEF MakeConn
<1>3. CASE /\ mcnt < M
           /\ NewConn(w, [n |-> Number, wtype |-> "map", msplit |-> mcnt])
           /\ mcnt' = mcnt + 1 /\ UNCHANGED rcnt
  <2>1. mcnt' + rcnt' = qidseq + 1 /\ mcnt' \in 0 .. M /\ rcnt' \in 0 .. R /\ rcnt' >= rcnt /\ mcnt \in Nat
    BY <1>1, <1>3 DEF NewConn
  <2> QED
    BY <1>2, <1>3, <2>1, NewConnBase
<1>4. CASE /\ mcnt >= M /\ rcnt < R
           /\ NewConn(w, [n |-> Number, wtype |-> "reduce", msplit |-> rcnt])
           /\ rcnt' = rcnt + 1 /\ UNCHANGED mcnt
  <2>1. /\ mcnt' + rcnt' = qidseq + 1 /\ mcnt' \in 0 .. M /\ rcnt' \in 0 .. R /\ rcnt' >= rcnt /\ rcnt \in Nat
        /\ rcnt < rcnt'
    BY <1>1, <1>4 DEF NewConn
  <2> QED
    BY <1>2, <1>4, <2>1, NewConnBase
<1>5. CASE serve' = "dead" /\ UNCHANGED <<conns, fd, qidseq, pc, mcnt, rcnt>>
  <2>1. cur = NoConn
    BY <1>2 DEF Base, Serving
  <2> QED
    BY <1>2, <1>5, <2>1 DEF Base, TypeOK, Numbered, Given, Open, Reducer, Table, Closing, Listed, Serving
<1> QED
  BY <1>3, <1>4, <1>5 DEF MakeConn

LEMMA ClunkBase == ASSUME Base, NEW w \in Worker, Clunk(w) PROVE Base'
<1>1. Goto(w, "gone") /\ Open(w) /\ UNCHANGED <<srvVars, rchan, feed, fd, got, ended, looked>>
  BY DEF Clunk, Open
<1>2. Given(w) /\ fd[w] \in Conns
  BY <1>1 DEF Base, Numbered, Given, TypeOK
<1>3. delq' = delq \/ delq' = delq \cup {<<w, fd[w]>>}
  BY DEF Clunk
<1>4. pc' \in [Worker -> Labels] /\ \A v \in Worker : pc'[v] = IF v = w THEN "gone" ELSE pc[v]
  BY <1>1 DEF Goto, Base, TypeOK, Labels
<1>5. TypeOK'
  BY <1>1, <1>2, <1>3, <1>4 DEF Base, TypeOK, Labels, srvVars
<1>6. \A v \in Worker : Open(v)' => Open(v)
  BY <1>4 DEF Open
<1>7. Numbered' /\ Table' /\ Serving'
  BY <1>1, <1>4, <1>6 DEF Base, Numbered, Given, Reducer, Table, Serving, srvVars
<1>8. Closing'
  <2> SUFFICES ASSUME looked = {} PROVE Closing'
    BY <1>1 DEF Closing
  <2>1. Listed' = Listed /\ cur' = cur /\ fd' = fd /\ fd[w] \in Listed
    BY <1>1 DEF Listed, srvVars, Base, Closing
  <2>2. ASSUME NEW v \in Worker, pc[v] = "gone" PROVE v # w /\ pc'[v] = "gone" /\ (Given(v) => fd[v] # fd[w])
    BY <1>1, <1>2, <1>4, <2>2 DEF Base, Numbered, Open
  <2>3. fd[w] # cur
    BY <1>2, <2>2 DEF Base, Closing, Given
  <2>4. ASSUME NEW x \in delq'
        PROVE  /\ x[1] \in Worker /\ pc'[x[1]] = "gone" /\ x[2] = fd'[x[1]]
               /\ x[2] \in Listed' /\ x[2] # cur'
    <3>1. CASE x \in delq
      BY <2>1, <2>2, <3>1 DEF Base, Closing
    <3>2. CASE x = <<w, fd[w]>>
      BY <1>4, <2>1, <2>3, <3>2
    <3> QED
      BY <1>3, <3>1, <3>2
  <2>5. cur' # NoConn => cur' \in Listed' /\ \E v \in Worker : pc'[v] = "gone" /\ cur' = fd'[v]
    BY <2>1, <2>2 DEF Base, Closing
  <2>6. \A v \in Worker : Open(v)' => fd'[v] \in Listed'
    BY <1>6, <2>1 DEF Base, Closing
  <2> QED
    BY <2>4, <2>5, <2>6 DEF Closing
<1> QED
  BY <1>5, <1>7, <1>8 DEF Base

LEMMA StatCtlBase == ASSUME Base, NEW o \in Observer, StatCtl(o) PROVE Base'
<1>1. looked' = looked \cup {o} /\ UNCHANGED <<srvVars, rchan, feed, pc, fd, got, ended>>
  BY DEF StatCtl
<1>2. PICK i \in DOMAIN conns : delq' = delq \cup {<<o, conns[i]>>}
  BY DEF StatCtl
<1>3. conns[i] \in Conns
  BY DEF Base, TypeOK
<1>4. delq' \subseteq (Worker \cup Observer) \X Conns /\ looked' \subseteq Observer
  BY <1>1, <1>2, <1>3 DEF Base, TypeOK
<1>5. looked' # {}
  BY <1>1
<1> QED
  BY <1>1, <1>4, <1>5 DEF Base, TypeOK, Numbered, Given, Open, Reducer, Table, Closing, Listed, Serving, srvVars

LEMMA DelconnBase == ASSUME Base, NEW x \in delq, Delconn(x) PROVE Base'
<1>1. /\ serve = "alt" /\ delq' = delq \ {x} /\ cur' = x[2] /\ slot' = 0
      /\ serve' = IF x[2].wtype = "map" THEN "names" ELSE "remove"
      /\ UNCHANGED <<conns, counters, rchan, feed, pc, fd, got, ended, looked>>
  BY DEF Delconn
<1>2. x[2] \in Conns /\ x[2] # NoConn /\ x = <<x[1], x[2]>> /\ 0 \in Slots
  BY ConnIsNotNoConn, MapReduceAssumption DEF Base, TypeOK, Slots
<1>3. TypeOK'
  BY <1>1, <1>2 DEF Base, TypeOK, counters
<1>4. Numbered' /\ Table' /\ Serving'
  BY <1>1, <1>2 DEF Base, Numbered, Given, Reducer, Table, Serving, Open, counters
<1>5. Closing'
  <2> SUFFICES ASSUME looked = {} PROVE Closing'
    BY <1>1 DEF Closing
  <2>1. Listed' = Listed /\ fd' = fd /\ pc' = pc
    BY <1>1 DEF Listed
  <2>2. x[1] \in Worker /\ pc[x[1]] = "gone" /\ x[2] = fd[x[1]] /\ x[2] \in Listed
    BY DEF Base, Closing
  <2>3. ASSUME NEW y \in delq' PROVE y[2] # cur'
    <3>1. y \in delq /\ y # x
      BY <1>1
    <3>2. y[1] \in Worker /\ y[2] = fd[y[1]] /\ y[2] # NoConn /\ y = <<y[1], y[2]>>
      BY <3>1, ConnIsNotNoConn DEF Base, Closing, TypeOK
    <3>3. CASE y[2] = x[2]
      <4>1. y[1] = x[1]
        BY <2>2, <3>2, <3>3 DEF Base, Numbered, Given
      <4> QED
        BY <1>2, <3>1, <3>2, <3>3, <4>1
    <3> QED
      BY <1>1, <3>3
  <2> QED
    BY <1>1, <2>1, <2>2, <2>3 DEF Base, Closing, Open
<1> QED
  BY <1>3, <1>4, <1>5 DEF Base

\* A message to the reduce worker slot.
LEMMA SendTypes ==
    ASSUME Base, NEW x \in Nat \cup {Eof}, Send(x)
    PROVE  /\ rchan' \in [Slots -> Seq(Nat \cup {Eof})] /\ rchan'[slot] = Append(rchan[slot], x)
           /\ \A j \in Slots : j # slot => rchan'[j] = rchan[j]
           /\ slot \in Slots /\ rchan[slot] \in Seq(Nat \cup {Eof})
BY DEF Base, TypeOK, Send

LEMMA SendBase ==
    ASSUME Base, SendName \/ SendEof PROVE Base'
<1>1. cur # NoConn /\ cur \in Conns
  BY DEF Base, Serving, TypeOK, SendName, SendEof
<1>2. cur.n \in Nat
  BY <1>1 DEF Conns
<1>3. rchan' \in [Slots -> Seq(Nat \cup {Eof})]
  BY <1>2, SendTypes DEF SendName, SendEof
<1>4. slot' \in Slots
  BY MapReduceAssumption DEF Base, TypeOK, Slots, SendName, SendEof
<1>5. mxcnt' \in Nat /\ serve' \in {"names", "eofs", "remove"}
  BY DEF Base, TypeOK, SendName, SendEof, counters
<1>6. UNCHANGED <<cur, conns, mcnt, rcnt, qidseq, feed, delq, pc, fd, got, ended, looked>>
  BY DEF SendName, SendEof, counters
<1> QED
  BY <1>1, <1>3, <1>4, <1>5, <1>6, SMTT(60)
  DEF Base, TypeOK, Numbered, Given, Open, Reducer, Table, Closing, Listed, Serving

\* Moving the last entry into the hole takes one entry away and no other.
LEMMA KeptOne ==
    ASSUME Base, NEW k \in DOMAIN conns, conns' = Kept(k)
    PROVE  /\ conns' \in Seq(Conns) /\ Len(conns') = Len(conns) - 1 /\ Listed' = Listed \ {conns[k]}
           /\ \A i, j \in DOMAIN conns' : conns'[i] = conns'[j] => i = j
<1> DEFINE n == Len(conns)
<1>1. conns \in Seq(Conns) /\ n \in Nat /\ n > 0 /\ DOMAIN conns = 1 .. n /\ n \in DOMAIN conns
  BY DEF Base, TypeOK
<1>2. /\ conns' \in Seq(Conns) /\ DOMAIN conns' = 1 .. n - 1 /\ Len(conns') = n - 1
      /\ \A i \in 1 .. n - 1 : conns'[i] = IF i = k THEN conns[n] ELSE conns[i]
  BY <1>1 DEF Kept
<1>3. \A i, j \in 1 .. n : conns[i] = conns[j] => i = j
  BY <1>1 DEF Base, Table
<1> HIDE DEF n
<1>4. \A i \in 1 .. n - 1 : i \in 1 .. n /\ i # n
  BY <1>1
<1>5. \A i, j \in DOMAIN conns' : conns'[i] = conns'[j] => i = j
  BY <1>1, <1>2, <1>3, <1>4
<1>6. ASSUME NEW x \in Listed' PROVE x \in Listed \ {conns[k]}
  <2>1. PICK i \in 1 .. n - 1 : x = conns'[i]
    BY <1>2 DEF Listed
  <2> QED
    BY <1>1, <1>2, <1>3, <1>4, <2>1 DEF Listed
<1>7. ASSUME NEW x \in Listed, x # conns[k] PROVE x \in Listed'
  <2>1. PICK i \in 1 .. n : x = conns[i] /\ i # k
    BY <1>1, <1>7 DEF Listed
  <2>2. CASE i = n
    <3>1. k \in 1 .. n - 1
      BY <1>1, <2>1, <2>2
    <3> QED
      BY <1>2, <2>1, <2>2, <3>1 DEF Listed
  <2>3. CASE i # n
    <3>1. i \in 1 .. n - 1
      BY <1>1, <2>1, <2>3
    <3> QED
      BY <1>2, <2>1, <3>1 DEF Listed
  <2> QED
    BY <2>2, <2>3
<1> QED
  BY <1>2, <1>5, <1>6, <1>7 DEF n

\* Which entry Remove takes: cur's, if there is one.
LEMMA RemoveTakes ==
    ASSUME Base, Remove, conns # <<>>
    PROVE  \E k \in DOMAIN conns : conns' = Kept(k) /\ (cur \in Listed => conns[k] = cur)
<1>1. conns \in Seq(Conns) /\ Len(conns) \in DOMAIN conns
  BY DEF Base, TypeOK
<1> QED
  BY <1>1 DEF Remove, Listed

LEMMA RemoveBase == ASSUME Base, Remove PROVE Base'
<1>1. /\ serve' \in {"dead", "done", "alt"} /\ cur' = NoConn
      /\ UNCHANGED <<slot, counters, rchan, feed, delq, pc, fd, got, ended, looked>>
  BY DEF Remove
<1>2. CASE conns = <<>>
  <2>1. conns' = conns
    BY <1>2 DEF Remove
  <2> QED
    BY <1>1, <2>1 
    DEF Base, TypeOK, Numbered, Given, Open, Reducer, Table, Closing, Listed, Serving, counters
<1>3. CASE conns # <<>>
  <2>1. PICK k \in DOMAIN conns : conns' = Kept(k) /\ (cur \in Listed => conns[k] = cur)
    BY <1>3, RemoveTakes
  <2>2. conns' \in Seq(Conns) /\ Listed' = Listed \ {conns[k]}
        /\ \A i, j \in DOMAIN conns' : conns'[i] = conns'[j] => i = j
    BY <2>1, KeptOne
  <2>3. TypeOK'
    BY <1>1, <2>2 DEF Base, TypeOK, counters
  <2>4. Numbered' /\ Serving'
    BY <1>1 DEF Base, Numbered, Given, Open, Reducer, Serving, counters
  <2>5. Table'
    <3>1. \A x \in Listed : \E w \in Worker : Given(w) /\ x = fd[w]
      BY DEF Listed, Base, Table
    <3>2. \A i \in DOMAIN conns' : conns'[i] \in Listed
      BY <2>2 DEF Listed
    <3>3. \A i \in DOMAIN conns' : \E w \in Worker : Given(w)' /\ conns'[i] = fd'[w]
      BY <1>1, <3>1, <3>2 DEF Given
    <3> QED
      BY <2>2, <3>3 DEF Table
  <2>6. Closing'
    <3> SUFFICES ASSUME looked = {} PROVE Closing'
      BY <1>1 DEF Closing
    <3>1. cur # NoConn
      BY DEF Base, Serving, Remove
    <3>2. conns[k] = cur
      BY <2>1, <3>1 DEF Base, Closing
    <3>3. PICK v \in Worker : pc[v] = "gone" /\ cur = fd[v]
      BY <3>1 DEF Base, Closing
    <3>4. ASSUME NEW w \in Worker, Open(w) PROVE fd[w] # cur
      BY <3>1, <3>3, <3>4 DEF Base, Numbered, Given, Open
    <3>5. \A x \in delq : x[2] \in Listed'
      BY <2>2, <3>2 DEF Base, Closing
    <3>6. \A x \in delq : x[2] # NoConn
      BY ConnIsNotNoConn DEF Base, TypeOK
    <3> QED
      BY <1>1, <2>2, <3>2, <3>4, <3>5, <3>6 DEF Base, Closing, Open
  <2> QED
    BY <2>3, <2>4, <2>5, <2>6 DEF Base
<1> QED
  BY <1>2, <1>3

LEMMA BaseStep == Base /\ [Next]_vars => Base'
<1> SUFFICES ASSUME Base, [Next]_vars PROVE Base'
  OBVIOUS
<1>1. ASSUME NEW w \in Worker, WorkerStep(w) \/ HastyRead(w) \/ Write(w) \/ Die(w) PROVE Base'
  BY <1>1, OpenCloneBase, MakeConnBase, OpenReplyBase, OtherPcBase, ReducerTakesBase, ClunkBase, MapperTakesBase
  DEF WorkerStep
<1>2. ASSUME NEW o \in Observer, StatCtl(o) PROVE Base'
  BY <1>2, StatCtlBase
<1>3. CASE ServeStep
  BY <1>3, SendBase, RemoveBase, DelconnBase DEF ServeStep
<1>4. CASE UNCHANGED vars
  BY <1>4 DEF Base, TypeOK, Numbered, Given, Open, Reducer, Table, Closing, Listed, Serving, vars, srvVars
<1> QED
  BY <1>1, <1>2, <1>3, <1>4 DEF Next, Exited

\* A worker that has the file open finds its connection in the table, whoever
\* is killed, until another program has looked at a ctl file.
THEOREM MasterKeepsLive == Spec => []LiveConnsListed
<1>1. Init => Base
  BY BaseInit
<1>2. Base /\ [Next]_vars => Base'
  BY BaseStep
<1>3. Base => LiveConnsListed
  BY DEF Base, Closing, LiveConnsListed, Listed
<1> QED
  BY <1>1, <1>2, <1>3, PTL DEF Spec

\* qidseq numbers every connection differently, however many come and go.
THEOREM MasterNumbers == Spec => []UniqueConn
<1>1. Init => Base
  BY BaseInit
<1>2. Base /\ [Next]_vars => Base'
  BY BaseStep
<1>3. Base => UniqueConn
  <2> SUFFICES ASSUME Base, NEW v \in Worker, NEW w \in Worker, v # w, fd[v] # NoConn
               PROVE  fd[v].n # fd[w].n
    BY DEF UniqueConn
  <2>1. CASE Given(w)
    BY <2>1 DEF Base, Numbered, Given
  <2>2. CASE ~Given(w)
    <3>1. fd[w].n = -1 /\ fd[v] \in Conns
      BY <2>2 DEF Given, NoConn, Base, TypeOK
    <3> QED
      BY <3>1, ConnIsNotNoConn
  <2> QED
    BY <2>1, <2>2
<1> QED
  BY <1>1, <1>2, <1>3, PTL DEF Spec

-----------------------------------------------------------------------------
(* Counts. *)

LEMMA MappersFinite ==
    /\ IsFiniteSet(Mappers) /\ IsFiniteSet(Reducers) /\ IsFiniteSet(SentMappers)
    /\ Cardinality(Mappers) \in Nat /\ Cardinality(Reducers) \in Nat /\ Cardinality(SentMappers) \in Nat
<1>1. IsFiniteSet(Mappers) /\ IsFiniteSet(Reducers)
  BY MapReduceAssumption, FS_Subset DEF Mappers, Reducers
<1>2. IsFiniteSet(SentMappers)
  BY <1>1, FS_Subset DEF SentMappers
<1> QED
  BY <1>1, <1>2, FS_CardinalityType

LEMMA CountsInit == Init => Counts
<1> SUFFICES ASSUME Init PROVE Counts
  OBVIOUS
<1>1. Mappers = {} /\ Reducers = {} /\ SentMappers = {}
  BY DEF Init, Mappers, Reducers, SentMappers, Mapper, Reducer, NoConn
<1>2. Cardinality({}) = 0
  BY FS_EmptySet
<1>3. \A j \in Slots : Len(rchan[j]) = 0 /\ MostSent(j) = 0
  BY DEF Init, MostSent
<1> QED
  BY <1>1, <1>2, <1>3 DEF Counts, Init

\* A step that leaves the connections and serve() alone.
LEMMA CountsKept ==
    ASSUME Counts, UNCHANGED <<serve, cur, slot, conns, mcnt, rcnt, mxcnt, fd, looked>>,
           \A j \in Slots : Len(rchan'[j]) <= Len(rchan[j]),
           \A j \in Slots : Len(rchan'[j]) \in Nat /\ Len(rchan[j]) \in Nat /\ MostSent(j) \in Int
    PROVE  Counts'
<1>1. Mappers' = Mappers /\ Reducers' = Reducers
  BY DEF Mappers, Reducers, Mapper, Reducer
<1>2. SentMappers' = SentMappers
  BY <1>1 DEF SentMappers, Sent, Listed
<1>3. \A j \in Slots : MostSent(j)' = MostSent(j)
  BY DEF MostSent
<1>4. \A j \in Slots : Len(rchan'[j]) <= MostSent(j)'
  BY <1>3 DEF Counts
<1> QED
  BY <1>1, <1>2, <1>4 DEF Counts

LEMMA MostSentType == ASSUME Base, NEW j \in Slots PROVE MostSent(j) \in Int /\ Len(rchan[j]) \in Nat
BY DEF Base, TypeOK, MostSent

LEMMA NewConnCounts ==
    ASSUME Base, Counts, serve = "alt", NEW w \in Worker, pc[w] = "cloning",
           NEW t \in {"map", "reduce"}, NEW k \in Nat, NewConn(w, [n |-> Number, wtype |-> t, msplit |-> k]),
           mcnt' = mcnt + (IF t = "map" THEN 1 ELSE 0), rcnt' = rcnt + (IF t = "map" THEN 0 ELSE 1),
           UNCHANGED <<cur, slot, mxcnt, rchan, feed, delq, got, ended, looked>>
    PROVE  Counts'
<1> DEFINE c == [n |-> Number, wtype |-> t, msplit |-> k]
<1>1. qidseq \in Nat /\ c \in Conns /\ c.n = qidseq /\ c # NoConn /\ c.wtype = t
  <2>1. qidseq \in Nat
    BY MapReduceAssumption DEF Base, TypeOK
  <2> QED
    BY <2>1 DEF Number, Conns, NoConn
<1> HIDE DEF c
<1>2. /\ conns' = Append(conns, c) /\ fd' = [fd EXCEPT ![w] = c] /\ serve' = serve
  BY DEF NewConn, Goto, c
<1>3. conns \in Seq(Conns) /\ fd \in [Worker -> Conns \cup {NoConn}]
  BY DEF Base, TypeOK
<1>4. Listed' = Listed \cup {c}
  <2>1. /\ DOMAIN conns' = 1 .. Len(conns) + 1 /\ conns'[Len(conns) + 1] = c
        /\ \A i \in 1 .. Len(conns) : conns'[i] = conns[i] /\ i # Len(conns) + 1
        /\ DOMAIN conns = 1 .. Len(conns) /\ Len(conns) \in Nat
    BY <1>1, <1>2, <1>3
  <2> QED
    BY <2>1 DEF Listed
<1>5. \A v \in Worker : fd'[v] = IF v = w THEN c ELSE fd[v]
  BY <1>1, <1>2, <1>3
<1>6. ~Given(w)
  BY DEF Base, Numbered
<1>7. \A v \in Worker : Given(v) => fd[v].n \in Nat /\ fd[v].n < qidseq /\ v # w
  BY <1>3, <1>6 DEF Given, Base, Numbered, Conns
<1>8. \A v \in Worker : Mapper(v) \/ Reducer(v) => Given(v) /\ fd[v] # c
  BY <1>1, <1>7 DEF Mapper, Reducer, Given, NoConn
<1>9. SentMappers' = SentMappers
  <2>1. ASSUME NEW v \in Worker, v # w PROVE v \in SentMappers' <=> v \in SentMappers
    BY <1>2, <1>4, <1>5, <1>8, <2>1 DEF SentMappers, Mappers, Mapper, Sent
  <2>2. w \notin SentMappers
    BY <1>8, <1>7 DEF SentMappers, Mappers
  <2>3. w \notin SentMappers'
    BY <1>2, <1>4, <1>5 DEF SentMappers, Mappers, Sent
  <2>4. SentMappers \subseteq Worker /\ SentMappers' \subseteq Worker
    BY DEF SentMappers, Mappers
  <2> QED
    BY <2>1, <2>2, <2>3, <2>4
<1>10. \A j \in Slots : MostSent(j)' = MostSent(j)
  BY <1>2 DEF MostSent
<1>11. CASE t = "map"
  <2>1. Mappers' = Mappers \cup {w} /\ w \notin Mappers /\ Reducers' = Reducers
    BY <1>1, <1>5, <1>7, <1>8, <1>11 DEF Mappers, Mapper, Reducers, Reducer
  <2>2. Cardinality(Mappers') = Cardinality(Mappers) + 1
    BY <2>1, MappersFinite, FS_AddElement
  <2> QED
    BY <1>2, <1>9, <1>10, <1>11, <2>1, <2>2, MapReduceAssumption, SMTT(60) DEF Counts, Base, TypeOK
<1>12. CASE t = "reduce"
  <2>1. Reducers' = Reducers \cup {w} /\ w \notin Reducers /\ Mappers' = Mappers
    BY <1>1, <1>5, <1>7, <1>8, <1>12 DEF Mappers, Mapper, Reducers, Reducer
  <2>2. Cardinality(Reducers') = Cardinality(Reducers) + 1
    BY <2>1, MappersFinite, FS_AddElement
  <2> QED
    BY <1>2, <1>9, <1>10, <1>12, <2>1, <2>2, MapReduceAssumption DEF Counts, Base, TypeOK
<1> QED
  BY <1>11, <1>12

LEMMA MakeConnCounts == ASSUME Base, Counts, NEW w \in Worker, MakeConn(w) PROVE Counts'
<1>1. mcnt \in Nat /\ rcnt \in Nat
  BY MapReduceAssumption DEF Base, TypeOK
<1>2. /\ serve = "alt" /\ pc[w] = "cloning"
      /\ UNCHANGED <<cur, slot, mxcnt, rchan, feed, delq, got, ended, looked>>
  BY DEF MakeConn
<1>3. CASE /\ mcnt < M
           /\ NewConn(w, [n |-> Number, wtype |-> "map", msplit |-> mcnt])
           /\ mcnt' = mcnt + 1 /\ UNCHANGED rcnt
  BY <1>1, <1>2, <1>3, NewConnCounts
<1>4. CASE /\ mcnt >= M /\ rcnt < R
           /\ NewConn(w, [n |-> Number, wtype |-> "reduce", msplit |-> rcnt])
           /\ rcnt' = rcnt + 1 /\ UNCHANGED mcnt
  BY <1>1, <1>2, <1>4, NewConnCounts
<1>5. CASE serve' = "dead" /\ UNCHANGED <<conns, fd, qidseq, pc, mcnt, rcnt>>
  <2>1. Mappers' = Mappers /\ Reducers' = Reducers
    BY <1>5 DEF Mappers, Reducers, Mapper, Reducer
  <2>2. SentMappers' = SentMappers
    BY <1>2, <1>5, <2>1 DEF SentMappers, Sent, Listed
  <2>3. \A j \in Slots : MostSent(j)' = MostSent(j)
    BY <1>2, <1>5 DEF MostSent
  <2> QED
    BY <1>2, <1>5, <2>1, <2>2, <2>3 DEF Counts
<1> QED
  BY <1>3, <1>4, <1>5 DEF MakeConn

LEMMA DelconnCounts == ASSUME Base, Counts, NEW x \in delq, Delconn(x) PROVE Counts'
<1>1. /\ serve = "alt" /\ cur' = x[2] /\ slot' = 0
      /\ serve' = IF x[2].wtype = "map" THEN "names" ELSE "remove"
      /\ UNCHANGED <<conns, mcnt, rcnt, mxcnt, rchan, fd, looked>>
  BY DEF Delconn, counters
<1>2. Mappers' = Mappers /\ Reducers' = Reducers
  BY <1>1 DEF Mappers, Reducers, Mapper, Reducer
<1>3. SentMappers' = SentMappers
  BY <1>1, <1>2 DEF SentMappers, Sent, Listed, Mappers, Mapper
<1>4. ASSUME NEW j \in Slots PROVE MostSent(j)' = MostSent(j)
  <2>1. mxcnt \in Nat /\ j \in Nat
    BY DEF Base, TypeOK, Slots
  <2> QED
    BY <1>1, <2>1 DEF MostSent
<1> QED
  BY <1>1, <1>2, <1>3, <1>4 DEF Counts

\* The map worker whose closing serve() is about; its names are not sent yet.
LEMMA CurMapper ==
    ASSUME Base, Counts, serve \in {"names", "eofs", "remove"}
    PROVE  /\ cur \in Listed
           /\ \E m \in Worker : /\ fd[m] = cur /\ pc[m] = "gone" /\ Given(m)
                                /\ \A v \in Worker : fd[v] = cur => v = m
                                /\ serve = "names" => m \in Mappers \ SentMappers
<1>1. cur # NoConn /\ looked = {}
  BY DEF Base, Serving, Counts
<1>2. PICK m \in Worker : pc[m] = "gone" /\ cur = fd[m]
  BY <1>1 DEF Base, Closing
<1>3. cur \in Listed
  BY <1>1 DEF Base, Closing
<1>4. \A v \in Worker : fd[v] = cur => v = m
  BY <1>1, <1>2 DEF Base, Numbered, Given
<1>5. serve = "names" => m \in Mappers \ SentMappers
  BY <1>2, <1>3 DEF Counts, Mappers, Mapper, SentMappers, Sent
<1> QED
  BY <1>1, <1>2, <1>3, <1>4, <1>5 DEF Given

LEMMA SendNameCounts == ASSUME Base, Counts, SendName PROVE Counts'
<1>1. /\ serve = "names" /\ Send(cur.n)
      /\ UNCHANGED <<cur, conns, mcnt, rcnt, fd, looked>>
  BY DEF SendName
<1>2. cur \in Conns /\ cur.n \in Nat
  BY <1>1 DEF Base, Serving, TypeOK, Conns
<1>3. /\ slot \in Slots /\ Len(rchan'[slot]) = Len(rchan[slot]) + 1
      /\ \A j \in Slots : j # slot => rchan'[j] = rchan[j]
  BY <1>1, <1>2, SendTypes
<1>4. mxcnt \in Nat /\ Slots \subseteq Nat /\ R \in Nat /\ \A j \in Slots : j < R
  BY MapReduceAssumption DEF Base, TypeOK, Slots
<1>5. \A j \in Slots : Len(rchan[j]) \in Nat /\ Len(rchan[j]) <= 2 * mxcnt + (IF j < slot THEN 1 ELSE 0)
  BY <1>1, MostSentType DEF Counts, MostSent
<1>6. ASSUME NEW j \in Slots
      PROVE  Len(rchan'[j]) \in Nat /\ Len(rchan'[j]) <= 2 * mxcnt + (IF j < slot + 1 THEN 1 ELSE 0)
  BY <1>3, <1>4, <1>5, SMTT(60)
<1>7. Mappers' = Mappers /\ Reducers' = Reducers
  BY <1>1 DEF Mappers, Reducers, Mapper, Reducer
<1>8. PICK m \in Worker : /\ fd[m] = cur /\ \A v \in Worker : fd[v] = cur => v = m
                          /\ m \in Mappers \ SentMappers
  BY <1>1, CurMapper
<1>9. CASE slot + 1 < R
  <2>1. slot' = slot + 1 /\ serve' = serve /\ mxcnt' = mxcnt
    BY <1>9 DEF SendName
  <2>2. SentMappers' = SentMappers
    BY <1>1, <1>7, <2>1 DEF SentMappers, Sent, Listed
  <2>3. \A j \in Slots : MostSent(j)' = 2 * mxcnt + (IF j < slot + 1 THEN 1 ELSE 0)
    BY <1>1, <2>1 DEF MostSent
  <2> QED
    BY <1>1, <1>6, <1>7, <2>1, <2>2, <2>3 DEF Counts
<1>10. CASE ~(slot + 1 < R)
  <2>1. slot' = 0 /\ mxcnt' = mxcnt + 1 /\ serve' \in {"eofs", "remove"}
    BY <1>10 DEF SendName
  <2>2. SentMappers' = SentMappers \cup {m}
    BY <1>1, <1>7, <1>8, <2>1 DEF SentMappers, Sent, Listed, Mappers
  <2>3. Cardinality(SentMappers') = Cardinality(SentMappers) + 1
    BY <1>8, <2>2, MappersFinite, FS_AddElement
  <2>4. ASSUME NEW j \in Slots PROVE Len(rchan'[j]) <= MostSent(j)'
    <3>1. Len(rchan'[j]) <= 2 * mxcnt + 1 /\ Len(rchan'[j]) \in Nat
      BY <1>3, <1>4, <1>6, <1>10
    <3>2. MostSent(j)' >= 2 * (mxcnt + 1) - 1 /\ MostSent(j)' \in Int
      BY <1>4, <2>1 DEF MostSent
    <3> QED
      BY <1>4, <3>1, <3>2
  <2>5. cur.wtype = "map"
    BY <1>1 DEF Counts
  <2> QED
    BY <1>1, <1>4, <1>7, <2>1, <2>3, <2>4, <2>5 DEF Counts
<1> QED
  BY <1>9, <1>10

LEMMA SendEofCounts == ASSUME Base, Counts, SendEof PROVE Counts'
<1>1. /\ serve = "eofs" /\ Send(Eof)
      /\ UNCHANGED <<cur, conns, mcnt, rcnt, mxcnt, fd, looked>>
  BY DEF SendEof, counters
<1>2. /\ slot \in Slots /\ Len(rchan'[slot]) = Len(rchan[slot]) + 1
      /\ \A j \in Slots : j # slot => rchan'[j] = rchan[j]
  <2>1. Eof \in Nat \cup {Eof}
    OBVIOUS
  <2>2. rchan'[slot] = Append(rchan[slot], Eof) /\ rchan[slot] \in Seq(Nat \cup {Eof})
        /\ slot \in Slots /\ \A j \in Slots : j # slot => rchan'[j] = rchan[j]
    BY <1>1, <2>1, SendTypes
  <2> QED
    BY <2>2
<1>3. mxcnt \in Nat /\ Slots \subseteq Nat /\ R \in Nat /\ \A j \in Slots : j < R
  BY MapReduceAssumption DEF Base, TypeOK, Slots
<1>4. \A j \in Slots : Len(rchan[j]) \in Nat /\ Len(rchan[j]) <= 2 * mxcnt - (IF j < slot THEN 0 ELSE 1)
  BY <1>1, MostSentType DEF Counts, MostSent
<1>5. ASSUME NEW j \in Slots
      PROVE  Len(rchan'[j]) \in Nat /\ Len(rchan'[j]) <= 2 * mxcnt - (IF j < slot + 1 THEN 0 ELSE 1)
  <2>1. j \in Nat /\ slot \in Nat /\ Len(rchan[j]) \in Nat /\ 2 * mxcnt \in Nat
    BY <1>2, <1>3, <1>4
  <2>2. Len(rchan'[j]) = IF j = slot THEN Len(rchan[j]) + 1 ELSE Len(rchan[j])
    BY <1>2
  <2>3. CASE j = slot
    <3>1. ~(j < slot) /\ j < slot + 1
      BY <2>1, <2>3
    <3>2. Len(rchan[j]) <= 2 * mxcnt - 1
      BY <1>4, <3>1
    <3> QED
      BY <2>1, <2>2, <2>3, <3>1, <3>2
  <2>4. CASE j < slot
    <3>1. j # slot /\ j < slot + 1
      BY <2>1, <2>4
    <3>2. Len(rchan[j]) <= 2 * mxcnt - 0
      BY <1>4, <2>4
    <3> QED
      BY <2>1, <2>2, <3>1, <3>2
  <2>5. CASE j > slot
    <3>1. j # slot /\ ~(j < slot) /\ ~(j < slot + 1)
      BY <2>1, <2>5
    <3>2. Len(rchan[j]) <= 2 * mxcnt - 1
      BY <1>4, <3>1
    <3> QED
      BY <2>1, <2>2, <3>1, <3>2
  <2> QED
    BY <2>1, <2>3, <2>4, <2>5
<1>6. Mappers' = Mappers /\ Reducers' = Reducers
  BY <1>1 DEF Mappers, Reducers, Mapper, Reducer
<1>7. serve' \in {"eofs", "remove"}
  BY <1>1 DEF SendEof
<1>8. SentMappers' = SentMappers
  BY <1>1, <1>6, <1>7 DEF SentMappers, Sent, Listed
<1>9. ASSUME NEW j \in Slots PROVE Len(rchan'[j]) <= MostSent(j)'
  <2>1. CASE slot + 1 < R
    <3>1. slot' = slot + 1 /\ serve' = "eofs"
      BY <1>1, <2>1 DEF SendEof
    <3>2. MostSent(j)' = 2 * mxcnt - (IF j < slot + 1 THEN 0 ELSE 1)
      BY <1>1, <3>1 DEF MostSent
    <3> QED
      BY <1>5, <3>2
  <2>2. CASE ~(slot + 1 < R)
    <3>1. serve' = "remove"
      BY <2>2 DEF SendEof
    <3>2. MostSent(j)' = 2 * mxcnt
      BY <1>1, <3>1 DEF MostSent
    <3>3. j < slot + 1
      BY <1>2, <1>3, <2>2
    <3>4. Len(rchan'[j]) <= 2 * mxcnt - 0
      BY <1>5, <3>3
    <3> QED
      BY <1>3, <3>2, <3>4
  <2> QED
    BY <2>1, <2>2
<1> QED
  BY <1>1, <1>6, <1>7, <1>8, <1>9 DEF Counts

LEMMA RemoveCounts ==
    ASSUME Base, Counts, Remove
    PROVE  Counts' /\ Listed' = Listed \ {cur} /\ serve' # "dead" /\ conns # <<>>
<1>1. /\ serve = "remove" /\ serve' \in {"dead", "done", "alt"} /\ cur' = NoConn
      /\ UNCHANGED <<slot, mcnt, rcnt, mxcnt, rchan, fd, looked>>
  BY DEF Remove, counters
<1>2. cur \in Listed
  BY <1>1, CurMapper
<1>3. conns # <<>>
  BY <1>2 DEF Listed
<1>4. PICK k \in DOMAIN conns : conns' = Kept(k) /\ (cur \in Listed => conns[k] = cur)
  BY <1>3, RemoveTakes
<1>5. Listed' = Listed \ {cur}
  BY <1>2, <1>4, KeptOne
<1>6. serve' # "dead"
  BY <1>3 DEF Remove
<1>7. Mappers' = Mappers /\ Reducers' = Reducers
  BY <1>1 DEF Mappers, Reducers, Mapper, Reducer
<1>8. SentMappers' = SentMappers
  BY <1>1, <1>5, <1>6, <1>7 DEF SentMappers, Sent
<1>9. \A j \in Slots : MostSent(j)' = MostSent(j)
  BY <1>1, <1>6 DEF MostSent
<1> QED
  BY <1>1, <1>3, <1>5, <1>6, <1>7, <1>8, <1>9 DEF Counts

LEMMA CountsStep ==
    ASSUME Observer = {}, Base, Counts, [Next]_vars PROVE Counts'
<1>1. ASSUME NEW w \in Worker, 
             \/ OpenClone(w) \/ OpenReply(w) \/ Read(w) \/ Clunk(w) \/ HastyRead(w) \/ Write(w) \/ Die(w)
             \/ \E d \in Root : MapperTakes(w, d)
      PROVE  Counts'
  <2>1. UNCHANGED <<serve, cur, slot, conns, mcnt, rcnt, mxcnt, fd, looked, rchan>>
    BY <1>1 DEF OpenClone, OpenReply, Read, Clunk, HastyRead, Write, Die, MapperTakes, srvVars
  <2>2. \A j \in Slots : Len(rchan'[j]) <= Len(rchan[j]) /\ Len(rchan'[j]) \in Nat /\ Len(rchan[j]) \in Nat
                         /\ MostSent(j) \in Int
    BY <2>1, MostSentType
  <2> QED
    BY <2>1, <2>2, CountsKept
<1>2. ASSUME NEW w \in Worker, ReducerTakes(w) PROVE Counts'
  <2>1. UNCHANGED <<serve, cur, slot, conns, mcnt, rcnt, mxcnt, fd, looked>>
    BY <1>2 DEF ReducerTakes, srvVars
  <2>2. /\ fd[w].msplit \in Slots /\ rchan[fd[w].msplit] # <<>>
        /\ rchan' = [rchan EXCEPT ![fd[w].msplit] = Tail(@)]
        /\ rchan \in [Slots -> Seq(Nat \cup {Eof})]
    BY <1>2, ReducerSlot DEF ReducerTakes, Reducer, Base, TypeOK
  <2>3. \A j \in Slots : Len(rchan'[j]) <= Len(rchan[j]) /\ Len(rchan'[j]) \in Nat
    BY <2>2
  <2>4. \A j \in Slots : Len(rchan[j]) \in Nat /\ MostSent(j) \in Int
    BY MostSentType
  <2> QED
    BY <2>1, <2>3, <2>4, CountsKept
<1>3. CASE UNCHANGED vars
  <2>1. UNCHANGED <<serve, cur, slot, conns, mcnt, rcnt, mxcnt, fd, looked, rchan>>
    BY <1>3 DEF vars, srvVars
  <2>2. \A j \in Slots : Len(rchan'[j]) <= Len(rchan[j]) /\ Len(rchan'[j]) \in Nat /\ Len(rchan[j]) \in Nat
                         /\ MostSent(j) \in Int
    BY <2>1, MostSentType
  <2> QED
    BY <2>1, <2>2, CountsKept
<1>4. ASSUME NEW w \in Worker, WorkerStep(w) \/ HastyRead(w) \/ Write(w) \/ Die(w) PROVE Counts'
  BY <1>1, <1>2, <1>4, MakeConnCounts DEF WorkerStep
<1>5. CASE ServeStep
  BY <1>5, SendNameCounts, SendEofCounts, RemoveCounts, DelconnCounts DEF ServeStep
<1> QED
  BY <1>3, <1>4, <1>5 DEF Next, Exited

-----------------------------------------------------------------------------
\* Every worker had a place: no Topen of the clone file finds M + R connections.
LEMMA AliveStep ==
    ASSUME Observer = {}, Cardinality(Worker) <= M + R, Base, Counts, serve # "dead", [Next]_vars
    PROVE  serve' # "dead"
<1>1. ASSUME NEW w \in Worker, MakeConn(w) PROVE serve' # "dead"
  <2>1. CASE mcnt < M \/ rcnt < R
    BY <1>1, <2>1, MapReduceAssumption DEF MakeConn, NewConn, Base, TypeOK
  <2>2. CASE mcnt >= M /\ rcnt >= R
    <3>1. ~Given(w)
      BY <1>1 DEF MakeConn, Base, Numbered
    <3>2. w \notin Mappers /\ w \notin Reducers /\ Mappers \cap Reducers = {}
      BY <3>1 DEF Mappers, Reducers, Mapper, Reducer, Given, NoConn
    <3>3. IsFiniteSet(Mappers \cup Reducers)
          /\ Cardinality(Mappers \cup Reducers) = Cardinality(Mappers) + Cardinality(Reducers)
      BY <3>2, MappersFinite, FS_Union, FS_EmptySet
    <3>4. Cardinality((Mappers \cup Reducers) \cup {w}) = Cardinality(Mappers) + Cardinality(Reducers) + 1
      BY <3>2, <3>3, FS_AddElement
    <3>5. Cardinality((Mappers \cup Reducers) \cup {w}) <= Cardinality(Worker)
      <4>1. (Mappers \cup Reducers) \cup {w} \in SUBSET Worker
        BY DEF Mappers, Reducers
      <4> QED
        BY <4>1, MapReduceAssumption, FS_Subset
    <3>6. Cardinality(Worker) \in Nat
      BY MapReduceAssumption, FS_CardinalityType
    <3> QED
      BY <2>2, <3>4, <3>5, <3>6, MappersFinite, MapReduceAssumption DEF Counts
  <2> QED
    BY <2>1, <2>2, MapReduceAssumption DEF Base, TypeOK
<1>2. ASSUME Remove PROVE serve' # "dead"
  BY <1>2, RemoveCounts
<1>3. ASSUME NEW w \in Worker, WorkerStep(w) \/ HastyRead(w) \/ Write(w) \/ Die(w) PROVE serve' # "dead"
  BY <1>1, <1>3
  DEF WorkerStep, OpenClone, OpenReply, Read, ReducerTakes, Clunk, MapperTakes, HastyRead, Write, Die, srvVars
<1>4. CASE ServeStep
  BY <1>2, <1>4 DEF ServeStep, SendName, SendEof, Delconn
<1> QED
  BY <1>3, <1>4 DEF Next, Exited, vars, srvVars

LEMMA NeverFull ==
    ASSUME 2 * M <= BufSize, Base, Counts, serve \in {"names", "eofs"}
    PROVE  Len(rchan[slot]) < BufSize
<1>1. slot \in Slots /\ slot \in Nat /\ mxcnt \in Nat /\ mcnt \in 0 .. M /\ M \in Nat /\ BufSize \in Nat
  BY MapReduceAssumption DEF Base, TypeOK, Slots
<1>2. Len(rchan[slot]) \in Nat /\ Len(rchan[slot]) <= MostSent(slot)
  BY <1>1, MostSentType DEF Counts
<1>3. CASE serve = "names"
  <2>1. PICK m \in Mappers : m \notin SentMappers
    BY <1>3, CurMapper
  <2>2. SentMappers \subseteq Mappers /\ SentMappers # Mappers
    BY <2>1 DEF SentMappers
  <2>3. Cardinality(SentMappers) <= Cardinality(Mappers) /\ Cardinality(SentMappers) # Cardinality(Mappers)
    BY <2>2, MappersFinite, FS_Subset
  <2>4. mxcnt < mcnt
    BY <1>1, <2>3, MappersFinite DEF Counts
  <2>5. MostSent(slot) = 2 * mxcnt
    BY <1>1, <1>3 DEF MostSent
  <2> QED
    BY <1>1, <1>2, <2>4, <2>5
<1>4. CASE serve = "eofs"
  <2>1. SentMappers \subseteq Mappers
    BY DEF SentMappers
  <2>2. mxcnt <= mcnt
    BY <2>1, MappersFinite, FS_Subset DEF Counts
  <2>3. MostSent(slot) = 2 * mxcnt - 1
    BY <1>1, <1>4 DEF MostSent
  <2> QED
    BY <1>1, <1>2, <2>2, <2>3
<1> QED
  BY <1>3, <1>4

\* With buffers for two messages of every map worker, and no more workers than
\* there are places for, serve() never waits for a reduce worker inside the
\* delconn branch and never raises, whoever is killed.  (The code has buffers
\* for 10 messages, which is enough for -M 5.)
THEOREM ServeNeverWedged ==
    ASSUME Observer = {}, 2 * M <= BufSize, Cardinality(Worker) <= M + R
    PROVE  Spec => []NoWedge
<1> DEFINE I == Base /\ Counts /\ serve # "dead"
<1>1. Init => I
  BY BaseInit, CountsInit DEF Init
<1>2. I /\ [Next]_vars => I'
  BY BaseStep, CountsStep, AliveStep
<1>3. I => NoWedge
  BY NeverFull DEF NoWedge
<1> QED
  BY <1>1, <1>2, <1>3, PTL DEF Spec

\* The master never answers a read of a worker that was not killed with an
\* error: such a worker ends because it read an end of file.
LEMMA EndsStep ==
    ASSUME Observer = {}, Hasty \subseteq Mortal, Base, looked = {}, EndsAtEof, [Next]_vars
    PROVE  EndsAtEof'
<1>1. ended \in [Worker -> BOOLEAN] /\ pc \in [Worker -> Labels]
  BY DEF Base, TypeOK, Labels
<1>2. ASSUME NEW w \in Worker, NEW l \in Labels, Goto(w, l), ended' = ended,
             l \in {"closing", "gone"} => w \in Mortal \/ pc[w] = "closing"
      PROVE  EndsAtEof'
  <2>1. \A v \in Worker : pc'[v] = IF v = w THEN l ELSE pc[v]
    BY <1>1, <1>2 DEF Goto
  <2> QED
    BY <1>2, <2>1 DEF EndsAtEof
<1>3. ASSUME NEW w \in Worker, TakesEof(w) PROVE EndsAtEof'
  <2>1. \A v \in Worker : /\ pc'[v] = IF v = w THEN "closing" ELSE pc[v]
                          /\ ended'[v] = IF v = w THEN TRUE ELSE ended[v]
    BY <1>1, <1>3 DEF TakesEof, Goto
  <2> QED
    BY <2>1 DEF EndsAtEof
<1>4. ASSUME NEW w \in Worker, Open(w) PROVE Connected(w)
  BY <1>4 DEF Base, Closing, Listed, Connected
<1>5. ASSUME NEW w \in Worker, WorkerStep(w) \/ HastyRead(w) \/ Write(w) \/ Die(w) PROVE EndsAtEof'
  <2>1. CASE OpenClone(w)
    BY <1>2, <2>1 DEF OpenClone, Labels
  <2>2. CASE MakeConn(w)
    <3>1. ended' = ended /\ (pc' = pc \/ Goto(w, "made"))
      BY <2>2 DEF MakeConn, NewConn
    <3> QED
      BY <1>2, <3>1 DEF Labels, EndsAtEof
  <2>3. CASE OpenReply(w)
    BY <1>2, <2>3 DEF OpenReply, Labels
  <2>4. CASE Read(w)
    BY <1>2, <1>4, <2>4 DEF Read, Labels, Open
  <2>5. CASE ReducerTakes(w)
    BY <1>2, <1>3, <2>5 DEF ReducerTakes, Takes, Labels
  <2>6. CASE Clunk(w)
    BY <1>2, <2>6 DEF Clunk, Labels
  <2>7. ASSUME NEW d \in Root, MapperTakes(w, d) PROVE EndsAtEof'
    BY <1>2, <1>3, <2>7 DEF MapperTakes, Takes, Labels
  <2>8. CASE HastyRead(w) \/ Die(w)
    BY <1>2, <2>8 DEF HastyRead, Die, Labels
  <2>9. CASE Write(w)
    BY <1>2, <2>9 DEF Write, Labels
  <2> QED
    BY <1>5, <2>1, <2>2, <2>3, <2>4, <2>5, <2>6, <2>7, <2>8, <2>9 DEF WorkerStep
<1>6. CASE ServeStep
  <2>1. pc' = pc /\ ended' = ended
    BY <1>6 DEF ServeStep, SendName, SendEof, Delconn, Remove
  <2> QED
    BY <2>1 DEF EndsAtEof
<1>7. CASE UNCHANGED vars
  BY <1>7 DEF vars, EndsAtEof
<1> QED
  BY <1>5, <1>6, <1>7 DEF Next, Exited

THEOREM WorkersEndAtEof ==
    ASSUME Observer = {}, Hasty \subseteq Mortal
    PROVE  Spec => []EndsAtEof
<1> DEFINE I == Base /\ Counts /\ EndsAtEof
<1>1. Init => I
  BY BaseInit, CountsInit DEF Init, EndsAtEof
<1>2. I /\ [Next]_vars => I'
  BY BaseStep, CountsStep, EndsStep DEF Counts
<1>3. I => EndsAtEof
  OBVIOUS
<1> QED
  BY <1>1, <1>2, <1>3, PTL DEF Spec

-----------------------------------------------------------------------------
(* Tight. *)

LEMMA NewConnListed ==
    ASSUME Base, NEW w \in Worker, NEW t \in {"map", "reduce"}, NEW k \in Nat, pc[w] = "cloning",
           NewConn(w, [n |-> Number, wtype |-> t, msplit |-> k])
    PROVE  /\ ~Given(w) /\ fd'[w].wtype = t /\ fd'[w].msplit = k /\ Given(w)'
           /\ \A v \in Worker : v # w => fd'[v] = fd[v]
           /\ Listed' = Listed \cup {fd'[w]}
           /\ \A v \in Worker : Given(v) => fd[v] # fd'[w]
           /\ \A v \in Worker : pc'[v] = IF v = w THEN "made" ELSE pc[v]
<1> DEFINE c == [n |-> Number, wtype |-> t, msplit |-> k]
<1>1. qidseq \in Nat /\ c \in Conns /\ c.n = qidseq /\ c # NoConn /\ c.wtype = t /\ c.msplit = k
  <2>1. qidseq \in Nat
    BY MapReduceAssumption DEF Base, TypeOK
  <2> QED
    BY <2>1 DEF Number, Conns, NoConn
<1> HIDE DEF c
<1>2. /\ conns' = Append(conns, c) /\ fd' = [fd EXCEPT ![w] = c] /\ pc' = [pc EXCEPT ![w] = "made"]
  BY DEF NewConn, Goto, c
<1>3. conns \in Seq(Conns) /\ fd \in [Worker -> Conns \cup {NoConn}] /\ pc \in [Worker -> Labels]
  BY DEF Base, TypeOK, Labels
<1>4. Listed' = Listed \cup {c}
  <2>1. /\ DOMAIN conns' = 1 .. Len(conns) + 1 /\ conns'[Len(conns) + 1] = c
        /\ \A i \in 1 .. Len(conns) : conns'[i] = conns[i] /\ i # Len(conns) + 1
        /\ DOMAIN conns = 1 .. Len(conns) /\ Len(conns) \in Nat
    BY <1>1, <1>2, <1>3
  <2> QED
    BY <2>1 DEF Listed
<1>5. fd'[w] = c /\ \A v \in Worker : v # w => fd'[v] = fd[v]
  BY <1>2, <1>3
<1>6. \A v \in Worker : pc'[v] = IF v = w THEN "made" ELSE pc[v]
  BY <1>2, <1>3
<1>7. ~Given(w)
  BY DEF Base, Numbered
<1>8. \A v \in Worker : Given(v) => fd[v].n \in Nat /\ fd[v].n < qidseq
  BY <1>3 DEF Given, Base, Numbered, Conns
<1> QED
  BY <1>1, <1>4, <1>5, <1>6, <1>7, <1>8 DEF Given

\* What makes a connection.
LEMMA MakeConnCases ==
    ASSUME Base, NEW w \in Worker, MakeConn(w)
    PROVE  \/ \E t \in {"map", "reduce"}, k \in Nat :
                 /\ NewConn(w, [n |-> Number, wtype |-> t, msplit |-> k])
                 /\ rcnt' = rcnt + (IF t = "map" THEN 0 ELSE 1) /\ (t = "reduce" => k = rcnt)
           \/ serve' = "dead" /\ UNCHANGED <<conns, fd, qidseq, pc, mcnt, rcnt>>
<1>1. mcnt \in Nat /\ rcnt \in Nat
  BY MapReduceAssumption DEF Base, TypeOK
<1>2. CASE /\ mcnt < M
           /\ NewConn(w, [n |-> Number, wtype |-> "map", msplit |-> mcnt])
           /\ mcnt' = mcnt + 1 /\ UNCHANGED rcnt
  BY <1>1, <1>2
<1>3. CASE /\ mcnt >= M /\ rcnt < R
           /\ NewConn(w, [n |-> Number, wtype |-> "reduce", msplit |-> rcnt])
           /\ rcnt' = rcnt + 1 /\ UNCHANGED mcnt
  BY <1>1, <1>3
<1> QED
  BY <1>2, <1>3 DEF MakeConn

LEMMA TightStep ==
    ASSUME Mortal = {}, Hasty = {}, Observer = {}, Base, Counts, Tight, [Next]_vars
    PROVE  Tight'
<1>0. pc \in [Worker -> Labels]
  BY DEF Base, TypeOK, Labels
<1>1. ASSUME UNCHANGED <<conns, fd, delq, cur>>, \A v \in Worker : Open(v) => Open(v)' PROVE Tight'
  BY <1>1 DEF Tight, Given, Listed
<1>2. ASSUME NEW w \in Worker, NEW l \in Labels \ {"new", "cloning", "gone"}, Goto(w, l)
      PROVE \A v \in Worker : Open(v) => Open(v)'
  BY <1>0, <1>2 DEF Goto, Open, Labels
<1>3. ASSUME NEW w \in Worker, OpenClone(w) PROVE Tight'
  <2>1. \A v \in Worker : Open(v) => Open(v)'
    BY <1>0, <1>3 DEF OpenClone, Goto, Open
  <2> QED
    BY <1>1, <1>3, <2>1 DEF OpenClone, srvVars
<1>4. ASSUME NEW w \in Worker, OpenReply(w) \/ Read(w) \/ Write(w) PROVE Tight'
  BY <1>1, <1>2, <1>4 DEF OpenReply, Read, Write, srvVars, Labels
<1>5. ASSUME NEW w \in Worker, ReducerTakes(w) \/ \E d \in Root : MapperTakes(w, d) PROVE Tight'
  BY <1>1, <1>2, <1>5 DEF ReducerTakes, MapperTakes, Takes, TakesEof, srvVars, Labels
<1>6. ASSUME NEW w \in Worker, Clunk(w) PROVE Tight'
  <2>1. \A v \in Worker : v # w /\ Open(v) => Open(v)'
    BY <1>0, <1>6 DEF Clunk, Goto, Open
  <2>2. /\ delq' = IF Connected(w) THEN delq \cup {<<w, fd[w]>>} ELSE delq
        /\ UNCHANGED <<conns, fd, cur>>
    BY <1>6 DEF Clunk, srvVars
  <2>3. fd[w] \in Listed => Connected(w)
    BY DEF Listed, Connected
  <2> QED
    BY <2>1, <2>2, <2>3 DEF Tight, Given, Listed
<1>7. ASSUME NEW w \in Worker, MakeConn(w) PROVE Tight'
  <2>0. pc[w] = "cloning" /\ UNCHANGED <<cur, delq>>
    BY <1>7 DEF MakeConn
  <2>1. ASSUME NEW t \in {"map", "reduce"}, NEW k \in Nat,
               NewConn(w, [n |-> Number, wtype |-> t, msplit |-> k])
        PROVE  Tight'
    <3>1. /\ \A v \in Worker : v # w => fd'[v] = fd[v]
          /\ Listed' = Listed \cup {fd'[w]}
          /\ \A v \in Worker : Given(v) => fd[v] # fd'[w]
          /\ \A v \in Worker : pc'[v] = IF v = w THEN "made" ELSE pc[v]
      BY <2>0, <2>1, NewConnListed
    <3>2. ASSUME NEW v \in Worker, Given(v)', fd'[v] \in Listed', v # w
          PROVE  Open(v)' \/ <<v, fd'[v]>> \in delq' \/ fd'[v] = cur'
      <4>1. Given(v) /\ fd'[v] = fd[v] /\ pc'[v] = pc[v] /\ fd[v] \in Listed
        BY <3>1, <3>2 DEF Given
      <4> QED
        BY <2>0, <4>1 DEF Tight, Open
    <3>3. Open(w)'
      BY <3>1 DEF Open
    <3> QED
      BY <3>2, <3>3 DEF Tight
  <2>2. CASE UNCHANGED <<conns, fd, pc>>
    BY <1>1, <2>0, <2>2 DEF Open
  <2> QED
    BY <1>7, <2>1, <2>2, MakeConnCases
<1>8. ASSUME NEW x \in delq, Delconn(x) PROVE Tight'
  <2>1. delq' = delq \ {x} /\ cur' = x[2] /\ UNCHANGED <<conns, fd, pc>> /\ serve = "alt"
    BY <1>8 DEF Delconn
  <2>2. cur = NoConn /\ x[2] = fd[x[1]]
    BY <2>1 DEF Base, Serving, Counts, Closing
  <2>3. \A v \in Worker : <<v, fd[v]>> = x => fd[v] = x[2]
    OBVIOUS
  <2> QED
    BY <2>1, <2>2, <2>3 DEF Tight, Given, Listed, Open
<1>9. CASE SendName \/ SendEof
  BY <1>1, <1>9 DEF SendName, SendEof, counters, Open
<1>10. CASE Remove
  <2>1. Listed' = Listed \ {cur} /\ UNCHANGED <<fd, pc, delq>>
    BY <1>10, RemoveCounts DEF Remove
  <2> QED
    BY <2>1 DEF Tight, Given, Open
<1>11. ASSUME NEW w \in Worker, WorkerStep(w) \/ HastyRead(w) \/ Write(w) \/ Die(w) PROVE Tight'
  <2>1. ~HastyRead(w) /\ ~Die(w)
    BY DEF HastyRead, Die
  <2> QED
    BY <1>3, <1>4, <1>5, <1>6, <1>7, <1>11, <2>1 DEF WorkerStep
<1>12. CASE ServeStep
  BY <1>8, <1>9, <1>10, <1>12 DEF ServeStep
<1>13. CASE UNCHANGED vars
  BY <1>1, <1>13 DEF vars, srvVars, Open
<1> QED
  BY <1>11, <1>12, <1>13 DEF Next, Exited

LEMMA ListedCardinality == ASSUME Base PROVE Cardinality(Listed) = Len(conns)
<1>1. conns \in Seq(Conns) /\ Len(conns) \in Nat /\ DOMAIN conns = 1 .. Len(conns)
  BY DEF Base, TypeOK
<1>2. conns \in [1 .. Len(conns) -> Listed]
  BY <1>1 DEF Listed
<1>3. conns \in Bijection(1 .. Len(conns), Listed)
  BY <1>1, <1>2 DEF Bijection, Injection, Surjection, IsInjective, Listed, Base, Table
<1> QED
  BY <1>1, <1>3, FS_CountingElements DEF ExistsBijection

LEMMA TightMeansOpen == ASSUME Base, Counts, Tight PROVE ConnsAreOpen
<1> DEFINE closing == {x[2] : x \in delq} \cup ({cur} \ {NoConn})
<1>1. ASSUME NEW c \in Listed PROVE c \in {fd[w] : w \in {v \in Worker : Open(v)}} \cup closing
  <2>1. PICK w \in Worker : Given(w) /\ c = fd[w]
    BY DEF Listed, Base, Table
  <2>2. CASE <<w, fd[w]>> \in delq
    BY <2>1, <2>2
  <2> QED
    BY <2>1, <2>2 DEF Tight, Given
<1>2. \A w \in Worker : Open(w) => fd[w] \in Listed
  BY DEF Base, Closing, Counts
<1>3. closing \subseteq Listed
  BY DEF Base, Closing, Counts
<1>4. Listed = {fd[w] : w \in {v \in Worker : Open(v)}} \cup closing
  BY <1>1, <1>2, <1>3
<1> QED
  BY <1>4, ListedCardinality DEF ConnsAreOpen, Listed, Base

\* Nobody kills or looks: the table is the connections that are open and those
\* serve() is closing, and holds each once.
THEOREM TableIsOpenConnections ==
    ASSUME Mortal = {}, Hasty = {}, Observer = {}
    PROVE  Spec => []ConnsAreOpen
<1> DEFINE I == Base /\ Counts /\ Tight
<1>1. Init => I
  BY BaseInit, CountsInit DEF Init, Tight, Given
<1>2. I /\ [Next]_vars => I'
  BY BaseStep, CountsStep, TightStep
<1>3. I => ConnsAreOpen
  BY TightMeansOpen
<1> QED
  BY <1>1, <1>2, <1>3, PTL DEF Spec

-----------------------------------------------------------------------------
(* Flow. *)

OnePath == \E d \in Root : Root = {d}

LEMMA FlowInit == Init => Flow
<1> SUFFICES ASSUME Init PROVE Flow
  OBVIOUS
<1>1. Mappers = {} /\ Reducers = {} /\ Mapped = {}
  BY DEF Init, Mappers, Reducers, Mapper, Reducer, NoConn, Mapped
<1>2. \A j \in Slots : ~EofOut(j)
  BY <1>1 DEF EofOut, Init, IsReducerOf, Reducers
<1>3. NoFileLost
  BY DEF Init, NoFileLost
<1> QED
  BY <1>1, <1>2, <1>3 DEF Init, Flow, Fresh, OneSlotEach, AllOffered, EofLast, AllTold, DoneEmpty

\* A step of serve() that sends nothing, or of a worker that takes nothing.
LEMMA FlowKept ==
    ASSUME Flow, UNCHANGED <<got, ended, feed, fd, rchan, rcnt>>, 
           serve' = "eofs" => serve = "eofs", SentMappers \subseteq SentMappers',
           \A m \in Mappers, j \in Slots : SentTo(m, j)' => SentTo(m, j), DoneEmpty'
    PROVE  Flow'
<1>1. Mappers' = Mappers /\ Reducers' = Reducers /\ Mapped' = Mapped
  BY DEF Mappers, Reducers, Mapper, Reducer, Mapped
<1>2. Fresh' /\ OneSlotEach' /\ AllOffered' /\ NoFileLost'
  BY <1>1 DEF Flow, Fresh, OneSlotEach, AllOffered, NoFileLost, Given
<1>3. \A j \in Slots : EofOut(j)' <=> EofOut(j)
  BY DEF EofOut, IsReducerOf, Reducer
<1>4. EofLast'
  BY <1>1, <1>3 DEF Flow, EofLast
<1>5. \A j \in Slots, m \in Mapped : Told(j, fd[m].n) => Told(j, fd[m].n)'
  BY DEF Told, IsReducerOf, Reducer
<1>6. AllTold'
  BY <1>1, <1>5 DEF Flow, AllTold, Mapped
<1> QED
  BY <1>2, <1>4, <1>6 DEF Flow

LEMMA ServeKeptFlow ==
    ASSUME Flow, UNCHANGED <<got, ended, feed, fd, rchan, rcnt, serve, cur, slot, conns>>
    PROVE  Flow'
<1>1. \A m \in Mappers, j \in Slots : SentTo(m, j)' <=> SentTo(m, j)
  BY DEF SentTo, Sent, Listed
<1>2. SentMappers' = SentMappers
  BY DEF SentMappers, Sent, Listed, Mappers, Mapper
<1>3. DoneEmpty'
  BY DEF Flow, DoneEmpty
<1> QED
  BY <1>1, <1>2, <1>3, FlowKept

LEMMA NewConnFlow ==
    ASSUME Base, Counts, Flow, serve = "alt", NEW w \in Worker, pc[w] = "cloning",
           NEW t \in {"map", "reduce"}, NEW k \in Nat,
           NewConn(w, [n |-> Number, wtype |-> t, msplit |-> k]),
           rcnt' = rcnt + (IF t = "map" THEN 0 ELSE 1), t = "reduce" => k = rcnt,
           UNCHANGED <<cur, slot, mxcnt, rchan, feed, delq, got, ended, looked>>
    PROVE  Flow'
<1>1. /\ ~Given(w) /\ fd'[w].wtype = t /\ fd'[w].msplit = k /\ Given(w)'
      /\ \A v \in Worker : v # w => fd'[v] = fd[v]
      /\ Listed' = Listed \cup {fd'[w]}
      /\ \A v \in Worker : Given(v) => fd[v] # fd'[w]
  BY NewConnListed
<1>2. got[w] = {} /\ ~ended[w] /\ serve' = "alt"
  BY <1>1 DEF Flow, Fresh, NewConn
<1>3. \A v \in Worker : Mapper(v) \/ Reducer(v) => Given(v) /\ v # w
  BY <1>1 DEF Mapper, Reducer, Given, NoConn
<1>4. Mappers' = IF t = "map" THEN Mappers \cup {w} ELSE Mappers
  BY <1>1, <1>3 DEF Mappers, Mapper
<1>5. Reducers' = IF t = "map" THEN Reducers ELSE Reducers \cup {w}
  BY <1>1, <1>3 DEF Reducers, Reducer
<1>6. Mapped' = Mapped /\ Mapped \subseteq Mappers
  BY <1>2, <1>4 DEF Mapped
<1>7. \A m \in Mappers : Sent(m)' <=> Sent(m)
  BY <1>1, <1>2, <1>3 DEF Sent, Mappers
<1>8. SentMappers \subseteq SentMappers'
  BY <1>4, <1>7 DEF SentMappers
<1>9. Fresh'
  BY <1>1, <1>2 DEF Flow, Fresh, Given
<1>10. OneSlotEach'
  <2>1. \A r \in Reducers : fd[r].msplit < rcnt /\ fd[r].msplit \in Nat
    BY ReducerSlot DEF Reducers, Base, Numbered, Conns
  <2>2. rcnt \in Nat
    BY MapReduceAssumption DEF Base, TypeOK
  <2>3. ASSUME NEW r \in Reducers', NEW q \in Reducers', fd'[r].msplit = fd'[q].msplit, r # q PROVE FALSE
    <3>1. CASE r # w /\ q # w
      <4>1. r \in Reducers /\ q \in Reducers
        BY <1>5, <3>1
      <4> QED
        BY <1>1, <2>3, <3>1, <4>1 DEF Flow, OneSlotEach, Reducers
    <3>2. ASSUME NEW u \in Reducers', u # w, w \in Reducers' PROVE fd'[u].msplit # fd'[w].msplit
      <4>1. t = "reduce" /\ u \in Reducers
        BY <1>3, <1>5, <3>2 DEF Reducers
      <4>2. fd'[u].msplit = fd[u].msplit /\ fd'[w].msplit = rcnt
        BY <1>1, <3>2, <4>1 DEF Reducers
      <4> QED
        BY <2>1, <2>2, <4>1, <4>2
    <3> QED
      BY <2>3, <3>1, <3>2
  <2> QED
    BY <2>3 DEF OneSlotEach
<1>11. AllOffered' /\ NoFileLost'
  BY <1>2, <1>4 DEF Flow, AllOffered, NoFileLost
<1>12. \A j \in Slots : EofOut(j)' => EofOut(j)
  BY <1>1, <1>2 DEF EofOut, IsReducerOf, Reducer
<1>13. EofLast'
  BY <1>2, <1>6, <1>8, <1>12 DEF Flow, EofLast
<1>14. ASSUME NEW m \in Mapped', NEW j \in Slots, SentTo(m, j)' PROVE Told(j, fd[m].n)'
  <2>1. m \in Mapped /\ m \in Mappers /\ m # w /\ m \in Worker
    BY <1>3, <1>6 DEF Mappers
  <2>2. SentTo(m, j) /\ fd'[m] = fd[m]
    BY <1>1, <1>2, <1>7, <1>14, <2>1 DEF SentTo
  <2>3. Told(j, fd[m].n)
    BY <2>1, <2>2 DEF Flow, AllTold
  <2> QED
    BY <1>1, <1>3, <2>2, <2>3 DEF Told, IsReducerOf, Reducer
<1>15. AllTold'
  BY <1>14 DEF AllTold
<1> QED
  BY <1>2, <1>9, <1>10, <1>11, <1>13, <1>15 DEF Flow, DoneEmpty

LEMMA MakeConnFlow == ASSUME Base, Counts, Flow, NEW w \in Worker, MakeConn(w) PROVE Flow'
<1>1. /\ serve = "alt" /\ pc[w] = "cloning"
      /\ UNCHANGED <<cur, slot, mxcnt, rchan, feed, delq, got, ended, looked>>
  BY DEF MakeConn
<1>2. CASE serve' = "dead" /\ UNCHANGED <<conns, fd, qidseq, pc, mcnt, rcnt>>
  <2>1. \A m \in Mappers, j \in Slots : SentTo(m, j)' <=> SentTo(m, j)
    BY <1>1, <1>2 DEF SentTo, Sent, Listed
  <2>2. SentMappers' = SentMappers
    BY <1>1, <1>2 DEF SentMappers, Sent, Listed, Mappers, Mapper
  <2> QED
    BY <1>1, <1>2, <2>1, <2>2, FlowKept DEF DoneEmpty
<1> QED
  BY <1>1, <1>2, MakeConnCases, NewConnFlow

\* An open connection's names have not been sent.
LEMMA OpenNotSent ==
    ASSUME Base, Counts, NEW w \in Worker, Open(w)
    PROVE  ~Sent(w) /\ \A j \in Slots : ~SentTo(w, j)
<1>1. fd[w] \in Listed /\ Given(w)
  BY DEF Base, Closing, Counts, Numbered
<1>2. fd[w] # cur
  BY <1>1 DEF Base, Closing, Counts, Numbered, Given, Open
<1> QED
  BY <1>1, <1>2 DEF Sent, SentTo

LEMMA MapperTakesFlow ==
    ASSUME OnePath, Base, Counts, Flow, NEW w \in Worker, NEW d \in Root, MapperTakes(w, d)
    PROVE  Flow'
<1>1. /\ Open(w) /\ w \in Mappers /\ w \notin Reducers /\ Given(w)
      /\ UNCHANGED <<serve, cur, slot, conns, rcnt, rchan, fd>>
  BY DEF MapperTakes, Open, Mappers, Mapper, Reducers, Reducer, srvVars, Base, Numbered
<1>2. Mappers' = Mappers /\ Reducers' = Reducers /\ SentMappers' = SentMappers
      /\ Mappers \subseteq Worker /\ Reducers \subseteq Worker
      /\ \A m \in Worker, j \in Slots : SentTo(m, j)' <=> SentTo(m, j)
  BY <1>1 DEF Mappers, Reducers, Mapper, Reducer, SentMappers, SentTo, Sent, Listed
<1>3. Root = {d} /\ feed \in [Root -> Seq(Files)] /\ got \in [Worker -> SUBSET (Files \cup Nat)]
      /\ ended \in [Worker -> BOOLEAN]
  BY DEF OnePath, Base, TypeOK
<1>4. \A j \in Slots : ~SentTo(w, j)
  BY <1>1, OpenNotSent
<1>5. OneSlotEach' /\ DoneEmpty'
  BY <1>1, <1>2 DEF Flow, OneSlotEach, DoneEmpty
<1>6. CASE feed[d] # <<>> /\ Takes(w, Head(feed[d])) /\ feed' = [feed EXCEPT ![d] = Tail(@)]
  <2>1. /\ ended' = ended
        /\ \A v \in Worker : got'[v] = IF v = w THEN got[v] \cup {Head(feed[d])} ELSE got[v]
        /\ feed'[d] = Tail(feed[d]) /\ feed[d] \in Seq(Files)
    BY <1>3, <1>6 DEF Takes
  <2>2. Fresh' /\ AllOffered'
    BY <1>1, <1>2, <1>3, <1>6, <2>1 DEF Flow, Fresh, AllOffered, Given
  <2>3. NoFileLost'
    <3>1. ASSUME NEW i \in DOMAIN Tree[d]
          PROVE  (\E v \in Worker : Tree[d][i] \in got'[v]) \/ \E k \in DOMAIN feed'[d] : feed'[d][k] = Tree[d][i]
      <4>1. CASE \E v \in Worker : Tree[d][i] \in got[v]
        BY <2>1, <4>1
      <4>2. ASSUME NEW k \in DOMAIN feed[d], feed[d][k] = Tree[d][i]
            PROVE (\E v \in Worker : Tree[d][i] \in got'[v]) \/ \E l \in DOMAIN feed'[d] : feed'[d][l] = Tree[d][i]
        <5>1. CASE k = 1
          <6>1. Head(feed[d]) = Tree[d][i]
            BY <1>6, <2>1, <4>2, <5>1
          <6>2. Tree[d][i] \in got'[w]
            BY <2>1, <6>1
          <6> QED
            BY <6>2
        <5>2. CASE k # 1
          <6>1. k - 1 \in DOMAIN Tail(feed[d]) /\ Tail(feed[d])[k - 1] = feed[d][k]
            BY <1>6, <2>1, <5>2
          <6> QED
            BY <2>1, <4>2, <6>1
        <5> QED
          BY <5>1, <5>2
      <4> QED
        BY <4>1, <4>2 DEF Flow, NoFileLost
    <3> QED
      BY <1>3, <3>1 DEF NoFileLost
  <2>4. serve # "eofs" /\ \A j \in Slots : ~EofOut(j)
    BY <1>6 DEF Flow, EofLast
  <2>5. \A j \in Slots : EofOut(j)' => EofOut(j)
    BY <1>1, <2>1 DEF EofOut, IsReducerOf, Reducer
  <2>6. EofLast'
    BY <1>1, <2>4, <2>5 DEF EofLast
  <2>7. ASSUME NEW m \in Mapped', NEW j \in Slots, SentTo(m, j)' PROVE Told(j, fd[m].n)'
    <3>1. m # w /\ m \in Worker /\ SentTo(m, j)
      BY <1>2, <1>4, <2>7 DEF Mapped
    <3>2. m \in Mapped
      BY <1>2, <2>1, <3>1 DEF Mapped
    <3>3. Told(j, fd[m].n)
      BY <3>1, <3>2 DEF Flow, AllTold
    <3> QED
      BY <1>1, <2>1, <3>3 DEF Told, IsReducerOf, Reducer
  <2>8. AllTold'
    BY <2>7 DEF AllTold
  <2> QED
    BY <1>5, <2>2, <2>3, <2>6, <2>8 DEF Flow
<1>7. CASE feed[d] = <<>> /\ TakesEof(w) /\ UNCHANGED feed
  <2>1. got' = got /\ feed' = feed /\ \A v \in Worker : v # w => ended'[v] = ended[v]
    BY <1>3, <1>7 DEF TakesEof
  <2>2. Fresh' /\ NoFileLost'
    BY <1>1, <2>1 DEF Flow, Fresh, Given, NoFileLost
  <2>3. AllOffered'
    BY <1>3, <1>7, <2>1 DEF AllOffered
  <2>4. \A j \in Slots : EofOut(j)' => EofOut(j)
    <3>1. \A r \in Worker : Reducer(r) => r # w
      BY <1>1 DEF Reducers
    <3> QED
      BY <1>1, <2>1, <3>1 DEF EofOut, IsReducerOf, Reducer
  <2>5. Mapped' = Mapped
    BY <1>2, <2>1 DEF Mapped
  <2>6. EofLast'
    BY <1>1, <1>2, <2>1, <2>4, <2>5 DEF Flow, EofLast
  <2>7. \A j \in Slots, m \in Mapped : Told(j, fd[m].n) => Told(j, fd[m].n)'
    BY <1>1, <2>1 DEF Told, IsReducerOf, Reducer
  <2>8. AllTold'
    BY <1>2, <2>5, <2>7 DEF Flow, AllTold, Mapped
  <2> QED
    BY <1>5, <2>2, <2>3, <2>6, <2>8 DEF Flow
<1> QED
  BY <1>6, <1>7 DEF MapperTakes

LEMMA ReducerTakesFlow ==
    ASSUME Base, Counts, Flow, NEW w \in Worker, ReducerTakes(w) PROVE Flow'
<1> DEFINE h == fd[w].msplit
           q == rchan[h]
<1>1. /\ Open(w) /\ w \in Reducers /\ w \notin Mappers /\ Given(w) /\ IsReducerOf(w, h)
      /\ UNCHANGED <<serve, cur, slot, conns, rcnt, feed, fd>>
  BY DEF ReducerTakes, Open, Mappers, Mapper, Reducers, Reducer, srvVars, Base, Numbered, IsReducerOf
<1>2. Mappers' = Mappers /\ Reducers' = Reducers /\ SentMappers' = SentMappers
      /\ Mappers \subseteq Worker /\ Reducers \subseteq Worker
      /\ \A m \in Worker, j \in Slots : SentTo(m, j)' <=> SentTo(m, j)
  BY <1>1 DEF Mappers, Reducers, Mapper, Reducer, SentMappers, SentTo, Sent, Listed
<1>3. /\ rchan \in [Slots -> Seq(Nat \cup {Eof})] /\ got \in [Worker -> SUBSET (Files \cup Nat)]
      /\ ended \in [Worker -> BOOLEAN] /\ h \in Slots
  BY <1>1, ReducerSlot DEF Base, TypeOK, Reducers
<1>4. /\ q # <<>> /\ rchan' = [rchan EXCEPT ![h] = Tail(q)]
      /\ IF Head(q) = Eof THEN TakesEof(w) ELSE Takes(w, Head(q))
  BY DEF ReducerTakes
<1>5. /\ q \in Seq(Nat \cup {Eof}) /\ rchan'[h] = Tail(q) /\ \A j \in Slots : j # h => rchan'[j] = rchan[j]
      /\ DOMAIN q = 1 .. Len(q) /\ Len(q) \in Nat /\ Len(q) > 0 /\ q[1] = Head(q)
      /\ DOMAIN Tail(q) = 1 .. Len(q) - 1 /\ \A i \in 1 .. Len(q) - 1 : Tail(q)[i] = q[i + 1]
  BY <1>3, <1>4
<1> HIDE DEF h, q
<1>6. OneSlotEach' /\ DoneEmpty'
  BY <1>1, <1>2 DEF Flow, OneSlotEach, DoneEmpty
<1>7. \A i \in 1 .. Len(q) - 1 : i + 1 \in 1 .. Len(q)
  BY <1>5
<1>8. \A j \in Slots : (\E k \in DOMAIN rchan'[j] : rchan'[j][k] = Eof) => \E k \in DOMAIN rchan[j] : rchan[j][k] = Eof
  <2>1. ASSUME NEW j \in Slots, NEW k \in DOMAIN rchan'[j], rchan'[j][k] = Eof
        PROVE  \E i \in DOMAIN rchan[j] : rchan[j][i] = Eof
    <3>1. CASE j # h
      BY <1>5, <2>1, <3>1
    <3>2. CASE j = h
      <4>1. k \in 1 .. Len(q) - 1 /\ Tail(q)[k] = Eof
        BY <1>5, <2>1, <3>2
      <4>2. k + 1 \in DOMAIN q /\ q[k + 1] = Eof
        BY <1>5, <1>7, <4>1
      <4> QED
        BY <3>2, <4>2 DEF q
    <3> QED
      BY <3>1, <3>2
  <2> QED
    BY <2>1
<1>9. \A v \in Worker : got[v] \subseteq got'[v] /\ (v # w => got'[v] = got[v])
  BY <1>3, <1>4 DEF Takes, TakesEof
<1>10. \A v \in Worker : ended'[v] => ended[v] \/ (v = w /\ Head(q) = Eof)
  <2>1. CASE Head(q) = Eof
    <3>1. ended' = [ended EXCEPT ![w] = TRUE]
      BY <1>4, <2>1 DEF TakesEof
    <3> QED
      BY <1>3, <2>1, <3>1
  <2>2. CASE Head(q) # Eof
    BY <1>4, <2>2 DEF Takes
  <2> QED
    BY <2>1, <2>2
<1>11. Fresh' /\ AllOffered' /\ NoFileLost'
  <2>1. Fresh'
    <3>1. ASSUME NEW v \in Worker, ~Given(v)' PROVE got'[v] = {} /\ ~ended'[v]
      BY <1>1, <1>9, <1>10, <3>1 DEF Flow, Fresh, Given
    <3> QED
      BY <3>1 DEF Fresh
  <2>2. AllOffered'
    BY <1>1, <1>2, <1>10 DEF Flow, AllOffered
  <2>3. NoFileLost'
    BY <1>1, <1>9 DEF Flow, NoFileLost
  <2> QED
    BY <2>1, <2>2, <2>3
<1>12. \A j \in Slots : EofOut(j)' => EofOut(j)
  <2> SUFFICES ASSUME NEW j \in Slots, EofOut(j)' PROVE EofOut(j)
    OBVIOUS
  <2>1. CASE \E k \in DOMAIN rchan'[j] : rchan'[j][k] = Eof
    BY <1>8, <2>1 DEF EofOut
  <2>2. ASSUME NEW r \in Worker, IsReducerOf(r, j)', ended'[r] PROVE EofOut(j)
    <3>1. IsReducerOf(r, j)
      BY <1>1, <2>2 DEF IsReducerOf, Reducer
    <3>2. CASE ended[r]
      BY <3>1, <3>2 DEF EofOut
    <3>3. CASE r = w /\ Head(q) = Eof
      <4>1. j = h
        BY <1>1, <3>1, <3>3 DEF IsReducerOf
      <4>2. 1 \in DOMAIN rchan[j] /\ rchan[j][1] = Eof
        BY <1>5, <3>3, <4>1 DEF q
      <4> QED
        BY <4>2 DEF EofOut
    <3> QED
      BY <1>10, <2>2, <3>2, <3>3
  <2> QED
    BY <2>1, <2>2 DEF EofOut
<1>13. Mapped' = Mapped
  BY <1>1, <1>2, <1>9 DEF Mapped
<1>14. EofLast'
  BY <1>1, <1>2, <1>12, <1>13 DEF Flow, EofLast
<1>15. ASSUME NEW j \in Slots, NEW n \in Nat, Told(j, n) PROVE Told(j, n)'
  <2>1. ASSUME NEW r \in Worker, IsReducerOf(r, j), n \in got[r] PROVE Told(j, n)'
    BY <1>1, <1>9, <2>1 DEF Told, IsReducerOf, Reducer
  <2>2. ASSUME NEW k \in DOMAIN rchan[j], rchan[j][k] = n, \A l \in 1 .. k - 1 : rchan[j][l] # Eof
        PROVE  Told(j, n)'
    <3>1. CASE j # h
      BY <1>5, <2>2, <3>1 DEF Told
    <3>2. CASE j = h /\ k = 1
      <4>1. n = Head(q) /\ Head(q) # Eof
        BY <1>5, <2>2, <3>2 DEF q, Eof
      <4>2. n \in got'[w]
        BY <1>3, <1>4, <4>1 DEF Takes
      <4>3. IsReducerOf(w, j)'
        BY <1>1, <3>2 DEF IsReducerOf, Reducer
      <4> QED
        BY <4>2, <4>3 DEF Told
    <3>3. CASE j = h /\ k # 1
      <4>1. k \in 1 .. Len(q) /\ k - 1 \in 1 .. Len(q) - 1 /\ (k - 1) + 1 = k
        BY <1>5, <2>2, <3>3 DEF q
      <4>2. rchan'[j][k - 1] = n /\ k - 1 \in DOMAIN rchan'[j]
        BY <1>5, <2>2, <3>3, <4>1 DEF q
      <4>3. ASSUME NEW l \in 1 .. (k - 1) - 1 PROVE rchan'[j][l] # Eof
        <5>1. l \in 1 .. Len(q) - 1 /\ l + 1 \in 1 .. k - 1
          BY <4>1
        <5> QED
          BY <1>5, <2>2, <3>3, <5>1 DEF q
      <4> QED
        BY <4>2, <4>3 DEF Told
    <3> QED
      BY <3>1, <3>2, <3>3
  <2> QED
    BY <1>15, <2>1, <2>2 DEF Told
<1>16. \A m \in Mappers : fd[m].n \in Nat
  BY DEF Mappers, Mapper, Base, TypeOK, Conns, NoConn
<1>17. AllTold'
  <2> SUFFICES ASSUME NEW m \in Mapped', NEW j \in Slots, SentTo(m, j)' PROVE Told(j, fd[m].n)'
    BY DEF AllTold
  <2>1. m \in Mapped /\ SentTo(m, j) /\ fd'[m] = fd[m] /\ fd[m].n \in Nat
    BY <1>1, <1>2, <1>13, <1>16 DEF Mapped
  <2>2. Told(j, fd[m].n)
    BY <2>1 DEF Flow, AllTold
  <2> QED
    BY <1>15, <2>1, <2>2
<1> QED
  BY <1>6, <1>11, <1>14, <1>17 DEF Flow

\* What serve() appends comes after what was there.
LEMMA ToldStays ==
    ASSUME Base, NEW x \in Nat \cup {Eof}, Send(x), UNCHANGED <<got, fd>>,
           NEW j \in Slots, NEW n \in Nat, Told(j, n)
    PROVE  Told(j, n)'
<1>1. /\ rchan'[slot] = Append(rchan[slot], x) /\ rchan[slot] \in Seq(Nat \cup {Eof})
      /\ slot \in Slots /\ \A i \in Slots : i # slot => rchan'[i] = rchan[i]
  BY SendTypes
<1>2. /\ DOMAIN rchan[slot] = 1 .. Len(rchan[slot]) /\ Len(rchan[slot]) \in Nat
      /\ DOMAIN rchan'[slot] = 1 .. Len(rchan[slot]) + 1
      /\ \A k \in 1 .. Len(rchan[slot]) : rchan'[slot][k] = rchan[slot][k]
  BY <1>1
<1>3. ASSUME NEW k \in DOMAIN rchan[j], rchan[j][k] = n, \A l \in 1 .. k - 1 : rchan[j][l] # Eof
      PROVE  Told(j, n)'
  <2>1. CASE j # slot
    BY <1>1, <1>3, <2>1 DEF Told
  <2>2. CASE j = slot
    <3>1. k \in 1 .. Len(rchan[slot]) /\ \A l \in 1 .. k - 1 : l \in 1 .. Len(rchan[slot])
      BY <1>2, <1>3, <2>2
    <3>2. k \in DOMAIN rchan'[j] /\ rchan'[j][k] = n /\ \A l \in 1 .. k - 1 : rchan'[j][l] # Eof
      BY <1>2, <1>3, <2>2, <3>1, SMTT(60)
    <3> QED
      BY <3>2 DEF Told
  <2> QED
    BY <2>1, <2>2
<1>4. ASSUME NEW r \in Worker, IsReducerOf(r, j), n \in got[r] PROVE Told(j, n)'
  BY <1>4 DEF Told, IsReducerOf, Reducer
<1> QED
  BY <1>3, <1>4 DEF Told

LEMMA SendNameFlow ==
    ASSUME Mortal = {}, Base, Counts, EndsAtEof, Flow, SendName, Counts' PROVE Flow'
<1>1. /\ serve = "names" /\ Send(cur.n)
      /\ UNCHANGED <<cur, conns, mcnt, rcnt, fd, got, ended, feed, pc>>
  BY DEF SendName
<1>2. cur \in Conns /\ cur.n \in Nat /\ cur.n # Eof
  BY <1>1 DEF Base, Serving, TypeOK, Conns, Eof
<1>3. PICK c \in Worker : /\ fd[c] = cur /\ pc[c] = "gone" /\ Given(c)
                          /\ \A v \in Worker : fd[v] = cur => v = c
                          /\ c \in Mappers \ SentMappers
  BY <1>1, CurMapper
<1>4. Mappers' = Mappers /\ Reducers' = Reducers /\ Mapped' = Mapped /\ Mapped \subseteq Mappers
      /\ Mappers \subseteq Worker
  BY <1>1 DEF Mappers, Reducers, Mapper, Reducer, Mapped
<1>5. /\ rchan'[slot] = Append(rchan[slot], cur.n) /\ rchan[slot] \in Seq(Nat \cup {Eof})
      /\ slot \in Slots /\ \A i \in Slots : i # slot => rchan'[i] = rchan[i]
  BY <1>1, <1>2, SendTypes
<1>6. /\ DOMAIN rchan[slot] = 1 .. Len(rchan[slot]) /\ Len(rchan[slot]) \in Nat
      /\ DOMAIN rchan'[slot] = 1 .. Len(rchan[slot]) + 1
      /\ rchan'[slot][Len(rchan[slot]) + 1] = cur.n
      /\ \A k \in 1 .. Len(rchan[slot]) : rchan'[slot][k] = rchan[slot][k]
  BY <1>2, <1>5
<1>7. \A j \in Slots : EofOut(j)' => EofOut(j)
  <2>1. ASSUME NEW j \in Slots, NEW k \in DOMAIN rchan'[j], rchan'[j][k] = Eof
        PROVE  \E l \in DOMAIN rchan[j] : rchan[j][l] = Eof
    BY <1>2, <1>5, <1>6, <2>1, SMTT(60)
  <2> QED
    BY <1>1, <2>1 DEF EofOut, IsReducerOf, Reducer
<1>8. SentMappers \subseteq SentMappers'
  BY <1>1, <1>3, <1>4 DEF SentMappers, Sent, Listed, SendName
<1>9. serve' = "eofs" => (\A d \in Root : feed[d] = <<>>) /\ Mapped \subseteq SentMappers'
  <2> SUFFICES ASSUME serve' = "eofs" PROVE (\A d \in Root : feed[d] = <<>>) /\ Mappers \subseteq SentMappers'
    BY <1>4
  <2>1. mcnt' = mxcnt'
    BY <1>1 DEF SendName, AllMapped
  <2>2. SentMappers' \subseteq Mappers /\ Cardinality(SentMappers') = Cardinality(Mappers)
    BY <1>4, <2>1 DEF Counts, SentMappers
  <2>3. SentMappers' = Mappers
    BY <2>2, MappersFinite, FS_Subset
  <2>4. ended[c]
    BY <1>3 DEF EndsAtEof
  <2> QED
    BY <1>3, <2>3, <2>4 DEF Flow, AllOffered
<1>10. EofLast'
  <2>1. CASE serve' = "eofs"
    BY <1>1, <1>4, <1>9, <2>1 DEF EofLast
  <2>2. CASE serve' # "eofs"
    BY <1>1, <1>4, <1>7, <1>8, <2>2 DEF EofLast, Flow
  <2> QED
    BY <2>1, <2>2
<1>11. ASSUME NEW m \in Mapped', NEW j \in Slots, SentTo(m, j)' PROVE Told(j, fd[m].n)'
  <2>1. m \in Mapped /\ m \in Worker /\ fd'[m] = fd[m] /\ fd[m].n \in Nat
    BY <1>1, <1>4 DEF Mappers, Mapper, Base, TypeOK, Conns, NoConn
  <2>2. CASE SentTo(m, j)
    <3>1. Told(j, fd[m].n)
      BY <2>1, <2>2 DEF Flow, AllTold
    <3> QED
      BY <1>1, <1>2, <2>1, <3>1, ToldStays
  <2>3. CASE ~SentTo(m, j)
    <3>1. m = c /\ j = slot
      <4>1. m = c
        BY <1>1, <1>3, <1>11, <2>1, <2>3 DEF SentTo, Sent, Listed
      <4>2. j \in Nat /\ slot \in Nat /\ j < R /\ R \in Nat
        BY <1>5, MapReduceAssumption DEF Slots
      <4>3. ~(j < slot)
        BY <1>1, <1>3, <2>3, <4>1 DEF SentTo
      <4>4. CASE slot + 1 < R
        <5>1. slot' = slot + 1 /\ serve' = "names"
          BY <1>1, <4>4 DEF SendName
        <5>2. ~Sent(m)'
          BY <1>1, <2>3, <5>1 DEF Sent, SentTo, Listed
        <5>3. j < slot + 1
          BY <1>11, <5>1, <5>2 DEF SentTo
        <5> QED
          BY <4>1, <4>2, <4>3, <5>3
      <4>5. CASE ~(slot + 1 < R)
        BY <4>1, <4>2, <4>3, <4>5
      <4> QED
        BY <4>4, <4>5
    <3>2. ~EofOut(slot)
      BY <1>3, <1>5, <2>1, <3>1 DEF Flow, EofLast
    <3>3. \A l \in 1 .. Len(rchan[slot]) : rchan'[slot][l] # Eof
      BY <1>6, <3>2 DEF EofOut
    <3>4. /\ Len(rchan[slot]) + 1 \in DOMAIN rchan'[slot] /\ (Len(rchan[slot]) + 1) - 1 = Len(rchan[slot])
          /\ rchan'[slot][Len(rchan[slot]) + 1] = fd'[m].n
      BY <1>3, <1>6, <2>1, <3>1
    <3> QED
      BY <3>1, <3>3, <3>4 DEF Told
  <2> QED
    BY <2>2, <2>3
<1>12. Fresh' /\ OneSlotEach' /\ AllOffered' /\ NoFileLost'
  BY <1>1, <1>4 DEF Flow, Fresh, OneSlotEach, AllOffered, NoFileLost, Given
<1>13. DoneEmpty'
  BY <1>1 DEF SendName, DoneEmpty
<1>14. AllTold'
  BY <1>11 DEF AllTold
<1> QED
  BY <1>10, <1>12, <1>13, <1>14 DEF Flow

LEMMA SendEofFlow ==
    ASSUME Base, Counts, Flow, SendEof PROVE Flow'
<1>1. /\ serve = "eofs" /\ Send(Eof) /\ serve' \in {"eofs", "remove"}
      /\ UNCHANGED <<cur, conns, mcnt, rcnt, fd, got, ended, feed, pc>>
  BY DEF SendEof, counters
<1>2. Mappers' = Mappers /\ Reducers' = Reducers /\ Mapped' = Mapped
  BY <1>1 DEF Mappers, Reducers, Mapper, Reducer, Mapped
<1>3. SentMappers' = SentMappers /\ \A m \in Mappers, j \in Slots : SentTo(m, j)' => SentTo(m, j)
  BY <1>1, <1>2 DEF SentMappers, SentTo, Sent, Listed
<1>4. EofLast'
  BY <1>1, <1>2, <1>3 DEF Flow, EofLast
<1>5. ASSUME NEW m \in Mapped', NEW j \in Slots, SentTo(m, j)' PROVE Told(j, fd[m].n)'
  <2>1. m \in Mapped /\ m \in Mappers /\ fd'[m] = fd[m] /\ fd[m].n \in Nat
    BY <1>1, <1>2 DEF Mapped, Mappers, Mapper, Base, TypeOK, Conns, NoConn
  <2>2. Told(j, fd[m].n)
    BY <1>3, <1>5, <2>1 DEF Flow, AllTold
  <2>3. Eof \in Nat \cup {Eof}
    OBVIOUS
  <2> QED
    BY <1>1, <2>1, <2>2, <2>3, ToldStays
<1>6. AllTold'
  BY <1>5 DEF AllTold
<1>7. Fresh' /\ OneSlotEach' /\ AllOffered' /\ NoFileLost'
  BY <1>1, <1>2 DEF Flow, Fresh, OneSlotEach, AllOffered, NoFileLost, Given
<1> QED
  BY <1>1, <1>4, <1>6, <1>7 DEF Flow, DoneEmpty

LEMMA DelconnFlow == ASSUME Base, Counts, Flow, NEW x \in delq, Delconn(x) PROVE Flow'
<1>1. /\ serve = "alt" /\ cur' = x[2] /\ slot' = 0
      /\ serve' = IF x[2].wtype = "map" THEN "names" ELSE "remove"
      /\ UNCHANGED <<conns, rcnt, rchan, feed, fd, got, ended>>
  BY DEF Delconn, counters
<1>2. \A m \in Mappers, j \in Slots : SentTo(m, j)' => SentTo(m, j)
  BY <1>1 DEF SentTo, Sent, Listed, Mappers, Mapper, Slots
<1>3. SentMappers \subseteq SentMappers'
  BY <1>1 DEF SentMappers, Sent, Listed, Mappers, Mapper
<1> QED
  BY <1>1, <1>2, <1>3, FlowKept DEF DoneEmpty

LEMMA RemoveFlow == ASSUME Base, Counts, Flow, Remove PROVE Flow'
<1>1. /\ serve = "remove" /\ serve' \in {"done", "alt"} /\ Listed' = Listed \ {cur}
      /\ UNCHANGED <<slot, rcnt, rchan, feed, fd, got, ended>>
  BY RemoveCounts DEF Remove, counters
<1>2. \A m \in Mappers, j \in Slots : SentTo(m, j)' => SentTo(m, j)
  BY <1>1 DEF SentTo, Sent
<1>3. SentMappers \subseteq SentMappers'
  BY <1>1 DEF SentMappers, Sent, Mappers, Mapper
<1>4. DoneEmpty'
  BY RemoveCounts DEF Remove, Complete, DoneEmpty, counters
<1> QED
  BY <1>1, <1>2, <1>3, <1>4, FlowKept

LEMMA FlowStep ==
    ASSUME Mortal = {}, Hasty = {}, Observer = {}, OnePath, Base, Counts, EndsAtEof, Flow, [Next]_vars, Counts'
    PROVE  Flow'
<1>1. ASSUME NEW w \in Worker, OpenClone(w) \/ OpenReply(w) \/ Read(w) \/ Clunk(w) \/ Write(w) PROVE Flow'
  BY <1>1, ServeKeptFlow DEF OpenClone, OpenReply, Read, Clunk, Write, srvVars
<1>2. ASSUME NEW w \in Worker, WorkerStep(w) \/ HastyRead(w) \/ Write(w) \/ Die(w) PROVE Flow'
  <2>1. ~HastyRead(w) /\ ~Die(w)
    BY DEF HastyRead, Die
  <2> QED
    BY <1>1, <1>2, <2>1, MakeConnFlow, ReducerTakesFlow, MapperTakesFlow DEF WorkerStep
<1>3. CASE ServeStep
  BY <1>3, SendNameFlow, SendEofFlow, DelconnFlow, RemoveFlow DEF ServeStep
<1>4. CASE UNCHANGED vars
  BY <1>4, ServeKeptFlow DEF vars, srvVars
<1> QED
  BY <1>2, <1>3, <1>4 DEF Next, Exited

\* A reduce worker reads its end of file when it has read every name.
LEMMA SeesAllStep ==
    ASSUME Mortal = {}, Hasty = {}, Observer = {}, OnePath, Base, Counts, Flow, ReducerSeesAll, [Next]_vars
    PROVE  ReducerSeesAll'
<1>1. ASSUME UNCHANGED <<feed, fd, got, ended>> PROVE ReducerSeesAll'
  BY <1>1 DEF ReducerSeesAll, Reducer, Mapper
<1>2. ASSUME NEW w \in Worker, MakeConn(w) PROVE ReducerSeesAll'
  <2>0. pc[w] = "cloning" /\ UNCHANGED <<feed, got, ended>>
    BY <1>2 DEF MakeConn
  <2>1. ASSUME NEW t \in {"map", "reduce"}, NEW k \in Nat,
               NewConn(w, [n |-> Number, wtype |-> t, msplit |-> k])
        PROVE  ReducerSeesAll'
    <3>1. /\ ~Given(w) /\ \A v \in Worker : v # w => fd'[v] = fd[v]
      BY <2>0, <2>1, NewConnListed
    <3>2. got[w] = {} /\ ~ended[w]
      BY <3>1 DEF Flow, Fresh
    <3> QED
      BY <2>0, <3>1, <3>2 DEF ReducerSeesAll, Reducer, Mapper
  <2>2. CASE UNCHANGED fd
    BY <1>1, <2>0, <2>2
  <2> QED
    BY <1>2, <2>1, <2>2, MakeConnCases
<1>3. ASSUME NEW w \in Worker, NEW d \in Root, MapperTakes(w, d) PROVE ReducerSeesAll'
  <2>1. Mapper(w) /\ ~Reducer(w) /\ fd' = fd /\ got \in [Worker -> SUBSET (Files \cup Nat)]
        /\ ended \in [Worker -> BOOLEAN]
    BY <1>3 DEF MapperTakes, Mapper, Reducer, Base, TypeOK
  <2>2. CASE feed[d] # <<>> /\ Takes(w, Head(feed[d]))
    BY <2>1, <2>2 DEF Takes, ReducerSeesAll, Reducer
  <2>3. CASE TakesEof(w) /\ UNCHANGED feed
    <3>1. got' = got /\ \A v \in Worker : v # w => ended'[v] = ended[v]
      BY <2>1, <2>3 DEF TakesEof
    <3> QED
      BY <2>1, <2>3, <3>1 DEF ReducerSeesAll, Reducer, Mapper
  <2> QED
    BY <1>3, <2>2, <2>3 DEF MapperTakes
<1>4. ASSUME NEW w \in Worker, ReducerTakes(w) PROVE ReducerSeesAll'
  <2> DEFINE h == fd[w].msplit
             q == rchan[h]
  <2>1. Reducer(w) /\ ~Mapper(w) /\ UNCHANGED <<fd, feed>> /\ IsReducerOf(w, h) /\ h \in Slots
        /\ got \in [Worker -> SUBSET (Files \cup Nat)] /\ ended \in [Worker -> BOOLEAN]
        /\ rchan \in [Slots -> Seq(Nat \cup {Eof})]
    BY <1>4, ReducerSlot DEF ReducerTakes, Mapper, Reducer, IsReducerOf, Base, TypeOK
  <2>2. q # <<>> /\ IF Head(q) = Eof THEN TakesEof(w) ELSE Takes(w, Head(q))
    BY <1>4 DEF ReducerTakes
  <2>3. q \in Seq(Nat \cup {Eof}) /\ 1 \in DOMAIN q /\ q[1] = Head(q) /\ DOMAIN q = 1 .. Len(q)
    BY <2>1, <2>2
  <2> HIDE DEF h, q
  <2>4. CASE Head(q) # Eof
    <3>1. ended' = ended /\ \A v \in Worker : got[v] \subseteq got'[v] /\ (v # w => got'[v] = got[v])
      BY <2>1, <2>2, <2>4 DEF Takes
    <3> QED
      BY <2>1, <3>1 DEF ReducerSeesAll, Reducer, Mapper
  <2>5. CASE Head(q) = Eof
    <3>1. got' = got /\ \A v \in Worker : v # w => ended'[v] = ended[v]
      BY <2>1, <2>2, <2>5 DEF TakesEof
    <3>2. EofOut(h)
      BY <2>3, <2>5 DEF EofOut, q
    <3>3. (\A d \in Root : feed[d] = <<>>) /\ Mapped \subseteq SentMappers
      BY <2>1, <3>2 DEF Flow, EofLast
    <3>4. ASSUME NEW m \in Worker, Mapper(m), got[m] # {} PROVE fd[m].n \in got[w]
      <4>1. m \in Mapped /\ SentTo(m, h) /\ fd[m].n \in Nat
        BY <3>3, <3>4 DEF Mapped, Mappers, SentMappers, SentTo, Mapper, Base, TypeOK, Conns, NoConn
      <4>2. Told(h, fd[m].n)
        BY <2>1, <4>1 DEF Flow, AllTold
      <4>3. ASSUME NEW k \in DOMAIN q, q[k] = fd[m].n, \A l \in 1 .. k - 1 : q[l] # Eof PROVE FALSE
        <5>1. k # 1
          BY <2>3, <2>5, <4>1, <4>3 DEF Eof
        <5>2. 1 \in 1 .. k - 1
          BY <2>3, <5>1
        <5> QED
          BY <2>3, <2>5, <4>3, <5>2
      <4>4. PICK r \in Worker : IsReducerOf(r, h) /\ fd[m].n \in got[r]
        BY <4>2, <4>3 DEF Told, q
      <4>5. r = w
        BY <2>1, <4>4 DEF Flow, OneSlotEach, Reducers, IsReducerOf
      <4> QED
        BY <4>4, <4>5
    <3> QED
      BY <2>1, <3>1, <3>3, <3>4 DEF ReducerSeesAll, Reducer, Mapper
  <2> QED
    BY <2>4, <2>5
<1>5. ASSUME NEW w \in Worker, WorkerStep(w) \/ HastyRead(w) \/ Write(w) \/ Die(w) PROVE ReducerSeesAll'
  BY <1>1, <1>2, <1>3, <1>4, <1>5
  DEF WorkerStep, OpenClone, OpenReply, Read, Clunk, HastyRead, Write, Die
<1>6. CASE ServeStep
  BY <1>1, <1>6 DEF ServeStep, SendName, SendEof, Delconn, Remove
<1>7. CASE UNCHANGED vars
  BY <1>1, <1>7 DEF vars
<1> QED
  BY <1>5, <1>6, <1>7 DEF Next, Exited

FlowInv == Base /\ Counts /\ EndsAtEof /\ Flow /\ ReducerSeesAll

LEMMA FlowInvHolds ==
    ASSUME Mortal = {}, Hasty = {}, Observer = {}, OnePath
    PROVE  Spec => []FlowInv
<1>1. Init => FlowInv
  BY BaseInit, CountsInit, FlowInit DEF Init, EndsAtEof, FlowInv, ReducerSeesAll
<1>2. FlowInv /\ [Next]_vars => FlowInv'
  BY BaseStep, CountsStep, EndsStep, FlowStep, SeesAllStep DEF Counts, FlowInv
<1> QED
  BY <1>1, <1>2, PTL DEF Spec

\* Nobody kills or looks, and mapreduce has one path: what a map worker wrote
\* is reduced, because the end of file is behind its name in every rchan.
THEOREM ReducersSeeAll ==
    ASSUME Mortal = {}, Hasty = {}, Observer = {}, OnePath
    PROVE  Spec => []ReducerSeesAll
<1>1. FlowInv => ReducerSeesAll
  BY DEF FlowInv
<1> QED
  BY <1>1, FlowInvHolds, PTL

LEMMA DoneAllEnded ==
    ASSUME FlowInv, Mortal = {}, serve = "done"
    PROVE  DoneMeansComplete
<1>1. Listed = {} /\ rcnt = R
  BY DEF FlowInv, Flow, DoneEmpty, Listed
<1>2. ASSUME NEW w \in Worker, Given(w) PROVE ended[w]
  <2>1. ~Open(w) /\ pc[w] \notin {"new", "cloning"} /\ pc[w] \in Labels
    BY <1>1, <1>2 DEF FlowInv, Base, Counts, Closing, Numbered, TypeOK, Labels
  <2>2. pc[w] = "gone"
    BY <2>1 DEF Open, Labels
  <2> QED
    BY <2>2 DEF FlowInv, EndsAtEof
<1>3. \A w \in Worker : Reducer(w) => ended[w]
  BY <1>2 DEF Reducer, Given, NoConn
<1>4. Cardinality(Reducers) = R
  BY <1>1 DEF FlowInv, Counts
<1>5. PICK r \in Worker : Reducer(r)
  <2>1. Reducers # {}
    BY <1>4, FS_EmptySet, MapReduceAssumption
  <2> QED
    BY <2>1 DEF Reducers
<1>6. \A d \in Root : feed[d] = <<>>
  BY <1>3, <1>5 DEF FlowInv, ReducerSeesAll
<1>7. Files \subseteq UNION {got[w] : w \in Worker}
  <2> SUFFICES ASSUME NEW d \in Root, NEW i \in DOMAIN Tree[d] PROVE \E w \in Worker : Tree[d][i] \in got[w]
    BY DEF Files
  <2>1. DOMAIN feed[d] = {}
    BY <1>6
  <2> QED
    BY <2>1 DEF FlowInv, Flow, NoFileLost
<1> QED
  BY <1>3, <1>4, <1>7 DEF DoneMeansComplete, Reducers

\* Under the same conditions the master is only done when every file was
\* mapped and all R reduce workers read to their end of file.
THEOREM DoneIsComplete ==
    ASSUME Mortal = {}, Hasty = {}, Observer = {}, OnePath
    PROVE  Spec => []DoneMeansComplete
<1>1. FlowInv => DoneMeansComplete
  BY DoneAllEnded DEF DoneMeansComplete
<1> QED
  BY <1>1, FlowInvHolds, PTL
=============================================================================
