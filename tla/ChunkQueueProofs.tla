-------------------------- MODULE ChunkQueueProofs --------------------------
(***************************************************************************)
(* Proofs about ChunkQueue: for any hosts and chunks, and any number of    *)
(* writes, no accepted chunk is lost or handed out twice, whatever the     *)
(* random positions nextdisk draws, and end of file is only answered when  *)
(* every accepted chunk was returned.                                      *)
(*                                                                         *)
(* nextdisk copies, reverses and cuts the list.  Every list it makes is    *)
(* l[f[1]], l[f[2]], ... for some f that repeats no place and misses no    *)
(* record with a chunk: that is all the lemma Rearranged needs.            *)
(***************************************************************************)
EXTENDS ChunkQueue, SequenceTheorems, FiniteSetTheorems, TLAPS

HostQ == [host : Hosts, clist : Seq(Chunks)]

\* One record for a host, one place for a chunk in a clist.
Sound(l) ==
    /\ \A i, j \in DOMAIN l : l[i].host = l[j].host => i = j
    /\ \A i \in DOMAIN l : \A a, b \in DOMAIN l[i].clist :
          l[i].clist[a] = l[i].clist[b] => a = b

\* Whether a record holds a pair, and the pairs a list holds.
Has(r, p) == r.host = p[2] /\ \E a \in DOMAIN r.clist : r.clist[a] = p[1]
PairsOf(l) == {p \in Pairs : \E i \in DOMAIN l : Has(l[i], p)}

CQTypeOK ==
    /\ hostl \in Seq(HostQ)
    /\ pc \in {"alt", "nextdisk", "dead"}
    /\ answer \in Pairs \cup {NoChunk}
    /\ accepted \in [Pairs -> 0 .. MaxWrites]
    /\ delivered \in [Pairs -> Nat]

Balanced == \A p \in Pairs :
    accepted[p] - delivered[p] = IF p \in PairsOf(hostl) THEN 1 ELSE 0

IInv == CQTypeOK /\ Sound(hostl) /\ Balanced

-----------------------------------------------------------------------------
\* The list new is m records of l, in the places f gives: none twice, and none
\* that holds a chunk left out.
Picks(l, new, m, f) ==
    /\ m \in Nat /\ f \in [1 .. m -> DOMAIN l]
    /\ \A i, j \in 1 .. m : f[i] = f[j] => i = j
    /\ \A i \in DOMAIN l : l[i].clist # <<>> => \E j \in 1 .. m : f[j] = i
    /\ new \in Seq(HostQ) /\ Len(new) = m /\ \A i \in 1 .. m : new[i] = l[f[i]]

LEMMA Rearranged ==
    ASSUME NEW l \in Seq(HostQ), Sound(l), NEW new, NEW m, NEW f, Picks(l, new, m, f)
    PROVE  Sound(new) /\ PairsOf(new) = PairsOf(l)
<1> USE DEF Picks
<1>0. DOMAIN l = 1 .. Len(l) /\ \A i \in DOMAIN l : l[i] \in HostQ
  OBVIOUS
<1>1. DOMAIN new = 1 .. m /\ \A i \in 1 .. m : f[i] \in DOMAIN l /\ new[i] = l[f[i]]
  OBVIOUS
<1>3. Sound(new)
  <2>1. ASSUME NEW i \in 1 .. m, NEW j \in 1 .. m, new[i].host = new[j].host PROVE i = j
    BY <1>1, <2>1 DEF Sound
  <2>2. ASSUME NEW i \in 1 .. m, NEW a \in DOMAIN new[i].clist, NEW b \in DOMAIN new[i].clist,
               new[i].clist[a] = new[i].clist[b]
        PROVE  a = b
    BY <1>1, <2>2 DEF Sound
  <2> QED
    BY <1>1, <2>1, <2>2 DEF Sound
<1>4. ASSUME NEW p \in PairsOf(new) PROVE p \in PairsOf(l)
  BY <1>1 DEF PairsOf
<1>5. ASSUME NEW p \in PairsOf(l) PROVE p \in PairsOf(new)
  <2>1. PICK i \in DOMAIN l : Has(l[i], p)
    BY DEF PairsOf
  <2>2. l[i].clist # <<>>
    BY <2>1 DEF Has
  <2>3. PICK j \in 1 .. m : f[j] = i
    BY <2>2
  <2>4. j \in DOMAIN new /\ new[j] = l[i]
    BY <1>1, <2>3
  <2> QED
    BY <2>1, <2>4 DEF PairsOf
<1>6. PairsOf(new) = PairsOf(l)
  BY <1>4, <1>5
<1> QED
  BY <1>3, <1>6

\* Taking the first chunk of a record takes that pair, and no other.
LEMMA HeadTaken ==
    ASSUME NEW l \in Seq(HostQ), Sound(l), NEW k \in DOMAIN l, l[k].clist # <<>>,
           NEW rest, rest = [l EXCEPT ![k].clist = Tail(l[k].clist)],
           NEW p, p = <<Head(l[k].clist), l[k].host>>
    PROVE  /\ p \in Pairs /\ p \in PairsOf(l) /\ rest \in Seq(HostQ) /\ Sound(rest)
           /\ PairsOf(rest) = PairsOf(l) \ {p}
<1> DEFINE c == l[k].clist
<1>0. DOMAIN l = 1 .. Len(l) /\ \A i \in DOMAIN l : l[i] \in HostQ
  OBVIOUS
<1>1. c \in Seq(Chunks) /\ c # <<>> /\ l[k].host \in Hosts
  BY <1>0 DEF HostQ
<1>2. /\ DOMAIN c = 1 .. Len(c) /\ Len(c) \in Nat /\ Len(c) > 0 /\ Head(c) = c[1] /\ c[1] \in Chunks
      /\ Tail(c) \in Seq(Chunks) /\ DOMAIN Tail(c) = 1 .. Len(c) - 1
      /\ \A a \in 1 .. Len(c) - 1 : Tail(c)[a] = c[a + 1]
  BY <1>1
<1>3. p \in Pairs /\ p[1] = c[1] /\ p[2] = l[k].host
  BY <1>1, <1>2 DEF Pairs
<1>4. p \in PairsOf(l)
  BY <1>2, <1>3 DEF PairsOf, Has
<1>5. /\ DOMAIN rest = DOMAIN l
      /\ \A i \in DOMAIN l : rest[i].host = l[i].host
      /\ \A i \in DOMAIN l : i # k => rest[i] = l[i]
      /\ rest[k].clist = Tail(c)
      /\ rest[k] \in HostQ
  BY <1>0, <1>1, <1>2 DEF HostQ
<1>6. rest \in Seq(HostQ)
  BY <1>0, <1>5
<1>7. Sound(rest)
  <2>1. ASSUME NEW a \in DOMAIN rest[k].clist, NEW b \in DOMAIN rest[k].clist,
               rest[k].clist[a] = rest[k].clist[b]
        PROVE  a = b
    <3>1. a \in 1 .. Len(c) - 1 /\ b \in 1 .. Len(c) - 1 /\ c[a + 1] = c[b + 1]
      BY <1>2, <1>5, <2>1
    <3>2. a + 1 = b + 1
      BY <3>1, <1>2 DEF Sound
    <3> QED
      BY <3>1, <3>2
  <2>2. ASSUME NEW i \in DOMAIN rest, NEW a \in DOMAIN rest[i].clist, NEW b \in DOMAIN rest[i].clist,
               rest[i].clist[a] = rest[i].clist[b]
        PROVE  a = b
    <3>1. CASE i = k
      BY <2>1, <2>2, <3>1
    <3>2. CASE i # k
      <4>1. i \in DOMAIN l /\ rest[i] = l[i]
        BY <1>5, <3>2
      <4>2. a \in DOMAIN l[i].clist /\ b \in DOMAIN l[i].clist /\ l[i].clist[a] = l[i].clist[b]
        BY <2>2, <4>1
      <4> QED
        BY <4>1, <4>2 DEF Sound
    <3> QED
      BY <3>1, <3>2
  <2>3. \A i, j \in DOMAIN rest : rest[i].host = rest[j].host => i = j
    BY <1>5 DEF Sound
  <2> QED
    BY <2>2, <2>3 DEF Sound
<1>8. ASSUME NEW q \in PairsOf(rest) PROVE q \in PairsOf(l) \ {p}
  <2>1. PICK i \in DOMAIN l : Has(rest[i], q)
    BY <1>5 DEF PairsOf
  <2>2. CASE i # k
    BY <1>3, <1>5, <2>1, <2>2 DEF PairsOf, Sound, Has
  <2>3. CASE i = k
    <3>1. PICK a \in 1 .. Len(c) - 1 : c[a + 1] = q[1]
      <4>1. PICK a \in DOMAIN rest[k].clist : rest[k].clist[a] = q[1]
        BY <2>1, <2>3 DEF Has
      <4>2. a \in 1 .. Len(c) - 1 /\ Tail(c)[a] = q[1]
        BY <1>2, <1>5, <4>1
      <4>3. c[a + 1] = q[1]
        BY <1>2, <4>2
      <4> QED
        BY <4>2, <4>3
    <3>2. a + 1 \in DOMAIN c /\ 1 \in DOMAIN c /\ a + 1 # 1
      BY <1>2, <3>1
    <3>3. q[1] # p[1]
      BY <1>3, <3>1, <3>2 DEF Sound
    <3>4. Has(l[k], q)
      BY <1>5, <2>1, <2>3, <3>1, <3>2 DEF Has
    <3> QED
      BY <3>3, <3>4 DEF PairsOf
  <2> QED
    BY <2>2, <2>3
<1>9. ASSUME NEW q \in PairsOf(l), q # p PROVE q \in PairsOf(rest)
  <2>1. PICK i \in DOMAIN l : Has(l[i], q)
    BY DEF PairsOf
  <2>2. CASE i # k
    BY <1>5, <2>1, <2>2 DEF PairsOf
  <2>3. CASE i = k
    <3>1. PICK a \in DOMAIN c : c[a] = q[1]
      BY <2>1, <2>3 DEF Has
    <3>2. a # 1
      BY <1>3, <2>1, <2>3, <3>1, <1>9 DEF PairsOf, Pairs, Has
    <3>3. a \in 1 .. Len(c)
      BY <1>2, <3>1
    <3>4. a - 1 \in 1 .. Len(c) - 1 /\ (a - 1) + 1 = a
      BY <1>2, <3>2, <3>3
    <3>5. Tail(c)[a - 1] = q[1]
      BY <1>2, <3>1, <3>4
    <3>6. Has(rest[k], q)
      BY <1>2, <1>5, <2>1, <2>3, <3>4, <3>5 DEF Has
    <3> QED
      BY <1>5, <3>6 DEF PairsOf
  <2> QED
    BY <2>2, <2>3
<1>10. PairsOf(rest) = PairsOf(l) \ {p}
  BY <1>8, <1>9
<1> HIDE DEF c
<1> QED
  BY <1>3, <1>4, <1>6, <1>7, <1>10

-----------------------------------------------------------------------------
LEMMA InitHolds == Init => IInv
<1> SUFFICES ASSUME Init PROVE IInv
  OBVIOUS
<1>1. hostl = <<>> /\ PairsOf(hostl) = {} /\ Sound(hostl) /\ hostl \in Seq(HostQ)
  BY DEF Init, PairsOf, Sound
<1> QED
  BY <1>1, ChunkQueueAssumption DEF Init, IInv, CQTypeOK, Balanced, NoChunk

\* A chunk that the host's record does not hold yet is put in front.
LEMMA WriteKnown ==
    ASSUME NEW l \in Seq(HostQ), Sound(l), NEW k \in DOMAIN l, NEW c \in Chunks,
           ~Contains(l[k].clist, c),
           NEW new, new = [l EXCEPT ![k].clist = <<c>> \o @]
    PROVE  /\ new \in Seq(HostQ) /\ Sound(new) /\ <<c, l[k].host>> \notin PairsOf(l)
           /\ PairsOf(new) = PairsOf(l) \cup {<<c, l[k].host>>}
<1> DEFINE cl == l[k].clist
           p == <<c, l[k].host>>
<1>0. DOMAIN l = 1 .. Len(l) /\ \A i \in DOMAIN l : l[i] \in HostQ
  OBVIOUS
<1>1. cl \in Seq(Chunks) /\ l[k].host \in Hosts /\ DOMAIN cl = 1 .. Len(cl) /\ Len(cl) \in Nat
  BY <1>0 DEF HostQ
<1>2. \A a \in 1 .. Len(cl) : cl[a] # c
  BY DEF Contains
<1>3. /\ <<c>> \o cl \in Seq(Chunks) /\ DOMAIN (<<c>> \o cl) = 1 .. Len(cl) + 1
      /\ (<<c>> \o cl)[1] = c /\ \A a \in 2 .. Len(cl) + 1 : (<<c>> \o cl)[a] = cl[a - 1]
  BY <1>1
<1>4. /\ DOMAIN new = DOMAIN l
      /\ \A i \in DOMAIN l : new[i].host = l[i].host
      /\ \A i \in DOMAIN l : i # k => new[i] = l[i]
      /\ new[k].clist = <<c>> \o cl
      /\ new[k] \in HostQ
  BY <1>0, <1>1, <1>3 DEF HostQ
<1> HIDE DEF cl
<1>5. new \in Seq(HostQ)
  BY <1>0, <1>4
<1>6. Sound(new)
  <2>1. ASSUME NEW a \in 1 .. Len(cl) + 1, NEW b \in 1 .. Len(cl) + 1,
               (<<c>> \o cl)[a] = (<<c>> \o cl)[b]
        PROVE  a = b
    <3>1. CASE a = 1 \/ b = 1
      <4>1. ASSUME NEW d \in 2 .. Len(cl) + 1 PROVE (<<c>> \o cl)[d] # c
        <5>1. d - 1 \in 1 .. Len(cl)
          BY <1>1
        <5> QED
          BY <1>2, <1>3, <5>1
      <4> QED
        BY <1>1, <1>3, <2>1, <3>1, <4>1
    <3>2. CASE a # 1 /\ b # 1
      <4>1. /\ a - 1 \in 1 .. Len(cl) /\ b - 1 \in 1 .. Len(cl)
            /\ a \in 2 .. Len(cl) + 1 /\ b \in 2 .. Len(cl) + 1
        BY <1>1, <3>2
      <4>2. cl[a - 1] = cl[b - 1]
        BY <1>3, <2>1, <4>1
      <4>3. a - 1 = b - 1
        BY <1>1, <4>1, <4>2 DEF Sound, cl
      <4> QED
        BY <1>1, <4>3
    <3> QED
      BY <3>1, <3>2
  <2>2. ASSUME NEW i \in DOMAIN new, NEW a \in DOMAIN new[i].clist, NEW b \in DOMAIN new[i].clist,
               new[i].clist[a] = new[i].clist[b]
        PROVE  a = b
    <3>1. CASE i = k
      BY <1>3, <1>4, <2>1, <2>2, <3>1, ZenonT(60)
    <3>2. CASE i # k
      <4>1. i \in DOMAIN l /\ new[i] = l[i]
        BY <1>4, <3>2
      <4>2. a \in DOMAIN l[i].clist /\ b \in DOMAIN l[i].clist /\ l[i].clist[a] = l[i].clist[b]
        BY <2>2, <4>1
      <4> QED
        BY <4>1, <4>2 DEF Sound
    <3> QED
      BY <3>1, <3>2
  <2>3. \A i, j \in DOMAIN new : new[i].host = new[j].host => i = j
    BY <1>4 DEF Sound
  <2> QED
    BY <2>2, <2>3 DEF Sound
<1>7. p \in Pairs /\ p[1] = c /\ p[2] = l[k].host
  BY <1>1 DEF Pairs
<1>8. p \notin PairsOf(l)
  <2> SUFFICES ASSUME NEW i \in DOMAIN l, Has(l[i], p) PROVE FALSE
    BY DEF PairsOf
  <2>1. i = k
    BY <1>7 DEF Has, Sound
  <2> QED
    BY <1>1, <1>2, <1>7, <2>1 DEF Has, cl
<1>9. ASSUME NEW q \in PairsOf(new), q # p PROVE q \in PairsOf(l)
  <2>1. PICK i \in DOMAIN l : Has(new[i], q)
    BY <1>4 DEF PairsOf
  <2>2. CASE i # k
    BY <1>4, <2>1, <2>2 DEF PairsOf
  <2>3. CASE i = k
    <3>0. q[2] = l[k].host
      BY <1>4, <2>1, <2>3 DEF Has
    <3>1. q = <<q[1], q[2]>>
      BY DEF PairsOf, Pairs
    <3>7. q[1] # c
      BY <1>9, <3>0, <3>1
    <3>2. PICK a \in 1 .. Len(cl) + 1 : (<<c>> \o cl)[a] = q[1]
      BY <1>3, <1>4, <2>1, <2>3 DEF Has
    <3>3. a \in 2 .. Len(cl) + 1 /\ a - 1 \in 1 .. Len(cl)
      BY <1>1, <1>3, <3>7, <3>2
    <3>4. cl[a - 1] = q[1]
      BY <1>3, <3>2, <3>3
    <3>5. Has(l[k], q)
      BY <1>1, <3>0, <3>3, <3>4 DEF Has, cl
    <3> QED
      BY <3>5 DEF PairsOf
  <2> QED
    BY <2>2, <2>3
<1>10. ASSUME NEW q \in PairsOf(l) PROVE q \in PairsOf(new)
  <2>1. PICK i \in DOMAIN l : Has(l[i], q)
    BY DEF PairsOf
  <2>2. CASE i # k
    BY <1>4, <2>1, <2>2 DEF PairsOf
  <2>3. CASE i = k
    <3>1. PICK a \in 1 .. Len(cl) : cl[a] = q[1]
      BY <1>1, <2>1, <2>3 DEF Has, cl
    <3>2. a + 1 \in 2 .. Len(cl) + 1 /\ a + 1 \in 1 .. Len(cl) + 1 /\ (a + 1) - 1 = a
      BY <1>1
    <3>3. (<<c>> \o cl)[a + 1] = q[1]
      BY <1>3, <3>1, <3>2
    <3>4. Has(new[k], q)
      BY <1>3, <1>4, <2>1, <2>3, <3>2, <3>3, ZenonT(60) DEF Has
    <3> QED
      BY <1>4, <3>4 DEF PairsOf
  <2> QED
    BY <2>2, <2>3
<1>11. p \in PairsOf(new)
  <2>1. 1 \in 1 .. Len(cl) + 1
    BY <1>1
  <2>2. Has(new[k], p)
    BY <1>3, <1>4, <1>7, <2>1 DEF Has
  <2> QED
    BY <1>4, <1>7, <2>2 DEF PairsOf
<1> QED
  BY <1>5, <1>6, <1>8, <1>9, <1>10, <1>11

\* An unknown host gets a record of its own.
LEMMA WriteUnknown ==
    ASSUME NEW l \in Seq(HostQ), Sound(l), NEW c \in Chunks, NEW h \in Hosts,
           \A i \in DOMAIN l : l[i].host # h,
           NEW new, new = <<[host |-> h, clist |-> <<c>>]>> \o l
    PROVE  /\ new \in Seq(HostQ) /\ Sound(new) /\ <<c, h>> \notin PairsOf(l)
           /\ PairsOf(new) = PairsOf(l) \cup {<<c, h>>}
<1> DEFINE r == [host |-> h, clist |-> <<c>>]
<1>1. r \in HostQ /\ r.host = h /\ r.clist = <<c>> /\ <<c>> \in Seq(Chunks) /\ DOMAIN r.clist = {1} /\ r.clist[1] = c
  BY DEF HostQ
<1>2. /\ new \in Seq(HostQ) /\ DOMAIN new = 1 .. Len(l) + 1 /\ new[1] = r
      /\ \A i \in 2 .. Len(l) + 1 : new[i] = l[i - 1] /\ i - 1 \in DOMAIN l
  BY <1>1
<1> HIDE DEF r
<1>3. \A i \in 1 .. Len(l) + 1 : i # 1 => i \in 2 .. Len(l) + 1
  OBVIOUS
<1>4. Sound(new)
  <2>1. ASSUME NEW i \in DOMAIN new, NEW j \in DOMAIN new, new[i].host = new[j].host PROVE i = j
    <3>1. CASE i = 1 \/ j = 1
      BY <1>1, <1>2, <1>3, <2>1, <3>1
    <3>2. CASE i # 1 /\ j # 1
      <4>1. i - 1 \in DOMAIN l /\ j - 1 \in DOMAIN l /\ l[i - 1].host = l[j - 1].host
        BY <1>2, <1>3, <2>1, <3>2
      <4>2. i - 1 = j - 1
        BY <4>1 DEF Sound
      <4> QED
        BY <1>2, <4>2
    <3> QED
      BY <3>1, <3>2
  <2>2. ASSUME NEW i \in DOMAIN new, NEW a \in DOMAIN new[i].clist, NEW b \in DOMAIN new[i].clist,
               new[i].clist[a] = new[i].clist[b]
        PROVE  a = b
    <3>1. CASE i = 1
      BY <1>1, <1>2, <2>2, <3>1
    <3>2. CASE i # 1
      <4>1. i - 1 \in DOMAIN l /\ new[i] = l[i - 1]
        BY <1>2, <1>3, <3>2
      <4> QED
        BY <2>2, <4>1 DEF Sound
    <3> QED
      BY <3>1, <3>2
  <2> QED
    BY <2>1, <2>2 DEF Sound
<1>5. <<c, h>> \in Pairs /\ <<c, h>> \notin PairsOf(l)
  BY DEF Pairs, PairsOf, Has
<1>6. ASSUME NEW q \in PairsOf(new) PROVE q \in PairsOf(l) \cup {<<c, h>>}
  <2>1. PICK i \in DOMAIN new : Has(new[i], q)
    BY DEF PairsOf
  <2>2. CASE i = 1
    BY <1>1, <1>2, <2>1, <2>2 DEF Has, PairsOf, Pairs
  <2>3. CASE i # 1
    BY <1>2, <1>3, <2>1, <2>3 DEF PairsOf
  <2> QED
    BY <2>2, <2>3
<1>7. ASSUME NEW q \in PairsOf(l) PROVE q \in PairsOf(new)
  <2>1. PICK i \in 1 .. Len(l) : Has(l[i], q)
    BY DEF PairsOf
  <2>2. i + 1 \in 2 .. Len(l) + 1 /\ i + 1 \in DOMAIN new /\ (i + 1) - 1 = i
    BY <1>2
  <2>3. new[i + 1] = l[i]
    BY <1>2, <2>2
  <2> QED
    BY <2>1, <2>2, <2>3 DEF PairsOf
<1>8. <<c, h>> \in PairsOf(new)
  <2>1. Has(r, <<c, h>>)
    BY <1>1 DEF Has
  <2>2. 1 \in DOMAIN new /\ Has(new[1], <<c, h>>)
    BY <1>2, <2>1
  <2> QED
    BY <1>5, <2>2 DEF PairsOf
<1> QED
  BY <1>2, <1>4, <1>5, <1>6, <1>7, <1>8

-----------------------------------------------------------------------------
\* The two ways the lists are balanced again after a step.
LEMMA PairAdded ==
    ASSUME IInv, NEW p \in Pairs, p \notin PairsOf(hostl), accepted[p] < MaxWrites,
           accepted' = [accepted EXCEPT ![p] = @ + 1], delivered' = delivered,
           PairsOf(hostl') = PairsOf(hostl) \cup {p}
    PROVE  Balanced' /\ accepted' \in [Pairs -> 0 .. MaxWrites]
<1>1. accepted \in [Pairs -> 0 .. MaxWrites] /\ delivered \in [Pairs -> Nat] /\ MaxWrites \in Nat
  BY ChunkQueueAssumption DEF IInv, CQTypeOK
<1>2. accepted' \in [Pairs -> 0 .. MaxWrites]
  BY <1>1
<1>3. ASSUME NEW q \in Pairs
      PROVE  accepted'[q] - delivered'[q] = IF q \in PairsOf(hostl)' THEN 1 ELSE 0
  BY <1>1 DEF IInv, Balanced
<1> QED
  BY <1>2, <1>3 DEF Balanced

LEMMA PairRemoved ==
    ASSUME IInv, NEW p \in Pairs, p \in PairsOf(hostl),
           delivered' = [delivered EXCEPT ![p] = @ + 1], accepted' = accepted,
           PairsOf(hostl') = PairsOf(hostl) \ {p}
    PROVE  Balanced' /\ delivered' \in [Pairs -> Nat]
<1>1. accepted \in [Pairs -> 0 .. MaxWrites] /\ delivered \in [Pairs -> Nat] /\ MaxWrites \in Nat
  BY ChunkQueueAssumption DEF IInv, CQTypeOK
<1>2. delivered' \in [Pairs -> Nat]
  BY <1>1
<1>3. ASSUME NEW q \in Pairs
      PROVE  accepted'[q] - delivered'[q] = IF q \in PairsOf(hostl)' THEN 1 ELSE 0
  BY <1>1 DEF IInv, Balanced
<1> QED
  BY <1>2, <1>3 DEF Balanced

LEMMA WriteStep ==
    ASSUME IInv, NEW c \in Chunks, NEW h \in Hosts, Write(c, h) PROVE IInv'
<1> DEFINE known == {i \in DOMAIN hostl : hostl[i].host = h}
           isNew == \A i \in known : ~Contains(hostl[i].clist, c)
<1>1. <<c, h>> \in Pairs /\ accepted[<<c, h>>] < MaxWrites /\ delivered' = delivered
  BY DEF Write, Pairs
<1>2. pc' = pc /\ answer' = answer /\ hostl \in Seq(HostQ) /\ Sound(hostl)
      /\ accepted \in [Pairs -> 0 .. MaxWrites]
  BY DEF Write, IInv, CQTypeOK
<1>3. accepted' = IF isNew THEN [accepted EXCEPT ![<<c, h>>] = @ + 1] ELSE accepted
  BY DEF Write
<1>4. CASE known = {}
  <2>1. isNew /\ hostl' = <<[host |-> h, clist |-> <<c>>]>> \o hostl
    BY <1>4 DEF Write
  <2>2. hostl' \in Seq(HostQ) /\ Sound(hostl') /\ <<c, h>> \notin PairsOf(hostl)
        /\ PairsOf(hostl') = PairsOf(hostl) \cup {<<c, h>>}
    BY <1>2, <1>4, <2>1, WriteUnknown, ZenonT(60)
  <2>3. accepted' = [accepted EXCEPT ![<<c, h>>] = @ + 1]
    BY <1>3, <2>1
  <2>4. Balanced' /\ accepted' \in [Pairs -> 0 .. MaxWrites]
    BY <1>1, <2>2, <2>3, PairAdded
  <2> QED
    BY <1>1, <1>2, <2>2, <2>4 DEF IInv, CQTypeOK
<1>5. ASSUME NEW k \in known, 
             hostl' = IF isNew THEN [hostl EXCEPT ![k].clist = <<c>> \o @] ELSE hostl
      PROVE  IInv'
  <2>0. known = {k} /\ k \in DOMAIN hostl /\ hostl[k].host = h
    BY DEF IInv, Sound
  <2>1. CASE isNew
    <3>1. ~Contains(hostl[k].clist, c) /\ hostl' = [hostl EXCEPT ![k].clist = <<c>> \o @]
      BY <1>5, <2>1
    <3>2. hostl' \in Seq(HostQ) /\ Sound(hostl') /\ <<c, h>> \notin PairsOf(hostl)
          /\ PairsOf(hostl') = PairsOf(hostl) \cup {<<c, h>>}
      BY <1>2, <2>0, <3>1, WriteKnown
    <3>3. accepted' = [accepted EXCEPT ![<<c, h>>] = @ + 1]
      BY <1>3, <2>1
    <3>4. Balanced' /\ accepted' \in [Pairs -> 0 .. MaxWrites]
      BY <1>1, <3>2, <3>3, PairAdded
    <3> QED
      BY <1>1, <1>2, <3>2, <3>4 DEF IInv, CQTypeOK
  <2>2. CASE ~isNew
    <3>1. hostl' = hostl /\ accepted' = accepted
      BY <1>3, <1>5, <2>2
    <3> QED
      BY <1>1, <1>2, <3>1 DEF IInv, CQTypeOK, Balanced
  <2> QED
    BY <2>1, <2>2
<1>6. known = {} \/ \E k \in known :
         hostl' = IF isNew THEN [hostl EXCEPT ![k].clist = <<c>> \o @] ELSE hostl
  BY DEF Write
<1> QED
  BY <1>4, <1>5, <1>6

\* The list a round makes of l: the first n records, reversed, behind those
\* from place k on, reversed.
LEMMA RoundList ==
    ASSUME NEW l \in Seq(HostQ), Sound(l), NEW n \in 0 .. Len(l) - 1, NEW k \in n + 1 .. Len(l),
           \A i \in n + 1 .. k - 1 : l[i].clist = <<>>,
           NEW new, new = Reverse(SubSeq(l, 1, n) \o SubSeq(l, k, Len(l)))
    PROVE  new \in Seq(HostQ) /\ Sound(new) /\ PairsOf(new) = PairsOf(l)
<1> DEFINE s == SubSeq(l, 1, n)
           t == SubSeq(l, k, Len(l))
           m == n + (Len(l) - k + 1)
           f == [i \in 1 .. m |-> IF (m - i) + 1 <= n THEN (m - i) + 1 ELSE (m - i) + k - n]
<1>1. Len(l) \in Nat /\ n \in Nat /\ k \in Nat /\ m \in Nat /\ DOMAIN l = 1 .. Len(l)
  OBVIOUS
<1>2. s \in Seq(HostQ) /\ Len(s) = n /\ \A i \in 1 .. n : s[i] = l[i]
  BY <1>1
<1>3. t \in Seq(HostQ) /\ Len(t) = Len(l) - k + 1 /\ \A i \in 1 .. Len(l) - k + 1 : t[i] = l[(k + i) - 1]
  BY <1>1
<1> HIDE DEF s, t
<1>4. Len(s \o t) = m /\ \A i \in 1 .. m : (s \o t)[i] = IF i <= n THEN s[i] ELSE t[i - n]
  <2>1. Len(s \o t) = Len(s) + Len(t)
    BY <1>2, <1>3, ConcatProperties
  <2>2. \A i \in 1 .. Len(s) + Len(t) : (s \o t)[i] = IF i <= Len(s) THEN s[i] ELSE t[i - Len(s)]
    BY <1>2, <1>3
  <2>3. Len(s) + Len(t) = m
    BY <1>1, <1>2, <1>3
  <2> HIDE DEF m
  <2> QED
    BY <1>2, <2>1, <2>2, <2>3
<1>5. new = [i \in 1 .. m |-> (s \o t)[(m - i) + 1]]
  BY <1>4 DEF Reverse, s, t
<1>6. ASSUME NEW i \in 1 .. m PROVE f[i] \in DOMAIN l /\ (s \o t)[(m - i) + 1] = l[f[i]]
  <2>1. (m - i) + 1 \in 1 .. m
    BY <1>1
  <2>2. CASE (m - i) + 1 <= n
    BY <1>1, <1>2, <1>4, <2>1, <2>2
  <2>3. CASE ~((m - i) + 1 <= n)
    <3>1. ((m - i) + 1) - n \in 1 .. Len(l) - k + 1
      BY <1>1, <2>1, <2>3
    <3>2. t[((m - i) + 1) - n] = l[(k + (((m - i) + 1) - n)) - 1]
      BY <1>3, <3>1
    <3>4. (s \o t)[(m - i) + 1] = t[((m - i) + 1) - n]
      BY <1>4, <2>1, <2>3
    <3>5. (m - i) + k - n \in 1 .. Len(l)
      BY <1>1, <2>1, <2>3
    <3>3. (k + (((m - i) + 1) - n)) - 1 = (m - i) + k - n /\ f[i] = (m - i) + k - n
      BY <1>1, <2>3
    <3> QED
      BY <1>1, <3>2, <3>3, <3>4, <3>5
  <2> QED
    BY <2>2, <2>3
<1>7. f \in [1 .. m -> DOMAIN l] /\ \A i \in 1 .. m : new[i] = l[f[i]]
  BY <1>5, <1>6
<1>11. new \in Seq(HostQ) /\ Len(new) = m
  <2>1. \A i \in 1 .. m : new[i] \in HostQ
    <3>1. ASSUME NEW i \in 1 .. m PROVE l[f[i]] \in HostQ
      BY <1>1, <1>6, SMTT(60)
    <3> QED
      BY <1>7, <3>1
  <2>2. DOMAIN new = 1 .. m
    BY <1>5
  <2> HIDE DEF f, m
  <2>3. new = [i \in 1 .. m |-> new[i]]
    BY <1>5
  <2> QED
    BY <1>1, <2>1, <2>3
<1>8. \A i, j \in 1 .. m : f[i] = f[j] => i = j
  BY <1>1
<1>9. ASSUME NEW i \in DOMAIN l, l[i].clist # <<>> PROVE \E j \in 1 .. m : f[j] = i
  <2>1. i <= n \/ i >= k
    BY <1>1, <1>9
  <2>2. CASE i <= n
    <3>1. (m - i) + 1 \in 1 .. m /\ (m - ((m - i) + 1)) + 1 = i
      BY <1>1, <2>2
    <3> QED
      BY <1>1, <2>2, <3>1
  <2>3. CASE i >= k
    <3>1. (m - i) + (k - n) \in 1 .. m /\ (m - ((m - i) + (k - n))) + k - n = i
          /\ ~((m - ((m - i) + (k - n))) + 1 <= n)
      BY <1>1, <2>3
    <3> QED
      BY <1>1, <3>1
  <2> QED
    BY <2>1, <2>2, <2>3
<1>10. \A i \in DOMAIN l : l[i].clist # <<>> => \E j \in 1 .. m : f[j] = i
  BY <1>9
<1> HIDE DEF f, m
<1> QED
  <2>1. Picks(l, new, m, f)
    BY <1>1, <1>7, <1>8, <1>10, <1>11 DEF Picks
  <2> QED
    BY <1>11, <2>1, Rearranged

LEMMA FoundStep ==
    ASSUME IInv, NEW n \in 0 .. Len(hostl) - 1, NEW k \in Serving(n),
           \A j \in Serving(n) : k <= j, Found(n, k), UNCHANGED accepted
    PROVE  IInv' /\ answer' # NoChunk
<1> DEFINE h == hostl[k]
           rest == [hostl EXCEPT ![k].clist = Tail(h.clist)]
           p == <<Head(h.clist), h.host>>
<1>0. hostl \in Seq(HostQ) /\ Sound(hostl) /\ DOMAIN hostl = 1 .. Len(hostl) /\ Len(hostl) \in Nat
  BY DEF IInv, CQTypeOK
<1>1. k \in n + 1 .. Len(hostl) /\ k \in DOMAIN hostl /\ h.clist # <<>>
      /\ \A i \in n + 1 .. k - 1 : i \in DOMAIN hostl /\ i # k /\ hostl[i].clist = <<>>
  BY <1>0 DEF Serving
<1>2. /\ hostl' = Reverse(SubSeq(rest, 1, n) \o SubSeq(rest, k, Len(rest)))
      /\ answer' = p /\ delivered' = [delivered EXCEPT ![p] = @ + 1]
      /\ pc' = "alt" /\ accepted' = accepted
  BY DEF Found
<1>3. /\ p \in Pairs /\ p \in PairsOf(hostl) /\ rest \in Seq(HostQ) /\ Sound(rest)
      /\ PairsOf(rest) = PairsOf(hostl) \ {p}
  BY <1>0, <1>1, HeadTaken, ZenonT(60)
<1>4. Len(rest) = Len(hostl) /\ \A i \in n + 1 .. k - 1 : rest[i].clist = <<>>
  BY <1>0, <1>1
<1>5. p # NoChunk
  BY DEF NoChunk
<1> HIDE DEF h, rest, p
<1>6. hostl' \in Seq(HostQ) /\ Sound(hostl') /\ PairsOf(hostl') = PairsOf(rest)
  BY <1>1, <1>2, <1>3, <1>4, RoundList
<1>7. Balanced' /\ delivered' \in [Pairs -> Nat]
  BY <1>2, <1>3, <1>6, PairRemoved
<1> QED
  BY <1>2, <1>3, <1>5, <1>6, <1>7 DEF IInv, CQTypeOK

LEMMA NotFoundStep ==
    ASSUME IInv, NEW n \in 0 .. Len(hostl) - 1, Serving(n) = {}, NotFound(n), UNCHANGED accepted
    PROVE  IInv'
<1> DEFINE f == [i \in 1 .. n |-> (n - i) + 1]
<1>0. hostl \in Seq(HostQ) /\ Sound(hostl) /\ DOMAIN hostl = 1 .. Len(hostl)
      /\ Len(hostl) \in Nat /\ n \in Nat /\ n < Len(hostl)
  BY DEF IInv, CQTypeOK
<1>1. Len(SubSeq(hostl, 1, n)) = n /\ \A i \in 1 .. n : SubSeq(hostl, 1, n)[i] = hostl[i]
  BY <1>0
<1>2. \A i \in 1 .. n : (n - i) + 1 \in 1 .. n /\ f[i] = (n - i) + 1
  BY <1>0
<1>3. hostl' = [i \in 1 .. n |-> hostl[f[i]]]
  BY <1>1, <1>2 DEF NotFound, Reverse
<1>4. f \in [1 .. n -> DOMAIN hostl] /\ \A i, j \in 1 .. n : f[i] = f[j] => i = j
  BY <1>0, <1>2
<1>5. ASSUME NEW i \in DOMAIN hostl, hostl[i].clist # <<>> PROVE \E j \in 1 .. n : f[j] = i
  <2>1. i \in 1 .. n
    BY <1>0, <1>5 DEF Serving
  <2>2. (n - i) + 1 \in 1 .. n /\ (n - ((n - i) + 1)) + 1 = i
    BY <1>0, <2>1
  <2> QED
    BY <1>2, <2>2
<1>7. \A i \in DOMAIN hostl : hostl[i].clist # <<>> => \E j \in 1 .. n : f[j] = i
  BY <1>5
<1>8. hostl' \in Seq(HostQ) /\ Len(hostl') = n /\ \A i \in 1 .. n : hostl'[i] = hostl[f[i]]
  <2>1. \A i \in 1 .. n : hostl'[i] \in HostQ /\ hostl'[i] = hostl[f[i]]
    BY <1>0, <1>3, <1>4
  <2> QED
    BY <1>0, <1>3, <2>1
<1> HIDE DEF f
<1>6. hostl' \in Seq(HostQ) /\ Sound(hostl') /\ PairsOf(hostl') = PairsOf(hostl)
  <2>1. Picks(hostl, hostl', n, f)
    BY <1>0, <1>4, <1>7, <1>8 DEF Picks
  <2> QED
    BY <1>0, <1>8, <2>1, Rearranged
<1> QED
  BY <1>6 DEF IInv, CQTypeOK, Balanced, NotFound

LEMMA NextKeeps == IInv /\ [Next]_vars => IInv'
<1> SUFFICES ASSUME IInv, [Next]_vars PROVE IInv'
  OBVIOUS
<1>1. ASSUME NEW c \in Chunks, NEW h \in Hosts, Write(c, h) PROVE IInv'
  BY <1>1, WriteStep
<1>2. CASE WriteNoBlank
  BY <1>2 DEF WriteNoBlank, IInv, CQTypeOK, Balanced
<1>3. CASE Read
  BY <1>3 DEF Read, IInv, CQTypeOK, Balanced
<1>4. CASE NextdiskRound
  BY <1>4, FoundStep, NotFoundStep DEF NextdiskRound
<1>5. CASE NextdiskEmpty
  BY <1>5 DEF NextdiskEmpty, IInv, CQTypeOK, Balanced
<1>6. CASE UNCHANGED vars
  BY <1>6 DEF vars, IInv, CQTypeOK, Balanced
<1> QED
  BY <1>1, <1>2, <1>3, <1>4, <1>5, <1>6 DEF Next

\* The record of a host is the only place where its chunks can be.
LEMMA QueuedOnce ==
    ASSUME IInv, NEW p \in Pairs
    PROVE  Cardinality(QueuedFor(p)) = IF p \in PairsOf(hostl) THEN 1 ELSE 0
<1>1. \A i \in DOMAIN hostl : hostl[i] \in HostQ /\ DOMAIN hostl[i].clist = 1 .. Len(hostl[i].clist)
  <2>1. hostl \in Seq(HostQ)
    BY DEF IInv, CQTypeOK
  <2>2. ASSUME NEW i \in DOMAIN hostl PROVE hostl[i] \in HostQ
    BY <2>1
  <2>3. ASSUME NEW i \in DOMAIN hostl PROVE hostl[i].clist \in Seq(Chunks)
    BY <2>2 DEF HostQ
  <2> QED
    BY <2>2, <2>3
<1>2. QueuedFor(p) = {i \in DOMAIN hostl : Has(hostl[i], p)}
  BY <1>1 DEF QueuedFor, Contains, Has
<1>3. CASE p \in PairsOf(hostl)
  <2>1. PICK i \in DOMAIN hostl : Has(hostl[i], p)
    BY <1>3 DEF PairsOf
  <2>2. QueuedFor(p) = {i}
    BY <1>2, <2>1 DEF Has, IInv, Sound
  <2> QED
    BY <1>3, <2>2, FS_Singleton
<1>4. CASE p \notin PairsOf(hostl)
  <2>1. QueuedFor(p) = {}
    BY <1>2, <1>4 DEF PairsOf
  <2> QED
    BY <1>4, <2>1, FS_EmptySet
<1> QED
  BY <1>3, <1>4

LEMMA IInvImpliesConservation == IInv => Conservation
<1> SUFFICES ASSUME IInv PROVE Conservation
  OBVIOUS
<1>1. \A p \in Pairs : accepted[p] - delivered[p] = Cardinality(QueuedFor(p))
  BY QueuedOnce DEF IInv, Balanced
<1>2. delivered \in [Pairs -> 0 .. MaxWrites]
  <2>1. \A p \in Pairs : delivered[p] \in 0 .. MaxWrites
    BY ChunkQueueAssumption DEF IInv, CQTypeOK, Balanced
  <2> QED
    BY <2>1 DEF IInv, CQTypeOK
<1> QED
  BY <1>1, <1>2 DEF IInv, CQTypeOK, HostQ, Conservation, TypeOK

\* Whatever the random numbers, a chunk a write was accepted for is queued in
\* one place until a read returns it, and then in none.
THEOREM QueueConserves == Spec => []Conservation
<1>1. Init => IInv
  BY InitHolds
<1>2. IInv /\ [Next]_vars => IInv'
  BY NextKeeps
<1>3. IInv => Conservation
  BY IInvImpliesConservation
<1> QED
  BY <1>1, <1>2, <1>3, PTL DEF Spec

\* A read returns the empty string only when the reads have returned every
\* chunk the writes were accepted for.
THEOREM EndOfFileIsTheTruth == Spec => EmptyAnswerMeansDrained
<1>1. Init => IInv
  BY InitHolds
<1>2. IInv /\ [Next]_vars => IInv'
  BY NextKeeps
<1> DEFINE D == (pc' = "alt" /\ answer' = NoChunk /\ (pc = "nextdisk" \/ answer # NoChunk))
                  => \A p \in Pairs : accepted[p] = delivered[p]
<1>3. IInv /\ [Next]_vars => [D]_vars
  <2> SUFFICES ASSUME IInv, Next, pc' = "alt", answer' = NoChunk, pc = "nextdisk" \/ answer # NoChunk
               PROVE  \A p \in Pairs : accepted[p] = delivered[p]
    OBVIOUS
  <2>0. PairsOf(<<>>) = {}
    BY DEF PairsOf
  <2>1. hostl = <<>>
    <3>1. ASSUME NEW c \in Chunks, NEW h \in Hosts, Write(c, h) PROVE FALSE
      BY <3>1 DEF Write
    <3>2. CASE WriteNoBlank
      BY <3>2 DEF WriteNoBlank
    <3>3. CASE Read
      BY <3>3 DEF Read
    <3>4. CASE NextdiskRound
      BY <3>4, FoundStep DEF NextdiskRound, NotFound
    <3>5. CASE NextdiskEmpty
      BY <3>5 DEF NextdiskEmpty
    <3> QED
      BY <3>1, <3>2, <3>3, <3>4, <3>5 DEF Next
  <2> QED
    BY <2>0, <2>1 DEF IInv, CQTypeOK, Balanced
<1> QED
  BY <1>1, <1>2, <1>3, PTL DEF Spec, EmptyAnswerMeansDrained
=============================================================================
