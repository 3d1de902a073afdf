----------------------------- MODULE RudpProofs -----------------------------
(***************************************************************************)
(* Proofs about Rudp: for any sockets, any number of messages and any      *)
(* Rudpmaxxmit, over a network that loses, repeats and reorders packets,   *)
(* a block is freed by an ack only if its message was delivered.           *)
(*                                                                         *)
(* The inductive invariant says what every ack in flight stands for: a     *)
(* packet with agen g and ack n exists only if 1 .. n of g were delivered  *)
(* (Truth).  A socket can only put its own rcvgen and rcvseq in a packet,  *)
(* so the same holds of these two fields (part of Good).                   *)
(***************************************************************************)
EXTENDS Rudp, SequenceTheorems, TLAPS

\* What a header buffer can hold: a packet or zeros.
AnyHdr == [src : Sock \cup {None}, dst : Sock \cup {None}, seq : Nat,
           sgen : Gens \cup {NoGen}, ack : Nat, agen : Gens \cup {NoGen},
           data : Nat]

\* Whatever p acks was delivered.
Truth(p, G) == p.ack # 0 => \A i \in 1 .. p.ack : <<p.agen, i>> \in G

\* An unacked list is the tail of the generation (UnackedIsTail, per socket).
IsTail(r) == /\ r.ackrcvd + Len(r.unacked) = r.sndseq
            /\ \A i \in 1 .. Len(r.unacked) :
                  /\ r.unacked[i].seq = r.ackrcvd + i
                  /\ r.unacked[i].sgen = r.sndgen

\* The state of one socket that the delivered messages G justify.
Good(s, r, G) ==
    /\ r \in SockRecords
    /\ r.sndgen[1] = s
    /\ IsTail(r)
    /\ \A i \in 1 .. Len(r.unacked) : Truth(r.unacked[i], G)
    /\ \A i \in 1 .. r.rcvseq : <<r.rcvgen, i>> \in G
    /\ r.addr = None =>
          r.rcvgen = NoGen /\ r.unacked = <<>> /\ r.acksent = r.rcvseq

LEMMA NoGenFacts == NoGen \notin Gens /\ None \notin Sock
BY RudpAssumption DEF NoGen, Gens

LEMMA GenFields == \A g \in Gens : g[1] \in Sock /\ g[2] \in Nat
BY DEF Gens

LEMMA ZeroHdrType == ZeroHdr \in AnyHdr /\ Packets \subseteq AnyHdr
BY DEF ZeroHdr, AnyHdr, Packets, NoGen

\* rudp_hangup leaves a socket with nothing owed and the next generation.
LEMMA HangupGood ==
    ASSUME NEW s \in Sock, NEW G, NEW r, Good(s, r, G), CanHangup(r)
    PROVE  /\ Good(s, Hangup(r), G)
           /\ Hangup(r).sndgen = <<s, r.sndgen[2] + 1>>
           /\ Hangup(r).rcvseq = 0 /\ Hangup(r).rcvgen = NoGen
<1>1. r \in SockRecords /\ r.sndgen \in Sock \X (1 .. MaxGen) /\ r.sndgen[1] = s
  BY DEF Good, SockRecords, Gens
<1>2. <<s, r.sndgen[2] + 1>> \in Gens
  BY <1>1, RudpAssumption DEF CanHangup, Gens
<1>3. Hangup(r) \in SockRecords
  <2>1. r.sndgen[1] = s
    BY <1>1
  <2>2. <<>> \in Seq(Packets) /\ r.addr \in Sock \cup {None}
    BY <1>1 DEF SockRecords
  <2> QED
    BY <1>2, <2>1, <2>2, RudpAssumption DEF SockRecords, Hangup
<1>4. /\ Hangup(r).unacked = <<>> /\ Hangup(r).ackrcvd = 0 /\ Hangup(r).sndseq = 0
      /\ Hangup(r).sndgen = <<s, r.sndgen[2] + 1>>
      /\ Hangup(r).rcvseq = 0 /\ Hangup(r).rcvgen = NoGen
      /\ Hangup(r).acksent = 0
  BY <1>1 DEF Hangup, SockRecords
<1> QED
  BY <1>3, <1>4 DEF Good, IsTail

\* A socket without a peer has received nothing.
LEMMA NothingFromNoOne ==
    ASSUME NEW s \in Sock, NEW G, NEW r, Good(s, r, G), G \subseteq Gens \X Nat,
           r.rcvgen = NoGen
    PROVE  r.rcvseq = 0
<1> SUFFICES ASSUME r.rcvseq # 0 PROVE FALSE
  OBVIOUS
<1>1. r.rcvseq \in Nat
  BY DEF Good, SockRecords
<1>2. 1 \in 1 .. r.rcvseq
  BY <1>1
<1>3. <<r.rcvgen, 1>> \in G
  BY <1>2 DEF Good
<1> QED
  BY <1>3, NoGenFacts

\* The sending half of a socket.
SameSender(r, q) ==
    /\ q.sndgen = r.sndgen /\ q.sndseq = r.sndseq /\ q.ackrcvd = r.ackrcvd
    /\ q.unacked = r.unacked

\* Adopting a peer: a new one finds a socket that received nothing yet.
LEMMA AdoptGood ==
    ASSUME NEW s \in Sock, NEW G, NEW r, Good(s, r, G), G \subseteq Gens \X Nat,
           NEW p \in AnyHdr, HangsUp(r, p) => CanHangup(r),
           p \in Packets \/ ~NewRemote(r, p)
    PROVE  /\ Good(s, Adopt(r, p), G)
           /\ Adopt(r, p).sndgen[2] >= r.sndgen[2]
           /\ Adopt(r, p).rcvgen = p.sgen
           /\ NewRemote(r, p) => Adopt(r, p).rcvseq = 0
<1>1. CASE ~NewRemote(r, p)
  BY <1>1 DEF Adopt, NewRemote, Good, SockRecords, Gens
<1>2. CASE NewRemote(r, p)
  <2> DEFINE b == IF HangsUp(r, p) THEN Hangup(r) ELSE r
  <2>1. Good(s, b, G) /\ b.sndgen[2] >= r.sndgen[2] /\ b.rcvseq = 0
    <3>1. CASE HangsUp(r, p)
      <4>1. b = Hangup(r)
        BY <3>1
      <4>2. r.sndgen[2] \in Nat
        BY DEF Good, SockRecords, Gens
      <4>3. <<s, r.sndgen[2] + 1>>[2] >= r.sndgen[2]
        BY <4>2
      <4>4. /\ Good(s, Hangup(r), G) /\ Hangup(r).rcvseq = 0
            /\ Hangup(r).sndgen = <<s, r.sndgen[2] + 1>>
        BY <3>1, HangupGood
      <4> QED
        BY <4>1, <4>3, <4>4
    <3>2. CASE ~HangsUp(r, p)
      <4>1. b = r /\ r.rcvgen = NoGen /\ r.rcvseq \in Nat /\ r.sndgen[2] \in Nat
        BY <1>2, <3>2 DEF HangsUp, Good, SockRecords, Gens
      <4>2. r.rcvseq = 0
        BY <4>1, NothingFromNoOne
      <4> QED
        BY <4>1, <4>2
    <3> QED
      BY <3>1, <3>2
  <2>2. Adopt(r, p) = [b EXCEPT !.addr = p.src, !.rcvgen = p.sgen]
    BY <1>2 DEF Adopt
  <2>3. b \in SockRecords /\ p.src \in Sock /\ p.sgen \in Gens
    BY <1>2, <2>1 DEF Good, Packets
  <2> HIDE DEF b
  <2> DEFINE c == [b EXCEPT !.addr = p.src]
  <2>4. c \in SockRecords /\ c.addr = p.src /\ SameSender(b, c) /\ c.rcvseq = b.rcvseq
    BY <2>3 DEF SockRecords, SameSender
  <2>5. Adopt(r, p) = [c EXCEPT !.rcvgen = p.sgen]
    BY <2>2
  <2> HIDE DEF c
  <2>6. /\ Adopt(r, p) \in SockRecords
        /\ Adopt(r, p).addr = p.src /\ Adopt(r, p).rcvgen = p.sgen
        /\ SameSender(b, Adopt(r, p)) /\ Adopt(r, p).rcvseq = b.rcvseq
    BY <2>3, <2>4, <2>5 DEF SockRecords, SameSender
  <2> QED
    BY <1>2, <2>1, <2>3, <2>6, NoGenFacts DEF Good, IsTail, SameSender
<1> QED
  BY <1>1, <1>2

\* What an ack leaves alone.
SameElse(r, q) ==
    /\ q.sndgen = r.sndgen /\ q.rcvgen = r.rcvgen /\ q.rcvseq = r.rcvseq
    /\ q.addr = r.addr /\ q.acksent = r.acksent

\* x is a block of r's unacked list, whatever address it goes to.
FromUnacked(x, r) ==
    \E j \in 1 .. Len(r.unacked) : x.seq = r.unacked[j].seq /\ x.data = r.unacked[j].data

\* q sends what is left of what r sends.
PartOf(q, r) == /\ q.sndseq = r.sndseq
                /\ \A i \in 1 .. Len(q.unacked) : FromUnacked(q.unacked[i], r)

\* A retransmitted block still tells the truth and is of the generation.
FirstBlockGood(s, r, G) ==
    /\ FirstBlock(r) \in Packets /\ Truth(FirstBlock(r), G)
    /\ FirstBlock(r).sgen = r.sndgen /\ FromUnacked(FirstBlock(r), r)

LEMMA FirstBlockLemma ==
    ASSUME NEW s \in Sock, NEW G, NEW r, Good(s, r, G), r.unacked # <<>>
    PROVE  FirstBlockGood(s, r, G)
<1> DEFINE b == Head(r.unacked)
<1>1. /\ r.unacked \in Seq(Packets) /\ r.addr \in Sock \cup {None}
  BY DEF Good, SockRecords
<1>2. Len(r.unacked) \in Nat \ {0} /\ b = r.unacked[1]
  BY <1>1, EmptySeq
<1>3. b \in Packets /\ Truth(b, G) /\ b.sgen = r.sndgen
  BY <1>1, <1>2, ElementOfSeq DEF Good, IsTail
<1>4. r.addr \in Sock
  BY <1>1 DEF Good
<1> HIDE DEF b
<1>5. /\ [b EXCEPT !.dst = r.addr] \in Packets
      /\ [b EXCEPT !.dst = r.addr].ack = b.ack
      /\ [b EXCEPT !.dst = r.addr].agen = b.agen
      /\ [b EXCEPT !.dst = r.addr].sgen = b.sgen
      /\ [b EXCEPT !.dst = r.addr].seq = b.seq
      /\ [b EXCEPT !.dst = r.addr].data = b.data
  BY <1>3, <1>4 DEF Packets
<1>6. FromUnacked([b EXCEPT !.dst = r.addr], r)
  <2>1. 1 \in 1 .. Len(r.unacked) /\ b = r.unacked[1]
    BY <1>2
  <2> QED
    BY <1>5, <2>1 DEF FromUnacked
<1> QED
  BY <1>3, <1>5, <1>6 DEF FirstBlockGood, FirstBlock, Truth, b

\* An ack frees blocks from the front and moves ackrcvd by as many.
LEMMA AckGood ==
    ASSUME NEW s \in Sock, NEW G, NEW r, Good(s, r, G), NEW p \in AnyHdr
    PROVE  /\ Good(s, Acknowledge(r, p), G)
           /\ Acknowledge(r, p).sndgen = r.sndgen
           /\ Acknowledge(r, p).rcvgen = r.rcvgen
           /\ Acknowledge(r, p).rcvseq = r.rcvseq
           /\ Acknowledge(r, p).addr = r.addr
           /\ Acknowledge(r, p).ackrcvd = r.ackrcvd + Released(r, p)
           /\ PartOf(Acknowledge(r, p), r)
           /\ \A q \in RexmitOut(r, p) :
                 /\ q \in Packets /\ Truth(q, G) /\ q.sgen = r.sndgen
                 /\ FromUnacked(q, r)
<1> DEFINE k == Released(r, p)
           d == [r EXCEPT !.unacked = SubSeq(@, k + 1, Len(@))]
<1>1. /\ r \in SockRecords /\ r.unacked \in Seq(Packets) /\ Len(r.unacked) \in Nat
      /\ r.ackrcvd \in Nat /\ r.sndseq \in Nat /\ p.ack \in Nat
  BY DEF Good, SockRecords, AnyHdr
<1>2. k \in 0 .. Len(r.unacked)
  BY <1>1 DEF Released, InSeq, Good, IsTail
<1> HIDE DEF k
<1>3. /\ SubSeq(r.unacked, k + 1, Len(r.unacked)) \in Seq(Packets)
      /\ Len(SubSeq(r.unacked, k + 1, Len(r.unacked))) = Len(r.unacked) - k
      /\ \A i \in 1 .. Len(r.unacked) - k :
            SubSeq(r.unacked, k + 1, Len(r.unacked))[i] = r.unacked[k + i]
  <2>1. \A i \in k + 1 .. Len(r.unacked) : r.unacked[i] \in Packets
    BY <1>1, <1>2, ElementOfSeq
  <2>2. k + 1 \in Int /\ Len(r.unacked) \in Int
    BY <1>1, <1>2
  <2>3. Len(r.unacked) - (k + 1) + 1 = Len(r.unacked) - k
    BY <1>1, <1>2
  <2>4. \A i \in 1 .. Len(r.unacked) - k : (k + 1) + i - 1 = k + i
    BY <1>1, <1>2
  <2> HIDE DEF k
  <2> QED
    BY <1>1, <1>2, <2>1, <2>2, <2>3, <2>4, SubSeqProperties, Z3, SMTT(60)
<1>4. /\ d \in SockRecords /\ d.unacked = SubSeq(r.unacked, k + 1, Len(r.unacked))
      /\ d.ackrcvd = r.ackrcvd /\ d.sndseq = r.sndseq /\ SameElse(r, d)
  BY <1>1, <1>3 DEF SockRecords, SameElse
<1>5. Dequeue(r, p) = [d EXCEPT !.ackrcvd = r.ackrcvd + k]
  BY DEF Dequeue, k
<1> DEFINE e == Dequeue(r, p)
<1> HIDE DEF d
<1>6. /\ e \in SockRecords /\ e.unacked = SubSeq(r.unacked, k + 1, Len(r.unacked))
      /\ e.ackrcvd = r.ackrcvd + k /\ e.sndseq = r.sndseq /\ SameElse(r, e)
  <2>1. r.ackrcvd + k \in Nat
    BY <1>1, <1>2
  <2>2. e = [d EXCEPT !.ackrcvd = r.ackrcvd + k]
    BY <1>5
  <2> HIDE DEF e
  <2>3. /\ e \in SockRecords /\ e.unacked = d.unacked /\ e.ackrcvd = r.ackrcvd + k
        /\ e.sndseq = d.sndseq /\ SameElse(d, e)
    BY <1>4, <2>1, <2>2 DEF SockRecords, SameElse
  <2> QED
    BY <1>4, <2>3 DEF SameElse
<1> HIDE DEF e
<1>7. /\ Len(e.unacked) = Len(r.unacked) - k
      /\ \A i \in 1 .. Len(e.unacked) :
            e.unacked[i] = r.unacked[k + i] /\ k + i \in 1 .. Len(r.unacked)
  <2>1. Len(e.unacked) = Len(r.unacked) - k
    BY <1>3, <1>6
  <2>2. \A i \in 1 .. Len(r.unacked) - k : k + i \in 1 .. Len(r.unacked)
    BY <1>1, <1>2
  <2>3. \A i \in 1 .. Len(r.unacked) - k : e.unacked[i] = r.unacked[k + i]
    BY <1>3, <1>6
  <2> QED
    BY <2>1, <2>2, <2>3
<1>8. Good(s, e, G)
  <2>1. IsTail(e)
    <3>1. e.ackrcvd + Len(e.unacked) = e.sndseq
      <4>1. r.ackrcvd + Len(r.unacked) = r.sndseq
        BY DEF Good, IsTail
      <4>2. Len(e.unacked) = Len(r.unacked) - k /\ k \in Nat
        BY <1>2, <1>7
      <4> QED
        BY <1>1, <1>6, <4>1, <4>2
    <3>2. ASSUME NEW i \in 1 .. Len(e.unacked)
          PROVE  e.unacked[i].seq = e.ackrcvd + i /\ e.unacked[i].sgen = e.sndgen
      <4>1. e.unacked[i] = r.unacked[k + i] /\ k + i \in 1 .. Len(r.unacked)
        BY <1>7
      <4>2. r.unacked[k + i].seq = r.ackrcvd + (k + i) /\ r.unacked[k + i].sgen = r.sndgen
        BY <4>1 DEF Good, IsTail
      <4>3. r.ackrcvd + (k + i) = (r.ackrcvd + k) + i
        BY <1>1, <1>2, <1>7
      <4> QED
        BY <1>6, <4>1, <4>2, <4>3 DEF SameElse
    <3> QED
      BY <3>1, <3>2 DEF IsTail
  <2>2. \A i \in 1 .. Len(e.unacked) : Truth(e.unacked[i], G)
    BY <1>7 DEF Good
  <2>3. r.unacked = <<>> => e.unacked = <<>>
    BY <1>1, <1>2, <1>6, <1>7, EmptySeq DEF SockRecords
  <2> QED
    BY <1>6, <2>1, <2>2, <2>3 DEF Good, SameElse
<1>9. /\ Acknowledge(r, p) = IF NeedsRexmit(r, p) THEN [e EXCEPT !.xmits = 2] ELSE e
      /\ RexmitOut(r, p) = IF NeedsRexmit(r, p) THEN {FirstBlock(e)} ELSE {}
      /\ NeedsRexmit(r, p) => e.unacked # <<>>
  BY DEF Acknowledge, RexmitOut, NeedsRexmit, e
<1>10. NeedsRexmit(r, p) => FirstBlockGood(s, e, G)
  BY <1>8, <1>9, FirstBlockLemma
<1>11. /\ [e EXCEPT !.xmits = 2] \in SockRecords
       /\ [e EXCEPT !.xmits = 2].unacked = e.unacked
       /\ [e EXCEPT !.xmits = 2].ackrcvd = e.ackrcvd
       /\ [e EXCEPT !.xmits = 2].sndseq = e.sndseq
       /\ SameElse(e, [e EXCEPT !.xmits = 2])
  <2>1. 2 \in 0 .. Rudpmaxxmit + 1 /\ e \in SockRecords
    BY <1>6, RudpAssumption
  <2> QED
    BY <2>1 DEF SockRecords, SameElse
<1>12. Good(s, [e EXCEPT !.xmits = 2], G)
  BY <1>8, <1>11 DEF Good, IsTail, SameElse
<1>13. PartOf(e, r) /\ PartOf([e EXCEPT !.xmits = 2], r)
  <2>1. PartOf(e, r)
    BY <1>6, <1>7 DEF PartOf, FromUnacked
  <2> QED
    BY <1>11, <2>1 DEF PartOf
<1>14. \A x : FromUnacked(x, e) => FromUnacked(x, r)
  BY <1>7 DEF FromUnacked
<1>15. \A q \in RexmitOut(r, p) : /\ q \in Packets /\ Truth(q, G) /\ q.sgen = r.sndgen
                                  /\ FromUnacked(q, r)
  BY <1>6, <1>9, <1>10, <1>14 DEF SameElse, FirstBlockGood
<1>16. PartOf(Acknowledge(r, p), r)
  BY <1>9, <1>13
<1> QED
  BY <1>6, <1>8, <1>9, <1>11, <1>12, <1>15, <1>16 DEF SameElse, k

-----------------------------------------------------------------------------
\* More deliveries justify no less.
LEMMA TruthMonotone ==
    ASSUME NEW p, NEW G, NEW H, G \subseteq H, Truth(p, G)
    PROVE  Truth(p, H)
BY DEF Truth

LEMMA GoodMonotone ==
    ASSUME NEW s, NEW r, NEW G, NEW H, G \subseteq H, Good(s, r, G)
    PROVE  Good(s, r, H)
BY TruthMonotone DEF Good

\* A packet a socket of generation g may send.
Sendable(x, g, G) == x \in Packets /\ Truth(x, G) /\ x.sgen = g

LEMMA AckPacketGood ==
    ASSUME NEW s \in Sock, NEW G, NEW r, Good(s, r, G), r.addr # None
    PROVE  /\ Good(s, AckNoted(r), G) /\ AckNoted(r).sndgen = r.sndgen
           /\ AckNoted(r).addr = r.addr /\ AckNoted(r).rcvseq = r.rcvseq
           /\ Sendable(AckPacket(s, r), r.sndgen, G)
<1>1. r \in SockRecords /\ r.addr \in Sock /\ r.rcvseq \in Nat
  BY DEF Good, SockRecords
<1> DEFINE e == AckNoted(r)
<1>2. e \in SockRecords /\ SameSender(r, e) /\ e.rcvgen = r.rcvgen
      /\ e.rcvseq = r.rcvseq /\ e.addr = r.addr
  BY <1>1 DEF AckNoted, SockRecords, SameSender
<1> HIDE DEF e
<1>3. Good(s, e, G)
  BY <1>2 DEF Good, SameSender, IsTail
<1>4. AckPacket(s, r) \in Packets
  BY <1>1 DEF AckPacket, Packets, SockRecords
<1>5. Truth(AckPacket(s, r), G)
  BY DEF AckPacket, Truth, Good
<1> QED
  BY <1>2, <1>3, <1>4, <1>5 DEF Sendable, AckPacket, SameSender, e

\* What a step of s does to the sockets and the network.
StepOf(s, g, G) ==
    \E q \in SockRecords :
        /\ sk' = [sk EXCEPT ![s] = q] /\ Good(s, q, G) /\ q.sndgen = g
        /\ \A x \in net' : x \in net \/ Sendable(x, g, G)

LEMMA BlockStep ==
    ASSUME NEW s \in Sock, NEW G, NEW r, Good(s, r, G), NEW out,
           \A x \in out : Sendable(x, r.sndgen, G), Block(s, r, out)
    PROVE  StepOf(s, r.sndgen, G)
<1>1. CASE r.acksent # r.rcvseq
  <2>1. r.addr # None
    BY <1>1 DEF Good
  <2>2. sk' = [sk EXCEPT ![s] = AckNoted(r)] /\ net' = net \cup out \cup {AckPacket(s, r)}
    BY <1>1 DEF Block
  <2>3. /\ Good(s, AckNoted(r), G) /\ AckNoted(r).sndgen = r.sndgen
        /\ Sendable(AckPacket(s, r), r.sndgen, G)
    BY <2>1, AckPacketGood
  <2>4. AckNoted(r) \in SockRecords
    BY <2>3 DEF Good
  <2> QED
    BY <2>2, <2>3, <2>4 DEF StepOf
<1>2. CASE r.acksent = r.rcvseq
  BY <1>2 DEF Block, StepOf, Good
<1> QED
  BY <1>1, <1>2

\* The types of what no proof below looks into.
RestOK ==
    /\ pc \in [Sock -> {"app", "recv", "closed"}]
    /\ conn \in [Sock -> Seq(Nat)]
    /\ result \in [Sock -> {"none", "data", "error"}]

(***************************************************************************)
(* rudp_recvfrom on one header: the socket stays good, whatever it frees   *)
(* was delivered, what it delivers is the next message of the peer, and a  *)
(* first message left in the buffer was delivered before.                  *)
(***************************************************************************)
SocketOutcome(s, r) ==
    \E g \in Gens : g[1] = s /\ g[2] >= r.sndgen[2] /\ StepOf(s, g, got')
GotOutcome(p, received) ==
    \/ got' = got
    \/ /\ received /\ got' = got \cup {<<p.sgen, p.seq>>}
       /\ \A i \in 1 .. p.seq : <<p.sgen, i>> \in got'
AckedOutcome == \E a \in SUBSET got : acked' = acked \cup a
HdrOutcome(s, p) == p.seq = 1 /\ p.ack = 0 /\ pc'[s] = "recv" => <<p.sgen, 1>> \in got

LEMMA ProcessStep ==
    ASSUME NEW s \in Sock, NEW r, Good(s, r, got), got \subseteq Gens \X Nat, RestOK,
           NEW p \in AnyHdr, p \in Packets \/ (~NewRemote(r, p) /\ p.seq = 0),
           Truth(p, got),
           NEW received \in BOOLEAN, Process(s, r, p, received),
           received \/ (r.rcvseq = 0 /\ (p.seq = 1 /\ ~Ignored(r, p) =>
                                           <<p.sgen, 1>> \in got))
    PROVE  /\ SocketOutcome(s, r) /\ GotOutcome(p, received) /\ AckedOutcome
           /\ RestOK' /\ HdrOutcome(s, p)
<1> DEFINE r1 == Adopt(r, p)
           r2 == Acknowledge(r1, p)
           out == RexmitOut(r1, p)
           new == IF NewRemote(r, p) THEN <<>> ELSE conn[s]
           freed == {<<r1.sndgen, i>> : i \in r1.ackrcvd + 1 .. r2.ackrcvd}
<1>0. /\ r \in SockRecords /\ r.sndgen \in Gens /\ r.sndgen[2] \in Nat /\ r.sndgen[1] = s
      /\ new \in Seq(Nat) /\ p.seq \in Nat /\ p.ack \in Nat /\ p.data \in Nat
  BY DEF Good, SockRecords, Gens, RestOK, AnyHdr
<1>1. CASE Ignored(r, p) /\ Block(s, r, {}) /\ UNCHANGED <<conn, got, acked, result>>
  <2>1. StepOf(s, r.sndgen, got)
    BY <1>1, BlockStep
  <2>2. SocketOutcome(s, r)
    BY <1>0, <1>1, <2>1 DEF SocketOutcome
  <2>3. GotOutcome(p, received) /\ AckedOutcome
    BY <1>1 DEF GotOutcome, AckedOutcome
  <2>4. RestOK'
    BY <1>1 DEF Block, RestOK
  <2>5. HdrOutcome(s, p)
    BY <1>1 DEF Ignored, HdrOutcome
  <2> QED
    BY <2>2, <2>3, <2>4, <2>5
<1>2. ASSUME ~Ignored(r, p), HangsUp(r, p) => CanHangup(r),
             acked' = acked \cup freed
      PROVE  /\ Good(s, r1, got) /\ Good(s, r2, got) /\ r2.sndgen = r1.sndgen
             /\ r1.sndgen \in Gens /\ r1.sndgen[1] = s /\ r1.sndgen[2] >= r.sndgen[2]
             /\ r2.rcvgen = p.sgen /\ r2.rcvseq = r1.rcvseq /\ r2.rcvseq \in Nat
             /\ \A x \in out : Sendable(x, r1.sndgen, got)
             /\ AckedOutcome
             /\ r.rcvseq = 0 => r2.rcvseq = 0
             /\ p.seq # 0 => r2.addr # None
  <2>1. /\ Good(s, r1, got) /\ r1.sndgen[2] >= r.sndgen[2] /\ r1.rcvgen = p.sgen
        /\ NewRemote(r, p) => r1.rcvseq = 0
    BY <1>2, AdoptGood
  <2>5. ~NewRemote(r, p) => r1.rcvseq = r.rcvseq
    BY DEF Adopt
  <2> HIDE DEF r1
  <2>2. /\ Good(s, r2, got) /\ r2.sndgen = r1.sndgen /\ r2.rcvgen = p.sgen
        /\ r2.rcvseq = r1.rcvseq /\ r2.ackrcvd = r1.ackrcvd + Released(r1, p)
        /\ \A x \in out : Sendable(x, r1.sndgen, got)
    BY <2>1, AckGood DEF Sendable
  <2> HIDE DEF r2, out
  <2>3. r1 \in SockRecords /\ r1.ackrcvd \in Nat /\ r1.sndgen \in Gens /\ r1.sndgen[1] = s
        /\ r2.rcvseq \in Nat
    BY <2>1, <2>2 DEF Good, SockRecords
  <2>4. freed \subseteq got
    <3> SUFFICES ASSUME NEW i \in r1.ackrcvd + 1 .. r2.ackrcvd
                 PROVE  <<r1.sndgen, i>> \in got
      OBVIOUS
    <3>1. p.ack # 0 /\ p.agen = r1.sndgen /\ i \in 1 .. p.ack
      BY <1>0, <2>2, <2>3 DEF Released
    <3> QED
      BY <3>1 DEF Truth
  <2>6. p.seq # 0 => r2.addr # None
    <3>1. p.seq # 0 => p.sgen \in Gens
      BY DEF Packets
    <3> QED
      BY <2>2, <3>1, NoGenFacts DEF Good
  <2> QED
    BY <1>2, <2>1, <2>2, <2>3, <2>4, <2>5, <2>6 DEF AckedOutcome
<1> HIDE DEF r1, r2, out, freed
<1>3. ASSUME ~Ignored(r, p), HangsUp(r, p) => CanHangup(r), acked' = acked \cup freed,
             NEW q, NEW o, Good(s, q, got), q.sndgen = r1.sndgen,
             \A x \in o : Sendable(x, r1.sndgen, got), Block(s, q, o),
             conn' = [conn EXCEPT ![s] = new], UNCHANGED <<got, result>>,
             p.seq = 1 => r2.rcvseq # 0
      PROVE  /\ SocketOutcome(s, r) /\ GotOutcome(p, received)
             /\ RestOK' /\ HdrOutcome(s, p)
  <2>1. StepOf(s, q.sndgen, got)
    BY <1>3, BlockStep
  <2>2. SocketOutcome(s, r)
    BY <1>2, <1>3, <2>1 DEF SocketOutcome
  <2>3. GotOutcome(p, received)
    BY <1>3 DEF GotOutcome
  <2>4. RestOK'
    <3>1. pc' = [pc EXCEPT ![s] = "recv"]
      BY <1>3 DEF Block
    <3> QED
      BY <1>0, <1>3, <3>1 DEF RestOK
  <2>5. HdrOutcome(s, p)
    <3> SUFFICES ASSUME p.seq = 1 PROVE <<p.sgen, 1>> \in got
      BY DEF HdrOutcome
    <3>1. r2.rcvseq \in Nat \ {0} /\ r2.rcvgen = p.sgen /\ Good(s, r2, got)
      BY <1>2, <1>3
    <3> QED
      BY <3>1 DEF Good
  <2> QED
    BY <2>2, <2>3, <2>4, <2>5
<1>4. ASSUME ~Ignored(r, p), HangsUp(r, p) => CanHangup(r), acked' = acked \cup freed,
             p.seq # 0, p.seq = NextSeq(r2.rcvseq),
             Return(s, [r2 EXCEPT !.rcvseq = p.seq], out,
                    IF received THEN "data" ELSE "error"),
             conn' = [conn EXCEPT ![s] = IF received THEN Append(new, p.data) ELSE new],
             got' = IF received THEN got \cup {<<p.sgen, p.seq>>} ELSE got
      PROVE  /\ SocketOutcome(s, r) /\ GotOutcome(p, received)
             /\ RestOK' /\ HdrOutcome(s, p)
  <2>1. /\ Good(s, r2, got) /\ r2.rcvgen = p.sgen /\ r2.sndgen = r1.sndgen
        /\ r2.rcvseq \in Nat /\ p.seq = r2.rcvseq + 1
    BY <1>2, <1>4 DEF NextSeq
  <2> DEFINE q == [r2 EXCEPT !.rcvseq = p.seq]
  <2>2. /\ q \in SockRecords /\ SameSender(r2, q) /\ q.rcvgen = p.sgen
        /\ q.rcvseq = p.seq /\ q.addr = r2.addr
    BY <1>0, <2>1 DEF Good, SockRecords, SameSender
  <2> HIDE DEF q
  <2>3. \A i \in 1 .. p.seq : <<p.sgen, i>> \in got'
    <3>1. \A i \in 1 .. r2.rcvseq : <<p.sgen, i>> \in got
      BY <2>1 DEF Good
    <3>2. <<p.sgen, p.seq>> \in got'
      <4>1. CASE received
        BY <1>4, <4>1
      <4>2. CASE ~received
        <5>1. r2.rcvseq = 0
          BY <1>2, <1>4, <4>2
        <5>2. p.seq = 1
          BY <2>1, <5>1
        <5> QED
          BY <1>4, <4>2, <5>2
      <4> QED
        BY <4>1, <4>2
    <3>3. got \subseteq got'
      BY <1>4
    <3>4. \A i \in 1 .. p.seq : i = p.seq \/ i \in 1 .. r2.rcvseq
      BY <2>1
    <3> QED
      BY <3>1, <3>2, <3>3, <3>4
  <2>4. Good(s, q, got')
    <3>1. Good(s, r2, got')
      <4>1. got \subseteq got'
        BY <1>4
      <4> QED
        BY <2>1, <4>1, GoodMonotone
    <3>2. q.addr # None
      BY <1>2, <1>4, <2>2
    <3> QED
      BY <2>2, <2>3, <3>1, <3>2 DEF Good, SameSender, IsTail
  <2>5. SocketOutcome(s, r)
    <3>1. \A x \in out : Sendable(x, r1.sndgen, got')
      <4>1. got \subseteq got'
        BY <1>4
      <4> QED
        BY <1>2, <1>4, <4>1, TruthMonotone DEF Sendable
    <3>2. sk' = [sk EXCEPT ![s] = q] /\ net' = net \cup out
      BY <1>4 DEF Return, q
    <3>3. StepOf(s, r1.sndgen, got')
      BY <2>1, <2>2, <2>4, <3>1, <3>2 DEF StepOf, SameSender
    <3> QED
      BY <1>2, <1>4, <3>3 DEF SocketOutcome
  <2>6. GotOutcome(p, received)
    BY <1>4, <2>3 DEF GotOutcome
  <2>7. RestOK'
    BY <1>0, <1>4 DEF RestOK, Return
  <2>8. HdrOutcome(s, p)
    BY <1>4 DEF HdrOutcome, Return, RestOK
  <2> QED
    BY <2>5, <2>6, <2>7, <2>8
<1> QED
  <2>1. CASE Ignored(r, p) /\ Block(s, r, {}) /\ UNCHANGED <<conn, got, acked, result>>
    BY <1>1, <2>1
  <2> DEFINE others == ~Ignored(r, p) /\ (HangsUp(r, p) => CanHangup(r)) /\ acked' = acked \cup freed
             quiet  == conn' = [conn EXCEPT ![s] = new] /\ UNCHANGED <<got, result>>
  <2>2. CASE others /\ p.seq = 0 /\ Block(s, r2, out) /\ quiet
    BY <1>2, <1>3, <2>2
  <2>3. CASE /\ others /\ OutOfOrder(r2, p) /\ quiet
             /\ Block(s, AckNoted(r2), out \cup {AckPacket(s, r2)})
    <3>1. /\ Good(s, AckNoted(r2), got) /\ AckNoted(r2).sndgen = r1.sndgen
          /\ Sendable(AckPacket(s, r2), r1.sndgen, got)
      BY <1>2, <2>3, AckPacketGood DEF OutOfOrder
    <3>2. p.seq = 1 => r2.rcvseq # 0
      BY <2>3 DEF OutOfOrder, NextSeq
    <3> QED
      BY <1>2, <1>3, <2>3, <3>1, <3>2
  <2>4. CASE /\ others /\ p.seq # 0 /\ ~OutOfOrder(r2, p)
             /\ Return(s, [r2 EXCEPT !.rcvseq = p.seq], out,
                       IF received THEN "data" ELSE "error")
             /\ conn' = [conn EXCEPT ![s] = IF received THEN Append(new, p.data) ELSE new]
             /\ got' = IF received THEN got \cup {<<p.sgen, p.seq>>} ELSE got
    BY <1>2, <1>4, <2>4 DEF OutOfOrder
  <2> QED
    BY <2>1, <2>2, <2>3, <2>4 DEF Process, r1, r2, out, freed

-----------------------------------------------------------------------------
(* The inductive invariant. *)

SockInv == sk \in [Sock -> SockRecords] /\ \A s \in Sock : Good(s, sk[s], got)

\* Packets in flight tell the truth and are of no generation still to come.
NetInv == \A x \in net : /\ x \in Packets /\ Truth(x, got)
                         /\ x.sgen[2] <= sk[x.sgen[1]].sndgen[2]

GotInv == /\ got \subseteq Gens \X Nat
          /\ \A m \in got : m[1][2] <= sk[m[1][1]].sndgen[2]

\* A first message kept in a header buffer was delivered, unless it carried an
\* ack that made the code ignore it, and will make it ignore it again.
HdrInv == \A s \in Sock :
    /\ hdr[s] \in Packets \cup {ZeroHdr} /\ Truth(hdr[s], got)
    /\ hdr[s].seq = 1 /\ hdr[s].ack = 0 => <<hdr[s].sgen, 1>> \in got

IInv == /\ SockInv /\ NetInv /\ GotInv /\ HdrInv /\ RestOK
        /\ hdr \in [Sock -> Packets \cup {ZeroHdr}]
        /\ sent \in [Sock -> Nat]
        /\ acked \subseteq got
        /\ DeliveredPrefix

LEMMA FreshGood ==
    ASSUME NEW s \in Sock, NEW k \in 1 .. MaxGen, NEW G
    PROVE  Fresh(s, k) \in SockRecords /\ Good(s, Fresh(s, k), G) /\ Fresh(s, k).sndgen = <<s, k>>
<1>1. <<s, k>> \in Gens
  BY DEF Gens
<1>2. <<>> \in Seq(Packets) /\ Len(<<>>) = 0
  OBVIOUS
<1> QED
  BY <1>1, <1>2, RudpAssumption DEF Fresh, SockRecords, Good, IsTail

LEMMA InitIInv == Init => IInv
<1> SUFFICES ASSUME Init PROVE IInv
  OBVIOUS
<1>1. ASSUME NEW s \in Sock PROVE sk[s] \in SockRecords /\ Good(s, sk[s], got)
  <2>1. 1 \in 1 .. MaxGen /\ sk[s] = Fresh(s, 1)
    BY RudpAssumption DEF Init
  <2> QED
    BY <2>1, FreshGood
<1>2. SockInv
  BY <1>1 DEF Init, SockInv
<1>3. HdrInv /\ hdr \in [Sock -> Packets \cup {ZeroHdr}]
  BY DEF Init, HdrInv, ZeroHdr, Truth
<1> QED
  BY <1>2, <1>3 DEF Init, IInv, NetInv, GotInv, RestOK, DeliveredPrefix

(***************************************************************************)
(* What is common to all the actions: a step of s that leaves it good, and *)
(* delivers nothing or the next message of some generation already met.    *)
(***************************************************************************)
LEMMA StepLemma ==
    ASSUME IInv, NEW s \in Sock, NEW g \in Gens, g[1] = s,
           g[2] >= sk[s].sndgen[2], got \subseteq got', StepOf(s, g, got'),
           \A m \in got' : \/ m \in got
                           \/ /\ m \in Gens \X Nat
                              /\ m[1][2] <= sk[m[1][1]].sndgen[2]
                              /\ \A i \in 1 .. m[2] : <<m[1], i>> \in got'
    PROVE  SockInv' /\ NetInv' /\ GotInv' /\ DeliveredPrefix'
<1>1. PICK q \in SockRecords :
          /\ sk' = [sk EXCEPT ![s] = q] /\ Good(s, q, got') /\ q.sndgen = g
          /\ \A x \in net' : x \in net \/ Sendable(x, g, got')
  BY DEF StepOf
<1>2. SockInv'
  <2>1. sk' \in [Sock -> SockRecords]
    BY <1>1 DEF IInv, SockInv
  <2>2. ASSUME NEW t \in Sock PROVE Good(t, sk'[t], got')
    <3>1. CASE t = s
      BY <1>1, <3>1 DEF IInv, SockInv
    <3>2. CASE t # s
      <4>1. sk'[t] = sk[t] /\ Good(t, sk[t], got)
        BY <1>1, <3>2 DEF IInv, SockInv
      <4> QED
        BY <4>1, GoodMonotone
    <3> QED
      BY <3>1, <3>2
  <2> QED
    BY <2>1, <2>2 DEF SockInv
<1>3. \A h \in Gens : sk[h[1]].sndgen[2] \in Nat /\ sk'[h[1]].sndgen[2] \in Nat
                     /\ sk[h[1]].sndgen[2] <= sk'[h[1]].sndgen[2]
  <2> SUFFICES ASSUME NEW h \in Gens
               PROVE  /\ sk[h[1]].sndgen[2] \in Nat /\ sk'[h[1]].sndgen[2] \in Nat
                      /\ sk[h[1]].sndgen[2] <= sk'[h[1]].sndgen[2]
    OBVIOUS
  <2>1. h[1] \in Sock
    BY DEF Gens
  <2>2. sk[h[1]] \in SockRecords /\ sk'[h[1]] \in SockRecords
    BY <1>2, <2>1 DEF IInv, SockInv
  <2>3. sk[h[1]].sndgen[2] \in Nat /\ sk'[h[1]].sndgen[2] \in Nat
    <3>1. sk[h[1]].sndgen \in Gens /\ sk'[h[1]].sndgen \in Gens
      BY <2>2 DEF SockRecords
    <3> QED
      BY <3>1, GenFields
  <2>4. CASE h[1] = s
    <3>1. sk'[h[1]].sndgen = g
      BY <1>1, <2>4 DEF IInv, SockInv
    <3> QED
      BY <2>3, <2>4, <3>1
  <2>5. CASE h[1] # s
    <3>1. sk'[h[1]] = sk[h[1]]
      BY <1>1, <2>1, <2>5 DEF IInv, SockInv
    <3> QED
      BY <2>3, <3>1
  <2> QED
    BY <2>3, <2>4, <2>5
<1>4. NetInv'
  <2> SUFFICES ASSUME NEW x \in net'
               PROVE  /\ x \in Packets /\ Truth(x, got')
                      /\ x.sgen[2] <= sk'[x.sgen[1]].sndgen[2]
    BY DEF NetInv
  <2>1. CASE x \in net
    <3>1. x \in Packets /\ Truth(x, got') /\ x.sgen \in Gens
          /\ x.sgen[2] <= sk[x.sgen[1]].sndgen[2]
      BY <2>1, TruthMonotone DEF IInv, NetInv, Packets
    <3>2. x.sgen[2] \in Nat
      BY <3>1 DEF Gens
    <3> QED
      BY <1>3, <3>1, <3>2
  <2>2. CASE Sendable(x, g, got')
    <3>1. sk'[s].sndgen = g /\ g[2] \in Nat
      BY <1>1 DEF IInv, SockInv, Gens
    <3> QED
      BY <2>2, <3>1 DEF Sendable
  <2> QED
    BY <1>1, <2>1, <2>2
<1>5. GotInv' /\ DeliveredPrefix'
  <2> SUFFICES ASSUME NEW m \in got'
               PROVE  /\ m \in Gens \X Nat /\ m[1][2] <= sk'[m[1][1]].sndgen[2]
                      /\ \A i \in 1 .. m[2] : <<m[1], i>> \in got'
    BY DEF GotInv, DeliveredPrefix
  <2>1. /\ m \in Gens \X Nat /\ m[1][2] <= sk[m[1][1]].sndgen[2]
        /\ \A i \in 1 .. m[2] : <<m[1], i>> \in got'
    BY DEF IInv, GotInv, DeliveredPrefix
  <2>2. m[1] \in Gens /\ m[1][2] \in Nat
    BY <2>1 DEF Gens
  <2> QED
    BY <1>3, <2>1, <2>2
<1> QED
  BY <1>2, <1>4, <1>5

LEMMA SendtoStep == ASSUME IInv, NEW s \in Sock, Sendto(s) PROVE IInv'
<1> DEFINE r == sk[s]
           p == [src |-> s, dst |-> r.addr, seq |-> NextSeq(r.sndseq),
                 sgen |-> r.sndgen, ack |-> r.rcvseq, agen |-> r.rcvgen,
                 data |-> sent[s] + 1]
           a == [r EXCEPT !.unacked = Append(r.unacked, p)]
           b == Ackq(r, p)
           c == [b EXCEPT !.sndseq = r.sndseq + 1]
           q == [c EXCEPT !.acksent = r.rcvseq]
<1>1. r \in SockRecords /\ Good(s, r, got) /\ r.addr \in Sock /\ sent[s] \in Nat
  BY DEF Sendto, IInv, SockInv, SockRecords
<1>2. p \in Packets /\ Truth(p, got) /\ p.sgen = r.sndgen /\ p.seq = r.sndseq + 1
  BY <1>1, SMTT(60) DEF Packets, SockRecords, NextSeq, Good, Truth
<1>3. /\ Append(r.unacked, p) \in Seq(Packets) /\ Len(r.unacked) \in Nat
      /\ Len(Append(r.unacked, p)) = Len(r.unacked) + 1
      /\ \A i \in 1 .. Len(r.unacked) : Append(r.unacked, p)[i] = r.unacked[i]
      /\ Append(r.unacked, p)[Len(r.unacked) + 1] = p
  BY <1>1, <1>2, AppendProperties DEF SockRecords
<1> HIDE DEF p, r
<1>4. /\ a \in SockRecords /\ a.unacked = Append(r.unacked, p) /\ SameElse(r, a)
      /\ a.sndseq = r.sndseq /\ a.ackrcvd = r.ackrcvd
  BY <1>1, <1>3 DEF SockRecords, SameElse
<1>5. b = [a EXCEPT !.xmits = IF r.unacked = <<>> THEN 1 ELSE r.xmits]
  BY DEF Ackq
<1> HIDE DEF a, b
<1>6. /\ b \in SockRecords /\ b.unacked = Append(r.unacked, p) /\ SameElse(r, b)
      /\ b.sndseq = r.sndseq /\ b.ackrcvd = r.ackrcvd
  <2>1. (IF r.unacked = <<>> THEN 1 ELSE r.xmits) \in 0 .. Rudpmaxxmit + 1
    BY <1>1, RudpAssumption DEF SockRecords
  <2> QED
    BY <1>4, <1>5, <2>1 DEF SockRecords, SameElse
<1>7. r.sndseq + 1 \in Nat /\ r.rcvseq \in Nat /\ r.ackrcvd \in Nat /\ r.sndseq \in Nat
  BY <1>1 DEF SockRecords
<1>8. /\ c \in SockRecords /\ c.unacked = Append(r.unacked, p) /\ SameElse(r, c)
      /\ c.sndseq = r.sndseq + 1 /\ c.ackrcvd = r.ackrcvd
  BY <1>6, <1>7 DEF SockRecords, SameElse
<1> HIDE DEF c
<1>9. /\ q \in SockRecords /\ q.unacked = Append(r.unacked, p)
      /\ q.sndgen = r.sndgen /\ q.rcvgen = r.rcvgen /\ q.rcvseq = r.rcvseq /\ q.addr = r.addr
      /\ q.sndseq = r.sndseq + 1 /\ q.ackrcvd = r.ackrcvd
  BY <1>7, <1>8 DEF SockRecords, SameElse
<1>10. sk' = [sk EXCEPT ![s] = q] /\ net' = net \cup {p}
  BY <1>6 DEF Sendto, NextSeq, SameElse, q, c, b, p, r
<1> HIDE DEF q
<1>11. Good(s, q, got)
  <2>1. IsTail(r) /\ \A i \in 1 .. Len(r.unacked) : Truth(r.unacked[i], got)
    BY <1>1 DEF Good
  <2>2. IsTail(q)
    <3>1. q.ackrcvd + Len(q.unacked) = q.sndseq
      <4>1. Len(q.unacked) = Len(r.unacked) + 1 /\ Len(r.unacked) \in Nat
        BY <1>3, <1>9
      <4>2. r.ackrcvd + Len(r.unacked) = r.sndseq
        BY <2>1 DEF IsTail
      <4> QED
        BY <1>7, <1>9, <4>1, <4>2
    <3>2. ASSUME NEW i \in 1 .. Len(q.unacked)
          PROVE  q.unacked[i].seq = q.ackrcvd + i /\ q.unacked[i].sgen = q.sndgen
      <4>1. CASE i \in 1 .. Len(r.unacked)
        BY <1>3, <1>9, <2>1, <4>1 DEF IsTail
      <4>2. CASE i = Len(r.unacked) + 1
        <5>1. q.unacked[i] = p /\ r.ackrcvd + i = r.sndseq + 1
          BY <1>3, <1>7, <1>9, <2>1, <4>2 DEF IsTail
        <5> QED
          BY <1>2, <1>9, <5>1
      <4> QED
        BY <1>3, <1>9, <4>1, <4>2
    <3> QED
      BY <3>1, <3>2 DEF IsTail
  <2>3. ASSUME NEW i \in 1 .. Len(q.unacked) PROVE Truth(q.unacked[i], got)
    <3>1. i \in 1 .. Len(r.unacked) \/ i = Len(r.unacked) + 1
      BY <1>3, <1>9
    <3> QED
      BY <1>2, <1>3, <1>9, <2>1, <3>1
  <2> QED
    BY <1>1, <1>9, <2>2, <2>3, NoGenFacts DEF Good
<1>12. StepOf(s, r.sndgen, got') /\ UNCHANGED got
  BY <1>2, <1>9, <1>10, <1>11 DEF StepOf, Sendable, Sendto
<1>13. r.sndgen \in Gens /\ r.sndgen[1] = s /\ r.sndgen[2] >= sk[s].sndgen[2]
  <2>1. r.sndgen \in Gens /\ r.sndgen[1] = s
    BY <1>1 DEF Good, SockRecords
  <2> QED
    BY <2>1, GenFields DEF r
<1>14. SockInv' /\ NetInv' /\ GotInv' /\ DeliveredPrefix'
  BY <1>12, <1>13, StepLemma
<1> QED
  BY <1>14 DEF IInv, Sendto, HdrInv, RestOK

LEMMA RecvfromStep == ASSUME IInv, NEW s \in Sock, Recvfrom(s) PROVE IInv'
<1>1. Good(s, sk[s], got) /\ UNCHANGED got /\ Block(s, sk[s], {})
  BY DEF IInv, SockInv, Recvfrom, hist
<1>2. StepOf(s, sk[s].sndgen, got')
  BY <1>1, BlockStep
<1>3. sk[s].sndgen \in Gens /\ sk[s].sndgen[1] = s /\ sk[s].sndgen[2] \in Nat
  BY <1>1, GenFields DEF Good, SockRecords
<1>4. SockInv' /\ NetInv' /\ GotInv' /\ DeliveredPrefix'
  BY <1>1, <1>2, <1>3, StepLemma
<1>5. pc' = [pc EXCEPT ![s] = "recv"]
  BY <1>1 DEF Block
<1> QED
  BY <1>4, <1>5 DEF IInv, Recvfrom, hist, HdrInv, RestOK

LEMMA ReceiveStep == ASSUME IInv, NEW s \in Sock, Receive(s) PROVE IInv'
<1>1. PICK p \in net :
        /\ Process(s, sk[s], p, TRUE)
        /\ hdr' = [hdr EXCEPT ![s] = IF pc'[s] = "recv" THEN p ELSE ZeroHdr]
        /\ UNCHANGED sent
  BY DEF Receive
<1>2. /\ p \in Packets /\ p \in AnyHdr /\ Truth(p, got) /\ p.sgen \in Gens
      /\ p.seq \in Nat /\ p.sgen[2] <= sk[p.sgen[1]].sndgen[2]
  BY ZeroHdrType DEF IInv, NetInv, Packets
<1>3. Good(s, sk[s], got) /\ got \subseteq Gens \X Nat /\ RestOK
  BY DEF IInv, SockInv, GotInv
<1>4. /\ SocketOutcome(s, sk[s]) /\ GotOutcome(p, TRUE) /\ AckedOutcome
      /\ RestOK' /\ HdrOutcome(s, p)
  BY <1>1, <1>2, <1>3, ProcessStep
<1>5. PICK g \in Gens : g[1] = s /\ g[2] >= sk[s].sndgen[2] /\ StepOf(s, g, got')
  BY <1>4 DEF SocketOutcome
<1>6. /\ got \subseteq got'
      /\ \A m \in got' : \/ m \in got
                         \/ /\ m \in Gens \X Nat
                            /\ m[1][2] <= sk[m[1][1]].sndgen[2]
                            /\ \A i \in 1 .. m[2] : <<m[1], i>> \in got'
  BY <1>2, <1>4 DEF GotOutcome
<1>7. SockInv' /\ NetInv' /\ GotInv' /\ DeliveredPrefix'
  BY <1>5, <1>6, StepLemma
<1>8. HdrInv' /\ hdr' \in [Sock -> Packets \cup {ZeroHdr}]
  <2>1. ASSUME NEW t \in Sock
        PROVE  /\ hdr'[t] \in Packets \cup {ZeroHdr} /\ Truth(hdr'[t], got')
               /\ hdr'[t].seq = 1 /\ hdr'[t].ack = 0 => <<hdr'[t].sgen, 1>> \in got'
    <3>1. CASE hdr'[t] = hdr[t]
      BY <1>6, <3>1, TruthMonotone DEF IInv, HdrInv
    <3>2. CASE t = s /\ hdr'[t] = ZeroHdr
      BY <3>2 DEF ZeroHdr, Truth
    <3>3. CASE t = s /\ hdr'[t] = p /\ pc'[s] = "recv"
      BY <1>2, <1>4, <1>6, <3>3, TruthMonotone DEF HdrOutcome
    <3> QED
      BY <1>1, <3>1, <3>2, <3>3 DEF IInv
  <2>2. hdr' \in [Sock -> Packets \cup {ZeroHdr}]
    BY <1>1, <1>2 DEF IInv
  <2> QED
    BY <2>1, <2>2 DEF HdrInv
<1>9. acked' \subseteq got'
  BY <1>4, <1>6 DEF IInv, AckedOutcome
<1> QED
  BY <1>1, <1>4, <1>7, <1>8, <1>9 DEF IInv

LEMMA RexmitStep == ASSUME IInv, NEW s \in Sock, Rexmit(s) PROVE IInv'
<1> DEFINE r == sk[s]
           q == [r EXCEPT !.xmits = @ + 1]
<1>1. /\ r \in SockRecords /\ Good(s, r, got) /\ r.unacked # <<>>
      /\ r.xmits \in 0 .. Rudpmaxxmit
  BY RudpAssumption DEF Rexmit, IInv, SockInv, SockRecords
<1>2. sk' = [sk EXCEPT ![s] = q] /\ net' = net \cup {FirstBlock(r)} /\ UNCHANGED got
  BY <1>1 DEF Rexmit, IInv, SockInv, hist
<1> HIDE DEF r
<1>3. /\ q \in SockRecords /\ SameSender(r, q) /\ SameElse(r, q)
  <2>1. r.xmits + 1 \in 0 .. Rudpmaxxmit + 1
    BY <1>1, RudpAssumption
  <2> QED
    BY <1>1, <2>1 DEF SockRecords, SameSender, SameElse
<1> HIDE DEF q
<1>4. Good(s, q, got)
  BY <1>1, <1>3 DEF Good, IsTail, SameSender, SameElse
<1>5. FirstBlockGood(s, r, got)
  BY <1>1, FirstBlockLemma
<1>6. StepOf(s, r.sndgen, got')
  BY <1>2, <1>3, <1>4, <1>5 DEF StepOf, Sendable, FirstBlockGood, SameSender
<1>7. r.sndgen \in Gens /\ r.sndgen[1] = s /\ r.sndgen[2] >= sk[s].sndgen[2]
  <2>1. r.sndgen \in Gens /\ r.sndgen[1] = s
    BY <1>1 DEF Good, SockRecords
  <2> QED
    BY <2>1, GenFields DEF r
<1>8. SockInv' /\ NetInv' /\ GotInv' /\ DeliveredPrefix'
  BY <1>2, <1>6, <1>7, StepLemma
<1> QED
  BY <1>8 DEF IInv, Rexmit, hist, HdrInv, RestOK

LEMMA CloseStep == ASSUME IInv, NEW s \in Sock, Close(s) PROVE IInv'
<1>1. /\ Good(s, sk[s], got) /\ sk[s] \in SockRecords /\ UNCHANGED <<sk, got>>
      /\ sk' = [sk EXCEPT ![s] = sk[s]]
  BY DEF IInv, SockInv, Close, hist
<1>2. \A x \in net' : x \in net \/ Sendable(x, sk[s].sndgen, got)
  <2>1. CASE sk[s].acksent # sk[s].rcvseq
    <3>1. sk[s].addr # None
      BY <1>1, <2>1 DEF Good
    <3> QED
      BY <1>1, <3>1, AckPacketGood DEF Close
  <2>2. CASE sk[s].acksent = sk[s].rcvseq
    BY <2>2 DEF Close
  <2> QED
    BY <2>1, <2>2
<1>3. StepOf(s, sk[s].sndgen, got')
  BY <1>1, <1>2 DEF StepOf
<1>4. sk[s].sndgen \in Gens /\ sk[s].sndgen[1] = s /\ sk[s].sndgen[2] \in Nat
  BY <1>1, GenFields DEF Good, SockRecords
<1>5. SockInv' /\ NetInv' /\ GotInv' /\ DeliveredPrefix'
  BY <1>1, <1>3, <1>4, StepLemma
<1> QED
  BY <1>5 DEF IInv, Close, hist, HdrInv, RestOK

\* Looking at the old header again after giving up is harmless for the acks:
\* if it acks anything it acks a generation that is over.
LEMMA GiveUpStep == ASSUME IInv, NEW s \in Sock, GiveUp(s) PROVE IInv'
<1> DEFINE r == Hangup(sk[s])
           p == hdr[s]
<1>1. /\ Process(s, r, p, FALSE) /\ UNCHANGED sent /\ CanHangup(sk[s])
      /\ hdr' = [hdr EXCEPT ![s] = IF pc'[s] = "recv" THEN @ ELSE ZeroHdr]
  BY DEF GiveUp
<1>2. /\ Good(s, sk[s], got) /\ sk[s].sndgen[2] \in Nat /\ sk[s].sndgen[1] = s
      /\ got \subseteq Gens \X Nat /\ RestOK
  <2>1. Good(s, sk[s], got) /\ sk[s] \in SockRecords
    BY DEF IInv, SockInv
  <2>2. sk[s].sndgen \in Gens /\ sk[s].sndgen[1] = s
    BY <2>1 DEF Good, SockRecords
  <2> QED
    BY <2>1, <2>2, GenFields DEF IInv, GotInv
<1>3. /\ Good(s, r, got) /\ r.sndgen = <<s, sk[s].sndgen[2] + 1>>
      /\ r.rcvseq = 0 /\ r.rcvgen = NoGen
  <2>1. CanHangup(sk[s]) /\ Good(s, sk[s], got)
    BY <1>1, <1>2
  <2> QED
    BY <2>1, HangupGood
<1> HIDE DEF r
<1>4. /\ p \in Packets \cup {ZeroHdr} /\ p \in AnyHdr /\ Truth(p, got)
      /\ p.seq = 1 /\ p.ack = 0 => <<p.sgen, 1>> \in got
  BY ZeroHdrType DEF IInv, HdrInv
<1>5. p \in Packets \/ (~NewRemote(r, p) /\ p.seq = 0)
  BY <1>3, <1>4 DEF NewRemote, ZeroHdr
<1>6. ASSUME p.seq = 1, ~Ignored(r, p) PROVE <<p.sgen, 1>> \in got
  <2>1. CASE p.ack = 0
    BY <1>4, <1>6, <2>1
  <2>2. CASE p.ack # 0
    <3>1. p.ack \in Nat \ {0} /\ p.agen = r.sndgen
      BY <1>4, <1>6, <2>2 DEF Ignored, AnyHdr
    <3>2. <<r.sndgen, 1>> \in got
      BY <1>4, <3>1 DEF Truth
    <3>3. r.sndgen[2] <= sk[r.sndgen[1]].sndgen[2]
      BY <3>2 DEF IInv, GotInv
    <3> QED
      BY <1>2, <1>3, <3>3
  <2> QED
    BY <2>1, <2>2
<1> HIDE DEF p
<1>7. /\ SocketOutcome(s, r) /\ GotOutcome(p, FALSE) /\ AckedOutcome /\ RestOK'
  BY <1>1, <1>2, <1>3, <1>4, <1>5, <1>6, ProcessStep
<1>8. PICK g \in Gens : g[1] = s /\ g[2] >= r.sndgen[2] /\ StepOf(s, g, got')
  BY <1>7 DEF SocketOutcome
<1>9. g[2] >= sk[s].sndgen[2] /\ got' = got
  BY <1>2, <1>3, <1>7, <1>8, GenFields DEF GotOutcome
<1>10. SockInv' /\ NetInv' /\ GotInv' /\ DeliveredPrefix'
  BY <1>8, <1>9, StepLemma
<1>11. HdrInv' /\ hdr' \in [Sock -> Packets \cup {ZeroHdr}]
  BY <1>1, <1>9 DEF IInv, HdrInv, ZeroHdr, Truth
<1> QED
  BY <1>1, <1>7, <1>9, <1>10, <1>11 DEF IInv, AckedOutcome

LEMMA ReopenStep == ASSUME IInv, NEW s \in Sock, Reopen(s) PROVE IInv'
<1> DEFINE k == sk[s].sndgen[2] + 1
<1>1. sk[s] \in SockRecords /\ sk[s].sndgen \in Gens
  BY DEF IInv, SockInv, SockRecords
<1>2. k \in 1 .. MaxGen /\ k >= sk[s].sndgen[2]
  BY <1>1, GenFields, RudpAssumption DEF Reopen, CanHangup
<1>3. sk' = [sk EXCEPT ![s] = Fresh(s, k)] /\ UNCHANGED <<net, got>>
  BY <1>1 DEF Reopen, IInv, SockInv
<1> HIDE DEF k
<1>4. StepOf(s, <<s, k>>, got')
  BY <1>2, <1>3, FreshGood DEF StepOf
<1>5. <<s, k>> \in Gens /\ <<s, k>>[1] = s /\ <<s, k>>[2] >= sk[s].sndgen[2]
  BY <1>2 DEF Gens
<1>6. SockInv' /\ NetInv' /\ GotInv' /\ DeliveredPrefix'
  BY <1>3, <1>4, <1>5, StepLemma
<1> QED
  BY <1>6 DEF IInv, Reopen, HdrInv, RestOK

LEMMA NextIInv == IInv /\ [Next]_vars => IInv'
<1> SUFFICES ASSUME IInv, [Next]_vars PROVE IInv'
  OBVIOUS
<1>1. CASE Next
  BY <1>1, SendtoStep, RecvfromStep, ReceiveStep, RexmitStep, GiveUpStep, CloseStep, ReopenStep
     DEF Next
<1>2. CASE UNCHANGED vars
  BY <1>2 DEF vars, IInv, SockInv, NetInv, GotInv, HdrInv, RestOK, DeliveredPrefix
<1> QED
  BY <1>1, <1>2

LEMMA Invariance == Spec => []IInv
BY InitIInv, NextIInv, PTL DEF Spec

-----------------------------------------------------------------------------
\* rudp.c keeps every field in its range; in particular the count of
\* transmissions stops at its limit.
THEOREM TypeCorrect == Spec => []TypeOK
<1>1. IInv => TypeOK
  BY DEF IInv, SockInv, NetInv, GotInv, RestOK, TypeOK
<1> QED
  BY <1>1, Invariance, PTL

\* The unacked list is the tail of the current generation.
THEOREM UnackedTail == Spec => []UnackedIsTail
<1>1. IInv => UnackedIsTail
  BY DEF IInv, SockInv, Good, IsTail, UnackedIsTail
<1> QED
  BY <1>1, Invariance, PTL

\* The reliability of rudp.c: an ack frees only what was delivered.
THEOREM Reliable == Spec => []AckedWasDelivered
<1>1. IInv => AckedWasDelivered
  BY DEF IInv, AckedWasDelivered
<1> QED
  BY <1>1, Invariance, PTL

\* What was delivered of a generation is a prefix of it.
THEOREM Prefix == Spec => []DeliveredPrefix
<1>1. IInv => DeliveredPrefix
  BY DEF IInv
<1> QED
  BY <1>1, Invariance, PTL

-----------------------------------------------------------------------------
(***************************************************************************)
(* Delivery in order.  A sequence number of a generation always stands for *)
(* the same message, in every packet sent, lost or sent again; and what a  *)
(* socket delivered last is the message its rcvseq stands for.             *)
(***************************************************************************)
\* Block x of a sender whose last block was message v, as number n.
NumbersOf(x, v, n) == x.seq # 0 => x.data + n = v + x.seq

\* The blocks r keeps, when message v was the last one sent.
Numbered(r, v) == \A i \in 1 .. Len(r.unacked) : NumbersOf(r.unacked[i], v, r.sndseq)

SameNumbers ==
    \A x, y \in net : x.seq # 0 /\ y.seq # 0 /\ x.sgen = y.sgen
                         => x.data + y.seq = y.data + x.seq
SenderNumbers ==
    \A s \in Sock :
        /\ \A x \in net : x.sgen = sk[s].sndgen => NumbersOf(x, sent[s], sk[s].sndseq)
        /\ Numbered(sk[s], sent[s])

\* Some packet of the peer's generation bears witness to the last delivery.
Witnessed(c, q, N) ==
    c # <<>> /\ q.rcvgen # NoGen =>
        \E x \in N : /\ x.seq # 0 /\ x.sgen = q.rcvgen
                     /\ NumbersOf(x, c[Len(c)], q.rcvseq)
Consecutive(c) == \A i \in 1 .. Len(c) - 1 : c[i + 1] = c[i] + 1
ReceiverNumbers ==
    \A s \in Sock : Witnessed(conn[s], sk[s], net) /\ Consecutive(conn[s])

NumberInv == SameNumbers /\ SenderNumbers /\ ReceiverNumbers

\* q goes on with the generation of r, or has begun a later one.
SendsOn(r, q, v) ==
    /\ Numbered(q, v)
    /\ q.sndgen[2] >= r.sndgen[2]
    /\ (q.sndgen = r.sndgen /\ q.sndseq = r.sndseq) \/ q.sndgen[2] > r.sndgen[2]

\* What a step may do to the messages delivered at s, which is left as q.
ConnOutcome(s, r, q) ==
    \/ /\ conn' = conn
       /\ q.rcvgen = NoGen \/ (q.rcvgen = r.rcvgen /\ q.rcvseq = r.rcvseq)
    \/ conn' = [conn EXCEPT ![s] = <<>>]
    \/ \E p \in net :
          /\ p.seq # 0 /\ q.rcvgen = p.sgen /\ q.rcvseq = p.seq
          /\ \/ conn' = [conn EXCEPT ![s] = <<p.data>>]
             \/ /\ conn' = [conn EXCEPT ![s] = Append(conn[s], p.data)]
                /\ r.rcvgen = p.sgen /\ p.seq = r.rcvseq + 1

\* The packets a step adds are of the generation of q, and number v's.
NetOutcome(q, v) ==
    /\ net \subseteq net'
    /\ \A x \in net' : \/ x \in net
                       \/ x \in Packets /\ x.sgen = q.sndgen /\ NumbersOf(x, v, q.sndseq)

LEMMA AdoptNumbers ==
    ASSUME NEW s \in Sock, NEW G, NEW r, Good(s, r, G), NEW v, Numbered(r, v), NEW p
    PROVE  SendsOn(r, Adopt(r, p), v)
<1>1. r \in SockRecords /\ r.sndgen[2] \in Nat
  BY DEF Good, SockRecords, Gens
<1>2. CASE ~NewRemote(r, p)
  BY <1>1, <1>2 DEF Adopt, SendsOn
<1>3. CASE NewRemote(r, p) /\ HangsUp(r, p)
  <2> DEFINE q == Adopt(r, p)
  <2>1. q = [Hangup(r) EXCEPT !.addr = p.src, !.rcvgen = p.sgen]
    BY <1>3 DEF Adopt
  <2>2. q.unacked = <<>> /\ q.sndgen = <<r.sndgen[1], r.sndgen[2] + 1>>
    BY <2>1 DEF Hangup
  <2> HIDE DEF q
  <2>3. q.sndgen[2] = r.sndgen[2] + 1
    BY <2>2
  <2>4. Numbered(q, v)
    BY <2>2 DEF Numbered
  <2> QED
    BY <1>1, <2>3, <2>4 DEF SendsOn, q
<1>4. CASE NewRemote(r, p) /\ ~HangsUp(r, p)
  <2> DEFINE q == Adopt(r, p)
  <2>1. q = [r EXCEPT !.addr = p.src, !.rcvgen = p.sgen]
    BY <1>4 DEF Adopt
  <2>2. q.unacked = r.unacked /\ q.sndgen = r.sndgen /\ q.sndseq = r.sndseq
    BY <1>1, <2>1 DEF SockRecords
  <2> HIDE DEF q
  <2>3. Numbered(q, v)
    BY <2>2 DEF Numbered
  <2> QED
    BY <1>1, <2>2, <2>3 DEF SendsOn, q
<1> QED
  BY <1>2, <1>3, <1>4

LEMMA AckNumbers ==
    ASSUME NEW s \in Sock, NEW G, NEW r, Good(s, r, G), NEW v, Numbered(r, v),
           NEW p \in AnyHdr
    PROVE  /\ SendsOn(r, Acknowledge(r, p), v)
           /\ \A x \in RexmitOut(r, p) : NumbersOf(x, v, r.sndseq)
<1>1. \A x : FromUnacked(x, r) => NumbersOf(x, v, r.sndseq)
  BY DEF FromUnacked, Numbered, NumbersOf
<1>2. /\ Acknowledge(r, p).sndgen = r.sndgen /\ PartOf(Acknowledge(r, p), r)
      /\ \A x \in RexmitOut(r, p) : FromUnacked(x, r)
  BY AckGood
<1>3. Numbered(Acknowledge(r, p), v) /\ Acknowledge(r, p).sndseq = r.sndseq
  BY <1>1, <1>2 DEF PartOf, Numbered
<1>4. r.sndgen[2] \in Nat
  BY DEF Good, SockRecords, Gens
<1> QED
  BY <1>1, <1>2, <1>3, <1>4 DEF SendsOn

\* Blocking again sends acks only.
LEMMA BlockNumbers ==
    ASSUME NEW s \in Sock, NEW G, NEW r, Good(s, r, G), NEW v, NEW out,
           \A x \in out : Sendable(x, r.sndgen, G) /\ NumbersOf(x, v, r.sndseq),
           Block(s, r, out), Numbered(r, v)
    PROVE  \E q \in SockRecords :
               /\ sk' = [sk EXCEPT ![s] = q] /\ NetOutcome(q, v) /\ Numbered(q, v)
               /\ q.sndgen = r.sndgen /\ q.sndseq = r.sndseq
               /\ q.rcvgen = r.rcvgen /\ q.rcvseq = r.rcvseq
<1>1. r \in SockRecords
  BY DEF Good
<1>2. CASE r.acksent # r.rcvseq
  <2> DEFINE q == AckNoted(r)
  <2>1. r.addr # None
    BY <1>2 DEF Good
  <2>2. sk' = [sk EXCEPT ![s] = q] /\ net' = net \cup out \cup {AckPacket(s, r)}
    BY <1>2 DEF Block
  <2>3. q \in SockRecords /\ q.sndgen = r.sndgen /\ q.sndseq = r.sndseq
        /\ q.unacked = r.unacked /\ q.rcvgen = r.rcvgen /\ q.rcvseq = r.rcvseq
    BY <1>1 DEF AckNoted, SockRecords
  <2>4. AckPacket(s, r) \in Packets /\ AckPacket(s, r).sgen = r.sndgen
    BY <2>1, AckPacketGood DEF Sendable
  <2>5. NumbersOf(AckPacket(s, r), v, r.sndseq)
    BY DEF AckPacket, NumbersOf
  <2> HIDE DEF q
  <2>6. NetOutcome(q, v)
    BY <2>2, <2>3, <2>4, <2>5 DEF NetOutcome, Sendable
  <2>7. Numbered(q, v)
    BY <2>3 DEF Numbered
  <2> QED
    BY <2>2, <2>3, <2>6, <2>7
<1>3. CASE r.acksent = r.rcvseq
  <2>1. sk' = [sk EXCEPT ![s] = r] /\ net' = net \cup out
    BY <1>3 DEF Block
  <2>2. NetOutcome(r, v)
    BY <2>1 DEF NetOutcome, Sendable
  <2> QED
    BY <1>1, <2>1, <2>2
<1> QED
  BY <1>2, <1>3

\* A step of s as far as the numbers go.
NumberStep(s, q) ==
    /\ q \in SockRecords /\ sk' = [sk EXCEPT ![s] = q]
    /\ sent' \in [Sock -> Nat] /\ \A t \in Sock \ {s} : sent'[t] = sent[t]
    /\ \/ q.sndgen = sk[s].sndgen /\ sent'[s] + sk[s].sndseq = sent[s] + q.sndseq
       \/ q.sndgen[2] > sk[s].sndgen[2]
    /\ Numbered(q, sent'[s]) /\ NetOutcome(q, sent'[s])
    /\ ConnOutcome(s, sk[s], q)

LEMMA NumberLemma ==
    ASSUME IInv, IInv', NumberInv, NEW s \in Sock, NEW q, NumberStep(s, q)
    PROVE  NumberInv'
<1>1. /\ q \in SockRecords /\ sk' = [sk EXCEPT ![s] = q] /\ sk \in [Sock -> SockRecords]
      /\ sk'[s] = q /\ \A t \in Sock \ {s} : sk'[t] = sk[t]
      /\ \A t \in Sock : sk[t] \in SockRecords /\ sent[t] \in Nat /\ sent'[t] \in Nat
  BY DEF NumberStep, IInv, SockInv
<1>2. /\ \A t \in Sock : sk[t].sndgen \in Gens /\ sk[t].sndgen[1] = t /\ sk[t].sndgen[2] \in Nat
      /\ q.sndgen \in Gens /\ q.sndgen[1] = s /\ q.sndgen[2] \in Nat
  <2>1. \A t \in Sock : sk[t].sndgen[1] = t
    BY DEF IInv, SockInv, Good
  <2>2. q.sndgen[1] = s
    BY <1>1 DEF IInv, SockInv, Good
  <2>3. q.sndgen \in Gens /\ \A t \in Sock : sk[t].sndgen \in Gens
    BY <1>1 DEF SockRecords
  <2> QED
    BY <2>1, <2>2, <2>3, GenFields
<1>3. /\ \A x \in net' : x \in Packets /\ x.seq \in Nat /\ x.data \in Nat /\ x.sgen \in Gens
      /\ net \subseteq net'
      /\ \A x \in net' : x \in net \/ (x.sgen = q.sndgen /\ NumbersOf(x, sent'[s], q.sndseq))
  BY DEF NumberStep, NetOutcome, IInv, NetInv, Packets
\* An old packet of the generation of q is of the old generation of s.
<1>4. ASSUME NEW x \in net, x.sgen = q.sndgen
      PROVE  NumbersOf(x, sent'[s], q.sndseq)
  <2>1. q.sndgen = sk[s].sndgen /\ sent'[s] + sk[s].sndseq = sent[s] + q.sndseq
    <3>1. x.sgen[2] <= sk[s].sndgen[2]
      BY <1>2, <1>4 DEF IInv, NetInv
    <3>2. ~(q.sndgen[2] > sk[s].sndgen[2])
      BY <1>2, <1>4, <3>1
    <3> QED
      BY <3>2 DEF NumberStep
  <2>2. NumbersOf(x, sent[s], sk[s].sndseq)
    BY <1>4, <2>1 DEF NumberInv, SenderNumbers
  <2>3. /\ sent[s] \in Nat /\ sent'[s] \in Nat /\ sk[s].sndseq \in Nat /\ q.sndseq \in Nat
        /\ x.data \in Nat /\ x.seq \in Nat
    BY <1>1, <1>3 DEF SockRecords
  <2>4. ASSUME x.seq # 0 PROVE x.data + q.sndseq = sent'[s] + x.seq
    <3>1. x.data + sk[s].sndseq = sent[s] + x.seq
      BY <2>2, <2>4 DEF NumbersOf
    <3> HIDE DEF NumbersOf
    <3> QED
      BY <2>1, <2>3, <3>1
  <2> QED
    BY <2>4 DEF NumbersOf
<1>5. \A x \in net' : x.sgen = q.sndgen => NumbersOf(x, sent'[s], q.sndseq)
  BY <1>3, <1>4
<1>6. SameNumbers'
  <2> SUFFICES ASSUME NEW x \in net', NEW y \in net', x.seq # 0, y.seq # 0, x.sgen = y.sgen
               PROVE  x.data + y.seq = y.data + x.seq
    BY DEF SameNumbers
  <2>1. CASE x.sgen = q.sndgen
    <3>1. x.data + q.sndseq = sent'[s] + x.seq /\ y.data + q.sndseq = sent'[s] + y.seq
      BY <1>5, <2>1 DEF NumbersOf
    <3>2. q.sndseq \in Nat /\ sent'[s] \in Nat
      BY <1>1 DEF SockRecords
    <3> QED
      BY <1>3, <3>1, <3>2
  <2>2. CASE x.sgen # q.sndgen
    <3>1. x \in net /\ y \in net
      BY <1>3, <2>2
    <3> QED
      BY <3>1 DEF NumberInv, SameNumbers
  <2> QED
    BY <2>1, <2>2
<1>7. SenderNumbers'
  <2> SUFFICES ASSUME NEW t \in Sock
               PROVE  /\ \A x \in net' : x.sgen = sk'[t].sndgen
                                            => NumbersOf(x, sent'[t], sk'[t].sndseq)
                      /\ Numbered(sk'[t], sent'[t])
    BY DEF SenderNumbers, Numbered, NumbersOf
  <2>1. CASE t = s
    BY <1>1, <1>5, <2>1 DEF NumberStep
  <2>2. CASE t # s
    <3>1. sk'[t] = sk[t] /\ sent'[t] = sent[t] /\ sk[t].sndgen # q.sndgen
      BY <1>1, <1>2, <2>2 DEF NumberStep
    <3>2. \A x \in net' : x.sgen = sk[t].sndgen => x \in net
      BY <1>3, <3>1
    <3> QED
      BY <3>1, <3>2 DEF NumberInv, SenderNumbers
  <2> QED
    BY <2>1, <2>2
<1>8. ReceiverNumbers'
  <2> SUFFICES ASSUME NEW t \in Sock
               PROVE  Witnessed(conn'[t], sk'[t], net') /\ Consecutive(conn'[t])
    BY DEF ReceiverNumbers, Witnessed, Consecutive, NumbersOf
  <2>0. /\ Witnessed(conn[t], sk[t], net) /\ Consecutive(conn[t]) /\ conn[t] \in Seq(Nat)
        /\ conn \in [Sock -> Seq(Nat)]
    BY DEF NumberInv, ReceiverNumbers, IInv, RestOK
  <2>1. CASE conn'[t] = conn[t] /\ sk'[t].rcvgen = sk[t].rcvgen /\ sk'[t].rcvseq = sk[t].rcvseq
    BY <1>3, <2>0, <2>1 DEF Witnessed
  <2>2. CASE conn'[t] = conn[t] /\ sk'[t].rcvgen = NoGen
    BY <2>0, <2>2 DEF Witnessed
  <2>3. CASE conn'[t] = <<>>
    BY <2>3 DEF Witnessed, Consecutive
  <2>4. ASSUME NEW p \in net, t = s, p.seq # 0, q.rcvgen = p.sgen, q.rcvseq = p.seq,
               conn'[t] = <<p.data>>
        PROVE  Witnessed(conn'[t], sk'[t], net') /\ Consecutive(conn'[t])
    <3>1. p \in net' /\ p.data \in Nat /\ p.seq \in Nat
      BY <1>3
    <3>2. Len(conn'[t]) = 1 /\ conn'[t][1] = p.data /\ sk'[t] = q
      BY <1>1, <2>4
    <3>3. NumbersOf(p, conn'[t][Len(conn'[t])], q.rcvseq)
      BY <2>4, <3>1, <3>2 DEF NumbersOf
    <3>4. Witnessed(conn'[t], sk'[t], net')
      BY <2>4, <3>1, <3>2, <3>3 DEF Witnessed
    <3>5. Consecutive(conn'[t])
      BY <3>2 DEF Consecutive
    <3> QED
      BY <3>4, <3>5
  <2>5. ASSUME NEW p \in net, t = s, p.seq # 0, q.rcvgen = p.sgen, q.rcvseq = p.seq,
               conn'[t] = Append(conn[t], p.data), sk[t].rcvgen = p.sgen,
               p.seq = sk[t].rcvseq + 1
        PROVE  Witnessed(conn'[t], sk'[t], net') /\ Consecutive(conn'[t])
    <3> DEFINE c == conn[t]
               d == conn'[t]
    <3>1. p \in net' /\ p.data \in Nat /\ p.seq \in Nat /\ p.sgen \in Gens
      BY <1>3
    <3>2. /\ Len(c) \in Nat /\ Len(d) = Len(c) + 1 /\ d[Len(d)] = p.data
          /\ \A i \in 1 .. Len(c) : d[i] = c[i]
      BY <2>0, <2>5, <3>1, AppendProperties
    <3>3. NumbersOf(p, d[Len(d)], q.rcvseq) /\ sk'[t] = q
      BY <1>1, <2>5, <3>1, <3>2 DEF NumbersOf
    <3>4. Witnessed(d, sk'[t], net')
      BY <2>5, <3>1, <3>3 DEF Witnessed
    <3>5. c # <<>> => p.data = c[Len(c)] + 1
      <4> SUFFICES ASSUME c # <<>> PROVE p.data = c[Len(c)] + 1
        OBVIOUS
      <4>1. PICK x \in net : /\ x.seq # 0 /\ x.sgen = p.sgen
                             /\ NumbersOf(x, c[Len(c)], sk[t].rcvseq)
        BY <2>0, <2>5, <3>1, NoGenFacts DEF Witnessed
      <4>2. x.data + p.seq = p.data + x.seq
        BY <2>5, <4>1 DEF NumberInv, SameNumbers
      <4>3. x.data + sk[t].rcvseq = c[Len(c)] + x.seq
        BY <4>1 DEF NumbersOf
      <4>4. /\ x.data \in Nat /\ x.seq \in Nat /\ sk[t].rcvseq \in Nat
            /\ c[Len(c)] \in Nat
        <5>1. Len(c) \in 1 .. Len(c)
          BY <2>0, <3>2, EmptySeq
        <5> QED
          BY <1>1, <1>3, <2>0, <5>1, ElementOfSeq DEF SockRecords
      <4> HIDE DEF c
      <4> QED
        BY <2>5, <3>1, <4>2, <4>3, <4>4, SMTT(60)
    <3>6. Consecutive(d)
      <4> SUFFICES ASSUME NEW i \in 1 .. Len(d) - 1 PROVE d[i + 1] = d[i] + 1
        BY DEF Consecutive
      <4> HIDE DEF c, d
      <4>1. CASE i \in 1 .. Len(c) - 1
        <5>1. i \in 1 .. Len(c) /\ i + 1 \in 1 .. Len(c)
          BY <3>2, <4>1
        <5> QED
          BY <2>0, <3>2, <4>1, <5>1 DEF Consecutive, c
      <4>2. CASE i = Len(c)
        <5>1. c # <<>> /\ i \in 1 .. Len(c) /\ i + 1 = Len(d)
          BY <2>0, <3>2, <4>2, EmptySeq DEF c
        <5> QED
          BY <3>2, <3>5, <4>2, <5>1
      <4> QED
        BY <3>2, <4>1, <4>2
    <3> QED
      BY <3>4, <3>6
  <2>6. CASE t # s
    <3>1. conn'[t] = conn[t] /\ sk'[t] = sk[t]
      BY <1>1, <2>0, <2>6 DEF NumberStep, ConnOutcome
    <3> QED
      BY <2>1, <3>1
  <2>7. CASE t = s
    <3>1. ConnOutcome(t, sk[t], q) /\ sk'[t] = q
      BY <1>1, <2>7 DEF NumberStep
    <3>2. CASE conn' = conn
               /\ (q.rcvgen = NoGen \/ (q.rcvgen = sk[t].rcvgen /\ q.rcvseq = sk[t].rcvseq))
      BY <2>1, <2>2, <3>1, <3>2
    <3>3. CASE conn' = [conn EXCEPT ![t] = <<>>]
      BY <2>0, <2>3, <3>3
    <3>4. ASSUME NEW p \in net, p.seq # 0, q.rcvgen = p.sgen, q.rcvseq = p.seq,
                 conn' = [conn EXCEPT ![t] = <<p.data>>]
          PROVE  Witnessed(conn'[t], sk'[t], net') /\ Consecutive(conn'[t])
      <4>1. conn'[t] = <<p.data>>
        BY <2>0, <3>4
      <4> QED
        BY <2>4, <2>7, <3>4, <4>1
    <3>5. ASSUME NEW p \in net, p.seq # 0, q.rcvgen = p.sgen, q.rcvseq = p.seq,
                 conn' = [conn EXCEPT ![t] = Append(conn[t], p.data)],
                 sk[t].rcvgen = p.sgen, p.seq = sk[t].rcvseq + 1
          PROVE  Witnessed(conn'[t], sk'[t], net') /\ Consecutive(conn'[t])
      <4>1. conn'[t] = Append(conn[t], p.data)
        BY <2>0, <3>5
      <4> QED
        BY <2>5, <2>7, <3>5, <4>1
    <3> QED
      BY <3>1, <3>2, <3>3, <3>4, <3>5 DEF ConnOutcome
  <2> QED
    BY <2>6, <2>7
<1> QED
  BY <1>6, <1>7, <1>8 DEF NumberInv

\* rudp_recvfrom on one header keeps the numbers of both directions.
ProcessOutcome(s, r, v) ==
    \E q \in SockRecords : /\ sk' = [sk EXCEPT ![s] = q]
                           /\ SendsOn(r, q, v) /\ NetOutcome(q, v) /\ ConnOutcome(s, r, q)

LEMMA ProcessNumbers ==
    ASSUME NEW s \in Sock, NEW r, Good(s, r, got), got \subseteq Gens \X Nat, RestOK,
           NEW v, Numbered(r, v),
           NEW p \in AnyHdr, p \in Packets \/ (~NewRemote(r, p) /\ p.seq = 0),
           NEW received \in BOOLEAN, Process(s, r, p, received),
           received => p \in net, ~received => r.rcvgen = NoGen
    PROVE  ProcessOutcome(s, r, v)
<1> DEFINE r1 == Adopt(r, p)
           r2 == Acknowledge(r1, p)
           out == RexmitOut(r1, p)
           new == IF NewRemote(r, p) THEN <<>> ELSE conn[s]
<1>0. /\ r \in SockRecords /\ r.sndgen \in Gens /\ r.sndgen[2] \in Nat
      /\ r.rcvseq \in Nat /\ p.seq \in Nat /\ p.data \in Nat
      /\ conn \in [Sock -> Seq(Nat)]
  BY SMTT(60) DEF Good, SockRecords, Gens, RestOK, AnyHdr
<1>1. CASE Ignored(r, p) /\ Block(s, r, {}) /\ UNCHANGED <<conn, got, acked, result>>
  <2>1. PICK q \in SockRecords :
               /\ sk' = [sk EXCEPT ![s] = q] /\ NetOutcome(q, v) /\ Numbered(q, v)
               /\ q.sndgen = r.sndgen /\ q.sndseq = r.sndseq
               /\ q.rcvgen = r.rcvgen /\ q.rcvseq = r.rcvseq
    BY <1>1, BlockNumbers
  <2>2. SendsOn(r, q, v) /\ ConnOutcome(s, r, q)
    BY <1>0, <1>1, <2>1 DEF SendsOn, ConnOutcome
  <2> QED
    BY <2>1, <2>2 DEF ProcessOutcome
<1>2. ASSUME ~Ignored(r, p), HangsUp(r, p) => CanHangup(r)
      PROVE  /\ Good(s, r2, got) /\ SendsOn(r, r2, v) /\ r2.sndgen \in Gens
             /\ r2.rcvgen = p.sgen /\ r2.rcvseq \in Nat /\ r2 \in SockRecords
             /\ ~NewRemote(r, p) => r2.rcvseq = r.rcvseq /\ p.sgen = r.rcvgen
             /\ \A x \in out : Sendable(x, r2.sndgen, got) /\ NumbersOf(x, v, r2.sndseq)
             /\ p.seq # 0 => r2.addr # None
  <2>1. Good(s, r1, got) /\ r1.rcvgen = p.sgen
    BY <1>2, AdoptGood
  <2>2. SendsOn(r, r1, v) /\ Numbered(r1, v)
    BY AdoptNumbers DEF SendsOn
  <2>3. ~NewRemote(r, p) => r1.rcvseq = r.rcvseq /\ p.sgen = r.rcvgen
    BY DEF Adopt, NewRemote
  <2> HIDE DEF r1
  <2>4. /\ Good(s, r2, got) /\ r2.sndgen = r1.sndgen /\ r2.rcvgen = p.sgen
        /\ r2.rcvseq = r1.rcvseq /\ r2.sndseq = r1.sndseq
        /\ \A x \in out : Sendable(x, r1.sndgen, got)
    BY <2>1, AckGood DEF Sendable, PartOf
  <2>5. SendsOn(r1, r2, v) /\ \A x \in out : NumbersOf(x, v, r1.sndseq)
    BY <2>1, <2>2, AckNumbers
  <2> HIDE DEF r2, out
  <2>6. r1 \in SockRecords /\ r2 \in SockRecords /\ r1.sndgen[2] \in Nat /\ r2.sndgen[2] \in Nat
        /\ r2.sndgen \in Gens /\ r2.rcvseq \in Nat
    BY <2>1, <2>4, SMTT(60) DEF Good, SockRecords, Gens
  <2>7. SendsOn(r, r2, v)
    BY <1>0, <2>2, <2>4, <2>5, <2>6 DEF SendsOn
  <2>8. p.seq # 0 => r2.addr # None
    <3>1. p.seq # 0 => p.sgen \in Gens
      BY DEF Packets
    <3> QED
      BY <2>4, <3>1, NoGenFacts DEF Good
  <2> QED
    BY <2>3, <2>4, <2>5, <2>6, <2>7, <2>8
<1> HIDE DEF r1, r2, out
<1>3. ASSUME ~Ignored(r, p), HangsUp(r, p) => CanHangup(r),
             NEW u, NEW o, Good(s, u, got), Numbered(u, v), u.sndgen = r2.sndgen,
             u.sndseq = r2.sndseq, u.rcvgen = r2.rcvgen, u.rcvseq = r2.rcvseq,
             \A x \in o : Sendable(x, u.sndgen, got) /\ NumbersOf(x, v, u.sndseq),
             Block(s, u, o), conn' = [conn EXCEPT ![s] = new]
      PROVE  ProcessOutcome(s, r, v)
  <2>1. PICK q \in SockRecords :
               /\ sk' = [sk EXCEPT ![s] = q] /\ NetOutcome(q, v) /\ Numbered(q, v)
               /\ q.sndgen = u.sndgen /\ q.sndseq = u.sndseq
               /\ q.rcvgen = u.rcvgen /\ q.rcvseq = u.rcvseq
    BY <1>3, BlockNumbers
  <2>2. SendsOn(r, q, v)
    BY <1>2, <1>3, <2>1 DEF SendsOn
  <2>3. ConnOutcome(s, r, q)
    <3>1. CASE NewRemote(r, p)
      BY <1>3, <3>1 DEF ConnOutcome
    <3>2. CASE ~NewRemote(r, p)
      <4>1. conn' = conn
        BY <1>0, <1>3, <3>2
      <4> QED
        BY <1>2, <1>3, <2>1, <3>2, <4>1 DEF ConnOutcome
    <3> QED
      BY <3>1, <3>2
  <2> QED
    BY <2>1, <2>2, <2>3 DEF ProcessOutcome
<1>4. ASSUME ~Ignored(r, p), HangsUp(r, p) => CanHangup(r),
             p.seq # 0, p.seq = NextSeq(r2.rcvseq),
             Return(s, [r2 EXCEPT !.rcvseq = p.seq], out,
                    IF received THEN "data" ELSE "error"),
             conn' = [conn EXCEPT ![s] = IF received THEN Append(new, p.data) ELSE new]
      PROVE  ProcessOutcome(s, r, v)
  <2> DEFINE q == [r2 EXCEPT !.rcvseq = p.seq]
  <2>1. /\ q \in SockRecords /\ q.sndgen = r2.sndgen /\ q.sndseq = r2.sndseq
        /\ q.unacked = r2.unacked /\ q.rcvgen = p.sgen /\ q.rcvseq = p.seq
    BY <1>0, <1>2, <1>4 DEF SockRecords
  <2>2. sk' = [sk EXCEPT ![s] = q] /\ net' = net \cup out
    BY <1>4 DEF Return
  <2> HIDE DEF q
  <2>3. NetOutcome(q, v)
    BY <1>2, <1>4, <2>1, <2>2 DEF NetOutcome, Sendable
  <2>4. SendsOn(r, q, v)
    BY <1>2, <1>4, <2>1 DEF SendsOn, Numbered
  <2>5. ConnOutcome(s, r, q)
    <3>1. CASE received /\ NewRemote(r, p)
      <4>1. conn' = [conn EXCEPT ![s] = Append(<<>>, p.data)]
        BY <1>4, <3>1
      <4>2. Append(<<>>, p.data) = <<p.data>>
        OBVIOUS
      <4> QED
        BY <1>4, <2>1, <3>1, <4>1, <4>2, ZenonT(60) DEF ConnOutcome
    <3>2. CASE received /\ ~NewRemote(r, p)
      <4>1. conn' = [conn EXCEPT ![s] = Append(conn[s], p.data)]
        BY <1>4, <3>2
      <4>2. p.seq = r.rcvseq + 1 /\ r.rcvgen = p.sgen
        BY <1>2, <1>4, <3>2 DEF NextSeq
      <4> QED
        BY <1>4, <2>1, <3>2, <4>1, <4>2 DEF ConnOutcome
    <3>3. CASE ~received
      <4>1. NewRemote(r, p)
        BY <1>4, <3>3, NoGenFacts DEF NewRemote, Packets
      <4>2. conn' = [conn EXCEPT ![s] = <<>>]
        BY <1>4, <3>3, <4>1
      <4> QED
        BY <4>2 DEF ConnOutcome
    <3> QED
      BY <3>1, <3>2, <3>3
  <2> QED
    BY <2>1, <2>2, <2>3, <2>4, <2>5 DEF ProcessOutcome
<1> QED
  <2> DEFINE others == ~Ignored(r, p) /\ (HangsUp(r, p) => CanHangup(r))
             quiet  == conn' = [conn EXCEPT ![s] = new]
  <2>1. CASE Ignored(r, p) /\ Block(s, r, {}) /\ UNCHANGED <<conn, got, acked, result>>
    BY <1>1, <2>1
  <2>2. CASE others /\ p.seq = 0 /\ Block(s, r2, out) /\ quiet
    BY <1>2, <1>3, <2>2 DEF SendsOn
  <2>3. CASE /\ others /\ OutOfOrder(r2, p) /\ quiet
             /\ Block(s, AckNoted(r2), out \cup {AckPacket(s, r2)})
    <3> DEFINE u == AckNoted(r2)
    <3>1. /\ Good(s, u, got) /\ u.sndgen = r2.sndgen
          /\ Sendable(AckPacket(s, r2), r2.sndgen, got)
      BY <1>2, <2>3, AckPacketGood DEF OutOfOrder
    <3>2. /\ u.sndseq = r2.sndseq /\ u.unacked = r2.unacked
          /\ u.rcvgen = r2.rcvgen /\ u.rcvseq = r2.rcvseq
      BY <1>2, <2>3 DEF AckNoted, SockRecords
    <3> HIDE DEF u
    <3>3. Numbered(u, v)
      BY <1>2, <2>3, <3>2 DEF SendsOn, Numbered
    <3>4. NumbersOf(AckPacket(s, r2), v, u.sndseq)
      BY DEF AckPacket, NumbersOf
    <3>5. \A x \in out \cup {AckPacket(s, r2)} :
             Sendable(x, u.sndgen, got) /\ NumbersOf(x, v, u.sndseq)
      BY <1>2, <2>3, <3>1, <3>2, <3>4
    <3> QED
      BY <1>3, <2>3, <3>1, <3>2, <3>3, <3>5 DEF u
  <2>4. CASE /\ others /\ p.seq # 0 /\ ~OutOfOrder(r2, p)
             /\ Return(s, [r2 EXCEPT !.rcvseq = p.seq], out,
                       IF received THEN "data" ELSE "error")
             /\ conn' = [conn EXCEPT ![s] = IF received THEN Append(new, p.data) ELSE new]
    BY <1>4, <2>4 DEF OutOfOrder
  <2> QED
    BY <2>1, <2>2, <2>3, <2>4 DEF Process, r1, r2, out

\* What a call hands to the network or keeps leaves all the numbers as they are.
LEMMA NumberSame ==
    ASSUME IInv, IInv', NumberInv, NEW s \in Sock, NEW q \in SockRecords,
           sk' = [sk EXCEPT ![s] = q], SendsOn(sk[s], q, sent[s]),
           NetOutcome(q, sent[s]), ConnOutcome(s, sk[s], q), UNCHANGED sent
    PROVE  NumberInv'
<1>1. sent[s] \in Nat /\ q.sndseq \in Nat
  BY DEF IInv, SockRecords
<1>2. NumberStep(s, q)
  BY <1>1 DEF NumberStep, SendsOn, IInv
<1> QED
  BY <1>2, NumberLemma

LEMMA SockFacts ==
    ASSUME IInv, NumberInv, NEW s \in Sock
    PROVE  /\ sk[s] \in SockRecords /\ Good(s, sk[s], got) /\ Numbered(sk[s], sent[s])
           /\ SendsOn(sk[s], sk[s], sent[s])
           /\ sk = [sk EXCEPT ![s] = sk[s]]
<1>1. sk \in [Sock -> SockRecords] /\ Good(s, sk[s], got) /\ Numbered(sk[s], sent[s])
  BY DEF IInv, SockInv, NumberInv, SenderNumbers
<1>2. sk[s].sndgen[2] \in Nat
  BY <1>1 DEF SockRecords, Gens
<1> QED
  BY <1>1, <1>2 DEF SendsOn

LEMMA NumberNext == ASSUME IInv, IInv', NumberInv, [Next]_vars PROVE NumberInv'
<1>1. ASSUME NEW s \in Sock, Sendto(s) PROVE NumberInv'
  <2> DEFINE r == sk[s]
             p == [src |-> s, dst |-> r.addr, seq |-> NextSeq(r.sndseq),
                   sgen |-> r.sndgen, ack |-> r.rcvseq, agen |-> r.rcvgen,
                   data |-> sent[s] + 1]
             q == [Ackq(r, p) EXCEPT !.sndseq = NextSeq(@), !.acksent = r.rcvseq]
  <2>1. /\ r \in SockRecords /\ r.addr \in Sock /\ sent[s] \in Nat /\ r.sndseq \in Nat
        /\ r.unacked \in Seq(Packets) /\ Numbered(r, sent[s])
    BY <1>1, SockFacts DEF Sendto, IInv, SockRecords
  <2>2. p \in Packets /\ p.sgen = r.sndgen /\ p.seq = r.sndseq + 1 /\ p.data = sent[s] + 1
    BY <2>1, SMTT(60) DEF Packets, SockRecords, NextSeq
  <2>3. /\ sk' = [sk EXCEPT ![s] = q] /\ net' = net \cup {p} /\ UNCHANGED conn
        /\ sent' = [sent EXCEPT ![s] = @ + 1]
    BY <1>1 DEF Sendto
  <2>4. /\ sent' \in [Sock -> Nat] /\ sent'[s] = sent[s] + 1
        /\ \A t \in Sock \ {s} : sent'[t] = sent[t]
    BY <2>3 DEF IInv
  <2>5. sk'[s] = q /\ q \in SockRecords
    BY <2>3 DEF IInv, SockInv
  <2> HIDE DEF p
  <2>6. /\ q.unacked = Append(r.unacked, p) /\ q.sndseq = r.sndseq + 1
        /\ q.sndgen = r.sndgen /\ q.rcvgen = r.rcvgen /\ q.rcvseq = r.rcvseq
    BY <2>1 DEF Ackq, NextSeq, SockRecords
  <2> HIDE DEF q
  <2>7. NumbersOf(p, sent'[s], q.sndseq)
    BY <2>1, <2>2, <2>4, <2>6 DEF NumbersOf
  <2>8. NetOutcome(q, sent'[s])
    BY <2>2, <2>3, <2>6, <2>7 DEF NetOutcome
  <2>9. Numbered(q, sent'[s])
    <3> SUFFICES ASSUME NEW i \in 1 .. Len(q.unacked)
                 PROVE  NumbersOf(q.unacked[i], sent'[s], q.sndseq)
      BY DEF Numbered
    <3>1. /\ Len(r.unacked) \in Nat /\ Len(q.unacked) = Len(r.unacked) + 1
          /\ q.unacked[Len(r.unacked) + 1] = p
          /\ \A j \in 1 .. Len(r.unacked) : q.unacked[j] = r.unacked[j]
      BY <2>1, <2>2, <2>6, AppendProperties
    <3>2. CASE i \in 1 .. Len(r.unacked)
      <4>1. q.unacked[i] = r.unacked[i] /\ r.unacked[i] \in Packets
        BY <2>1, <3>1, <3>2, ElementOfSeq
      <4>2. NumbersOf(r.unacked[i], sent[s], r.sndseq)
        BY <2>1, <3>2 DEF Numbered
      <4>3. r.unacked[i].seq \in Nat /\ r.unacked[i].data \in Nat
        BY <4>1 DEF Packets
      <4> DEFINE x == r.unacked[i]
      <4>4. ASSUME x.seq # 0 PROVE x.data + q.sndseq = sent'[s] + x.seq
        <5>1. x.data + r.sndseq = sent[s] + x.seq
          BY <4>2, <4>4 DEF NumbersOf
        <5>2. x.seq \in Nat /\ x.data \in Nat
          BY <4>3
        <5>3. /\ q.sndseq = r.sndseq + 1 /\ sent'[s] = sent[s] + 1
              /\ r.sndseq \in Nat /\ sent[s] \in Nat
          BY <2>1, <2>4, <2>6
        <5> HIDE DEF x, r
        <5> QED
          BY <5>1, <5>2, <5>3, SMTT(60)
      <4> QED
        BY <4>1, <4>4 DEF NumbersOf
    <3>3. CASE i = Len(r.unacked) + 1
      BY <2>7, <3>1, <3>3
    <3> QED
      BY <3>1, <3>2, <3>3, SMTT(60)
  <2>10. ConnOutcome(s, sk[s], q)
    BY <2>3, <2>6 DEF ConnOutcome
  <2>11. sent'[s] + sk[s].sndseq = sent[s] + q.sndseq
    BY <2>1, <2>4, <2>6, SMTT(60)
  <2>12. NumberStep(s, q)
    BY <2>3, <2>4, <2>5, <2>6, <2>8, <2>9, <2>10, <2>11 DEF NumberStep
  <2> QED
    BY <2>12, NumberLemma
<1>2. ASSUME NEW s \in Sock, Recvfrom(s) PROVE NumberInv'
  <2>1. Block(s, sk[s], {}) /\ UNCHANGED <<conn, sent>>
    BY <1>2 DEF Recvfrom, hist
  <2>2. PICK q \in SockRecords :
               /\ sk' = [sk EXCEPT ![s] = q] /\ NetOutcome(q, sent[s]) /\ Numbered(q, sent[s])
               /\ q.sndgen = sk[s].sndgen /\ q.sndseq = sk[s].sndseq
               /\ q.rcvgen = sk[s].rcvgen /\ q.rcvseq = sk[s].rcvseq
    BY <2>1, SockFacts, BlockNumbers
  <2>3. sk[s].sndgen[2] \in Nat
    BY SockFacts, SMTT(60) DEF SockRecords, Gens
  <2>4. SendsOn(sk[s], q, sent[s]) /\ ConnOutcome(s, sk[s], q)
    BY <2>1, <2>2, <2>3 DEF SendsOn, ConnOutcome
  <2> QED
    BY <2>1, <2>2, <2>4, NumberSame
<1>3. ASSUME NEW s \in Sock, Receive(s) PROVE NumberInv'
  <2>1. PICK p \in net : Process(s, sk[s], p, TRUE)
    BY <1>3 DEF Receive
  <2>2. p \in Packets /\ p \in AnyHdr /\ RestOK /\ got \subseteq Gens \X Nat
    BY ZeroHdrType DEF IInv, NetInv, GotInv
  <2>3. ProcessOutcome(s, sk[s], sent[s])
    BY <2>1, <2>2, SockFacts, ProcessNumbers
  <2>4. UNCHANGED sent
    BY <1>3 DEF Receive
  <2> QED
    BY <2>3, <2>4, NumberSame DEF ProcessOutcome
<1>4. ASSUME NEW s \in Sock, Rexmit(s) PROVE NumberInv'
  <2> DEFINE r == sk[s]
             q == [r EXCEPT !.xmits = @ + 1]
  <2>1. /\ r \in SockRecords /\ Good(s, r, got) /\ r.unacked # <<>> /\ Numbered(r, sent[s])
        /\ sk' = [sk EXCEPT ![s] = q] /\ net' = net \cup {FirstBlock(r)}
        /\ UNCHANGED <<conn, sent>>
    BY <1>4, SockFacts DEF Rexmit, hist
  <2>2. q \in SockRecords
    <3>1. sk'[s] = q /\ sk'[s] \in SockRecords
      BY <2>1 DEF IInv, SockInv
    <3> QED
      BY <3>1
  <2>3. /\ q.unacked = r.unacked /\ q.sndseq = r.sndseq
        /\ q.sndgen = r.sndgen /\ q.rcvgen = r.rcvgen /\ q.rcvseq = r.rcvseq
    BY <2>1 DEF SockRecords
  <2> HIDE DEF q
  <2>4. FirstBlockGood(s, r, got)
    BY <2>1, FirstBlockLemma
  <2>5. NumbersOf(FirstBlock(r), sent[s], r.sndseq)
    BY <2>1, <2>4 DEF FirstBlockGood, FromUnacked, Numbered, NumbersOf
  <2>6. NetOutcome(q, sent[s]) /\ ConnOutcome(s, sk[s], q)
    BY <2>1, <2>3, <2>4, <2>5 DEF NetOutcome, ConnOutcome, FirstBlockGood
  <2>7. SendsOn(sk[s], q, sent[s])
    <3>1. sk[s].sndgen[2] \in Nat
      BY <2>1 DEF SockRecords, Gens
    <3> QED
      BY <2>1, <2>3, <3>1 DEF SendsOn, Numbered
  <2> QED
    BY <2>1, <2>2, <2>6, <2>7, NumberSame
<1>5. ASSUME NEW s \in Sock, GiveUp(s) PROVE NumberInv'
  <2> DEFINE r == Hangup(sk[s])
             p == hdr[s]
  <2>1. Process(s, r, p, FALSE) /\ UNCHANGED sent /\ CanHangup(sk[s])
    BY <1>5 DEF GiveUp
  <2>2. /\ Good(s, r, got) /\ r.sndgen = <<s, sk[s].sndgen[2] + 1>>
        /\ r.rcvgen = NoGen /\ r.unacked = <<>>
    BY <2>1, SockFacts, HangupGood DEF Hangup
  <2> HIDE DEF r
  <2>3. p \in Packets \cup {ZeroHdr} /\ RestOK /\ got \subseteq Gens \X Nat
    BY DEF IInv, GotInv
  <2>4. p \in AnyHdr /\ (p \in Packets \/ (~NewRemote(r, p) /\ p.seq = 0))
    BY <2>2, <2>3, ZeroHdrType DEF NewRemote, ZeroHdr
  <2>5. Numbered(r, sent[s])
    BY <2>2 DEF Numbered
  <2> HIDE DEF p
  <2>6. PICK q \in SockRecords :
             /\ sk' = [sk EXCEPT ![s] = q]
             /\ SendsOn(r, q, sent[s]) /\ NetOutcome(q, sent[s]) /\ ConnOutcome(s, r, q)
    BY <2>1, <2>2, <2>3, <2>4, <2>5, ProcessNumbers DEF ProcessOutcome
  <2>7. ConnOutcome(s, sk[s], q)
    <3>1. \A x \in net : x.sgen # NoGen
      BY NoGenFacts DEF IInv, NetInv, Packets
    <3> QED
      BY <2>2, <2>6, <3>1 DEF ConnOutcome
  <2>8. SendsOn(sk[s], q, sent[s])
    <3>1. r.sndgen[2] = sk[s].sndgen[2] + 1
      BY <2>2
    <3>2. sk[s].sndgen[2] \in Nat /\ q.sndgen[2] \in Nat
      BY SockFacts, SMTT(60) DEF SockRecords, Gens
    <3> QED
      BY <2>6, <3>1, <3>2 DEF SendsOn
  <2> QED
    BY <2>1, <2>6, <2>7, <2>8, NumberSame
<1>6. ASSUME NEW s \in Sock, Close(s) PROVE NumberInv'
  <2>1. UNCHANGED <<sk, conn, sent>>
    BY <1>6 DEF Close, hist
  <2>4. /\ sk[s] \in SockRecords /\ SendsOn(sk[s], sk[s], sent[s])
        /\ sk' = [sk EXCEPT ![s] = sk[s]]
    BY <2>1, SockFacts
  <2>2. NetOutcome(sk[s], sent[s])
    <3>1. CASE sk[s].acksent # sk[s].rcvseq
      <4>1. sk[s].addr # None
        BY <3>1, SockFacts DEF Good
      <4>2. Sendable(AckPacket(s, sk[s]), sk[s].sndgen, got)
        BY <4>1, SockFacts, AckPacketGood
      <4>3. NumbersOf(AckPacket(s, sk[s]), sent[s], sk[s].sndseq)
        BY DEF AckPacket, NumbersOf
      <4>4. net' = net \cup {AckPacket(s, sk[s])}
        BY <1>6, <3>1 DEF Close
      <4> QED
        BY <4>2, <4>3, <4>4 DEF NetOutcome, Sendable
    <3>2. CASE sk[s].acksent = sk[s].rcvseq
      BY <1>6, <3>2 DEF Close, NetOutcome
    <3> QED
      BY <3>1, <3>2
  <2>3. ConnOutcome(s, sk[s], sk[s])
    BY <2>1 DEF ConnOutcome
  <2> QED
    BY <2>1, <2>2, <2>3, <2>4, NumberSame
<1>7. ASSUME NEW s \in Sock, Reopen(s) PROVE NumberInv'
  <2> DEFINE q == Fresh(s, sk[s].sndgen[2] + 1)
  <2>1. /\ sk' = [sk EXCEPT ![s] = q] /\ UNCHANGED <<net, sent>>
        /\ conn' = [conn EXCEPT ![s] = <<>>]
    BY <1>7 DEF Reopen, IInv, SockInv
  <2>2. q \in SockRecords
    <3>1. sk'[s] = q /\ sk'[s] \in SockRecords
      BY <2>1 DEF IInv, SockInv
    <3> QED
      BY <3>1
  <2>3. q.sndgen[2] = sk[s].sndgen[2] + 1 /\ q.unacked = <<>>
    BY DEF Fresh
  <2> HIDE DEF q
  <2>4. NetOutcome(q, sent[s]) /\ ConnOutcome(s, sk[s], q)
    BY <2>1 DEF NetOutcome, ConnOutcome
  <2>5. SendsOn(sk[s], q, sent[s])
    <3>1. sk[s].sndgen[2] \in Nat
      BY SockFacts DEF SockRecords, Gens
    <3> QED
      BY <2>3, <3>1 DEF SendsOn, Numbered
  <2> QED
    BY <2>1, <2>2, <2>4, <2>5, NumberSame
<1>8. CASE UNCHANGED vars
  BY <1>8 DEF vars, NumberInv, SameNumbers, SenderNumbers, ReceiverNumbers, Numbered,
              NumbersOf, Witnessed, Consecutive
<1> QED
  BY <1>1, <1>2, <1>3, <1>4, <1>5, <1>6, <1>7, <1>8 DEF Next

LEMMA NumberInit == Init => NumberInv
<1> SUFFICES ASSUME Init PROVE NumberInv
  OBVIOUS
<1>1. SameNumbers /\ ReceiverNumbers
  BY DEF Init, SameNumbers, ReceiverNumbers, Witnessed, Consecutive
<1>2. \A s \in Sock : sk[s].unacked = <<>>
  BY DEF Init, Fresh
<1>3. \A s \in Sock : Numbered(sk[s], sent[s])
  BY <1>2 DEF Numbered
<1>4. SenderNumbers
  BY <1>3 DEF Init, SenderNumbers
<1> QED
  BY <1>1, <1>4 DEF NumberInv

\* What a program receives from one peer generation comes without a gap, a
\* repeat or an inversion, whatever the network does.
THEOREM InOrder == Spec => []DeliveredInOrder
<1>1. NumberInv => DeliveredInOrder
  BY DEF NumberInv, ReceiverNumbers, Consecutive, DeliveredInOrder
<1>2. IInv /\ IInv' /\ NumberInv /\ [Next]_vars => NumberInv'
  BY NumberNext
<1> QED
  BY <1>1, <1>2, NumberInit, Invariance, PTL DEF Spec
=============================================================================
