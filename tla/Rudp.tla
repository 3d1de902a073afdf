-------------------------------- MODULE Rudp --------------------------------
(***************************************************************************)
(* Lab 106: rudp.c, reliable messages over UDP.  Every socket belongs to   *)
(* its own single-threaded process; the sockets share only the network,    *)
(* which may lose, duplicate, delay and reorder packets.                   *)
(*                                                                         *)
(* sk[s] is the Rudp_sock of s.  A program calls rudp_sendto when it       *)
(* likes; rudp_recvfrom blocks, and it is only inside it that packets are  *)
(* read and that the one second timer of select() retransmits.  What one   *)
(* wakeup does, up to the next select() or the return, is local to the     *)
(* process and is one step here.                                           *)
(***************************************************************************)
EXTENDS Integers, Sequences

CONSTANTS Sock,           \* the sockets
          Listener,       \* the one made by rudp_announce; the others connect to it
          None,           \* the null address, the zero generation
          Rudpmaxxmit,    \* transmissions of a block before giving up (10 in the code)
          MaxSend,        \* bound: how many messages each socket sends in all
          MaxGen          \* bound: generations a process uses

ASSUME RudpAssumption ==
    /\ Listener \in Sock /\ None \notin Sock
    /\ Rudpmaxxmit \in Nat \ {0}
    /\ MaxSend \in [Sock -> Nat] /\ MaxGen \in Nat \ {0}

(***************************************************************************)
(* A generation is the process's random start value plus a count: <<s, k>> *)
(* takes the start values of different processes to be far apart.          *)
(***************************************************************************)
Gens == (Sock \X (1 .. MaxGen))
NoGen == <<None, 0>>

\* struct Rudphdr with the addresses; a data packet carries message number data.
Packets == [src : Sock, dst : Sock, seq : Nat, sgen : Gens,
            ack : Nat, agen : Gens \cup {NoGen}, data : Nat]

\* The zeroed header buffer of a fresh call of rudp_recvfrom.
ZeroHdr == [src |-> None, dst |-> None, seq |-> 0, sgen |-> NoGen,
            ack |-> 0, agen |-> NoGen, data |-> 0]

VARIABLES
    sk,          \* the Rudp_sock records
    pc,          \* "app", "recv" (blocked in rudp_recv) or "closed"
    hdr,         \* the header buffer of the rudp_recvfrom call in progress,
                 \* zeroed when the call starts
    net,         \* every packet ever sent: any of them may arrive, any number
                 \* of times, or never
    \* history
    sent,        \* messages passed to rudp_sendto, per socket
    conn,        \* the messages delivered since the peer generation was adopted
    got,         \* <<generation, seq>> of the messages delivered to a program
    acked,       \* <<generation, seq>> of the blocks released by an ack
    result       \* what the last rudp_recvfrom returned: "none", "data", "error"

hist == <<sent, conn, got, acked, result>>
vars == <<sk, pc, hdr, net, sent, conn, got, acked, result>>

NextSeq(a) == a + 1
InSeq(a, start, end) == IF start <= end THEN a > start /\ a <= end
                                        ELSE a > start \/ a <= end

\* rudp_announce or rudp_connect: only the connecting side knows an address.
Fresh(s, k) ==
    [addr |-> IF s = Listener THEN None ELSE Listener,
     unacked |-> <<>>, xmits |-> 0, sndseq |-> 0, sndgen |-> <<s, k>>,
     rcvseq |-> 0, rcvgen |-> NoGen, acksent |-> 0, ackrcvd |-> 0]

Init ==
    /\ sk = [s \in Sock |-> Fresh(s, 1)]
    /\ pc = [s \in Sock |-> "app"]
    /\ hdr = [s \in Sock |-> ZeroHdr]
    /\ net = {}
    /\ sent = [s \in Sock |-> 0]
    /\ conn = [s \in Sock |-> <<>>]
    /\ got = {}
    /\ acked = {}
    /\ result = [s \in Sock |-> "none"]

-----------------------------------------------------------------------------
(* The functions on one Rudp_sock r of socket s. *)

\* mutant: the acks of the old generation still count
Hangup_KeepsAckrcvd(r) ==
    [addr |-> r.addr, unacked |-> <<>>, xmits |-> 0,
     sndseq |-> 0, sndgen |-> <<r.sndgen[1], r.sndgen[2] + 1>>,
     rcvseq |-> 0, rcvgen |-> NoGen, acksent |-> 0, ackrcvd |-> r.ackrcvd]

\* mutant: the next peer finds the sequence number of the last one
Hangup_KeepsRcvseq(r) ==
    [addr |-> r.addr, unacked |-> <<>>, xmits |-> 0,
     sndseq |-> 0, sndgen |-> <<r.sndgen[1], r.sndgen[2] + 1>>,
     rcvseq |-> r.rcvseq, rcvgen |-> NoGen, acksent |-> 0, ackrcvd |-> 0]

\* rudp_hangup: forget both directions and start a new generation.
Hangup(r) ==
    [addr |-> r.addr, unacked |-> <<>>, xmits |-> 0,
     sndseq |-> 0, sndgen |-> <<r.sndgen[1], r.sndgen[2] + 1>>,
     rcvseq |-> 0, rcvgen |-> NoGen, acksent |-> 0, ackrcvd |-> 0]
CanHangup(r) == r.sndgen[2] < MaxGen

\* rudp_ackq: the first block on the list has been transmitted once.
Ackq(r, p) == [r EXCEPT !.unacked = Append(@, p),
                        !.xmits = IF r.unacked = <<>> THEN 1 ELSE @]

\* The packet rudp_sendack builds; it also notes in acksent what it told.
AckPacket(s, r) == [src |-> s, dst |-> r.addr, seq |-> 0, sgen |-> r.sndgen,
                    ack |-> r.rcvseq, agen |-> r.rcvgen, data |-> 0]
AckNoted(r) == [r EXCEPT !.acksent = IF @ < r.rcvseq THEN r.rcvseq ELSE @]

\* Blocked again in select(): rudp_recv first acks what it has not acked yet.
Block(s, r, out) ==
    LET mustAck == r.acksent # r.rcvseq
    IN  /\ sk' = [sk EXCEPT ![s] = IF mustAck THEN AckNoted(r) ELSE r]
        /\ net' = net \cup out \cup (IF mustAck THEN {AckPacket(s, r)} ELSE {})
        /\ pc' = [pc EXCEPT ![s] = "recv"]

Return(s, r, out, value) ==
    /\ sk' = [sk EXCEPT ![s] = r]
    /\ net' = net \cup out
    /\ pc' = [pc EXCEPT ![s] = "app"]
    /\ result' = [result EXCEPT ![s] = value]

\* The blocks an ack releases: the loop over the unacked list stops at p.ack.
Released(r, p) ==
    IF p.ack # 0 /\ p.agen = r.sndgen /\ InSeq(p.ack, r.ackrcvd, r.sndseq)
    THEN p.ack - r.ackrcvd ELSE 0

Dequeue(r, p) ==
    [r EXCEPT !.unacked = SubSeq(@, Released(r, p) + 1, Len(@)),
              !.ackrcvd = @ + Released(r, p)]

\* A block is kept as it was built; it goes to wherever addr points by now.
FirstBlock(r) == [Head(r.unacked) EXCEPT !.dst = r.addr]

\* After an ack that released something, a block that had to be retransmitted
\* is followed at once by the next one (rudp_rexmit with xmits just reset).
NeedsRexmit(r, p) ==
    Released(r, p) > 0 /\ Dequeue(r, p).unacked # <<>> /\ r.xmits > 1
Acknowledge(r, p) ==
    IF NeedsRexmit(r, p) THEN [Dequeue(r, p) EXCEPT !.xmits = 2] ELSE Dequeue(r, p)
RexmitOut(r, p) ==
    IF NeedsRexmit(r, p) THEN {FirstBlock(Dequeue(r, p))} ELSE {}

\* The packet is not for this incarnation: a wrong generation is acked, or an
\* unknown peer generation starts in its middle.
Ignored(r, p) ==
    \/ p.ack # 0 /\ p.agen # r.sndgen
    \/ p.sgen # r.rcvgen /\ p.seq \notin {0, 1}

\* "make sure we are not talking to a new remote side"
NewRemote(r, p) == p.sgen # r.rcvgen
HangsUp(r, p) == NewRemote(r, p) /\ r.rcvgen # NoGen

Adopt(r, p) ==
    IF ~NewRemote(r, p) THEN r
    ELSE [(IF HangsUp(r, p) THEN Hangup(r) ELSE r)
             EXCEPT !.addr = p.src, !.rcvgen = p.sgen]

\* mutants: only what is old is refused; only what is early is
OutOfOrder_OldOnly(r, p) == p.seq # 0 /\ p.seq <= r.rcvseq
OutOfOrder_EarlyOnly(r, p) == p.seq # 0 /\ p.seq > NextSeq(r.rcvseq)

\* "refuse out of order delivery"
OutOfOrder(r, p) == p.seq # 0 /\ p.seq # NextSeq(r.rcvseq)

(***************************************************************************)
(* rudp_recvfrom on the header p now in the buffer.  received is FALSE     *)
(* when rudp_recv returned an error: the code examines the buffer all the  *)
(* same, and the caller gets the error only if the header passes.          *)
(***************************************************************************)
Process(s, r, p, received) ==
    LET r1  == Adopt(r, p)
        r2  == Acknowledge(r1, p)
        out == RexmitOut(r1, p)
        new == IF NewRemote(r, p) THEN <<>> ELSE conn[s]
    IN  \/ /\ Ignored(r, p)
           /\ Block(s, r, {})
           /\ UNCHANGED <<conn, got, acked, result>>
        \/ /\ ~Ignored(r, p)
           /\ HangsUp(r, p) => CanHangup(r)
           /\ acked' = acked \cup
                 {<<r1.sndgen, i>> : i \in r1.ackrcvd + 1 .. r2.ackrcvd}
           /\ \/ /\ p.seq = 0
                 /\ Block(s, r2, out)
                 /\ conn' = [conn EXCEPT ![s] = new]
                 /\ UNCHANGED <<got, result>>
              \/ /\ OutOfOrder(r2, p)
                 /\ Block(s, AckNoted(r2), out \cup {AckPacket(s, r2)})
                 /\ conn' = [conn EXCEPT ![s] = new]
                 /\ UNCHANGED <<got, result>>
              \/ /\ p.seq # 0 /\ ~OutOfOrder(r2, p)
                 /\ Return(s, [r2 EXCEPT !.rcvseq = p.seq], out,
                           IF received THEN "data" ELSE "error")
                 /\ conn' = [conn EXCEPT ![s] =
                               IF received THEN Append(new, p.data) ELSE new]
                 /\ got' = IF received THEN got \cup {<<p.sgen, p.seq>>} ELSE got

-----------------------------------------------------------------------------
(* The calls of a program and the events it waits for. *)

\* rudp_sendto: number the message, queue it on unacked, send it once.
Sendto(s) ==
    LET r == sk[s]
        p == [src |-> s, dst |-> r.addr, seq |-> NextSeq(r.sndseq),
              sgen |-> r.sndgen, ack |-> r.rcvseq, agen |-> r.rcvgen,
              data |-> sent[s] + 1]
    IN  /\ pc[s] = "app" /\ r.addr # None
        /\ sent[s] < MaxSend[s]
        /\ sk' = [sk EXCEPT ![s] =
                    [Ackq(r, p) EXCEPT !.sndseq = NextSeq(@), !.acksent = r.rcvseq]]
        /\ net' = net \cup {p}
        /\ sent' = [sent EXCEPT ![s] = @ + 1]
        /\ UNCHANGED <<pc, hdr, conn, got, acked, result>>

Recvfrom(s) ==
    /\ pc[s] = "app"
    /\ Block(s, sk[s], {})
    /\ UNCHANGED <<hdr, hist>>

Receive(s) ==
    \E p \in net :
        /\ pc[s] = "recv" /\ p.dst = s
        /\ Process(s, sk[s], p, TRUE)
        /\ hdr' = [hdr EXCEPT ![s] = IF pc'[s] = "recv" THEN p ELSE ZeroHdr]
        /\ UNCHANGED sent

\* mutants: one transmission too many; the transmissions are not counted
Rexmit_OneTooMany(s) ==
    /\ pc[s] = "recv" /\ sk[s].unacked # <<>>
    /\ sk[s].xmits <= Rudpmaxxmit + 1
    /\ sk' = [sk EXCEPT ![s].xmits = @ + 1]
    /\ net' = net \cup {FirstBlock(sk[s])}
    /\ UNCHANGED <<pc, hdr, hist>>
Rexmit_NotCounted(s) ==
    /\ pc[s] = "recv" /\ sk[s].unacked # <<>>
    /\ sk[s].xmits <= Rudpmaxxmit
    /\ net' = net \cup {FirstBlock(sk[s])}
    /\ UNCHANGED <<sk, pc, hdr, hist>>

\* select() timed out with blocks unacked: send the first one again.
Rexmit(s) ==
    /\ pc[s] = "recv" /\ sk[s].unacked # <<>>
    /\ sk[s].xmits <= Rudpmaxxmit
    /\ sk' = [sk EXCEPT ![s].xmits = @ + 1]
    /\ net' = net \cup {FirstBlock(sk[s])}
    /\ UNCHANGED <<pc, hdr, hist>>

\* It was sent too often: rudp_rexmit hangs up and rudp_recv returns -1, which
\* rudp_recvfrom does not look at.
GiveUp(s) ==
    /\ pc[s] = "recv" /\ sk[s].unacked # <<>>
    /\ sk[s].xmits > Rudpmaxxmit
    /\ CanHangup(sk[s])
    /\ Process(s, Hangup(sk[s]), hdr[s], FALSE)
    /\ hdr' = [hdr EXCEPT ![s] = IF pc'[s] = "recv" THEN @ ELSE ZeroHdr]
    /\ UNCHANGED sent

\* rudp_close: one last ack, and the socket is gone.
Close(s) ==
    LET r == sk[s]
    IN  /\ pc[s] = "app"
        /\ pc' = [pc EXCEPT ![s] = "closed"]
        /\ net' = IF r.acksent # r.rcvseq THEN net \cup {AckPacket(s, r)} ELSE net
        /\ UNCHANGED <<sk, hdr, hist>>

\* The program is run again: a new socket on the same port, a new generation.
Reopen(s) ==
    /\ pc[s] = "closed" /\ CanHangup(sk[s])
    /\ sk' = [sk EXCEPT ![s] = Fresh(s, @.sndgen[2] + 1)]
    /\ pc' = [pc EXCEPT ![s] = "app"]
    /\ conn' = [conn EXCEPT ![s] = <<>>]
    /\ UNCHANGED <<hdr, net, sent, got, acked, result>>

Next == \E s \in Sock :
    \/ Sendto(s) \/ Recvfrom(s) \/ Receive(s) \/ Rexmit(s) \/ GiveUp(s)
    \/ Close(s) \/ Reopen(s)

Spec == Init /\ [][Next]_vars

(***************************************************************************)
(* select() returns within a second when no packet comes, so a blocked     *)
(* process with unacked blocks retransmits and in the end gives up.  This  *)
(* assumes gaps of a second between arriving packets: every packet read    *)
(* starts a new timeout.  Nothing is assumed of the network.               *)
(***************************************************************************)
TimerSpec == Spec /\ \A s \in Sock : WF_vars(Rexmit(s)) /\ WF_vars(GiveUp(s))

-----------------------------------------------------------------------------
(* What the code promises. *)

SockRecords ==
    [addr : Sock \cup {None}, unacked : Seq(Packets), xmits : 0 .. Rudpmaxxmit + 1,
     sndseq : Nat, sndgen : Gens, rcvseq : Nat, rcvgen : Gens \cup {NoGen},
     acksent : Nat, ackrcvd : Nat]

\* Types of the variables; the retransmission count never passes its limit.
TypeOK ==
    /\ sk \in [Sock -> SockRecords]
    /\ pc \in [Sock -> {"app", "recv", "closed"}]
    /\ hdr \in [Sock -> Packets \cup {ZeroHdr}]
    /\ net \subseteq Packets
    /\ sent \in [Sock -> Nat]
    /\ conn \in [Sock -> Seq(Nat)]
    /\ got \subseteq Gens \X Nat
    /\ acked \subseteq Gens \X Nat
    /\ result \in [Sock -> {"none", "data", "error"}]

\* The unacked list is exactly the tail of the current generation that starts
\* after ackrcvd.  rudp_recvfrom relies on it when it frees one block per
\* sequence number up to the ack, whatever acks were lost, repeated or old.
UnackedIsTail ==
    \A s \in Sock :
        /\ sk[s].ackrcvd + Len(sk[s].unacked) = sk[s].sndseq
        /\ \A i \in 1 .. Len(sk[s].unacked) :
              /\ sk[s].unacked[i].seq = sk[s].ackrcvd + i
              /\ sk[s].unacked[i].sgen = sk[s].sndgen

\* A block is forgotten because of an ack only if its message was handed to a
\* program at the other end: no stale ack, hangup or change of peer frees a
\* message that was never received.
AckedWasDelivered == acked \subseteq got

\* What a program receives from one peer generation has no gap, no repeat and
\* no inversion, though packets are lost, duplicated and reordered.
DeliveredInOrder ==
    \A s \in Sock : \A i \in 1 .. Len(conn[s]) - 1 : conn[s][i + 1] = conn[s][i] + 1

\* No message of a generation is delivered before all the earlier ones were,
\* if not to this incarnation of the receiver then to one before it: a packet
\* of the middle of an unknown generation never opens a conversation.
DeliveredPrefix ==
    \A m \in got : \A i \in 1 .. m[2] : <<m[1], i>> \in got

\* A process blocked with unacked blocks does not wait forever: they are acked,
\* or the generation is given up (the bound on generations apart).
UnackedEnds ==
    \A s \in Sock :
        (pc[s] = "recv" /\ sk[s].unacked # <<>>)
            ~> (sk[s].unacked = <<>> \/ pc[s] # "recv" \/ ~CanHangup(sk[s]))

\* The caller learns that messages were given up: client.c:50 leaves when
\* rudp_recvfrom returns -1.
GiveUpReported ==
    [][\A s \in Sock : GiveUp(s) => pc'[s] = "app" /\ result'[s] = "error"]_vars
=============================================================================
