----------------------------- MODULE ChunkQueue -----------------------------
(***************************************************************************)
(* Lab 40: chunkqueue.b serves one file through file2chan.  Writing        *)
(* "chunk host" queues a chunk for a host; reading takes one queued chunk  *)
(* of a randomly chosen host.  One server process answers every request,   *)
(* so a write is one step; a read runs nextdisk(), whose rounds are steps  *)
(* of their own because each round draws a new random number.              *)
(***************************************************************************)
EXTENDS Integers, Sequences, FiniteSets, SequencesExt

CONSTANTS Hosts, Chunks,
          MaxWrites          \* bound: accepted writes of one (chunk, host) pair

ASSUME ChunkQueueAssumption ==
    /\ Hosts # {} /\ Chunks # {}
    /\ MaxWrites \in Nat \ {0}

Pairs == Chunks \X Hosts

VARIABLES hostl,      \* the list of HostQ records, each a host and its clist
          pc,         \* "alt": waiting for a request; "nextdisk": in its loop;
                      \* "dead": the server process raised
          answer,     \* what the last completed read returned
          accepted,   \* history: writes that added pair p to a clist
          delivered   \* history: reads that returned pair p

vars == <<hostl, pc, answer, accepted, delivered>>

NoChunk == <<>>       \* the nil string, an end of file for the reader

QueuedFor(p) == {i \in DOMAIN hostl :
                    hostl[i].host = p[2] /\ Contains(hostl[i].clist, p[1])}

Init ==
    /\ hostl = <<>>
    /\ pc = "alt"
    /\ answer = NoChunk
    /\ accepted = [p \in Pairs |-> 0]
    /\ delivered = [p \in Pairs |-> 0]

(***************************************************************************)
(* fio.write: the host's record is looked up, a chunk that is already in   *)
(* its clist is ignored, and an unknown host gets a record in front.       *)
(***************************************************************************)
Write(chunk, host) ==
    LET known == {i \in DOMAIN hostl : hostl[i].host = host}
        isNew == \A i \in known : ~Contains(hostl[i].clist, chunk)
    IN  /\ pc = "alt"
        /\ accepted[<<chunk, host>>] < MaxWrites
        /\ \/ /\ known = {}
              /\ hostl' = <<[host |-> host, clist |-> <<chunk>>]>> \o hostl
           \/ \E i \in known :
                /\ \A j \in known : i <= j
                /\ hostl' = IF isNew
                            THEN [hostl EXCEPT ![i].clist = <<chunk>> \o @]
                            ELSE hostl
        /\ accepted' = IF isNew THEN [accepted EXCEPT ![<<chunk, host>>] = @ + 1]
                                ELSE accepted
        /\ UNCHANGED <<pc, answer, delivered>>

\* A write with no blank in it: host[1:] of the empty string raises and the
\* server process is gone.
WriteNoBlank ==
    /\ pc = "alt"
    /\ pc' = "dead"
    /\ UNCHANGED <<hostl, answer, accepted, delivered>>

\* fio.read with no host at all is answered at once, otherwise nextdisk runs.
Read ==
    /\ pc = "alt"
    /\ IF hostl = <<>>
       THEN answer' = NoChunk /\ UNCHANGED pc
       ELSE pc' = "nextdisk" /\ UNCHANGED answer
    /\ UNCHANGED <<hostl, accepted, delivered>>

(***************************************************************************)
(* One round of nextdisk.  The n records before the random position are    *)
(* pushed on save, which reverses them; then the list is scanned for a     *)
(* record with a chunk.  Empty records met on the way are forgotten.       *)
(***************************************************************************)
Serving(n) == {k \in n + 1 .. Len(hostl) : hostl[k].clist # <<>>}

\* mutant: the chunk is handed out and stays queued
Found_KeepsChunk(n, k) ==
    LET h == hostl[k]
        p == <<Head(h.clist), h.host>>
    IN  /\ hostl' = Reverse(SubSeq(hostl, 1, n) \o SubSeq(hostl, k, Len(hostl)))
        /\ answer' = p
        /\ delivered' = [delivered EXCEPT ![p] = @ + 1]
        /\ pc' = "alt"

Found(n, k) ==
    LET h    == hostl[k]
        rest == [hostl EXCEPT ![k].clist = Tail(h.clist)]
        p    == <<Head(h.clist), h.host>>
    IN  /\ hostl' = Reverse(SubSeq(rest, 1, n) \o SubSeq(rest, k, Len(rest)))
        /\ answer' = p
        /\ delivered' = [delivered EXCEPT ![p] = @ + 1]
        /\ pc' = "alt"

\* mutant: a fruitless round leaves the list as it was
NotFound_KeepsList(n) ==
    /\ hostl' = Reverse(hostl)
    /\ UNCHANGED <<answer, delivered, pc>>

\* mutant: forgets the saved records of a fruitless round
NotFound_LosesSaved(n) ==
    /\ hostl' = <<>>
    /\ UNCHANGED <<answer, delivered, pc>>

NotFound(n) ==
    /\ hostl' = Reverse(SubSeq(hostl, 1, n))
    /\ UNCHANGED <<answer, delivered, pc>>

NextdiskRound ==
    /\ pc = "nextdisk"
    /\ \E n \in 0 .. Len(hostl) - 1 :
          \/ \E k \in Serving(n) :
                (\A j \in Serving(n) : k <= j) /\ Found(n, k)
          \/ Serving(n) = {} /\ NotFound(n)
    /\ UNCHANGED accepted

NextdiskEmpty ==
    /\ pc = "nextdisk"
    /\ hostl = <<>>
    /\ answer' = NoChunk
    /\ pc' = "alt"
    /\ UNCHANGED <<hostl, accepted, delivered>>

Next ==
    \/ \E c \in Chunks, h \in Hosts : Write(c, h)
    \/ WriteNoBlank
    \/ Read
    \/ NextdiskRound
    \/ NextdiskEmpty

\* The server process is scheduled: a started nextdisk keeps running.  Nothing
\* is assumed of the clients.
Spec == Init /\ [][Next]_vars /\ WF_vars(NextdiskRound) /\ WF_vars(NextdiskEmpty)

-----------------------------------------------------------------------------
TypeOK ==
    /\ hostl \in Seq([host : Hosts, clist : Seq(Chunks)])
    /\ pc \in {"alt", "nextdisk", "dead"}
    /\ answer \in Pairs \cup {NoChunk}
    /\ accepted \in [Pairs -> 0 .. MaxWrites]
    /\ delivered \in [Pairs -> 0 .. MaxWrites]

\* Conservation: whatever nextdisk reverses, skips or forgets, a chunk that
\* was accepted is either still queued exactly once or was returned, never
\* both, never neither, and a host never has two records.
Conservation ==
    /\ TypeOK
    /\ \A p \in Pairs :
          accepted[p] - delivered[p] = Cardinality(QueuedFor(p))

\* A read reports end of file only when nothing at all is queued: the readers
\* of the file stop at the first end of file (nextdisk's random starting point
\* must not hide the hosts before it).
EmptyAnswerMeansDrained ==
    [][(pc' = "alt" /\ answer' = NoChunk /\ (pc = "nextdisk" \/ answer # NoChunk))
         => \A p \in Pairs : accepted[p] = delivered[p]]_vars

\* nextdisk() always returns: a round that finds nothing shortens the list.
ReadAnswered == (pc = "nextdisk") ~> (pc = "alt")
=============================================================================
