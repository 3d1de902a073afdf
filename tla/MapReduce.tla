----------------------------- MODULE MapReduce ------------------------------
(***************************************************************************)
(* Lab 84, the gridfs master: mapreduce.b serves a file system whose       *)
(* clients are the workers of worker.b.  A worker opens "clone", which     *)
(* makes a connection: the first M connections are map workers, the next R *)
(* reduce workers.  The first read of the open file returns the worker's   *)
(* arguments; each later read waits for one more file name, and an empty   *)
(* read ends the worker, which closes the file.                            *)
(*                                                                         *)
(* Processes: serve() takes one event at a time in its alt; requestproc()s *)
(* wait for it (makeconn, delconn) or for a file name; one du() per path   *)
(* offers the files of its tree and then end-of-file markers for ever;     *)
(* the workers; and observers, programs that look into the served tree.    *)
(***************************************************************************)
EXTENDS Integers, Sequences, FiniteSets

CONSTANTS Worker,
          Mortal,       \* the workers that may be killed
          Hasty,        \* the workers whose first Tread may overtake fid.open
          Writer,       \* the workers that write to their ctl file
          Observer,     \* other programs; each looks once (bound)
          Root,         \* the path arguments of mapreduce
          Tree,         \* Tree[d]: the files du(d) finds, in its order
          M, R,         \* the options -M and -R
          BufSize       \* capacity of each rchan (10 in the code)

Files == UNION {{Tree[d][i] : i \in DOMAIN Tree[d]} : d \in Root}

ASSUME MapReduceAssumption ==
    /\ IsFiniteSet(Worker) /\ Mortal \cup Hasty \cup Writer \subseteq Worker
    /\ M \in Nat /\ R \in Nat \ {0} /\ BufSize \in Nat
    /\ Tree \in [Root -> Seq(Files)]

Slots == 0 .. R - 1
Conns == [n : Nat, wtype : {"map", "reduce"}, msplit : Nat]
NoConn == [n |-> -1, wtype |-> "none", msplit |-> 0]
Eof == -1               \* the nil name, which a read returns as zero bytes

VARIABLES
    serve,     \* "alt"; "names", "eofs", "remove": inside the delconn branch;
               \* "done": the process group was killed; "dead": serve raised
    cur, slot, \* the c and j of the delconn branch
    conns,     \* conns[0:nconns]
    mcnt, rcnt, mxcnt, qidseq,
    rchan,     \* rchan[j]: what is buffered for the reduce worker j
    feed,      \* feed[d]: the files du(d) has not sent on filechan yet
    delq,      \* requestprocs sending on delconn: <<who clunked, Conn>>
    pc,        \* pc[w]: where worker w is
    fd,        \* fd[w]: the Conn made for the clone file w opened
    got,       \* history: the names w has read
    ended,     \* history: w has read an end of file
    looked     \* the observers that have looked

srvVars == <<serve, cur, slot, conns, mcnt, rcnt, mxcnt, qidseq>>
counters == <<mcnt, rcnt, mxcnt, qidseq>>
vars == <<srvVars, rchan, feed, delq, pc, fd, got, ended, looked>>

Init ==
    /\ serve = "alt" /\ cur = NoConn /\ slot = 0
    /\ conns = <<>>
    /\ mcnt = 0 /\ rcnt = 0 /\ mxcnt = 0 /\ qidseq = 0
    /\ rchan = [j \in Slots |-> <<>>]
    /\ feed = Tree
    /\ delq = {}
    /\ pc = [w \in Worker |-> "new"]
    /\ fd = [w \in Worker |-> NoConn]
    /\ got = [w \in Worker |-> {}]
    /\ ended = [w \in Worker |-> FALSE]
    /\ looked = {}

Goto(w, l) == pc' = [pc EXCEPT ![w] = l]

(* request() looks the connection of a fid up by its number. *)
Connected(w) == \E i \in DOMAIN conns : conns[i].n = fd[w].n

(***************************************************************************)
(* Opening the clone file: serve() hands the Topen to a requestproc, which *)
(* asks serve() for a connection and, with the connection in hand, replies *)
(* and opens the fid as the ctl file ("made": until fid.open).  One worker more than M + R indexes rchan out  *)
(* of bounds, and serve() raises.                                          *)
(***************************************************************************)
OpenClone(w) ==
    /\ serve = "alt" /\ pc[w] = "new"
    /\ Goto(w, "cloning")
    /\ UNCHANGED <<srvVars, rchan, feed, delq, fd, got, ended, looked>>

NewConn(w, c) ==
    /\ conns' = Append(conns, c)
    /\ fd' = [fd EXCEPT ![w] = c]
    /\ qidseq' = qidseq + 1
    /\ Goto(w, "made")
    /\ UNCHANGED serve

\* Mutant: connections are numbered by their place in the table
Number_OfTable == Len(conns)

Number == qidseq

\* Mutant: the third connection is still a map worker
MakeConn_OneMore(w) ==
    /\ serve = "alt" /\ pc[w] = "cloning"
    /\ IF mcnt <= M
       THEN /\ NewConn(w, [n |-> Number, wtype |-> "map", msplit |-> mcnt])
            /\ mcnt' = mcnt + 1 /\ UNCHANGED rcnt
       ELSE /\ NewConn(w, [n |-> Number, wtype |-> "reduce", msplit |-> rcnt])
            /\ rcnt' = rcnt + 1 /\ UNCHANGED mcnt
    /\ UNCHANGED <<cur, slot, mxcnt, rchan, feed, delq, got, ended, looked>>

MakeConn(w) ==
    /\ serve = "alt" /\ pc[w] = "cloning"
    /\ \/ /\ mcnt < M
          /\ NewConn(w, [n |-> Number, wtype |-> "map", msplit |-> mcnt])
          /\ mcnt' = mcnt + 1 /\ UNCHANGED rcnt
       \/ /\ mcnt >= M /\ rcnt < R
          /\ NewConn(w, [n |-> Number, wtype |-> "reduce", msplit |-> rcnt])
          /\ rcnt' = rcnt + 1 /\ UNCHANGED mcnt
       \/ /\ mcnt >= M /\ rcnt >= R
          /\ serve' = "dead"
          /\ UNCHANGED <<conns, fd, qidseq, pc, mcnt, rcnt>>
    /\ UNCHANGED <<cur, slot, mxcnt, rchan, feed, delq, got, ended, looked>>

OpenReply(w) ==
    /\ pc[w] = "made"
    /\ Goto(w, "opened")
    /\ UNCHANGED <<srvVars, rchan, feed, delq, fd, got, ended, looked>>

(***************************************************************************)
(* Reading the ctl file.  A read through a connection that is gone is      *)
(* answered with an error, which ends the worker's loop.                   *)
(***************************************************************************)
Read(w) ==
    /\ serve = "alt"
    /\ \/ pc[w] = "opened" /\ Connected(w) /\ Goto(w, "ready")    \* nreads = 0
       \/ pc[w] = "ready" /\ Connected(w) /\ Goto(w, "wait")
       \/ pc[w] \in {"opened", "ready"} /\ ~Connected(w) /\ Goto(w, "closing")
    /\ UNCHANGED <<srvVars, rchan, feed, delq, fd, got, ended, looked>>

(* The reply to the Topen is sent before fid.open.  A Tread that arrives   *)
(* between them finds a fid that is not open; the worker exits, and its    *)
(* Tclunk may find a ctl file by then, or still the clone file, whose      *)
(* clunk closes no connection.                                             *)
HastyRead(w) ==
    /\ serve = "alt" /\ w \in Hasty /\ pc[w] = "made"
    /\ Goto(w, "closing") \/ Goto(w, "gone")
    /\ UNCHANGED <<srvVars, rchan, feed, delq, fd, got, ended, looked>>

(* A Twrite of an open ctl file is accepted and never answered. *)
Write(w) ==
    /\ serve = "alt" /\ w \in Writer /\ pc[w] = "ready" /\ Connected(w)
    /\ Goto(w, "writing")
    /\ UNCHANGED <<srvVars, rchan, feed, delq, fd, got, ended, looked>>

Takes(w, name) ==
    /\ Goto(w, "ready")
    /\ got' = [got EXCEPT ![w] = @ \cup {name}]
    /\ UNCHANGED ended

\* Mutant: the worker goes on reading after an end of file
TakesEof_GoesOn(w) ==
    /\ Goto(w, "ready")
    /\ ended' = [ended EXCEPT ![w] = TRUE]
    /\ UNCHANGED got

TakesEof(w) ==
    /\ Goto(w, "closing")
    /\ ended' = [ended EXCEPT ![w] = TRUE]
    /\ UNCHANGED got

(* filechan is shared and unbuffered: any du() may meet any map worker. *)
MapperTakes(w, d) ==
    /\ pc[w] = "wait" /\ fd[w].wtype = "map"
    /\ \/ /\ feed[d] # <<>>
          /\ Takes(w, Head(feed[d]))
          /\ feed' = [feed EXCEPT ![d] = Tail(@)]
       \/ feed[d] = <<>> /\ TakesEof(w) /\ UNCHANGED feed
    /\ UNCHANGED <<srvVars, rchan, delq, fd, looked>>

ReducerTakes(w) ==
    /\ pc[w] = "wait" /\ fd[w].wtype = "reduce"
    /\ LET j == fd[w].msplit
       IN  /\ rchan[j] # <<>>
           /\ rchan' = [rchan EXCEPT ![j] = Tail(@)]
           /\ IF Head(rchan[j]) = Eof THEN TakesEof(w)
                                      ELSE Takes(w, Head(rchan[j]))
    /\ UNCHANGED <<srvVars, feed, delq, fd, looked>>

(***************************************************************************)
(* A killed worker: its outstanding request is flushed by serve(), which   *)
(* kills the requestproc; its file is closed.  A Topen flushed between     *)
(* makeconn and fid.open leaves the fid a clone file, whose clunk does not *)
(* close the connection that was made for it.                              *)
(***************************************************************************)
Die(w) ==
    /\ w \in Mortal
    /\ \/ pc[w] \in {"opened", "ready"} /\ Goto(w, "closing")
       \/ serve = "alt" /\ pc[w] \in {"wait", "writing"} /\ Goto(w, "closing")
       \/ serve = "alt" /\ pc[w] \in {"cloning", "made"} /\ Goto(w, "gone")
    /\ UNCHANGED <<srvVars, rchan, feed, delq, fd, got, ended, looked>>

Clunk(w) ==
    /\ serve = "alt" /\ pc[w] = "closing"
    /\ Goto(w, "gone")
    /\ delq' = IF Connected(w) THEN delq \cup {<<w, fd[w]>>} ELSE delq
    /\ UNCHANGED <<srvVars, rchan, feed, fd, got, ended, looked>>

(* Tclunk of any fid that was walked to n/ctl, open or not. *)
StatCtl(o) ==
    /\ serve = "alt" /\ o \notin looked
    /\ \E i \in DOMAIN conns : delq' = delq \cup {<<o, conns[i]>>}
    /\ looked' = looked \cup {o}
    /\ UNCHANGED <<srvVars, rchan, feed, pc, fd, got, ended>>

\* Mutant: reduce workers' closings also hand out intermediate files
Delconn_AllTypes(x) ==
    /\ serve = "alt" /\ x \in delq
    /\ delq' = delq \ {x}
    /\ cur' = x[2] /\ slot' = 0 /\ serve' = "names"
    /\ UNCHANGED <<conns, counters, rchan, feed, pc, fd, got, ended, looked>>

\* Mutant: the requestproc of the Tclunk sends on delconn again and again
Delconn_Repeats(x) ==
    /\ serve = "alt" /\ x \in delq
    /\ cur' = x[2] /\ slot' = 0
    /\ serve' = IF x[2].wtype = "map" THEN "names" ELSE "remove"
    /\ UNCHANGED <<delq, conns, counters, rchan, feed, pc, fd, got, ended, looked>>

(***************************************************************************)
(* The delconn branch of serve(): the names of a map worker's R            *)
(* intermediate files go to the reduce workers, the last map worker known  *)
(* also sends the end of file, and the connection leaves the table.        *)
(***************************************************************************)
Delconn(x) ==
    /\ serve = "alt" /\ x \in delq
    /\ delq' = delq \ {x}
    /\ cur' = x[2] /\ slot' = 0
    /\ serve' = IF x[2].wtype = "map" THEN "names" ELSE "remove"
    /\ UNCHANGED <<conns, counters, rchan, feed, pc, fd, got, ended, looked>>

Send(name) ==
    /\ Len(rchan[slot]) < BufSize
    /\ rchan' = [rchan EXCEPT ![slot] = Append(@, name)]

\* Mutant: the end of file is sent after every map worker
AllMapped_Any == TRUE

AllMapped == mcnt = mxcnt'

SendName ==
    /\ serve = "names"
    /\ Send(cur.n)
    /\ IF slot + 1 < R
       THEN slot' = slot + 1 /\ UNCHANGED <<serve, mxcnt>>
       ELSE /\ slot' = 0
            /\ mxcnt' = mxcnt + 1
            /\ serve' = IF AllMapped THEN "eofs" ELSE "remove"
    /\ UNCHANGED <<cur, conns, mcnt, rcnt, qidseq, feed, delq, pc, fd, got,
                   ended, looked>>

SendEof ==
    /\ serve = "eofs"
    /\ Send(Eof)
    /\ IF slot + 1 < R THEN slot' = slot + 1 /\ UNCHANGED serve
                       ELSE slot' = 0 /\ serve' = "remove"
    /\ UNCHANGED <<cur, conns, counters, feed, delq, pc, fd, got, ended, looked>>

\* Mutant: the last entry is dropped but not moved into the hole
Kept_NoMove(i) == SubSeq(conns, 1, Len(conns) - 1)

Kept(i) == SubSeq([conns EXCEPT ![i] = conns[Len(conns)]], 1, Len(conns) - 1)

\* Mutant: the master is done as soon as no worker is connected
Complete_NoWorkers == conns' = <<>>

Complete == conns' = <<>> /\ rcnt = R

(* A connection that is not in the table still costs the table its last    *)
(* entry, and an empty table the process.                                  *)
Remove ==
    /\ serve = "remove"
    /\ \/ \E i \in DOMAIN conns : conns[i] = cur /\ conns' = Kept(i)
       \/ /\ conns # <<>> /\ \A i \in DOMAIN conns : conns[i] # cur
          /\ conns' = Kept(Len(conns))
       \/ conns = <<>> /\ UNCHANGED conns
    /\ serve' = IF conns = <<>> THEN "dead"
                ELSE IF Complete THEN "done" ELSE "alt"
    /\ cur' = NoConn
    /\ UNCHANGED <<slot, counters, rchan, feed, delq, pc, fd, got, ended, looked>>

(* serve() ends with a killgrp: nothing of mapreduce runs after that. *)
Exited == serve = "done" /\ UNCHANGED vars

WorkerStep(w) ==
    \/ OpenClone(w) \/ MakeConn(w) \/ OpenReply(w) \/ Read(w)
    \/ ReducerTakes(w) \/ Clunk(w)
    \/ \E d \in Root : MapperTakes(w, d)

ServeStep == SendName \/ SendEof \/ Remove \/ \E x \in delq : Delconn(x)

Next ==
    \/ /\ serve # "done"
       /\ \/ \E w \in Worker : WorkerStep(w) \/ HastyRead(w) \/ Write(w)
                             \/ Die(w)
          \/ \E o \in Observer : StatCtl(o)
          \/ ServeStep
    \/ Exited

Spec == Init /\ [][Next]_vars

(* Every process that can go on does; nobody has to be killed or to look.  *)
FairSpec == /\ Spec
            /\ \A w \in Worker : WF_vars(serve # "done" /\ WorkerStep(w))
            /\ WF_vars(ServeStep)

-----------------------------------------------------------------------------

TypeOK ==
    /\ serve \in {"alt", "names", "eofs", "remove", "done", "dead"}
    /\ cur \in Conns \cup {NoConn} /\ slot \in Slots
    /\ conns \in Seq(Conns)
    /\ mcnt \in 0 .. M /\ rcnt \in 0 .. R
    /\ mxcnt \in Nat /\ qidseq = mcnt + rcnt
    /\ rchan \in [Slots -> Seq(Nat \cup {Eof})]
    /\ feed \in [Root -> Seq(Files)]
    /\ delq \subseteq (Worker \cup Observer) \X Conns
    /\ pc \in [Worker -> {"new", "cloning", "made", "opened", "ready", "wait",
                          "writing", "closing", "gone"}]
    /\ fd \in [Worker -> Conns \cup {NoConn}]
    /\ got \in [Worker -> SUBSET (Files \cup Nat)]
    /\ ended \in [Worker -> BOOLEAN]
    /\ looked \subseteq Observer

(* Properties. *)

Open(w) == pc[w] \in {"made", "opened", "ready", "wait", "writing",
                    "closing"}
Mapper(w) == fd[w].wtype = "map"
Reducer(w) == fd[w].wtype = "reduce"

(* The table lists, once each, the connections whose worker has not closed *)
(* the file or whose closing serve() has not finished: the master knows    *)
(* exactly when a worker has closed its connection (conns, delconn).       *)
ConnsAreOpen ==
    LET listed == {conns[i] : i \in DOMAIN conns}
        closing == {x[2] : x \in delq} \cup ({cur} \ {NoConn})
    IN  /\ TypeOK
        /\ listed = {fd[w] : w \in {v \in Worker : Open(v)}} \cup closing
        /\ Cardinality(listed) = Len(conns)

(* A worker whose file is open is in the table: serve() does not take a    *)
(* connection away from a worker that goes on using it, whichever others   *)
(* are killed (the delconn loop).  Once another program has looked at a    *)
(* ctl file this is lost: its clunk closes the worker's connection.        *)
LiveConnsListed ==
    looked = {} =>
        \A w \in Worker : Open(w) => \E i \in DOMAIN conns : conns[i] = fd[w]

(* A worker that nobody killed ends because it read an end of file, never  *)
(* because the master answered one of its reads with an error.             *)
EndsAtEof ==
    \A w \in Worker \ Mortal : pc[w] \in {"closing", "gone"} => ended[w]

(* No two connections have the same number, so no two map workers write    *)
(* the same intermediate files /tmp/mapred.n.j (qidseq++).                 *)
UniqueConn ==
    \A v, w \in Worker : v # w /\ fd[v] # NoConn => fd[v].n # fd[w].n

(* serve() never waits inside the delconn branch for a reduce worker that  *)
(* cannot take the message: the worker must already wait for a name, as no *)
(* request reaches the master while serve() is sending.  Nor does it raise. *)
NoWedge ==
    /\ serve \in {"names", "eofs"} =>
          \/ Len(rchan[slot]) < BufSize
          \/ \E w \in Worker : Reducer(w) /\ fd[w].msplit = slot /\ pc[w] = "wait"
    /\ serve # "dead"

(* A reduce worker that has read its end of file was told of every map     *)
(* worker that mapped a file, and no file is left to map: nothing a map    *)
(* worker wrote is missing from the reduction (mcnt == mxcnt).             *)
ReducerSeesAll ==
    \A r \in Worker : Reducer(r) /\ ended[r] =>
        /\ \A d \in Root : feed[d] = <<>>
        /\ \A m \in Worker : Mapper(m) /\ got[m] # {} => fd[m].n \in got[r]

(* When the master reports that it is done, every file of every path was   *)
(* given to some worker, and every reduce worker read to its end of file.  *)
DoneMeansComplete ==
    serve = "done" =>
        /\ Files \subseteq UNION {got[w] : w \in Worker}
        /\ \A w \in Worker : Reducer(w) => ended[w]
        /\ Cardinality({w \in Worker : Reducer(w)}) = R

(* The master does report that it is done. *)
Termination == <>(serve = "done")

=============================================================================
