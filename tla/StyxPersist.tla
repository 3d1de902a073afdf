---------------------------- MODULE StyxPersist -----------------------------
(***************************************************************************)
(* Lab 78: styxpersist.b stands between a Styx client and a Styx server    *)
(* and keeps the client's session alive when the connection to the server  *)
(* is lost: it dials again, walks and opens the client's fids again, and   *)
(* sends the requests again that have no answer yet.                       *)
(*                                                                         *)
(* run() is one process; while it restores the fids (resurrectfids, with   *)
(* Nprocs = 1) nothing else touches the proxy's state, so restoring one    *)
(* fid is one step.  Client process t has one tag, another one to flush    *)
(* it, a root fid and a file fid; replies reach a client at once.          *)
(***************************************************************************)
EXTENDS Integers, Sequences, FiniteSets, SequencesExt

CONSTANTS Client,
          Aname,        \* Aname[t]: the tree client t attaches
          Ops,          \* the operations the clients use
          Refusing,     \* the anames whose server may answer with an error
          LosesFirst,   \* may the first connection fail during Tversion?
          None,
          MaxHangups,   \* bound: how often the connection is lost
          MaxTags       \* bound: nothing is sent while the Tag table is longer

ASSUME StyxPersistAssumption ==
    /\ DOMAIN Aname = Client
    /\ Ops \subseteq {"Attach", "Walk", "Open", "Create", "Read",
                      "Clunk", "Remove", "Flush"}
    /\ LosesFirst \in BOOLEAN /\ MaxHangups \in Nat /\ MaxTags \in Nat

Fids == Client \X {"root", "file"}
Messages == [op : Ops, t : Client]
FidStates == [state : {"NOTOPEN", "OPEN", "DEAD"},
              aname : {Aname[t] : t \in Client},
              path : {"/", "a", "new"}, qid : {"/", "a", "new"}]
ServerFids == [aname : {Aname[t] : t \in Client}, path : {"/", "a", "new"}, open : BOOLEAN]

ASSUME NoneAssumption == None \notin Ops \cup FidStates \cup ServerFids

VARIABLES pc,        \* run(): "connect", "alt", "fids" (resurrectfids), "dead"
          version,   \* "offered", "lost" (taken, never answered) or "done"
          tags,      \* the Tag table in the order of seq
          fids,      \* the Fid table
          todo,      \* resurrectfids: the fids it has not come to
          root,      \* resurrectfids: its Root
          up,        \* the connection exists
          reqs,      \* T-messages the server has not read
          work,      \* reads the server has not answered
          rmsg,      \* R-messages the proxy has not read
          sfids,     \* the fids of the server's session
          tmsg,      \* T-messages the proxy has not read
          cl,        \* cl[t]: what client t knows and waits for
          fate,      \* history: "live", or how f was marked DEAD: "refused" by
                     \* the server or "lost"
          hangups

proxyVars == <<pc, version, tags, fids, todo, root>>
serverVars == <<up, reqs, work, rmsg, sfids>>
vars == <<proxyVars, serverVars, tmsg, cl, fate, hangups>>

Readerror == [op |-> "Readerror"]
NoRoot == [attached |-> 0, aname |-> None]

Init ==
    /\ pc = "connect" /\ version = "offered"
    /\ tags = <<>> /\ todo = {} /\ root = NoRoot
    /\ fids = [f \in Fids |-> None]
    /\ up = FALSE /\ reqs = <<>> /\ work = {} /\ rmsg = <<>>
    /\ sfids = [f \in Fids |-> None]
    /\ tmsg = <<>>
    /\ cl = [t \in Client |-> [st |-> "start", out |-> None,
                               flushing |-> FALSE, stray |-> FALSE]]
    /\ fate = [f \in Fids |-> "live"]
    /\ hangups = 0

(***************************************************************************)
(* Messages: [op, t], where op and t determine the tag and the fids.       *)
(***************************************************************************)
FileFid(t) == <<t, "file">>
RootFid(t) == <<t, "root">>

(* tmsgfid() *)
HasFid(m) == m.op \notin {"Attach", "Flush"}
FidOf(m) == IF m.op = "Walk" THEN RootFid(m.t) ELSE FileFid(m.t)

SameTag(a, b) == a.t = b.t /\ (a.op = "Flush") = (b.op = "Flush")

(* gettag(): the newest entry with the message's tag, or 0. *)
Newest(I) == IF I = {} THEN 0 ELSE CHOOSE i \in I : \A j \in I : j <= i
Gettag(m) == Newest({i \in DOMAIN tags : SameTag(tags[i], m)})
Oldtag(m) == Newest({i \in DOMAIN tags : tags[i].t = m.t /\ tags[i].op # "Flush"})

(* The messages of a sequence that are in a set. *)
Those(ms, set) ==
    LET those[i \in 0 .. Len(ms)] ==
            IF i = 0 THEN <<>>
            ELSE IF ms[i] \in set THEN Append(those[i - 1], ms[i]) ELSE those[i - 1]
    IN  those[Len(ms)]

Dead(f) == fids[f] # None /\ fids[f].state = "DEAD"

(***************************************************************************)
(* The clients: those of a mount, one request at a time per tag.           *)
(***************************************************************************)
Allowed(s) == CASE s = "start"    -> {"Attach"}
                [] s = "attached" -> {"Walk"}
                [] s = "walked"   -> {"Open", "Create", "Remove", "Clunk"}
                [] s = "opened"   -> {"Read", "Remove", "Clunk"}

After(s, r) ==
    IF r.op \in {"Clunk", "Remove"} THEN "attached"
    ELSE IF ~r.ok THEN s
    ELSE CASE r.op = "Attach" -> "attached"
           [] r.op = "Walk" -> "walked"
           [] r.op \in {"Open", "Create"} -> "opened"
           [] OTHER -> s

(* What reply r leaves of client record c. *)
Told(c, r) ==
    IF r.op = "Flush"
    THEN IF c.flushing THEN [c EXCEPT !.flushing = FALSE, !.out = None]
                       ELSE [c EXCEPT !.stray = TRUE]
    ELSE IF c.out = r.op \/ (c.out # None /\ ~r.ok)
         THEN [c EXCEPT !.out = None, !.st = After(@, [r EXCEPT !.op = c.out])]
         ELSE [c EXCEPT !.stray = TRUE]

(* sendrmsg() of each reply of a sequence *)
Sendrmsg(rs) ==
    LET told[i \in 0 .. Len(rs)] ==
            IF i = 0 THEN cl ELSE [told[i - 1] EXCEPT ![rs[i].t] = Told(@, rs[i])]
    IN  cl' = told[Len(rs)]

Reply(m, ok) == [op |-> m.op, t |-> m.t, ok |-> ok]

Request(t, op) ==
    /\ version = "done" /\ op \in Ops \cap Allowed(cl[t].st)
    /\ cl[t].out = None /\ ~cl[t].flushing /\ Len(tags) <= MaxTags
    /\ tmsg' = Append(tmsg, [op |-> op, t |-> t])
    /\ cl' = [cl EXCEPT ![t].out = op]
    /\ UNCHANGED <<proxyVars, serverVars, fate, hangups>>

Flush(t) ==
    /\ "Flush" \in Ops /\ cl[t].out = "Read" /\ ~cl[t].flushing
    /\ Len(tags) <= MaxTags
    /\ tmsg' = Append(tmsg, [op |-> "Flush", t |-> t])
    /\ cl' = [cl EXCEPT ![t].flushing = TRUE]
    /\ UNCHANGED <<proxyVars, serverVars, fate, hangups>>

(***************************************************************************)
(* The server: answers in the order it likes only where it waits (Read).   *)
(***************************************************************************)
Known(m) == CASE m.op = "Attach" -> sfids[RootFid(m.t)] = None
              [] m.op = "Walk" -> sfids[RootFid(m.t)] # None /\ sfids[FileFid(m.t)] = None
              [] m.op = "Read" ->
                     sfids[FileFid(m.t)] # None /\ sfids[FileFid(m.t)].open
              [] m.op \in {"Open", "Create"} ->
                     sfids[FileFid(m.t)] # None /\ ~sfids[FileFid(m.t)].open
              [] OTHER -> sfids[FileFid(m.t)] # None

File(t, path, open) == [aname |-> Aname[t], path |-> path, open |-> open]

Served(m, ok) ==
    IF m.op \in {"Clunk", "Remove"} THEN [sfids EXCEPT ![FileFid(m.t)] = None]
    ELSE IF ~ok THEN sfids
    ELSE CASE m.op = "Attach" -> [sfids EXCEPT ![RootFid(m.t)] = File(m.t, "/", FALSE)]
           [] m.op = "Walk" -> [sfids EXCEPT ![FileFid(m.t)] = File(m.t, "a", FALSE)]
           [] m.op = "Open" -> [sfids EXCEPT ![FileFid(m.t)].open = TRUE]
           [] m.op = "Create" -> [sfids EXCEPT ![FileFid(m.t)] = File(m.t, "new", TRUE)]

Serve ==
    /\ up /\ reqs # <<>>
    /\ LET m == Head(reqs)
       IN  \/ /\ m.op = "Flush"
              /\ work' = {w \in work : w.t # m.t}
              /\ rmsg' = Append(rmsg, Reply(m, TRUE))
              /\ UNCHANGED sfids
           \/ /\ m.op = "Read" /\ Known(m)
              /\ work' = work \cup {m}
              /\ UNCHANGED <<rmsg, sfids>>
           \/ \E ok \in BOOLEAN :
                /\ m.op # "Flush"
                /\ ok => Known(m) /\ m.op # "Read"
                /\ ~ok => ~Known(m) \/ Aname[m.t] \in Refusing
                /\ rmsg' = Append(rmsg, Reply(m, ok))
                /\ sfids' = Served(m, ok)
                /\ UNCHANGED work
    /\ reqs' = Tail(reqs)
    /\ UNCHANGED <<proxyVars, up, tmsg, cl, fate, hangups>>

ServeRead(m) ==
    /\ up /\ m \in work
    /\ work' = work \ {m}
    /\ rmsg' = Append(rmsg, Reply(m, TRUE))
    /\ UNCHANGED <<proxyVars, up, reqs, sfids, tmsg, cl, fate, hangups>>

(* The connection is lost: what is under way is lost, except for answers   *)
(* the proxy can still read before the end of file.                        *)
Hangup ==
    /\ up /\ hangups < MaxHangups
    /\ hangups' = hangups + 1
    /\ up' = FALSE /\ reqs' = <<>> /\ work' = {}
    /\ sfids' = [f \in Fids |-> None]
    /\ IF pc = "fids"           \* rmsgmarshal reads it: resurrectfids fails
       THEN pc' = "connect" /\ rmsg' = <<>>
       ELSE \E n \in 0 .. Len(rmsg) :
                rmsg' = Append(SubSeq(rmsg, 1, n), Readerror) /\ UNCHANGED pc
    /\ UNCHANGED <<version, tags, fids, todo, root, tmsg, cl, fate>>

(***************************************************************************)
(* run(), the tmsg branch: newtag and handletmsg.                          *)
(***************************************************************************)
Sendtmsg(ms) == reqs' = IF up THEN reqs \o ms ELSE reqs

Forward(m) ==
    /\ tags' = Append(tags, m)
    /\ Sendtmsg(<<m>>)
    /\ UNCHANGED <<pc, fids, cl>>

(* newtag, and gettag(m.tag, 1) once the proxy has answered by itself *)
Answer(m, ok) ==
    /\ Sendrmsg(<<Reply(m, ok)>>)
    /\ UNCHANGED <<pc, tags, reqs>>

Handletmsg(m) ==
    \/ m.op = "Flush" /\ Oldtag(m) = 0 /\ Answer(m, TRUE) /\ UNCHANGED fids
    \/ m.op = "Flush" /\ Oldtag(m) # 0 /\ Forward(m)
    \/ m.op = "Attach" /\ Forward(m)
    \/ /\ HasFid(m) /\ fids[FidOf(m)] = None        \* f.state of a nil f
       /\ pc' = "dead"
       /\ UNCHANGED <<tags, fids, reqs, cl>>
    \/ /\ HasFid(m) /\ Dead(FidOf(m)) /\ m.op = "Clunk"
       /\ fids' = [fids EXCEPT ![FidOf(m)] = None]
       /\ Answer(m, TRUE)
    \/ HasFid(m) /\ Dead(FidOf(m)) /\ m.op # "Clunk" /\ Answer(m, FALSE) /\ UNCHANGED fids
    \/ HasFid(m) /\ fids[FidOf(m)] # None /\ ~Dead(FidOf(m)) /\ Forward(m)

TakeTmsg ==
    /\ pc = "alt" /\ tmsg # <<>>
    /\ Handletmsg(Head(tmsg))
    /\ tmsg' = Tail(tmsg)
    /\ UNCHANGED <<version, todo, root, up, work, rmsg, sfids, fate, hangups>>

(***************************************************************************)
(* run(), the rmsg branch: gettag and handlermsg.  A fid that is created   *)
(* keeps the path of the directory it was created in.                      *)
(***************************************************************************)
Walked(t, path) == [state |-> "NOTOPEN", aname |-> Aname[t], path |-> path,
                    qid |-> path]

NewFid(r) == IF r.op = "Attach" THEN RootFid(r.t) ELSE FileFid(r.t)

(* newfid() aborts on a duplicate; getfid() may return nil *)
Raises(r) == r.ok /\ \/ r.op \in {"Attach", "Walk"} /\ fids[NewFid(r)] # None
                     \/ r.op \in {"Open", "Create"} /\ fids[FileFid(r.t)] = None

CreatedPath(f) == f.path

HandledFids(r) ==
    IF r.op \in {"Clunk", "Remove"} THEN [fids EXCEPT ![FileFid(r.t)] = None]
    ELSE IF ~r.ok THEN fids
    ELSE CASE r.op = "Attach" -> [fids EXCEPT ![RootFid(r.t)] = Walked(r.t, "/")]
           [] r.op = "Walk" -> [fids EXCEPT ![FileFid(r.t)] = Walked(r.t, "a")]
           [] r.op = "Open" -> [fids EXCEPT ![FileFid(r.t)].state = "OPEN"]
           [] r.op = "Create" -> [fids EXCEPT ![FileFid(r.t)] =
                                      [@ EXCEPT !.state = "OPEN", !.qid = "new",
                                                !.path = CreatedPath(fids[FileFid(r.t)])]]
           [] OTHER -> fids

Destroyed(i) == RemoveAt(tags, i)

Handlermsg(r) ==
    LET i == Gettag(r)
    IN  \/ i = 0 /\ UNCHANGED <<pc, tags, fids, cl>>     \* "unexpected tag"
        \/ /\ i # 0 /\ tags' = Destroyed(i)
           /\ \/ /\ tags[i].op # r.op /\ r.ok            \* "type mismatch"
                 /\ UNCHANGED <<pc, fids, cl>>
              \/ /\ tags[i].op = r.op /\ Raises(r)
                 /\ pc' = "dead"
                 /\ UNCHANGED <<fids, cl>>
              \/ /\ tags[i].op = r.op \/ ~r.ok
                 /\ ~Raises(r)
                 /\ fids' = HandledFids(Reply(tags[i], r.ok))
                 /\ Sendrmsg(<<Reply(tags[i], r.ok)>>)
                 /\ UNCHANGED pc

TakeRmsg ==
    /\ pc = "alt" /\ rmsg # <<>>
    /\ \/ Head(rmsg) = Readerror /\ pc' = "connect" /\ UNCHANGED <<tags, fids, cl>>
       \/ Head(rmsg) # Readerror /\ Handlermsg(Head(rmsg))
    /\ rmsg' = Tail(rmsg)
    /\ UNCHANGED <<version, todo, root, up, reqs, work, sfids, tmsg, fate,
                   hangups>>

(***************************************************************************)
(* connect(): an attempt that fails is tried again and changes nothing,    *)
(* but the first one takes the client's Tversion with it.                  *)
(***************************************************************************)
FirstConnect ==
    /\ pc = "connect" /\ version = "offered"
    /\ \/ version' = "done" /\ up' = TRUE /\ pc' = "alt"
       \/ LosesFirst /\ version' = "lost" /\ UNCHANGED <<up, pc>>
    /\ UNCHANGED <<tags, fids, todo, root, reqs, work, rmsg, sfids, tmsg, cl,
                   fate, hangups>>

\* Mutant: fids that are not in the table are restored as well
InTable_All == Fids

InTable == {f \in Fids : fids[f] # None}

Connect ==
    /\ pc = "connect" /\ version = "done"
    /\ up' = TRUE /\ rmsg' = <<>>
    /\ pc' = "fids" /\ root' = NoRoot
    /\ todo' = InTable
    /\ UNCHANGED <<version, tags, fids, reqs, work, sfids, tmsg, cl, fate,
                   hangups>>

(***************************************************************************)
(* resurrectfid(): attach the root fid if it is not attached to the fid's  *)
(* tree yet, walk the path from it, and open the file again.               *)
(***************************************************************************)
\* Mutant: the root fid is used whatever tree it is attached to
RootFor_AnyTree(f) == root.attached = 1

RootFor(f) == root.attached = 1 /\ root.aname = fids[f].aname

MarkDead(f, how) ==
    /\ fids' = [fids EXCEPT ![f].state = "DEAD"]
    /\ fate' = [fate EXCEPT ![f] = how]

RootFailed(f) ==
    /\ root.attached = -1
    /\ MarkDead(f, "lost")
    /\ UNCHANGED <<root, sfids>>

AttachRefused(f) ==
    /\ root.attached # -1 /\ ~RootFor(f) /\ fids[f].aname \in Refusing
    /\ root' = [root EXCEPT !.attached = -1]
    /\ MarkDead(f, "refused")
    /\ UNCHANGED sfids

Attached(f) ==
    /\ root.attached # -1
    /\ root' = IF RootFor(f) THEN root
                ELSE [attached |-> 1, aname |-> fids[f].aname]

Opened(f) == fids[f].state = "OPEN"

\* Mutant: the qid of the file that was opened is not compared
SameQid_Unchecked(f) == TRUE

SameQid(f) == fids[f].state = "OPEN" => fids[f].qid = fids[f].path

FileRefused(f) ==
    /\ Attached(f)
    /\ fids[f].aname \in Refusing
    /\ MarkDead(f, "refused")
    /\ UNCHANGED sfids

(* openfid(): another file is found under the path, the new fid is clunked *)
QidMismatch(f) ==
    /\ Attached(f)
    /\ ~SameQid(f)
    /\ MarkDead(f, "lost")
    /\ UNCHANGED sfids

Restored(f) ==
    /\ Attached(f)
    /\ SameQid(f)
    /\ sfids' = [sfids EXCEPT ![f] = [aname |-> root'.aname,
                                      path |-> fids[f].path,
                                      open |-> Opened(f)]]
    /\ UNCHANGED <<fids, fate>>

ResurrectFid(f) ==
    /\ pc = "fids" /\ f \in todo
    /\ \/ RootFailed(f) \/ AttachRefused(f) \/ FileRefused(f) \/ QidMismatch(f)
       \/ Restored(f)
    /\ todo' = todo \ {f}
    /\ UNCHANGED <<pc, version, tags, up, reqs, work, rmsg, tmsg, cl, hangups>>

(***************************************************************************)
(* resurrecttags(): requests on dead fids are answered, requests that may  *)
(* have been carried out are answered with Epartial and kept, a Tflush of  *)
(* an answered request is answered; the rest is sent again in seq order.   *)
(***************************************************************************)
OnDeadFid(m) == HasFid(m) /\ Dead(FidOf(m))

Partial(m) == /\ m.op \in {"Create", "Remove"}
              /\ fids[FidOf(m)] # None /\ ~Dead(FidOf(m))

FlushesNothing(m) ==
    /\ m.op = "Flush"
    /\ Oldtag(m) = 0 \/ OnDeadFid(tags[Oldtag(m)])

\* Mutant: what was answered with Estale is sent again
Kept_OnDead(m) == ~FlushesNothing(m)

\* Mutant: flushes are not sent again
Kept_NoFlush(m) == ~OnDeadFid(m) /\ m.op # "Flush"

Kept(m) == ~OnDeadFid(m) /\ ~FlushesNothing(m)

\* Mutant: the requests are only registered again
Resend_Nothing(ms) == UNCHANGED reqs

Resend(ms) == Sendtmsg(ms)

ResurrectTags ==
    /\ pc = "fids" /\ todo = {}
    /\ LET failed == Those(tags, {m \in Messages : OnDeadFid(m) \/ Partial(m)})
           flushed == Those(tags, {m \in Messages : FlushesNothing(m)})
           errors == [i \in DOMAIN failed |-> Reply(failed[i], FALSE)]
           rflushes == [i \in DOMAIN flushed |-> Reply(flushed[i], TRUE)]
       IN  Sendrmsg(errors \o rflushes)
    /\ tags' = Those(tags, {m \in Messages : Kept(m)})
    /\ Resend(tags')
    /\ pc' = "alt"
    /\ UNCHANGED <<version, fids, todo, root, up, work, rmsg, sfids, tmsg,
                   fate, hangups>>

ClientStep(t) == Flush(t) \/ \E op \in Ops : Request(t, op)

ProxyStep == \/ TakeTmsg \/ TakeRmsg \/ FirstConnect \/ Connect
             \/ ResurrectTags
             \/ \E f \in Fids : ResurrectFid(f)

ServerStep == Serve \/ \E m \in work : ServeRead(m)

Next == \/ \E t \in Client : ClientStep(t)
        \/ ProxyStep \/ ServerStep \/ Hangup

Spec == Init /\ [][Next]_vars

(* The proxy and the server go on; a server answers each read in the end.  *)
FairSpec == /\ Spec /\ WF_vars(ProxyStep) /\ WF_vars(Serve)
            /\ \A t \in Client :
                 WF_vars(\E m \in work : m.t = t /\ ServeRead(m))

-----------------------------------------------------------------------------

TypeOK ==
    /\ pc \in {"connect", "alt", "fids", "dead"}
    /\ version \in {"offered", "lost", "done"}
    /\ tags \in Seq(Messages) /\ fids \in [Fids -> FidStates \cup {None}]
    /\ todo \subseteq {f \in Fids : fids[f] # None}
    /\ root.attached \in -1 .. 1
    /\ up \in BOOLEAN /\ reqs \in Seq(Messages) /\ work \subseteq Messages
    /\ ~up => reqs = <<>> /\ work = {}
    /\ pc = "alt" /\ ~up => rmsg # <<>> /\ Last(rmsg) = Readerror
    /\ tmsg \in Seq(Messages)
    /\ fate \in [Fids -> {"live", "refused", "lost"}] /\ hangups \in 0 .. MaxHangups

(* Properties. *)

(* A client never gets a reply it does not wait for: each request is       *)
(* answered once, whatever happens to the connection (gettag, sendrmsg).   *)
NoStrayReply == \A t \in Client : ~cl[t].stray

(* While the proxy relays and nothing is under way, the session it has     *)
(* with the server is the session the client believes in: the same fids,   *)
(* at the same files, open or not (resurrectfids, handlermsg).  A fid that *)
(* was DEAD once is excepted.                                              *)
Quiet == pc = "alt" /\ up /\ tags = <<>> /\ reqs = <<>> /\ rmsg = <<>>

Session(t) == IF cl[t].st \in {"walked", "opened"} THEN {FileFid(t), RootFid(t)}
              ELSE IF cl[t].st = "attached" THEN {RootFid(t)} ELSE {}

FidsAgree ==
    Quiet =>
        \A f \in Fids : fate[f] = "live" =>
            /\ (fids[f] # None) = (sfids[f] # None)
            /\ fids[f] # None => f \in Session(f[1])
            /\ fids[f] # None =>
                 sfids[f] = File(f[1], fids[f].path, fids[f].state = "OPEN")

(* A client never finds itself at another file than it opened: a fid the   *)
(* proxy holds for open is, in every session, at the file whose qid the    *)
(* client was given when it opened or created it (openfid).                *)
SameFile ==
    \A f \in Fids :
        /\ fids[f] # None /\ fids[f].state = "OPEN"
        /\ sfids[f] # None /\ sfids[f].open
        => sfids[f].path = fids[f].qid

(* Every request the proxy owes an answer for is in the Tag table, with    *)
(* the server, or on its way to or from it: no request falls between the   *)
(* old connection and the new one (resurrecttags).                         *)
Owed(t) ==
    LET m == [op |-> cl[t].out, t |-> t]
    IN  \/ \E i \in DOMAIN tmsg : tmsg[i] = m
        \/ /\ \E i \in DOMAIN tags : tags[i] = m
           /\ pc = "alt" /\ up =>
                \/ m \in work \/ \E i \in DOMAIN reqs : reqs[i] = m
                \/ \E i \in DOMAIN rmsg :
                     rmsg[i] # Readerror /\ rmsg[i].op = m.op /\ rmsg[i].t = t
NothingForgotten ==
    TypeOK /\ \A t \in Client : cl[t].out # None => Owed(t)

(* "mark fid as dead only if it's a genuine server error": a fid becomes   *)
(* DEAD only if the server refused to attach, walk to or open its file.    *)
DeadOnlyIfRefused == \A f \in Fids : Dead(f) => fate[f] = "refused"

(* What was answered with Epartial is sent again and stays in the Tag      *)
(* table; a later request with its tag may lose its answer to it.          *)
TagShared(t) ==
    \E i, j \in DOMAIN tags :
        i # j /\ tags[i].t = t /\ SameTag(tags[i], tags[j])

Excused(t) == pc = "dead" \/ TagShared(t)

(* Every request and every flush is answered, through any number of lost   *)
(* connections, as long as run() lives and no two entries of the Tag table *)
(* share a tag.                                                            *)
EveryRequestAnswered ==
    \A t \in Client : []~Excused(t) =>
        /\ cl[t].out # None ~> cl[t].out = None
        /\ cl[t].flushing ~> ~cl[t].flushing

=============================================================================
