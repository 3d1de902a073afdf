---------------------------- MODULE DeviceProofs ----------------------------
(***************************************************************************)
(* Proofs about the files of devcons.c - the console, the clipboard and    *)
(* the file of kernel prints -, about the handheld - its power management, *)
(* its screen and its pen -, about the window of win.c and its screen, and *)
(* about devarch.c.  Each has an inductive invariant of its own; the       *)
(* theorems carry them to Emu.                                             *)
(***************************************************************************)
EXTENDS Emu, FiniteSetTheorems, SequenceTheorems, TLAPS

-----------------------------------------------------------------------------
(***************************************************************************)
(* /dev/kprint.  A process that waits to close its file still has it open, *)
(* and one that waits to open has none: so it does not matter whose turn   *)
(* the lock makes it.                                                      *)
(***************************************************************************)
KprintOpen == {p \in KprintProc : kfile[p] = "open"}

KprintTypeOK ==
    /\ kprintq \in Nat \cup {NoQueue}
    /\ kprocs \in [KprintProc -> {"user", "opening", "closing", "reading"}]
    /\ kfile \in [KprintProc -> {"none", "open", "refused"}]

KprintOne == \A p, q \in KprintProc : kfile[p] = "open" /\ kfile[q] = "open" => p = q

KprintQueue == kprintq = NoQueue <=> \A p \in KprintProc : kfile[p] # "open"

KprintWaits ==
    \A p \in KprintProc :
        /\ kprocs[p] = "opening" => kfile[p] = "none"
        /\ kprocs[p] \in {"closing", "reading"} => kfile[p] = "open"

KprintReaders == readers = {p \in KprintProc : kprocs[p] = "reading"}

KprintInv == KprintTypeOK /\ KprintOne /\ KprintQueue /\ KprintWaits /\ KprintReaders

LEMMA KprintStarts == KprintInit => KprintInv
BY DEF KprintInit, KprintInv, KprintTypeOK, KprintOne, KprintQueue, KprintWaits, KprintReaders,
       NoQueue

LEMMA KprintStep == KprintInv /\ [KprintNext]_kprintVars => KprintInv'
<1> SUFFICES ASSUME KprintInv, [KprintNext]_kprintVars PROVE KprintInv'
  OBVIOUS
<1> USE DEF KprintInv, KprintTypeOK, KprintOne, KprintQueue, KprintWaits, KprintReaders, NoQueue
<1>1. CASE ConsWrite
  BY <1>1 DEF ConsWrite
<1>2. ASSUME NEW p \in KprintProc, KprintAsks(p) PROVE KprintInv'
  BY <1>2 DEF KprintAsks, Copen
<1>3. ASSUME NEW p \in KprintProc, KprintOpens(p) PROVE KprintInv'
  BY <1>3 DEF KprintOpens
<1>4. ASSUME NEW p \in KprintProc, KprintCloses(p) PROVE KprintInv'
  BY <1>4 DEF KprintCloses
<1>5. ASSUME NEW p \in KprintProc, KprintReads(p) PROVE KprintInv'
  BY <1>5 DEF KprintReads
<1>6. ASSUME NEW p \in KprintProc, KprintGets(p) PROVE KprintInv'
  BY <1>6 DEF KprintGets
<1>7. CASE UNCHANGED kprintVars
  BY <1>7 DEF kprintVars
<1> QED
  BY <1>1, <1>2, <1>3, <1>4, <1>5, <1>6, <1>7 DEF KprintNext

LEMMA KprintPromise == KprintInv => QueueOwned
<1> SUFFICES ASSUME KprintInv PROVE QueueOwned
  OBVIOUS
<1>1. readers \subseteq KprintOpen
  BY DEF KprintInv, KprintReaders, KprintWaits, KprintOpen
<1>2. CASE kprintq = NoQueue
  <2>1. KprintOpen = {}
    BY <1>2 DEF KprintInv, KprintQueue, KprintOpen
  <2>2. Cardinality(KprintOpen) = 0
    BY <2>1, FS_EmptySet
  <2> QED
    BY <1>1, <1>2, <2>2 DEF QueueOwned, KprintOpen
<1>3. CASE kprintq # NoQueue
  <2>1. PICK p \in KprintProc : kfile[p] = "open"
    BY <1>3 DEF KprintInv, KprintQueue
  <2>2. KprintOpen = {p}
    BY <2>1 DEF KprintInv, KprintOne, KprintOpen
  <2>3. Cardinality(KprintOpen) = 1
    BY <2>2, FS_Singleton
  <2> QED
    BY <1>1, <1>3, <2>3 DEF QueueOwned, KprintOpen
<1> QED
  BY <1>2, <1>3

-----------------------------------------------------------------------------
(***************************************************************************)
(* /dev/apm.  The descriptor of /proc/apm is at its start for whoever      *)
(* opened it alone and has not read, and it is never left at its end by    *)
(* processes that are gone.                                                *)
(***************************************************************************)
ApmTypeOK ==
    /\ procfd \in {"closed", "start", "end"}
    /\ apmuser \in [ApmUser -> [open : BOOLEAN, alone : BOOLEAN, host : BOOLEAN,
                                first : {"none", "battery", "empty", "error"}]]

ApmAtEnd == procfd = "end" => \E p \in ApmUser : apmuser[p].open

ApmAlone ==
    \A p \in ApmUser : apmuser[p].open /\ apmuser[p].alone =>
        /\ \A q \in ApmUser : apmuser[q].open => q = p
        /\ apmuser[p].host => \/ apmuser[p].first = "none" /\ procfd = "start"
                              \/ apmuser[p].first = "battery"

ApmInv == ApmTypeOK /\ ApmAtEnd /\ ApmAlone

LEMMA ApmStarts == ApmInit => ApmInv
BY DEF ApmInit, ApmInv, ApmTypeOK, ApmAtEnd, ApmAlone, NotOpen

LEMMA ApmStep == ApmInv /\ [ApmNext]_apmVars => ApmInv'
<1> SUFFICES ASSUME ApmInv, [ApmNext]_apmVars PROVE ApmInv'
  OBVIOUS
<1> USE DEF ApmInv, ApmTypeOK, ApmAtEnd, ApmAlone
<1>c. /\ Crowded \in [ApmUser -> [open : BOOLEAN, alone : BOOLEAN, host : BOOLEAN,
                                   first : {"none", "battery", "empty", "error"}]]
      /\ \A q \in ApmUser : Crowded[q].open = apmuser[q].open /\ Crowded[q].alone = FALSE
  BY ZenonT(60) DEF Crowded
<1>1. CASE ApmAttach
  BY <1>1 DEF ApmAttach, DevInit
<1>2. ASSUME NEW p \in ApmUser, ApmOpen(p) PROVE ApmInv'
  <2> DEFINE others == \E q \in ApmUser \ {p} : apmuser[q].open
             opened == [open |-> TRUE, alone |-> ~others, host |-> procfd' # "closed",
                        first |-> "none"]
  <2>1. opened \in [open : BOOLEAN, alone : BOOLEAN, host : BOOLEAN,
                    first : {"none", "battery", "empty", "error"}]
    OBVIOUS
  <2>2. /\ opened.open /\ opened.first = "none"
        /\ opened.alone <=> ~others
        /\ opened.host <=> procfd' # "closed"
    OBVIOUS
  <2>3. ~apmuser[p].open /\ procfd' \in DevInit(procfd)
        /\ apmuser' = [(IF others THEN Crowded ELSE apmuser) EXCEPT ![p] = opened]
    BY <1>2 DEF ApmOpen
  <2> HIDE DEF opened
  <2>4. procfd' \in {"closed", "start", "end"} /\ (procfd' = "end" => procfd = "end")
    BY <2>3 DEF DevInit
  <2>5. CASE others
    <3>1. apmuser' = [Crowded EXCEPT ![p] = opened]
      BY <2>3, <2>5
    <3> HIDE DEF others
    <3> QED
      BY <3>1, <1>c, <2>1, <2>2, <2>4, <2>5
  <2>6. CASE ~others
    <3>1. apmuser' = [apmuser EXCEPT ![p] = opened]
      BY <2>3, <2>6
    <3>2. \A q \in ApmUser : ~apmuser[q].open
      BY <2>3, <2>6
    <3>3. procfd # "end"
      BY <3>2
    <3> HIDE DEF others
    <3> QED
      BY <3>1, <3>2, <3>3, <2>1, <2>2, <2>4
  <2> QED
    BY <2>5, <2>6
<1>3. ASSUME NEW p \in ApmUser, ApmClose(p) PROVE ApmInv'
  BY <1>3, <1>c DEF ApmClose, ProcClose, NotOpen
<1>4. CASE ApmCloseDir
  BY <1>4, <1>c DEF ApmCloseDir, ProcClose
<1>5. ASSUME NEW p \in ApmUser, ApmRead(p) PROVE ApmInv'
  <2> DEFINE told == IF apmuser[p].first # "none" THEN apmuser[p].first
                     ELSE CASE procfd = "closed" -> "error"
                            [] procfd = "start" -> "battery"
                            [] procfd = "end" -> "empty"
  <2>1. /\ told \in {"none", "battery", "empty", "error"}
        /\ apmuser[p].first = "none" /\ procfd = "start" => told = "battery"
        /\ apmuser[p].first = "battery" => told = "battery"
    OBVIOUS
  <2>2. apmuser' = [apmuser EXCEPT ![p].first = told] /\ apmuser[p].open
        /\ procfd' = IF procfd = "start" THEN "end" ELSE procfd
    BY <1>5 DEF ApmRead
  <2> HIDE DEF told
  <2>3. /\ apmuser'[p] = [apmuser[p] EXCEPT !.first = told]
        /\ \A q \in ApmUser : q # p => apmuser'[q] = apmuser[q]
    BY <2>2
  <2>4. ApmTypeOK'
    BY <2>1, <2>2
  <2> QED
    BY <2>1, <2>2, <2>3, <2>4
<1>6. CASE Suspend
  BY <1>6 DEF Suspend
<1>7. CASE UNCHANGED apmVars
  BY <1>7 DEF apmVars
<1> QED
  BY <1>1, <1>2, <1>3, <1>4, <1>5, <1>6, <1>7 DEF ApmNext

LEMMA ApmPromise == ApmInv => BatteryRead
BY DEF ApmInv, ApmAlone, BatteryRead

-----------------------------------------------------------------------------
(***************************************************************************)
(* /dev/snarf.  A reader has read the beginning of its copy, and the copy  *)
(* is a text the clipboard was given; a writer's buffer holds what it      *)
(* wrote, and zeroes.                                                      *)
(***************************************************************************)
SnarfRecord == [mode : {"closed", "read"} \cup Buffered, aux : Seq(Letter \cup {Nul}), offset : Nat]

SnarfTypeOK ==
    /\ texts \subseteq Seq(Letter) /\ <<>> \in texts
    /\ snarf \in [SnarfChan -> SnarfRecord]
    /\ text \in [SnarfChan -> Seq(Letter)]

\* The two ends of a channel's text: how much of it there is, and whence it is.
ReadFrom(b, o, t) == o > 0 => b \in texts /\ o <= Len(b) /\ \A i \in 1 .. o : t[i] = b[i]
WrittenTo(b, o, t) ==
    /\ Len(b) = SnarfSize /\ o < SnarfSize
    /\ \A i \in 1 .. SnarfSize : b[i] = IF i <= o THEN t[i] ELSE Nul

SnarfCopies ==
    \A c \in SnarfChan :
        LET s == snarf[c] IN
        /\ Len(text[c]) = s.offset
        /\ s.mode = "read" => ReadFrom(s.aux, s.offset, text[c])
        /\ s.mode \in Buffered => WrittenTo(s.aux, s.offset, text[c])

SnarfInv == SnarfTypeOK /\ SnarfCopies /\ SnarfWhole

\* A buffer up to its first zero is what was written to it.
LEMMA WrittenUpTo ==
    ASSUME NEW b \in Seq(Letter \cup {Nul}), NEW o \in Nat, NEW t \in Seq(Letter),
           Len(t) = o, WrittenTo(b, o, t)
    PROVE  UpToNul(b) = t
<1> DEFINE s == Append(b, Nul)
           I == {i \in 1 .. Len(s) : s[i] = Nul}
<1>1. Len(s) = SnarfSize + 1 /\ SnarfSize \in Nat /\ o < SnarfSize /\ s \in Seq(Letter \cup {Nul})
  BY SnarfAssumption DEF WrittenTo
<1>2. \A i \in 1 .. o : t[i] \in Letter /\ b[i] = t[i] /\ s[i] = b[i] /\ t[i] # Nul
  BY <1>1, SnarfLetters DEF WrittenTo
<1>3. b[o + 1] = Nul /\ s[o + 1] = b[o + 1]
  BY <1>1 DEF WrittenTo
<1> HIDE DEF s
<1>4. o + 1 \in I /\ \A i \in I : o + 1 <= i
  BY <1>1, <1>2, <1>3
<1>5. I \subseteq Int
  BY <1>1
<1> HIDE DEF I
<1>6. Min(I) = o + 1
  <2>1. Min(I) \in I /\ \A y \in I : Min(I) <= y
    BY <1>4 DEF Min
  <2> DEFINE m == Min(I)
  <2>2. m \in Int /\ m <= o + 1 /\ o + 1 <= m
    BY <1>4, <1>5, <2>1
  <2> HIDE DEF m
  <2>3. m = o + 1
    BY <2>2
  <2> QED
    BY <2>3 DEF m
<1>7. UpToNul(b) = SubSeq(b, 1, (IF I # {} THEN Min(I) ELSE 0) - 1)
  BY DEF UpToNul, SelectInSeq, I, s
<1>8. UpToNul(b) = SubSeq(b, 1, o)
  BY <1>4, <1>6, <1>7
<1>9. Len(b) = SnarfSize
  BY DEF WrittenTo
<1>10. SubSeq(b, 1, o) = t
  <2>1. SubSeq(b, 1, o) \in Seq(Letter \cup {Nul}) /\ Len(SubSeq(b, 1, o)) = o
        /\ \A i \in 1 .. o : SubSeq(b, 1, o)[i] = b[i]
    BY <1>1, <1>9, SubSeqProperties
  <2>2. t \in Seq(Letter \cup {Nul})
    OBVIOUS
  <2> QED
    BY <2>1, <2>2, <1>2, SeqEqual
<1> QED
  BY <1>8, <1>10

LEMMA SnarfModes ==
    /\ \A m \in {"closed", "read"} : Mode(m, <<>>) \in SnarfRecord
    /\ LET zeroes == [i \in 1 .. SnarfSize |-> Nul] IN
       /\ \A m \in Buffered : Mode(m, zeroes) \in SnarfRecord
       /\ WrittenTo(zeroes, 0, <<>>)
<1>1. <<>> \in Seq(Letter \cup {Nul})
  OBVIOUS
<1>2. [i \in 1 .. SnarfSize |-> Nul] \in Seq(Letter \cup {Nul}) /\ SnarfSize \in Nat /\ 0 < SnarfSize
      /\ Len([i \in 1 .. SnarfSize |-> Nul]) = SnarfSize
  BY SnarfAssumption
<1> QED
  BY <1>1, <1>2 DEF Mode, SnarfRecord, WrittenTo

LEMMA SnarfStarts == SnarfInit => SnarfInv
<1> SUFFICES ASSUME SnarfInit PROVE SnarfInv
  OBVIOUS
<1>1. <<>> \in Seq(Letter) /\ Len(<<>>) = 0
  OBVIOUS
<1>2. \A c \in SnarfChan : snarf[c] \in SnarfRecord /\ snarf[c].mode = "closed"
                           /\ snarf[c].offset = 0 /\ text[c] = <<>>
  BY SnarfModes DEF SnarfInit, Mode
<1>3. SnarfTypeOK
  BY <1>1, <1>2 DEF SnarfInit, SnarfTypeOK
<1>4. SnarfCopies
  BY <1>1, <1>2 DEF SnarfCopies, Buffered
<1> QED
  BY <1>3, <1>4 DEF SnarfInv, SnarfWhole, SnarfInit

\* What one channel must satisfy: the text it reads is among those of the set.
ChannelOK(s, t, given) ==
    /\ s \in SnarfRecord /\ t \in Seq(Letter)
    /\ Len(t) = s.offset
    /\ s.mode = "read" /\ s.offset > 0 =>
          s.aux \in given /\ s.offset <= Len(s.aux) /\ \A i \in 1 .. s.offset : t[i] = s.aux[i]
    /\ s.mode \in Buffered => WrittenTo(s.aux, s.offset, t)

LEMMA SnarfChannels ==
    SnarfInv => \A c \in SnarfChan : ChannelOK(snarf[c], text[c], texts)
BY DEF SnarfInv, SnarfTypeOK, SnarfCopies, ChannelOK, ReadFrom

\* A step that changes one channel, and only adds to the texts.
LEMMA SnarfOne ==
    ASSUME SnarfInv, NEW c \in SnarfChan, NEW s, NEW t,
           snarf' = [snarf EXCEPT ![c] = s], text' = [text EXCEPT ![c] = t],
           texts \subseteq texts', texts' \subseteq Seq(Letter),
           ChannelOK(s, t, texts'), clip' \in texts', snarfed' \in texts'
    PROVE  SnarfInv'
<1>1. \A d \in SnarfChan : ChannelOK(snarf[d], text[d], texts)
  BY SnarfChannels
<1>2. \A d \in SnarfChan : ChannelOK(snarf[d], text[d], texts')
  BY <1>1 DEF ChannelOK
<1>3. DOMAIN snarf = SnarfChan /\ DOMAIN text = SnarfChan
  BY DEF SnarfInv, SnarfTypeOK
<1>4. \A d \in SnarfChan : ChannelOK(snarf'[d], text'[d], texts')
  BY <1>2, <1>3
<1>5. \A d \in SnarfChan : snarf'[d] \in SnarfRecord /\ text'[d] \in Seq(Letter)
  BY <1>4 DEF ChannelOK
<1>6. SnarfTypeOK'
  BY <1>3, <1>5 DEF SnarfInv, SnarfTypeOK
<1>7. SnarfCopies'
  BY <1>4 DEF SnarfCopies, ChannelOK, ReadFrom
<1> QED
  BY <1>6, <1>7 DEF SnarfInv, SnarfWhole

LEMMA ClosedOK == ASSUME NEW given PROVE ChannelOK(Mode("closed", <<>>), <<>>, given)
BY SnarfModes DEF ChannelOK, Mode, Buffered

LEMMA SnarfOpens == ASSUME SnarfInv, NEW c \in SnarfChan, SnarfOpen(c) PROVE SnarfInv'
<1>1. ChannelOK(Mode("read", <<>>), <<>>, texts)
  BY SnarfModes DEF ChannelOK, Mode, Buffered
<1>2. ASSUME NEW m \in Buffered PROVE ChannelOK(Mode(m, [i \in 1 .. SnarfSize |-> Nul]), <<>>, texts)
  <2> DEFINE zeroes == [i \in 1 .. SnarfSize |-> Nul]
  <2>1. Mode(m, zeroes) \in SnarfRecord /\ WrittenTo(zeroes, 0, <<>>)
    BY SnarfModes
  <2> HIDE DEF zeroes
  <2>2. /\ Mode(m, zeroes).offset = 0 /\ Mode(m, zeroes).aux = zeroes
        /\ Mode(m, zeroes).mode = m
    BY DEF Mode
  <2>3. ChannelOK(Mode(m, zeroes), <<>>, texts)
    BY <2>1, <2>2 DEF ChannelOK, Buffered
  <2> QED
    BY <2>3 DEF zeroes
<1>3. /\ UNCHANGED <<clip, texts, snarfed>> /\ text' = [text EXCEPT ![c] = <<>>]
      /\ \/ snarf' = [snarf EXCEPT ![c] = Mode("read", <<>>)]
         \/ \E m \in Buffered :
               snarf' = [snarf EXCEPT ![c] = Mode(m, [i \in 1 .. SnarfSize |-> Nul])]
  BY DEF SnarfOpen
<1>4. texts \subseteq texts' /\ texts' \subseteq Seq(Letter) /\ clip' \in texts' /\ snarfed' \in texts'
  BY <1>3 DEF SnarfInv, SnarfTypeOK, SnarfWhole
<1>5. texts' = texts
  BY <1>3
<1>6. PICK s : snarf' = [snarf EXCEPT ![c] = s] /\ ChannelOK(s, <<>>, texts)
  BY <1>1, <1>2, <1>3
<1> QED
  <2>1. snarf' = [snarf EXCEPT ![c] = s]
    BY <1>6
  <2>2. text' = [text EXCEPT ![c] = <<>>]
    BY <1>3
  <2>3. ChannelOK(s, <<>>, texts')
    BY <1>5, <1>6
  <2> QED
    BY <1>4, <2>1, <2>2, <2>3, SnarfOne, ZenonT(60)

LEMMA SnarfReads == ASSUME SnarfInv, NEW c \in SnarfChan, SnarfRead(c) PROVE SnarfInv'
<1> DEFINE o == snarf[c].offset
           a == Copy(c)
           sofar == IF o = 0 THEN <<>> ELSE text[c]
<1>c. ChannelOK(snarf[c], text[c], texts)
  BY SnarfChannels
<1>1. o \in Nat /\ snarf[c] \in SnarfRecord /\ text[c] \in Seq(Letter) /\ snarf[c].mode = "read"
  BY <1>c DEF ChannelOK, SnarfRecord, SnarfRead
<1>2. a \in texts /\ a \in Seq(Letter)
  BY <1>c, <1>1 DEF ChannelOK, Copy, Clipread, SnarfInv, SnarfTypeOK, SnarfWhole
<1>3. sofar \in Seq(Letter) /\ Len(sofar) = o /\ o <= Len(a) /\ \A i \in 1 .. o : sofar[i] = a[i]
  <2>1. CASE o = 0
    BY <1>2, <2>1
  <2>2. CASE o # 0
    BY <1>c, <1>1, <2>2 DEF ChannelOK, Copy
  <2> QED
    BY <2>1, <2>2
<1>4. /\ snarf' = [snarf EXCEPT ![c].aux = a, ![c].offset = IF o < Len(a) THEN o + 1 ELSE 0]
      /\ text' = [text EXCEPT ![c] = IF o < Len(a) THEN Append(sofar, a[o + 1]) ELSE <<>>]
      /\ snarfed' = IF o < Len(a) THEN snarfed ELSE sofar
      /\ UNCHANGED <<clip, texts>>
  BY DEF SnarfRead
<1>5. snarf \in [SnarfChan -> SnarfRecord]
  BY DEF SnarfInv, SnarfTypeOK
<1>6. snarfed \in texts /\ clip \in texts /\ texts \subseteq Seq(Letter)
  BY DEF SnarfInv, SnarfTypeOK, SnarfWhole
<1>7. a \in Seq(Letter \cup {Nul})
  BY <1>2
<1> HIDE DEF o, a, sofar
<1>8. CASE o < Len(a)
  <2> DEFINE s == [snarf[c] EXCEPT !.aux = a, !.offset = o + 1]
             t == Append(sofar, a[o + 1])
  <2>1. snarf' = [snarf EXCEPT ![c] = s] /\ text' = [text EXCEPT ![c] = t] /\ snarfed' = snarfed
    BY <1>4, <1>5, <1>8
  <2>2. s \in SnarfRecord /\ s.mode = "read" /\ s.offset = o + 1 /\ s.aux = a
    <3>n. o + 1 \in Nat
      BY <1>1
    <3> DEFINE r == snarf[c]
               n == o + 1
    <3>r. r \in SnarfRecord /\ n \in Nat /\ a \in Seq(Letter \cup {Nul})
      BY <1>1, <1>7, <3>n
    <3> HIDE DEF r, n
    <3> DEFINE m == r.mode
               y == r.offset
               e == [r EXCEPT !.aux = a]
    <3>1. r = [mode |-> m, aux |-> r.aux, offset |-> y] /\ m \in {"closed", "read"} \cup Buffered
      BY <3>r DEF SnarfRecord
    <3> HIDE DEF m, y
    <3>2. e = [mode |-> m, aux |-> a, offset |-> y]
      BY <3>1
    <3>3. s = [e EXCEPT !.offset = n]
      BY DEF r, n
    <3> HIDE DEF e, s
    <3>4. s = [mode |-> m, aux |-> a, offset |-> n]
      BY <3>2, <3>3
    <3>5. s \in SnarfRecord
      BY <3>r, <3>1, <3>4 DEF SnarfRecord
    <3> QED
      BY <1>1, <3>4, <3>5 DEF r, n, m
  <2>3. o + 1 \in 1 .. Len(a) /\ a[o + 1] \in Letter
    BY <1>1, <1>2, <1>8
  <2>4. t \in Seq(Letter) /\ Len(t) = o + 1
    BY <1>1, <1>3, <2>3
  <2>5. \A i \in 1 .. o + 1 : t[i] = a[i]
    BY <1>1, <1>3, <2>3
  <2> HIDE DEF s, t
  <2>6. ChannelOK(s, t, texts)
    BY <1>1, <1>2, <2>2, <2>3, <2>4, <2>5 DEF ChannelOK, Buffered
  <2>7. texts \subseteq texts' /\ texts' \subseteq Seq(Letter) /\ clip' \in texts' /\ snarfed' \in texts'
        /\ texts' = texts
    BY <1>4, <1>6, <2>1
  <2> QED
    BY <2>1, <2>6, <2>7, SnarfOne
<1>9. CASE ~(o < Len(a))
  <2> DEFINE s == [snarf[c] EXCEPT !.aux = a, !.offset = 0]
  <2>1. snarf' = [snarf EXCEPT ![c] = s] /\ text' = [text EXCEPT ![c] = <<>>] /\ snarfed' = sofar
    BY <1>4, <1>5, <1>9
  <2>2. s \in SnarfRecord /\ s.mode = "read" /\ s.offset = 0
    BY <1>1, <1>7 DEF SnarfRecord
  <2>3. sofar = a
    <3>1. Len(a) = o /\ Len(a) \in Nat
      BY <1>1, <1>2, <1>3, <1>9
    <3> QED
      BY <1>2, <1>3, <3>1, SeqEqual
  <2> HIDE DEF s
  <2>4. ChannelOK(s, <<>>, texts)
    BY <2>2 DEF ChannelOK, Buffered
  <2>5. texts \subseteq texts' /\ texts' \subseteq Seq(Letter) /\ clip' \in texts' /\ snarfed' \in texts'
        /\ texts' = texts
    BY <1>2, <1>4, <1>6, <2>1, <2>3
  <2> QED
    BY <2>1, <2>4, <2>5, SnarfOne
<1> QED
  BY <1>8, <1>9

LEMMA SnarfWrites ==
    ASSUME SnarfInv, NEW c \in SnarfChan, NEW x \in Letter, SnarfWrite(c, x) PROVE SnarfInv'
<1> DEFINE o == snarf[c].offset
           b == snarf[c].aux
           t == Append(text[c], x)
           nb == [b EXCEPT ![o + 1] = x]
           s == [snarf[c] EXCEPT !.aux = nb, !.offset = o + 1]
<1>c. ChannelOK(snarf[c], text[c], texts)
  BY SnarfChannels
<1>0. snarf[c].mode \in Buffered /\ o + 1 < SnarfSize
  BY DEF SnarfWrite
<1>1. o \in Nat /\ b \in Seq(Letter \cup {Nul}) /\ text[c] \in Seq(Letter) /\ Len(text[c]) = o
      /\ snarf[c] \in SnarfRecord /\ SnarfSize \in Nat
  BY <1>c, SnarfAssumption DEF ChannelOK, SnarfRecord
<1>2. WrittenTo(b, o, text[c])
  BY <1>0, <1>c DEF ChannelOK
<1>3. snarf \in [SnarfChan -> SnarfRecord] /\ texts \subseteq Seq(Letter) /\ clip \in texts /\ snarfed \in texts
  BY DEF SnarfInv, SnarfTypeOK, SnarfWhole
<1>4. snarf' = [snarf EXCEPT ![c] = s] /\ text' = [text EXCEPT ![c] = t] /\ UNCHANGED <<clip, texts, snarfed>>
  <2>1. snarf' = [snarf EXCEPT ![c].aux[snarf[c].offset + 1] = x, ![c].offset = @ + 1]
    BY DEF SnarfWrite
  <2>2. snarf' = [snarf EXCEPT ![c] = s]
    BY <1>3, <2>1
  <2> QED
    BY <2>2 DEF SnarfWrite
<1>5. Len(b) = SnarfSize /\ o + 1 \in 1 .. Len(b)
  BY <1>0, <1>1, <1>2 DEF WrittenTo
<1>6. /\ nb \in Seq(Letter \cup {Nul}) /\ Len(nb) = SnarfSize
      /\ \A j \in 1 .. SnarfSize : nb[j] = IF j = o + 1 THEN x ELSE b[j]
  <2>1. x \in Letter \cup {Nul}
    OBVIOUS
  <2> QED
    BY <1>1, <1>5, <2>1, ExceptSeq
<1>7. t \in Seq(Letter) /\ Len(t) = o + 1 /\ \A j \in 1 .. o : t[j] = text[c][j]
  BY <1>1
<1>8. t[o + 1] = x
  BY <1>1
<1> HIDE DEF nb, t
<1>9. WrittenTo(nb, o + 1, t)
  <2>1. \A j \in 1 .. SnarfSize : b[j] = IF j <= o THEN text[c][j] ELSE Nul
    BY <1>2 DEF WrittenTo
  <2>2. ASSUME NEW j \in 1 .. SnarfSize PROVE nb[j] = IF j <= o + 1 THEN t[j] ELSE Nul
    <3>1. CASE j = o + 1
      BY <1>1, <1>6, <1>8, <3>1
    <3>2. CASE j # o + 1 /\ j <= o
      BY <1>1, <1>6, <1>7, <2>1, <3>2, SMTT(60)
    <3>3. CASE j # o + 1 /\ ~(j <= o)
      BY <1>1, <1>6, <2>1, <3>3
    <3> QED
      BY <3>1, <3>2, <3>3
  <2> QED
    BY <1>0, <1>6, <2>2 DEF WrittenTo
<1>10. s \in SnarfRecord /\ s.mode \in Buffered /\ s.offset = o + 1 /\ s.aux = nb
  <2>1. o + 1 \in Nat
    BY <1>1
  <2> QED
    <3> DEFINE r == snarf[c]
               n == o + 1
    <3>r. r \in SnarfRecord /\ n \in Nat /\ nb \in Seq(Letter \cup {Nul})
      BY <1>1, <1>6, <2>1
    <3> HIDE DEF r, n
    <3> DEFINE m == r.mode
               y == r.offset
               e == [r EXCEPT !.aux = nb]
    <3>1. r = [mode |-> m, aux |-> r.aux, offset |-> y] /\ m \in {"closed", "read"} \cup Buffered
      BY <3>r DEF SnarfRecord
    <3> HIDE DEF m, y
    <3>2. e = [mode |-> m, aux |-> nb, offset |-> y]
      BY <3>1
    <3>3. s = [e EXCEPT !.offset = n]
      BY DEF r, n
    <3> HIDE DEF e, s
    <3>4. s = [mode |-> m, aux |-> nb, offset |-> n]
      BY <3>2, <3>3
    <3>5. s \in SnarfRecord
      BY <3>r, <3>1, <3>4 DEF SnarfRecord
    <3> QED
      BY <1>0, <3>4, <3>5 DEF r, n, m
<1> HIDE DEF s
<1>11. ChannelOK(s, t, texts)
  BY <1>7, <1>9, <1>10 DEF ChannelOK, Buffered
<1>12. texts \subseteq texts' /\ texts' \subseteq Seq(Letter) /\ clip' \in texts' /\ snarfed' \in texts'
       /\ texts' = texts
  BY <1>3, <1>4
<1> QED
  BY <1>4, <1>11, <1>12, SnarfOne

LEMMA SnarfCloses == ASSUME SnarfInv, NEW c \in SnarfChan, SnarfClose(c) PROVE SnarfInv'
<1>c. ChannelOK(snarf[c], text[c], texts)
  BY SnarfChannels
<1>1. /\ snarf' = [snarf EXCEPT ![c] = Mode("closed", <<>>)] /\ text' = [text EXCEPT ![c] = <<>>]
      /\ snarfed' = snarfed
  BY DEF SnarfClose
<1>2. texts \subseteq Seq(Letter) /\ clip \in texts /\ snarfed \in texts
  BY DEF SnarfInv, SnarfTypeOK, SnarfWhole
<1>3. CASE snarf[c].mode = "write" /\ clip' = UpToNul(snarf[c].aux) /\ texts' = texts \cup {text[c]}
  <2>1. WrittenTo(snarf[c].aux, snarf[c].offset, text[c]) /\ text[c] \in Seq(Letter)
        /\ snarf[c].aux \in Seq(Letter \cup {Nul}) /\ snarf[c].offset \in Nat
        /\ Len(text[c]) = snarf[c].offset
    BY <1>c, <1>3 DEF ChannelOK, SnarfRecord, Buffered
  <2>2. clip' = text[c]
    BY <1>3, <2>1, WrittenUpTo
  <2>3. texts \subseteq texts' /\ texts' \subseteq Seq(Letter) /\ clip' \in texts' /\ snarfed' \in texts'
    BY <1>1, <1>2, <1>3, <2>1, <2>2
  <2> QED
    BY <1>1, <2>3, ClosedOK, SnarfOne
<1>4. CASE UNCHANGED <<clip, texts>>
  <2>1. texts \subseteq texts' /\ texts' \subseteq Seq(Letter) /\ clip' \in texts' /\ snarfed' \in texts'
    BY <1>1, <1>2, <1>4
  <2> QED
    BY <1>1, <2>1, ClosedOK, SnarfOne
<1> QED
  BY <1>3, <1>4 DEF SnarfClose

LEMMA SnarfHost == ASSUME SnarfInv, HostClips PROVE SnarfInv'
<1>1. UNCHANGED <<snarf, text, snarfed>>
  BY DEF HostClips
<1>2. texts \subseteq texts' /\ texts' \subseteq Seq(Letter) /\ clip' \in texts' /\ snarfed' \in texts'
  <2>1. \A t \in Text : t \in Seq(Letter)
    BY SnarfAssumption DEF Text, BoundedSeq, SeqOf
  <2> QED
    BY <1>1, <2>1 DEF HostClips, SnarfInv, SnarfTypeOK, SnarfWhole
<1>3. \A c \in SnarfChan : ChannelOK(snarf[c], text[c], texts)
  BY SnarfChannels
<1>4. \A c \in SnarfChan : ChannelOK(snarf[c], text[c], texts')
  BY <1>2, <1>3 DEF ChannelOK
<1>5. SnarfTypeOK'
  BY <1>1, <1>2 DEF SnarfInv, SnarfTypeOK
<1>6. SnarfCopies'
  BY <1>1, <1>4 DEF SnarfCopies, ChannelOK, ReadFrom
<1> QED
  BY <1>2, <1>5, <1>6 DEF SnarfInv, SnarfWhole

LEMMA SnarfStep == SnarfInv /\ [SnarfNext]_snarfVars => SnarfInv'
<1>1. ASSUME SnarfInv, UNCHANGED snarfVars PROVE SnarfInv'
  BY <1>1 DEF snarfVars, SnarfInv, SnarfTypeOK, SnarfCopies, ReadFrom, SnarfWhole
<1> QED
  BY <1>1, SnarfHost, SnarfOpens, SnarfReads, SnarfWrites, SnarfCloses DEF SnarfNext

-----------------------------------------------------------------------------
(***************************************************************************)
(* /dev/cons.  Keys are numbered as they are typed, so whatever was taken  *)
(* from kbdq is older than what is in it; the line under way has no raw    *)
(* key in it, and its keys are in order.                                   *)
(***************************************************************************)
ConsKeys == [n : Nat, kind : Kind \cup {"raw"}]

ConsTypeOK ==
    /\ typed \in Nat /\ kbdq \in Seq([n : Nat, kind : Kind])
    /\ {line, lineq, got} \subseteq Seq(ConsKeys)
    /\ used \subseteq ConsKeys /\ erased \subseteq ConsKeys
    /\ raw \in BOOLEAN

KeysTaken == RangeOf(line) \cup RangeOf(got) \cup RangeOf(lineq) \cup erased

KbdqOrder ==
    /\ \A i \in DOMAIN kbdq : kbdq[i].n <= typed
    /\ \A i, j \in DOMAIN kbdq : i < j => kbdq[i].n < kbdq[j].n

TakenOlder == \A k \in KeysTaken : k.n <= typed /\ \A i \in DOMAIN kbdq : k.n < kbdq[i].n

InOrder(s) ==
    \A i, j \in DOMAIN s : i < j /\ (s[i].kind = "raw" <=> s[j].kind = "raw") => s[i].n < s[j].n

LineEdited == InOrder(line) /\ \A k \in RangeOf(line) : k.kind # "raw"

ConsEdits == ConsTypeOK /\ KbdqOrder /\ TakenOlder /\ LineEdited /\ KeysKept /\ KeysInOrder /\ LinesWhole

\* Who holds consctl open: ctl counts them.
CtlHolders == {p \in ConsProc : proc[p].ctl}

ConsProcs ==
    /\ proc \in [ConsProc -> [at : {"user", "editing", "closing"}, ctl : BOOLEAN]]
    /\ \A p, q \in ConsProc : proc[p].at = "editing" /\ proc[q].at = "editing" => p = q
    /\ IsFiniteSet(CtlHolders) /\ ctl = Cardinality(CtlHolders)
    /\ NothingLeftBehind

ConsInv == ConsEdits /\ ConsProcs

\* The elements of sequences that are put together and taken apart.
LEMMA RangeFacts ==
    ASSUME NEW S, NEW s \in Seq(S)
    PROVE  /\ RangeOf(s) \subseteq S /\ RangeOf(<<>>) = {}
           /\ \A x \in S : RangeOf(Append(s, x)) = RangeOf(s) \cup {x} /\ RangeOf(<<x>>) = {x}
           /\ \A t \in Seq(S) : RangeOf(s \o t) = RangeOf(s) \cup RangeOf(t)
           /\ s # <<>> => RangeOf(SubSeq(s, 1, Len(s) - 1)) \subseteq RangeOf(s)
<1>1. RangeOf(s) \subseteq S /\ RangeOf(<<>>) = {}
  BY DEF RangeOf
<1>2. ASSUME NEW x \in S PROVE RangeOf(Append(s, x)) = RangeOf(s) \cup {x} /\ RangeOf(<<x>>) = {x}
  <2>1. /\ DOMAIN Append(s, x) = 1 .. Len(s) + 1 /\ Append(s, x)[Len(s) + 1] = x
        /\ \A i \in 1 .. Len(s) : Append(s, x)[i] = s[i]
        /\ DOMAIN s = 1 .. Len(s) /\ Len(s) \in Nat
    OBVIOUS
  <2>2. \A i \in 1 .. Len(s) + 1 : i = Len(s) + 1 \/ i \in 1 .. Len(s)
    BY <2>1
  <2>3. RangeOf(Append(s, x)) \subseteq RangeOf(s) \cup {x}
    BY <2>1, <2>2 DEF RangeOf
  <2>4. Len(s) + 1 \in 1 .. Len(s) + 1 /\ \A i \in 1 .. Len(s) : i \in 1 .. Len(s) + 1
    BY <2>1
  <2>5. RangeOf(s) \cup {x} \subseteq RangeOf(Append(s, x))
    BY <2>1, <2>4 DEF RangeOf
  <2>6. RangeOf(<<x>>) = {x}
    BY DEF RangeOf
  <2> QED
    BY <2>3, <2>5, <2>6
<1>3. ASSUME NEW t \in Seq(S) PROVE RangeOf(s \o t) = RangeOf(s) \cup RangeOf(t)
  <2>1. /\ DOMAIN (s \o t) = 1 .. Len(s) + Len(t) /\ Len(s) \in Nat /\ Len(t) \in Nat
        /\ DOMAIN s = 1 .. Len(s) /\ DOMAIN t = 1 .. Len(t)
        /\ \A i \in 1 .. Len(s) + Len(t) : (s \o t)[i] = IF i <= Len(s) THEN s[i] ELSE t[i - Len(s)]
    BY ConcatProperties
  <2>2. \A i \in 1 .. Len(s) + Len(t) : i \in 1 .. Len(s) \/ (~(i <= Len(s)) /\ i - Len(s) \in 1 .. Len(t))
    BY <2>1
  <2>3. RangeOf(s \o t) \subseteq RangeOf(s) \cup RangeOf(t)
    BY <2>1, <2>2 DEF RangeOf
  <2>4. \A i \in 1 .. Len(s) : i \in 1 .. Len(s) + Len(t) /\ i <= Len(s)
    BY <2>1
  <2>5. \A i \in 1 .. Len(t) : /\ i + Len(s) \in 1 .. Len(s) + Len(t) /\ ~(i + Len(s) <= Len(s))
                               /\ (i + Len(s)) - Len(s) = i
    BY <2>1
  <2>6. \A i \in 1 .. Len(t) : (s \o t)[i + Len(s)] = t[i]
    BY <2>1, <2>5
  <2>7. RangeOf(s) \subseteq RangeOf(s \o t)
    BY <2>1, <2>4 DEF RangeOf
  <2>8. RangeOf(t) \subseteq RangeOf(s \o t)
    BY <2>1, <2>5, <2>6 DEF RangeOf
  <2> QED
    BY <2>3, <2>7, <2>8
<1>4. ASSUME s # <<>> PROVE RangeOf(SubSeq(s, 1, Len(s) - 1)) \subseteq RangeOf(s)
  <2>1. /\ DOMAIN SubSeq(s, 1, Len(s) - 1) = 1 .. Len(s) - 1 /\ Len(s) \in Nat
        /\ \A i \in 1 .. Len(s) - 1 : SubSeq(s, 1, Len(s) - 1)[i] = s[i] /\ i \in DOMAIN s
    BY <1>4
  <2> QED
    BY <2>1 DEF RangeOf
<1> QED
  BY <1>1, <1>2, <1>3, <1>4

\* What is put after a sequence in order must be younger, kind by kind.
LEMMA OrderConcat ==
    ASSUME NEW s \in Seq(ConsKeys), NEW t \in Seq(ConsKeys), InOrder(s), InOrder(t),
           \A k \in RangeOf(s), l \in RangeOf(t) : (k.kind = "raw" <=> l.kind = "raw") => k.n < l.n
    PROVE  InOrder(s \o t)
<1>1. /\ DOMAIN (s \o t) = 1 .. Len(s) + Len(t) /\ Len(s) \in Nat /\ Len(t) \in Nat
      /\ DOMAIN s = 1 .. Len(s) /\ DOMAIN t = 1 .. Len(t)
      /\ \A i \in 1 .. Len(s) + Len(t) : (s \o t)[i] = IF i <= Len(s) THEN s[i] ELSE t[i - Len(s)]
  BY ConcatProperties
<1> SUFFICES ASSUME NEW i \in 1 .. Len(s) + Len(t), NEW j \in 1 .. Len(s) + Len(t), i < j,
                    (s \o t)[i].kind = "raw" <=> (s \o t)[j].kind = "raw"
             PROVE  (s \o t)[i].n < (s \o t)[j].n
  BY <1>1 DEF InOrder
<1>2. CASE j <= Len(s)
  <2>1. i <= Len(s) /\ i \in DOMAIN s /\ j \in DOMAIN s
    BY <1>1, <1>2
  <2>2. (s \o t)[i] = s[i] /\ (s \o t)[j] = s[j]
    BY <1>1, <1>2, <2>1
  <2> QED
    BY <2>1, <2>2 DEF InOrder
<1>3. CASE ~(j <= Len(s)) /\ i <= Len(s)
  <2>1. i \in DOMAIN s /\ j - Len(s) \in DOMAIN t
    BY <1>1, <1>3
  <2>2. (s \o t)[i] = s[i] /\ (s \o t)[j] = t[j - Len(s)]
    BY <1>1, <1>3
  <2>3. s[i] \in RangeOf(s) /\ t[j - Len(s)] \in RangeOf(t)
    BY <2>1 DEF RangeOf
  <2> QED
    BY <2>2, <2>3
<1>4. CASE ~(i <= Len(s))
  <2>1. i - Len(s) \in DOMAIN t /\ j - Len(s) \in DOMAIN t /\ i - Len(s) < j - Len(s)
        /\ ~(j <= Len(s))
    BY <1>1, <1>4
  <2>2. (s \o t)[i] = t[i - Len(s)] /\ (s \o t)[j] = t[j - Len(s)]
    BY <1>1, <1>4, <2>1
  <2> QED
    BY <2>1, <2>2 DEF InOrder
<1> QED
  BY <1>2, <1>3, <1>4

LEMMA OrderSmall == InOrder(<<>>) /\ \A k \in ConsKeys : InOrder(<<k>>)
BY DEF InOrder

\* The key at the head of kbdq is younger than all that was taken from it, and
\* older than the rest.
LEMMA HeadKey ==
    ASSUME ConsEdits, kbdq # <<>>, kbdq' = Tail(kbdq), typed' = typed,
           NEW k \in ConsKeys, k.n = Head(kbdq).n, KeysTaken' \subseteq KeysTaken \cup {k}
    PROVE  /\ \A h \in KeysTaken : h.n < k.n
           /\ k \notin KeysTaken
           /\ KbdqOrder' /\ TakenOlder' /\ kbdq' \in Seq([n : Nat, kind : Kind])
<1>1. /\ kbdq \in Seq([n : Nat, kind : Kind]) /\ Len(kbdq) \in Nat /\ Len(kbdq) # 0
      /\ DOMAIN kbdq = 1 .. Len(kbdq) /\ typed \in Nat
      /\ 1 \in DOMAIN kbdq /\ kbdq[1] = Head(kbdq)
  BY DEF ConsEdits, ConsTypeOK
<1>2. /\ kbdq' \in Seq([n : Nat, kind : Kind]) /\ Len(kbdq') = Len(kbdq) - 1
      /\ DOMAIN kbdq' = 1 .. Len(kbdq) - 1
      /\ \A i \in 1 .. Len(kbdq) - 1 : kbdq'[i] = kbdq[i + 1] /\ i + 1 \in DOMAIN kbdq
                                       /\ 1 < i + 1
  BY <1>1
<1>3. KeysTaken \subseteq ConsKeys
  BY RangeFacts DEF ConsEdits, ConsTypeOK, KeysTaken
<1>4. \A h \in KeysTaken : h.n < k.n
  BY <1>1 DEF ConsEdits, TakenOlder
<1>5. k \notin KeysTaken
  BY <1>4 DEF ConsKeys
<1>6. \A i \in DOMAIN kbdq' : k.n < kbdq'[i].n
  BY <1>1, <1>2 DEF ConsEdits, KbdqOrder
<1>7. k.n <= typed
  BY <1>1 DEF ConsEdits, KbdqOrder
<1>8. TakenOlder'
  BY <1>2, <1>6, <1>7 DEF ConsEdits, TakenOlder
<1>9. KbdqOrder'
  <2>1. ASSUME NEW i \in DOMAIN kbdq', NEW j \in DOMAIN kbdq', i < j PROVE kbdq'[i].n < kbdq'[j].n
    <3>1. /\ i + 1 \in DOMAIN kbdq /\ j + 1 \in DOMAIN kbdq /\ i + 1 < j + 1
          /\ kbdq'[i] = kbdq[i + 1] /\ kbdq'[j] = kbdq[j + 1]
      BY <1>1, <1>2, <2>1
    <3> QED
      BY <3>1 DEF ConsEdits, KbdqOrder
  <2>2. ASSUME NEW i \in DOMAIN kbdq' PROVE kbdq'[i].n <= typed'
    <3>1. i + 1 \in DOMAIN kbdq /\ kbdq'[i] = kbdq[i + 1]
      BY <1>1, <1>2
    <3> QED
      BY <3>1 DEF ConsEdits, KbdqOrder
  <2> QED
    BY <2>1, <2>2 DEF KbdqOrder
<1> QED
  BY <1>2, <1>4, <1>5, <1>8, <1>9

\* A key that is edited or passed on while nothing is in lineq: what the line
\* and lineq become decides the rest.
LEMMA KeyGoes ==
    ASSUME ConsEdits, lineq = <<>>, kbdq # <<>>, kbdq' = Tail(kbdq), UNCHANGED <<typed, got, raw>>,
           NEW k \in ConsKeys, k.n = Head(kbdq).n,
           line' \in Seq(ConsKeys), lineq' \in Seq(ConsKeys), erased' \subseteq ConsKeys,
           used' \subseteq ConsKeys,
           RangeOf(line') \cup RangeOf(lineq') \subseteq RangeOf(line) \cup {k},
           erased \subseteq erased', erased' \subseteq erased \cup RangeOf(line),
           used' = RangeOf(line') \cup (RangeOf(got) \cup RangeOf(lineq')) \cup erased',
           RangeOf(line') \cap RangeOf(lineq') = {},
           erased' \cap (RangeOf(line') \cup RangeOf(lineq')) = {},
           InOrder(line'), \A l \in RangeOf(line') : l.kind # "raw",
           InOrder(lineq'),
           \A p \in RangeOf(lineq'), l \in RangeOf(line') : p.kind = "raw" \/ p.n < l.n,
           eof' => line' = <<>> /\ lineq' = <<>>
    PROVE  ConsEdits'
<1>t. /\ {line, lineq, got} \subseteq Seq(ConsKeys) /\ RangeOf(lineq) = {}
      /\ RangeOf(line) \subseteq ConsKeys /\ RangeOf(got) \subseteq ConsKeys
  BY RangeFacts DEF ConsEdits, ConsTypeOK
<1>1. KeysTaken' \subseteq KeysTaken \cup {k}
  BY <1>t DEF KeysTaken
<1>2. /\ \A h \in KeysTaken : h.n < k.n
      /\ k \notin KeysTaken
      /\ KbdqOrder' /\ TakenOlder' /\ kbdq' \in Seq([n : Nat, kind : Kind])
  BY <1>1, HeadKey
<1>3. ConsTypeOK'
  BY <1>2 DEF ConsEdits, ConsTypeOK
<1>4. LineEdited'
  BY DEF LineEdited
<1>5. RangeOf(line) \cap RangeOf(got) = {} /\ erased \cap RangeOf(got) = {}
  BY <1>t DEF ConsEdits, KeysKept
<1>6. k \notin RangeOf(got)
  BY <1>2 DEF KeysTaken
<1>7. KeysKept'
  <2>1. RangeOf(line') \cap RangeOf(got) = {} /\ erased' \cap RangeOf(got) = {}
    BY <1>5, <1>6
  <2> QED
    BY <2>1 DEF KeysKept
<1>8. \A g \in RangeOf(got), l \in RangeOf(line) \cup {k} : g.kind = "raw" \/ g.n < l.n
  <2>1. \A g \in RangeOf(got), l \in RangeOf(line) : g.kind = "raw" \/ g.n < l.n
    BY DEF ConsEdits, LinesWhole
  <2>2. \A g \in RangeOf(got) : g.n < k.n
    BY <1>2 DEF KeysTaken
  <2> QED
    BY <2>1, <2>2
<1>9. LinesWhole'
  BY <1>8 DEF LinesWhole
<1>10. KeysInOrder'
  <2>1. InOrder(got)
    <3>1. got \o lineq = got
      BY <1>t, ConcatEmptySeq
    <3> QED
      BY <3>1 DEF ConsEdits, KeysInOrder, InOrder
  <2>2. \A g \in RangeOf(got), l \in RangeOf(lineq') : (g.kind = "raw" <=> l.kind = "raw") => g.n < l.n
    <3> SUFFICES ASSUME NEW g \in RangeOf(got), NEW l \in RangeOf(lineq'),
                        g.kind = "raw" <=> l.kind = "raw"
                 PROVE  g.n < l.n
      OBVIOUS
    <3>1. CASE l = k
      BY <3>1, <1>2 DEF KeysTaken
    <3>2. CASE l # k
      <4>1. l \in RangeOf(line)
        BY <3>2
      <4>2. l.kind # "raw"
        BY <4>1 DEF ConsEdits, LineEdited
      <4> QED
        BY <4>1, <4>2, <1>8
    <3> QED
      BY <3>1, <3>2
  <2>3. InOrder(got \o lineq')
    BY <1>t, <2>1, <2>2, OrderConcat
  <2> QED
    BY <2>3 DEF KeysInOrder, InOrder
<1> QED
  BY <1>2, <1>3, <1>4, <1>7, <1>9, <1>10 DEF ConsEdits

LEMMA ConsKeyed == ASSUME ConsEdits, NEW p \in ConsProc, ConsKey(p) PROVE ConsEdits'
<1> DEFINE k == [Head(kbdq) EXCEPT !.kind = IF raw THEN "raw" ELSE @]
<1>t. /\ kbdq # <<>> /\ kbdq' = Tail(kbdq) /\ lineq = <<>> /\ UNCHANGED <<typed, got, raw>>
      /\ eof' = (k.kind = "eot" /\ line = <<>>)
      /\ line \in Seq(ConsKeys) /\ got \in Seq(ConsKeys) /\ erased \subseteq ConsKeys
      /\ used \subseteq ConsKeys /\ raw \in BOOLEAN
  BY DEF ConsKey, Qcanread, ConsEdits, ConsTypeOK
<1>h. Head(kbdq) \in [n : Nat, kind : Kind]
  <2>1. kbdq \in Seq([n : Nat, kind : Kind])
    BY DEF ConsEdits, ConsTypeOK
  <2> QED
    BY <1>t, <2>1, HeadTailProperties
<1>k. k \in ConsKeys /\ k.n = Head(kbdq).n /\ (k.kind = "raw" <=> raw)
  BY <1>h, <1>t DEF ConsKeys, Kind
<1>u. /\ used' = used \cup (IF k.kind \in {"erase", "kill", "eot"} THEN {} ELSE {k})
      /\ raw => lineq' = <<k>> /\ UNCHANGED <<line, erased>>
      /\ ~raw => Edit(k)
  BY DEF ConsKey
<1> HIDE DEF k
<1>r. /\ RangeOf(line) \subseteq ConsKeys /\ RangeOf(<<>>) = {} /\ RangeOf(<<k>>) = {k}
      /\ RangeOf(Append(line, k)) = RangeOf(line) \cup {k}
      /\ line # <<>> => RangeOf(SubSeq(line, 1, Len(line) - 1)) \subseteq RangeOf(line)
      /\ <<>> \in Seq(ConsKeys) /\ <<k>> \in Seq(ConsKeys) /\ Append(line, k) \in Seq(ConsKeys)
  BY <1>t, <1>k, RangeFacts
<1>o. /\ InOrder(line) /\ \A l \in RangeOf(line) : l.kind # "raw"
      /\ InOrder(<<>>) /\ InOrder(<<k>>)
  BY <1>k, OrderSmall DEF ConsEdits, LineEdited
<1>x. /\ used = RangeOf(line) \cup RangeOf(got) \cup erased
      /\ erased \cap (RangeOf(line) \cup RangeOf(got)) = {} /\ RangeOf(line) \cap RangeOf(got) = {}
  BY <1>t, <1>r DEF ConsEdits, KeysKept
<1>y. /\ \A h \in RangeOf(line) : h.n < k.n
      /\ k \notin RangeOf(line) /\ k \notin erased
  <2>1. \A h \in RangeOf(line) \cup erased : h.n < Head(kbdq).n
    <3>1. 1 \in DOMAIN kbdq /\ kbdq[1] = Head(kbdq)
      BY <1>t DEF ConsEdits, ConsTypeOK
    <3> QED
      BY <3>1 DEF ConsEdits, TakenOlder, KeysTaken
  <2> QED
    BY <1>k, <2>1 DEF ConsKeys
<1>1. CASE raw
  <2>1. ~eof'
    BY <1>1, <1>t, <1>k
  <2> QED
    BY <1>1, <2>1, <1>t, <1>k, <1>u, <1>r, <1>o, <1>x, <1>y, KeyGoes
<1>2. CASE ~raw /\ k.kind = "erase"
  <2>1. /\ line' = IF line = <<>> THEN line ELSE SubSeq(line, 1, Len(line) - 1)
        /\ erased' = erased \cup (RangeOf(line) \ RangeOf(line')) /\ lineq' = <<>>
        /\ used' = used
    BY <1>2, <1>t, <1>u DEF Edit
  <2>e. ~eof'
    BY <1>2, <1>t
  <2>2. line' \in Seq(ConsKeys) /\ InOrder(line')
    <3>1. CASE line = <<>>
      BY <3>1, <2>1, <1>t, <1>o
    <3>2. CASE line # <<>>
      <4>1. /\ DOMAIN line = 1 .. Len(line) /\ Len(line) \in Nat
            /\ line' \in Seq(ConsKeys) /\ DOMAIN line' = 1 .. Len(line) - 1
            /\ \A i \in 1 .. Len(line) - 1 : line'[i] = line[i] /\ i \in DOMAIN line
        BY <3>2, <2>1, <1>t
      <4> QED
        BY <4>1, <1>o DEF InOrder
    <3> QED
      BY <3>1, <3>2
  <2>3. RangeOf(line') \subseteq RangeOf(line)
    BY <2>1, <1>r
  <2>4. RangeOf(lineq') = {}
    BY <2>1, <1>r
  <2> QED
    BY <1>t, <1>k, <1>r, <1>o, <1>x, <2>1, <2>e, <2>2, <2>3, <2>4, KeyGoes
<1>3. CASE ~raw /\ k.kind = "kill"
  <2>1. line' = <<>> /\ erased' = erased \cup RangeOf(line) /\ lineq' = <<>> /\ used' = used
    BY <1>3, <1>t, <1>u DEF Edit
  <2>2. RangeOf(lineq') = {} /\ RangeOf(line') = {}
    BY <2>1, <1>r
  <2> QED
    BY <1>t, <1>k, <1>r, <1>o, <1>x, <2>1, <2>2, KeyGoes
<1>a. InOrder(Append(line, k))
  <2>1. Append(line, k) = line \o <<k>>
    BY <1>t, <1>k
  <2>2. InOrder(line \o <<k>>)
    BY <1>t, <1>r, <1>o, <1>y, OrderConcat
  <2> QED
    BY <2>1, <2>2
<1>4. CASE /\ ~raw /\ k.kind \notin {"erase", "kill"} /\ line' = Append(line, k) /\ UNCHANGED <<lineq, erased>>
           /\ k.kind # "eot"
  <2>1. used' = used \cup {k}
    BY <1>4, <1>u
  <2>2. RangeOf(lineq') = {} /\ RangeOf(line') = RangeOf(line) \cup {k}
    BY <1>4, <1>t, <1>r
  <2>3. \A l \in RangeOf(line') : l.kind # "raw"
    BY <1>4, <1>k, <1>o, <2>2
  <2>4. ~eof'
    BY <1>4, <1>t
  <2> QED
    BY <1>4, <1>a, <2>4, <1>t, <1>k, <1>r, <1>o, <1>x, <1>y, <2>1, <2>2, <2>3, KeyGoes, SMTT(60)
<1>5. CASE /\ ~raw /\ k.kind \notin {"erase", "kill"} /\ line' = <<>>
           /\ lineq' = lineq \o (IF k.kind = "eot" THEN line ELSE Append(line, k)) /\ UNCHANGED erased
  <2> DEFINE passed == IF k.kind = "eot" THEN line ELSE Append(line, k)
  <2>1. passed \in Seq(ConsKeys) /\ InOrder(passed)
    BY <1>t, <1>r, <1>o, <1>a
  <2>2. RangeOf(passed) = IF k.kind = "eot" THEN RangeOf(line) ELSE RangeOf(line) \cup {k}
    BY <1>r
  <2>3. used' = used \cup (IF k.kind = "eot" THEN {} ELSE {k})
    BY <1>5, <1>u
  <2>4. lineq' = lineq \o passed
    BY <1>5
  <2> HIDE DEF passed
  <2>5. lineq' = passed
    BY <2>1, <2>4, <1>t, ConcatEmptySeq
  <2>7. eof' => line' = <<>> /\ lineq' = <<>>
    BY <1>5, <1>t, <2>5 DEF passed
  <2>6. RangeOf(line') = {}
    BY <1>5, <1>r
  <2> QED
    BY <1>5, <1>t, <1>k, <1>r, <1>o, <1>x, <1>y, <2>1, <2>2, <2>3, <2>5, <2>6, <2>7, KeyGoes, ZenonT(60)
<1> QED
  BY <1>1, <1>2, <1>3, <1>4, <1>5, <1>u DEF Edit, Rest

LEMMA ConsTyped == ASSUME ConsEdits, NEW x \in Kind, Kbdslave(x) PROVE ConsEdits'
<1> DEFINE k == [n |-> typed', kind |-> x]
<1>1. /\ typed' = typed + 1 /\ UNCHANGED <<lineq, eof, line, used, erased, got, raw>>
      /\ kbdq' = Append(kbdq, k) \/ kbdq' = kbdq
  BY DEF Kbdslave, editor
<1>2. /\ kbdq \in Seq([n : Nat, kind : Kind]) /\ Len(kbdq) \in Nat
      /\ DOMAIN kbdq = 1 .. Len(kbdq) /\ typed \in Nat
      /\ \A i \in DOMAIN kbdq : kbdq[i] \in [n : Nat, kind : Kind]
  <2>1. kbdq \in Seq([n : Nat, kind : Kind]) /\ typed \in Nat
    BY DEF ConsEdits, ConsTypeOK
  <2> QED
    BY <2>1, LenProperties, ElementOfSeq
<1>3. k \in [n : Nat, kind : Kind] /\ k.n = typed + 1
  BY <1>1, <1>2
<1> HIDE DEF k
<1>4. /\ kbdq' \in Seq([n : Nat, kind : Kind]) /\ DOMAIN kbdq' \subseteq 1 .. Len(kbdq) + 1
      /\ \A i \in DOMAIN kbdq' : \/ i \in DOMAIN kbdq /\ kbdq'[i] = kbdq[i]
                                 \/ i = Len(kbdq) + 1 /\ kbdq'[i] = k
  <2>1. CASE kbdq' = Append(kbdq, k)
    BY <2>1, <1>2, <1>3
  <2>2. CASE kbdq' = kbdq
    BY <2>2, <1>2
  <2> QED
    BY <2>1, <2>2, <1>1
<1>5. KbdqOrder'
  <2>1. ASSUME NEW i \in DOMAIN kbdq' PROVE kbdq'[i].n <= typed'
    BY <1>1, <1>2, <1>3, <1>4 DEF ConsEdits, KbdqOrder
  <2>2. ASSUME NEW i \in DOMAIN kbdq', NEW j \in DOMAIN kbdq', i < j PROVE kbdq'[i].n < kbdq'[j].n
    <3>0. i \in 1 .. Len(kbdq) + 1 /\ j \in 1 .. Len(kbdq) + 1
      BY <1>4
    <3>a. i # Len(kbdq) + 1
      BY <1>2, <2>2, <3>0
    <3>1. i \in DOMAIN kbdq /\ kbdq'[i] = kbdq[i]
      BY <1>4, <3>a
    <3>2. CASE j \in DOMAIN kbdq /\ kbdq'[j] = kbdq[j]
      BY <3>1, <3>2, <2>2 DEF ConsEdits, KbdqOrder
    <3>3. CASE kbdq'[j] = k
      BY <3>1, <3>3, <1>2, <1>3 DEF ConsEdits, KbdqOrder
    <3> QED
      BY <1>4, <3>2, <3>3
  <2> QED
    BY <2>1, <2>2 DEF KbdqOrder
<1>6. TakenOlder'
  <2>1. KeysTaken' = KeysTaken
    BY <1>1 DEF KeysTaken
  <2>2. \A h \in KeysTaken : h.n <= typed /\ \A i \in DOMAIN kbdq : h.n < kbdq[i].n
    BY DEF ConsEdits, TakenOlder
  <2>3. KeysTaken \subseteq ConsKeys
    BY RangeFacts DEF ConsEdits, ConsTypeOK, KeysTaken
  <2>4. \A h \in KeysTaken : h.n \in Nat
    BY <2>3 DEF ConsKeys
  <2>5. \A h \in KeysTaken : h.n <= typed + 1 /\ h.n < typed + 1
    BY <2>2, <2>4, <1>2
  <2>6. \A h \in KeysTaken : \A i \in DOMAIN kbdq' : h.n < kbdq'[i].n
    BY <2>2, <2>5, <1>3, <1>4
  <2> QED
    BY <1>1, <2>1, <2>5, <2>6 DEF TakenOlder
<1>7. ConsTypeOK'
  BY <1>1, <1>2, <1>4 DEF ConsEdits, ConsTypeOK
<1> QED
  BY <1>1, <1>5, <1>6, <1>7 DEF ConsEdits, LineEdited, InOrder, KeysKept, KeysInOrder, LinesWhole

LEMMA ConsReturned == ASSUME ConsEdits, NEW p \in ConsProc, ConsReturn(p) PROVE ConsEdits'
<1> DEFINE n == IF ReadSize < Len(lineq) THEN ReadSize ELSE Len(lineq)
           a == SubSeq(lineq, 1, n)
           b == SubSeq(lineq, n + 1, Len(lineq))
<1>1. /\ got' = got \o a /\ lineq' = b
      /\ UNCHANGED <<kbdq, typed, line, used, erased, raw>> /\ eof' = FALSE
  BY DEF ConsReturn, keys
<1>2. /\ lineq \in Seq(ConsKeys) /\ got \in Seq(ConsKeys) /\ Len(lineq) \in Nat
  BY DEF ConsEdits, ConsTypeOK
<1>3. n \in 0 .. Len(lineq)
  BY <1>2, ConsoleAssumption
<1> HIDE DEF n
<1>4. a \in Seq(ConsKeys) /\ b \in Seq(ConsKeys) /\ lineq = a \o b
  <2>1. /\ a \in Seq(ConsKeys) /\ Len(a) = n /\ \A i \in 1 .. n : a[i] = lineq[i]
        /\ b \in Seq(ConsKeys) /\ Len(b) = Len(lineq) - n
        /\ \A i \in 1 .. Len(lineq) - n : b[i] = lineq[i + n]
    <3>1. a \in Seq(ConsKeys) /\ Len(a) = n /\ \A i \in 1 .. n : a[i] = lineq[i]
      BY <1>2, <1>3
    <3>2. b \in Seq(ConsKeys) /\ Len(b) = Len(lineq) - n
      BY <1>2, <1>3
    <3>3. \A i \in 1 .. Len(lineq) - n : b[i] = lineq[i + n]
      BY <1>2, <1>3
    <3> QED
      BY <3>1, <3>2, <3>3
  <2> HIDE DEF a, b
  <2>2. /\ a \o b \in Seq(ConsKeys) /\ Len(a \o b) = Len(lineq)
        /\ \A i \in 1 .. Len(lineq) : (a \o b)[i] = IF i <= n THEN a[i] ELSE b[i - n]
    BY <2>1, <1>2, <1>3, ConcatProperties
  <2>3. \A i \in 1 .. Len(lineq) : (a \o b)[i] = lineq[i]
    <3> SUFFICES ASSUME NEW i \in 1 .. Len(lineq) PROVE (a \o b)[i] = lineq[i]
      OBVIOUS
    <3>1. CASE i <= n
      BY <3>1, <2>1, <2>2, <1>3
    <3>2. CASE ~(i <= n)
      <4>1. i - n \in 1 .. Len(lineq) - n /\ (i - n) + n = i
        BY <3>2, <1>2, <1>3
      <4> QED
        BY <4>1, <3>2, <2>1, <2>2
    <3> QED
      BY <3>1, <3>2
  <2> QED
    BY <2>1, <2>2, <2>3, <1>2, SeqEqual
<1> HIDE DEF a, b
<1>5. /\ RangeOf(lineq) = RangeOf(a) \cup RangeOf(b) /\ RangeOf(got \o a) = RangeOf(got) \cup RangeOf(a)
      /\ got \o a \in Seq(ConsKeys)
  BY <1>2, <1>4, RangeFacts, ConcatProperties
<1>6. RangeOf(got') \cup RangeOf(lineq') = RangeOf(got) \cup RangeOf(lineq)
  BY <1>1, <1>5
<1>7. got' \o lineq' = got \o lineq
  BY <1>1, <1>2, <1>4, ConcatAssociative
<1>8. ConsTypeOK'
  BY <1>1, <1>4, <1>5 DEF ConsEdits, ConsTypeOK
<1>9. KeysTaken' = KeysTaken
  BY <1>1, <1>6 DEF KeysTaken
<1>10. KbdqOrder' /\ TakenOlder' /\ LineEdited'
  BY <1>1, <1>9 DEF ConsEdits, KbdqOrder, TakenOlder, LineEdited, InOrder
<1>11. KeysKept'
  BY <1>1, <1>6 DEF ConsEdits, KeysKept
<1>12. KeysInOrder'
  BY <1>7 DEF ConsEdits, KeysInOrder
<1>13. LinesWhole'
  BY <1>1, <1>6 DEF ConsEdits, LinesWhole
<1> QED
  BY <1>8, <1>10, <1>11, <1>12, <1>13 DEF ConsEdits

\* The steps that leave the keys alone.
LEMMA ConsSame ==
    ASSUME ConsEdits, UNCHANGED <<kbdq, typed, lineq, eof, line, used, erased, got>>, raw' \in BOOLEAN
    PROVE  ConsEdits'
BY SMTT(60) DEF ConsEdits, ConsTypeOK, KbdqOrder, TakenOlder, KeysTaken, LineEdited, InOrder, KeysKept,
       KeysInOrder, LinesWhole

\* The steps that leave who has consctl open alone.
LEMMA ConsMoves ==
    ASSUME ConsProcs, NEW p \in ConsProc, NEW place \in {"user", "editing", "closing"},
           proc' = [proc EXCEPT ![p].at = place], UNCHANGED <<ctl, raw>>,
           proc[p].at # "closing",
           place = "editing" => consq = {} /\ consq' = {p},
           place # "editing" => place = "user" /\ proc[p].at = "editing" /\ consq' = {}
    PROVE  ConsProcs'
<1>1. /\ proc \in [ConsProc -> [at : {"user", "editing", "closing"}, ctl : BOOLEAN]]
      /\ \A q, r \in ConsProc : proc[q].at = "editing" /\ proc[r].at = "editing" => q = r
      /\ consq = {q \in ConsProc : proc[q].at = "editing"}
      /\ raw => ctl > 0 \/ \E q \in ConsProc : proc[q].at = "closing"
  BY DEF ConsProcs, NothingLeftBehind
<1>2. /\ proc' \in [ConsProc -> [at : {"user", "editing", "closing"}, ctl : BOOLEAN]]
      /\ proc'[p].at = place
      /\ \A q \in ConsProc : proc'[q].ctl = proc[q].ctl
      /\ \A q \in ConsProc : q # p => proc'[q] = proc[q]
  BY <1>1
<1>3. CtlHolders' = CtlHolders
  BY <1>2 DEF CtlHolders
<1>4. \A q, r \in ConsProc : proc'[q].at = "editing" /\ proc'[r].at = "editing" => q = r
  BY <1>1, <1>2
<1>5. consq' = {q \in ConsProc : proc'[q].at = "editing"}
  BY <1>1, <1>2
<1>6. raw' => ctl' > 0 \/ \E q \in ConsProc : proc'[q].at = "closing"
  BY <1>1, <1>2
<1> QED
  BY <1>2, <1>3, <1>4, <1>5, <1>6 DEF ConsProcs, NothingLeftBehind

LEMMA CtlOpens == ASSUME ConsProcs, NEW p \in ConsProc, ConsctlOpen(p) PROVE ConsProcs'
<1>1. /\ proc \in [ConsProc -> [at : {"user", "editing", "closing"}, ctl : BOOLEAN]]
      /\ proc[p].at = "user" /\ ~proc[p].ctl
      /\ proc' = [proc EXCEPT ![p].ctl = TRUE] /\ ctl' = ctl + 1 /\ UNCHANGED <<raw, consq>>
  BY DEF ConsProcs, ConsctlOpen, editor
<1>2. /\ proc' \in [ConsProc -> [at : {"user", "editing", "closing"}, ctl : BOOLEAN]]
      /\ proc'[p].ctl /\ \A q \in ConsProc : proc'[q].at = proc[q].at
      /\ \A q \in ConsProc : q # p => proc'[q] = proc[q]
  BY <1>1
<1>3. CtlHolders' = CtlHolders \cup {p} /\ p \notin CtlHolders
  BY <1>1, <1>2 DEF CtlHolders
<1>4. IsFiniteSet(CtlHolders) /\ ctl = Cardinality(CtlHolders)
  BY DEF ConsProcs
<1>5. IsFiniteSet(CtlHolders') /\ Cardinality(CtlHolders') = Cardinality(CtlHolders) + 1
  BY <1>3, <1>4, FS_AddElement
<1>6. ctl \in Nat
  BY <1>4, FS_CardinalityType
<1>7. ctl' = Cardinality(CtlHolders') /\ ctl' > 0
  BY <1>1, <1>4, <1>5, <1>6
<1>8. NothingLeftBehind'
  <2>1. consq' = {q \in ConsProc : proc'[q].at = "editing"}
    BY <1>1, <1>2 DEF ConsProcs, NothingLeftBehind
  <2> QED
    BY <1>7, <2>1 DEF NothingLeftBehind
<1>9. \A q, r \in ConsProc : proc'[q].at = "editing" /\ proc'[r].at = "editing" => q = r
  BY <1>2 DEF ConsProcs
<1> QED
  BY <1>2, <1>5, <1>7, <1>8, <1>9 DEF ConsProcs

LEMMA CtlWrites == ASSUME ConsProcs, NEW p \in ConsProc, ConsctlWrite(p) PROVE ConsProcs'
<1>1. UNCHANGED <<ctl, proc, consq>> /\ proc[p].ctl
  BY DEF ConsctlWrite, editor
<1>2. IsFiniteSet(CtlHolders) /\ ctl = Cardinality(CtlHolders) /\ p \in CtlHolders
  BY <1>1 DEF ConsProcs, CtlHolders
<1>3. ctl \in Nat /\ ctl # 0
  BY <1>2, FS_CardinalityType, FS_EmptySet
<1>4. NothingLeftBehind'
  BY <1>1, <1>3 DEF ConsProcs, NothingLeftBehind
<1>5. CtlHolders' = CtlHolders
  BY <1>1 DEF CtlHolders
<1> QED
  BY <1>1, <1>4, <1>5 DEF ConsProcs

LEMMA CtlCloses == ASSUME ConsProcs, NEW p \in ConsProc, ConsctlClose(p) PROVE ConsProcs'
<1> DEFINE place == IF ctl' = 0 THEN "closing" ELSE "user"
<1>1. /\ proc \in [ConsProc -> [at : {"user", "editing", "closing"}, ctl : BOOLEAN]]
      /\ proc[p].at = "user" /\ proc[p].ctl
      /\ proc' = [proc EXCEPT ![p] = [at |-> place, ctl |-> FALSE]] /\ ctl' = ctl - 1
      /\ UNCHANGED <<raw, consq>>
  BY DEF ConsProcs, ConsctlClose, editor
<1>2. place \in {"user", "closing"} /\ (place = "closing" <=> ctl' = 0)
  OBVIOUS
<1> HIDE DEF place
<1>3. /\ proc' \in [ConsProc -> [at : {"user", "editing", "closing"}, ctl : BOOLEAN]]
      /\ proc'[p].at = place /\ ~proc'[p].ctl
      /\ \A q \in ConsProc : q # p => proc'[q] = proc[q]
  BY <1>1, <1>2
<1>4. CtlHolders' = CtlHolders \ {p} /\ p \in CtlHolders
  BY <1>1, <1>3 DEF CtlHolders
<1>5. IsFiniteSet(CtlHolders) /\ ctl = Cardinality(CtlHolders)
  BY DEF ConsProcs
<1>6. IsFiniteSet(CtlHolders') /\ Cardinality(CtlHolders') = Cardinality(CtlHolders) - 1
  BY <1>4, <1>5, FS_RemoveElement
<1>7. ctl' = Cardinality(CtlHolders') /\ ctl' \in Nat
  BY <1>1, <1>5, <1>6, FS_CardinalityType
<1>8. consq' = {q \in ConsProc : proc'[q].at = "editing"}
  BY <1>1, <1>2, <1>3 DEF ConsProcs, NothingLeftBehind
<1>9. ctl' > 0 \/ proc'[p].at = "closing"
  BY <1>2, <1>3, <1>7
<1>10. NothingLeftBehind'
  BY <1>8, <1>9 DEF NothingLeftBehind
<1>11. \A q, r \in ConsProc : proc'[q].at = "editing" /\ proc'[r].at = "editing" => q = r
  BY <1>2, <1>3 DEF ConsProcs
<1> QED
  BY <1>3, <1>6, <1>7, <1>10, <1>11 DEF ConsProcs

LEMMA CtlCooks == ASSUME ConsProcs, NEW p \in ConsProc, ConsctlCooked(p) PROVE ConsProcs'
<1>1. /\ proc \in [ConsProc -> [at : {"user", "editing", "closing"}, ctl : BOOLEAN]]
      /\ proc[p].at = "closing"
      /\ proc' = [proc EXCEPT ![p].at = "user"] /\ raw' = FALSE /\ UNCHANGED <<ctl, consq>>
  BY DEF ConsProcs, ConsctlCooked, Goes, editor
<1>2. /\ proc' \in [ConsProc -> [at : {"user", "editing", "closing"}, ctl : BOOLEAN]]
      /\ proc'[p].at = "user"
      /\ \A q \in ConsProc : proc'[q].ctl = proc[q].ctl
      /\ \A q \in ConsProc : q # p => proc'[q] = proc[q]
  BY <1>1
<1>3. CtlHolders' = CtlHolders
  BY <1>2 DEF CtlHolders
<1>4. consq' = {q \in ConsProc : proc'[q].at = "editing"}
  BY <1>1, <1>2 DEF ConsProcs, NothingLeftBehind
<1>5. \A q, r \in ConsProc : proc'[q].at = "editing" /\ proc'[r].at = "editing" => q = r
  BY <1>2 DEF ConsProcs
<1> QED
  BY <1>1, <1>2, <1>3, <1>4, <1>5 DEF ConsProcs, NothingLeftBehind

LEMMA ConsStarts == ConsoleInit => ConsInv
<1> SUFFICES ASSUME ConsoleInit PROVE ConsInv
  OBVIOUS
<1>1. /\ RangeOf(<<>>) = {} /\ DOMAIN <<>> = {} /\ <<>> \o <<>> = <<>>
  BY ConcatEmptySeq DEF RangeOf
<1>2. /\ line = <<>> /\ lineq = <<>> /\ eof = FALSE /\ got = <<>> /\ kbdq = <<>> /\ typed = 0
      /\ used = {} /\ erased = {} /\ raw = FALSE
  BY DEF ConsoleInit
<1>3. ConsTypeOK
  <2>1. <<>> \in Seq(ConsKeys) /\ <<>> \in Seq([n : Nat, kind : Kind])
    OBVIOUS
  <2>2. {line, lineq, got} \subseteq Seq(ConsKeys) /\ kbdq \in Seq([n : Nat, kind : Kind])
    BY <1>2, <2>1
  <2> QED
    BY <1>2, <2>2 DEF ConsTypeOK
<1>4. KbdqOrder /\ TakenOlder /\ LineEdited
  BY <1>1, <1>2 DEF KbdqOrder, TakenOlder, KeysTaken, LineEdited, InOrder
<1>5. KeysKept /\ KeysInOrder /\ LinesWhole
  BY <1>1, <1>2 DEF KeysKept, KeysInOrder, LinesWhole
<1>6. CtlHolders = {} /\ ctl = 0
  BY DEF CtlHolders, ConsoleInit
<1>7. ConsProcs
  BY <1>2, <1>6, FS_EmptySet DEF ConsProcs, ConsoleInit, NothingLeftBehind
<1> QED
  BY <1>3, <1>4, <1>5, <1>7 DEF ConsInv, ConsEdits

LEMMA ConsStep == ConsInv /\ [ConsoleNext]_consoleVars => ConsInv'
<1> SUFFICES ASSUME ConsInv, [ConsoleNext]_consoleVars PROVE ConsInv'
  OBVIOUS
<1> USE DEF ConsInv
<1>t. /\ proc \in [ConsProc -> [at : {"user", "editing", "closing"}, ctl : BOOLEAN]] /\ raw \in BOOLEAN
  BY DEF ConsProcs, ConsEdits, ConsTypeOK
<1>1. ASSUME NEW k \in Kind, Kbdslave(k) PROVE ConsInv'
  <2>1. ConsProcs'
    BY <1>1 DEF Kbdslave, editor, ConsProcs, CtlHolders, NothingLeftBehind
  <2> QED
    BY <1>1, <2>1, ConsTyped
<1>2. ASSUME NEW p \in ConsProc, ConsRead(p) PROVE ConsInv'
  <2>1. ConsEdits'
    BY <1>2, <1>t, ConsSame DEF ConsRead, keys
  <2>2. ConsProcs'
    BY <1>2, ConsMoves DEF ConsRead, Goes
  <2> QED
    BY <2>1, <2>2
<1>3. ASSUME NEW p \in ConsProc, ConsKey(p) PROVE ConsInv'
  <2>1. ConsProcs'
    BY <1>3 DEF ConsKey, ConsProcs, CtlHolders, NothingLeftBehind
  <2> QED
    BY <1>3, <2>1, ConsKeyed
<1>4. ASSUME NEW p \in ConsProc, ConsReturn(p) PROVE ConsInv'
  <2>1. ConsProcs'
    BY <1>4, ConsMoves DEF ConsReturn, Goes
  <2> QED
    BY <1>4, <2>1, ConsReturned
<1>5. ASSUME NEW p \in ConsProc, ConsInterrupted(p) PROVE ConsInv'
  <2>1. ConsEdits'
    BY <1>5, <1>t, ConsSame DEF ConsInterrupted, keys
  <2>2. ConsProcs'
    BY <1>5, ConsMoves DEF ConsInterrupted, Goes
  <2> QED
    BY <2>1, <2>2
<1>6. ASSUME NEW p \in ConsProc, ConsctlOpen(p) PROVE ConsInv'
  <2>1. ConsEdits'
    BY <1>6, <1>t, ConsSame DEF ConsctlOpen, keys, editor
  <2> QED
    BY <1>6, <2>1, CtlOpens
<1>7. ASSUME NEW p \in ConsProc, ConsctlWrite(p) PROVE ConsInv'
  <2>1. ConsEdits'
    BY <1>7, <1>t, ConsSame DEF ConsctlWrite, keys, editor
  <2> QED
    BY <1>7, <2>1, CtlWrites
<1>8. ASSUME NEW p \in ConsProc, ConsctlClose(p) PROVE ConsInv'
  <2>1. ConsEdits'
    BY <1>8, <1>t, ConsSame DEF ConsctlClose, keys, editor
  <2> QED
    BY <1>8, <2>1, CtlCloses
<1>9. ASSUME NEW p \in ConsProc, ConsctlCooked(p) PROVE ConsInv'
  <2>1. ConsEdits'
    BY <1>9, <1>t, ConsSame DEF ConsctlCooked, keys, editor
  <2> QED
    BY <1>9, <2>1, CtlCooks
<1>10. ASSUME UNCHANGED consoleVars PROVE ConsInv'
  <2>1. UNCHANGED <<kbdq, typed, lineq, eof, line, used, erased, got, raw, proc, ctl, consq>>
    BY <1>10 DEF consoleVars, keys, editor
  <2>2. ConsProcs'
    BY <2>1 DEF ConsProcs, CtlHolders, NothingLeftBehind
  <2> QED
    BY <2>1, <2>2, <1>t, ConsSame
<1> QED
  BY <1>1, <1>2, <1>3, <1>4, <1>5, <1>6, <1>7, <1>8, <1>9, <1>10 DEF ConsoleNext

-----------------------------------------------------------------------------
(***************************************************************************)
(* The screen of the handheld.  A call of apm_blank that overlaps no other *)
(* is the only one under way.  Unless calls for opposite things did harm,  *)
(* all that are under way want the same, what they have set is so, and if  *)
(* the state believed in is not the screen's, one of them will say so yet. *)
(***************************************************************************)
Lights == {"unset", "on", "off"}
Job == [at : {"user", "started", "opened", "set", "refused", "acts", "gone"},
        want : Lights, alone : BOOLEAN]

BlankTypeOK ==
    /\ currvesastt \in Lights /\ lit \in {"on", "off"} /\ crossed \in BOOLEAN
    /\ apmjob \in [ApmProc \cup {Buttons} -> Job]

IsBlanking(p) == apmjob[p].at \in Blanking
HasSet(p) == apmjob[p].at = "set"

\* A call that is past its start wants the screen on or off.
BlankWants == \A p \in DOMAIN apmjob : IsBlanking(p) => apmjob[p].want \in {"on", "off"}

AloneIs ==
    \A p \in DOMAIN apmjob :
        IsBlanking(p) /\ apmjob[p].alone =>
            /\ \A q \in DOMAIN apmjob : IsBlanking(q) => q = p
            /\ HasSet(p) => lit = apmjob[p].want

BlankRest ==
    ~crossed =>
        /\ \A p, q \in DOMAIN apmjob : IsBlanking(p) /\ IsBlanking(q) => apmjob[p].want = apmjob[q].want
        /\ \A p \in DOMAIN apmjob : HasSet(p) => lit = apmjob[p].want
        /\ currvesastt \in {"unset", lit} \/ \E p \in DOMAIN apmjob : HasSet(p)

BlankInv == BlankTypeOK /\ BlankWants /\ AloneIs /\ BlankRest

\* A call that has set the screen is still to say so.
LEMMA SetBlanks == \A p : HasSet(p) => IsBlanking(p)
BY DEF HasSet, IsBlanking, Blanking

LEMMA BlankStarts == HandheldInit => BlankInv
<1> SUFFICES ASSUME HandheldInit PROVE BlankInv
  OBVIOUS
<1>1. /\ apmjob = [p \in ApmProc \cup {Buttons} |-> Idling] /\ Idling.at = "user"
      /\ Idling \in Job
      /\ currvesastt = "unset" /\ lit = "on" /\ crossed = FALSE
  BY DEF HandheldInit, Idling, Lights, Job
<1>2. /\ DOMAIN apmjob = ApmProc \cup {Buttons}
      /\ \A p \in DOMAIN apmjob : apmjob[p].at = "user" /\ apmjob[p] = Idling
  BY <1>1
<1>3. \A p \in DOMAIN apmjob : ~IsBlanking(p) /\ ~HasSet(p)
  BY <1>2 DEF IsBlanking, HasSet, Blanking
<1> QED
  BY <1>1, <1>2, <1>3 DEF BlankInv, BlankTypeOK, BlankWants, BlankRest, AloneIs, Lights

LEMMA StartBlanks ==
    ASSUME BlankInv, NEW p \in DOMAIN apmjob, NEW to \in {"on", "off"}, Start(p, to),
           apmjob[p].at = "user"
    PROVE  BlankInv'
<1> DEFINE opposed == \E q \in UnderWay : apmjob[q].want # to
<1>1. /\ apmjob' = [q \in DOMAIN apmjob |->
                       IF q = p THEN [at |-> "started", want |-> to, alone |-> UnderWay = {}]
                       ELSE [apmjob[q] EXCEPT !.alone = FALSE]]
      /\ crossed' = (crossed \/ opposed) /\ UNCHANGED <<currvesastt, lit>>
  BY DEF Start
<1>2. BlankTypeOK /\ BlankWants /\ AloneIs /\ BlankRest
  BY DEF BlankInv
<1>3. DOMAIN apmjob = ApmProc \cup {Buttons} /\ \A q \in DOMAIN apmjob : apmjob[q] \in Job
  BY <1>2 DEF BlankTypeOK
<1>4. DOMAIN apmjob' = DOMAIN apmjob
      /\ apmjob'[p] = [at |-> "started", want |-> to, alone |-> UnderWay = {}]
      /\ \A q \in DOMAIN apmjob : q # p => apmjob'[q] = [apmjob[q] EXCEPT !.alone = FALSE]
  BY <1>1
<1>5. apmjob'[p] \in Job /\ apmjob'[p].at = "started" /\ apmjob'[p].want = to
      /\ (apmjob'[p].alone => UnderWay = {})
  <2>1. ASSUME NEW alone \in BOOLEAN PROVE [at |-> "started", want |-> to, alone |-> alone] \in Job
    BY DEF Job, Lights
  <2>2. (UnderWay = {}) \in BOOLEAN
    OBVIOUS
  <2>3. apmjob'[p] \in Job
    BY <1>4, <2>1, <2>2, Zenon
  <2>4. ASSUME NEW alone, apmjob'[p] = [at |-> "started", want |-> to, alone |-> alone]
        PROVE  apmjob'[p].at = "started" /\ apmjob'[p].want = to /\ apmjob'[p].alone = alone
    BY <2>4
  <2>5. apmjob'[p].at = "started" /\ apmjob'[p].want = to /\ apmjob'[p].alone = (UnderWay = {})
    BY <1>4, <2>4, Zenon
  <2> QED
    BY <2>3, <2>5
<1>6. ASSUME NEW q \in DOMAIN apmjob, q # p
      PROVE  /\ apmjob'[q] \in Job /\ apmjob'[q].at = apmjob[q].at
             /\ apmjob'[q].want = apmjob[q].want /\ apmjob'[q].alone = FALSE
  BY <1>3, <1>4, <1>6, ZenonT(60) DEF Job
<1>7. ASSUME NEW q \in DOMAIN apmjob
      PROVE  /\ IsBlanking(q)' <=> IsBlanking(q) \/ q = p
             /\ HasSet(q)' <=> HasSet(q)
  BY <1>5, <1>6 DEF IsBlanking, HasSet, Blanking
<1>8. BlankTypeOK'
  <2>1. apmjob' \in [ApmProc \cup {Buttons} -> Job]
    BY <1>1, <1>3, <1>4, <1>5, <1>6
  <2>2. crossed' \in BOOLEAN
    BY <1>1
  <2> QED
    BY <1>1, <1>2, <2>1, <2>2 DEF BlankTypeOK
<1>9. BlankWants'
  BY <1>2, <1>4, <1>5, <1>6, <1>7 DEF BlankWants
<1>10. UnderWay = {q \in DOMAIN apmjob : IsBlanking(q)}
  BY DEF UnderWay, IsBlanking
<1>11. AloneIs'
  <2> SUFFICES ASSUME NEW q \in DOMAIN apmjob, IsBlanking(q)', apmjob'[q].alone
               PROVE  /\ \A o \in DOMAIN apmjob : IsBlanking(o)' => o = q
                      /\ HasSet(q)' => lit' = apmjob'[q].want
    BY <1>4 DEF AloneIs
  <2>1. q = p /\ UnderWay = {}
    BY <1>5, <1>6
  <2>2. ~HasSet(p)'
    BY <1>5 DEF HasSet
  <2> QED
    BY <1>7, <1>10, <2>1, <2>2
<1>12. BlankRest'
  <2> SUFFICES ASSUME ~crossed' PROVE BlankRest'
    BY DEF BlankRest
  <2>1. ~crossed /\ \A q \in DOMAIN apmjob : IsBlanking(q) => apmjob[q].want = to
    BY <1>1, <1>10
  <2>2. /\ \A q \in DOMAIN apmjob : HasSet(q) => lit = apmjob[q].want
        /\ currvesastt \in {"unset", lit} \/ \E q \in DOMAIN apmjob : HasSet(q)
    BY <1>2, <2>1 DEF BlankRest
  <2>3. \A q \in DOMAIN apmjob : IsBlanking(q)' => apmjob'[q].want = to
    BY <1>5, <1>6, <1>7, <2>1
  <2>4. \A q \in DOMAIN apmjob : HasSet(q)' => lit' = apmjob'[q].want
    BY <1>1, <1>5, <1>6, <1>7, <2>2 DEF HasSet
  <2>5. currvesastt' \in {"unset", lit'} \/ \E q \in DOMAIN apmjob : HasSet(q)'
    BY <1>1, <1>7, <2>2
  <2> QED
    BY <1>4, <2>3, <2>4, <2>5 DEF BlankRest
<1> QED
  BY <1>8, <1>9, <1>11, <1>12 DEF BlankInv

\* One call goes on to what is not being under way, and the screen stays.
LEMMA LeavesBlanking ==
    ASSUME BlankInv, NEW p \in DOMAIN apmjob, NEW j \in Job, j.at \in {"user", "acts", "gone", "refused"},
           apmjob' = [apmjob EXCEPT ![p] = j], lit' = lit, currvesastt' \in Lights, crossed' \in BOOLEAN,
           ~crossed' /\ crossed => currvesastt' = lit /\ \A q \in DOMAIN apmjob : IsBlanking(q) => q = p,
           ~crossed' /\ ~crossed =>
              currvesastt' \in {"unset", lit} \/ \E q \in DOMAIN apmjob : q # p /\ HasSet(q)
    PROVE  BlankInv'
<1>1. BlankTypeOK /\ BlankWants /\ AloneIs /\ BlankRest
  BY DEF BlankInv
<1>2. DOMAIN apmjob' = DOMAIN apmjob /\ apmjob'[p] = j /\ \A q \in DOMAIN apmjob : q # p => apmjob'[q] = apmjob[q]
  OBVIOUS
<1>3. ASSUME NEW q \in DOMAIN apmjob
      PROVE  /\ IsBlanking(q)' <=> IsBlanking(q) /\ q # p
             /\ HasSet(q)' <=> HasSet(q) /\ q # p
  BY <1>2 DEF IsBlanking, HasSet, Blanking
<1>4. BlankTypeOK'
  BY <1>1 DEF BlankTypeOK
<1>5. BlankWants' /\ AloneIs'
  BY <1>1, <1>2, <1>3 DEF BlankWants, AloneIs
<1>6. BlankRest'
  <2>1. CASE crossed'
    BY <2>1 DEF BlankRest
  <2>2. CASE ~crossed' /\ crossed
    <3>1. currvesastt' = lit /\ \A q \in DOMAIN apmjob : ~IsBlanking(q)'
      BY <1>3, <2>2
    <3>2. \A q \in DOMAIN apmjob : ~HasSet(q)'
      BY <1>3, <2>2, SetBlanks
    <3> QED
      BY <1>2, <3>1, <3>2 DEF BlankRest
  <2>3. CASE ~crossed' /\ ~crossed
    BY <1>1, <1>2, <1>3, <2>3 DEF BlankRest
  <2> QED
    BY <2>1, <2>2, <2>3
<1> QED
  BY <1>4, <1>5, <1>6 DEF BlankInv

LEMMA BlankStep == BlankInv /\ [HandheldNext]_handheldVars => BlankInv'
<1> SUFFICES ASSUME BlankInv, [HandheldNext]_handheldVars PROVE BlankInv'
  OBVIOUS
<1>t. /\ BlankTypeOK /\ BlankWants /\ AloneIs /\ BlankRest
      /\ DOMAIN apmjob = ApmProc \cup {Buttons}
      /\ \A p \in DOMAIN apmjob : apmjob[p] \in Job
      /\ currvesastt \in Lights /\ lit \in {"on", "off"} /\ crossed \in BOOLEAN
  BY DEF BlankInv, BlankTypeOK
<1>j. /\ Idling \in Job /\ Gone \in Job /\ [Idling EXCEPT !.at = "acts"] \in Job
      /\ Idling.at = "user" /\ Gone.at = "gone" /\ [Idling EXCEPT !.at = "acts"].at = "acts"
  BY DEF Idling, Gone, Job, Lights
<1>a. \A p : Acts(p) \in Job /\ Acts(p).at \in {"user", "acts"}
  BY <1>j DEF Acts
<1>1. ASSUME NEW p \in ApmProc, BlankWrite(p) PROVE BlankInv'
  BY <1>1, <1>t, StartBlanks DEF BlankWrite
<1>2. ASSUME NEW p \in DOMAIN apmjob, BlankCheck(p) PROVE BlankInv'
  <2>0. apmjob[p].at = "started" /\ UNCHANGED <<currvesastt, lit, crossed>>
    BY <1>2 DEF BlankCheck
  <2>1. CASE apmjob' = [apmjob EXCEPT ![p] = Acts(p)]
    <3>1. ~crossed => currvesastt \in {"unset", lit} \/ \E q \in DOMAIN apmjob : q # p /\ HasSet(q)
      BY <1>t, <2>0 DEF BlankRest, HasSet
    <3> QED
      BY <1>a, <1>t, <2>0, <2>1, <3>1, LeavesBlanking
  <2>2. CASE apmjob' = [apmjob EXCEPT ![p].at = "opened"]
    <3>1. /\ DOMAIN apmjob' = DOMAIN apmjob /\ apmjob' \in [ApmProc \cup {Buttons} -> Job]
          /\ apmjob'[p].at = "opened" /\ apmjob'[p].want = apmjob[p].want
          /\ apmjob'[p].alone = apmjob[p].alone
          /\ \A q \in DOMAIN apmjob : q # p => apmjob'[q] = apmjob[q]
      BY <1>t, <2>2 DEF Job
    <3>2. ASSUME NEW q \in DOMAIN apmjob
          PROVE  (IsBlanking(q)' <=> IsBlanking(q)) /\ (HasSet(q)' <=> HasSet(q))
      BY <2>0, <3>1 DEF IsBlanking, HasSet, Blanking
    <3>3. ASSUME NEW q \in DOMAIN apmjob
          PROVE  apmjob'[q].want = apmjob[q].want /\ apmjob'[q].alone = apmjob[q].alone
      BY <3>1
    <3>4. BlankTypeOK' /\ BlankWants' /\ AloneIs'
      BY <1>t, <2>0, <3>1, <3>2, <3>3 DEF BlankTypeOK, BlankWants, AloneIs
    <3>5. BlankRest'
      BY <1>t, <2>0, <3>1, <3>2, <3>3 DEF BlankRest
    <3> QED
      BY <3>4, <3>5 DEF BlankInv
  <2> QED
    BY <1>2, <2>1, <2>2 DEF BlankCheck
<1>3. ASSUME NEW p \in DOMAIN apmjob, NEW ok \in BOOLEAN, BlankIoctl(p, ok) PROVE BlankInv'
  <2>0. apmjob[p].at = "opened" /\ IsBlanking(p) /\ UNCHANGED <<currvesastt, crossed>>
    BY <1>3 DEF BlankIoctl, IsBlanking, Blanking
  <2>1. CASE ok
    <3>0. lit' = apmjob[p].want /\ apmjob' = [apmjob EXCEPT ![p].at = "set"]
          /\ apmjob[p].want \in {"on", "off"}
      BY <1>3, <1>t, <2>0, <2>1 DEF BlankIoctl, BlankWants
    <3>1. /\ DOMAIN apmjob' = DOMAIN apmjob /\ apmjob' \in [ApmProc \cup {Buttons} -> Job]
          /\ apmjob'[p].at = "set" /\ apmjob'[p].want = apmjob[p].want
          /\ apmjob'[p].alone = apmjob[p].alone
          /\ \A q \in DOMAIN apmjob : q # p => apmjob'[q] = apmjob[q]
      BY <1>t, <3>0 DEF Job
    <3>2. ASSUME NEW q \in DOMAIN apmjob
          PROVE  (IsBlanking(q)' <=> IsBlanking(q)) /\ (HasSet(q)' <=> HasSet(q) \/ q = p)
      BY <2>0, <3>1 DEF IsBlanking, HasSet, Blanking
    <3>3. ASSUME NEW q \in DOMAIN apmjob
          PROVE  apmjob'[q].want = apmjob[q].want /\ apmjob'[q].alone = apmjob[q].alone
      BY <3>1
    <3>4. BlankTypeOK' /\ BlankWants'
      BY <1>t, <2>0, <3>0, <3>1, <3>2, <3>3 DEF BlankTypeOK, BlankWants
    <3>5. AloneIs'
      <4> SUFFICES ASSUME NEW q \in DOMAIN apmjob, IsBlanking(q)', apmjob'[q].alone
                   PROVE  /\ \A o \in DOMAIN apmjob : IsBlanking(o)' => o = q
                          /\ HasSet(q)' => lit' = apmjob'[q].want
        BY <3>1 DEF AloneIs
      <4>1. \A o \in DOMAIN apmjob : IsBlanking(o) => o = q
        BY <1>t, <3>2, <3>3 DEF AloneIs
      <4>2. q = p
        BY <2>0, <4>1
      <4> QED
        BY <3>0, <3>1, <3>2, <4>1, <4>2
    <3>6. BlankRest'
      <4> SUFFICES ASSUME ~crossed' PROVE BlankRest'
        BY DEF BlankRest
      <4>1. \A q, o \in DOMAIN apmjob : IsBlanking(q) /\ IsBlanking(o) => apmjob[q].want = apmjob[o].want
        BY <1>t, <2>0 DEF BlankRest
      <4>2. \A q \in DOMAIN apmjob : HasSet(q)' => lit' = apmjob'[q].want
        BY <2>0, <3>0, <3>2, <3>3, <4>1, SetBlanks
      <4>3. HasSet(p)'
        BY <3>2
      <4> QED
        BY <3>1, <3>2, <3>3, <4>1, <4>2, <4>3 DEF BlankRest
    <3> QED
      BY <3>4, <3>5, <3>6 DEF BlankInv
  <2>2. CASE ~ok
    <3>1. lit' = lit /\ apmjob' = [apmjob EXCEPT ![p].at = "refused"]
      BY <1>3, <2>2 DEF BlankIoctl
    <3>2. PICK j \in Job : j = [apmjob[p] EXCEPT !.at = "refused"]
      BY <1>t DEF Job
    <3>3. j.at = "refused" /\ apmjob' = [apmjob EXCEPT ![p] = j]
      BY <1>t, <3>1, <3>2 DEF Job
    <3>4. ~crossed => currvesastt \in {"unset", lit} \/ \E q \in DOMAIN apmjob : q # p /\ HasSet(q)
      BY <1>t, <2>0 DEF BlankRest, HasSet
    <3> QED
      BY <1>t, <2>0, <3>1, <3>3, <3>4, LeavesBlanking
  <2> QED
    BY <2>1, <2>2
<1>4. ASSUME NEW p \in DOMAIN apmjob, BlankDone(p) PROVE BlankInv'
  <2>1. PICK j \in Job : j.at \in {"user", "acts", "gone"} /\ apmjob' = [apmjob EXCEPT ![p] = j]
    BY <1>4, <1>j, <1>a DEF BlankDone
  <2>2. lit' = lit
    BY <1>4 DEF BlankDone
  <2>3. CASE apmjob[p].at = "set"
    <3>1. currvesastt' = apmjob[p].want /\ crossed' = (crossed /\ ~apmjob[p].alone)
      BY <1>4, <2>3 DEF BlankDone, Believed
    <3>2. IsBlanking(p) /\ HasSet(p) /\ apmjob[p].alone \in BOOLEAN /\ apmjob[p].want \in Lights
      BY <1>t, <2>3 DEF IsBlanking, HasSet, Blanking, Job
    <3>3. ~crossed' /\ crossed => currvesastt' = lit /\ \A q \in DOMAIN apmjob : IsBlanking(q) => q = p
      BY <1>t, <3>1, <3>2 DEF AloneIs
    <3>4. ~crossed => currvesastt' = lit
      BY <1>t, <3>1, <3>2 DEF BlankRest
    <3>5. crossed' \in BOOLEAN /\ currvesastt' \in Lights
      BY <3>1, <3>2
    <3> QED
      BY <2>1, <2>2, <3>3, <3>4, <3>5, LeavesBlanking
  <2>4. CASE apmjob[p].at = "refused"
    <3>1. UNCHANGED <<currvesastt, crossed>>
      BY <1>4, <1>t, <2>4 DEF BlankDone, Believed
    <3>2. ~crossed => currvesastt \in {"unset", lit} \/ \E q \in DOMAIN apmjob : q # p /\ HasSet(q)
      BY <1>t, <2>4 DEF BlankRest, HasSet
    <3> QED
      BY <1>t, <2>1, <2>2, <3>1, <3>2, LeavesBlanking
  <2> QED
    BY <1>4, <2>3, <2>4 DEF BlankDone
<1>5. CASE ButtonReleased
  BY <1>5, <1>t, StartBlanks DEF ButtonReleased
<1>6. CASE ButtonActs
  <2>0. apmjob[Buttons].at = "acts" /\ UNCHANGED <<currvesastt, lit, crossed>>
    BY <1>6 DEF ButtonActs
  <2>1. PICK j \in {Gone, Idling} : apmjob' = [apmjob EXCEPT ![Buttons] = j]
    BY <1>6 DEF ButtonActs
  <2>2. ~crossed => currvesastt \in {"unset", lit} \/ \E q \in DOMAIN apmjob : q # Buttons /\ HasSet(q)
    BY <1>t, <2>0 DEF BlankRest, HasSet
  <2> QED
    BY <1>j, <1>t, <2>0, <2>1, <2>2, LeavesBlanking
<1>7. CASE UNCHANGED blankVars
  BY <1>7, <1>t DEF blankVars, BlankInv, BlankTypeOK, BlankWants, AloneIs, BlankRest, IsBlanking, HasSet, Blanking
<1> QED
  <2>1. ButtonPressed \/ PenLifts \/ (\E i \in Spot : PenMoves(i)) \/ (\E soon \in BOOLEAN : Stylus(soon))
        \/ UNCHANGED handheldVars => UNCHANGED blankVars
    BY DEF ButtonPressed, PenLifts, PenMoves, Stylus, handheldVars
  <2> QED
    BY <1>1, <1>2, <1>3, <1>4, <1>5, <1>6, <1>7, <2>1 DEF HandheldNext

LEMMA BlankPromise == BlankInv => BlankingKnown
<1> SUFFICES ASSUME BlankInv, ~crossed, currvesastt \notin {"unset", lit} PROVE UnderWay # {}
  BY DEF BlankingKnown
<1>1. PICK p \in DOMAIN apmjob : HasSet(p)
  BY DEF BlankInv, BlankRest
<1> QED
  BY <1>1 DEF HasSet, UnderWay, Blanking

-----------------------------------------------------------------------------
(***************************************************************************)
(* The pen.  The events unread are the rest of a packet, if a read was     *)
(* torn, and whole packets after it: what an event may be followed by says *)
(* so.                                                                     *)
(***************************************************************************)
PenEvent ==
    [on : {"x", "y"}, v : Spot] \cup [on : {"p", "key"}, v : {0, 1}] \cup [on : {"syn"}, v : {0}]

Follows(a, b) ==
    \/ a.on = "x" /\ b.on = "y" /\ b.v = a.v
    \/ a.on = "y" /\ b.on = "p"
    \/ a.on = "p" /\ b.on = "key" /\ b.v = a.v
    \/ a.on = "p" /\ b.on = "syn" /\ a.v = 1
    \/ a.on = "key" /\ b.on = "syn"
    \/ a.on = "syn" /\ b.on = "x"

Packets(s) ==
    /\ \A i \in 1 .. Len(s) - 1 : Follows(s[i], s[i + 1])
    /\ s # <<>> => s[Len(s)].on = "syn"

PenTypeOK == events \in Seq(PenEvent) /\ torn \in BOOLEAN

PenLast(s) == Len(s) > 1 => s[Len(s) - 1].on = "key" /\ s[Len(s) - 1].v = 0

PenInv ==
    /\ PenTypeOK /\ Packets(events) /\ PenFollowed
    /\ ~torn /\ events # <<>> => events[1].on = "x"
    /\ pen = 0 => PenLast(events)
    /\ pen \in Spot \cup {0}

LEMMA PenStarts == HandheldInit => PenInv
<1> SUFFICES ASSUME HandheldInit PROVE PenInv
  OBVIOUS
<1>1. events = <<>> /\ pen = 0 /\ torn = FALSE /\ tracked = Lifted
  BY DEF HandheldInit
<1>2. Len(events) = 0 /\ events \in Seq(PenEvent) /\ Len(events) \in Nat
  BY <1>1
<1>3. Packets(events)
  BY <1>1, <1>2 DEF Packets
<1>4. PenFollowed
  BY <1>1 DEF PenFollowed, Lifted
<1>5. PenTypeOK /\ pen \in Spot \cup {0}
  BY <1>1, <1>2 DEF PenTypeOK
<1>6. PenLast(events)
  <2>1. ~(Len(events) > 1)
    BY <1>2
  <2> QED
    BY <2>1 DEF PenLast
<1> QED
  BY <1>1, <1>3, <1>4, <1>5, <1>6 DEF PenInv

LEMMA AddOne ==
    /\ \A a, b, c, d \in PenEvent : <<a, b, c>> \o <<d>> = <<a, b, c, d>>
    /\ \A a, b, c, d, e \in PenEvent : <<a, b, c, d>> \o <<e>> = <<a, b, c, d, e>>
<1>1. ASSUME NEW a \in PenEvent, NEW b \in PenEvent, NEW c \in PenEvent,
             NEW d \in PenEvent
      PROVE  <<a, b, c>> \o <<d>> = <<a, b, c, d>>
  <2> DEFINE s == Append(<<a, b, c>>, d)
             t == <<a, b, c, d>>
  <2>1. /\ s \in Seq(PenEvent) /\ Len(s) = 4
        /\ s[1] = a /\ s[2] = b /\ s[3] = c /\ s[4] = d
    OBVIOUS
  <2>2. /\ t \in Seq(PenEvent) /\ Len(t) = 4
        /\ t[1] = a /\ t[2] = b /\ t[3] = c /\ t[4] = d
    OBVIOUS
  <2>3. <<a, b, c>> \o <<d>> = s
    OBVIOUS
  <2> HIDE DEF s, t
  <2>4. \A i \in 1 .. 4 : s[i] = t[i]
    BY <2>1, <2>2
  <2>5. s = t
    BY <2>1, <2>2, <2>4, SeqEqual
  <2> QED
    BY <2>3, <2>5 DEF t
<1>2. ASSUME NEW a \in PenEvent, NEW b \in PenEvent, NEW c \in PenEvent,
             NEW d \in PenEvent, NEW e \in PenEvent
      PROVE  <<a, b, c, d>> \o <<e>> = <<a, b, c, d, e>>
  <2> DEFINE s == Append(<<a, b, c, d>>, e)
             t == <<a, b, c, d, e>>
  <2>1. /\ s \in Seq(PenEvent) /\ Len(s) = 5
        /\ s[1] = a /\ s[2] = b /\ s[3] = c /\ s[4] = d /\ s[5] = e
    OBVIOUS
  <2>2. /\ t \in Seq(PenEvent) /\ Len(t) = 5
        /\ t[1] = a /\ t[2] = b /\ t[3] = c /\ t[4] = d /\ t[5] = e
    OBVIOUS
  <2>3. <<a, b, c, d>> \o <<e>> = s
    OBVIOUS
  <2> HIDE DEF s, t
  <2>4. \A i \in 1 .. 5 : s[i] = t[i]
    BY <2>1, <2>2
  <2>5. s = t
    BY <2>1, <2>2, <2>4, SeqEqual
  <2> QED
    BY <2>3, <2>5 DEF t
<1> QED
  BY <1>1, <1>2

\* What the pen sends.
LEMMA PacketFacts ==
    ASSUME NEW i \in Spot, NEW p \in {0, 1}, NEW k, k = Key(p) \/ (k = <<>> /\ p = 1)
    PROVE  LET s == Packet(i, p, k) IN
           /\ s \in Seq(PenEvent) /\ Packets(s) /\ s # <<>> /\ s[1].on = "x"
           /\ p = 0 => PenLast(s) /\ Len(s) > 1
<1> DEFINE ex == [on |-> "x", v |-> i]
           ey == [on |-> "y", v |-> i]
           ep == [on |-> "p", v |-> p]
           ek == [on |-> "key", v |-> p]
           es == [on |-> "syn", v |-> 0]
<1>1. ex \in PenEvent /\ ey \in PenEvent /\ ep \in PenEvent /\ ek \in PenEvent /\ es \in PenEvent
  BY DEF PenEvent
<1>2. /\ ex.on = "x" /\ ey.on = "y" /\ ep.on = "p" /\ ek.on = "key" /\ es.on = "syn"
      /\ ey.v = ex.v /\ ep.v = p /\ ek.v = p
  OBVIOUS
<1>3. Packet(i, p, k) = <<ex, ey, ep>> \o k \o <<es>>
  BY DEF Packet
<1>4. k = <<>> \/ k = <<ek>>
  BY DEF Key
<1> HIDE DEF ex, ey, ep, ek, es
<1>5. CASE k = <<ek>>
  <2>1. Packet(i, p, k) = <<ex, ey, ep, ek, es>>
    <3>1. <<ex, ey, ep>> \o <<ek>> = <<ex, ey, ep, ek>>
      BY <1>1, AddOne
    <3>2. <<ex, ey, ep, ek>> \o <<es>> = <<ex, ey, ep, ek, es>>
      BY <1>1, AddOne
    <3>3. <<ex, ey, ep>> \o k \o <<es>> = (<<ex, ey, ep>> \o <<ek>>) \o <<es>>
      BY <1>5
    <3> QED
      BY <1>3, <3>1, <3>2, <3>3
  <2>2. <<ex, ey, ep, ek, es>> \in Seq(PenEvent) /\ Len(<<ex, ey, ep, ek, es>>) = 5
    BY <1>1
  <2>3. Packets(<<ex, ey, ep, ek, es>>)
    <3> DEFINE s == <<ex, ey, ep, ek, es>>
    <3>1. s[1] = ex /\ s[2] = ey /\ s[3] = ep /\ s[4] = ek /\ s[5] = es /\ Len(s) = 5
      OBVIOUS
    <3> HIDE DEF s
    <3>2. Follows(s[1], s[2]) /\ Follows(s[2], s[3]) /\ Follows(s[3], s[4]) /\ Follows(s[4], s[5])
      BY <3>1, <1>2 DEF Follows
    <3>3. \A j \in 1 .. Len(s) - 1 : j = 1 \/ j = 2 \/ j = 3 \/ j = 4
      BY <3>1
    <3>4. s[Len(s)].on = "syn"
      BY <3>1, <1>2
    <3>5. Packets(s)
      BY <3>2, <3>3, <3>4 DEF Packets
    <3> QED
      BY <3>5 DEF s
  <2> QED
    BY <2>1, <2>2, <2>3, <1>2 DEF PenLast
<1>6. CASE k = <<>> /\ p = 1
  <2>1. Packet(i, p, k) = <<ex, ey, ep, es>>
    <3>1. <<ex, ey, ep>> \o <<>> = <<ex, ey, ep>>
      BY <1>1, ConcatEmptySeq
    <3>2. <<ex, ey, ep>> \o <<es>> = <<ex, ey, ep, es>>
      BY <1>1, AddOne
    <3>3. <<ex, ey, ep>> \o k \o <<es>> = (<<ex, ey, ep>> \o <<>>) \o <<es>>
      BY <1>6
    <3> QED
      BY <1>3, <3>1, <3>2, <3>3
  <2>2. <<ex, ey, ep, es>> \in Seq(PenEvent) /\ Len(<<ex, ey, ep, es>>) = 4
    BY <1>1
  <2>3. Packets(<<ex, ey, ep, es>>)
    <3> DEFINE s == <<ex, ey, ep, es>>
    <3>1. s[1] = ex /\ s[2] = ey /\ s[3] = ep /\ s[4] = es /\ Len(s) = 4
      OBVIOUS
    <3> HIDE DEF s
    <3>2. Follows(s[1], s[2]) /\ Follows(s[2], s[3]) /\ Follows(s[3], s[4])
      BY <3>1, <1>2, <1>6 DEF Follows
    <3>3. \A j \in 1 .. Len(s) - 1 : j = 1 \/ j = 2 \/ j = 3
      BY <3>1
    <3>4. s[Len(s)].on = "syn"
      BY <3>1, <1>2
    <3>5. Packets(s)
      BY <3>2, <3>3, <3>4 DEF Packets
    <3> QED
      BY <3>5 DEF s
  <2> QED
    BY <2>1, <2>2, <2>3, <1>2, <1>6
<1> QED
  <2>1. k = <<ek>> \/ (k = <<>> /\ p = 1)
    BY DEF Key, ek
  <2> QED
    BY <1>5, <1>6, <2>1

LEMMA PacketsConcat ==
    ASSUME NEW s \in Seq(PenEvent), NEW t \in Seq(PenEvent), Packets(s), Packets(t),
           t # <<>>, t[1].on = "x"
    PROVE  /\ s \o t \in Seq(PenEvent) /\ Packets(s \o t) /\ s \o t # <<>>
           /\ (s \o t)[1] = IF s = <<>> THEN t[1] ELSE s[1]
           /\ PenLast(t) /\ Len(t) > 1 => PenLast(s \o t)
<1> DEFINE n == Len(s)
           m == Len(t)
           u == s \o t
<1>1. /\ n \in Nat /\ m \in Nat /\ m # 0 /\ u \in Seq(PenEvent) /\ Len(u) = n + m
      /\ \A i \in 1 .. n + m : u[i] = IF i <= n THEN s[i] ELSE t[i - n]
      /\ n = 0 <=> s = <<>>
  BY ConcatProperties, EmptySeq
<1> HIDE DEF n, m, u
<1>2. ASSUME NEW i \in 1 .. n + m - 1 PROVE Follows(u[i], u[i + 1])
  <2>1. CASE i + 1 <= n
    <3>1. u[i] = s[i] /\ u[i + 1] = s[i + 1] /\ i \in 1 .. n - 1
      BY <1>1, <2>1
    <3> QED
      BY <3>1 DEF Packets, n
  <2>2. CASE i = n
    <3>0. i \in 1 .. n + m /\ n + 1 \in 1 .. n + m /\ ~(n + 1 <= n) /\ (n + 1) - n = 1 /\ n # 0
      BY <1>1, <2>2
    <3>1. u[i] = s[n] /\ u[i + 1] = t[1] /\ s # <<>>
      BY <1>1, <2>2, <3>0
    <3>2. s[n].on = "syn"
      BY <3>1 DEF Packets, n
    <3> QED
      BY <3>1, <3>2 DEF Follows
  <2>3. CASE ~(i <= n)
    <3>0. i \in 1 .. n + m /\ i + 1 \in 1 .. n + m /\ ~(i + 1 <= n) /\ (i + 1) - n = (i - n) + 1
      BY <1>1, <2>3
    <3>1. u[i] = t[i - n] /\ u[i + 1] = t[(i - n) + 1] /\ i - n \in 1 .. m - 1
      BY <1>1, <2>3, <3>0
    <3> QED
      BY <3>1 DEF Packets, m
  <2> QED
    BY <1>1, <2>1, <2>2, <2>3
<1>3. u[n + m] = t[m] /\ u[1] = IF s = <<>> THEN t[1] ELSE s[1]
  <2>1. n + m \in 1 .. n + m /\ ~(n + m <= n) /\ (n + m) - n = m /\ 1 \in 1 .. n + m
    BY <1>1
  <2>2. u[n + m] = t[m]
    BY <1>1, <2>1
  <2>3. CASE s = <<>>
    <3>1. n = 0 /\ ~(1 <= n) /\ 1 - n = 1
      BY <1>1, <2>3
    <3> QED
      BY <1>1, <2>1, <2>2, <2>3, <3>1
  <2>4. CASE s # <<>>
    <3>1. 1 <= n
      BY <1>1, <2>4
    <3> QED
      BY <1>1, <2>1, <2>2, <2>4, <3>1
  <2> QED
    BY <2>3, <2>4
<1>4. t[m].on = "syn"
  BY DEF Packets, m
<1>5. Packets(u) /\ u # <<>>
  BY <1>1, <1>2, <1>3, <1>4 DEF Packets
<1>6. ASSUME PenLast(t), m > 1 PROVE PenLast(u)
  <2>1. u[n + m - 1] = t[m - 1]
    BY <1>1, <1>6
  <2> QED
    BY <2>1, <1>1, <1>6 DEF PenLast, m
<1> QED
  BY <1>1, <1>3, <1>5, <1>6 DEF u, m

\* The events up to the first EV_SYN: a packet, or the end of one.
PacketEnd(s, n) ==
    /\ n \in 1 .. Len(s) /\ n <= Nevents /\ s[n].on = "syn" /\ \A j \in 1 .. n - 1 : s[j].on # "syn"
    /\ \/ n < 4
       \/ n = 4 /\ s[1].on = "x" /\ s[2].on = "y" /\ s[3].on = "p" /\ s[2].v = s[1].v
       \/ n = 4 /\ s[1].on = "y" /\ s[2].on = "p" /\ s[3].on = "key"
       \/ n = 5 /\ s[1].on = "x" /\ s[2].on = "y" /\ s[3].on = "p" /\ s[4].on = "key"
                /\ s[4].v = s[3].v
    /\ s[1].on = "x" => n >= 4

LEMMA FirstPacket ==
    ASSUME NEW s \in Seq(PenEvent), Packets(s), s # <<>> PROVE \E n \in Nat : PacketEnd(s, n)
<1>1. Len(s) \in Nat /\ Len(s) # 0
  OBVIOUS
<1>2. ASSUME NEW i \in 1 .. Len(s), s[i].on # "syn"
      PROVE  i + 1 \in 1 .. Len(s) /\ Follows(s[i], s[i + 1])
  <2>1. i # Len(s)
    BY <1>2 DEF Packets
  <2>2. i \in 1 .. Len(s) - 1 /\ i + 1 \in 1 .. Len(s)
    BY <1>1, <2>1
  <2> QED
    BY <2>2 DEF Packets
<1>3. 1 \in 1 .. Len(s)
  BY <1>1
<1>4. s[1] \in PenEvent
  BY <1>3
<1>5. s[1].on \in {"x", "y", "p", "key", "syn"}
  BY <1>4 DEF PenEvent
<1>syn. ASSUME s[1].on = "syn" PROVE PacketEnd(s, 1)
  BY <1>1, <1>3, <1>syn DEF PacketEnd, Nevents
<1>key. ASSUME s[1].on = "key" PROVE PacketEnd(s, 2)
  <2>1. 2 \in 1 .. Len(s) /\ s[2].on = "syn"
    BY <1>2, <1>3, <1>key DEF Follows
  <2>2. \A j \in 1 .. 2 - 1 : j = 1
    OBVIOUS
  <2> QED
    BY <2>1, <2>2, <1>key DEF PacketEnd, Nevents
<1>p. ASSUME s[1].on = "p" PROVE PacketEnd(s, 2) \/ PacketEnd(s, 3)
  <2>1. 2 \in 1 .. Len(s) /\ s[2].on \in {"key", "syn"}
    BY <1>2, <1>3, <1>p DEF Follows
  <2>2. \A j \in 1 .. 2 - 1 : j = 1
    OBVIOUS
  <2>3. \A j \in 1 .. 3 - 1 : j = 1 \/ j = 2
    OBVIOUS
  <2>4. CASE s[2].on = "syn"
    BY <2>1, <2>2, <2>4, <1>p DEF PacketEnd, Nevents
  <2>5. CASE s[2].on = "key"
    <3>0. s[2].on # "syn" /\ 2 + 1 = 3
      BY <2>5
    <3>f. 2 + 1 \in 1 .. Len(s) /\ Follows(s[2], s[2 + 1])
      BY <1>2, <2>1, <3>0
    <3>1. 3 \in 1 .. Len(s) /\ s[3].on = "syn"
      BY <2>5, <3>0, <3>f DEF Follows
    <3> QED
      BY <3>1, <2>3, <2>5, <1>p DEF PacketEnd, Nevents
  <2> QED
    BY <2>1, <2>4, <2>5
<1>y. ASSUME s[1].on = "y" PROVE PacketEnd(s, 3) \/ PacketEnd(s, 4)
  <2>1. 2 \in 1 .. Len(s) /\ s[2].on = "p"
    BY <1>2, <1>3, <1>y DEF Follows
  <2>2. 3 \in 1 .. Len(s) /\ s[3].on \in {"key", "syn"}
    BY <1>2, <2>1 DEF Follows
  <2>3. \A j \in 1 .. 3 - 1 : j = 1 \/ j = 2
    OBVIOUS
  <2>4. \A j \in 1 .. 4 - 1 : j = 1 \/ j = 2 \/ j = 3
    OBVIOUS
  <2>5. CASE s[3].on = "syn"
    BY <2>1, <2>2, <2>3, <2>5, <1>y DEF PacketEnd, Nevents
  <2>6. CASE s[3].on = "key"
    <3>0. s[3].on # "syn" /\ 3 + 1 = 4
      BY <2>6
    <3>f. 3 + 1 \in 1 .. Len(s) /\ Follows(s[3], s[3 + 1])
      BY <1>2, <2>2, <3>0
    <3>1. 4 \in 1 .. Len(s) /\ s[4].on = "syn"
      BY <2>6, <3>0, <3>f DEF Follows
    <3> QED
      BY <3>1, <2>1, <2>4, <2>6, <1>y DEF PacketEnd, Nevents
  <2> QED
    BY <2>2, <2>5, <2>6
<1>x. ASSUME s[1].on = "x" PROVE PacketEnd(s, 4) \/ PacketEnd(s, 5)
  <2>1. 2 \in 1 .. Len(s) /\ s[2].on = "y" /\ s[2].v = s[1].v
    BY <1>2, <1>3, <1>x DEF Follows
  <2>2. 3 \in 1 .. Len(s) /\ s[3].on = "p"
    BY <1>2, <2>1 DEF Follows
  <2>3. 4 \in 1 .. Len(s) /\ (s[4].on = "syn" \/ (s[4].on = "key" /\ s[4].v = s[3].v))
    BY <1>2, <2>2 DEF Follows
  <2>4. \A j \in 1 .. 4 - 1 : j = 1 \/ j = 2 \/ j = 3
    OBVIOUS
  <2>5. \A j \in 1 .. 5 - 1 : j = 1 \/ j = 2 \/ j = 3 \/ j = 4
    OBVIOUS
  <2>6. CASE s[4].on = "syn"
    BY <2>1, <2>2, <2>3, <2>4, <2>6, <1>x DEF PacketEnd, Nevents
  <2>7. CASE s[4].on = "key" /\ s[4].v = s[3].v
    <3>0. s[4].on # "syn" /\ 4 + 1 = 5
      BY <2>7
    <3>f. 4 + 1 \in 1 .. Len(s) /\ Follows(s[4], s[4 + 1])
      BY <1>2, <2>3, <3>0
    <3>1. 5 \in 1 .. Len(s) /\ s[5].on = "syn"
      BY <2>7, <3>0, <3>f DEF Follows
    <3> QED
      BY <3>1, <2>1, <2>2, <2>5, <2>7, <1>x DEF PacketEnd, Nevents
  <2> QED
    BY <2>3, <2>6, <2>7
<1> QED
  BY <1>5, <1>syn, <1>key, <1>p, <1>y, <1>x

\* What a read takes, and what it leaves.
LEMMA ReadPacket ==
    ASSUME NEW s \in Seq(PenEvent), s = events, Packets(s), NEW n \in Nat, PacketEnd(s, n)
    PROVE  /\ Len(EventsRead) \in n .. Len(s) /\ Len(EventsRead) \in Nat
           /\ \A i \in 1 .. n : EventsRead[i] = s[i]
           /\ Syn(EventsRead) = n
<1> DEFINE m == IF Len(s) < Nevents THEN Len(s) ELSE Nevents
<1>1. Len(s) \in Nat /\ m \in 1 .. Len(s) /\ n \in 1 .. m /\ m \in Nat
  BY DEF PacketEnd, Nevents
<1>2. EventsRead = SubSeq(s, 1, m)
  BY DEF EventsRead
<1> HIDE DEF m
<1>3. Len(EventsRead) = m /\ DOMAIN EventsRead = 1 .. m /\ \A i \in 1 .. m : EventsRead[i] = s[i]
  BY <1>1, <1>2
<1> DEFINE ev == EventsRead
           IsSyn(i) == i \in 1 .. m /\ ev[i].on = "syn" /\ \A j \in 1 .. i - 1 : ev[j].on # "syn"
<1>4. Syn(ev) = CHOOSE i : IsSyn(i)
  <2>1. Syn(ev) = CHOOSE i \in 1 .. m : ev[i].on = "syn" /\ \A j \in 1 .. i - 1 : ev[j].on # "syn"
    BY <1>3 DEF Syn
  <2> QED
    BY <2>1
<1>5. IsSyn(n)
  <2>1. ev[n].on = "syn"
    BY <1>1, <1>3 DEF PacketEnd
  <2>2. ASSUME NEW j \in 1 .. n - 1 PROVE ev[j].on # "syn"
    <3>1. j \in 1 .. m
      BY <1>1
    <3> QED
      BY <3>1, <1>3 DEF PacketEnd
  <2> QED
    BY <2>1, <2>2, <1>1
<1>6. ASSUME NEW i, IsSyn(i) PROVE i = n
  <2>1. i \in Nat /\ n \in Nat
    BY <1>1, <1>6
  <2>2. ~(i < n)
    <3> SUFFICES ASSUME i < n PROVE FALSE
      OBVIOUS
    <3>1. i \in 1 .. n - 1
      BY <1>1, <1>6
    <3> QED
      BY <3>1, <1>5, <1>6
  <2>3. ~(n < i)
    <3> SUFFICES ASSUME n < i PROVE FALSE
      OBVIOUS
    <3>1. n \in 1 .. i - 1
      BY <1>1, <1>6
    <3> QED
      BY <3>1, <1>5, <1>6
  <2> QED
    BY <2>1, <2>2, <2>3
<1>7. Syn(ev) = n
  <2> HIDE DEF IsSyn
  <2>1. IsSyn(Syn(ev))
    BY <1>4, <1>5
  <2> QED
    BY <1>6, <2>1
<1> QED
  BY <1>1, <1>3, <1>7

LEMMA ValueIs ==
    ASSUME NEW ev, NEW on, NEW n \in Nat, Syn(ev) = n, NEW k \in 1 .. n, ev[k].on = on,
           \A i \in 1 .. n : ev[i].on = on => i = k
    PROVE  ValueOf(ev, on) = ev[k].v
<1> DEFINE places == {i \in 1 .. n : ev[i].on = on}
<1>1. places = {k}
  OBVIOUS
<1>2. (CHOOSE i \in {k} : TRUE) = k
  OBVIOUS
<1>3. ValueOf(ev, on) = IF places = {} THEN Garbage ELSE ev[CHOOSE i \in places : TRUE].v
  BY DEF ValueOf
<1> QED
  BY <1>1, <1>2, <1>3

\* What is made of a packet, or of the end of one.
LEMMA Tracks ==
    ASSUME PenInv, NEW n \in Nat, PacketEnd(events, n), NEW b
    PROVE  LET t == Track(EventsRead, b) IN
           /\ t.y \in Spot \cup {0}
           /\ events[1].on = "x" => t = tracked \/ t.x = t.y
           /\ n = 5 /\ events[4].v = 0 => t = Lifted
           /\ OnePacket(EventsRead) => t.x = t.y
<1> DEFINE ev == EventsRead
           t == Track(ev, b)
<1>1. /\ events \in Seq(PenEvent) /\ Packets(events) /\ tracked.y \in Spot \cup {0}
  BY DEF PenInv, PenTypeOK, PenFollowed
<1>2. Syn(ev) = n /\ \A i \in 1 .. n : ev[i] = events[i]
  BY <1>1, ReadPacket
<1>3. \A i \in 1 .. n : i \in 1 .. Len(events) /\ events[i] \in PenEvent
  BY <1>1 DEF PacketEnd
<1>4. \A i \in 1 .. n : events[i].on \in {"x", "y"} => events[i].v \in Spot
  BY <1>3 DEF PenEvent
<1> HIDE DEF ev
<1>5. t = IF n = 4 /\ ValueOf(ev, "p") = 1
          THEN [b |-> b, x |-> ValueOf(ev, "x"), y |-> ValueOf(ev, "y")]
          ELSE IF n > 4 /\ ValueOf(ev, "p") = 0 /\ ValueOf(ev, "key") # 1 THEN Lifted
          ELSE tracked
  BY <1>2 DEF Track, Motion, Release
<1>m. OnePacket(ev) => \/ n = 4 /\ ValueOf(ev, "p") = 1
                       \/ n > 4 /\ ValueOf(ev, "p") = 0 /\ ValueOf(ev, "key") # 1
  BY <1>2 DEF OnePacket, Motion, Release
<1>6. Lifted.x = 0 /\ Lifted.y = 0
  BY DEF Lifted
<1>7. CASE n < 4
  <2>1. t = tracked /\ ~(n = 5) /\ ~OnePacket(ev)
    BY <1>5, <1>7, <1>m
  <2> QED
    BY <2>1, <1>1 DEF ev
<1>8. CASE n = 4 /\ events[1].on = "x" /\ events[2].on = "y" /\ events[2].v = events[1].v
           /\ events[3].on = "p"
  <2>1. ev[1].on = "x" /\ ev[2].on = "y" /\ ev[3].on = "p" /\ ev[4].on = "syn"
        /\ ev[2].v = ev[1].v /\ ev[2].v \in Spot
    BY <1>2, <1>4, <1>8 DEF PacketEnd
  <2>2. \A i \in 1 .. n : i = 1 \/ i = 2 \/ i = 3 \/ i = 4
    BY <1>8
  <2>3. ValueOf(ev, "x") = ev[1].v
    BY <1>2, <1>8, <2>1, <2>2, ValueIs
  <2>4. ValueOf(ev, "y") = ev[2].v
    BY <1>2, <1>8, <2>1, <2>2, ValueIs
  <2>5. t = tracked \/ (t.x = t.y /\ t.y \in Spot)
    BY <1>5, <1>8, <2>1, <2>3, <2>4
  <2>6. ~(n = 5)
    BY <1>8
  <2>7. OnePacket(ev) => t.x = t.y
    BY <1>5, <1>8, <1>m, <2>1, <2>3, <2>4
  <2> QED
    BY <2>5, <2>6, <2>7, <1>1 DEF ev
<1>9. CASE n = 4 /\ events[1].on = "y" /\ events[2].on = "p" /\ events[3].on = "key"
  <2>1. ev[1].on = "y" /\ ev[2].on = "p" /\ ev[3].on = "key" /\ ev[4].on = "syn" /\ ev[1].v \in Spot
    BY <1>2, <1>4, <1>9 DEF PacketEnd
  <2>2. \A i \in 1 .. n : i = 1 \/ i = 2 \/ i = 3 \/ i = 4
    BY <1>9
  <2>3. ValueOf(ev, "y") = ev[1].v
    BY <1>2, <1>9, <2>1, <2>2, ValueIs
  <2>4. t = tracked \/ t.y \in Spot
    BY <1>5, <1>9, <2>1, <2>3
  <2>5. events[1].on # "x" /\ ~(n = 5)
    BY <1>9
  <2>6. ~OnePacket(ev)
    BY <2>1 DEF OnePacket
  <2> QED
    BY <2>4, <2>5, <2>6, <1>1 DEF ev
<1>10. CASE n = 5 /\ events[1].on = "x" /\ events[2].on = "y" /\ events[3].on = "p"
            /\ events[4].on = "key" /\ events[4].v = events[3].v
  <2>1. ev[1].on = "x" /\ ev[2].on = "y" /\ ev[3].on = "p" /\ ev[4].on = "key" /\ ev[5].on = "syn"
        /\ ev[4] = events[4] /\ ev[3] = events[3]
    BY <1>2, <1>10 DEF PacketEnd
  <2>2. \A i \in 1 .. n : i = 1 \/ i = 2 \/ i = 3 \/ i = 4 \/ i = 5
    BY <1>10
  <2>3. ValueOf(ev, "p") = ev[3].v
    BY <1>2, <1>10, <2>1, <2>2, ValueIs
  <2>4. ValueOf(ev, "key") = ev[4].v
    BY <1>2, <1>10, <2>1, <2>2, ValueIs
  <2>5. t = tracked \/ t = Lifted
    BY <1>5, <1>10
  <2>6. events[4].v = 0 => t = Lifted
    BY <1>5, <1>10, <2>1, <2>3, <2>4
  <2>7. OnePacket(ev) => t = Lifted
    BY <1>5, <1>10, <1>m
  <2> QED
    BY <2>5, <2>6, <2>7, <1>1, <1>6 DEF ev
<1> QED
  <2>1. n < 4 \/ n = 4 \/ n = 5
    BY DEF PacketEnd, Nevents
  <2> QED
    BY <1>7, <1>8, <1>9, <1>10 DEF PacketEnd

LEMMA StylusTracks == ASSUME PenInv, NEW soon \in BOOLEAN, Stylus(soon) PROVE PenInv'
<1> DEFINE m == Len(EventsRead)
<1>1. /\ events \in Seq(PenEvent) /\ Packets(events) /\ events # <<>> /\ torn \in BOOLEAN
      /\ ~torn => events[1].on = "x"
      /\ ~torn => tracked.x = tracked.y
      /\ pen = 0 => PenLast(events)
      /\ pen \in Spot \cup {0}
  BY DEF PenInv, PenTypeOK, PenFollowed, Stylus
<1>2. PICK n \in Nat : PacketEnd(events, n)
  BY <1>1, FirstPacket
<1>3. m \in n .. Len(events) /\ m \in Nat /\ Syn(EventsRead) = n
  BY <1>1, <1>2, ReadPacket
<1>4. n \in 1 .. Len(events) /\ events[n].on = "syn" /\ Len(events) \in Nat
      /\ (events[1].on = "x" => n >= 4)
  BY <1>1, <1>2 DEF PacketEnd
<1>5. PICK b : tracked' = Track(EventsRead, b)
  BY DEF Stylus
<1>6. /\ tracked'.y \in Spot \cup {0}
      /\ events[1].on = "x" => tracked' = tracked \/ tracked'.x = tracked'.y
      /\ n = 5 /\ events[4].v = 0 => tracked' = Lifted
      /\ OnePacket(EventsRead) => tracked'.x = tracked'.y
  BY <1>2, <1>5, Tracks
<1>7. /\ events' = SubSeq(events, m + 1, Len(events)) /\ pen' = pen
      /\ torn' = IF OnePacket(EventsRead) THEN FALSE ELSE torn \/ n # m
  BY <1>3 DEF Stylus
<1>r. EventsRead[1] = events[1]
  BY <1>2, <1>3, <1>4, ReadPacket, <1>1
<1>w. ~torn' => n = m /\ events[1].on = "x" /\ (torn => OnePacket(EventsRead))
  <2>1. CASE OnePacket(EventsRead)
    BY <1>3, <1>r, <2>1 DEF OnePacket
  <2>2. CASE ~OnePacket(EventsRead)
    BY <1>1, <1>7, <2>2
  <2> QED
    BY <2>1, <2>2
<1> HIDE DEF m
<1>8. /\ events' \in Seq(PenEvent) /\ Len(events') = Len(events) - m /\ Len(events') \in Nat
      /\ \A i \in 1 .. Len(events) - m : events'[i] = events[i + m]
      /\ events' = <<>> <=> m = Len(events)
  <2>1. /\ SubSeq(events, m + 1, Len(events)) \in Seq(PenEvent)
        /\ Len(SubSeq(events, m + 1, Len(events))) = Len(events) - m
        /\ \A i \in 1 .. Len(events) - m : SubSeq(events, m + 1, Len(events))[i] = events[i + m]
    BY <1>1, <1>3, <1>4
  <2>2. /\ events' \in Seq(PenEvent) /\ Len(events') = Len(events) - m
        /\ \A i \in 1 .. Len(events) - m : events'[i] = events[i + m]
    BY <2>1, <1>7
  <2>3. Len(events) - m \in Nat /\ (Len(events) - m = 0 <=> m = Len(events))
    BY <1>3, <1>4
  <2>4. events' = <<>> <=> Len(events') = 0
    BY <2>2, EmptySeq
  <2> QED
    BY <2>2, <2>3, <2>4
<1>9. Packets(events')
  <2>1. ASSUME NEW i \in 1 .. Len(events') - 1 PROVE Follows(events'[i], events'[i + 1])
    <3>1. i + m \in 1 .. Len(events) - 1 /\ (i + m) + 1 = (i + 1) + m
          /\ i \in 1 .. Len(events) - m /\ i + 1 \in 1 .. Len(events) - m
      BY <1>3, <1>4, <1>8
    <3>2. events'[i] = events[i + m] /\ events'[i + 1] = events[(i + m) + 1]
      BY <1>8, <3>1
    <3> QED
      BY <1>1, <3>1, <3>2 DEF Packets
  <2>2. ASSUME events' # <<>> PROVE events'[Len(events')].on = "syn"
    <3>1. Len(events') \in 1 .. Len(events) - m /\ Len(events') + m = Len(events)
      BY <1>3, <1>4, <1>8, <2>2
    <3>2. events'[Len(events')] = events[Len(events)]
      BY <1>8, <3>1
    <3> QED
      BY <1>1, <3>2 DEF Packets
  <2> QED
    BY <2>1, <2>2 DEF Packets
<1>10. ASSUME ~torn', events' # <<>> PROVE events'[1].on = "x"
  <2>1. m = n /\ n \in 1 .. Len(events) - 1 /\ 1 \in 1 .. Len(events) - m /\ 1 + m = n + 1
    <3>1. m = n
      BY <1>w, <1>10
    <3>2. m # Len(events)
      BY <1>8, <1>10
    <3> QED
      BY <1>3, <1>4, <3>1, <3>2
  <2>2. events'[1] = events[n + 1]
    BY <1>8, <2>1
  <2>3. Follows(events[n], events[n + 1])
    BY <1>1, <2>1 DEF Packets
  <2> QED
    BY <1>4, <2>2, <2>3 DEF Follows
<1>11. ASSUME pen' = 0 PROVE PenLast(events')
  <2> SUFFICES ASSUME Len(events') > 1
               PROVE  events'[Len(events') - 1].on = "key" /\ events'[Len(events') - 1].v = 0
    BY DEF PenLast
  <2>1. /\ Len(events') - 1 \in 1 .. Len(events) - m /\ (Len(events') - 1) + m = Len(events) - 1
        /\ Len(events) > 1
    BY <1>3, <1>4, <1>8
  <2>2. events'[Len(events') - 1] = events[Len(events) - 1]
    BY <1>8, <2>1
  <2> QED
    BY <1>1, <1>7, <1>11, <2>1, <2>2 DEF PenLast
<1>12. ASSUME ~torn' PROVE tracked'.x = tracked'.y
  <2>1. CASE OnePacket(EventsRead)
    BY <1>6, <2>1
  <2>2. CASE ~torn
    BY <1>1, <1>6, <1>w, <1>12, <2>2
  <2> QED
    BY <1>1, <1>w, <1>12, <2>1, <2>2
<1>13. ASSUME ~torn', events' = <<>>, pen' = 0 PROVE tracked' = Lifted
  <2>1. events[1].on = "x" /\ n = m /\ n = Len(events) /\ n >= 4
    BY <1>4, <1>8, <1>w, <1>13
  <2>2. events[n - 1].on = "key" /\ events[n - 1].v = 0
    BY <1>1, <1>4, <1>7, <1>13, <2>1 DEF PenLast
  <2>3. n = 5
    <3>1. n = 4 \/ n = 5
      BY <2>1, <1>2 DEF PacketEnd, Nevents
    <3>2. ASSUME n = 4 PROVE FALSE
      <4>1. events[3].on = "key" /\ events[1].on = "x"
        BY <1>1, <2>1, <2>2, <3>2
      <4> QED
        BY <1>2, <3>2, <4>1 DEF PacketEnd
    <3> QED
      BY <3>1, <3>2
  <2>4. events[4].v = 0
    BY <2>2, <2>3
  <2> QED
    BY <1>6, <2>3, <2>4
<1>14. PenFollowed'
  BY <1>6, <1>12, <1>13 DEF PenFollowed
<1>15. PenTypeOK'
  BY <1>1, <1>7, <1>8 DEF PenTypeOK
<1> QED
  BY <1>1, <1>7, <1>9, <1>10, <1>11, <1>14, <1>15 DEF PenInv

\* The pen sends a packet.
LEMMA PenSends ==
    ASSUME PenInv, NEW i \in Spot, NEW p \in {0, 1}, NEW k, k = Key(p) \/ (k = <<>> /\ p = 1),
           events' = events \o Packet(i, p, k), UNCHANGED <<tracked, torn>>,
           pen' \in Spot \cup {0}, pen' = 0 => p = 0
    PROVE  PenInv'
<1> DEFINE s == Packet(i, p, k)
<1>1. /\ s \in Seq(PenEvent) /\ Packets(s) /\ s # <<>> /\ s[1].on = "x"
      /\ p = 0 => PenLast(s) /\ Len(s) > 1
  BY PacketFacts
<1>2. events \in Seq(PenEvent) /\ Packets(events) /\ torn \in BOOLEAN
  BY DEF PenInv, PenTypeOK
<1>3. events' = events \o s
  OBVIOUS
<1> HIDE DEF s
<1>4. /\ events' \in Seq(PenEvent) /\ Packets(events') /\ events' # <<>>
      /\ events'[1] = IF events = <<>> THEN s[1] ELSE events[1]
      /\ PenLast(s) /\ Len(s) > 1 => PenLast(events')
  BY <1>1, <1>2, <1>3, PacketsConcat
<1>5. PenFollowed'
  BY <1>4 DEF PenInv, PenFollowed
<1> QED
  BY <1>1, <1>2, <1>4, <1>5 DEF PenInv, PenTypeOK

LEMMA PenStep == PenInv /\ [HandheldNext]_handheldVars => PenInv'
<1> SUFFICES ASSUME PenInv, [HandheldNext]_handheldVars PROVE PenInv'
  OBVIOUS
<1>0. \A i \in Spot : i # 0
  BY HandheldAssumption
<1>1. ASSUME NEW i \in Spot, PenMoves(i) PROVE PenInv'
  <2>1. PICK k \in {Key(1), <<>>} : events' = events \o Packet(i, 1, k)
    BY <1>1 DEF PenMoves, Sends
  <2>2. k = Key(1) \/ (k = <<>> /\ 1 = 1)
    BY <2>1
  <2>3. UNCHANGED <<tracked, torn>> /\ pen' = i /\ pen' \in Spot \cup {0} /\ pen' # 0
    BY <1>0, <1>1 DEF PenMoves
  <2> QED
    BY <2>1, <2>2, <2>3, PenSends
<1>2. ASSUME PenLifts PROVE PenInv'
  <2>1. events' = events \o Packet(pen, 0, Key(0)) /\ UNCHANGED <<tracked, torn>> /\ pen' = 0 /\ pen # 0
    BY <1>2 DEF PenLifts, Sends
  <2>2. pen \in Spot
    BY <2>1 DEF PenInv
  <2> QED
    BY <2>1, <2>2, PenSends
<1>3. ASSUME UNCHANGED <<events, pen, tracked, torn>> PROVE PenInv'
  BY <1>3 DEF PenInv, PenTypeOK, PenFollowed
<1>4. \/ \E i \in Spot : PenMoves(i)
      \/ PenLifts
      \/ \E soon \in BOOLEAN : Stylus(soon)
      \/ UNCHANGED <<events, pen, tracked, torn>>
  BY DEF HandheldNext, handheldVars, BlankWrite, BlankCheck, BlankDone, BlankIoctl, ButtonPressed,
         ButtonReleased, ButtonActs, penVars
<1> QED
  BY <1>1, <1>2, <1>3, <1>4, StylusTracks

-----------------------------------------------------------------------------
(***************************************************************************)
(* The window of win.c.  The cursors alive are the one wanted and, while a *)
(* call of drawcursor is under way, the one before it; and once the call   *)
(* has been answered, or the window was not there to be asked, the window  *)
(* thread knows no other than the one wanted.                              *)
(***************************************************************************)
WndTypeOK ==
    /\ made \in Nat /\ hcursor \in 0 .. made /\ cursors \subseteq 1 .. made
    /\ shown \in {Hidden} \cup 0 .. made
    /\ wnd \in {"none", "made", "failed"} /\ early \in BOOLEAN
    /\ winthread \in {"idle", "cursor", "arrow"}
    /\ drawer \in [at : {"idle", "sends", "sent", "failed"}, old : 0 .. made]
    /\ undrawn \subseteq Region

CursorsLive ==
    /\ cursors = (IF drawer.at = "idle" THEN {hcursor} ELSE {hcursor, drawer.old}) \ {Arrow}
    /\ drawer.at # "idle" => hcursor # drawer.old
    /\ shown \in cursors \cup {Arrow, Hidden}

\* While drawcursor waits for the window thread, it may look at hcursor too early.
CursorSeen ==
    drawer.at # "sends" =>
        /\ drawer.at = "failed" \/ (drawer.at = "sent" /\ winthread = "idle")
              => shown # drawer.old \/ drawer.old = Arrow
        /\ winthread # "idle" => (winthread = "arrow" <=> hcursor = Arrow)
        /\ wnd = "made" /\ winthread = "idle" /\ ~early => shown = hcursor

WndBefore ==
    /\ wnd # "made" => shown = Arrow /\ winthread = "idle" /\ (~early => hcursor = Arrow)
    /\ drawer.at = "failed" => early
    /\ drawer.at \in {"sends", "sent"} => wnd = "made"

WndInv == WndTypeOK /\ CursorsLive /\ CursorSeen /\ WndBefore /\ PictureCurrent

LEMMA WndStarts == WindowInit => WndInv
<1> SUFFICES ASSUME WindowInit PROVE WndInv
  OBVIOUS
<1>1. drawer.at = "idle" /\ drawer.old = Arrow /\ drawer = [at |-> "idle", old |-> Arrow]
  BY DEF WindowInit
<1>2. WndTypeOK
  <2>1. /\ made = 0 /\ hcursor = 0 /\ shown = 0 /\ cursors = {} /\ early = FALSE /\ wnd = "none"
        /\ winthread = "idle" /\ undrawn = Region
    BY DEF WindowInit, Arrow
  <2>2. drawer \in [at : {"idle", "sends", "sent", "failed"}, old : 0 .. made]
    BY <1>1, <2>1 DEF Arrow
  <2>3. made \in Nat /\ hcursor \in 0 .. made /\ shown \in 0 .. made
    BY <2>1
  <2>4. cursors \subseteq 1 .. made /\ undrawn \subseteq Region
    BY <2>1
  <2>5. early \in BOOLEAN
    BY <2>1
  <2> QED
    BY <2>1, <2>2, <2>3, <2>4, <2>5 DEF WndTypeOK
<1>3. CursorsLive /\ CursorSeen /\ WndBefore
  BY <1>1 DEF WindowInit, CursorsLive, CursorSeen, WndBefore
<1>4. PictureCurrent
  BY DEF WindowInit, PictureCurrent
<1> QED
  BY <1>2, <1>3, <1>4 DEF WndInv

LEMMA WndStep == WndInv /\ [WindowNext]_windowVars => WndInv'
<1> SUFFICES ASSUME WndInv, [WindowNext]_windowVars PROVE WndInv'
  OBVIOUS
<1> USE DEF WndInv, WndTypeOK, CursorsLive, CursorSeen, WndBefore, Arrow, Hidden
<1>t. drawer = [at |-> drawer.at, old |-> drawer.old]
  OBVIOUS
<1>1. ASSUME Winproc PROVE WndInv'
  BY <1>1 DEF Winproc, cursorvars, PictureCurrent
<1>2. ASSUME Setcursor PROVE WndInv'
  BY <1>2 DEF Setcursor, picture, PictureCurrent
<1>3. ASSUME ShowCursor PROVE WndInv'
  BY <1>3 DEF ShowCursor, picture, PictureCurrent
<1>4. ASSUME Paint PROVE WndInv'
  BY <1>4 DEF Paint, cursorvars, PictureCurrent
<1>5. ASSUME PaletteChanged PROVE WndInv'
  BY <1>5 DEF PaletteChanged, cursorvars, PictureCurrent
<1>6. ASSUME CloseWnd PROVE WndInv'
  BY <1>6 DEF CloseWnd, cursorvars, picture, PictureCurrent
<1>7. ASSUME Drawcursor PROVE WndInv'
  <2>2. /\ drawer.at = "idle" /\ made' = made + 1 /\ cursors' = cursors \cup {made + 1}
        /\ drawer' = [at |-> IF wnd = "made" THEN "sends" ELSE "failed", old |-> hcursor]
        /\ hcursor' = made + 1 /\ UNCHANGED <<shown, wnd, winthread>>
        /\ early' = (wnd # "made")
    BY <1>7 DEF Drawcursor, Tells
  <2>3. PictureCurrent' /\ undrawn' \subseteq Region
    BY <1>7 DEF Drawcursor, picture, PictureCurrent
  <2>4. WndTypeOK'
    BY <2>2, <2>3
  <2>5. CursorsLive'
    BY <2>2
  <2>6. CursorSeen' /\ WndBefore'
    BY <2>2
  <2> QED
    BY <2>3, <2>4, <2>5, <2>6
<1>8. ASSUME DrawcursorDefault PROVE WndInv'
  <2>2. /\ drawer.at = "idle" /\ hcursor # Arrow
        /\ drawer' = [at |-> IF wnd = "made" THEN "sends" ELSE "failed", old |-> hcursor]
        /\ hcursor' = Arrow /\ UNCHANGED <<shown, wnd, winthread, made, cursors>>
        /\ early' = (wnd # "made")
    BY <1>8 DEF DrawcursorDefault, Tells
  <2>3. PictureCurrent' /\ undrawn' \subseteq Region
    BY <1>8 DEF DrawcursorDefault, picture, PictureCurrent
  <2>4. WndTypeOK'
    BY <2>2, <2>3
  <2>5. CursorsLive'
    BY <2>2
  <2>6. CursorSeen' /\ WndBefore'
    BY <2>2
  <2> QED
    BY <2>3, <2>4, <2>5, <2>6
<1>9. ASSUME DestroyCursor PROVE WndInv'
  <2>1. /\ Handled /\ cursors' = cursors \ {drawer.old} /\ drawer' = [at |-> "idle", old |-> Arrow]
        /\ UNCHANGED <<wnd, hcursor, shown, made, early, undrawn, unflushed, invalid, winthread>>
    BY <1>9 DEF DestroyCursor, picture
  <2>2. /\ drawer.at \in {"failed", "sent"} /\ (drawer.at = "sent" => winthread = "idle")
    BY <2>1 DEF Handled
  <2>3. PictureCurrent'
    BY <2>1 DEF PictureCurrent
  <2>4. WndTypeOK' /\ WndBefore'
    BY <2>1, <2>2
  <2>5. CursorsLive' /\ CursorSeen'
    BY <2>1, <2>2
  <2> QED
    BY <2>3, <2>4, <2>5
<1>10. ASSUME NEW r \in Region, Draw(r) PROVE WndInv'
  BY <1>10 DEF Draw, cursorvars, PictureCurrent
<1>11. ASSUME NEW r \in Region, Flushmemscreen(r) PROVE WndInv'
  BY <1>11 DEF Flushmemscreen, cursorvars, PictureCurrent
<1>12. ASSUME NEW large \in BOOLEAN, Fullscreen(large) PROVE WndInv'
  BY <1>12 DEF Fullscreen, cursorvars, PictureCurrent
<1>13. ASSUME UNCHANGED windowVars PROVE WndInv'
  BY <1>13 DEF windowVars, cursorvars, picture, PictureCurrent
<1> QED
  BY <1>1, <1>2, <1>3, <1>4, <1>5, <1>6, <1>7, <1>8, <1>9, <1>10, <1>11, <1>12, <1>13 DEF WindowNext

LEMMA WndPromise == WndInv => WindowCurrent
BY DEF WndInv, WindowCurrent, CursorAlive, CursorsLive, CursorCurrent, CursorSeen

-----------------------------------------------------------------------------
(***************************************************************************)
(* The palette.  Each entry of a palette is determined by its index, and   *)
(* there is one for each of the 256 indices.                               *)
(***************************************************************************)
IsPalette(p) ==
    /\ \A e \in p : e[1] \in 0 .. 255 /\ {e[2], e[3], e[4]} \subseteq 0 .. 255
    /\ \A i \in 0 .. 255 : \E e \in p : e[1] = i
    /\ \A e, f \in p : e[1] = f[1] => e = f

Filled(p) ==
    /\ Cardinality(p) = 256 /\ {e[1] : e \in p} = 0 .. 255
    /\ \A e \in p : {e[2], e[3], e[4]} \subseteq 0 .. 255

LEMMA PaletteCounts ==
    ASSUME NEW p, IsPalette(p)
    PROVE  Filled(p)
<1> DEFINE entry == [i \in 0 .. 255 |-> CHOOSE e \in p : e[1] = i]
<1>1. \A i \in 0 .. 255 : entry[i] \in p /\ entry[i][1] = i
  BY DEF IsPalette
<1>2. entry \in [0 .. 255 -> p]
  BY <1>1
<1>3. \A i, j \in 0 .. 255 : entry[i] = entry[j] => i = j
  BY <1>1
<1>4. \A e \in p : \E i \in 0 .. 255 : entry[i] = e
  BY <1>1, ZenonT(60) DEF IsPalette
<1> HIDE DEF entry
<1>5. ExistsBijection(0 .. 255, p)
  <2>1. entry \in Injection(0 .. 255, p)
    BY <1>2, <1>3, ZenonT(60) DEF Injection, IsInjective
  <2>2. entry \in Surjection(0 .. 255, p)
    BY <1>2, <1>4 DEF Surjection
  <2> QED
    BY <2>1, <2>2 DEF ExistsBijection, Bijection
<1>6. IsFiniteSet(0 .. 255) /\ Cardinality(0 .. 255) = 256
  <2>1. \A a, b \in Int : IsFiniteSet(a .. b) /\ Cardinality(a .. b) = IF a > b THEN 0 ELSE b - a + 1
    BY FS_Interval
  <2>2. 0 \in Int /\ 255 \in Int
    OBVIOUS
  <2>3. IsFiniteSet(0 .. 255) /\ Cardinality(0 .. 255) = IF 0 > 255 THEN 0 ELSE 255 - 0 + 1
    BY <2>1, <2>2, Zenon
  <2>4. ~(0 > 255) /\ 255 - 0 + 1 = 256
    OBVIOUS
  <2> QED
    BY <2>3, <2>4
<1>7. Cardinality(p) = 256
  BY <1>5, <1>6, FS_Bijection
<1>8. {e[1] : e \in p} = 0 .. 255
  <2>1. \A e \in p : e[1] \in 0 .. 255
    BY DEF IsPalette
  <2>2. \A i \in 0 .. 255 : \E e \in p : e[1] = i
    BY DEF IsPalette
  <2> QED
    BY <2>1, <2>2
<1>9. \A e \in p : {e[2], e[3], e[4]} \subseteq 0 .. 255
  BY DEF IsPalette
<1> QED
  BY <1>7, <1>8, <1>9 DEF Filled

LEMMA GreysFill == ASSUME NEW d \in {1, 4, 8} PROVE IsPalette(Gmap(d))
<1> DEFINE Grey1(i) == 255 - (i \div 2 ^ (8 - d)) * (255 \div (2 ^ d - 1))
           Entry(i) == <<255 - i, Grey1(i), Grey1(i), Grey1(i)>>
<1>1. Gmap(d) = {Entry(i) : i \in 0 .. 255}
  BY DEF Gmap
<1>2. \A i \in 0 .. 255 : Grey1(i) \in 0 .. 255
  <2>1. CASE d = 1
    <3>1. 2 ^ (8 - d) = 128 /\ 255 \div (2 ^ d - 1) = 255
      BY <2>1
    <3>2. \A i \in 0 .. 255 : i \div 128 \in 0 .. 1
      OBVIOUS
    <3> QED
      BY <3>1, <3>2
  <2>2. CASE d = 4
    <3>1. 2 ^ (8 - d) = 16 /\ 255 \div (2 ^ d - 1) = 17
      BY <2>2
    <3>2. \A i \in 0 .. 255 : i \div 16 \in 0 .. 15
      OBVIOUS
    <3> QED
      BY <3>1, <3>2
  <2>3. CASE d = 8
    <3>1. 2 ^ (8 - d) = 1 /\ 255 \div (2 ^ d - 1) = 1
      BY <2>3
    <3>2. \A i \in 0 .. 255 : i \div 1 = i
      OBVIOUS
    <3> QED
      BY <3>1, <3>2
  <2> QED
    BY <2>1, <2>2, <2>3
<1> HIDE DEF Grey1
<1>3. \A i \in 0 .. 255 : Entry(i)[1] = 255 - i /\ 255 - i \in 0 .. 255
  OBVIOUS
<1>4. \A i, j \in 0 .. 255 : 255 - i = 255 - j => i = j
  OBVIOUS
<1>5. \A i \in 0 .. 255 : 255 - (255 - i) = i
  OBVIOUS
<1>6. \A i \in 0 .. 255 : {Entry(i)[2], Entry(i)[3], Entry(i)[4]} \subseteq 0 .. 255
  BY <1>2, SMTT(120)
<1>7. \A e \in Gmap(d) : \E i \in 0 .. 255 : e = Entry(i)
  BY <1>1
<1>8. \A i \in 0 .. 255 : Entry(i) \in Gmap(d)
  BY <1>1
<1>9. ASSUME NEW e \in Gmap(d), NEW f \in Gmap(d), e[1] = f[1] PROVE e = f
  <2>1. PICK i \in 0 .. 255 : e = Entry(i)
    BY <1>7
  <2>2. PICK j \in 0 .. 255 : f = Entry(j)
    BY <1>7
  <2>3. i = j
    BY <2>1, <2>2, <1>3, <1>4, <1>9
  <2> QED
    BY <2>1, <2>2, <2>3
<1>10. \A i \in 0 .. 255 : \E e \in Gmap(d) : e[1] = i
  <2> SUFFICES ASSUME NEW i \in 0 .. 255 PROVE \E e \in Gmap(d) : e[1] = i
    OBVIOUS
  <2>1. 255 - i \in 0 .. 255
    BY <1>3
  <2> DEFINE j == 255 - i
  <2>2. j \in 0 .. 255 /\ 255 - j = i
    BY <2>1, <1>5
  <2> HIDE DEF j
  <2>3. Entry(j) \in Gmap(d)
    BY <2>2, <1>8
  <2>4. Entry(j)[1] = i
    BY <2>2
  <2> QED
    BY <2>3, <2>4
<1>11. \A e \in Gmap(d) : e[1] \in 0 .. 255 /\ {e[2], e[3], e[4]} \subseteq 0 .. 255
  <2> SUFFICES ASSUME NEW e \in Gmap(d) PROVE e[1] \in 0 .. 255 /\ {e[2], e[3], e[4]} \subseteq 0 .. 255
    OBVIOUS
  <2>1. PICK i \in 0 .. 255 : e = Entry(i)
    BY <1>7
  <2>2. Grey1(i) \in 0 .. 255
    BY <1>2
  <2> QED
    BY <2>1, <2>2
<1> QED
  BY <1>9, <1>10, <1>11 DEF IsPalette

TwoBits == 0 .. 3

LEMMA LargestFacts ==
    ASSUME NEW r \in TwoBits, NEW g \in TwoBits, NEW b \in TwoBits
    PROVE  Largest({r, g, b}) \in 0 .. 3 /\ \A c \in {r, g, b} : c <= Largest({r, g, b})
<1> USE DEF TwoBits
<1>1. \E m \in {r, g, b} : \A n \in {r, g, b} : n <= m
  <2>1. CASE g <= r /\ b <= r
    BY <2>1
  <2>2. CASE r <= g /\ b <= g
    BY <2>2
  <2>3. CASE r <= b /\ g <= b
    BY <2>3
  <2> QED
    BY <2>1, <2>2, <2>3
<1>2. Largest({r, g, b}) \in {r, g, b} /\ \A n \in {r, g, b} : n <= Largest({r, g, b})
  BY <1>1 DEF Largest
<1> QED
  BY <1>2

LEMMA ShadeBounded ==
    ASSUME NEW r \in TwoBits, NEW g \in TwoBits, NEW b \in TwoBits, NEW c \in {r, g, b}, NEW val \in TwoBits
    PROVE  Shade(c, r, g, b, val) \in 0 .. 255
<1> USE DEF TwoBits
<1> DEFINE den == Largest({r, g, b})
<1>1. den \in 0 .. 3 /\ c <= den /\ c \in TwoBits
  BY LargestFacts
<1>2. Shade(c, r, g, b, val) = IF den = 0 THEN val * 17 ELSE (c * 17 * (4 * den + val)) \div den
  BY DEF Shade
<1> HIDE DEF den
<1>3. CASE den = 0
  BY <1>2, <1>3
<1>4. CASE den = 1
  <2>1. c = 0 \/ c = 1
    BY <1>1, <1>4
  <2> QED
    BY <1>2, <1>4, <2>1
<1>5. CASE den = 2
  <2>1. c = 0 \/ c = 1 \/ c = 2
    BY <1>1, <1>5
  <2> QED
    BY <1>2, <1>5, <2>1
<1>6. CASE den = 3
  <2>1. c = 0 \/ c = 1 \/ c = 2 \/ c = 3
    BY <1>1, <1>6
  <2> QED
    BY <1>2, <1>6, <2>1
<1> QED
  BY <1>1, <1>3, <1>4, <1>5, <1>6

LEMMA IndexBounded ==
    ASSUME NEW r \in TwoBits, NEW val \in TwoBits, NEW g \in TwoBits, NEW b \in TwoBits
    PROVE  CmapIndex(r, val, g, b) \in 0 .. 255
BY DEF CmapIndex, TwoBits

LEMMA IndexCovers ==
    ASSUME NEW i \in 0 .. 255
    PROVE  \E r, val, g, b \in TwoBits : CmapIndex(r, val, g, b) = i
<1> USE DEF TwoBits
<1> DEFINE r == i \div 64
           val == (i % 64) \div 16
           m == i % 16
           rest == (m + r - val) % 16
           g == rest \div 4
           b == rest % 4
<1>1. r \in TwoBits /\ val \in TwoBits /\ m \in 0 .. 15 /\ i = 64 * r + 16 * val + m
  OBVIOUS
<1>2. rest \in 0 .. 15
  OBVIOUS
<1>3. g \in TwoBits /\ b \in TwoBits /\ rest = 4 * g + b
  BY <1>2
<1> HIDE DEF r, val, m, g, b
<1>4. (val - r + rest) % 16 = m
  BY <1>1
<1>5. val - r + 4 * g + b = val - r + rest
  BY <1>1, <1>2, <1>3
<1>6. CmapIndex(r, val, g, b) = i
  BY <1>1, <1>4, <1>5 DEF CmapIndex
<1> QED
  BY <1>1, <1>3, <1>6

LEMMA ColoursFill == IsPalette(Cmap)
<1> DEFINE Entry(r, val, g, b) == <<CmapIndex(r, val, g, b), Shade(r, r, g, b, val),
                                    Shade(g, r, g, b, val), Shade(b, r, g, b, val)>>
<1>1. Cmap = {Entry(r, val, g, b) : r, val, g, b \in TwoBits}
  BY DEF Cmap, TwoBits
<1>2. \A e \in Cmap : \E r, val, g, b \in TwoBits : e = Entry(r, val, g, b)
  BY <1>1
<1>3. \A r, val, g, b \in TwoBits : Entry(r, val, g, b) \in Cmap
  BY <1>1
<1>4. \A r, val, g, b \in TwoBits : Entry(r, val, g, b)[1] = CmapIndex(r, val, g, b)
  OBVIOUS
<1>5. \A r, val, g, b \in TwoBits : CmapIndex(r, val, g, b) \in 0 .. 255
  BY IndexBounded
<1>6. ASSUME NEW r \in TwoBits, NEW val \in TwoBits, NEW g \in TwoBits, NEW b \in TwoBits
      PROVE  {Entry(r, val, g, b)[2], Entry(r, val, g, b)[3], Entry(r, val, g, b)[4]} \subseteq 0 .. 255
  <2>1. \A c \in {r, g, b} : Shade(c, r, g, b, val) \in 0 .. 255
    <3> SUFFICES ASSUME NEW c \in {r, g, b} PROVE Shade(c, r, g, b, val) \in 0 .. 255
      OBVIOUS
    <3> QED
      BY ShadeBounded
  <2>2. /\ Entry(r, val, g, b)[2] = Shade(r, r, g, b, val) /\ Entry(r, val, g, b)[3] = Shade(g, r, g, b, val)
        /\ Entry(r, val, g, b)[4] = Shade(b, r, g, b, val)
    OBVIOUS
  <2> HIDE DEF Entry
  <2> QED
    BY <2>1, <2>2
<1> HIDE DEF Entry
<1>7. \A e \in Cmap : e[1] \in 0 .. 255 /\ {e[2], e[3], e[4]} \subseteq 0 .. 255
  <2> SUFFICES ASSUME NEW e \in Cmap PROVE e[1] \in 0 .. 255 /\ {e[2], e[3], e[4]} \subseteq 0 .. 255
    OBVIOUS
  <2>1. PICK r \in TwoBits, val \in TwoBits, g \in TwoBits, b \in TwoBits : e = Entry(r, val, g, b)
    BY <1>2
  <2>2. e[1] \in 0 .. 255
    <3>1. e[1] = CmapIndex(r, val, g, b)
      BY <2>1 DEF Entry
    <3> QED
      BY <3>1, IndexBounded
  <2>3. {e[2], e[3], e[4]} \subseteq 0 .. 255
    <3>1. {Entry(r, val, g, b)[2], Entry(r, val, g, b)[3], Entry(r, val, g, b)[4]} \subseteq 0 .. 255
      BY <1>6
    <3> QED
      BY <2>1, <3>1
  <2> QED
    BY <2>2, <2>3
<1>8. \A i \in 0 .. 255 : \E e \in Cmap : e[1] = i
  <2> SUFFICES ASSUME NEW i \in 0 .. 255 PROVE \E e \in Cmap : e[1] = i
    OBVIOUS
  <2>1. PICK r \in TwoBits, val \in TwoBits, g \in TwoBits, b \in TwoBits : CmapIndex(r, val, g, b) = i
    BY IndexCovers
  <2>2. Entry(r, val, g, b) \in Cmap /\ Entry(r, val, g, b)[1] = i
    BY <2>1, <1>3, <1>4
  <2> QED
    BY <2>2
<1>9. ASSUME NEW e \in Cmap, NEW f \in Cmap, e[1] = f[1] PROVE e = f
  <2>1. PICK r \in TwoBits, val \in TwoBits, g \in TwoBits, b \in TwoBits : e = Entry(r, val, g, b)
    BY <1>2
  <2>2. PICK r2 \in TwoBits, val2 \in TwoBits, g2 \in TwoBits, b2 \in TwoBits : f = Entry(r2, val2, g2, b2)
    BY <1>2
  <2>3. CmapIndex(r, val, g, b) = CmapIndex(r2, val2, g2, b2)
    <3>1. e[1] = CmapIndex(r, val, g, b)
      BY <2>1 DEF Entry
    <3>2. f[1] = CmapIndex(r2, val2, g2, b2)
      BY <2>2 DEF Entry
    <3> QED
      BY <1>9, <3>1, <3>2
  <2>4. <<r, val, g, b>> = <<r2, val2, g2, b2>>
    <3> USE DEF TwoBits
    <3> DEFINE x == val - r + 4 * g + b
               y == val2 - r2 + 4 * g2 + b2
               m == x % 16
               n == y % 16
    <3>1. m \in 0 .. 15 /\ n \in 0 .. 15 /\ x \in Int /\ y \in Int
      OBVIOUS
    <3>2. 64 * r + 16 * val + m = 64 * r2 + 16 * val2 + n
      BY <2>3 DEF CmapIndex
    <3> HIDE DEF m, n
    <3>3. r = r2 /\ val = val2 /\ m = n
      BY <3>1, <3>2
    <3>4. x % 16 = y % 16 /\ x - y = (4 * g + b) - (4 * g2 + b2)
      BY <3>3 DEF m, n
    <3> HIDE DEF x, y
    <3>5. x - y \in -15 .. 15
      BY <3>1, <3>4
    <3>6. x = y
      BY <3>1, <3>4, <3>5
    <3>7. 4 * g + b = 4 * g2 + b2
      <4> DEFINE k == 4 * g + b
                 k2 == 4 * g2 + b2
      <4>1. k \in Int /\ k2 \in Int /\ x - y = k - k2
        BY <3>4
      <4> HIDE DEF k, k2
      <4>2. k = k2
        BY <3>1, <3>6, <4>1
      <4> QED
        BY <4>2 DEF k, k2
    <3> QED
      BY <3>3, <3>7
  <2> QED
    BY <2>1, <2>2, <2>4
<1> QED
  BY <1>7, <1>8, <1>9 DEF IsPalette

-----------------------------------------------------------------------------
(***************************************************************************)
(* The screen of win.c.  While attachscreen waits for its thread, the      *)
(* bitmap it made is that of the width and the depth it chose.             *)
(***************************************************************************)
Palettes == {{}, Cmap, Gmap(1), Gmap(4), Gmap(8)}

BitmapFits ==
    attaching => /\ bits.depth \in {8, 16, 24, 32} /\ bits.row = RowBytes(xsize, bits.depth)
                 /\ "unaligned" \in blind \/ xsize % 4 = 0

ThreadGoes ==
    /\ ~(attached /\ attaching)
    /\ attaching => (thread = "none" <=> Forsaken)

ScrInv ==
    /\ xsize \in Nat /\ pal \in Palettes
    /\ calls \in Nat /\ (calls = 0 => ~attaching)
    /\ BitmapFits /\ ThreadGoes /\ ReplyFits /\ AttachedHasThread

LEMMA ScrStarts == ScreenInit => ScrInv
BY DEF ScreenInit, ScrInv, Palettes, BitmapFits, ThreadGoes, ReplyFits, AttachedHasThread, Forsaken

LEMMA RowIsFour ==
    ASSUME NEW w \in Nat, w % 4 = 0, NEW depth \in {8, 16, 24, 32}
    PROVE  4 * ((w \div 4) * (depth \div 8)) = RowBytes(w, depth)
<1> DEFINE k == w \div 4
<1>1. k \in Nat /\ w = 4 * k
  OBVIOUS
<1> HIDE DEF k
<1>2. CASE depth = 8
  <2>1. (4 * k * 8 + 31) \div 32 = k /\ depth \div 8 = 1
    BY <1>1, <1>2
  <2> QED
    BY <1>1, <1>2, <2>1 DEF RowBytes, k
<1>3. CASE depth = 16
  <2>1. (4 * k * 16 + 31) \div 32 = 2 * k /\ depth \div 8 = 2
    BY <1>1, <1>3
  <2> QED
    BY <1>1, <1>3, <2>1 DEF RowBytes, k
<1>4. CASE depth = 24
  <2>1. (4 * k * 24 + 31) \div 32 = 3 * k /\ depth \div 8 = 3
    BY <1>1, <1>4
  <2> QED
    BY <1>1, <1>4, <2>1 DEF RowBytes, k
<1>5. CASE depth = 32
  <2>1. (4 * k * 32 + 31) \div 32 = 4 * k /\ depth \div 8 = 4
    BY <1>1, <1>5
  <2> QED
    BY <1>1, <1>5, <2>1 DEF RowBytes, k
<1> QED
  BY <1>2, <1>3, <1>4, <1>5

LEMMA FormatDepth == ASSUME NEW c PROVE Format(c).depth \in {8, 16, 24, 32}
BY DEF Format, Grey, Deep

LEMMA ScrStep == ScrInv /\ [ScreenNext]_screenVars => ScrInv'
<1> SUFFICES ASSUME ScrInv, [ScreenNext]_screenVars PROVE ScrInv'
  OBVIOUS
<1> USE ScreenAssumption DEF ScrInv, BitmapFits, ThreadGoes, ReplyFits, AttachedHasThread, Forsaken, attach, winproc
<1>1. ASSUME NEW c \in Option, NEW w \in Width, Options(c, w) PROVE ScrInv'
  BY <1>1 DEF Options
<1>2. ASSUME NEW host \in HostWidth, NEW bpp \in {8, 16, 24}, AttachBegin(host, bpp) PROVE ScrInv'
  <2> DEFINE c == IF displaychan = "unset" THEN Autochan(bpp) ELSE displaychan
             f == Format(c)
  <2>1. f.depth \in {8, 16, 24, 32}
    BY FormatDepth
  <2>2. pal' \in Palettes
    <3>1. pal' = IF c \in DOMAIN Grey THEN Gmap(Grey[c]) ELSE Cmap
      BY <1>2 DEF AttachBegin
    <3>2. c \in DOMAIN Grey => Grey[c] \in {1, 4, 8}
      BY DEF Grey
    <3> HIDE DEF c
    <3> QED
      BY <3>1, <3>2 DEF Palettes
  <2>3. /\ ~attached /\ ~attaching /\ calls' = calls + 1 /\ reply' = NoReply /\ attached' = attached
        /\ xsize' = Smaller(Narrowed(xsize), host)
        /\ xsize' % 4 # 0 => "unaligned" \in blind'
        /\ "nowindow" \in blind' <=> "nowindow" \in blind \/ (attaching' /\ thread' = "none")
        /\ "early" \in blind' <=> "early" \in blind
    BY <1>2 DEF AttachBegin
  <2>4. \/ bits' = [chan |-> f.chan, depth |-> f.depth, row |-> RowBytes(xsize', f.depth)]
           /\ attaching' = TRUE /\ thread' \in {"none", "started"}
        \/ UNCHANGED <<bits, attaching, thread>>
    BY <1>2 DEF AttachBegin
  <2> HIDE DEF f
  <2>5. xsize' \in Nat
    <3>1. host \in Nat /\ Narrowed(xsize) \in Nat
      BY DEF Narrowed
    <3> QED
      BY <2>3, <3>1 DEF Smaller
  <2>6. BitmapFits'
    <3>1. CASE attaching'
      <4>1. bits'.depth = f.depth /\ bits'.row = RowBytes(xsize', f.depth)
        <5> DEFINE row == RowBytes(xsize', f.depth)
        <5>1. bits' = [chan |-> f.chan, depth |-> f.depth, row |-> row]
          BY <2>3, <2>4, <3>1
        <5> HIDE DEF row
        <5>2. bits'.depth = f.depth /\ bits'.row = row
          BY <5>1
        <5> QED
          BY <5>2 DEF row
      <4> QED
        BY <2>1, <2>3, <4>1
    <3>2. CASE ~attaching'
      BY <3>2
    <3> QED
      BY <3>1, <3>2
  <2>7. ThreadGoes' /\ ReplyFits' /\ AttachedHasThread'
    BY <2>3, <2>4
  <2> QED
    BY <2>2, <2>3, <2>5, <2>6, <2>7
<1>3. ASSUME AttachEnd PROVE ScrInv'
  <2>1. /\ attaching /\ attaching' = FALSE /\ attached' = TRUE
        /\ UNCHANGED <<xsize, bits, pal, calls, thread, blind>>
    BY <1>3 DEF AttachEnd
  <2>2. /\ reply'.chan = bits.chan /\ reply'.depth = bits.depth
        /\ reply'.width = (xsize \div 4) * (bits.depth \div 8)
    BY <1>3 DEF AttachEnd, Replies
  <2>3. "unaligned" \in blind \/ 4 * ((xsize \div 4) * (bits.depth \div 8)) = bits.row
    BY <2>1, RowIsFour
  <2>4. ReplyFits'
    BY <2>1, <2>2, <2>3
  <2>5. AttachedHasThread' /\ ThreadGoes' /\ BitmapFits'
    BY <2>1
  <2> QED
    BY <2>1, <2>4, <2>5
<1>4. ASSUME AttachAgain PROVE ScrInv'
  BY <1>4 DEF AttachAgain
<1>5. ASSUME Register PROVE ScrInv'
  BY <1>5 DEF Register
<1>6. ASSUME CreateWindow PROVE ScrInv'
  BY <1>6 DEF CreateWindow
<1>7. ASSUME CloseWindow PROVE ScrInv'
  BY <1>7 DEF CloseWindow, GivenUp
<1>8. ASSUME UNCHANGED screenVars PROVE ScrInv'
  BY <1>8 DEF screenVars
<1> QED
  BY <1>1, <1>2, <1>3, <1>4, <1>5, <1>6, <1>7, <1>8 DEF ScreenNext

LEMMA ScrPromise == ScrInv => ScreenAttached
<1> SUFFICES ASSUME ScrInv PROVE ScreenAttached
  OBVIOUS
<1>1. \A d \in {1, 4, 8} : IsPalette(Gmap(d))
  BY GreysFill
<1>2. pal # {} => IsPalette(pal)
  BY <1>1, ColoursFill DEF ScrInv, Palettes
<1>3. PaletteFilled
  <2>1. pal # {} => Filled(pal)
    BY <1>2, PaletteCounts
  <2> QED
    BY <2>1 DEF Filled, PaletteFilled
<1> QED
  BY <1>3 DEF ScrInv, ScreenAttached

-----------------------------------------------------------------------------
(***************************************************************************)
(* A behaviour of Emu is one of each driver.                               *)
(***************************************************************************)
LEMMA EmuIsEach ==
    Spec => /\ ConsoleSpec /\ SnarfSpec /\ KprintSpec
            /\ HandheldSpec /\ ApmSpec /\ ScreenSpec /\ WindowSpec
<1>1. Init => /\ ConsoleInit /\ SnarfInit /\ KprintInit
              /\ HandheldInit /\ ApmInit /\ ScreenInit /\ WindowInit
  BY DEF Init
<1>2. [Next]_emuVars => /\ [ConsoleNext]_consoleVars /\ [SnarfNext]_snarfVars /\ [KprintNext]_kprintVars
                        /\ [HandheldNext]_handheldVars /\ [ApmNext]_apmVars
                        /\ [ScreenNext]_screenVars /\ [WindowNext]_windowVars
  BY DEF Next, emuVars
<1> QED
  BY <1>1, <1>2, PTL DEF Spec, ConsoleSpec, SnarfSpec, KprintSpec, HandheldSpec, ApmSpec,
                         ScreenSpec, WindowSpec

\* The files of devcons.c keep their promises whatever processes use them, in
\* whatever order, and however long the queues and the buffers are: what is typed
\* is passed on in whole lines, once and in order; a reader of the clipboard gets
\* one text of it; and there is a queue of kernel prints while its one file is
\* open.
THEOREM ConsFilesKeep == Spec => []ConsFiles
<1>1. ConsInv => LinesDelivered
  BY DEF ConsInv, ConsEdits, ConsProcs, LinesDelivered
<1>2. SnarfInv => SnarfWhole
  BY DEF SnarfInv
<1>3. ConsInv /\ SnarfInv /\ KprintInv => ConsFiles
  BY <1>1, <1>2, KprintPromise DEF ConsFiles
<1>4. ConsoleSpec => []ConsInv
  BY ConsStarts, ConsStep, PTL DEF ConsoleSpec
<1>5. SnarfSpec => []SnarfInv
  BY SnarfStarts, SnarfStep, PTL DEF SnarfSpec
<1>6. KprintSpec => []KprintInv
  BY KprintStarts, KprintStep, PTL DEF KprintSpec
<1> QED
  BY <1>3, <1>4, <1>5, <1>6, EmuIsEach, PTL

\* The handheld keeps its promises whatever the pen, its user and the programs
\* that blank the screen do, and however many packets of the pen are kept.  When
\* no call of apm_blank is under way, and no two ever overlapped, it knows
\* whether its screen is lit; unless a read took a part of a packet, a lifted pen
\* is known as lifted once all is read, and a position is that of one packet;
\* and the first read of the battery by one who has its file alone is answered.
THEOREM HandheldKnown == Spec => []HandheldServes
<1>1. PenInv => PenFollowed
  BY DEF PenInv
<1>2. BlankInv /\ PenInv /\ ApmInv => HandheldServes
  BY <1>1, BlankPromise, ApmPromise DEF HandheldServes, HandheldKnows
<1>3. HandheldSpec => []BlankInv
  BY BlankStarts, BlankStep, PTL DEF HandheldSpec
<1>4. HandheldSpec => []PenInv
  BY PenStarts, PenStep, PTL DEF HandheldSpec
<1>5. ApmSpec => []ApmInv
  BY ApmStarts, ApmStep, PTL DEF ApmSpec
<1> QED
  BY <1>2, <1>3, <1>4, <1>5, EmuIsEach, PTL

\* The screen of win.c keeps its promises for every width of the screen and of
\* the host's, every format asked for and any number of calls: what attachscreen
\* replies fits its bitmap, a palette is full, and a window that is there shows
\* the picture and the cursor it was given last, except in the cases the
\* definitions name.
THEOREM ScreenIsShown == Spec => []ScreenShown
<1>1. ScrInv /\ WndInv => ScreenShown
  BY ScrPromise, WndPromise DEF ScreenShown
<1>2. ScreenSpec => []ScrInv
  BY ScrStarts, ScrStep, PTL DEF ScreenSpec
<1>3. WindowSpec => []WndInv
  BY WndStarts, WndStep, PTL DEF WindowSpec
<1> QED
  BY <1>1, <1>2, <1>3, EmuIsEach, PTL

-----------------------------------------------------------------------------
(***************************************************************************)
(* #A, the registry queries and full screen of devarch.c: whatever         *)
(* processes open it, walk it, read and write its files, and whatever the  *)
(* registry answers or fails, ArchClean holds.                             *)
(*                                                                         *)
(* The invariant follows the C code: what a process has to give back when  *)
(* an error is raised (its stack) is told by where it is, the lock of the  *)
(* registry buffer is held by those that are between lock and unlock, and  *)
(* what a call has allocated is its own.                                   *)
(***************************************************************************)
ArchStack(place) ==
    CASE place = "root" -> <<"cb">>
      [] place = "item" -> <<"cb", "key">>
      [] place \in {"lock", "answer"} -> <<"cb", "key", "item">>
      [] place = "open" -> <<"cb", "key", "item", "reglock">>
      [] place = "size" -> <<"cb", "key", "item", "reglock", "hkey">>
      [] place = "value" -> <<"cb", "key", "item", "reglock", "hkey", "value">>
      [] place = "formatted" -> <<"p">>
      [] OTHER -> <<>>

Handlers == {"cb", "key", "item", "reglock", "hkey", "value", "p"}

\* Handlers above and with that of getregistry run, or all of them.
LEMMA UnwoundFrom ==
    ASSUME NEW l, NEW n \in Nat, Len(l) = n, NEW i \in 1 .. n, l[i] = "reglock",
           \A j \in 1 .. n : j # i => l[j] # "reglock"
    PROVE  Unwound(l) = SubSeq(l, i, n)
<1> DEFINE I == {j \in 1 .. n : l[j] = "reglock"}
<1>1. I = {i}
  OBVIOUS
<1>2. (CHOOSE x \in {i} : \A y \in {i} : x >= y) = i
  OBVIOUS
<1>3. SelectLastInSeq(l, LAMBDA x : x = "reglock") = i
  BY <1>1, <1>2 DEF SelectLastInSeq, Max
<1> QED
  BY <1>3 DEF Unwound

LEMMA UnwoundAll ==
    ASSUME NEW l, NEW n \in Nat, Len(l) = n, \A j \in 1 .. n : l[j] # "reglock"
    PROVE  Unwound(l) = l
<1> DEFINE I == {j \in 1 .. n : l[j] = "reglock"}
<1>1. I = {}
  OBVIOUS
<1>3. SelectLastInSeq(l, LAMBDA x : x = "reglock") = 0
  BY <1>1 DEF SelectLastInSeq
<1> QED
  BY <1>3 DEF Unwound
ArchQuery == <<"cb", "key", "item">>
Kept(l) == SubSeq(l, 1, Len(l) - Len(Unwound(l)))

LEMMA QuerySet == ToSet(ArchQuery) = {"cb", "key", "item"} /\ Len(ArchQuery) = 3
BY DEF ArchQuery, ToSet

LEMMA SubSeqIs ==
    ASSUME NEW l \in Seq(Handlers), NEW t \in Seq(Handlers), NEW a \in Nat \ {0}, NEW b \in Nat,
           b <= Len(l), Len(t) = b - a + 1, \A k \in 1 .. Len(t) : t[k] = l[a + k - 1]
    PROVE  SubSeq(l, a, b) = t
<1> DEFINE u == SubSeq(l, a, b)
<1>1. u \in Seq(Handlers) /\ Len(u) = b - a + 1
  OBVIOUS
<1>2. \A k \in 1 .. b - a + 1 : u[k] = l[a + k - 1]
  OBVIOUS
<1> HIDE DEF u
<1>3. Len(u) = Len(t) /\ \A k \in 1 .. Len(u) : u[k] = t[k]
  BY <1>1, <1>2
<1>4. u = t
  BY <1>1, <1>3, SeqEqual
<1> QED
  BY <1>4 DEF u

LEMMA UnwoundLock ==
    ASSUME NEW l \in Seq(Handlers), NEW n \in 4 .. 6, Len(l) = n,
           l[1] = "cb", l[2] = "key", l[3] = "item", l[4] = "reglock",
           \A j \in 5 .. n : l[j] # "reglock"
    PROVE  /\ Released(l) = {l[j] : j \in 4 .. n}
           /\ Kept(l) = ArchQuery /\ SubSeq(l, 1, 3) = ArchQuery
<1>1. n \in Nat /\ 4 \in 1 .. n /\ \A j \in 1 .. n : j # 4 => l[j] # "reglock"
  <2>1. \A j \in 1 .. n : j \in {1, 2, 3, 4} \/ j \in 5 .. n
    OBVIOUS
  <2> QED
    BY <2>1
<1>2. Unwound(l) = SubSeq(l, 4, n)
  BY <1>1, UnwoundFrom
<1>3. Len(Unwound(l)) = n - 3 /\ \A k \in 1 .. n - 3 : Unwound(l)[k] = l[k + 3]
  BY <1>2
<1>4. DOMAIN Unwound(l) = 1 .. n - 3
  BY <1>2
<1>5. Released(l) = {l[j] : j \in 4 .. n}
  <2>1. \A j \in 4 .. n : j - 3 \in 1 .. n - 3 /\ (j - 3) + 3 = j
    OBVIOUS
  <2> QED
    BY <1>3, <1>4, <2>1 DEF Released, ToSet
<1>6. SubSeq(l, 1, 3) = ArchQuery
  <2>1. ArchQuery \in Seq(Handlers) /\ Len(ArchQuery) = 3
    BY DEF ArchQuery, Handlers
  <2>2. \A k \in 1 .. 3 : ArchQuery[k] = l[k] /\ 1 + k - 1 = k
    BY DEF ArchQuery
  <2>3. \A k \in 1 .. Len(ArchQuery) : ArchQuery[k] = l[1 + k - 1]
    BY <2>1, <2>2
  <2>4. 3 <= Len(l) /\ Len(ArchQuery) = 3 - 1 + 1
    BY <2>1
  <2> QED
    BY <2>1, <2>3, <2>4, SubSeqIs
<1>7. Len(l) - Len(Unwound(l)) = 3
  BY <1>3
<1> QED
  BY <1>5, <1>6, <1>7 DEF Kept

LEMMA UnwoundOpen ==
    ASSUME NEW l, l = <<"cb", "key", "item", "reglock">>
    PROVE  /\ Released(l) = {"reglock"} /\ Kept(l) = ArchQuery
           /\ ToSet(l) = {"cb", "key", "item", "reglock"}
<1>0. /\ Len(l) = 4 /\ 4 \in 4 .. 6
      /\ l[1] = "cb" /\ l[2] = "key" /\ l[3] = "item" /\ l[4] = "reglock"
  OBVIOUS
<1>s. l \in Seq(Handlers)
  BY DEF Handlers
<1>j. \A j \in 5 .. 4 : l[j] # "reglock"
  <2>1. \A j \in 5 .. 4 : FALSE
    OBVIOUS
  <2> QED
    BY <1>0, <2>1
<1>1. /\ l \in Seq(Handlers) /\ 4 \in 4 .. 6 /\ Len(l) = 4
      /\ l[1] = "cb" /\ l[2] = "key" /\ l[3] = "item" /\ l[4] = "reglock"
      /\ \A j \in 5 .. 4 : l[j] # "reglock"
  BY <1>0, <1>s, <1>j
<1>2. Released(l) = {l[j] : j \in 4 .. 4} /\ Kept(l) = ArchQuery
  BY <1>1, UnwoundLock
<1>3. ToSet(l) = {"cb", "key", "item", "reglock"}
  BY DEF ToSet
<1> QED
  BY <1>1, <1>2, <1>3

LEMMA UnwoundSize ==
    ASSUME NEW l, l = <<"cb", "key", "item", "reglock", "hkey">>
    PROVE  /\ Released(l) = {"reglock", "hkey"} /\ Kept(l) = ArchQuery
           /\ ToSet(l) = {"cb", "key", "item", "reglock", "hkey"}
<1>0. /\ Len(l) = 5 /\ 5 \in 4 .. 6
      /\ l[1] = "cb" /\ l[2] = "key" /\ l[3] = "item" /\ l[4] = "reglock" /\ l[5] = "hkey"
  OBVIOUS
<1>s. l \in Seq(Handlers)
  BY DEF Handlers
<1>j. \A j \in 5 .. 5 : l[j] # "reglock"
  <2>1. \A j \in 5 .. 5 : j = 5
    OBVIOUS
  <2> QED
    BY <1>0, <2>1
<1>1. /\ l \in Seq(Handlers) /\ 5 \in 4 .. 6 /\ Len(l) = 5
      /\ l[1] = "cb" /\ l[2] = "key" /\ l[3] = "item" /\ l[4] = "reglock" /\ l[5] = "hkey"
      /\ \A j \in 5 .. 5 : l[j] # "reglock"
  BY <1>0, <1>s, <1>j
<1>2. Released(l) = {l[j] : j \in 4 .. 5} /\ Kept(l) = ArchQuery
  BY <1>1, UnwoundLock
<1>3. ToSet(l) = {"cb", "key", "item", "reglock", "hkey"}
  BY DEF ToSet
<1>4. {l[j] : j \in 4 .. 5} = {l[4], l[5]}
  OBVIOUS
<1> QED
  BY <1>1, <1>2, <1>3, <1>4

LEMMA UnwoundValue ==
    ASSUME NEW l, l = <<"cb", "key", "item", "reglock", "hkey", "value">>
    PROVE  /\ Released(l) = {"reglock", "hkey", "value"} /\ Kept(l) = ArchQuery
           /\ SubSeq(l, 1, Len(l) - 3) = ArchQuery
           /\ ToSet(l) = {"cb", "key", "item", "reglock", "hkey", "value"}
<1>0. /\ Len(l) = 6 /\ 6 \in 4 .. 6
      /\ l[1] = "cb" /\ l[2] = "key" /\ l[3] = "item" /\ l[4] = "reglock" /\ l[5] = "hkey" /\ l[6] = "value"
  OBVIOUS
<1>s. l \in Seq(Handlers)
  BY DEF Handlers
<1>j. \A j \in 5 .. 6 : l[j] # "reglock"
  <2>1. \A j \in 5 .. 6 : j = 5 \/ j = 6
    OBVIOUS
  <2> QED
    BY <1>0, <2>1
<1>1. /\ l \in Seq(Handlers) /\ 6 \in 4 .. 6 /\ Len(l) = 6
      /\ l[1] = "cb" /\ l[2] = "key" /\ l[3] = "item" /\ l[4] = "reglock" /\ l[5] = "hkey" /\ l[6] = "value"
      /\ \A j \in 5 .. 6 : l[j] # "reglock"
  BY <1>0, <1>s, <1>j
<1>2. /\ Released(l) = {l[j] : j \in 4 .. 6} /\ Kept(l) = ArchQuery
      /\ SubSeq(l, 1, 3) = ArchQuery
  BY <1>1, UnwoundLock
<1>3. ToSet(l) = {"cb", "key", "item", "reglock", "hkey", "value"}
  BY DEF ToSet
<1>4. {l[j] : j \in 4 .. 6} = {l[4], l[5], l[6]}
  OBVIOUS
<1>5. Len(l) - 3 = 3
  BY <1>1
<1> QED
  BY <1>1, <1>2, <1>3, <1>4, <1>5

LEMMA UnwoundQuery ==
    ASSUME NEW l, l = <<"cb">> \/ l = ArchQuery
    PROVE  Released(l) = ToSet(l) /\ Kept(l) = <<>> /\ ToSet(l) \cap {"reglock", "value"} = {}
<1>1. ASSUME NEW n \in Nat, Len(l) = n, \A j \in 1 .. n : l[j] # "reglock" /\ l[j] # "value",
             DOMAIN l = 1 .. n
      PROVE  Released(l) = ToSet(l) /\ Kept(l) = <<>> /\ ToSet(l) \cap {"reglock", "value"} = {}
  <2>1. Unwound(l) = l
    BY <1>1, UnwoundAll
  <2>2. SubSeq(l, 1, 0) = <<>>
    OBVIOUS
  <2> QED
    BY <1>1, <2>1, <2>2 DEF Released, Kept, ToSet
<1>2. CASE l = <<"cb">>
  <2>1. Len(l) = 1 /\ DOMAIN l = 1 .. 1 /\ \A j \in 1 .. 1 : l[j] = "cb"
    BY <1>2
  <2> QED
    BY <1>1, <2>1
<1>3. CASE l = ArchQuery
  <2>1. Len(l) = 3 /\ DOMAIN l = 1 .. 3 /\ \A j \in 1 .. 3 : l[j] \in {"cb", "key", "item"}
    BY <1>3 DEF ArchQuery
  <2> QED
    BY <1>1, <2>1
<1> QED
  BY <1>2, <1>3
ArchPlain == {"parse", "root", "item", "lock", "open", "size"}
ArchQuerying == ArchPlain \cup {"value", "answer"}
ArchReading == {"format", "formatted"}
ArchAt == {"user", "toggled"} \cup ArchQuerying \cup ArchReading

ArchTypeOK ==
    /\ call \in [ArchProc -> [at : ArchAt, chan : SUBSET ArchChan, v : Nat]]
    /\ aux \in [ArchChan -> Nat]
    /\ values \subseteq Nat \ {NoValue} /\ IsFiniteSet(values)
    /\ screentog \in {0, 1} /\ frame \in {0, 1} /\ together \in BOOLEAN

\* Where a call is tells its handlers, and they what it holds.
StacksMatch ==
    /\ labels = [p \in ArchProc |-> ArchStack(call[p].at)]
    /\ has = [p \in ArchProc |-> ToSet(ArchStack(call[p].at))]

RegLocked ==
    /\ reglock = {p \in ArchProc : call[p].at \in {"open", "size", "value"}}
    /\ reglock = {} \/ \E p \in ArchProc : reglock = {p}

CallOK(p) ==
    /\ call[p].at = "user" => call[p] = Done
    /\ call[p].at = "toggled" => call[p].chan = {} /\ call[p].v \in {0, 1}
    /\ call[p].at \in ArchPlain => call[p].v = NoValue
    /\ call[p].at = "value" => call[p].v # NoValue
    /\ call[p].at \in ArchQuerying => \E c \in ArchChan : call[p].chan = {c} /\ aux[c] = NoValue
    /\ call[p].at \in ArchReading =>
          \E c \in ArchChan : call[p].chan = {c} /\ aux[c] = call[p].v /\ aux[c] # NoValue

CallsApart ==
    /\ \A p \in ArchProc : CallOK(p)
    /\ \A p, q \in ArchProc : call[p].chan # {} /\ call[p].chan = call[q].chan => p = q

\* A query has a value that is not yet the channel's.
Holds(p, x) == call[p].at \in {"value", "answer"} /\ call[p].v = x

\* Each value is owned by one channel or by one query.
ValuesApart ==
    \A x \in Nat \ {NoValue} :
        /\ \A c, d \in ArchChan : aux[c] = x /\ aux[d] = x => c = d
        /\ \A p, q \in ArchProc : Holds(p, x) /\ Holds(q, x) => p = q
        /\ \A p \in ArchProc, c \in ArchChan : ~(Holds(p, x) /\ aux[c] = x)
        /\ x \in values <=> (\E c \in ArchChan : aux[c] = x) \/ (\E p \in ArchProc : Holds(p, x))

ToggledOnce ==
    \/ together
    \/ /\ \A p, q \in ArchProc : At(p, "toggled") /\ At(q, "toggled") => p = q
       /\ \A p \in ArchProc : At(p, "toggled") => call[p].v = screentog
       /\ frame = screentog \/ \E p \in ArchProc : At(p, "toggled")

ArchInv == ArchTypeOK /\ StacksMatch /\ RegLocked /\ CallsApart /\ ValuesApart /\ ToggledOnce

LEMMA StackFacts ==
    /\ ArchStack("user") = <<>> /\ ArchStack("toggled") = <<>> /\ ArchStack("parse") = <<>>
    /\ ArchStack("format") = <<>>
    /\ ArchStack("root") = <<"cb">> /\ ArchStack("item") = <<"cb", "key">>
    /\ ArchStack("lock") = ArchQuery /\ ArchStack("answer") = ArchQuery
    /\ ArchStack("open") = <<"cb", "key", "item", "reglock">>
    /\ ArchStack("size") = <<"cb", "key", "item", "reglock", "hkey">>
    /\ ArchStack("value") = <<"cb", "key", "item", "reglock", "hkey", "value">>
    /\ ArchStack("formatted") = <<"p">>
BY DEF ArchStack, ArchQuery

LEMMA StackSets ==
    /\ ToSet(<<>>) = {} /\ ToSet(<<"cb">>) = {"cb"} /\ ToSet(<<"cb", "key">>) = {"cb", "key"}
    /\ ToSet(ArchQuery) = {"cb", "key", "item"} /\ ToSet(<<"p">>) = {"p"}
    /\ ToSet(<<"cb", "key", "item", "reglock">>) = {"cb", "key", "item", "reglock"}
    /\ ToSet(<<"cb", "key", "item", "reglock", "hkey">>) = {"cb", "key", "item", "reglock", "hkey"}
    /\ ToSet(<<"cb", "key", "item", "reglock", "hkey", "value">>) =
          {"cb", "key", "item", "reglock", "hkey", "value"}
<1>1. ToSet(<<>>) = {} /\ ToSet(<<"cb">>) = {"cb"}
  BY DEF ToSet
<1>2. ToSet(<<"cb", "key">>) = {"cb", "key"}
  BY DEF ToSet
<1>3. ToSet(<<"p">>) = {"p"}
  BY DEF ToSet
<1> QED
  BY <1>1, <1>2, <1>3, UnwoundOpen, UnwoundSize, UnwoundValue, QuerySet

LEMMA AppendIs ==
    ASSUME NEW s \in Seq(Handlers), NEW t \in Seq(Handlers), NEW x \in Handlers,
           Len(t) = Len(s) + 1, t[Len(s) + 1] = x, \A k \in 1 .. Len(s) : t[k] = s[k]
    PROVE  Append(s, x) = t
<1> DEFINE u == Append(s, x)
<1>1. u \in Seq(Handlers) /\ Len(u) = Len(s) + 1
  OBVIOUS
<1>2. \A k \in 1 .. Len(s) + 1 : u[k] = t[k]
  OBVIOUS
<1> HIDE DEF u
<1>3. Len(u) = Len(t) /\ \A k \in 1 .. Len(u) : u[k] = t[k]
  BY <1>1, <1>2
<1>4. u = t
  BY <1>1, <1>3, SeqEqual
<1> QED
  BY <1>4 DEF u

\* A new handler on the stack.
LEMMA ArchPushes ==
    /\ Append(<<>>, "cb") = <<"cb">> /\ Append(<<"cb">>, "key") = <<"cb", "key">>
    /\ Append(<<"cb", "key">>, "item") = ArchQuery
    /\ Append(ArchQuery, "reglock") = <<"cb", "key", "item", "reglock">>
    /\ Append(<<"cb", "key", "item", "reglock">>, "hkey") =
          <<"cb", "key", "item", "reglock", "hkey">>
    /\ Append(<<"cb", "key", "item", "reglock", "hkey">>, "value") =
          <<"cb", "key", "item", "reglock", "hkey", "value">>
    /\ Append(<<>>, "p") = <<"p">>
<1>1. Append(<<>>, "cb") = <<"cb">> /\ Append(<<>>, "p") = <<"p">>
  OBVIOUS
<1>2. Append(<<"cb">>, "key") = <<"cb", "key">>
  <2> DEFINE s == <<"cb">>
             t == <<"cb", "key">>
  <2>1. s \in Seq(Handlers) /\ t \in Seq(Handlers) /\ "key" \in Handlers
    BY DEF Handlers
  <2>2. Len(s) = 1 /\ s[1] = "cb"
    OBVIOUS
  <2>3. Len(t) = 2 /\ t[1] = "cb" /\ t[2] = "key"
    OBVIOUS
  <2>4. \A k \in 1 .. 1 : k = 1
    OBVIOUS
  <2> HIDE DEF s, t
  <2>5. \A k \in 1 .. Len(s) : t[k] = s[k]
    BY <2>2, <2>3, <2>4
  <2>7. Len(t) = Len(s) + 1 /\ t[Len(s) + 1] = "key"
    BY <2>2, <2>3
  <2>6. Append(s, "key") = t
    BY <2>1, <2>5, <2>7, AppendIs
  <2> QED
    BY <2>6 DEF s, t
<1>3. Append(<<"cb", "key">>, "item") = <<"cb", "key", "item">>
  <2> DEFINE s == <<"cb", "key">>
             t == <<"cb", "key", "item">>
  <2>1. s \in Seq(Handlers) /\ t \in Seq(Handlers) /\ "item" \in Handlers
    BY DEF Handlers
  <2>2. Len(s) = 2 /\ s[1] = "cb" /\ s[2] = "key"
    OBVIOUS
  <2>3. Len(t) = 3 /\ t[1] = "cb" /\ t[2] = "key" /\ t[3] = "item"
    OBVIOUS
  <2>4. \A k \in 1 .. 2 : k = 1 \/ k = 2
    OBVIOUS
  <2> HIDE DEF s, t
  <2>5. \A k \in 1 .. Len(s) : t[k] = s[k]
    BY <2>2, <2>3, <2>4
  <2>7. Len(t) = Len(s) + 1 /\ t[Len(s) + 1] = "item"
    BY <2>2, <2>3
  <2>6. Append(s, "item") = t
    BY <2>1, <2>5, <2>7, AppendIs
  <2> QED
    BY <2>6 DEF s, t
<1>4. Append(<<"cb", "key", "item">>, "reglock") = <<"cb", "key", "item", "reglock">>
  <2> DEFINE s == <<"cb", "key", "item">>
             t == <<"cb", "key", "item", "reglock">>
  <2>1. s \in Seq(Handlers) /\ t \in Seq(Handlers) /\ "reglock" \in Handlers
    BY DEF Handlers
  <2>2. Len(s) = 3 /\ s[1] = "cb" /\ s[2] = "key" /\ s[3] = "item"
    OBVIOUS
  <2>3. Len(t) = 4 /\ t[1] = "cb" /\ t[2] = "key" /\ t[3] = "item" /\ t[4] = "reglock"
    OBVIOUS
  <2>4. \A k \in 1 .. 3 : k = 1 \/ k = 2 \/ k = 3
    OBVIOUS
  <2> HIDE DEF s, t
  <2>5. \A k \in 1 .. Len(s) : t[k] = s[k]
    BY <2>2, <2>3, <2>4
  <2>7. Len(t) = Len(s) + 1 /\ t[Len(s) + 1] = "reglock"
    BY <2>2, <2>3
  <2>6. Append(s, "reglock") = t
    BY <2>1, <2>5, <2>7, AppendIs
  <2> QED
    BY <2>6 DEF s, t
<1>5. Append(<<"cb", "key", "item", "reglock">>, "hkey") = <<"cb", "key", "item", "reglock", "hkey">>
  <2> DEFINE s == <<"cb", "key", "item", "reglock">>
             t == <<"cb", "key", "item", "reglock", "hkey">>
  <2>1. s \in Seq(Handlers) /\ t \in Seq(Handlers) /\ "hkey" \in Handlers
    BY DEF Handlers
  <2>2. Len(s) = 4 /\ s[1] = "cb" /\ s[2] = "key" /\ s[3] = "item" /\ s[4] = "reglock"
    OBVIOUS
  <2>3. Len(t) = 5 /\ t[1] = "cb" /\ t[2] = "key" /\ t[3] = "item" /\ t[4] = "reglock" /\ t[5] = "hkey"
    OBVIOUS
  <2>4. \A k \in 1 .. 4 : k = 1 \/ k = 2 \/ k = 3 \/ k = 4
    OBVIOUS
  <2> HIDE DEF s, t
  <2>5. \A k \in 1 .. Len(s) : t[k] = s[k]
    BY <2>2, <2>3, <2>4
  <2>7. Len(t) = Len(s) + 1 /\ t[Len(s) + 1] = "hkey"
    BY <2>2, <2>3
  <2>6. Append(s, "hkey") = t
    BY <2>1, <2>5, <2>7, AppendIs
  <2> QED
    BY <2>6 DEF s, t
<1>6. Append(<<"cb", "key", "item", "reglock", "hkey">>, "value") = <<"cb", "key", "item", "reglock", "hkey", "value">>
  <2> DEFINE s == <<"cb", "key", "item", "reglock", "hkey">>
             t == <<"cb", "key", "item", "reglock", "hkey", "value">>
  <2>1. s \in Seq(Handlers) /\ t \in Seq(Handlers) /\ "value" \in Handlers
    BY DEF Handlers
  <2>2. Len(s) = 5 /\ s[1] = "cb" /\ s[2] = "key" /\ s[3] = "item" /\ s[4] = "reglock" /\ s[5] = "hkey"
    OBVIOUS
  <2>3. Len(t) = 6 /\ t[1] = "cb" /\ t[2] = "key" /\ t[3] = "item" /\ t[4] = "reglock" /\ t[5] = "hkey" /\ t[6] = "value"
    OBVIOUS
  <2>4. \A k \in 1 .. 5 : k = 1 \/ k = 2 \/ k = 3 \/ k = 4 \/ k = 5
    OBVIOUS
  <2> HIDE DEF s, t
  <2>5. \A k \in 1 .. Len(s) : t[k] = s[k]
    BY <2>2, <2>3, <2>4
  <2>7. Len(t) = Len(s) + 1 /\ t[Len(s) + 1] = "value"
    BY <2>2, <2>3
  <2>6. Append(s, "value") = t
    BY <2>1, <2>5, <2>7, AppendIs
  <2> QED
    BY <2>6 DEF s, t
<1> QED
  BY <1>1, <1>2, <1>3, <1>4, <1>5, <1>6 DEF ArchQuery

\* A call goes to r, with the handlers that go with it.
Moved(p, r) ==
    /\ call' = [call EXCEPT ![p] = r]
    /\ labels' = [labels EXCEPT ![p] = ArchStack(r.at)]
    /\ has' = [has EXCEPT ![p] = ToSet(ArchStack(r.at))]

LEMMA MovedStacks ==
    ASSUME ArchTypeOK, StacksMatch, NEW p \in ArchProc,
           NEW r \in [at : ArchAt, chan : SUBSET ArchChan, v : Nat], Moved(p, r)
    PROVE  /\ StacksMatch' /\ call'[p] = r
           /\ \A q \in ArchProc \ {p} : call'[q] = call[q]
           /\ call' \in [ArchProc -> [at : ArchAt, chan : SUBSET ArchChan, v : Nat]]
<1>1. call \in [ArchProc -> [at : ArchAt, chan : SUBSET ArchChan, v : Nat]]
  BY DEF ArchTypeOK
<1>2. /\ call'[p] = r /\ \A q \in ArchProc \ {p} : call'[q] = call[q]
      /\ call' \in [ArchProc -> [at : ArchAt, chan : SUBSET ArchChan, v : Nat]]
  BY <1>1 DEF Moved
<1>3. labels' = [q \in ArchProc |-> ArchStack(call'[q].at)]
  BY <1>2 DEF Moved, StacksMatch
<1>4. has' = [q \in ArchProc |-> ToSet(ArchStack(call'[q].at))]
  BY <1>2 DEF Moved, StacksMatch
<1> QED
  BY <1>2, <1>3, <1>4 DEF StacksMatch

\* The switch is not turned by the other calls.
LEMMA ToggleSame ==
    ASSUME ToggledOnce, UNCHANGED <<screentog, frame, together>>,
           \A p \in ArchProc : call'[p].at = "toggled" \/ call[p].at = "toggled" => call'[p] = call[p]
    PROVE  ToggledOnce'
BY DEF ToggledOnce, At

\* What Raise does to a query: nothing more to hold, or back in archwrite.
LEMMA ArchRaises ==
    ASSUME ArchTypeOK, StacksMatch, NEW p \in ArchProc, Raise(p),
           call[p].at \in {"root", "answer", "open", "size", "value"}
    PROVE  /\ call[p].at \in {"root", "answer"} =>
                 Moved(p, Done) /\ UNCHANGED <<reglock, aux, values>>
           /\ call[p].at \in {"open", "size", "value"} =>
                 /\ Moved(p, [call[p] EXCEPT !.at = "answer", !.v = NoValue])
                 /\ reglock' = reglock \ {p} /\ aux' = aux
                 /\ values' = values \ (IF call[p].at = "value" THEN {call[p].v} ELSE {})
<1> DEFINE l == labels[p]
<1>1. l = ArchStack(call[p].at) /\ has[p] = ToSet(l)
  BY DEF StacksMatch
<1>2. /\ has' = [has EXCEPT ![p] = has[p] \ Released(l)]
      /\ labels' = [labels EXCEPT ![p] = Kept(l)]
      /\ reglock' = reglock \ (IF "reglock" \in Released(l) THEN {p} ELSE {})
      /\ values' = values \ (IF "value" \in Released(l) THEN {call[p].v} ELSE {})
      /\ call' = [call EXCEPT ![p] =
                    IF "reglock" \in ToSet(l) THEN [call[p] EXCEPT !.at = "answer", !.v = NoValue]
                                              ELSE Done]
      /\ aux' = aux
  BY DEF Raise, Kept, StacksMatch, ArchTypeOK
<1> HIDE DEF l
<1>3. CASE call[p].at \in {"root", "answer"}
  <2>1. l = <<"cb">> \/ l = ArchQuery
    BY <1>1, <1>3, StackFacts
  <2>2. Released(l) = ToSet(l) /\ Kept(l) = <<>> /\ ToSet(l) \cap {"reglock", "value"} = {}
    BY <2>1, UnwoundQuery
  <2>3. ArchStack(Done.at) = <<>> /\ ToSet(<<>>) = {}
    BY StackFacts, StackSets DEF Done
  <2>4. has[p] \ Released(l) = {}
    BY <1>1, <2>2
  <2>5. "reglock" \notin ToSet(l) /\ "reglock" \notin Released(l) /\ "value" \notin Released(l)
    BY <2>2
  <2>6. Moved(p, Done)
    BY <1>2, <2>2, <2>3, <2>4, <2>5 DEF Moved
  <2> QED
    BY <1>2, <1>3, <2>5, <2>6
<1>4. CASE call[p].at \in {"open", "size", "value"}
  <2>1. /\ Kept(l) = ArchQuery /\ "reglock" \in ToSet(l) /\ "reglock" \in Released(l)
        /\ has[p] \ Released(l) = {"cb", "key", "item"}
        /\ "value" \in Released(l) <=> call[p].at = "value"
    <3>1. CASE call[p].at = "open"
      BY <1>1, <3>1, StackFacts, UnwoundOpen
    <3>2. CASE call[p].at = "size"
      BY <1>1, <3>2, StackFacts, UnwoundSize
    <3>3. CASE call[p].at = "value"
      <4>1. l = <<"cb", "key", "item", "reglock", "hkey", "value">>
        BY <1>1, <3>3, StackFacts
      <4>2. /\ Released(l) = {"reglock", "hkey", "value"} /\ Kept(l) = ArchQuery
            /\ has[p] = {"cb", "key", "item", "reglock", "hkey", "value"}
        BY <1>1, <4>1, UnwoundValue
      <4>3. has[p] \ Released(l) = {"cb", "key", "item"}
        BY <4>2
      <4>4. "reglock" \in ToSet(l) /\ "reglock" \in Released(l) /\ "value" \in Released(l)
        BY <1>1, <4>2
      <4> QED
        BY <3>3, <4>2, <4>3, <4>4
    <3> QED
      BY <1>4, <3>1, <3>2, <3>3
  <2> DEFINE r == [call[p] EXCEPT !.at = "answer", !.v = NoValue]
  <2>2. r.at = "answer"
    BY DEF ArchTypeOK
  <2>3. ArchStack(r.at) = ArchQuery /\ ToSet(ArchQuery) = {"cb", "key", "item"}
    BY <2>2, StackFacts, StackSets
  <2>4. Moved(p, r)
    BY <1>2, <2>1, <2>3 DEF Moved
  <2> QED
    BY <1>2, <1>4, <2>1, <2>4
<1> QED
  BY <1>3, <1>4
ArchCall == [at : ArchAt, chan : SUBSET ArchChan, v : Nat]

\* A query goes on without a value.
LEMMA GoesPlain ==
    ASSUME ArchInv, NEW p \in ArchProc, call[p].at \in ArchPlain, NEW to \in ArchPlain,
           Moved(p, [call[p] EXCEPT !.at = to]), UNCHANGED <<aux, values, elsewhere>>, RegLocked'
    PROVE  ArchInv'
<1> DEFINE r == [call[p] EXCEPT !.at = to]
<1>t. ArchTypeOK /\ StacksMatch /\ call[p] \in ArchCall
  BY DEF ArchInv, ArchTypeOK, ArchCall
<1>0. /\ r \in ArchCall /\ r.at = to /\ r.chan = call[p].chan /\ r.v = call[p].v
  BY <1>t DEF ArchCall, ArchAt, ArchQuerying
<1>1. /\ StacksMatch' /\ call'[p] = r /\ \A q \in ArchProc \ {p} : call'[q] = call[q]
      /\ call' \in [ArchProc -> ArchCall]
  BY <1>0, <1>t, MovedStacks DEF ArchCall
<1>2. ArchTypeOK'
  BY <1>1, <1>t DEF ArchTypeOK, ArchCall, elsewhere
<1> HIDE DEF r
<1>3. CallOK(p)'
  BY <1>0, <1>1 DEF ArchInv, CallsApart, CallOK, ArchPlain, ArchQuerying, ArchReading
<1>4. ASSUME NEW q \in ArchProc \ {p} PROVE CallOK(q)'
  BY <1>1 DEF ArchInv, CallsApart, CallOK
<1>5. CallsApart'
  BY <1>0, <1>1, <1>3, <1>4 DEF ArchInv, CallsApart
<1>6. \A q \in ArchProc : \A x : Holds(q, x)' <=> Holds(q, x)
  BY <1>0, <1>1 DEF Holds, ArchPlain
<1>7. ValuesApart'
  BY <1>6 DEF ArchInv, ValuesApart
<1>8. ToggledOnce'
  BY <1>0, <1>1, ToggleSame DEF ArchInv, elsewhere, ArchPlain
<1> QED
  BY <1>1, <1>2, <1>5, <1>7, <1>8 DEF ArchInv

\* A query stops with an error, before or after its last handler.
LEMMA GoesBack ==
    ASSUME ArchInv, NEW p \in ArchProc, Raise(p), UNCHANGED elsewhere,
           call[p].at \in {"root", "open", "size", "value"} \/ (call[p].at = "answer" /\ call[p].v = NoValue)
    PROVE  ArchInv'
<1>t. ArchTypeOK /\ StacksMatch /\ call[p] \in ArchCall
  BY DEF ArchInv, ArchTypeOK, ArchCall
<1>k. CallOK(p) /\ \A x \in values : x # NoValue
  BY <1>t DEF ArchInv, CallsApart, ArchTypeOK
<1>1. CASE call[p].at \in {"root", "answer"}
  <2>0. Moved(p, Done) /\ UNCHANGED <<reglock, aux, values>>
    BY <1>1, <1>t, ArchRaises
  <2>1. Done \in ArchCall /\ Done.at = "user" /\ Done.chan = {} /\ Done.v = NoValue
    BY DEF Done, ArchCall, ArchAt, NoValue
  <2>2. /\ StacksMatch' /\ call'[p] = Done /\ \A q \in ArchProc \ {p} : call'[q] = call[q]
        /\ call' \in [ArchProc -> ArchCall]
    BY <2>0, <2>1, <1>t, MovedStacks DEF ArchCall
  <2>3. ArchTypeOK'
    BY <2>0, <2>2, <1>t DEF ArchTypeOK, ArchCall, elsewhere
  <2>4. RegLocked'
    BY <1>1, <2>0, <2>1, <2>2 DEF ArchInv, RegLocked
  <2>5. \A q \in ArchProc : CallOK(q)'
    BY <2>0, <2>1, <2>2 DEF ArchInv, CallsApart, CallOK, ArchPlain, ArchQuerying, ArchReading
  <2>6. CallsApart'
    BY <2>1, <2>2, <2>5 DEF ArchInv, CallsApart
  <2>7. call[p].v = NoValue
    BY <1>1, <1>k DEF CallOK, ArchPlain
  <2>8. \A q \in ArchProc, x \in Nat \ {NoValue} : Holds(q, x)' <=> Holds(q, x)
    BY <2>1, <2>2, <2>7 DEF Holds
  <2>9. ValuesApart'
    BY <2>0, <2>8 DEF ArchInv, ValuesApart
  <2>10. ToggledOnce'
    BY <1>1, <2>1, <2>2, ToggleSame DEF ArchInv, elsewhere
  <2> QED
    BY <2>2, <2>3, <2>4, <2>6, <2>9, <2>10 DEF ArchInv
<1>2. CASE call[p].at \in {"open", "size", "value"}
  <2> DEFINE r == [call[p] EXCEPT !.at = "answer", !.v = NoValue]
             gone == IF call[p].at = "value" THEN {call[p].v} ELSE {}
  <2>0. Moved(p, r) /\ reglock' = reglock \ {p} /\ aux' = aux /\ values' = values \ gone
    BY <1>2, <1>t, ArchRaises
  <2>1. r \in ArchCall /\ r.at = "answer" /\ r.chan = call[p].chan /\ r.v = NoValue
    BY <1>t DEF ArchCall, ArchAt, ArchQuerying, NoValue
  <2>2. /\ StacksMatch' /\ call'[p] = r /\ \A q \in ArchProc \ {p} : call'[q] = call[q]
        /\ call' \in [ArchProc -> ArchCall]
    BY <2>0, <2>1, <1>t, MovedStacks DEF ArchCall
  <2>a. values' \subseteq values /\ IsFiniteSet(values)
    BY <2>0, <1>t DEF ArchTypeOK
  <2>b. IsFiniteSet(values')
    BY <2>a, FS_Subset
  <2>3. ArchTypeOK'
    BY <2>0, <2>2, <2>a, <2>b, <1>t DEF ArchTypeOK, ArchCall, elsewhere
  <2> HIDE DEF r
  <2>4. RegLocked'
    <3>1. reglock = {q \in ArchProc : call[q].at \in {"open", "size", "value"}}
          /\ (reglock = {} \/ \E q \in ArchProc : reglock = {q})
      BY DEF ArchInv, RegLocked
    <3>2. p \in reglock
      BY <1>2, <3>1
    <3>3. reglock = {p}
      BY <3>1, <3>2
    <3>4. reglock' = {}
      BY <2>0, <3>3
    <3>5. \A q \in ArchProc : call'[q].at \notin {"open", "size", "value"}
      BY <2>1, <2>2, <3>1, <3>3
    <3> QED
      BY <3>4, <3>5 DEF RegLocked
  <2>5. \A q \in ArchProc : CallOK(q)'
    <3>1. CallOK(p)'
      BY <1>2, <1>k, <2>0, <2>1, <2>2 DEF CallOK, ArchPlain, ArchQuerying, ArchReading
    <3>2. ASSUME NEW q \in ArchProc \ {p} PROVE CallOK(q)'
      BY <2>0, <2>2 DEF ArchInv, CallsApart, CallOK
    <3> QED
      BY <3>1, <3>2
  <2>6. CallsApart'
    BY <2>1, <2>2, <2>5 DEF ArchInv, CallsApart
  <2>7. \A q \in ArchProc \ {p}, x \in Nat \ {NoValue} : Holds(q, x)' <=> Holds(q, x)
    BY <2>2 DEF Holds
  <2>8. \A x \in Nat \ {NoValue} : ~Holds(p, x)' /\ (Holds(p, x) <=> x \in gone)
    BY <1>2, <2>1, <2>2 DEF Holds
  <2> HIDE DEF gone
  <2>9. ValuesApart'
    BY <2>0, <2>7, <2>8 DEF ArchInv, ValuesApart
  <2>10. ToggledOnce'
    BY <1>2, <2>1, <2>2, ToggleSame DEF ArchInv, elsewhere
  <2> QED
    BY <2>2, <2>3, <2>4, <2>6, <2>9, <2>10 DEF ArchInv
<1> QED
  BY <1>1, <1>2
LEMMA NewValueFacts ==
    ASSUME values \subseteq Nat \ {NoValue}, IsFiniteSet(values)
    PROVE  NewValue \in Nat \ {NoValue} /\ NewValue \notin values
<1> DEFINE n == Cardinality(values)
<1>1. n \in Nat
  BY FS_CardinalityType
<1>2. IsFiniteSet(1 .. n + 1) /\ Cardinality(1 .. n + 1) = n + 1
  BY <1>1, FS_Interval
<1>3. ~(1 .. n + 1 \subseteq values)
  <2>1. ASSUME 1 .. n + 1 \subseteq values PROVE FALSE
    <3>1. Cardinality(1 .. n + 1) <= Cardinality(values)
      BY <2>1, FS_Subset
    <3> QED
      BY <1>1, <1>2, <3>1
  <2> QED
    BY <2>1
<1>4. \E m \in 1 .. n + 1 : m \notin values
  BY <1>3
<1>5. NewValue \in 1 .. n + 1 /\ NewValue \notin values
  BY <1>4 DEF NewValue
<1> QED
  BY <1>1, <1>5 DEF NoValue

\* What the calls on a channel keep of ArchInv, if it is said where the values go.
LEMMA MovedInv ==
    ASSUME ArchInv, NEW p \in ArchProc, NEW r \in ArchCall, Moved(p, r),
           call[p].at # "toggled", r.at # "toggled",
           UNCHANGED elsewhere, RegLocked', ValuesApart', CallOK(p)',
           aux' \in [ArchChan -> Nat], values' \subseteq Nat \ {NoValue}, IsFiniteSet(values'),
           \A q \in ArchProc \ {p}, c \in ArchChan : call[q].chan = {c} => aux'[c] = aux[c],
           \A q \in ArchProc \ {p} : r.chan # {} => call[q].chan # r.chan
    PROVE  ArchInv'
<1>t. ArchTypeOK /\ StacksMatch /\ call[p] \in ArchCall
  BY DEF ArchInv, ArchTypeOK, ArchCall
<1>1. /\ StacksMatch' /\ call'[p] = r /\ \A q \in ArchProc \ {p} : call'[q] = call[q]
      /\ call' \in [ArchProc -> ArchCall]
  BY <1>t, MovedStacks DEF ArchCall
<1>2. ArchTypeOK'
  BY <1>1, <1>t DEF ArchTypeOK, ArchCall, elsewhere
<1>3. ASSUME NEW q \in ArchProc \ {p} PROVE CallOK(q)'
  <2>1. CallOK(q) /\ call'[q] = call[q]
    BY <1>1 DEF ArchInv, CallsApart
  <2>2. \A c \in ArchChan : call[q].chan = {c} => aux'[c] = aux[c]
    OBVIOUS
  <2> QED
    BY <2>1, <2>2 DEF CallOK
<1>4. CallsApart'
  BY <1>1, <1>3 DEF ArchInv, CallsApart
<1>5. ToggledOnce'
  BY <1>1, ToggleSame DEF ArchInv, elsewhere
<1> QED
  BY <1>1, <1>2, <1>4, <1>5 DEF ArchInv

\* The steps of a query that go well.
LEMMA QuerySteps ==
    ASSUME ArchInv, NEW p \in ArchProc,
           Parsed(p) \/ Item(p) \/ Lock(p) \/ Root(p, TRUE) \/ RegOpenKey(p, TRUE)
    PROVE  ArchInv'
<1>t. ArchTypeOK /\ StacksMatch /\ RegLocked /\ call[p] \in ArchCall
  BY DEF ArchInv, ArchTypeOK, ArchCall
<1>1. labels[p] = ArchStack(call[p].at) /\ has[p] = ToSet(ArchStack(call[p].at))
  BY <1>t DEF StacksMatch
<1>2. ASSUME NEW from \in ArchPlain, NEW to \in ArchPlain, NEW what, call[p].at = from,
             Push(p, what), GoesTo(p, to), UNCHANGED <<aux, values, elsewhere>>, RegLocked',
             ArchStack(to) = Append(ArchStack(from), what),
             ToSet(ArchStack(to)) = ToSet(ArchStack(from)) \cup {what}
      PROVE  ArchInv'
  <2>1. /\ labels' = [labels EXCEPT ![p] = Append(labels[p], what)]
        /\ has' = [has EXCEPT ![p] = has[p] \cup {what}]
        /\ call' = [call EXCEPT ![p] = [call[p] EXCEPT !.at = to]]
    BY <1>2, <1>t DEF Push, GoesTo, StacksMatch, ArchTypeOK
  <2>2. [call[p] EXCEPT !.at = to].at = to
    BY <1>t DEF ArchCall
  <2>3. Moved(p, [call[p] EXCEPT !.at = to])
    BY <1>1, <1>2, <2>1, <2>2 DEF Moved
  <2> QED
    BY <1>2, <2>3, GoesPlain
<1>p. {"parse", "root", "item", "lock", "open", "size"} = ArchPlain
  BY DEF ArchPlain
<1>c. /\ call \in [ArchProc -> ArchCall]
      /\ reglock = {q \in ArchProc : call[q].at \in {"open", "size", "value"}}
  BY <1>t DEF ArchTypeOK, ArchCall, RegLocked
<1>g. ASSUME NEW to, GoesTo(p, to), NEW q \in ArchProc
      PROVE  call'[q].at = IF q = p THEN to ELSE call[q].at
  BY <1>c, <1>g DEF GoesTo, ArchCall
<1>3. CASE Parsed(p)
  <2>1. /\ call[p].at = "parse" /\ Push(p, "cb") /\ GoesTo(p, "root")
        /\ UNCHANGED <<reglock, aux, values, elsewhere>>
    BY <1>3 DEF Parsed, At
  <2>2. RegLocked'
    BY <1>t, <1>g, <2>1 DEF RegLocked
  <2>3. /\ ArchStack("root") = Append(ArchStack("parse"), "cb")
        /\ ToSet(ArchStack("root")) = ToSet(ArchStack("parse")) \cup {"cb"}
    BY StackFacts, StackSets, ArchPushes
  <2> QED
    BY <1>2, <1>p, <2>1, <2>2, <2>3
<1>4. CASE Root(p, TRUE)
  <2>1. /\ call[p].at = "root" /\ Push(p, "key") /\ GoesTo(p, "item")
        /\ UNCHANGED <<reglock, aux, values, elsewhere>>
    BY <1>4 DEF Root, At
  <2>2. RegLocked'
    BY <1>t, <1>g, <2>1 DEF RegLocked
  <2>3. /\ ArchStack("item") = Append(ArchStack("root"), "key")
        /\ ToSet(ArchStack("item")) = ToSet(ArchStack("root")) \cup {"key"}
    BY StackFacts, StackSets, ArchPushes
  <2> QED
    BY <1>2, <1>p, <2>1, <2>2, <2>3
<1>5. CASE Item(p)
  <2>1. /\ call[p].at = "item" /\ Push(p, "item") /\ GoesTo(p, "lock")
        /\ UNCHANGED <<reglock, aux, values, elsewhere>>
    BY <1>5 DEF Item, At
  <2>2. RegLocked'
    BY <1>t, <1>g, <2>1 DEF RegLocked
  <2>3. /\ ArchStack("lock") = Append(ArchStack("item"), "item")
        /\ ToSet(ArchStack("lock")) = ToSet(ArchStack("item")) \cup {"item"}
    BY StackFacts, StackSets, ArchPushes
  <2> QED
    BY <1>2, <1>p, <2>1, <2>2, <2>3
<1>6. CASE Lock(p)
  <2>1. /\ call[p].at = "lock" /\ Push(p, "reglock") /\ GoesTo(p, "open")
        /\ reglock = {} /\ reglock' = {p}
        /\ UNCHANGED <<aux, values, elsewhere>>
    BY <1>6 DEF Lock, At
  <2>2. RegLocked'
    <3>1. \A q \in ArchProc : call[q].at \notin {"open", "size", "value"}
      BY <1>c, <2>1
    <3>2. \A q \in ArchProc : call'[q].at \in {"open", "size", "value"} <=> q = p
      BY <1>g, <2>1, <3>1
    <3> QED
      BY <2>1, <3>2 DEF RegLocked
  <2>3. /\ ArchStack("open") = Append(ArchStack("lock"), "reglock")
        /\ ToSet(ArchStack("open")) = ToSet(ArchStack("lock")) \cup {"reglock"}
    BY StackFacts, StackSets, ArchPushes
  <2> QED
    BY <1>2, <1>p, <2>1, <2>2, <2>3
<1>7. CASE RegOpenKey(p, TRUE)
  <2>1. /\ call[p].at = "open" /\ Push(p, "hkey") /\ GoesTo(p, "size")
        /\ UNCHANGED <<reglock, aux, values, elsewhere>>
    BY <1>7 DEF RegOpenKey, At
  <2>2. RegLocked'
    BY <1>t, <1>g, <2>1 DEF RegLocked
  <2>3. /\ ArchStack("size") = Append(ArchStack("open"), "hkey")
        /\ ToSet(ArchStack("size")) = ToSet(ArchStack("open")) \cup {"hkey"}
    BY StackFacts, StackSets, ArchPushes
  <2> QED
    BY <1>2, <1>p, <2>1, <2>2, <2>3
<1> QED
  BY <1>3, <1>4, <1>5, <1>6, <1>7

\* The value of a query is allocated.
LEMMA QuerySized == ASSUME ArchInv, NEW p \in ArchProc, QuerySize(p, TRUE) PROVE ArchInv'
<1>t. ArchTypeOK /\ StacksMatch /\ RegLocked /\ ValuesApart /\ call[p] \in ArchCall
  BY DEF ArchInv, ArchTypeOK, ArchCall
<1> DEFINE r == [call[p] EXCEPT !.at = "value", !.v = NewValue]
<1>0. /\ call[p].at = "size" /\ Push(p, "value") /\ values' = values \cup {NewValue}
      /\ call' = [call EXCEPT ![p].at = "value", ![p].v = NewValue]
      /\ UNCHANGED <<reglock, aux, elsewhere>>
  BY DEF QuerySize, At
<1>1. NewValue \in Nat \ {NoValue} /\ NewValue \notin values
  BY <1>t, NewValueFacts DEF ArchTypeOK
<1>2. r \in ArchCall /\ r.at = "value" /\ r.v = NewValue /\ r.chan = call[p].chan
  BY <1>1, <1>t DEF ArchCall, ArchAt, ArchQuerying
<1>3. call' = [call EXCEPT ![p] = r]
  BY <1>0, <1>t DEF ArchTypeOK
<1>4. Moved(p, r)
  <2>1. labels[p] = ArchStack("size") /\ has[p] = ToSet(ArchStack("size"))
    BY <1>0, <1>t DEF StacksMatch
  <2>2. /\ labels' = [labels EXCEPT ![p] = Append(labels[p], "value")]
        /\ has' = [has EXCEPT ![p] = has[p] \cup {"value"}]
    BY <1>0, <1>t DEF Push, StacksMatch
  <2>3. /\ ArchStack("value") = Append(ArchStack("size"), "value")
        /\ ToSet(ArchStack("value")) = ToSet(ArchStack("size")) \cup {"value"}
    BY StackFacts, StackSets, ArchPushes
  <2> HIDE DEF r
  <2> QED
    BY <1>2, <1>3, <2>1, <2>2, <2>3 DEF Moved
<1> HIDE DEF r
<1>5. call'[p] = r /\ \A q \in ArchProc \ {p} : call'[q] = call[q]
  BY <1>3, <1>t DEF ArchTypeOK
<1>6. RegLocked'
  BY <1>0, <1>2, <1>5, <1>t, ZenonT(60) DEF RegLocked
<1>7. \A q \in ArchProc : \A x : Holds(q, x)' <=> Holds(q, x) \/ (q = p /\ x = NewValue)
  BY <1>0, <1>2, <1>5 DEF Holds
<1>8. ValuesApart'
  BY <1>0, <1>1, <1>7, <1>t DEF ValuesApart
<1>9. CallOK(p)'
  BY <1>0, <1>1, <1>2, <1>5, ZenonT(60) DEF ArchInv, CallsApart, CallOK, ArchPlain, ArchQuerying, ArchReading
<1>10. IsFiniteSet(values') /\ values' \subseteq Nat \ {NoValue}
  BY <1>0, <1>1, <1>t, FS_AddElement DEF ArchTypeOK
<1>11. \A q \in ArchProc \ {p} : r.chan # {} => call[q].chan # r.chan
  BY <1>2 DEF ArchInv, CallsApart
<1>12. aux' \in [ArchChan -> Nat] /\ aux' = aux
  BY <1>0, <1>t DEF ArchTypeOK
<1> QED
  BY <1>0, <1>2, <1>4, <1>6, <1>8, <1>9, <1>10, <1>11, <1>12, MovedInv

LEMMA QueryValued == ASSUME ArchInv, NEW p \in ArchProc, QueryValue(p, TRUE) PROVE ArchInv'
<1>t. ArchTypeOK /\ StacksMatch /\ RegLocked /\ ValuesApart /\ call[p] \in ArchCall
  BY DEF ArchInv, ArchTypeOK, ArchCall
<1> DEFINE r == [call[p] EXCEPT !.at = "answer"]
<1>0. /\ call[p].at = "value" /\ GoesTo(p, "answer") /\ reglock' = {}
      /\ labels' = [labels EXCEPT ![p] = SubSeq(labels[p], 1, Len(labels[p]) - 3)]
      /\ has' = [has EXCEPT ![p] = has[p] \ {"value", "hkey", "reglock"}]
      /\ UNCHANGED <<aux, values, elsewhere>>
  BY <1>t DEF QueryValue, At, StacksMatch
<1>2. r \in ArchCall /\ r.at = "answer" /\ r.v = call[p].v /\ r.chan = call[p].chan
  BY <1>t DEF ArchCall, ArchAt, ArchQuerying
<1>3. call' = [call EXCEPT ![p] = r]
  BY <1>0, <1>t DEF ArchTypeOK, GoesTo
<1>4. Moved(p, r)
  <2>1. /\ labels[p] = <<"cb", "key", "item", "reglock", "hkey", "value">>
        /\ has[p] = {"cb", "key", "item", "reglock", "hkey", "value"}
    BY <1>0, <1>t, StackFacts, StackSets DEF StacksMatch
  <2>2. SubSeq(labels[p], 1, Len(labels[p]) - 3) = ArchQuery
    BY <2>1, UnwoundValue
  <2>3. has[p] \ {"value", "hkey", "reglock"} = {"cb", "key", "item"}
    BY <2>1
  <2> HIDE DEF r
  <2>4. ArchStack(r.at) = ArchQuery /\ ToSet(ArchQuery) = {"cb", "key", "item"}
    BY <1>2, StackFacts, StackSets
  <2> QED
    BY <1>0, <1>3, <2>2, <2>3, <2>4 DEF Moved
<1> HIDE DEF r
<1>5. call'[p] = r /\ \A q \in ArchProc \ {p} : call'[q] = call[q]
  BY <1>3, <1>t DEF ArchTypeOK
<1>6. RegLocked'
  <2>1. p \in reglock /\ \A q \in ArchProc : q \in reglock => q = p
    BY <1>0, <1>t DEF RegLocked
  <2>2. \A q \in ArchProc : call'[q].at \notin {"open", "size", "value"}
    BY <1>2, <1>5, <1>t, <2>1 DEF RegLocked
  <2> QED
    BY <1>0, <2>2 DEF RegLocked
<1>7. \A q \in ArchProc : \A x : Holds(q, x)' <=> Holds(q, x)
  BY <1>0, <1>2, <1>5 DEF Holds
<1>8. ValuesApart'
  BY <1>0, <1>7, <1>t DEF ValuesApart
<1>9. CallOK(p)'
  BY <1>0, <1>2, <1>5 DEF ArchInv, CallsApart, CallOK, ArchPlain, ArchQuerying, ArchReading
<1>10. IsFiniteSet(values') /\ values' \subseteq Nat \ {NoValue}
  BY <1>0, <1>t DEF ArchTypeOK
<1>11. \A q \in ArchProc \ {p} : r.chan # {} => call[q].chan # r.chan
  BY <1>2 DEF ArchInv, CallsApart
<1>12. aux' \in [ArchChan -> Nat] /\ aux' = aux
  BY <1>0, <1>t DEF ArchTypeOK
<1> QED
  BY <1>0, <1>2, <1>4, <1>6, <1>8, <1>9, <1>10, <1>11, <1>12, MovedInv
LEMMA DoneFacts ==
    /\ Done \in ArchCall /\ Done.at = "user" /\ Done.chan = {} /\ Done.v = NoValue
    /\ ArchStack(Done.at) = <<>> /\ ToSet(<<>>) = {}
BY StackFacts, StackSets DEF Done, ArchCall, ArchAt, NoValue

\* A call ends.
LEMMA ArchEnds ==
    ASSUME ArchInv, NEW p \in ArchProc, Moved(p, Done),
           call[p].at \in {"answer", "formatted"}, UNCHANGED <<reglock, elsewhere>>,
           ValuesApart', aux' \in [ArchChan -> Nat], values' \subseteq Nat \ {NoValue},
           IsFiniteSet(values'),
           \A c \in ArchChan : call[p].chan # {c} => aux'[c] = aux[c]
    PROVE  ArchInv'
<1>t. ArchTypeOK /\ StacksMatch /\ RegLocked
  BY DEF ArchInv
<1>1. call'[p] = Done /\ \A q \in ArchProc \ {p} : call'[q] = call[q]
  BY <1>t, DoneFacts, MovedStacks DEF ArchCall
<1>2. RegLocked'
  BY <1>1, <1>t, DoneFacts DEF RegLocked
<1>3. CallOK(p)'
  BY <1>1, DoneFacts DEF CallOK, ArchPlain, ArchQuerying, ArchReading
<1>4. \A q \in ArchProc \ {p}, c \in ArchChan : call[q].chan = {c} => aux'[c] = aux[c]
  BY DEF ArchInv, CallsApart
<1> QED
  BY <1>2, <1>3, <1>4, DoneFacts, MovedInv

LEMMA ArchAnswers == ASSUME ArchInv, NEW p \in ArchProc, Answer(p) PROVE ArchInv'
<1>t. ArchTypeOK /\ StacksMatch /\ ValuesApart /\ CallOK(p) /\ call[p] \in ArchCall
  BY DEF ArchInv, ArchTypeOK, ArchCall, CallsApart
<1>1. CASE call[p].v = NoValue
  BY <1>1, GoesBack DEF Answer, At
<1>2. CASE call[p].v # NoValue
  <2>0. /\ call[p].at = "answer"
        /\ \E c \in call[p].chan : aux' = [aux EXCEPT ![c] = call[p].v]
        /\ labels' = [labels EXCEPT ![p] = <<>>]
        /\ has' = [has EXCEPT ![p] = has[p] \ {"cb", "key", "item"}]
        /\ call' = [call EXCEPT ![p] = Done]
        /\ UNCHANGED <<reglock, values, elsewhere>>
    BY <1>2, <1>t DEF Answer, At, StacksMatch
  <2>1. has[p] = {"cb", "key", "item"}
    BY <2>0, <1>t, StackFacts, StackSets DEF StacksMatch
  <2>2. Moved(p, Done)
    <3>1. has[p] \ {"cb", "key", "item"} = {}
      BY <2>1
    <3> QED
      BY <2>0, <3>1, DoneFacts DEF Moved
  <2>3. PICK c \in ArchChan : call[p].chan = {c} /\ aux[c] = NoValue
    BY <2>0, <1>t DEF CallOK, ArchQuerying
  <2>4. aux' = [aux EXCEPT ![c] = call[p].v] /\ call[p].v \in Nat \ {NoValue}
    BY <1>2, <1>t, <2>0, <2>3 DEF ArchCall
  <2>5. /\ aux' \in [ArchChan -> Nat] /\ aux'[c] = call[p].v
        /\ \A d \in ArchChan \ {c} : aux'[d] = aux[d]
    BY <1>t, <2>4 DEF ArchTypeOK
  <2>6. /\ call'[p] = Done /\ \A q \in ArchProc \ {p} : call'[q] = call[q]
    BY <1>t, <2>0 DEF ArchTypeOK
  <2>7. \A q \in ArchProc, x \in Nat \ {NoValue} : Holds(q, x)' <=> Holds(q, x) /\ q # p
    BY <2>6, DoneFacts DEF Holds
  <2>8. \A x \in Nat \ {NoValue} : Holds(p, x) <=> x = call[p].v
    BY <2>0 DEF Holds
  <2>9. \A d \in ArchChan, x \in Nat \ {NoValue} : aux'[d] = x <=> aux[d] = x \/ (d = c /\ Holds(p, x))
    BY <2>3, <2>4, <2>5, <2>8
  <2>10. ValuesApart'
    <3> SUFFICES ASSUME NEW x \in Nat \ {NoValue}
                 PROVE  /\ \A d, e \in ArchChan : aux'[d] = x /\ aux'[e] = x => d = e
                        /\ \A q, u \in ArchProc : Holds(q, x)' /\ Holds(u, x)' => q = u
                        /\ \A q \in ArchProc, d \in ArchChan : ~(Holds(q, x)' /\ aux'[d] = x)
                        /\ x \in values' <=>
                              (\E d \in ArchChan : aux'[d] = x) \/ (\E q \in ArchProc : Holds(q, x)')
      BY DEF ValuesApart
    <3>1. /\ \A d, e \in ArchChan : aux[d] = x /\ aux[e] = x => d = e
          /\ \A q, u \in ArchProc : Holds(q, x) /\ Holds(u, x) => q = u
          /\ \A q \in ArchProc, d \in ArchChan : ~(Holds(q, x) /\ aux[d] = x)
          /\ x \in values <=>
                (\E d \in ArchChan : aux[d] = x) \/ (\E q \in ArchProc : Holds(q, x))
      BY <1>t DEF ValuesApart
    <3>2. values' = values
      BY <2>0
    <3> QED
      BY <2>7, <2>9, <3>1, <3>2
  <2> QED
    BY <1>t, <2>0, <2>2, <2>3, <2>5, <2>10, ArchEnds DEF ArchTypeOK
<1> QED
  BY <1>1, <1>2

\* The value of a channel is read or thrown away.
LEMMA ValueGone ==
    ASSUME ArchTypeOK, ValuesApart, NEW c \in ArchChan,
           values' = values \ {aux[c]}, aux' = [aux EXCEPT ![c] = NoValue],
           \A q \in ArchProc, x \in Nat \ {NoValue} : Holds(q, x)' <=> Holds(q, x)
    PROVE  /\ ValuesApart' /\ aux' \in [ArchChan -> Nat] /\ aux'[c] = NoValue
           /\ values' \subseteq Nat \ {NoValue} /\ IsFiniteSet(values')
           /\ \A d \in ArchChan \ {c} : aux'[d] = aux[d]
<1>1. /\ aux' \in [ArchChan -> Nat] /\ aux'[c] = NoValue
      /\ \A d \in ArchChan \ {c} : aux'[d] = aux[d]
  BY DEF ArchTypeOK, NoValue
<1>2. values' \subseteq values /\ IsFiniteSet(values) /\ values' \subseteq Nat \ {NoValue}
  BY DEF ArchTypeOK
<1>3. IsFiniteSet(values')
  BY <1>2, FS_Subset
<1>4. \A d \in ArchChan, x \in Nat \ {NoValue} : aux'[d] = x <=> aux[d] = x /\ d # c
  BY <1>1
<1>5. ValuesApart'
  <2> SUFFICES ASSUME NEW x \in Nat \ {NoValue}
               PROVE  /\ \A d, e \in ArchChan : aux'[d] = x /\ aux'[e] = x => d = e
                      /\ \A q, u \in ArchProc : Holds(q, x)' /\ Holds(u, x)' => q = u
                      /\ \A q \in ArchProc, d \in ArchChan : ~(Holds(q, x)' /\ aux'[d] = x)
                      /\ x \in values' <=>
                            (\E d \in ArchChan : aux'[d] = x) \/ (\E q \in ArchProc : Holds(q, x)')
    BY DEF ValuesApart
  <2>1. /\ \A d, e \in ArchChan : aux[d] = x /\ aux[e] = x => d = e
        /\ \A q, u \in ArchProc : Holds(q, x) /\ Holds(u, x) => q = u
        /\ \A q \in ArchProc, d \in ArchChan : ~(Holds(q, x) /\ aux[d] = x)
        /\ x \in values <=>
              (\E d \in ArchChan : aux[d] = x) \/ (\E q \in ArchProc : Holds(q, x))
    BY DEF ValuesApart
  <2>2. x \in values' <=> x \in values /\ x # aux[c]
    OBVIOUS
  <2> QED
    BY <1>4, <2>1, <2>2
<1> QED
  BY <1>1, <1>2, <1>3, <1>5

\* A call begins, on a channel that no other uses.
LEMMA BeginFacts ==
    ASSUME ArchInv, NEW p \in ArchProc, NEW c \in ArchChan, NEW place \in {"parse", "format"},
           NEW x \in Nat, Begins(p, c, place, x)
    PROVE  /\ [at |-> place, chan |-> {c}, v |-> x] \in ArchCall
           /\ Moved(p, [at |-> place, chan |-> {c}, v |-> x])
           /\ call[p].at = "user" /\ RegLocked'
           /\ call'[p] = [at |-> place, chan |-> {c}, v |-> x]
           /\ \A q \in ArchProc : call[q].chan # {c}
           /\ \A q \in ArchProc : \A y : Holds(q, y)' <=> Holds(q, y)
           /\ UNCHANGED elsewhere
<1> DEFINE r == [at |-> place, chan |-> {c}, v |-> x]
<1>t. ArchTypeOK /\ StacksMatch /\ RegLocked
  BY DEF ArchInv
<1>0. /\ call[p] = Done /\ \A q \in ArchProc : call[q].chan # {c}
      /\ call' = [call EXCEPT ![p] = r] /\ UNCHANGED <<labels, has, reglock, elsewhere>>
  BY DEF Begins
<1>1. r \in ArchCall /\ r.at = place /\ ArchStack(r.at) = <<>>
  BY StackFacts DEF ArchCall, ArchAt, ArchQuerying, ArchPlain, ArchReading
<1>2. labels' = [labels EXCEPT ![p] = <<>>] /\ has' = [has EXCEPT ![p] = {}]
  BY <1>0, <1>t, DoneFacts DEF StacksMatch
<1>3. Moved(p, r)
  BY <1>0, <1>1, <1>2, DoneFacts DEF Moved
<1>4. call'[p] = r /\ \A q \in ArchProc \ {p} : call'[q] = call[q]
  BY <1>0, <1>t DEF ArchTypeOK
<1>5. RegLocked'
  BY <1>0, <1>1, <1>4, <1>t, DoneFacts DEF RegLocked
<1>6. \A q \in ArchProc : \A y : Holds(q, y)' <=> Holds(q, y)
  BY <1>0, <1>1, <1>4, DoneFacts DEF Holds
<1> QED
  BY <1>0, <1>1, <1>3, <1>4, <1>5, <1>6, DoneFacts

LEMMA ArchWrites ==
    ASSUME ArchInv, NEW p \in ArchProc, NEW c \in ArchChan, Archwrite(p, c)
    PROVE  ArchInv'
<1> DEFINE r == [at |-> "parse", chan |-> {c}, v |-> NoValue]
<1>0. Begins(p, c, "parse", NoValue) /\ values' = values \ {aux[c]}
      /\ aux' = [aux EXCEPT ![c] = NoValue]
  BY DEF Archwrite
<1>1. /\ r \in ArchCall /\ Moved(p, r) /\ call[p].at = "user" /\ RegLocked' /\ call'[p] = r
      /\ \A q \in ArchProc : call[q].chan # {c}
      /\ \A q \in ArchProc : \A y : Holds(q, y)' <=> Holds(q, y)
      /\ UNCHANGED elsewhere
  <2>1. NoValue \in Nat
    BY DEF NoValue
  <2> QED
    BY <1>0, <2>1, BeginFacts
<1>2. /\ ValuesApart' /\ aux' \in [ArchChan -> Nat] /\ aux'[c] = NoValue
      /\ values' \subseteq Nat \ {NoValue} /\ IsFiniteSet(values')
      /\ \A d \in ArchChan \ {c} : aux'[d] = aux[d]
  BY <1>0, <1>1, ValueGone DEF ArchInv
<1>3. r.at = "parse" /\ r.chan = {c} /\ r.v = NoValue
  OBVIOUS
<1> HIDE DEF r
<1>4. CallOK(p)'
  BY <1>1, <1>2, <1>3 DEF CallOK, ArchPlain, ArchQuerying, ArchReading
<1>5. \A q \in ArchProc \ {p}, d \in ArchChan : call[q].chan = {d} => aux'[d] = aux[d]
  BY <1>1, <1>2
<1>6. \A q \in ArchProc \ {p} : r.chan # {} => call[q].chan # r.chan
  BY <1>1, <1>3
<1> QED
  BY <1>1, <1>2, <1>3, <1>4, <1>5, <1>6, MovedInv

LEMMA ArchReads ==
    ASSUME ArchInv, NEW p \in ArchProc, NEW c \in ArchChan, Archread(p, c)
    PROVE  ArchInv'
<1> DEFINE r == [at |-> "format", chan |-> {c}, v |-> aux[c]]
<1>0. aux[c] # NoValue /\ Begins(p, c, "format", aux[c]) /\ UNCHANGED <<aux, values>>
  BY DEF Archread
<1>t. aux[c] \in Nat /\ ArchTypeOK /\ ValuesApart
  BY DEF ArchInv, ArchTypeOK
<1>1. /\ r \in ArchCall /\ Moved(p, r) /\ call[p].at = "user" /\ RegLocked' /\ call'[p] = r
      /\ \A q \in ArchProc : call[q].chan # {c}
      /\ \A q \in ArchProc : \A y : Holds(q, y)' <=> Holds(q, y)
      /\ UNCHANGED elsewhere
  BY <1>0, <1>t, BeginFacts
<1>2. ValuesApart'
  BY <1>0, <1>1, <1>t DEF ValuesApart
<1>3. r.at = "format" /\ r.chan = {c} /\ r.v = aux[c]
  OBVIOUS
<1> HIDE DEF r
<1>4. CallOK(p)'
  BY <1>0, <1>1, <1>3 DEF CallOK, ArchPlain, ArchQuerying, ArchReading
<1>5. \A q \in ArchProc \ {p} : r.chan # {} => call[q].chan # r.chan
  BY <1>1, <1>3
<1>6. /\ aux' \in [ArchChan -> Nat] /\ values' \subseteq Nat \ {NoValue} /\ IsFiniteSet(values')
      /\ aux' = aux
  BY <1>0, <1>t DEF ArchTypeOK
<1> QED
  BY <1>1, <1>2, <1>3, <1>4, <1>5, <1>6, MovedInv

LEMMA ArchFormats == ASSUME ArchInv, NEW p \in ArchProc, ArchFormat(p) PROVE ArchInv'
<1> DEFINE r == [call[p] EXCEPT !.at = "formatted"]
<1>t. ArchTypeOK /\ StacksMatch /\ RegLocked /\ ValuesApart /\ CallOK(p) /\ call[p] \in ArchCall
  BY DEF ArchInv, ArchTypeOK, ArchCall, CallsApart
<1>0. /\ call[p].at = "format" /\ Push(p, "p") /\ GoesTo(p, "formatted")
      /\ UNCHANGED <<reglock, aux, values, elsewhere>>
  BY DEF ArchFormat, At
<1>1. r \in ArchCall /\ r.at = "formatted" /\ r.chan = call[p].chan /\ r.v = call[p].v
  BY <1>t DEF ArchCall, ArchAt, ArchReading
<1>2. call' = [call EXCEPT ![p] = r]
  BY <1>0, <1>t DEF GoesTo, ArchTypeOK
<1>3. Moved(p, r)
  <2>1. labels[p] = <<>> /\ has[p] = {}
    BY <1>0, <1>t, StackFacts, StackSets DEF StacksMatch
  <2>2. labels' = [labels EXCEPT ![p] = Append(labels[p], "p")] /\ has' = [has EXCEPT ![p] = has[p] \cup {"p"}]
    BY <1>0, <1>t DEF Push, StacksMatch
  <2>3. Append(<<>>, "p") = <<"p">> /\ {} \cup {"p"} = {"p"}
    BY ArchPushes
  <2>4. ArchStack("formatted") = <<"p">> /\ ToSet(<<"p">>) = {"p"}
    BY StackFacts, StackSets
  <2> HIDE DEF r
  <2> QED
    BY <1>1, <1>2, <2>1, <2>2, <2>3, <2>4 DEF Moved
<1> HIDE DEF r
<1>4. call'[p] = r /\ \A q \in ArchProc \ {p} : call'[q] = call[q]
  BY <1>2, <1>t DEF ArchTypeOK
<1>5. RegLocked'
  BY <1>0, <1>1, <1>4, <1>t DEF RegLocked
<1>6. \A q \in ArchProc : \A y : Holds(q, y)' <=> Holds(q, y)
  BY <1>0, <1>1, <1>4 DEF Holds
<1>7. ValuesApart'
  BY <1>0, <1>6, <1>t DEF ValuesApart
<1>8. CallOK(p)'
  BY <1>0, <1>1, <1>4, <1>t DEF CallOK, ArchPlain, ArchQuerying, ArchReading
<1>9. \A q \in ArchProc \ {p} : r.chan # {} => call[q].chan # r.chan
  BY <1>1 DEF ArchInv, CallsApart
<1>10. /\ aux' \in [ArchChan -> Nat] /\ values' \subseteq Nat \ {NoValue} /\ IsFiniteSet(values')
       /\ aux' = aux
  BY <1>0, <1>t DEF ArchTypeOK
<1> QED
  BY <1>0, <1>1, <1>3, <1>5, <1>7, <1>8, <1>9, <1>10, MovedInv

LEMMA ReadEnds == ASSUME ArchInv, NEW p \in ArchProc, ReadDone(p) PROVE ArchInv'
<1>t. ArchTypeOK /\ StacksMatch /\ ValuesApart /\ CallOK(p) /\ call[p] \in ArchCall
  BY DEF ArchInv, ArchTypeOK, ArchCall, CallsApart
<1>0. /\ call[p].at = "formatted"
      /\ labels' = [labels EXCEPT ![p] = <<>>]
      /\ has' = [has EXCEPT ![p] = has[p] \ {"p"}]
      /\ \E c \in call[p].chan : aux' = [aux EXCEPT ![c] = NoValue]
      /\ values' = values \ {call[p].v}
      /\ call' = [call EXCEPT ![p] = Done]
      /\ UNCHANGED <<reglock, elsewhere>>
  BY <1>t DEF ReadDone, At, StacksMatch
<1>1. has[p] = {"p"}
  BY <1>0, <1>t, StackFacts, StackSets DEF StacksMatch
<1>2. Moved(p, Done)
  <2>1. has[p] \ {"p"} = {}
    BY <1>1
  <2> QED
    BY <1>0, <2>1, DoneFacts DEF Moved
<1>3. PICK c \in ArchChan : call[p].chan = {c} /\ aux[c] = call[p].v
  BY <1>0, <1>t DEF CallOK, ArchReading
<1>4. aux' = [aux EXCEPT ![c] = NoValue] /\ values' = values \ {aux[c]}
  BY <1>0, <1>3
<1>5. call'[p] = Done /\ \A q \in ArchProc \ {p} : call'[q] = call[q]
  BY <1>0, <1>t DEF ArchTypeOK
<1>6. \A q \in ArchProc, x \in Nat \ {NoValue} : Holds(q, x)' <=> Holds(q, x)
  BY <1>0, <1>5, DoneFacts DEF Holds
<1>7. /\ ValuesApart' /\ aux' \in [ArchChan -> Nat] /\ aux'[c] = NoValue
      /\ values' \subseteq Nat \ {NoValue} /\ IsFiniteSet(values')
      /\ \A d \in ArchChan \ {c} : aux'[d] = aux[d]
  BY <1>4, <1>6, <1>t, ValueGone
<1> QED
  BY <1>0, <1>2, <1>3, <1>7, ArchEnds

LEMMA ArchCloses == ASSUME ArchInv, NEW c \in ArchChan, Archclose(c) PROVE ArchInv'
<1>t. ArchTypeOK /\ StacksMatch /\ RegLocked /\ ValuesApart /\ CallsApart /\ ToggledOnce
  BY DEF ArchInv
<1>0. /\ \A p \in ArchProc : call[p].chan # {c}
      /\ values' = values \ {aux[c]} /\ aux' = [aux EXCEPT ![c] = NoValue]
      /\ UNCHANGED <<call, labels, has, reglock, elsewhere>>
  BY DEF Archclose
<1>1. \A q \in ArchProc, x \in Nat \ {NoValue} : Holds(q, x)' <=> Holds(q, x)
  BY <1>0 DEF Holds
<1>2. /\ ValuesApart' /\ aux' \in [ArchChan -> Nat] /\ aux'[c] = NoValue
      /\ values' \subseteq Nat \ {NoValue} /\ IsFiniteSet(values')
      /\ \A d \in ArchChan \ {c} : aux'[d] = aux[d]
  BY <1>0, <1>1, <1>t, ValueGone
<1>3. ArchTypeOK'
  BY <1>0, <1>2, <1>t DEF ArchTypeOK, elsewhere
<1>4. StacksMatch' /\ RegLocked'
  BY <1>0, <1>t DEF StacksMatch, RegLocked
<1>5. CallsApart'
  BY <1>0, <1>2, <1>t DEF CallsApart, CallOK
<1>6. ToggledOnce'
  BY <1>0, <1>t DEF ToggledOnce, At, elsewhere
<1> QED
  BY <1>2, <1>3, <1>4, <1>5, <1>6 DEF ArchInv

\* The switch: two steps of a call that holds nothing.
LEMMA SwitchInv ==
    ASSUME ArchInv, NEW p \in ArchProc, NEW r \in ArchCall, call' = [call EXCEPT ![p] = r],
           call[p].at \in {"user", "toggled"}, r.at \in {"user", "toggled"}, r.chan = {},
           r.at = "user" => r = Done, r.at = "toggled" => r.v \in {0, 1},
           UNCHANGED <<labels, has, reglock, aux, values>>,
           screentog' \in {0, 1}, frame' \in {0, 1}, together' \in BOOLEAN, ToggledOnce'
    PROVE  ArchInv'
<1>t. ArchTypeOK /\ StacksMatch /\ RegLocked /\ ValuesApart /\ CallsApart
  BY DEF ArchInv
<1>1. call \in [ArchProc -> ArchCall]
  BY <1>t DEF ArchTypeOK, ArchCall
<1>2. /\ call' \in [ArchProc -> ArchCall] /\ call'[p] = r
      /\ \A q \in ArchProc \ {p} : call'[q] = call[q]
  BY <1>1
<1>3. ArchTypeOK'
  BY <1>2, <1>t DEF ArchTypeOK, ArchCall
<1>4. \A q \in ArchProc : ArchStack(call'[q].at) = ArchStack(call[q].at)
  BY <1>2, StackFacts
<1>5. StacksMatch'
  BY <1>4, <1>t DEF StacksMatch
<1>6. RegLocked'
  BY <1>2, <1>t DEF RegLocked
<1>7. \A q \in ArchProc : \A x : Holds(q, x)' <=> Holds(q, x)
  BY <1>2 DEF Holds
<1>8. ValuesApart'
  BY <1>7, <1>t DEF ValuesApart
<1>9. \A q \in ArchProc : CallOK(q)'
  BY <1>2, <1>t DEF CallsApart, CallOK, ArchPlain, ArchQuerying, ArchReading
<1>10. CallsApart'
  BY <1>2, <1>9, <1>t DEF CallsApart
<1> QED
  BY <1>3, <1>5, <1>6, <1>8, <1>10 DEF ArchInv

LEMMA ArchToggles == ASSUME ArchInv, NEW p \in ArchProc, Toggle(p) PROVE ArchInv'
<1> DEFINE r == [at |-> "toggled", chan |-> {}, v |-> screentog']
<1>t. ArchTypeOK /\ ToggledOnce /\ call \in [ArchProc -> ArchCall]
  BY DEF ArchInv, ArchTypeOK, ArchCall
<1>0. /\ call[p] = Done /\ screentog' = 1 - screentog
      /\ call' = [call EXCEPT ![p] = r]
      /\ together' = (together \/ \E q \in ArchProc : At(q, "toggled"))
      /\ UNCHANGED <<labels, has, reglock, aux, values, frame>>
  BY DEF Toggle
<1>1. screentog' \in {0, 1} /\ screentog' \in Nat
  BY <1>0, <1>t DEF ArchTypeOK
<1>2. r \in ArchCall /\ r.at = "toggled" /\ r.chan = {} /\ r.v = screentog'
  BY <1>1 DEF ArchCall, ArchAt
<1>3. call'[p] = r /\ \A q \in ArchProc \ {p} : call'[q] = call[q]
  BY <1>0, <1>t
<1>4. together' \in BOOLEAN /\ frame' \in {0, 1}
  BY <1>0, <1>t DEF ArchTypeOK
<1> HIDE DEF r
<1>5. ToggledOnce'
  <2>1. CASE together'
    BY <2>1 DEF ToggledOnce
  <2>2. CASE ~together'
    <3>1. \A q \in ArchProc : call[q].at # "toggled"
      BY <1>0, <2>2 DEF At
    <3>2. \A q \in ArchProc : call'[q].at = "toggled" <=> q = p
      BY <1>2, <1>3, <3>1
    <3> QED
      BY <1>2, <1>3, <3>2 DEF ToggledOnce, At
  <2> QED
    BY <2>1, <2>2
<1> QED
  BY <1>0, <1>1, <1>2, <1>4, <1>5, DoneFacts, SwitchInv

LEMMA ArchToggleds == ASSUME ArchInv, NEW p \in ArchProc, Toggled(p) PROVE ArchInv'
<1>t. ArchTypeOK /\ ToggledOnce /\ CallOK(p) /\ call \in [ArchProc -> ArchCall]
  BY DEF ArchInv, ArchTypeOK, ArchCall, CallsApart
<1>0. /\ call[p].at = "toggled" /\ frame' = call[p].v /\ call' = [call EXCEPT ![p] = Done]
      /\ UNCHANGED <<labels, has, reglock, aux, values, screentog, together>>
  BY DEF Toggled, At
<1>1. call'[p] = Done /\ \A q \in ArchProc \ {p} : call'[q] = call[q]
  BY <1>0, <1>t
<1>2. frame' \in {0, 1} /\ screentog' \in {0, 1} /\ together' \in BOOLEAN
  BY <1>0, <1>t DEF CallOK, ArchTypeOK
<1>3. ToggledOnce'
  BY <1>0, <1>1, <1>t, DoneFacts DEF ToggledOnce, At
<1> QED
  BY <1>0, <1>2, <1>3, DoneFacts, SwitchInv

LEMMA ArchStarts == ArchInit => ArchInv
<1> SUFFICES ASSUME ArchInit PROVE ArchInv
  OBVIOUS
<1> USE DEF ArchInit
<1>1. \A p \in ArchProc : call[p] = Done
  OBVIOUS
<1>2. ArchTypeOK
  BY DoneFacts, FS_EmptySet DEF ArchTypeOK, ArchCall, NoValue
<1>3. StacksMatch
  BY DoneFacts DEF StacksMatch
<1>4. RegLocked
  BY <1>1, DoneFacts DEF RegLocked
<1>5. CallsApart
  BY <1>1, DoneFacts DEF CallsApart, CallOK, ArchPlain, ArchQuerying, ArchReading
<1>6. ValuesApart
  BY <1>1, DoneFacts DEF ValuesApart, Holds
<1>7. ToggledOnce
  BY <1>1, DoneFacts DEF ToggledOnce, At
<1> QED
  BY <1>2, <1>3, <1>4, <1>5, <1>6, <1>7 DEF ArchInv

LEMMA ArchStep == ArchInv /\ [ArchNext]_archVars => ArchInv'
<1> SUFFICES ASSUME ArchInv, [ArchNext]_archVars PROVE ArchInv'
  OBVIOUS
<1>1. CASE UNCHANGED archVars \/ Nprocs
  <2>1. UNCHANGED <<call, labels, has, reglock, aux, values, screentog, frame, together>>
    BY <1>1 DEF archVars, registry, Nprocs
  <2>2. ArchTypeOK' /\ StacksMatch' /\ RegLocked'
    BY <2>1 DEF ArchInv, ArchTypeOK, StacksMatch, RegLocked
  <2>3. CallsApart'
    BY <2>1 DEF ArchInv, CallsApart, CallOK
  <2>4. ValuesApart'
    BY <2>1 DEF ArchInv, ValuesApart, Holds
  <2>5. ToggledOnce'
    BY <2>1 DEF ArchInv, ToggledOnce, At
  <2> QED
    BY <2>2, <2>3, <2>4, <2>5 DEF ArchInv
<1>2. ASSUME NEW p \in ArchProc,
             Root(p, FALSE) \/ RegOpenKey(p, FALSE) \/ QuerySize(p, FALSE) \/ QueryValue(p, FALSE)
      PROVE  ArchInv'
  <2>1. Raise(p) /\ UNCHANGED elsewhere /\ call[p].at \in {"root", "open", "size", "value"}
    BY <1>2 DEF Root, RegOpenKey, QuerySize, QueryValue, At
  <2> QED
    BY <2>1, GoesBack
<1>3. ASSUME NEW p \in ArchProc, NEW ok \in BOOLEAN,
             Root(p, ok) \/ RegOpenKey(p, ok) \/ QuerySize(p, ok) \/ QueryValue(p, ok)
      PROVE  ArchInv'
  <2>1. CASE ok = TRUE
    BY <1>3, <2>1, QuerySteps, QuerySized, QueryValued
  <2>2. CASE ok = FALSE
    BY <1>2, <1>3, <2>2
  <2> QED
    BY <2>1, <2>2
<1>4. ASSUME NEW p \in ArchProc, NEW c \in ArchChan, Archwrite(p, c) \/ Archread(p, c)
      PROVE  ArchInv'
  BY <1>4, ArchWrites, ArchReads
<1>5. ASSUME NEW p \in ArchProc, \/ Parsed(p) \/ Item(p) \/ Lock(p)
                                \/ Answer(p) \/ ArchFormat(p) \/ ReadDone(p)
      PROVE  ArchInv'
  <2>1. CASE Parsed(p) \/ Item(p) \/ Lock(p)
    BY <2>1, QuerySteps
  <2> QED
    BY <1>5, <2>1, ArchAnswers, ArchFormats, ReadEnds
<1>6. ASSUME NEW p \in ArchProc, Toggle(p) \/ Toggled(p) PROVE ArchInv'
  BY <1>6, ArchToggles, ArchToggleds
<1>7. ASSUME NEW c \in ArchChan, Archclose(c) PROVE ArchInv'
  BY <1>7, ArchCloses
<1> QED
  BY <1>1, <1>3, <1>4, <1>5, <1>6, <1>7 DEF ArchNext

\* Whichever step of a query fails, the call gives back what it took; no value
\* leaks or is freed in use, and the window is what the switch says.
THEOREM ArchStaysClean == ArchSpec => []ArchClean
<1>1. ArchInv => ArchClean
  <2> SUFFICES ASSUME ArchInv PROVE ArchClean
    OBVIOUS
  <2>t. ArchTypeOK /\ StacksMatch /\ RegLocked /\ ValuesApart /\ CallsApart /\ ToggledOnce
    BY DEF ArchInv
  <2>1. ASSUME NEW p \in ArchProc
        PROVE  /\ ToSet(labels[p]) = has[p] /\ (call[p] = Done => has[p] = {})
               /\ "reglock" \in has[p] <=> call[p].at \in {"open", "size", "value"}
    <3>1. /\ labels[p] = ArchStack(call[p].at) /\ has[p] = ToSet(ArchStack(call[p].at))
          /\ call[p].at \in ArchAt
      BY <2>t DEF StacksMatch, ArchTypeOK
    <3>2. \A place \in ArchAt : "reglock" \in ToSet(ArchStack(place)) <=> place \in {"open", "size", "value"}
      BY StackFacts, StackSets DEF ArchAt, ArchQuerying, ArchPlain, ArchReading
    <3> QED
      BY <3>1, <3>2, DoneFacts
  <2>2. NothingHeld
    BY <2>1, <2>t DEF NothingHeld, RegLocked
  <2>3. ValuesOwned
    <3> DEFINE owned == ({aux[c] : c \in ArchChan} \cup {call[p].v : p \in
                            {q \in ArchProc : call[q].chan # {}}}) \ {NoValue}
    <3>1. ASSUME NEW x \in values PROVE x \in owned
      <4>1. x \in Nat \ {NoValue}
        BY <2>t DEF ArchTypeOK
      <4>2. (\E c \in ArchChan : aux[c] = x) \/ (\E p \in ArchProc : Holds(p, x))
        BY <2>t, <4>1 DEF ValuesApart
      <4>3. ASSUME NEW p \in ArchProc, Holds(p, x) PROVE call[p].chan # {} /\ call[p].v = x
        BY <2>t, <4>3 DEF Holds, CallsApart, CallOK, ArchQuerying
      <4> QED
        BY <4>1, <4>2, <4>3
    <3>2. ASSUME NEW x \in owned PROVE x \in values
      <4>1. x # NoValue
        OBVIOUS
      <4>2. CASE \E c \in ArchChan : aux[c] = x
        BY <2>t, <4>1, <4>2 DEF ValuesApart, ArchTypeOK
      <4>3. ASSUME NEW p \in ArchProc, call[p].chan # {}, call[p].v = x PROVE x \in values
        <5>0. call[p].at \in ArchAt /\ x \in Nat \ {NoValue} /\ CallOK(p)
          BY <2>t, <4>1, <4>3 DEF ArchTypeOK, CallsApart
        <5>1. call[p].at \notin {"user", "toggled"} /\ call[p].at \notin ArchPlain
          BY <4>1, <4>3, <5>0, DoneFacts DEF CallOK
        <5>2. CASE call[p].at \in {"value", "answer"}
          BY <2>t, <4>3, <5>0, <5>2 DEF ValuesApart, Holds
        <5>3. CASE call[p].at \in ArchReading
          BY <2>t, <4>3, <5>0, <5>3 DEF ValuesApart, CallOK
        <5> QED
          BY <5>0, <5>1, <5>2, <5>3 DEF ArchAt, ArchQuerying
      <4> QED
        BY <4>2, <4>3
    <3> QED
      BY <3>1, <3>2 DEF ValuesOwned
  <2>4. FrameMatches
    BY <2>t DEF ToggledOnce, FrameMatches
  <2> QED
    BY <2>2, <2>3, <2>4 DEF ArchClean
<1> QED
  BY <1>1, ArchStarts, ArchStep, PTL DEF ArchSpec

=============================================================================
