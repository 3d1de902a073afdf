---------------------------- MODULE DriverProofs ----------------------------
(***************************************************************************)
(* Proofs about the drivers of Emu: the pointer, the size of the window,   *)
(* the programs of $Vxrun, the keyboard, and the audio device. Each has an *)
(* inductive invariant of its own.                                         *)
(***************************************************************************)
EXTENDS Emu, FiniteSetTheorems, SequenceTheorems, NaturalsInduction,
        WellFoundedInduction, TLAPS

-----------------------------------------------------------------------------
(***************************************************************************)
(* /dev/pointer.  The heart of it is Numbered: the entry with i others     *)
(* before it in the ring has a number above get + i.  So the entry that    *)
(* lets get catch up with put is the last event, although put counts       *)
(* events that were never stored, and get the events that were not read    *)
(* from the ring.                                                          *)
(***************************************************************************)
\* How many entries are read before the one in place i; how many there are.
Before(i) == IF i >= rd THEN i - rd ELSE i - rd + Nevent
Stored == IF full THEN Nevent ELSE Before(wr)
Places == 0 .. Nevent - 1
Held == {i \in Places : Before(i) < Stored}

PointerTypeOK ==
    /\ mouse \in Event /\ clicks \in [Places -> Event] /\ last \in Event
    /\ rd \in Places /\ wr \in Places /\ full \in BOOLEAN
    /\ put \in 0 .. MaxPut /\ get \in Nat /\ ptr \in Int
    /\ reader \in [PointerProc -> {"user", "open", "refused", "asleep", "awake"}]
    /\ owed \subseteq Nat /\ overflowed \in BOOLEAN

\* Who counts as an open, and who has one that was not refused.
Counted == {p \in PointerProc : reader[p] # "user"}
Opened == {p \in PointerProc : reader[p] \notin {"user", "refused"}}

OneReader ==
    /\ ptr = Cardinality(Counted)
    /\ \A p, q \in Opened : p = q

\* What the ring holds was counted in put, and not yet in get.
Counts ==
    /\ full => rd = wr
    /\ Stored <= put - get
    /\ \A p \in PointerProc : reader[p] = "awake" => get < put

Numbered ==
    /\ mouse.n = put /\ last.n <= put
    /\ \A i \in Held : /\ get + Before(i) < clicks[i].n /\ clicks[i].n <= put
                       /\ clicks[i].n = put => clicks[i] = mouse
    /\ \A i, j \in Held : Before(i) < Before(j) => clicks[i].n < clicks[j].n

\* A reader that has caught up has read the last event.
Current == get = put => last = mouse

\* What is owed is in the ring, and was not overtaken.
Owed ==
    ~overflowed => /\ ~full
                   /\ \A n \in owed : n > last.n /\ \E i \in Held : clicks[i].n = n

PointerInv == PointerTypeOK /\ OneReader /\ Counts /\ Numbered /\ Current /\ Owed

-----------------------------------------------------------------------------
\* What the first /dev/pointer invariant of the runs says of the readers.
LEMMA OneReaderMeansOnePointer ==
    ASSUME OneReader PROVE OnePointer
<1>1. Opened = {} \/ \E p : Opened = {p}
  BY DEF OneReader
<1>2. Cardinality(Opened) <= 1
  <2>1. CASE Opened = {}
    BY <2>1, FS_EmptySet
  <2>2. ASSUME NEW p, Opened = {p} PROVE Cardinality(Opened) = 1
    BY <2>2, FS_Singleton
  <2> QED
    BY <1>1, <2>1, <2>2
<1> QED
  BY <1>2 DEF OneReader, OnePointer, Counted, Opened

LEMMA CountedFinite == IsFiniteSet(Counted)
BY PointerAssumption, FS_Subset DEF Counted

\* A step that changes neither what is counted nor who has the file open.
LEMMA OneReaderKept ==
    ASSUME OneReader, ptr' = ptr, Counted' = Counted, Opened' = Opened
    PROVE  OneReader'
BY DEF OneReader

LEMMA OpenKeepsOneReader ==
    ASSUME PointerTypeOK, OneReader, NEW p \in PointerProc, PointerOpen(p)
    PROVE  OneReader'
<1>1. p \notin Counted /\ Counted' = Counted \cup {p}
  BY DEF PointerOpen, Counted, PointerTypeOK
<1>2. ptr' = Cardinality(Counted')
  BY <1>1, CountedFinite, FS_AddElement DEF OneReader, PointerOpen
<1>3. CASE ptr' = 1
  <2>1. Cardinality(Counted) = 0 /\ Counted = {}
    BY <1>3, CountedFinite, FS_EmptySet DEF OneReader, PointerOpen, PointerTypeOK
  <2>2. Opened' \subseteq {p}
    BY <1>1, <2>1 DEF Opened, Counted
  <2> QED
    BY <1>2, <2>2 DEF OneReader
<1>4. CASE ptr' # 1
  <2>1. Opened' = Opened
    BY <1>4 DEF PointerOpen, Opened, PointerTypeOK
  <2> QED
    BY <1>2, <2>1 DEF OneReader
<1> QED
  BY <1>3, <1>4

LEMMA CloseKeepsOneReader ==
    ASSUME PointerTypeOK, OneReader, NEW p \in PointerProc, PointerClose(p)
    PROVE  OneReader'
<1>1. p \in Counted /\ Counted' = Counted \ {p} /\ Opened' \subseteq Opened
  BY DEF PointerClose, Counted, Opened, PointerTypeOK
<1>2. ptr' = Cardinality(Counted')
  BY <1>1, CountedFinite, FS_RemoveElement DEF OneReader, PointerClose
<1> QED
  BY <1>1, <1>2 DEF OneReader

-----------------------------------------------------------------------------
\* An event that is put: it is the last one, and the last of the ring if it is
\* stored there.
LEMMA ProduceStep ==
    ASSUME PointerInv, NEW b \in SUBSET (Button \cup {"double", "close"}), Mouseproduce(b)
    PROVE  PointerInv'
<1> DEFINE e == [n |-> put + 1, b |-> b]
           stores == mouse.b # b /\ ~full
<1>0. /\ Nevent \in Nat \ {0} /\ MaxPut \in Nat /\ put \in Nat /\ put + 1 <= MaxPut
      /\ rd \in 0 .. Nevent - 1 /\ wr \in 0 .. Nevent - 1
  BY PointerAssumption DEF Mouseproduce, PointerInv, PointerTypeOK, Places
<1>1. /\ e \in Event /\ e.n = put + 1 /\ mouse' = e /\ put' = put + 1
      /\ UNCHANGED <<rd, get, ptr, reader, last>>
  BY <1>0 DEF Mouseproduce, Event
<1> HIDE DEF e
<1>2. PointerTypeOK'
  <2>1. wr' \in Places /\ full' \in BOOLEAN /\ clicks' \in [Places -> Event]
    <3>1. CASE stores
      <4>1. clicks' = [clicks EXCEPT ![wr] = e] /\ wr' = Following(wr) /\ full' = (wr' = rd)
        BY <3>1 DEF Mouseproduce, e
      <4> QED
        BY <1>0, <1>1, <4>1 DEF PointerInv, PointerTypeOK, Places, Following
    <3>2. CASE ~stores
      BY <3>2 DEF Mouseproduce, PointerInv, PointerTypeOK
    <3> QED
      BY <3>1, <3>2
  <2>2. owed' \subseteq Nat /\ overflowed' \in BOOLEAN /\ put' \in 0 .. MaxPut
    BY <1>0, <1>1, <2>1 DEF Mouseproduce, PointerInv, PointerTypeOK
  <2> QED
    BY <1>1, <2>1, <2>2 DEF PointerInv, PointerTypeOK
<1>3. OneReader'
  BY <1>1, OneReaderKept DEF PointerInv, Counted, Opened
<1>4. CASE ~stores
  <2>1. UNCHANGED <<clicks, wr, full>>
    BY <1>4 DEF Mouseproduce
  <2>2. Before(wr)' = Before(wr) /\ Stored' = Stored /\ Held' = Held
        /\ \A i \in Held : Before(i)' = Before(i)
    BY <1>1, <2>1 DEF Stored, Before, Held
  <2>3. Counts'
    BY <1>0, <1>1, <2>1, <2>2 DEF PointerInv, Counts, PointerTypeOK, Stored, Before, Places
  <2>4. \A i \in Held : clicks[i].n \in Nat
    BY <1>0 DEF PointerInv, PointerTypeOK, Held, Event
  <2>5. Numbered'
    BY <1>0, <1>1, <2>1, <2>2, <2>4 DEF PointerInv, Numbered, PointerTypeOK, Event
  <2>6. Current'
    BY <1>0, <1>1 DEF PointerInv, Counts, Current, PointerTypeOK, Stored, Before, Places
  <2>7. Owed'
    <3>1. CASE overflowed'
      BY <3>1 DEF Owed
    <3>2. CASE ~overflowed'
      <4>1. ~overflowed /\ ~full' /\ owed' = owed
        BY <1>4, <2>1, <3>2 DEF Mouseproduce
      <4> QED
        BY <1>1, <2>1, <2>2, <4>1 DEF PointerInv, Owed
    <3> QED
      BY <3>1, <3>2
  <2> QED
    BY <1>2, <1>3, <2>3, <2>5, <2>6, <2>7 DEF PointerInv
<1>5. CASE stores
  <2>1. /\ clicks' = [clicks EXCEPT ![wr] = e] /\ wr' = Following(wr)
        /\ full' = (wr' = rd)
    BY <1>5 DEF Mouseproduce, e
  <2>2. /\ Stored' = Stored + 1 /\ Before(wr) = Stored
        /\ \A i \in Places : Before(i)' = Before(i)
        /\ \A i \in Places : Before(i) = Stored => i = wr
    <3>1. ~full /\ rd' = rd /\ (full' <=> wr' = rd)
          /\ wr' = IF wr + 1 = Nevent THEN 0 ELSE wr + 1
      BY <1>1, <1>5, <2>1 DEF Following
    <3>2. Stored = Before(wr) /\ Stored' = IF full' THEN Nevent ELSE Before(wr)'
      BY <3>1 DEF Stored
    <3>3. \A i \in Places : Before(i)' = Before(i)
      BY <3>1 DEF Before
    <3>4. Before(wr)' = IF wr' >= rd THEN wr' - rd ELSE wr' - rd + Nevent
      BY <3>1 DEF Before
    <3> QED
      BY <1>0, <3>1, <3>2, <3>3, <3>4 DEF Before, Places
  <2>3. Held' = Held \cup {wr} /\ wr \notin Held
    <3>1. wr \in Places /\ Stored \in Nat /\ \A i \in Places : Before(i) \in Nat
      BY <1>0, <2>2 DEF Places, Before
    <3> QED
      BY <2>2, <3>1 DEF Held, Places
  <2>4. /\ \A i \in Held : clicks'[i] = clicks[i]
        /\ clicks'[wr] = e /\ \A i \in Held' : clicks'[i].n \in Nat
    BY <1>0, <1>1, <2>1, <2>3 DEF PointerInv, PointerTypeOK, Held, Event, Places
  <2>5. Counts'
    BY <1>0, <1>1, <2>1, <2>2 DEF PointerInv, Counts, PointerTypeOK, Stored, Before, Places
  <2>6. \A i \in Held : Before(i) < Before(wr)
    BY <2>2 DEF Held
  <2>7. Before(wr) \in Nat /\ \A i \in Held : Before(i) \in Nat
    BY <1>0 DEF Before, Held, Places
  <2>8. get + Before(wr) < put + 1
    BY <1>0, <2>2, <2>7 DEF PointerInv, Counts, PointerTypeOK
  <2>9. Numbered'
    <3>1. \A i \in Held' : i \in Places
      BY DEF Held
    <3>2. mouse'.n = put' /\ last'.n <= put'
      BY <1>0, <1>1 DEF PointerInv, Numbered, PointerTypeOK, Event
    <3>3. ASSUME NEW i \in Held'
          PROVE  /\ get' + Before(i)' < clicks'[i].n /\ clicks'[i].n <= put'
                 /\ clicks'[i].n = put' => clicks'[i] = mouse'
      <4>1. CASE i \in Held
        BY <1>0, <1>1, <2>2, <2>4, <2>7, <3>1, <4>1
           DEF PointerInv, Numbered, PointerTypeOK, Held
      <4>2. CASE i = wr
        BY <1>0, <1>1, <2>2, <2>4, <2>8, <4>2 DEF Places
      <4> QED
        BY <2>3, <4>1, <4>2
    <3>4. ASSUME NEW i \in Held', NEW j \in Held', Before(i)' < Before(j)'
          PROVE  clicks'[i].n < clicks'[j].n
      <4>1. Before(i) < Before(j) /\ i \in Held
        BY <2>2, <2>3, <2>6, <2>7, <3>1, <3>4
      <4>2. CASE j \in Held
        BY <2>4, <4>1, <4>2 DEF PointerInv, Numbered
      <4>3. CASE j = wr
        <5>1. clicks[i].n <= put /\ clicks[i].n \in Nat
          BY <2>3, <2>4, <4>1 DEF PointerInv, Numbered
        <5> QED
          BY <1>0, <1>1, <2>4, <4>1, <4>3, <5>1
      <4> QED
        BY <2>3, <4>2, <4>3
    <3> QED
      BY <3>2, <3>3, <3>4 DEF Numbered
  <2>10. Current'
    BY <1>0, <1>1 DEF PointerInv, Counts, Current, PointerTypeOK, Stored, Before, Places
  <2>11. Owed'
    <3>1. CASE overflowed'
      BY <3>1 DEF Owed
    <3>2. CASE ~overflowed'
      <4>1. ~overflowed /\ ~full' /\ owed' = owed \cup {put + 1}
        BY <1>1, <1>5, <3>2 DEF Mouseproduce, e
      <4>2. ASSUME NEW n \in owed
            PROVE  n > last'.n /\ \E i \in Held' : clicks'[i].n = n
        BY <1>1, <2>3, <2>4, <4>1 DEF PointerInv, Owed
      <4>3. put + 1 > last'.n /\ clicks'[wr].n = put + 1
        BY <1>0, <1>1, <2>4 DEF PointerInv, Numbered, PointerTypeOK, Event
      <4> QED
        BY <2>3, <4>1, <4>2, <4>3 DEF Owed
    <3> QED
      BY <3>1, <3>2
  <2> QED
    BY <1>2, <1>3, <2>5, <2>9, <2>10, <2>11 DEF PointerInv
<1> QED
  BY <1>4, <1>5

-----------------------------------------------------------------------------
\* A read of the ring, or of the last event when the ring is empty or was
\* forgotten.
LEMMA ConsumeStep ==
    ASSUME PointerInv, NEW p \in PointerProc, Mouseconsume(p)
    PROVE  PointerInv'
<1>0. /\ Nevent \in Nat \ {0} /\ put \in Nat /\ get \in Nat /\ get < put
      /\ rd \in 0 .. Nevent - 1 /\ wr \in 0 .. Nevent - 1 /\ full \in BOOLEAN
  BY PointerAssumption DEF Mouseconsume, PointerInv, PointerTypeOK, Places, Counts
<1>1. /\ full' = FALSE /\ get' = get + 1 /\ owed' = owed \ {last'.n}
      /\ reader' = [reader EXCEPT ![p] = "open"]
      /\ UNCHANGED <<mouse, clicks, wr, put, ptr, overflowed>>
  BY DEF Mouseconsume, Consumed
<1>2. OneReader'
  <2>1. Counted' = Counted /\ Opened' = Opened
    BY <1>1 DEF Mouseconsume, Counted, Opened, PointerInv, PointerTypeOK
  <2> QED
    BY <1>1, <2>1, OneReaderKept DEF PointerInv
<1>3. \A q \in PointerProc : reader'[q] # "awake"
  <2>1. p \in Opened /\ \A q \in PointerProc : reader[q] = "awake" => q \in Opened
    BY DEF Mouseconsume, Opened
  <2>2. \A q \in PointerProc : reader[q] = "awake" => q = p
    BY <2>1 DEF PointerInv, OneReader
  <2> QED
    BY <1>1, <2>2 DEF PointerInv, PointerTypeOK
<1>4. CASE rd = wr
  <2>1. last' = mouse /\ rd' = rd
    BY <1>4 DEF Mouseconsume
  <2>2. Stored' = 0 /\ Held' = {}
    BY <1>0, <1>1, <1>4, <2>1 DEF Stored, Before, Held, Places
  <2>3. PointerTypeOK'
    <3>1. get' \in Nat /\ owed' \subseteq Nat /\ full' \in BOOLEAN
      <4>1. owed \subseteq Nat
        BY DEF PointerInv, PointerTypeOK
      <4>2. get' \in Nat
        BY <1>0, <1>1
      <4>3. full' \in BOOLEAN /\ owed' \subseteq Nat
        BY <1>1, <4>1, Zenon
      <4> QED
        BY <4>2, <4>3
    <3>2. reader' \in [PointerProc -> {"user", "open", "refused", "asleep", "awake"}]
      BY <1>1 DEF PointerInv, PointerTypeOK
    <3> QED
      BY <1>1, <2>1, <3>1, <3>2 DEF PointerInv, PointerTypeOK
  <2>4. Counts' /\ Numbered' /\ Current'
    BY <1>0, <1>1, <1>3, <1>4, <2>1, <2>2 DEF PointerInv, Counts, Numbered, Current
  <2>5. Owed'
    BY <1>0, <1>1, <1>4, <2>1 DEF PointerInv, Owed, Stored, Before, Held, Places
  <2> QED
    BY <1>2, <2>3, <2>4, <2>5 DEF PointerInv
<1>5. CASE rd # wr
  <2>1. last' = clicks[rd] /\ rd' = Following(rd) /\ ~full
    BY <1>5 DEF Mouseconsume, PointerInv, Counts
  <2>2. /\ rd \in Held /\ Before(rd) = 0 /\ Stored = Before(wr) /\ Stored' = Stored - 1
        /\ Stored \in Nat
        /\ \A i \in Places \ {rd} : Before(i)' = Before(i) - 1 /\ Before(i) \in Nat \ {0}
        /\ \A i \in Places : i = rd => Before(i)' = Nevent - 1
        /\ Stored < Nevent
    <3>1. rd' = IF rd + 1 = Nevent THEN 0 ELSE rd + 1
      BY <2>1 DEF Following
    <3>2. Stored = Before(wr) /\ Stored' = Before(wr)'
      BY <1>1, <2>1 DEF Stored
    <3>3. \A i \in Places : Before(i)' = IF i >= rd' THEN i - rd' ELSE i - rd' + Nevent
      BY DEF Before
    <3>4. Before(wr)' = IF wr >= rd' THEN wr - rd' ELSE wr - rd' + Nevent
      BY <1>1 DEF Before
    <3>5. \A i \in Places : i = rd => Before(i)' = Nevent - 1
      BY <1>0, <3>1, <3>3 DEF Before, Places
    <3>6. \A i \in Places \ {rd} : Before(i)' = Before(i) - 1 /\ Before(i) \in Nat \ {0}
      BY <1>0, <3>1, <3>3 DEF Before, Places
    <3>7. Stored \in Nat \ {0} /\ Stored < Nevent /\ Before(rd) = 0 /\ Stored' = Stored - 1
      BY <1>0, <1>5, <3>1, <3>2, <3>4 DEF Before
    <3>8. rd \in Held
      BY <1>0, <3>7 DEF Held, Places
    <3> QED
      BY <3>2, <3>5, <3>6, <3>7, <3>8
  <2>3. Held' = Held \ {rd}
    <3>1. Held' = {i \in Places : Before(i)' < Stored'}
      BY DEF Held, Places
    <3> QED
      BY <1>0, <2>2, <3>1 DEF Held, Places
  <2>4. /\ \A i \in Held : clicks[i] \in Event /\ clicks[i].n \in Nat
        /\ get < clicks[rd].n
    BY <1>0, <2>2 DEF PointerInv, PointerTypeOK, Held, Event, Numbered
  <2>5. PointerTypeOK'
    <3>1. get' \in Nat /\ owed' \subseteq Nat /\ full' \in BOOLEAN
      <4>1. owed \subseteq Nat
        BY DEF PointerInv, PointerTypeOK
      <4>2. get' \in Nat
        BY <1>0, <1>1
      <4>3. full' \in BOOLEAN /\ owed' \subseteq Nat
        BY <1>1, <4>1, Zenon
      <4> QED
        BY <4>2, <4>3
    <3>2. reader' \in [PointerProc -> {"user", "open", "refused", "asleep", "awake"}]
      BY <1>1 DEF PointerInv, PointerTypeOK
    <3>3. rd' \in Places /\ last' \in Event
      BY <1>0, <2>1, <2>2, <2>4 DEF Following, Places
    <3> QED
      BY <1>1, <3>1, <3>2, <3>3 DEF PointerInv, PointerTypeOK
  <2>6. Counts'
    BY <1>0, <1>1, <1>3, <2>2 DEF PointerInv, Counts
  <2>7. Numbered'
    BY <1>0, <1>1, <2>1, <2>2, <2>3, <2>4 DEF PointerInv, Numbered, Held
  <2>8. Current'
    <3>1. get' = put' => clicks[rd].n = put
      BY <1>0, <1>1, <2>2, <2>4 DEF PointerInv, Numbered
    <3> QED
      BY <1>1, <2>1, <2>2, <3>1 DEF PointerInv, Numbered, Current
  <2>9. Owed'
    <3>1. CASE overflowed
      BY <1>1, <3>1 DEF Owed
    <3>2. CASE ~overflowed
      <4>1. ASSUME NEW n \in owed'
            PROVE  n > last'.n /\ \E i \in Held' : clicks'[i].n = n
        <5>1. PICK i \in Held : clicks[i].n = n
          BY <1>1, <3>2, <4>1 DEF PointerInv, Owed
        <5>2. i # rd /\ i \in Held'
          BY <1>1, <2>1, <2>3, <4>1, <5>1
        <5>3. Before(rd) < Before(i)
          BY <2>2, <5>2 DEF Held
        <5>4. clicks[rd].n < clicks[i].n
          BY <2>2, <5>3 DEF PointerInv, Numbered
        <5> QED
          BY <1>1, <2>1, <2>2, <2>4, <5>1, <5>2, <5>4
      <4> QED
        BY <1>1, <3>2, <4>1 DEF Owed
    <3> QED
      BY <3>1, <3>2
  <2> QED
    BY <1>2, <2>5, <2>6, <2>7, <2>8, <2>9 DEF PointerInv
<1> QED
  BY <1>4, <1>5

\* The steps of a process that do not touch the events.
LEMMA ProcessStep ==
    ASSUME PointerInv, NEW p \in PointerProc,
           PointerOpen(p) \/ PointerClose(p) \/ PointerRead(p) \/ PointerWake(p)
    PROVE  PointerInv'
<1>1. UNCHANGED <<mouse, clicks, rd, wr, full, put, get, last, owed, overflowed>>
  BY DEF PointerOpen, PointerClose, PointerRead, PointerWake, ring, pointerHist
<1>2. Before(wr)' = Before(wr) /\ \A i \in Places : Before(i)' = Before(i)
  BY <1>1 DEF Before
<1>3. Stored' = Stored /\ Held' = Held
  BY <1>1, <1>2 DEF Stored, Held
<1>4. Numbered' /\ Current' /\ Owed'
  BY <1>1, <1>2, <1>3 DEF PointerInv, Numbered, Current, Owed, Held
<1>5. PointerTypeOK'
  BY <1>1 DEF PointerInv, PointerTypeOK, PointerOpen, PointerClose, PointerRead, PointerWake
<1>6. OneReader'
  <2>1. CASE PointerOpen(p)
    BY <2>1, OpenKeepsOneReader DEF PointerInv
  <2>2. CASE PointerClose(p)
    BY <2>2, CloseKeepsOneReader DEF PointerInv
  <2>3. CASE PointerRead(p) \/ PointerWake(p)
    <3>1. Counted' = Counted /\ Opened' = Opened /\ ptr' = ptr
      BY <2>3 DEF PointerRead, PointerWake, Counted, Opened, PointerInv, PointerTypeOK
    <3> QED
      BY <3>1, OneReaderKept DEF PointerInv
  <2> QED
    BY <2>1, <2>2, <2>3
<1>7. \A q \in PointerProc : reader'[q] = "awake" => get < put
  <2>1. full => get < put
    BY PointerAssumption DEF PointerInv, PointerTypeOK, Counts, Stored
  <2>2. get <= put
    BY PointerAssumption DEF PointerInv, PointerTypeOK, Counts, Stored, Before, Places
  <2>3. Ptrqnotempty => get < put
    BY <2>1, <2>2 DEF Ptrqnotempty, PointerInv, PointerTypeOK
  <2> QED
    BY <2>3 DEF PointerInv, PointerTypeOK, Counts, PointerOpen, PointerClose, PointerRead, PointerWake
<1>8. Counts'
  BY <1>1, <1>3, <1>7 DEF PointerInv, Counts
<1> QED
  BY <1>4, <1>5, <1>6, <1>8 DEF PointerInv

LEMMA PointerStarts == PointerInit => PointerInv
<1> SUFFICES ASSUME PointerInit PROVE PointerInv
  OBVIOUS
<1>1. Nevent \in Nat \ {0} /\ MaxPut \in Nat /\ NoEvent \in Event /\ NoEvent.n = 0
  BY PointerAssumption DEF Event, NoEvent
<1>2. PointerTypeOK
  <2>1. 0 \in Places /\ 0 \in 0 .. MaxPut
    BY <1>1 DEF Places
  <2>2. clicks \in [Places -> Event]
    BY <1>1 DEF PointerInit, Places
  <2>3. /\ reader \in [PointerProc -> {"user", "open", "refused", "asleep", "awake"}]
        /\ ptr \in Int /\ owed \subseteq Nat /\ get \in Nat
    BY DEF PointerInit
  <2>4. full \in BOOLEAN /\ overflowed \in BOOLEAN
    BY DEF PointerInit
  <2>5. mouse \in Event /\ last \in Event /\ rd \in Places /\ wr \in Places /\ put \in 0 .. MaxPut
    BY <1>1, <2>1 DEF PointerInit
  <2> QED
    BY <2>2, <2>3, <2>4, <2>5 DEF PointerTypeOK
<1>3. Stored = 0 /\ Held = {}
  BY <1>1 DEF PointerInit, Stored, Held, Before, Places
<1>4. Counted = {} /\ Opened = {}
  BY DEF PointerInit, Counted, Opened
<1>5. OneReader
  BY <1>4, FS_EmptySet DEF OneReader, PointerInit
<1>6. Counts /\ Numbered /\ Current /\ Owed
  BY <1>1, <1>3 DEF PointerInit, Counts, Numbered, Current, Owed
<1> QED
  BY <1>2, <1>5, <1>6 DEF PointerInv

LEMMA PointerStep == PointerInv /\ [PointerNext]_pointerVars => PointerInv'
<1> SUFFICES ASSUME PointerInv, [PointerNext]_pointerVars PROVE PointerInv'
  OBVIOUS
<1>1. ASSUME NEW twice \in {"none"} \cup (MouseKey \cap Button), NEW down \in SUBSET MouseKey,
             MouseMessage(twice, down)
      PROVE  PointerInv'
  <2>1. Pressed(twice, down) \in SUBSET (Button \cup {"double", "close"})
    BY PointerAssumption DEF Pressed, Button
  <2> QED
    BY <1>1, <2>1, ProduceStep DEF MouseMessage
<1>2. CASE CloseMessage
  BY <1>2, ProduceStep DEF CloseMessage
<1>3. ASSUME NEW p \in PointerProc,
             \/ PointerOpen(p) \/ PointerClose(p) \/ PointerRead(p) \/ PointerWake(p)
             \/ Mouseconsume(p)
      PROVE  PointerInv'
  BY <1>3, ProcessStep, ConsumeStep
<1>4. CASE UNCHANGED pointerVars
  <2>1. UNCHANGED <<mouse, clicks, rd, wr, full, put, get, ptr, reader, last, owed, overflowed>>
    BY <1>4 DEF pointerVars, ring, pointerHist
  <2>2. /\ UNCHANGED <<Counted, Opened, Stored, Held>>
        /\ \A i \in Places : Before(i)' = Before(i)
    BY <2>1 DEF Counted, Opened, Stored, Held, Before
  <2>3. PointerTypeOK' /\ OneReader' /\ Counts'
    BY <2>1, <2>2 DEF PointerInv, PointerTypeOK, OneReader, Counts
  <2>4. Numbered' /\ Current' /\ Owed'
    BY <2>1, <2>2 DEF PointerInv, Numbered, Current, Owed, Held
  <2> QED
    BY <2>3, <2>4 DEF PointerInv
<1> QED
  BY <1>1, <1>2, <1>3, <1>4 DEF PointerNext

LEMMA PointerPromise == PointerInv => MouseDelivered
<1> SUFFICES ASSUME PointerInv PROVE MouseDelivered
  OBVIOUS
<1>1. OnePointer
  BY OneReaderMeansOnePointer DEF PointerInv
<1>2. SleeperIsCurrent
  BY DEF SleeperIsCurrent, Ptrqnotempty, PointerInv, Current
<1>3. PressesSeen
  BY DEF PressesSeen, PointerInv, Owed
<1> QED
  BY <1>1, <1>2, <1>3 DEF MouseDelivered

\* Lab 55, /dev/pointer: whatever the length of the ring, one process has the
\* file, it never sleeps on an event it has not read, and sees every press in
\* order until the ring was full once (mouseproduce and mouseconsume).
THEOREM PointerDelivers == PointerSpec => []MouseDelivered
BY PointerStarts, PointerStep, PointerPromise, PTL DEF PointerSpec

-----------------------------------------------------------------------------
(***************************************************************************)
(* /dev/wmsize.  Until a click is stored the ring is empty, so a reader    *)
(* copies mouse.v.  It can have copied half of a new size only while the   *)
(* tracker has put still to advance, or put is ahead of get already: then  *)
(* the reader does not sleep.                                              *)
(***************************************************************************)
WmPlaces == 0 .. WmEvent - 1

WmTypeOK ==
    /\ v \in Wmsize
    /\ wmring \in [rd : WmPlaces, wr : WmPlaces, full : BOOLEAN, put : Nat, get : Nat,
                   clicks : [WmPlaces -> Wmsize]]
    /\ tracker \in [at : {"idle", "x", "y", "b", "click", "full", "put"}, e : Wmsize, lastb : {0, 1}]
    /\ wmref \in Nat /\ wmq \subseteq WmChan
    /\ chan \in [WmChan -> {"none", "walked", "open"}]
    /\ wmread \in [at : {"idle", "asleep", "get", "look", "click", "x", "y", "b"}, e : Wmsize]
    /\ wmlast \in Wmsize /\ wmstored \in BOOLEAN

WmCounts == wmring.get <= wmring.put

WmEmpty ==
    ~wmstored => /\ wmring.rd = wmring.wr /\ ~wmring.full
                 /\ tracker.at # "full" /\ wmread.at # "click"

WmFresh ==
    ~wmstored =>
        /\ wmread.at = "get" => wmring.get # wmring.put
        /\ tracker.at = "idle" /\ wmring.get = wmring.put =>
              /\ wmread.at \in {"idle", "asleep"} => wmlast = v
              /\ wmread.at \in {"y", "b"} => wmread.e.x = v.x
              /\ wmread.at = "b" => wmread.e.y = v.y

WmInv == WmTypeOK /\ WmCounts /\ WmEmpty /\ WmFresh /\ OneSizeReader

LEMMA WmFacts ==
    /\ Unsized \in Wmsize /\ WmPlaces # {} /\ 0 \in WmPlaces
    /\ \A i \in WmPlaces : After(i) \in WmPlaces
BY WmSizeAssumption DEF Unsized, Wmsize, WmPlaces, After

LEMMA WmInit == WmSizeInit => WmInv
<1> SUFFICES ASSUME WmSizeInit PROVE WmInv
  OBVIOUS
<1>1. WmTypeOK
  <2>1. wmring \in [rd : WmPlaces, wr : WmPlaces, full : BOOLEAN, put : Nat, get : Nat,
                    clicks : [WmPlaces -> Wmsize]]
    BY WmFacts DEF WmSizeInit, WmPlaces
  <2>2. /\ tracker \in [at : {"idle", "x", "y", "b", "click", "full", "put"}, e : Wmsize, lastb : {0, 1}]
        /\ wmread \in [at : {"idle", "asleep", "get", "look", "click", "x", "y", "b"}, e : Wmsize]
    BY WmFacts DEF WmSizeInit
  <2> QED
    BY WmFacts, <2>1, <2>2 DEF WmSizeInit, WmTypeOK
<1> QED
  BY <1>1 DEF WmSizeInit, WmInv, WmCounts, WmEmpty, WmFresh, OneSizeReader

LEMMA WmNext == WmInv /\ [WmSizeNext]_wmSizeVars => WmInv'
<1> SUFFICES ASSUME WmInv, [WmSizeNext]_wmSizeVars PROVE WmInv'
  OBVIOUS
<1> USE WmFacts
<1>t. WmTypeOK
  BY DEF WmInv
<1>r. wmring.put \in Nat /\ wmring.get \in Nat /\ wmring.get <= wmring.put
  BY DEF WmInv, WmTypeOK, WmCounts
<1> USE DEF WmInv, WmTypeOK, WmCounts, WmEmpty, WmFresh
<1>1. ASSUME NEW e \in Wmsize, Wmtrack(e) PROVE WmInv'
  <2>1. WmTypeOK'
    BY <1>1 DEF Wmtrack, wmdev, Wmsize
  <2> QED
    BY <1>1, <2>1 DEF Wmtrack, wmdev, OneSizeReader
<1>2. CASE TrackX
  <2>1. WmTypeOK'
    BY <1>2 DEF TrackX, wmdev, Wmsize
  <2>2. tracker'.at = "y"
    BY <1>2 DEF TrackX
  <2> QED
    BY <1>2, <2>1, <2>2 DEF TrackX, wmdev, OneSizeReader
<1>3. CASE TrackY
  <2>1. WmTypeOK'
    BY <1>3 DEF TrackY, wmdev, Wmsize
  <2>2. tracker'.at = "b"
    BY <1>3 DEF TrackY
  <2> QED
    BY <1>3, <2>1, <2>2 DEF TrackY, wmdev, OneSizeReader
<1>b. CASE TrackB
  <2>1. WmTypeOK'
    BY <1>b DEF TrackB, wmdev, Wmsize
  <2>2. tracker'.at = "click"
    BY <1>b DEF TrackB
  <2> QED
    BY <1>b, <2>1, <2>2 DEF TrackB, wmdev, OneSizeReader
<1>4. CASE TrackClick
  <2> DEFINE stores == ~wmring.full /\ tracker.lastb # v.b
  <2>1. CASE stores
    <3>1. wmring' = [wmring EXCEPT !.clicks[wmring.wr] = v, !.wr = After(wmring.wr)]
      BY <1>4, <2>1 DEF TrackClick
    <3>2. wmstored' = TRUE /\ tracker' = [tracker EXCEPT !.at = "full"]
      BY <1>4, <2>1 DEF TrackClick
    <3>3. wmring' \in [rd : WmPlaces, wr : WmPlaces, full : BOOLEAN, put : Nat, get : Nat,
                   clicks : [WmPlaces -> Wmsize]] /\ wmring'.put = wmring.put /\ wmring'.get = wmring.get
      BY <3>1
    <3>4. WmTypeOK'
      BY <1>4, <3>2, <3>3 DEF TrackClick, wmdev
    <3> QED
      BY <1>4, <3>2, <3>3, <3>4, <1>r, SMTT(60) DEF TrackClick, wmdev, OneSizeReader
  <2>2. CASE ~stores
    <3>1. wmring' = wmring /\ wmstored' = wmstored /\ tracker' = [tracker EXCEPT !.at = "put"]
      BY <1>4, <2>2 DEF TrackClick
    <3> QED
      BY <1>4, <3>1 DEF TrackClick, wmdev, OneSizeReader
  <2> QED
    BY <2>1, <2>2
<1>5. CASE TrackFull
  <2>1. wmstored
    BY <1>5 DEF TrackFull
  <2>2. WmTypeOK' /\ wmring'.put = wmring.put /\ wmring'.get = wmring.get
    BY <1>5 DEF TrackFull, wmdev
  <2> QED
    BY <1>5, <1>r, <2>1, <2>2 DEF TrackFull, wmdev, OneSizeReader
<1>6. CASE TrackPut
  <2>a. wmring' = [wmring EXCEPT !.put = wmring.put + 1]
    BY <1>6 DEF TrackPut
  <2>b. wmring.put + 1 \in Nat
    OBVIOUS
  <2>c. /\ wmring' \in [rd : WmPlaces, wr : WmPlaces, full : BOOLEAN, put : Nat, get : Nat,
                         clicks : [WmPlaces -> Wmsize]]
        /\ wmring'.put = wmring.put + 1 /\ wmring'.get = wmring.get
        /\ wmring'.rd = wmring.rd /\ wmring'.wr = wmring.wr /\ wmring'.full = wmring.full
    BY <2>a, <2>b
  <2>d. tracker' = [tracker EXCEPT !.at = "idle", !.lastb = 0] /\ UNCHANGED <<v, wmdev, wmread, wmlast, wmstored>>
    BY <1>6 DEF TrackPut
  <2>1. WmTypeOK' /\ wmring'.put = wmring.put + 1 /\ wmring'.get = wmring.get
        /\ wmring'.rd = wmring.rd /\ wmring'.wr = wmring.wr /\ wmring'.full = wmring.full
    BY <2>c, <2>d DEF wmdev
  <2>2. wmring'.get <= wmring'.put /\ wmring'.get # wmring'.put
    BY <1>r, <2>1
  <2>3. tracker'.at = "idle"
    BY <1>6 DEF TrackPut
  <2> QED
    BY <1>6, <2>1, <2>2, <2>3 DEF TrackPut, wmdev, OneSizeReader
<1>7. CASE ConsumeFull
  <2>1. WmTypeOK' /\ wmring'.put = wmring.put /\ wmring'.get = wmring.get
        /\ wmring'.rd = wmring.rd /\ wmring'.wr = wmring.wr /\ ~wmring'.full
        /\ wmread'.at = "get" /\ wmread.at = "asleep"
    BY <1>7 DEF ConsumeFull, wmdev
  <2>2. ~wmstored => wmring.get # wmring.put
    BY <1>7 DEF ConsumeFull, WmQnotempty
  <2> QED
    BY <1>7, <1>r, <2>1, <2>2 DEF ConsumeFull, wmdev, OneSizeReader
<1>8. CASE ConsumeGet
  <2>1. WmTypeOK' /\ wmring'.put = wmring.put /\ wmring'.get = wmring.put
        /\ wmring'.rd = wmring.rd /\ wmring'.wr = wmring.wr /\ wmring'.full = wmring.full
        /\ wmread'.at = "look" /\ wmread.at = "get"
    BY <1>8 DEF ConsumeGet, wmdev
  <2> QED
    BY <1>8, <1>r, <2>1 DEF ConsumeGet, wmdev, OneSizeReader
<1>l. CASE ConsumeLook
  <2>1. WmTypeOK' /\ wmread'.at \in {"click", "x"} /\ wmread.at = "look"
        /\ (wmread'.at = "click" => wmstored)
    BY <1>l DEF ConsumeLook, wmdev
  <2> QED
    BY <1>l, <2>1 DEF ConsumeLook, wmdev, OneSizeReader
<1>9. CASE ConsumeClick
  <2>1. wmstored /\ wmring.clicks[wmring.rd] \in Wmsize /\ After(wmring.rd) \in WmPlaces
    BY <1>9 DEF ConsumeClick
  <2>2. WmTypeOK' /\ wmring'.put = wmring.put /\ wmring'.get = wmring.get /\ wmread'.at = "idle"
    BY <1>9, <2>1 DEF ConsumeClick, WmReturn
  <2> QED
    BY <1>9, <1>r, <2>1, <2>2, SMTT(60) DEF ConsumeClick, WmReturn, OneSizeReader
<1>10. CASE ConsumeX
  <2>1. WmTypeOK' /\ wmread'.at = "y" /\ wmread'.e.x = v.x /\ wmread.at = "x"
    BY <1>10 DEF ConsumeX, wmdev, Wmsize, Unsized
  <2> QED
    BY <1>10, <2>1 DEF ConsumeX, wmdev, OneSizeReader
<1>y. CASE ConsumeY
  <2>1. /\ WmTypeOK' /\ wmread'.at = "b" /\ wmread.at = "y"
        /\ wmread'.e.x = wmread.e.x /\ wmread'.e.y = v.y
    BY <1>y DEF ConsumeY, wmdev, Wmsize
  <2> QED
    BY <1>y, <2>1 DEF ConsumeY, wmdev, OneSizeReader
<1>11. CASE ConsumeB
  <2>a. wmread.e \in Wmsize /\ v \in Wmsize
    BY <1>t
  <2>b. wmlast' = [wmread.e EXCEPT !.b = v.b] /\ wmread' = [at |-> "idle", e |-> Unsized]
        /\ wmq' = {} /\ UNCHANGED <<v, wmring, tracker, wmref, chan, wmstored>>
    BY <1>11 DEF ConsumeB, WmReturn
  <2>c. /\ wmlast' \in Wmsize
        /\ wmread.e.x = v.x /\ wmread.e.y = v.y => wmlast' = v
    BY <2>a, <2>b DEF Wmsize
  <2>1. /\ WmTypeOK' /\ wmread'.at = "idle"
        /\ wmread.e.x = v.x /\ wmread.e.y = v.y => wmlast' = v
    BY <2>b, <2>c
  <2> QED
    BY <1>11, <2>1, SMTT(60) DEF ConsumeB, WmReturn, OneSizeReader
<1>12. ASSUME NEW c \in WmChan, WmRead(c) PROVE WmInv'
  BY <1>12 DEF WmRead, OneSizeReader
<1>13. ASSUME NEW c \in WmChan, WmWalk(c) PROVE WmInv'
  <2>1. WmTypeOK' /\ wmref' >= wmref
    BY <1>13 DEF WmWalk
  <2>2. OneSizeReader'
    BY <1>13, <2>1 DEF WmWalk, OneSizeReader
  <2> QED
    BY <1>13, <2>1, <2>2 DEF WmWalk
<1>14. ASSUME NEW c \in WmChan, WmOpen(c) PROVE WmInv'
  <2>1. WmTypeOK' /\ wmref' >= wmref
    BY <1>14 DEF WmOpen
  <2>2. OneSizeReader'
    BY <1>14, <2>1 DEF WmOpen, OneSizeReader
  <2> QED
    BY <1>14, <2>1, <2>2 DEF WmOpen
<1>15. ASSUME NEW c \in WmChan, WmClose(c) PROVE WmInv'
  <2>1. WmTypeOK'
    BY <1>15 DEF WmClose, OneSizeReader
  <2>2. OneSizeReader'
    BY <1>15, <2>1 DEF WmClose, OneSizeReader
  <2> QED
    BY <1>15, <2>1, <2>2 DEF WmClose
<1>16. CASE UNCHANGED wmSizeVars
  BY <1>16 DEF wmSizeVars, wmdev, OneSizeReader
<1> QED
  BY <1>1, <1>2, <1>3, <1>b, <1>4, <1>5, <1>6, <1>7, <1>8, <1>l, <1>9, <1>10, <1>y, <1>11,
     <1>12, <1>13, <1>14, <1>15, <1>16, ZenonT(60) DEF WmSizeNext

\* devwmsz.c keeps its promise without a lock: a reader never sleeps on half of
\* a new size, and it is the only one.
THEOREM WmSizeDelivers == WmSizeSpec => []WmSizeTracked
<1>1. WmInv => WmSizeTracked
  BY DEF WmInv, WmTypeOK, WmCounts, WmFresh, WmSizeTracked, SizeSeen, WmQnotempty
<1> QED
  BY <1>1, WmInit, WmNext, PTL DEF WmSizeSpec

-----------------------------------------------------------------------------
(***************************************************************************)
(* $Vxrun.  What a thread does tells whether it has the lock, and only     *)
(* while its program runs has it memory.  All of that memory but the       *)
(* program is usable or left behind, never both, and whatever was granted  *)
(* lies in it.                                                             *)
(***************************************************************************)
VmAt == {"dis", "called", "siginit", "alloc", "load", "running", "leaving", "returned"}
VmMem == [size : Nat, rw : SUBSET Nat]
VmAsked == [granted : SUBSET Nat, behind : SUBSET Nat]

VmTypeOK ==
    /\ dis \in VmThread \cup {Unlocked}
    /\ vm \in [VmThread -> [at : VmAt, ret : Int]]
    /\ vmem \in [VmThread -> VmMem]
    /\ eax \in [VmThread -> Int]
    /\ asked \in [VmThread -> VmAsked]
    /\ vmprocs \in Nat /\ vmprocs <= Vxprocs

HasLock(t) == (dis = t) = (vm[t].at \in {"called", "returned"})

MemoryHeld(t) ==
    /\ vm[t].at = "running" => vmem[t].size >= Loaded
    /\ vm[t].at # "running" => vmem[t] = Nothing /\ asked[t] = NoBreak

\* Of m bytes of memory, with what was granted and what was left behind.
MemoryShared(m, k) ==
    /\ k.granted \subseteq Loaded .. m.size - 1
    /\ Loaded .. m.size - 1 = m.rw \cup k.behind
    /\ m.rw \cap k.behind = {}

InSandbox == {t \in VmThread : vm[t].at \in {"load", "running"}}
Sandboxed == IsFiniteSet(InSandbox) /\ Cardinality(InSandbox) <= vmprocs

VmInv ==
    /\ VmTypeOK
    /\ \A t \in VmThread : HasLock(t) /\ MemoryHeld(t) /\ MemoryShared(vmem[t], asked[t])
    /\ Sandboxed

LEMMA VmFacts ==
    /\ Space \in Nat /\ Space > 0 /\ VmUnit \in Nat /\ VmUnit > 0 /\ VmUnit <= Space
    /\ Unlocked \notin VmThread /\ Loaded \in Nat /\ Vxprocs \in Nat
BY VxrunAssumption DEF Space, Unlocked, Loaded

\* A break that is not near the end of the address space is rounded up.
LEMMA RoundedUp ==
    ASSUME NEW a \in Nat
    PROVE  /\ Rounded(a) \in Nat
           /\ a <= Space - VmUnit => Rounded(a) >= a
<1> USE VmFacts
<1> DEFINE n == a + VmUnit - 1
           m == n % Space
<1>1. n \in Nat
  OBVIOUS
<1>2. m \in Nat /\ (n < Space => m = n)
  BY <1>1
<1>3. ASSUME NEW k \in Nat PROVE k \div VmUnit \in Nat /\ VmUnit * (k \div VmUnit) \in Nat
  OBVIOUS
<1>4. VmUnit * (n \div VmUnit) >= a
  OBVIOUS
<1>5. Rounded(a) = VmUnit * (m \div VmUnit)
  BY DEF Rounded
<1>6. a <= Space - VmUnit => n < Space
  OBVIOUS
<1>7. Rounded(a) \in Nat
  BY <1>2, <1>3, <1>5
<1> HIDE DEF n, m
<1> QED
  BY <1>2, <1>4, <1>5, <1>6, <1>7

\* A sandbox that no program has holds nothing.
LEMMA NothingShared == MemoryShared(Nothing, NoBreak)
BY VmFacts DEF MemoryShared, Nothing, NoBreak

LEMMA VmStarts == VxrunInit => VmInv
<1> SUFFICES ASSUME VxrunInit PROVE VmInv
  OBVIOUS
<1>1. VmTypeOK
  BY VmFacts DEF VxrunInit, VmTypeOK, VmAt, VmMem, VmAsked, Nothing, NoBreak
<1>2. ASSUME NEW t \in VmThread
      PROVE  HasLock(t) /\ MemoryHeld(t) /\ MemoryShared(vmem[t], asked[t])
  BY VmFacts, NothingShared DEF VxrunInit, HasLock, MemoryHeld
<1>3. InSandbox = {}
  BY DEF VxrunInit, InSandbox
<1>4. Sandboxed
  BY <1>3, FS_EmptySet DEF Sandboxed, VxrunInit
<1> QED
  BY <1>1, <1>2, <1>4 DEF VmInv

\* The sandboxes in use: no other gets one but by VmStep, which counts it.
LEMMA SandboxesKept ==
    ASSUME Sandboxed, VmTypeOK, vmprocs' \in Nat,
           \/ InSandbox' \subseteq InSandbox /\ vmprocs' = vmprocs
           \/ \E t \in VmThread : InSandbox' \subseteq InSandbox \cup {t} /\ vmprocs' = vmprocs + 1
    PROVE  Sandboxed'
<1>1. IsFiniteSet(InSandbox) /\ Cardinality(InSandbox) \in Nat /\ Cardinality(InSandbox) <= vmprocs
  BY FS_CardinalityType DEF Sandboxed
<1>2. CASE InSandbox' \subseteq InSandbox /\ vmprocs' = vmprocs
  <2>1. IsFiniteSet(InSandbox') /\ Cardinality(InSandbox') <= Cardinality(InSandbox)
    BY <1>1, <1>2, FS_Subset
  <2>2. Cardinality(InSandbox') \in Nat
    BY <2>1, FS_CardinalityType
  <2>3. Cardinality(InSandbox') <= vmprocs'
    BY <1>1, <1>2, <2>1, <2>2 DEF VmTypeOK
  <2> QED
    BY <2>1, <2>3 DEF Sandboxed
<1>3. ASSUME NEW t \in VmThread, InSandbox' \subseteq InSandbox \cup {t}, vmprocs' = vmprocs + 1
      PROVE  Sandboxed'
  <2>1. /\ IsFiniteSet(InSandbox \cup {t}) /\ Cardinality(InSandbox \cup {t}) \in Nat
        /\ Cardinality(InSandbox \cup {t}) <= Cardinality(InSandbox) + 1
    <3>1. /\ IsFiniteSet(InSandbox \cup {t})
          /\ Cardinality(InSandbox \cup {t}) = IF t \in InSandbox THEN Cardinality(InSandbox)
                                               ELSE Cardinality(InSandbox) + 1
      BY <1>1, FS_AddElement
    <3> QED
      BY <1>1, <3>1
  <2>2. IsFiniteSet(InSandbox') /\ Cardinality(InSandbox') <= Cardinality(InSandbox \cup {t})
    BY <1>3, <2>1, FS_Subset
  <2>3. Cardinality(InSandbox') \in Nat
    BY <2>2, FS_CardinalityType
  <2>4. Cardinality(InSandbox') <= vmprocs'
    BY <1>1, <1>3, <2>1, <2>2, <2>3 DEF VmTypeOK
  <2> QED
    BY <2>2, <2>4 DEF Sandboxed
<1> QED
  BY <1>2, <1>3

\* A step of one thread that changes no memory and no history.
LEMMA VmOnly ==
    ASSUME VmInv, VmTypeOK', UNCHANGED <<vmem, asked>>, NEW t \in VmThread,
           \A u \in VmThread \ {t} : vm'[u] = vm[u],
           \A u \in VmThread : HasLock(u)', MemoryHeld(t)'
    PROVE  /\ \A u \in VmThread :
                HasLock(u)' /\ MemoryHeld(u)' /\ MemoryShared(vmem[u], asked[u])'
<1> SUFFICES ASSUME NEW u \in VmThread PROVE MemoryHeld(u)' /\ MemoryShared(vmem[u], asked[u])'
  OBVIOUS
<1>1. MemoryShared(vmem[u], asked[u])'
  BY DEF VmInv, MemoryShared
<1>2. MemoryHeld(u)'
  <2>1. CASE u = t
    BY <2>1
  <2>2. CASE u # t
    BY <2>2 DEF VmInv, MemoryHeld
  <2> QED
    BY <2>1, <2>2
<1> QED
  BY <1>1, <1>2

LEMMA VmNext == VmInv /\ [VxrunNext]_vxVars => VmInv'
<1> SUFFICES ASSUME VmInv, [VxrunNext]_vxVars PROVE VmInv'
  OBVIOUS
<1> USE VmFacts
<1>t. VmTypeOK /\ Sandboxed
  BY DEF VmInv
<1>0. CASE UNCHANGED vxVars
  <2>1. VmTypeOK' /\ Sandboxed'
    BY <1>0, <1>t DEF vxVars, VmTypeOK, Sandboxed, InSandbox
  <2>2. ASSUME NEW u \in VmThread
        PROVE  HasLock(u)' /\ MemoryHeld(u)' /\ MemoryShared(vmem[u], asked[u])'
    BY <1>0 DEF vxVars, VmInv, HasLock, MemoryHeld, MemoryShared
  <2> QED
    BY <2>1, <2>2 DEF VmInv
\* A thread takes the lock, gives it back, or goes on without it, outside its program.
<1>g. ASSUME NEW t \in VmThread, NEW to \in VmAt \ {"load", "running"}, NEW ret \in Int,
             vm[t].at # "running", vm' = [vm EXCEPT ![t] = [at |-> to, ret |-> ret]],
             dis' \in VmThread \cup {Unlocked},
             (dis' = t) = (to \in {"called", "returned"}),
             \A u \in VmThread \ {t} : (dis' = u) = (dis = u),
             UNCHANGED <<vmem, eax, asked, vmprocs>>
      PROVE  VmInv'
  <2>1. VmTypeOK'
    BY <1>g, <1>t DEF VmTypeOK
  <2>2. vm'[t].at = to /\ \A u \in VmThread \ {t} : vm'[u] = vm[u]
    BY <1>g, <1>t DEF VmTypeOK
  <2>3. \A u \in VmThread : HasLock(u)'
    BY <1>g, <2>2 DEF VmInv, HasLock
  <2>4. MemoryHeld(t)'
    BY <1>g, <2>2 DEF VmInv, MemoryHeld
  <2>5. InSandbox' \subseteq InSandbox
    BY <1>g, <2>2 DEF InSandbox
  <2>6. Sandboxed'
    BY <1>g, <1>t, <2>1, <2>5, SandboxesKept DEF VmTypeOK
  <2>7. \A u \in VmThread : HasLock(u)' /\ MemoryHeld(u)' /\ MemoryShared(vmem[u], asked[u])'
    BY <1>g, <2>1, <2>2, <2>3, <2>4, VmOnly
  <2> QED
    BY <2>1, <2>6, <2>7 DEF VmInv
<1>e. ASSUME NEW t \in VmThread, NEW to
      PROVE  /\ [vm EXCEPT ![t].at = to] = [vm EXCEPT ![t] = [at |-> to, ret |-> vm[t].ret]]
             /\ vm[t].ret \in Int
  <2>1. vm[t] \in [at : VmAt, ret : Int]
    BY <1>t DEF VmTypeOK
  <2>2. [vm[t] EXCEPT !.at = to] = [at |-> to, ret |-> vm[t].ret]
    BY <2>1
  <2>3. [vm EXCEPT ![t].at = to] = [vm EXCEPT ![t] = [vm[t] EXCEPT !.at = to]]
    BY Zenon
  <2> QED
    BY <2>1, <2>2, <2>3
<1>h. ASSUME NEW u \in VmThread PROVE HasLock(u)
  BY DEF VmInv
<1>1. ASSUME NEW t \in VmThread, DisRuns(t) PROVE VmInv'
  <2>1. "called" \in VmAt \ {"load", "running"} /\ 0 \in Int
    BY DEF VmAt
  <2>2. /\ vm[t].at # "running" /\ dis = Unlocked /\ dis' = t
        /\ vm' = [vm EXCEPT ![t] = [at |-> "called", ret |-> 0]]
        /\ UNCHANGED <<vmem, eax, asked, vmprocs>>
    BY <1>1 DEF DisRuns
  <2> QED
    BY <1>g, <2>1, <2>2
<1>2. ASSUME NEW t \in VmThread, VmRelease(t) \/ DisGoesOn(t) PROVE VmInv'
  <2>1. PICK to \in {"siginit", "dis"} :
            /\ vm[t].at \in {"called", "returned"} /\ dis' = Unlocked
            /\ vm' = [vm EXCEPT ![t] = [at |-> to, ret |-> vm[t].ret]]
            /\ UNCHANGED <<vmem, eax, asked, vmprocs>>
    BY <1>2, <1>e DEF VmRelease, DisGoesOn
  <2>2. to \in VmAt \ {"load", "running"} /\ vm[t].ret \in Int
    BY <1>e DEF VmAt
  <2>3. dis = t
    BY <2>1, <1>h DEF HasLock
  <2>4. Unlocked # t /\ \A u \in VmThread \ {t} : (dis' = u) = (dis = u)
    BY <2>1, <2>3
  <2>5. (dis' = t) = (to \in {"called", "returned"})
    BY <2>1, <2>4
  <2>6. vm[t].at # "running" /\ dis' \in VmThread \cup {Unlocked}
    BY <2>1
  <2> QED
    BY <1>g, <2>1, <2>2, <2>4, <2>5, <2>6
<1>5. ASSUME NEW t \in VmThread, VmAcquire(t) PROVE VmInv'
  <2>1. "returned" \in VmAt \ {"load", "running"} /\ vm[t].ret \in Int
    BY <1>e DEF VmAt
  <2>2. /\ vm[t].at # "running" /\ dis = Unlocked /\ dis' = t
        /\ vm' = [vm EXCEPT ![t] = [at |-> "returned", ret |-> vm[t].ret]]
        /\ UNCHANGED <<vmem, eax, asked, vmprocs>>
    BY <1>5, <1>e DEF VmAcquire
  <2> QED
    BY <1>g, <2>1, <2>2
<1>l. ASSUME NEW t \in VmThread, NEW ret \in Int, vm[t].at \notin {"called", "returned"},
             Leaving(t, ret), UNCHANGED <<dis, vmprocs>>
      PROVE  VmInv'
  <2>1. VmTypeOK'
    BY <1>l, <1>t DEF Leaving, VmTypeOK, VmAt, VmMem, VmAsked, Nothing, NoBreak
  <2>2. /\ vm'[t] = [at |-> "leaving", ret |-> ret] /\ vmem'[t] = Nothing /\ asked'[t] = NoBreak
        /\ \A u \in VmThread \ {t} : vm'[u] = vm[u] /\ vmem'[u] = vmem[u] /\ asked'[u] = asked[u]
    BY <1>l, <1>t DEF Leaving, VmTypeOK
  <2>3. ASSUME NEW u \in VmThread
        PROVE  HasLock(u)' /\ MemoryHeld(u)' /\ MemoryShared(vmem[u], asked[u])'
    <3>1. CASE u = t
      <4>1. HasLock(u)'
        BY <1>l, <1>h, <2>2, <3>1 DEF HasLock
      <4>2. MemoryHeld(u)'
        BY <2>2, <3>1 DEF MemoryHeld
      <4>3. MemoryShared(vmem'[u], asked'[u])
        BY <2>2, <3>1, NothingShared
      <4> QED
        BY <4>1, <4>2, <4>3 DEF MemoryShared
    <3>2. CASE u # t
      BY <1>l, <2>2, <3>2 DEF VmInv, HasLock, MemoryHeld, MemoryShared
    <3> QED
      BY <3>1, <3>2
  <2>4. InSandbox' \subseteq InSandbox
    BY <2>2 DEF InSandbox
  <2>5. Sandboxed'
    BY <1>l, <1>t, <2>1, <2>4, SandboxesKept DEF VmTypeOK
  <2> QED
    BY <2>1, <2>3, <2>5 DEF VmInv
<1>3. ASSUME NEW t \in VmThread, VmStep(t) PROVE VmInv'
  <2>0. dis' = dis
    BY <1>3 DEF VmStep
  <2>1. CASE VmGoes(t, "siginit", "alloc") /\ UNCHANGED <<vmprocs, vmem, eax, asked>>
    <3>1. /\ vm[t].at = "siginit" /\ "alloc" \in VmAt \ {"load", "running"}
          /\ vm' = [vm EXCEPT ![t] = [at |-> "alloc", ret |-> vm[t].ret]] /\ vm[t].ret \in Int
      BY <1>e, <2>1 DEF VmGoes, VmAt
    <3>2. dis # t
      BY <1>h, <3>1 DEF HasLock
    <3>3. dis' \in VmThread \cup {Unlocked} /\ vm[t].at # "running"
      BY <1>t, <2>0, <3>1 DEF VmTypeOK
    <3>4. (dis' = t) = ("alloc" \in {"called", "returned"})
      BY <2>0, <3>2
    <3>5. \A u \in VmThread \ {t} : (dis' = u) = (dis = u)
      BY <2>0
    <3> QED
      BY <1>g, <2>1, <3>1, <3>3, <3>4, <3>5
  <2>2. CASE /\ vmprocs < Vxprocs /\ VmGoes(t, "alloc", "load")
             /\ vmprocs' = vmprocs + 1 /\ UNCHANGED <<vmem, eax, asked>>
    <3>1. vm[t].at = "alloc" /\ vm' = [vm EXCEPT ![t].at = "load"]
      BY <2>2 DEF VmGoes
    <3>2. VmTypeOK'
      BY <1>t, <2>0, <2>2, <3>1 DEF VmTypeOK, VmAt
    <3>3. vm'[t].at = "load" /\ \A u \in VmThread \ {t} : vm'[u] = vm[u]
      BY <1>t, <3>1 DEF VmTypeOK
    <3>4. \A u \in VmThread : HasLock(u)'
      BY <1>h, <2>0, <3>1, <3>3 DEF HasLock
    <3>5. MemoryHeld(t)'
      BY <2>2, <3>1, <3>3 DEF VmInv, MemoryHeld
    <3>6. InSandbox' \subseteq InSandbox \cup {t}
      BY <3>3 DEF InSandbox
    <3>7. Sandboxed'
      BY <1>t, <2>2, <3>2, <3>6, SandboxesKept DEF VmTypeOK
    <3>8. \A u \in VmThread : HasLock(u)' /\ MemoryHeld(u)' /\ MemoryShared(vmem[u], asked[u])'
      BY <2>2, <3>2, <3>3, <3>4, <3>5, VmOnly
    <3> QED
      BY <3>2, <3>7, <3>8 DEF VmInv
  <2>3. CASE /\ VmGoes(t, "load", "running")
             /\ vmem' = [vmem EXCEPT ![t].size = Loaded]
             /\ UNCHANGED <<vmprocs, eax, asked>>
    <3>1. vm[t].at = "load" /\ vm' = [vm EXCEPT ![t].at = "running"]
      BY <2>3 DEF VmGoes
    <3>2. vmem[t] = Nothing /\ asked[t] = NoBreak
      BY <3>1 DEF VmInv, MemoryHeld
    <3>3. VmTypeOK'
      BY <1>t, <2>0, <2>3, <3>1, <3>2, ZenonT(60) DEF VmTypeOK, VmAt, VmMem
    <3>4. /\ vm'[t].at = "running" /\ vmem'[t] = [size |-> Loaded, rw |-> {}] /\ asked'[t] = NoBreak
          /\ \A u \in VmThread \ {t} : vm'[u] = vm[u] /\ vmem'[u] = vmem[u] /\ asked'[u] = asked[u]
      <4>1. vm'[t].at = "running" /\ asked'[t] = NoBreak
        BY <1>t, <2>3, <3>1, <3>2 DEF VmTypeOK
      <4>2. vmem'[t] = [Nothing EXCEPT !.size = Loaded]
        BY <1>t, <2>3, <3>2 DEF VmTypeOK
      <4>3. [Nothing EXCEPT !.size = Loaded] = [size |-> Loaded, rw |-> {}]
        BY DEF Nothing
      <4>4. \A u \in VmThread \ {t} : vm'[u] = vm[u] /\ vmem'[u] = vmem[u] /\ asked'[u] = asked[u]
        BY <1>t, <2>3, <3>1 DEF VmTypeOK
      <4> QED
        BY <4>1, <4>2, <4>3, <4>4
    <3>5. MemoryShared([size |-> Loaded, rw |-> {}], NoBreak)
      BY DEF MemoryShared, NoBreak
    <3>6. ASSUME NEW u \in VmThread
          PROVE  HasLock(u)' /\ MemoryHeld(u)' /\ MemoryShared(vmem'[u], asked'[u])
      <4>1. HasLock(u)'
        BY <1>h, <2>0, <3>1, <3>4 DEF HasLock
      <4>2. CASE u = t
        BY <3>4, <3>5, <4>1, <4>2 DEF MemoryHeld
      <4>3. CASE u # t
        BY <3>4, <4>1, <4>3 DEF VmInv, MemoryHeld
      <4> QED
        BY <4>2, <4>3
    <3>7. InSandbox' \subseteq InSandbox
      BY <3>1, <3>4 DEF InSandbox
    <3>8. Sandboxed'
      BY <1>t, <2>3, <3>3, <3>7, SandboxesKept DEF VmTypeOK
    <3> QED
      BY <3>3, <3>6, <3>8 DEF VmInv, MemoryShared
  <2>4. CASE vm[t].at \in {"siginit", "alloc", "load"} /\ VmFails(t, vm[t].at) /\ UNCHANGED vmprocs
    <3>1. Trouble[vm[t].at] \in Int
      BY <2>4 DEF Trouble
    <3> QED
      BY <1>l, <2>0, <2>4, <3>1 DEF VmFails
  <2> QED
    BY <1>3, <2>1, <2>2, <2>3, <2>4 DEF VmStep
<1>4. ASSUME NEW t \in VmThread, VmTrap(t) PROVE VmInv'
  <2>1. Trouble["run"] \in Int /\ Trouble["trap"] \in Int
    BY DEF Trouble
  <2> QED
    BY <1>4, <1>l, <2>1 DEF VmTrap, VmFails
<1>7. ASSUME NEW t \in VmThread, NEW n \in {0, 1}, VmExit(t, n) PROVE VmInv'
  BY <1>7, <1>l DEF VmExit
<1>8. ASSUME NEW t \in VmThread, NEW a \in 0 .. Space - 1, VmBrk(t, a) PROVE VmInv'
  <2> DEFINE addr == Rounded(a)
             m == vmem[t]
             k == asked[t]
  <2>a. a \in Nat /\ addr \in Nat /\ (a <= Space - VmUnit => addr >= a)
    BY RoundedUp
  <2>b. vm[t].at = "running" /\ UNCHANGED <<dis, vm, vmprocs>> /\ eax' \in [VmThread -> Int]
    BY <1>8, <1>t DEF VmBrk, VmTypeOK
  <2>m. m \in VmMem /\ k \in VmAsked /\ m.size \in Nat /\ MemoryShared(m, k)
    BY <1>t DEF VmTypeOK, VmMem, VmInv
  <2>c. \/ /\ addr <= m.size /\ vmem' = vmem
           /\ asked' = [asked EXCEPT ![t] = [granted |-> k.granted \cup Granted(a), behind |-> k.behind]]
        \/ /\ addr > m.size
           /\ vmem' = [vmem EXCEPT ![t] = Usable(m, addr)]
           /\ asked' = [asked EXCEPT ![t] = [granted |-> k.granted \cup Granted(a), behind |-> k.behind]]
        \/ vmem' = vmem /\ asked' = asked
        \/ /\ addr > m.size
           /\ vmem' = [vmem EXCEPT ![t] = Resized(m, addr)]
           /\ asked' = [asked EXCEPT ![t] = [granted |-> k.granted,
                                            behind |-> k.behind \cup (m.size .. addr - 1)]]
    <3>1. ASSUME NEW s
          PROVE  /\ [asked EXCEPT ![t].granted = @ \cup s] =
                        [asked EXCEPT ![t] = [granted |-> k.granted \cup s, behind |-> k.behind]]
                 /\ [asked EXCEPT ![t].behind = @ \cup s] =
                        [asked EXCEPT ![t] = [granted |-> k.granted, behind |-> k.behind \cup s]]
      <4>1. /\ [k EXCEPT !.granted = @ \cup s] = [granted |-> k.granted \cup s, behind |-> k.behind]
            /\ [k EXCEPT !.behind = @ \cup s] = [granted |-> k.granted, behind |-> k.behind \cup s]
        <5> HIDE DEF k
        <5>1. k \in [granted : SUBSET Nat, behind : SUBSET Nat]
          BY <2>m DEF VmAsked
        <5>2. \A g : [k EXCEPT !.granted = g] = [granted |-> g, behind |-> k.behind]
          BY <5>1
        <5>3. \A g : [k EXCEPT !.behind = g] = [granted |-> k.granted, behind |-> g]
          BY <5>1
        <5> QED
          BY <5>2, <5>3, Zenon
      <4>2. /\ [asked EXCEPT ![t].granted = @ \cup s] =
                   [asked EXCEPT ![t] = [k EXCEPT !.granted = @ \cup s]]
            /\ [asked EXCEPT ![t].behind = @ \cup s] =
                   [asked EXCEPT ![t] = [k EXCEPT !.behind = @ \cup s]]
        BY Zenon
      <4> QED
        BY <4>1, <4>2
    <3>2. Grows(t, addr) <=> addr > m.size
      BY DEF Grows
    <3>3. ~Grows(t, addr) => addr <= m.size
      BY <2>a, <2>m, <3>2
    <3> HIDE DEF addr, k
    <3>4. [vmem EXCEPT ![t] = Usable(@, addr)] = [vmem EXCEPT ![t] = Usable(m, addr)]
          /\ [vmem EXCEPT ![t] = Resized(@, addr)] = [vmem EXCEPT ![t] = Resized(m, addr)]
      OBVIOUS
    <3>5. \/ ~Grows(t, addr) /\ vmem' = vmem /\ asked' = [asked EXCEPT ![t].granted = @ \cup Granted(a)]
          \/ /\ Grows(t, addr) /\ vmem' = [vmem EXCEPT ![t] = Usable(@, addr)]
             /\ asked' = [asked EXCEPT ![t].granted = @ \cup Granted(a)]
          \/ vmem' = vmem /\ asked' = asked
          \/ /\ Grows(t, addr) /\ vmem' = [vmem EXCEPT ![t] = Resized(@, addr)]
             /\ asked' = [asked EXCEPT ![t].behind = @ \cup (m.size .. addr - 1)]
      BY <1>8 DEF VmBrk, addr
    <3> QED
      BY <3>1, <3>2, <3>3, <3>4, <3>5
  <2>d. Granted(a) \subseteq Loaded .. addr - 1 /\ Granted(a) \in SUBSET Nat
    BY <2>a DEF Granted
  <2>p. PICK n, l : /\ n \in VmMem /\ l \in VmAsked /\ MemoryShared(n, l) /\ n.size >= Loaded
                    /\ vmem' = [vmem EXCEPT ![t] = n] /\ asked' = [asked EXCEPT ![t] = l]
    <3> HIDE DEF addr, m, k
    <3>0. [vmem EXCEPT ![t] = m] = vmem /\ [asked EXCEPT ![t] = k] = asked /\ m.size >= Loaded
      BY <1>t, <2>b DEF m, k, VmTypeOK, VmInv, MemoryHeld
    <3>1. CASE /\ addr <= m.size /\ vmem' = vmem
               /\ asked' = [asked EXCEPT ![t] = [granted |-> k.granted \cup Granted(a), behind |-> k.behind]]
      <4> DEFINE l == [granted |-> k.granted \cup Granted(a), behind |-> k.behind]
      <4>1. l \in VmAsked
        BY <2>d, <2>m DEF VmAsked
      <4>2. Granted(a) \subseteq Loaded .. m.size - 1
        BY <2>a, <2>d, <2>m, <3>1
      <4>3. MemoryShared(m, l)
        BY <2>m, <4>2 DEF MemoryShared
      <4> QED
        BY <2>m, <3>0, <3>1, <4>1, <4>3
    <3>2. CASE /\ addr > m.size
               /\ vmem' = [vmem EXCEPT ![t] = Usable(m, addr)]
               /\ asked' = [asked EXCEPT ![t] = [granted |-> k.granted \cup Granted(a), behind |-> k.behind]]
      <4> DEFINE l == [granted |-> k.granted \cup Granted(a), behind |-> k.behind]
      <4>1. l \in VmAsked
        BY <2>d, <2>m DEF VmAsked
      <4>2. Usable(m, addr) = [size |-> addr, rw |-> m.rw \cup (m.size .. addr - 1)]
        BY DEF Usable
      <4>3. Usable(m, addr) \in VmMem
        BY <2>a, <2>m, <4>2 DEF VmMem
      <4>4. m.size >= Loaded
        BY <2>b DEF m, VmInv, MemoryHeld
      <4>5. Loaded .. addr - 1 = (Loaded .. m.size - 1) \cup (m.size .. addr - 1)
        BY <2>a, <2>m, <3>2, <4>4
      <4>6. (Loaded .. m.size - 1) \cap (m.size .. addr - 1) = {}
        BY <2>a, <2>m
      <4>7. MemoryShared(Usable(m, addr), l)
        BY <2>d, <2>m, <4>2, <4>5, <4>6 DEF MemoryShared
      <4>8. Usable(m, addr).size >= Loaded
        BY <2>a, <2>m, <3>2, <4>2, <4>4
      <4> QED
        BY <3>2, <4>1, <4>3, <4>7, <4>8
    <3>3. CASE vmem' = vmem /\ asked' = asked
      BY <2>m, <3>0, <3>3
    <3>4. CASE /\ addr > m.size
               /\ vmem' = [vmem EXCEPT ![t] = Resized(m, addr)]
               /\ asked' = [asked EXCEPT ![t] = [granted |-> k.granted,
                                                behind |-> k.behind \cup (m.size .. addr - 1)]]
      <4> DEFINE l == [granted |-> k.granted, behind |-> k.behind \cup (m.size .. addr - 1)]
      <4>1. l \in VmAsked
        BY <2>a, <2>m DEF VmAsked
      <4>2. Resized(m, addr) = [size |-> addr, rw |-> m.rw]
        BY <2>m DEF Resized, VmMem
      <4>3. Resized(m, addr) \in VmMem
        BY <2>a, <2>m, <4>2 DEF VmMem
      <4>4. m.size >= Loaded
        BY <2>b DEF m, VmInv, MemoryHeld
      <4>5. Loaded .. addr - 1 = (Loaded .. m.size - 1) \cup (m.size .. addr - 1)
        BY <2>a, <2>m, <3>4, <4>4
      <4>6. (Loaded .. m.size - 1) \cap (m.size .. addr - 1) = {}
        BY <2>a, <2>m
      <4>7. MemoryShared(Resized(m, addr), l)
        BY <2>m, <4>2, <4>5, <4>6 DEF MemoryShared
      <4>8. Resized(m, addr).size >= Loaded
        BY <2>a, <2>m, <3>4, <4>2, <4>4
      <4> QED
        BY <3>4, <4>1, <4>3, <4>7, <4>8
    <3> QED
      BY <2>c, <3>1, <3>2, <3>3, <3>4
  <2> HIDE DEF addr, m, k
  <2>1. VmTypeOK'
    BY <1>t, <2>b, <2>p DEF VmTypeOK
  <2>2. ASSUME NEW u \in VmThread
        PROVE  HasLock(u)' /\ MemoryHeld(u)' /\ MemoryShared(vmem'[u], asked'[u])
    <3>1. HasLock(u)'
      BY <1>h, <2>b DEF HasLock
    <3>2. CASE u = t
      <4>1. vmem'[u] = n /\ asked'[u] = l /\ vm'[u].at = "running" /\ n.size >= Loaded
        BY <1>t, <2>b, <2>p, <3>2 DEF VmTypeOK
      <4> QED
        BY <2>p, <3>1, <4>1 DEF MemoryHeld
    <3>3. CASE u # t
      BY <1>t, <2>b, <2>p, <3>1, <3>3 DEF MemoryHeld, VmTypeOK, VmInv
    <3> QED
      BY <3>2, <3>3
  <2>3. Sandboxed'
    BY <1>t, <2>b DEF Sandboxed, InSandbox
  <2> QED
    BY <2>1, <2>2, <2>3 DEF VmInv, MemoryShared
<1>9. ASSUME NEW t \in VmThread, NEW ret \in {-1, 1}, VmFile(t, ret) PROVE VmInv'
  <2>1. VmTypeOK' /\ Sandboxed'
    BY <1>9, <1>t DEF VmFile, VmTypeOK, Sandboxed, InSandbox
  <2>2. ASSUME NEW u \in VmThread
        PROVE  HasLock(u)' /\ MemoryHeld(u)' /\ MemoryShared(vmem[u], asked[u])'
    BY <1>9 DEF VmFile, VmInv, HasLock, MemoryHeld, MemoryShared
  <2> QED
    BY <2>1, <2>2 DEF VmInv
<1> QED
  BY <1>0, <1>1, <1>2, <1>3, <1>4, <1>5, <1>7, <1>8, <1>9 DEF VxrunNext

\* A thread is in the interpreter only with its lock, programs have a sandbox
\* each, and the memory a program was granted it may use, but for what a failed
\* break left behind.
THEOREM VxrunKeeps == VxrunSpec => []VxrunServes
<1>1. VmInv => VxrunServes
  <2> SUFFICES ASSUME VmInv PROVE VxrunServes
    OBVIOUS
  <2>1. VmApart
    BY DEF VmInv, VmTypeOK, HasLock, Sandboxed, InSandbox, VmApart
  <2>2. BrkGrants
    BY DEF VmInv, MemoryShared, BrkGrants
  <2> QED
    BY <2>1, <2>2 DEF VxrunServes
<1> QED
  BY <1>1, VmStarts, VmNext, PTL DEF VxrunSpec

-----------------------------------------------------------------------------
(***************************************************************************)
(* The window's keys.                                                      *)
(***************************************************************************)
Among(s, n) == \E i \in DOMAIN s : s[i] = n
KeyNumbers == Nat \ {0}

KeyMessage == [m : {"keydown", "char", "special", "syskeydown", "syskeyup"}, n : Nat, before : BOOLEAN]

\* The messages of one key, from its first or from its last on.
KeyMessages(s) ==
    \/ s = <<>>
    \/ \E n \in KeyNumbers, b \in BOOLEAN :
          \/ s = <<[m |-> "keydown", n |-> n, before |-> b], [m |-> "char", n |-> n, before |-> b]>>
          \/ s = <<[m |-> "char", n |-> n, before |-> b]>>
          \/ s = <<[m |-> "special", n |-> n, before |-> FALSE]>>
          \/ s = <<[m |-> "syskeydown", n |-> n, before |-> FALSE],
                   [m |-> "syskeyup", n |-> Latin, before |-> TRUE]>>
    \/ s = <<[m |-> "syskeyup", n |-> Latin, before |-> TRUE]>>

KeysTypeOK ==
    /\ gkscanq \in BOOLEAN /\ pressed \in Nat /\ scanning \in Nat
    /\ user \in [KeyProc -> {"user", "edit"}] /\ scanner \subseteq KeyProc
    /\ putting \in [Caller -> [at : {"idle", "called", "latin1"}, k : Nat]]
    /\ collecting \in BOOLEAN /\ kc \in Seq(Nat)
    /\ gkbd \in Seq(Nat) /\ handed \in Seq(Nat)
    /\ gscan \subseteq Nat
    /\ overlapped \in BOOLEAN /\ refused \in BOOLEAN /\ robbed \in BOOLEAN /\ fault \in BOOLEAN
    /\ KeyMessages(msgs)

\* Until calls overlap there is one, and it is in the middle of a sequence only
\* when one is collected.
OneCall ==
    ~overlapped =>
        /\ \A c, d \in Caller : putting[c].at # "idle" /\ putting[d].at # "idle" => c = d
        /\ \A c \in Caller : putting[c].at = "latin1" => collecting

OneEditor ==
    /\ kbdq_lock = {} \/ \E p \in KeyProc : kbdq_lock = {p}
    /\ LocksMatch

OneScanner ==
    /\ gkscanq <=> scanner # {}
    /\ \A p, q \in scanner : p = q

Typed(n) == Among(gkbd, n) \/ Among(kc, n) \/ \E c \in Caller : putting[c].k = n
Scanned(n) == n \in gscan \/ scanning = n
Queued(n) == \E i \in DOMAIN msgs : msgs[i].n = n

KeysNew == \A n \in KeyNumbers : n > pressed => ~Typed(n) /\ ~Scanned(n) /\ ~Queued(n)

\* A key that saw no open or close of /dev/scancode is typed or scanned.  Its
\* last message is what types it, and one that has messages left when it is
\* scanned finds the queue still there.
KeyGoesOneWay(n) ==
    n \notin switched =>
        /\ Typed(n) => ~Scanned(n) /\ ~Queued(n)
        /\ Scanned(n) /\ Queued(n) => gkscanq

ScanGone == (scanning # Latin /\ ~gkscanq) \/ fault => switched # {}

OneWay == KeysNew /\ (\A n \in KeyNumbers : KeyGoesOneWay(n)) /\ ScanGone

KeysInv == KeysTypeOK /\ OneCall /\ OneEditor /\ OneScanner /\ ComposedOnce /\ OneWay

LEMMA AmongFacts ==
    ASSUME NEW s \in Seq(Nat), NEW t \in Seq(Nat), NEW k \in Nat
    PROVE  /\ \A n : Among(Append(s, k), n) <=> Among(s, n) \/ n = k
           /\ \A n : Among(s \o t, n) <=> Among(s, n) \/ Among(t, n)
           /\ \A n : ~Among(<<>>, n)
<1>1. ASSUME NEW n PROVE Among(Append(s, k), n) <=> Among(s, n) \/ n = k
  <2>1. Among(Append(s, k), n) => Among(s, n) \/ n = k
    BY DEF Among
  <2>2. Among(s, n) => Among(Append(s, k), n)
    BY SMTT(60) DEF Among
  <2>3. n = k => Among(Append(s, k), n)
    <3>1. Len(s) + 1 \in DOMAIN Append(s, k) /\ Append(s, k)[Len(s) + 1] = k
      OBVIOUS
    <3> QED
      BY <3>1 DEF Among
  <2> QED
    BY <2>1, <2>2, <2>3
<1>2. ASSUME NEW n PROVE Among(s \o t, n) <=> Among(s, n) \/ Among(t, n)
  <2>1. Among(s \o t, n) => Among(s, n) \/ Among(t, n)
    <3>1. ASSUME NEW i \in DOMAIN (s \o t) PROVE (i \in DOMAIN s /\ (s \o t)[i] = s[i])
                 \/ (i - Len(s) \in DOMAIN t /\ (s \o t)[i] = t[i - Len(s)])
      OBVIOUS
    <3> QED
      BY <3>1 DEF Among
  <2>2. Among(s, n) => Among(s \o t, n)
    BY DEF Among
  <2>3. ASSUME NEW i \in DOMAIN t, t[i] = n PROVE Among(s \o t, n)
    <3>1. Len(s) + i \in DOMAIN (s \o t) /\ (s \o t)[Len(s) + i] = t[i]
      OBVIOUS
    <3> QED
      BY <2>3, <3>1 DEF Among
  <2> QED
    BY <2>1, <2>2, <2>3 DEF Among
<1>3. \A n : ~Among(<<>>, n)
  BY DEF Among
<1> QED
  BY <1>1, <1>2, <1>3

LEMMA AppendConcat ==
    ASSUME NEW s \in Seq(Nat), NEW t \in Seq(Nat), NEW k \in Nat
    PROVE  Append(s \o t, k) = s \o Append(t, k)
<1> DEFINE x == Append(s \o t, k)
           y == s \o Append(t, k)
<1>1. s \o t \in Seq(Nat) /\ Append(t, k) \in Seq(Nat) /\ Len(s \o t) = Len(s) + Len(t)
  OBVIOUS
<1>2. x \in Seq(Nat) /\ Len(x) = Len(s) + Len(t) + 1
  BY <1>1
<1>3. y \in Seq(Nat) /\ Len(y) = Len(s) + Len(t) + 1
  BY <1>1
<1>4. ASSUME NEW i \in 1 .. Len(s) + Len(t) + 1 PROVE x[i] = y[i]
  <2>1. CASE i <= Len(s)
    <3>1. x[i] = s[i]
      BY <1>1, <2>1
    <3>2. y[i] = s[i]
      BY <1>1, <2>1
    <3> QED
      BY <3>1, <3>2
  <2>2. CASE i > Len(s) /\ i <= Len(s) + Len(t)
    <3>1. x[i] = t[i - Len(s)]
      BY <1>1, <2>2
    <3>2. y[i] = t[i - Len(s)]
      BY <1>1, <2>2
    <3> QED
      BY <3>1, <3>2
  <2>3. CASE i = Len(s) + Len(t) + 1
    <3>1. x[i] = k
      BY <1>1, <2>3
    <3>2. y[i] = Append(t, k)[i - Len(s)]
      BY <1>1, <2>3
    <3>3. i - Len(s) = Len(t) + 1 /\ Append(t, k)[Len(t) + 1] = k
      BY <2>3
    <3> QED
      BY <3>1, <3>2, <3>3
  <2> QED
    BY <2>1, <2>2, <2>3
<1> HIDE DEF x, y
<1>5. x = y
  BY <1>2, <1>3, <1>4
<1> QED
  BY <1>5 DEF x, y

\* What gkbdputc does to sequences.
LEMMA ComposeFacts ==
    ASSUME NEW s \in Seq(Nat), NEW t \in Seq(Nat), NEW k \in Nat
    PROVE  /\ Append(s, k) \in Seq(Nat) /\ s \o t \in Seq(Nat) /\ <<>> \in Seq(Nat)
           /\ SubSeq(s \o t, 1, Len(s \o t) - Len(t)) = s
           /\ s \o <<>> = s
<1>1. s \o <<>> = s
  BY ConcatEmptySeq
<1>3. SubSeq(s \o t, 1, Len(s \o t) - Len(t)) = s
  <2>1. Len(s \o t) - Len(t) = Len(s) /\ s \o t \in Seq(Nat) /\ Len(s) <= Len(s \o t)
    OBVIOUS
  <2> DEFINE u == SubSeq(s \o t, 1, Len(s))
  <2>2. u \in Seq(Nat) /\ Len(u) = Len(s)
    BY <2>1
  <2>3. \A i \in 1 .. Len(s) : u[i] = s[i]
    BY <2>1
  <2> HIDE DEF u
  <2>4. u = s
    BY <2>2, <2>3, SMTT(60)
  <2> QED
    BY <2>1, <2>4 DEF u
<1> QED
  BY <1>1, <1>3

\* What WindowProc takes from the front of the messages.
FirstOf(s) ==
    /\ Head(s) \in KeyMessage /\ KeyMessages(Tail(s))
    /\ \E i \in DOMAIN s : s[i] = Head(s)
    /\ \A i \in DOMAIN Tail(s) : \E j \in DOMAIN s : s[j] = Tail(s)[i]
    /\ Head(s).m \in {"special", "char", "syskeyup"} => Tail(s) = <<>>
    /\ Head(s).m = "syskeyup" => Head(s).n = Latin /\ Head(s).before

LEMMA OneMessage ==
    ASSUME NEW m \in KeyMessage, m.m = "syskeyup" => m.n = Latin /\ m.before
    PROVE  FirstOf(<<m>>)
<1>1. Head(<<m>>) = m /\ Tail(<<m>>) = <<>> /\ 1 \in DOMAIN <<m>> /\ <<m>>[1] = m
  OBVIOUS
<1>2. KeyMessages(<<>>)
  BY DEF KeyMessages
<1> QED
  BY <1>1, <1>2 DEF FirstOf

LEMMA TwoMessages ==
    ASSUME NEW m \in KeyMessage, NEW o \in KeyMessage, m.m \in {"keydown", "syskeydown"},
           KeyMessages(<<o>>)
    PROVE  FirstOf(<<m, o>>)
<1> DEFINE s == <<m, o>>
<1>1. Head(s) = m /\ Tail(s) = <<o>> /\ 1 \in DOMAIN s /\ s[1] = m /\ 2 \in DOMAIN s /\ s[2] = o
  OBVIOUS
<1>2. \A i \in DOMAIN <<o>> : <<o>>[i] = o
  OBVIOUS
<1> HIDE DEF s
<1>3. FirstOf(s)
  BY <1>1, <1>2 DEF FirstOf
<1> QED
  BY <1>3 DEF s

LEMMA MessageFacts == ASSUME NEW s, KeyMessages(s), s # <<>> PROVE FirstOf(s)
<1> DEFINE up == [m |-> "syskeyup", n |-> Latin, before |-> TRUE]
<1>0. up \in KeyMessage /\ up.n = Latin /\ up.before /\ up.m = "syskeyup" /\ KeyMessages(<<up>>)
  BY DEF KeyMessage, KeyMessages, Latin
<1>1. CASE s = <<up>>
  BY <1>0, <1>1, OneMessage
<1>2. ASSUME NEW n \in KeyNumbers, NEW b \in BOOLEAN,
             s = <<[m |-> "keydown", n |-> n, before |-> b], [m |-> "char", n |-> n, before |-> b]>>
      PROVE  FirstOf(s)
  <2> DEFINE down == [m |-> "keydown", n |-> n, before |-> b]
             char == [m |-> "char", n |-> n, before |-> b]
  <2>1. down \in KeyMessage /\ char \in KeyMessage /\ down.m = "keydown" /\ KeyMessages(<<char>>)
    BY DEF KeyMessage, KeyMessages, KeyNumbers
  <2> QED
    BY <1>2, <2>1, TwoMessages
<1>3. ASSUME NEW n \in KeyNumbers, NEW b \in BOOLEAN,
             s = <<[m |-> "char", n |-> n, before |-> b]>>
      PROVE  FirstOf(s)
  <2> DEFINE char == [m |-> "char", n |-> n, before |-> b]
  <2>1. char \in KeyMessage /\ char.m = "char"
    BY DEF KeyMessage, KeyNumbers
  <2> QED
    BY <1>3, <2>1, OneMessage
<1>4. ASSUME NEW n \in KeyNumbers, s = <<[m |-> "special", n |-> n, before |-> FALSE]>>
      PROVE  FirstOf(s)
  <2> DEFINE special == [m |-> "special", n |-> n, before |-> FALSE]
  <2>1. special \in KeyMessage /\ special.m = "special"
    BY DEF KeyMessage, KeyNumbers
  <2> QED
    BY <1>4, <2>1, OneMessage
<1>5. ASSUME NEW n \in KeyNumbers, s = <<[m |-> "syskeydown", n |-> n, before |-> FALSE], up>>
      PROVE  FirstOf(s)
  <2> DEFINE down == [m |-> "syskeydown", n |-> n, before |-> FALSE]
  <2>1. down \in KeyMessage /\ down.m = "syskeydown"
    BY DEF KeyMessage, KeyNumbers
  <2> QED
    BY <1>0, <1>5, <2>1, TwoMessages
<1> QED
  BY <1>1, <1>2, <1>3, <1>4, <1>5 DEF KeyMessages

LEMMA KeysStarts == KeysInit => KeysInv
<1> SUFFICES ASSUME KeysInit PROVE KeysInv
  OBVIOUS
<1> USE DEF KeysInit
<1>1. KeysTypeOK
  <2>1. Idle \in [at : {"idle", "called", "latin1"}, k : Nat] /\ <<>> \in Seq(Nat)
    BY DEF Idle, Latin
  <2>2. KeyMessages(msgs)
    BY DEF KeyMessages
  <2> QED
    BY <2>1, <2>2 DEF KeysTypeOK, Latin
<1>2. OneCall
  BY DEF OneCall, Idle
<1>3. OneEditor
  BY DEF OneEditor, LocksMatch, Editors
<1>s. OneScanner
  BY DEF OneScanner
<1>4. ComposedOnce
  BY DEF ComposedOnce
<1>5. \A n \in KeyNumbers : ~Typed(n) /\ ~Scanned(n) /\ ~Queued(n)
  BY DEF Typed, Scanned, Queued, Among, Idle, Latin, KeyNumbers
<1>6. OneWay
  BY <1>5 DEF OneWay, KeysNew, KeyGoesOneWay, ScanGone
<1> QED
  BY <1>1, <1>2, <1>3, <1>s, <1>4, <1>6 DEF KeysInv

\* gkbdputc handles keys; it takes none away but kc's, and adds only its own.
LEMMA PutOneWay ==
    ASSUME OneWay, UNCHANGED <<gkscanq, window, gscan, switched, fault>>,
           \A n \in KeyNumbers : Typed(n)' => Typed(n)
    PROVE  OneWay'
BY DEF OneWay, window, KeysNew, KeyGoesOneWay, ScanGone, Scanned, Queued

\* A call returns: it was alone, or others are still under way, or it is the last
\* of calls that overlapped.
LEMMA KeysReturn ==
    ASSUME KeysTypeOK, OneCall, NEW c \in Caller, NEW s \in Seq(Nat), Returns(c, s),
           gkbd' \in Seq(Nat), kc' \in Seq(Nat), collecting' \in BOOLEAN,
           \A d \in Caller \ {c} : putting[d].at = "latin1" /\ ~overlapped => collecting',
           ~overlapped => s = gkbd' \o (IF collecting' THEN kc' ELSE <<>>)
    PROVE  /\ putting' \in [Caller -> [at : {"idle", "called", "latin1"}, k : Nat]]
           /\ overlapped' \in BOOLEAN /\ handed' \in Seq(Nat)
           /\ OneCall' /\ ComposedOnce'
           /\ \A d \in Caller : putting'[d].k \in {putting[d].k, Latin}
<1> DEFINE o == Others(c)
           u == gkbd' \o (IF collecting' THEN kc' ELSE <<>>)
<1>1. /\ putting' = [putting EXCEPT ![c] = Idle]
      /\ overlapped' = (overlapped /\ o)
      /\ handed' = IF overlapped /\ ~o THEN u ELSE s
  BY DEF Returns
<1>2. Idle \in [at : {"idle", "called", "latin1"}, k : Nat] /\ Idle.at = "idle" /\ Idle.k = Latin
  BY DEF Idle, Latin
<1>3. putting \in [Caller -> [at : {"idle", "called", "latin1"}, k : Nat]] /\ overlapped \in BOOLEAN
  BY DEF KeysTypeOK
<1>4. putting' \in [Caller -> [at : {"idle", "called", "latin1"}, k : Nat]]
      /\ putting'[c] = Idle /\ \A d \in Caller \ {c} : putting'[d] = putting[d]
  BY <1>1, <1>2, <1>3
<1>5. u \in Seq(Nat)
  BY ComposeFacts
<1>6. ~o => \A d \in Caller : putting'[d].at = "idle"
  BY <1>2, <1>4 DEF Others
<1> HIDE DEF o, u
<1>7. overlapped' \in BOOLEAN /\ handed' \in Seq(Nat)
  BY <1>1, <1>3, <1>5
<1>8. OneCall'
  <2> SUFFICES ASSUME ~overlapped'
               PROVE  /\ \A d, e \in Caller : putting'[d].at # "idle" /\ putting'[e].at # "idle" => d = e
                      /\ \A d \in Caller : putting'[d].at = "latin1" => collecting'
    BY DEF OneCall
  <2>1. CASE ~overlapped
    <3>1. \A d, e \in Caller : putting'[d].at # "idle" /\ putting'[e].at # "idle" => d = e
      BY <1>2, <1>4, <2>1 DEF OneCall
    <3>2. \A d \in Caller : putting'[d].at = "latin1" => collecting'
      BY <1>2, <1>4, <2>1
    <3> QED
      BY <3>1, <3>2
  <2>2. CASE ~o
    BY <1>6, <2>2
  <2> QED
    BY <1>1, <2>1, <2>2
<1>9. ComposedOnce'
  <2>1. overlapped' \/ handed' = u
    BY <1>1 DEF u
  <2> QED
    BY <2>1 DEF ComposedOnce, u
<1>10. \A d \in Caller : putting'[d].k \in {putting[d].k, Latin}
  BY <1>2, <1>4
<1> QED
  BY <1>4, <1>7, <1>8, <1>9, <1>10

LEMMA KeysLatin ==
    ASSUME KeysInv, NEW c \in Caller, GkbdputcLatin(c)
    PROVE  KeysInv'
<1>t. KeysTypeOK /\ OneCall
  BY DEF KeysInv
<1> DEFINE s == IF collecting THEN SubSeq(handed, 1, Len(handed) - Len(kc)) ELSE handed
<1>0. /\ collecting' = TRUE /\ kc' = <<>> /\ gkbd' = gkbd /\ Returns(c, s)
      /\ UNCHANGED <<gkscanq, locks, window, gscan, switched, fault>>
  BY DEF GkbdputcLatin, Restarted
<1>u. gkbd \in Seq(Nat) /\ kc \in Seq(Nat) /\ handed \in Seq(Nat) /\ 0 \in Nat
  BY <1>t DEF KeysTypeOK
<1>1. s \in Seq(Nat)
  BY <1>u
<1>2. ~overlapped => s = gkbd
  <2>2. CASE ~overlapped /\ collecting
    <3>1. handed = gkbd \o kc /\ s = SubSeq(handed, 1, Len(handed) - Len(kc))
      BY <1>0, <2>2 DEF KeysInv, ComposedOnce
    <3> QED
      BY <1>u, <3>1, ComposeFacts
  <2>3. CASE ~overlapped /\ ~collecting
    <3>1. handed = gkbd \o <<>> /\ s = handed
      BY <1>0, <2>3 DEF KeysInv, ComposedOnce
    <3> QED
      BY <1>u, <3>1, ComposeFacts
  <2> QED
    BY <2>2, <2>3
<1> HIDE DEF s
<1>3. /\ gkbd' \in Seq(Nat) /\ kc' \in Seq(Nat) /\ collecting' \in BOOLEAN
      /\ ~overlapped => s = gkbd' \o (IF collecting' THEN kc' ELSE <<>>)
  BY <1>0, <1>2, <1>u, ComposeFacts
<1>4. /\ putting' \in [Caller -> [at : {"idle", "called", "latin1"}, k : Nat]]
      /\ overlapped' \in BOOLEAN /\ handed' \in Seq(Nat) /\ OneCall' /\ ComposedOnce'
      /\ \A d \in Caller : putting'[d].k \in {putting[d].k, Latin}
  BY <1>0, <1>1, <1>3, <1>t, KeysReturn
<1>5. KeysTypeOK'
  BY <1>0, <1>3, <1>4, <1>t DEF KeysTypeOK, window, locks
<1>7. OneEditor' /\ OneScanner'
  BY <1>0 DEF KeysInv, OneEditor, LocksMatch, Editors, OneScanner, locks
<1>8. ASSUME NEW n \in KeyNumbers, Typed(n)' PROVE Typed(n)
  <2>1. ~Among(<<>>, n)
    BY DEF Among
  <2> QED
    BY <1>0, <1>4, <1>8, <2>1 DEF Typed, KeyNumbers, Latin
<1>9. OneWay'
  BY <1>0, <1>8, PutOneWay DEF KeysInv
<1> QED
  BY <1>4, <1>5, <1>7, <1>9 DEF KeysInv

LEMMA KeysKey ==
    ASSUME KeysInv, NEW c \in Caller, GkbdputcKey(c)
    PROVE  KeysInv'
<1>t. KeysTypeOK /\ OneCall
  BY DEF KeysInv
<1> DEFINE k == putting[c].k
<1>0. /\ putting[c].at = "called"
      /\ UNCHANGED <<gkscanq, locks, window, gscan, switched, fault>>
  BY DEF GkbdputcKey
<1>1. \/ /\ collecting /\ kc' = Append(kc, k) /\ putting' = [putting EXCEPT ![c].at = "latin1"]
         /\ handed' = Append(handed, k) /\ UNCHANGED <<collecting, gkbd, overlapped>>
      \/ /\ ~collecting /\ gkbd' = Append(gkbd, k) /\ UNCHANGED <<collecting, kc>>
         /\ Returns(c, Append(handed, k))
  BY DEF GkbdputcKey
<1>3. k \in Nat
  BY <1>t DEF KeysTypeOK
<1>u. /\ putting \in [Caller -> [at : {"idle", "called", "latin1"}, k : Nat]]
      /\ kc \in Seq(Nat) /\ gkbd \in Seq(Nat) /\ handed \in Seq(Nat)
      /\ collecting \in BOOLEAN /\ overlapped \in BOOLEAN
  BY <1>t DEF KeysTypeOK
<1>z. \A n \in KeyNumbers : n # Latin
  BY DEF KeyNumbers, Latin
<1>a. k = putting[c].k
  OBVIOUS
<1> HIDE DEF k
<1>w. /\ Append(kc, k) \in Seq(Nat) /\ Append(gkbd, k) \in Seq(Nat)
      /\ Append(handed, k) \in Seq(Nat)
  BY <1>3, <1>u, ComposeFacts
<1>y. Append(gkbd \o kc, k) = gkbd \o Append(kc, k)
  BY <1>3, <1>u, AppendConcat
<1>x. Append(gkbd \o <<>>, k) = Append(gkbd, k) \o <<>>
  <2>1. gkbd \o <<>> = gkbd
    BY <1>u, ComposeFacts
  <2>2. Append(gkbd, k) \o <<>> = Append(gkbd, k)
    BY <1>w, <1>3, ComposeFacts
  <2> QED
    BY <2>1, <2>2
<1>c. overlapped \/ handed = gkbd \o (IF collecting THEN kc ELSE <<>>)
  BY DEF KeysInv, ComposedOnce
<1>4. /\ putting' \in [Caller -> [at : {"idle", "called", "latin1"}, k : Nat]]
      /\ overlapped' \in BOOLEAN /\ handed' \in Seq(Nat) /\ OneCall' /\ ComposedOnce'
      /\ \A d \in Caller : putting'[d].k \in {putting[d].k, Latin}
      /\ kc' \in Seq(Nat) /\ gkbd' \in Seq(Nat) /\ collecting' = collecting
  <2>1. CASE /\ collecting /\ kc' = Append(kc, k) /\ putting' = [putting EXCEPT ![c].at = "latin1"]
             /\ handed' = Append(handed, k) /\ UNCHANGED <<collecting, gkbd, overlapped>>
    <3>1. putting' \in [Caller -> [at : {"idle", "called", "latin1"}, k : Nat]]
      BY <1>u, <2>1, ZenonT(60)
    <3>2. /\ \A d \in Caller \ {c} : putting'[d] = putting[d]
          /\ putting'[c].at = "latin1" /\ putting'[c].k = putting[c].k
      BY <1>u, <2>1
    <3>3. OneCall'
      BY <1>0, <1>t, <2>1, <3>2 DEF OneCall
    <3>4. ComposedOnce'
      BY <1>c, <1>y, <2>1 DEF ComposedOnce
    <3>5. \A d \in Caller : putting'[d].k \in {putting[d].k, Latin}
      BY <3>2
    <3> QED
      BY <1>u, <1>w, <2>1, <3>1, <3>3, <3>4, <3>5
  <2>2. CASE /\ ~collecting /\ gkbd' = Append(gkbd, k) /\ UNCHANGED <<collecting, kc>>
             /\ Returns(c, Append(handed, k))
    <3>1. gkbd' \in Seq(Nat) /\ kc' \in Seq(Nat) /\ collecting' = FALSE
      BY <1>u, <1>w, <2>2
    <3>2. ~overlapped => Append(handed, k) = gkbd' \o (IF collecting' THEN kc' ELSE <<>>)
      BY <1>c, <1>x, <2>2, <3>1
    <3>3. ASSUME ~overlapped, NEW d \in Caller PROVE putting[d].at # "latin1"
      BY <1>t, <2>2, <3>3 DEF OneCall
    <3> QED
      BY <1>t, <1>w, <2>2, <3>1, <3>2, <3>3, KeysReturn
  <2> QED
    BY <1>1, <2>1, <2>2
<1>5. KeysTypeOK'
  BY <1>0, <1>4, <1>t DEF KeysTypeOK, window, locks
<1>7. OneEditor' /\ OneScanner'
  BY <1>0 DEF KeysInv, OneEditor, LocksMatch, Editors, OneScanner, locks
<1>8. ASSUME NEW n \in KeyNumbers, Typed(n)' PROVE Typed(n)
  <2>2. Among(gkbd, n)' => Among(gkbd, n) \/ n = k
    <3>1. Among(Append(gkbd, k), n) <=> Among(gkbd, n) \/ n = k
      BY <1>3, <1>u, AmongFacts
    <3> QED
      BY <1>1, <3>1
  <2>3. Among(kc, n)' => Among(kc, n) \/ n = k
    <3>1. Among(Append(kc, k), n) <=> Among(kc, n) \/ n = k
      BY <1>3, <1>u, AmongFacts
    <3> QED
      BY <1>1, <3>1
  <2> QED
    BY <1>4, <1>8, <1>a, <1>z, <2>2, <2>3 DEF Typed
<1>9. OneWay'
  BY <1>0, <1>8, PutOneWay DEF KeysInv
<1> QED
  BY <1>4, <1>5, <1>7, <1>9 DEF KeysInv

LEMMA KeysCompose ==
    ASSUME KeysInv, NEW c \in Caller, GkbdputcCompose(c)
    PROVE  KeysInv'
<1>t. KeysTypeOK /\ OneCall
  BY DEF KeysInv
<1>0. /\ putting[c].at = "latin1" /\ Returns(c, handed) /\ kc' = kc
      /\ UNCHANGED <<gkscanq, locks, window, gscan, switched, fault>>
  BY DEF GkbdputcCompose
<1>1. \/ collecting' = collecting /\ gkbd' = gkbd
      \/ collecting' = FALSE /\ gkbd' = gkbd \o kc
  BY DEF GkbdputcCompose
<1>u. kc \in Seq(Nat) /\ gkbd \in Seq(Nat) /\ 0 \in Nat /\ handed \in Seq(Nat) /\ collecting \in BOOLEAN
  BY <1>t DEF KeysTypeOK
<1>q. gkbd' \in Seq(Nat) /\ gkbd \o kc \in Seq(Nat) /\ kc' \in Seq(Nat) /\ collecting' \in BOOLEAN
  <2>1. gkbd \o kc \in Seq(Nat)
    BY <1>u, ComposeFacts
  <2>2. kc' \in Seq(Nat)
    BY <1>0, <1>u
  <2> QED
    BY <1>1, <1>u, <2>1, <2>2
<1>5. ~overlapped => collecting /\ handed = gkbd \o kc
  BY <1>0 DEF KeysInv, OneCall, ComposedOnce
<1>6. ~overlapped => handed = gkbd' \o (IF collecting' THEN kc' ELSE <<>>)
  <2>1. (gkbd \o kc) \o <<>> = gkbd \o kc
    BY <1>u, <1>q, ComposeFacts
  <2>2. CASE overlapped
    BY <2>2
  <2>3. CASE ~overlapped /\ collecting' = collecting /\ gkbd' = gkbd
    <3>1. collecting /\ handed = gkbd \o kc
      BY <1>5, <2>3
    <3> QED
      BY <1>0, <2>3, <3>1
  <2>4. CASE ~overlapped /\ collecting' = FALSE /\ gkbd' = gkbd \o kc
    <3>1. handed = gkbd \o kc
      BY <1>5, <2>4
    <3> QED
      BY <2>1, <2>4, <3>1
  <2> QED
    BY <1>1, <2>2, <2>3, <2>4
<1>7. ASSUME ~overlapped, NEW d \in Caller \ {c} PROVE putting[d].at # "latin1"
  BY <1>0, <1>t, <1>7 DEF OneCall
<1>4. /\ putting' \in [Caller -> [at : {"idle", "called", "latin1"}, k : Nat]]
      /\ overlapped' \in BOOLEAN /\ handed' \in Seq(Nat) /\ OneCall' /\ ComposedOnce'
      /\ \A d \in Caller : putting'[d].k \in {putting[d].k, Latin}
  BY <1>0, <1>6, <1>7, <1>q, <1>t, <1>u, KeysReturn
<1>8. KeysTypeOK'
  BY <1>0, <1>4, <1>q, <1>t DEF KeysTypeOK, window, locks
<1>9. OneEditor' /\ OneScanner'
  BY <1>0 DEF KeysInv, OneEditor, LocksMatch, Editors, OneScanner, locks
<1>10. ASSUME NEW n \in KeyNumbers, Typed(n)' PROVE Typed(n)
  <2>2. Among(gkbd, n)' => Among(gkbd, n) \/ Among(kc, n)
    <3>1. Among(gkbd \o kc, n) <=> Among(gkbd, n) \/ Among(kc, n)
      BY <1>u, AmongFacts
    <3> QED
      BY <1>1, <3>1
  <2> QED
    BY <1>0, <1>4, <1>10, <2>2 DEF Typed, KeyNumbers, Latin
<1>11. OneWay'
  BY <1>0, <1>10, PutOneWay DEF KeysInv
<1> QED
  BY <1>4, <1>8, <1>9, <1>11 DEF KeysInv

\* A key that is handed to gkbdputc.
LEMMA KeysCalls ==
    ASSUME KeysTypeOK, OneCall, NEW c \in Caller, NEW k \in Nat, Calls(c, k),
           UNCHANGED <<collecting, kc, gkbd>>
    PROVE  /\ putting' \in [Caller -> [at : {"idle", "called", "latin1"}, k : Nat]]
           /\ overlapped' \in BOOLEAN /\ (~overlapped' => ~overlapped)
           /\ OneCall'
           /\ \A n \in KeyNumbers : Typed(n)' => Typed(n) \/ n = k
<1>1. /\ putting[c] = Idle /\ putting' = [putting EXCEPT ![c] = [at |-> "called", k |-> k]]
      /\ overlapped' = (overlapped \/ \E d \in Caller : putting[d].at # "idle")
  BY DEF Calls
<1>2. putting \in [Caller -> [at : {"idle", "called", "latin1"}, k : Nat]]
  BY DEF KeysTypeOK
<1>3. [at |-> "called", k |-> k] \in [at : {"idle", "called", "latin1"}, k : Nat]
  OBVIOUS
<1>4. putting' \in [Caller -> [at : {"idle", "called", "latin1"}, k : Nat]]
  BY <1>1, <1>2, <1>3
<1>5. /\ putting'[c].at = "called" /\ putting'[c].k = k
      /\ \A d \in Caller \ {c} : putting'[d] = putting[d]
  BY <1>1, <1>2
<1>6. overlapped' \in BOOLEAN /\ (~overlapped' => ~overlapped)
  BY <1>1 DEF KeysTypeOK
<1>7. OneCall'
  BY <1>1, <1>5, <1>6 DEF OneCall
<1>8. ASSUME NEW n \in KeyNumbers, Typed(n)' PROVE Typed(n) \/ n = k
  BY <1>5, <1>8 DEF Typed
<1> QED
  BY <1>4, <1>6, <1>7, <1>8

LEMMA KeysMessage == ASSUME KeysInv, WinMessage PROVE KeysInv'
<1> DEFINE m == Head(msgs)
           scans == gkscanq /\ m.m # "char" /\ ~m.before
<1>t. KeysTypeOK /\ OneCall /\ OneWay
  BY DEF KeysInv
<1>0. /\ msgs # <<>> /\ scanning = Latin /\ msgs' = Tail(msgs)
      /\ UNCHANGED <<gkscanq, locks, pressed, collecting, kc, gkbd, handed, gscan,
                     switched, fault>>
  BY DEF WinMessage
<1>1. /\ scanning' = IF scans THEN m.n ELSE Latin
      /\ \/ m.m \in Characters /\ Calls("window", m.n)
         \/ m.m \notin Characters /\ UNCHANGED <<putting, overlapped>>
  BY DEF WinMessage
<1>2. FirstOf(msgs)
  BY <1>0, <1>t, MessageFacts DEF KeysTypeOK
<1>3. m \in KeyMessage /\ m.n \in Nat /\ KeyMessages(msgs')
  BY <1>0, <1>2 DEF FirstOf, KeyMessage
<1>4. \A n : Queued(n)' => Queued(n)
  BY <1>0, <1>2 DEF FirstOf, Queued
<1>5. Queued(m.n)
  BY <1>2 DEF FirstOf, Queued
<1>6. /\ m.m \in Characters => ~gkscanq /\ (m.m = "syskeyup" => m.n = Latin) /\ \A n : ~Queued(n)'
  BY <1>0, <1>2 DEF Characters, FirstOf, Queued
<1>7. m.m = "syskeyup" => ~scans
  BY <1>2 DEF FirstOf
<1>8. "window" \in Caller /\ Latin \in Nat
  BY DEF Caller, Latin
<1> HIDE DEF m
<1>9. /\ putting' \in [Caller -> [at : {"idle", "called", "latin1"}, k : Nat]]
      /\ overlapped' \in BOOLEAN /\ (~overlapped' => ~overlapped)
      /\ OneCall'
      /\ \A n \in KeyNumbers : Typed(n)' => Typed(n) \/ (n = m.n /\ m.m \in Characters)
  <2>1. CASE m.m \in Characters /\ Calls("window", m.n)
    BY <1>0, <1>3, <1>8, <1>t, <2>1, KeysCalls
  <2>2. CASE m.m \notin Characters /\ UNCHANGED <<putting, overlapped>>
    BY <1>0, <1>t, <2>2 DEF KeysTypeOK, OneCall, Typed
  <2> QED
    BY <1>1, <2>1, <2>2
<1>10. scanning' \in Nat
  BY <1>1, <1>3, <1>8
<1>11. KeysTypeOK'
  BY <1>0, <1>3, <1>9, <1>10, <1>t DEF KeysTypeOK, locks
<1>12. ComposedOnce'
  BY <1>0, <1>9 DEF KeysInv, ComposedOnce
<1>13. OneEditor' /\ OneScanner'
  BY <1>0 DEF KeysInv, OneEditor, OneScanner, LocksMatch, Editors, locks
<1>14. \A n \in KeyNumbers : Scanned(n)' => Scanned(n) \/ (n = m.n /\ gkscanq)
  BY <1>0, <1>1, <1>8 DEF Scanned, Latin, KeyNumbers
<1>15. KeysNew'
  BY <1>0, <1>4, <1>5, <1>9, <1>14, <1>t DEF OneWay, KeysNew
<1>16. ASSUME NEW n \in KeyNumbers, n \notin switched
       PROVE  /\ Typed(n)' => ~Scanned(n)' /\ ~Queued(n)'
              /\ Scanned(n)' /\ Queued(n)' => gkscanq'
  <2>1. /\ Typed(n) => ~Scanned(n) /\ ~Queued(n)
        /\ Scanned(n) /\ Queued(n) => gkscanq
    BY <1>16, <1>t DEF OneWay, KeyGoesOneWay
  <2>2. Scanned(n)' => Scanned(n) \/ (n = m.n /\ gkscanq)
    BY <1>14
  <2>3. Typed(n)' => Typed(n) \/ (n = m.n /\ m.m \in Characters)
    BY <1>9
  <2>4. Queued(n)' => Queued(n)
    BY <1>4
  <2>5. gkscanq' = gkscanq
    BY <1>0
  <2> QED
    BY <1>5, <1>6, <2>1, <2>2, <2>3, <2>4, <2>5
<1>17. ScanGone'
  BY <1>0, <1>1, <1>t DEF OneWay, ScanGone
<1>18. OneWay'
  BY <1>0, <1>15, <1>16, <1>17 DEF OneWay, KeyGoesOneWay
<1> QED
  BY <1>9, <1>11, <1>12, <1>13, <1>18 DEF KeysInv

LEMMA KeysPress ==
    ASSUME KeysInv, NEW kind \in {"char", "special", "repeat", "alt"}, Press(kind)
    PROVE  KeysInv'
<1>t. KeysTypeOK /\ OneWay
  BY DEF KeysInv
<1>0. /\ msgs = <<>> /\ pressed' = pressed + 1
      /\ UNCHANGED <<gkscanq, locks, scanning, compose, gscan, switched, fault>>
  BY DEF Press
<1>1. pressed' \in KeyNumbers /\ pressed' \in Nat
  BY <1>0, <1>t DEF KeysTypeOK, KeyNumbers
<1>2. \E b \in BOOLEAN :
        \/ msgs' = <<[m |-> "keydown", n |-> pressed', before |-> b],
                     [m |-> "char", n |-> pressed', before |-> b]>>
        \/ msgs' = <<[m |-> "special", n |-> pressed', before |-> FALSE]>>
        \/ msgs' = <<[m |-> "syskeydown", n |-> pressed', before |-> FALSE],
                     [m |-> "syskeyup", n |-> Latin, before |-> TRUE]>>
  BY DEF Press
<1>3. KeyMessages(msgs')
  BY <1>1, <1>2 DEF KeyMessages
<1>4. \A n \in KeyNumbers : Queued(n)' => n = pressed'
  BY <1>2 DEF Queued, KeyNumbers, Latin
<1>5. /\ \A n : Typed(n)' <=> Typed(n)
      /\ \A n : Scanned(n)' <=> Scanned(n)
  BY <1>0 DEF Typed, Scanned, compose
<1>6. KeysTypeOK'
  BY <1>0, <1>1, <1>3, <1>t DEF KeysTypeOK, locks, compose
<1>7. OneCall' /\ ComposedOnce'
  BY <1>0 DEF KeysInv, OneCall, ComposedOnce, compose
<1>8. OneEditor' /\ OneScanner'
  BY <1>0 DEF KeysInv, OneEditor, OneScanner, LocksMatch, Editors, locks
<1>9. pressed \in Nat /\ pressed' > pressed
  BY <1>0, <1>t DEF KeysTypeOK
<1>10. ~Typed(pressed') /\ ~Scanned(pressed')
  BY <1>1, <1>9, <1>t DEF OneWay, KeysNew
<1>11. KeysNew'
  <2>1. ASSUME NEW n \in KeyNumbers, n > pressed' PROVE n > pressed /\ n # pressed'
    BY <1>1, <1>9, <2>1 DEF KeyNumbers
  <2> QED
    BY <1>4, <1>5, <1>t, <2>1 DEF OneWay, KeysNew
<1>12. ASSUME NEW n \in KeyNumbers, n \notin switched'
       PROVE  /\ Typed(n)' => ~Scanned(n)' /\ ~Queued(n)'
              /\ Scanned(n)' /\ Queued(n)' => gkscanq'
  <2>1. Typed(n) => ~Scanned(n)
    BY <1>0, <1>12, <1>t DEF OneWay, KeyGoesOneWay
  <2> QED
    BY <1>4, <1>5, <1>10, <2>1
<1>13. ScanGone'
  BY <1>0, <1>t DEF OneWay, ScanGone
<1>14. OneWay'
  BY <1>11, <1>12, <1>13 DEF OneWay, KeyGoesOneWay
<1> QED
  BY <1>6, <1>7, <1>8, <1>14 DEF KeysInv

LEMMA KeysScancode == ASSUME KeysInv, Scancode PROVE KeysInv'
<1>t. KeysTypeOK /\ OneWay
  BY DEF KeysInv
<1>0. /\ scanning # Latin /\ scanning' = Latin
      /\ \/ gkscanq /\ gscan' = gscan \cup {scanning} /\ UNCHANGED fault
         \/ ~gkscanq /\ fault' = TRUE /\ UNCHANGED gscan
      /\ UNCHANGED <<gkscanq, locks, msgs, pressed, compose, switched>>
  BY DEF Scancode
<1>1. KeysTypeOK'
  BY <1>0, <1>t DEF KeysTypeOK, locks, compose, Latin
<1>2. OneCall' /\ ComposedOnce' /\ OneEditor' /\ OneScanner'
  BY <1>0 DEF KeysInv, OneCall, ComposedOnce, OneEditor, OneScanner, LocksMatch, Editors, locks, compose
<1>3. \A n \in KeyNumbers : Scanned(n)' => Scanned(n)
  BY <1>0 DEF Scanned, KeyNumbers, Latin
<1>4. \A n : (Typed(n)' <=> Typed(n)) /\ (Queued(n)' <=> Queued(n))
  BY <1>0 DEF Typed, Queued, compose
<1>5. ScanGone'
  BY <1>0, <1>t DEF OneWay, ScanGone
<1>6. OneWay'
  BY <1>0, <1>3, <1>4, <1>5, <1>t DEF OneWay, KeysNew, KeyGoesOneWay
<1> QED
  BY <1>1, <1>2, <1>6 DEF KeysInv

LEMMA KeysWrite == ASSUME KeysInv, NEW p \in KeyProc, KeyboardWrite(p) PROVE KeysInv'
<1>t. KeysTypeOK /\ OneCall /\ OneWay
  BY DEF KeysInv
<1>0. /\ Calls(p, pressed + 1) /\ pressed' = pressed + 1
      /\ UNCHANGED <<gkscanq, locks, msgs, scanning, collecting, kc, gkbd, handed, gscan,
                     switched, fault>>
  BY DEF KeyboardWrite
<1>1. pressed \in Nat /\ pressed' \in KeyNumbers /\ pressed' \in Nat /\ pressed' > pressed
  BY <1>0, <1>t DEF KeysTypeOK, KeyNumbers
<1>2. /\ putting' \in [Caller -> [at : {"idle", "called", "latin1"}, k : Nat]]
      /\ overlapped' \in BOOLEAN /\ (~overlapped' => ~overlapped)
      /\ OneCall'
      /\ \A n \in KeyNumbers : Typed(n)' => Typed(n) \/ n = pressed'
  <2>1. p \in Caller /\ pressed + 1 \in Nat
    BY <1>1 DEF Caller
  <2> QED
    BY <1>0, <1>t, <2>1, KeysCalls
<1>3. KeysTypeOK'
  BY <1>0, <1>1, <1>2, <1>t DEF KeysTypeOK, locks
<1>4. ComposedOnce' /\ OneEditor' /\ OneScanner'
  BY <1>0, <1>2 DEF KeysInv, ComposedOnce, OneEditor, OneScanner, LocksMatch, Editors, locks
<1>5. \A n : (Scanned(n)' <=> Scanned(n)) /\ (Queued(n)' <=> Queued(n))
  BY <1>0 DEF Scanned, Queued
<1>6. ~Scanned(pressed') /\ ~Queued(pressed')
  BY <1>1, <1>t DEF OneWay, KeysNew
<1>7. KeysNew'
  <2>1. ASSUME NEW n \in KeyNumbers, n > pressed' PROVE n > pressed /\ n # pressed'
    BY <1>1, <2>1 DEF KeyNumbers
  <2> QED
    BY <1>2, <1>5, <1>t, <2>1 DEF OneWay, KeysNew
<1>8. ASSUME NEW n \in KeyNumbers, n \notin switched'
      PROVE  /\ Typed(n)' => ~Scanned(n)' /\ ~Queued(n)'
             /\ Scanned(n)' /\ Queued(n)' => gkscanq'
  <2>1. /\ Typed(n) => ~Scanned(n) /\ ~Queued(n)
        /\ Scanned(n) /\ Queued(n) => gkscanq
    BY <1>0, <1>8, <1>t DEF OneWay, KeyGoesOneWay
  <2> QED
    BY <1>0, <1>2, <1>5, <1>6, <2>1
<1>9. ScanGone'
  BY <1>0, <1>t DEF OneWay, ScanGone
<1>10. OneWay'
  BY <1>7, <1>8, <1>9 DEF OneWay, KeyGoesOneWay
<1> QED
  BY <1>2, <1>3, <1>4, <1>10 DEF KeysInv

\* An open or a close of /dev/scancode: every key in the middle of its messages
\* has seen it.
LEMMA KeysSwitch ==
    ASSUME OneWay, NEW q \in BOOLEAN, Switch(q), UNCHANGED <<window, compose, gscan, fault>>
    PROVE  OneWay'
<1>1. gkscanq' = q /\ switched' = switched \cup {msgs[i].n : i \in DOMAIN msgs} \cup {scanning}
  BY DEF Switch
<1>2. \A n : Queued(n) => n \in switched'
  BY <1>1 DEF Queued
<1>3. \A n : (Typed(n)' <=> Typed(n)) /\ (Scanned(n)' <=> Scanned(n)) /\ (Queued(n)' <=> Queued(n))
  BY DEF Typed, Scanned, Queued, window, compose
<1>4. KeysNew'
  BY <1>3 DEF OneWay, KeysNew, window
<1>5. ASSUME NEW n \in KeyNumbers PROVE KeyGoesOneWay(n)'
  BY <1>1, <1>2, <1>3 DEF OneWay, KeyGoesOneWay
<1>6. ScanGone'
  BY <1>1 DEF ScanGone
<1> QED
  BY <1>4, <1>5, <1>6 DEF OneWay

LEMMA KeysFiles ==
    ASSUME KeysInv, NEW p \in KeyProc, ScancodeOpen(p) \/ ScancodeClose(p) \/ Edits(p)
    PROVE  KeysInv'
<1>t. KeysTypeOK /\ OneWay
  BY DEF KeysInv
<1>0. UNCHANGED <<window, compose, gscan, fault>>
  BY DEF ScancodeOpen, ScancodeClose, Edits
<1>1. OneCall' /\ ComposedOnce'
  BY <1>0 DEF KeysInv, OneCall, ComposedOnce, compose
<1>2. gkscanq' \in BOOLEAN /\ refused' \in BOOLEAN /\ robbed' \in BOOLEAN
      /\ user' \in [KeyProc -> {"user", "edit"}] /\ scanner' \subseteq KeyProc
  BY <1>t DEF ScancodeOpen, ScancodeClose, Edits, Switch, KeysTypeOK
<1>3. KeysTypeOK'
  BY <1>0, <1>2, <1>t DEF KeysTypeOK, window, compose
<1>4. OneWay'
  <2>1. Switch(TRUE) \/ Switch(FALSE) \/ UNCHANGED <<gkscanq, switched>>
    BY DEF ScancodeOpen, ScancodeClose, Edits
  <2>2. CASE UNCHANGED <<gkscanq, switched>>
    BY <1>0, <1>t, <2>2 DEF OneWay, KeysNew, KeyGoesOneWay, ScanGone, Typed, Scanned, Queued,
                            window, compose
  <2> QED
    BY <1>0, <1>t, <2>1, <2>2, KeysSwitch
<1>u. /\ user \in [KeyProc -> {"user", "edit"}] /\ scanner \subseteq KeyProc
      /\ robbed \in BOOLEAN /\ gkscanq \in BOOLEAN /\ OneEditor /\ OneScanner
  BY <1>t DEF KeysTypeOK, KeysInv
<1>5. OneEditor'
  <2>2. CASE ScancodeOpen(p) \/ ScancodeClose(p)
    <3>1. Editors' = Editors
      BY <2>2 DEF ScancodeOpen, ScancodeClose, Editors
    <3>2. CASE UNCHANGED <<gq, kbdq_lock, refused, robbed>>
      BY <1>u, <3>1, <3>2 DEF OneEditor, LocksMatch
    <3>3. CASE /\ gq' = {p} /\ kbdq_lock' = {}
               /\ refused' = TRUE /\ robbed' = (robbed \/ kbdq_lock # {})
      BY <1>u, <3>1, <3>3 DEF OneEditor, LocksMatch
    <3> QED
      BY <2>2, <3>2, <3>3 DEF ScancodeOpen, ScancodeClose
  <2>3. CASE Edits(p)
    <3>0. UNCHANGED <<gq, refused>>
      BY <2>3 DEF Edits
    <3>1. CASE /\ user[p] = "user" /\ kbdq_lock = {} /\ kbdq_lock' = {p}
               /\ user' = [user EXCEPT ![p] = "edit"] /\ UNCHANGED robbed
      <4>1. Editors' = Editors \cup {p}
        BY <1>u, <3>1 DEF Editors
      <4> QED
        BY <1>u, <3>0, <3>1, <4>1 DEF OneEditor, LocksMatch
    <3>2. CASE /\ user[p] = "edit" /\ kbdq_lock' = {} /\ user' = [user EXCEPT ![p] = "user"]
               /\ robbed' = (robbed /\ Editors # {p})
      <4>1. Editors' = Editors \ {p} /\ p \in Editors
        BY <1>u, <3>2 DEF Editors
      <4>2. robbed' \/ Editors' = {}
        <5>1. CASE robbed
          BY <3>2, <4>1, <5>1
        <5>2. CASE ~robbed
          BY <1>u, <4>1, <5>2 DEF OneEditor, LocksMatch
        <5> QED
          BY <5>1, <5>2
      <4>3. robbed' => refused'
        BY <1>u, <3>0, <3>2 DEF OneEditor, LocksMatch
      <4> QED
        BY <1>u, <3>0, <3>2, <4>2, <4>3 DEF OneEditor, LocksMatch
    <3> QED
      BY <2>3, <3>1, <3>2 DEF Edits
  <2> QED
    BY <2>2, <2>3
<1>6. OneScanner'
  <2>1. CASE UNCHANGED <<gkscanq, scanner>>
    BY <1>u, <2>1 DEF OneScanner
  <2>2. CASE ~gkscanq /\ gkscanq' = TRUE /\ scanner' = scanner \cup {p}
    BY <1>u, <2>2 DEF OneScanner
  <2>3. CASE p \in scanner /\ gkscanq' = FALSE /\ scanner' = scanner \ {p}
    BY <1>u, <2>3 DEF OneScanner
  <2> QED
    BY <2>1, <2>2, <2>3 DEF ScancodeOpen, ScancodeClose, Edits, Switch
<1> QED
  BY <1>1, <1>3, <1>4, <1>5, <1>6 DEF KeysInv

LEMMA KeysStep == KeysInv /\ [KeysNext]_keysVars => KeysInv'
<1> SUFFICES ASSUME KeysInv, [KeysNext]_keysVars PROVE KeysInv'
  OBVIOUS
<1>1. CASE UNCHANGED keysVars
  BY <1>1 DEF keysVars, locks, window, compose, KeysInv, KeysTypeOK, OneCall, OneEditor, OneScanner, LocksMatch, Editors,
              ComposedOnce, OneWay, KeysNew, KeyGoesOneWay, ScanGone, Typed, Scanned, Queued
<1> QED
  BY <1>1, KeysLatin, KeysKey, KeysCompose, KeysMessage, KeysPress, KeysScancode, KeysWrite,
     KeysFiles DEF KeysNext

\* Composing loses and repeats no key but while calls overlap, a key reaches one
\* file, and the locks of the two files are held by calls, but for what a refused
\* open leaves behind.
THEOREM KeysDeliver == KeysSpec => []KeysDelivered
<1>1. KeysInv => KeysDelivered
  <2> SUFFICES ASSUME KeysInv PROVE OneFile
    BY DEF KeysInv, KeysDelivered, OneEditor
  <2>1. ASSUME NEW n \in Keycode, \E i \in DOMAIN gkbd : gkbd[i] = n, n \in gscan
        PROVE  n \in switched
    BY <2>1 DEF Keycode, KeyNumbers, KeysInv, OneWay, KeyGoesOneWay, Typed, Scanned, Among
  <2> QED
    BY <2>1 DEF OneFile, KeysInv, OneScanner, OneWay, ScanGone
<1> QED
  BY <1>1, KeysStarts, KeysStep, PTL DEF KeysSpec

-----------------------------------------------------------------------------
(***************************************************************************)
(* The audio device.                                                       *)
(***************************************************************************)
AudioMode == {"read", "write", "rdwr"}
Settings == [in : Setting \cup {0}, out : Setting \cup {0}]

AudioFile == [mode : AudioMode \cup {"none"}, at : {"user", "opening"}]
AudioWriting == [mode : {"write", "rdwr"}, at : {"writing"}, total : Nat, count : Nat, bufsz : Nat]
AudioCtl == [mode : {"none"}, at : {"in", "out", "done"}, mod : {"in", "out"}, forced : BOOLEAN,
             tmpav : Settings]

AudioTypeOK ==
    /\ audio \in [AudioProc -> AudioFile \cup AudioWriting \cup AudioCtl]
    /\ \A p \in AudioProc : audio[p].at = "opening" => audio[p].mode \in AudioMode
    /\ afd \in [in : Int, out : Int] /\ fds \subseteq Nat
    /\ av \in Settings /\ want \in Settings /\ sent \in Nat
    /\ broken \in BOOLEAN /\ lost \in BOOLEAN

\* A lock is held by a process that opens or writes.
AudioLocks ==
    /\ inlock = {p \in AudioProc : audio[p].at = "opening" /\ Reads(audio[p].mode)}
    /\ outlock = {p \in AudioProc : \/ audio[p].at = "opening" /\ Writes(audio[p].mode)
                                    \/ audio[p].at = "writing"}
    /\ \A p, q \in inlock : p = q
    /\ \A p, q \in outlock : p = q

Reader(p) == audio[p].at # "opening" /\ Reads(audio[p].mode)
Writer(p) == audio[p].at # "opening" /\ Writes(audio[p].mode)
Forced(p) == audio[p].at \in {"out", "done"} /\ audio[p].forced

OneEach ==
    /\ \A p, q \in AudioProc : Reader(p) /\ Reader(q) => p = q
    /\ \A p, q \in AudioProc : Writer(p) /\ Writer(q) => p = q
    /\ \A p, q \in AudioProc : Forced(p) /\ Forced(q) => p = q
    /\ \A p, q \in AudioProc :
          Forced(p) => ~Reader(q) /\ ~Writer(q) /\ audio[q].at # "opening" /\ afd.in = afd.out

FdsMatch ==
    /\ afd.in \in {Nofd} \cup 1 .. MaxFd /\ afd.out \in {Nofd} \cup 1 .. MaxFd
    /\ afd.in # Nofd <=> \E p \in AudioProc : Reader(p) \/ Forced(p)
    /\ afd.out # Nofd <=> \E p \in AudioProc : Writer(p) \/ Forced(p)
    /\ \A p \in AudioProc : audio[p].at = "opening" =>
          /\ Reads(audio[p].mode) => afd.in = Nofd
          /\ Writes(audio[p].mode) => afd.out = Nofd
    /\ \A p, q \in AudioProc : Reader(p) /\ Writer(q) => (afd.in = afd.out <=> p = q)
    /\ fds = {0, afd.in, afd.out} \ {Nofd}

FdsOwned == ~broken => OneEach /\ FdsMatch

\* While one write of audioctl is under way, its copy is of the settings.
CtlAlone ==
    ~lost =>
        /\ av = want
        /\ \A p, q \in InCtl : p = q
        /\ \A p \in InCtl : audio[p].tmpav = [av EXCEPT ![audio[p].mod] = audio[p].tmpav[audio[p].mod]]

AudioInv == AudioTypeOK /\ AudioLocks /\ FdsOwned /\ CtlAlone /\ BytesSent

\* A set of natural numbers that is not empty has a least element.
LEMMA LeastElement ==
    ASSUME NEW S \in SUBSET Nat, S # {}
    PROVE  \E n \in S : \A m \in S : n <= m
<1> DEFINE R == {ss \in Nat \X Nat : ss[1] < ss[2]}
<1>1. IsWellFoundedOn(R, Nat)
  BY NatLessThanWellFounded DEF OpToRel
<1> HIDE DEF R
<1>2. PICK n \in S : \A m \in S : ~(<<m, n>> \in R)
  BY <1>1, WFMin
<1>3. \A m \in S : ~(m < n)
  BY <1>2 DEF R
<1> QED
  BY <1>3

\* The kernel hands out the least descriptor that is free.
LEMMA NewFdFacts ==
    ASSUME AnyFd, fds \subseteq Nat
    PROVE  NewFd \in 1 .. MaxFd /\ NewFd \notin fds
<1> DEFINE S == {n \in 1 .. MaxFd : n \notin fds}
<1>1. S \subseteq Nat /\ S # {}
  BY DEF AnyFd
<1>2. PICK n \in S : \A m \in S : n <= m
  BY <1>1, LeastElement
<1>3. \A m \in 1 .. n - 1 : m \in fds
  BY <1>2, AudioAssumption
<1>4. \E k \in 1 .. MaxFd : k \notin fds /\ \A m \in 1 .. k - 1 : m \in fds
  BY <1>2, <1>3
<1> QED
  BY <1>4 DEF NewFd

LEMMA AudioStarts == AudioInit => AudioInv
<1> SUFFICES ASSUME AudioInit PROVE AudioInv
  OBVIOUS
<1> USE DEF AudioInit
<1>1. \A p \in AudioProc : audio[p] = Free /\ Free.mode = "none" /\ Free.at = "user" /\ Free \in AudioFile
  BY DEF Free, AudioFile
<1>a. audio \in [AudioProc -> AudioFile \cup AudioWriting \cup AudioCtl]
  BY <1>1
<1>b. afd \in [in : Int, out : Int] /\ fds \subseteq Nat /\ av \in Settings /\ want \in Settings
  BY DEF Settings, Nofd
<1>2. AudioTypeOK
  BY <1>1, <1>a, <1>b DEF AudioTypeOK
<1>3. AudioLocks
  BY <1>1 DEF AudioLocks
<1>4. FdsOwned
  BY <1>1 DEF FdsOwned, OneEach, FdsMatch, Reader, Writer, Forced, Reads, Writes, Nofd
<1>5. CtlAlone
  BY <1>1 DEF CtlAlone, InCtl
<1>6. BytesSent
  BY <1>1 DEF BytesSent
<1> QED
  BY <1>2, <1>3, <1>4, <1>5, <1>6 DEF AudioInv
AudioRecord == AudioFile \cup AudioWriting \cup AudioCtl

\* Process p's record becomes r; the other processes stay where they are.
AudioGoes(p, r) == audio' = [audio EXCEPT ![p] = r]

LEMMA GoesFacts ==
    ASSUME AudioTypeOK, NEW p \in AudioProc, NEW r, AudioGoes(p, r)
    PROVE  /\ audio'[p] = r /\ \A q \in AudioProc \ {p} : audio'[q] = audio[q]
           /\ r \in AudioRecord => audio' \in [AudioProc -> AudioFile \cup AudioWriting \cup AudioCtl]
BY DEF AudioTypeOK, AudioGoes, AudioRecord

\* The kinds of records do not mix.
LEMMA RecordFacts ==
    ASSUME AudioTypeOK, NEW p \in AudioProc
    PROVE  /\ audio[p].at \in {"user", "opening"} => audio[p] \in AudioFile
           /\ audio[p].at = "writing" => audio[p] \in AudioWriting
           /\ audio[p].at \in {"in", "out", "done"} => audio[p] \in AudioCtl
           /\ audio[p].at \in {"user", "opening", "writing", "in", "out", "done"}
           /\ audio[p].at \in {"in", "out", "done"} => audio[p].mode = "none"
BY DEF AudioTypeOK, AudioFile, AudioWriting, AudioCtl

LEMMA FreeFacts == Free \in AudioFile /\ Free.at = "user" /\ Free.mode = "none" /\ Free \in AudioRecord
BY DEF Free, AudioFile, AudioRecord

LEMMA LockStep ==
    ASSUME AudioLocks, AudioTypeOK, NEW p \in AudioProc, NEW r, AudioGoes(p, r),
           inlock' = IF r.at = "opening" /\ Reads(r.mode) THEN {p} ELSE inlock \ {p},
           outlock' = IF r.at = "writing" \/ (r.at = "opening" /\ Writes(r.mode)) THEN {p}
                                                                         ELSE outlock \ {p},
           r.at = "opening" /\ Reads(r.mode) => inlock \subseteq {p},
           r.at = "writing" \/ (r.at = "opening" /\ Writes(r.mode)) => outlock \subseteq {p}
    PROVE  AudioLocks'
<1>1. audio'[p] = r /\ \A q \in AudioProc \ {p} : audio'[q] = audio[q]
  BY GoesFacts
<1>2. inlock' = {q \in AudioProc : audio'[q].at = "opening" /\ Reads(audio'[q].mode)}
  BY <1>1 DEF AudioLocks
<1>3. outlock' = {q \in AudioProc : \/ audio'[q].at = "opening" /\ Writes(audio'[q].mode)
                                    \/ audio'[q].at = "writing"}
  BY <1>1 DEF AudioLocks
<1>4. (\A q, u \in inlock' : q = u) /\ (\A q, u \in outlock' : q = u)
  BY DEF AudioLocks
<1> QED
  BY <1>2, <1>3, <1>4 DEF AudioLocks

\* The descriptors stay, and so do those that have them.
LEMMA FdsSame ==
    ASSUME FdsOwned, UNCHANGED <<afd, fds>>, ~broken' => ~broken,
           \A q \in AudioProc : /\ Reader(q)' <=> Reader(q)
                                /\ Writer(q)' <=> Writer(q)
                                /\ Forced(q)' <=> Forced(q),
           \A q \in AudioProc :
              audio'[q].at = "opening" =>
                 \/ audio[q].at = "opening" /\ audio'[q].mode = audio[q].mode
                 \/ /\ Reads(audio'[q].mode) => afd.in = Nofd
                    /\ Writes(audio'[q].mode) => afd.out = Nofd
                    /\ ~broken => \A u \in AudioProc : ~Forced(u)
    PROVE  FdsOwned'
BY DEF FdsOwned, OneEach, FdsMatch

LEMMA CtlSame ==
    ASSUME CtlAlone, UNCHANGED <<av, want, lost>>,
           \A q \in AudioProc : audio'[q].at \in {"in", "out", "done"} =>
              /\ audio[q].at \in {"in", "out", "done"}
              /\ audio'[q].tmpav = audio[q].tmpav /\ audio'[q].mod = audio[q].mod
    PROVE  CtlAlone'
BY DEF CtlAlone, InCtl

LEMMA BytesSame ==
    ASSUME BytesSent, sent' = sent,
           \A q \in AudioProc : audio'[q].at = "writing" =>
              audio[q].at = "writing" /\ audio'[q].total = audio[q].total
    PROVE  BytesSent'
BY DEF BytesSent

LEMMA AudioOpens ==
    ASSUME AudioInv, NEW p \in AudioProc, NEW mode \in AudioMode, AudioOpen(p, mode)
    PROVE  AudioInv'
<1> DEFINE r == [mode |-> mode, at |-> "opening"]
<1>t. AudioTypeOK /\ AudioLocks /\ FdsOwned /\ CtlAlone /\ BytesSent
  BY DEF AudioInv
<1>0. /\ audio[p] = Free /\ AudioGoes(p, r)
      /\ Reads(mode) => inlock = {} /\ afd.in < 0
      /\ Writes(mode) => outlock = {} /\ afd.out < 0
      /\ inlock' = IF Reads(mode) THEN {p} ELSE inlock
      /\ outlock' = IF Writes(mode) THEN {p} ELSE outlock
      /\ UNCHANGED <<afd, fds, av, sent, broken, want, lost>>
  BY DEF AudioOpen, AudioGoes, audiofiles, audiohist
<1>1. r \in AudioRecord /\ r.at = "opening" /\ r.mode = mode
  BY DEF AudioRecord, AudioFile
<1> HIDE DEF r
<1>2. /\ audio'[p] = r /\ \A q \in AudioProc \ {p} : audio'[q] = audio[q]
      /\ audio' \in [AudioProc -> AudioFile \cup AudioWriting \cup AudioCtl]
  BY <1>0, <1>1, <1>t, GoesFacts
<1>3. AudioTypeOK'
  BY <1>0, <1>1, <1>2, <1>t DEF AudioTypeOK
<1>4. p \notin inlock /\ p \notin outlock
  BY <1>0, <1>t, FreeFacts DEF AudioLocks
<1>5. AudioLocks'
  BY <1>0, <1>1, <1>4, <1>t, LockStep
<1>6. FdsOwned'
  <2>1. \A q \in AudioProc : /\ Reader(q)' <=> Reader(q)
                             /\ Writer(q)' <=> Writer(q)
                             /\ Forced(q)' <=> Forced(q)
    BY <1>0, <1>1, <1>2, FreeFacts DEF Reader, Writer, Forced, Reads, Writes
  <2>2. Reads(mode) \/ Writes(mode)
    BY DEF Reads, Writes, AudioMode
  <2>3. ~broken => /\ Reads(mode) => afd.in = Nofd
                   /\ Writes(mode) => afd.out = Nofd
                   /\ \A u \in AudioProc : ~Forced(u)
    BY <1>0, <1>t, <2>2, AudioAssumption DEF FdsOwned, OneEach, FdsMatch, Nofd
  <2>4. ~broken => FdsOwned'
    <3> SUFFICES ASSUME ~broken PROVE FdsOwned'
      OBVIOUS
    <3> QED
      BY <1>0, <1>1, <1>2, <1>t, <2>1, <2>3, FdsSame
  <2> QED
    BY <1>0, <2>4 DEF FdsOwned
<1>7. CtlAlone'
  BY <1>0, <1>1, <1>2, <1>t, CtlSame
<1>8. BytesSent'
  BY <1>0, <1>1, <1>2, <1>t, BytesSame
<1> QED
  BY <1>3, <1>5, <1>6, <1>7, <1>8 DEF AudioInv
\* A descriptor for the files of a mode.
LEMMA AudioIsOpened ==
    ASSUME AudioInv, NEW p \in AudioProc, NEW outcome \in {"opened", "refused", "noflags", "novolume"},
           AudioOpened(p, outcome)
    PROVE  AudioInv'
<1> DEFINE mode == audio[p].mode
           r == IF outcome \in {"opened", "noflags"} THEN [audio[p] EXCEPT !.at = "user"] ELSE Free
<1>t. AudioTypeOK /\ AudioLocks /\ FdsOwned /\ CtlAlone /\ BytesSent
  BY DEF AudioInv
<1>0. /\ audio[p].at = "opening" /\ AudioGoes(p, r)
      /\ outcome # "refused" => AnyFd
      /\ fds' = IF outcome = "refused" THEN fds ELSE fds \cup {NewFd}
      /\ afd' = CASE outcome = "opened" -> Sets(mode, NewFd)
                  [] outcome = "noflags" -> Sets(mode, 0)
                  [] OTHER -> afd
      /\ broken' = (broken \/ outcome \in {"noflags", "novolume"})
      /\ inlock' = inlock \ {p} /\ outlock' = outlock \ {p}
      /\ UNCHANGED <<av, sent, want, lost>>
  BY <1>t DEF AudioOpened, AudioGoes, Unlock, AudioTypeOK
<1>1. audio[p] \in AudioFile /\ mode \in AudioMode
  BY <1>0, <1>t, RecordFacts DEF AudioTypeOK
<1>2. /\ r \in AudioRecord /\ r.at = "user"
      /\ r.mode = IF outcome \in {"opened", "noflags"} THEN mode ELSE "none"
  BY <1>1, FreeFacts DEF AudioRecord, AudioFile
<1> HIDE DEF r
<1>3. /\ audio'[p] = r /\ \A q \in AudioProc \ {p} : audio'[q] = audio[q]
      /\ audio' \in [AudioProc -> AudioFile \cup AudioWriting \cup AudioCtl]
  BY <1>0, <1>2, <1>t, GoesFacts
<1>4. outcome # "refused" => NewFd \in 1 .. MaxFd /\ NewFd \notin fds /\ NewFd \in Nat \ {0}
  BY <1>0, <1>t, NewFdFacts, AudioAssumption DEF AudioTypeOK
<1>5. /\ \A fd \in Int : /\ Sets(mode, fd) \in [in : Int, out : Int]
                         /\ Sets(mode, fd).in = IF Reads(mode) THEN fd ELSE afd.in
                         /\ Sets(mode, fd).out = IF Writes(mode) THEN fd ELSE afd.out
  BY <1>t DEF Sets, AudioTypeOK
<1>6. fds' \subseteq Nat
  BY <1>0, <1>4, <1>t DEF AudioTypeOK
<1>7. afd' \in [in : Int, out : Int]
  <2>1. outcome = "opened" => NewFd \in Int
    BY <1>4
  <2>2. CASE outcome = "opened"
    BY <1>0, <1>5, <2>1, <2>2
  <2>3. CASE outcome = "noflags"
    BY <1>0, <1>5, <2>3
  <2>4. CASE outcome \in {"refused", "novolume"}
    BY <1>0, <1>t, <2>4 DEF AudioTypeOK
  <2> QED
    BY <2>2, <2>3, <2>4
<1>8. AudioTypeOK'
  BY <1>0, <1>2, <1>3, <1>6, <1>7, <1>t DEF AudioTypeOK
<1>9. AudioLocks'
  BY <1>0, <1>2, <1>t, LockStep
<1>10. FdsOwned'
  <2>1. CASE broken \/ outcome \in {"noflags", "novolume"}
    BY <1>0, <2>1 DEF FdsOwned
  <2>2. CASE ~broken /\ outcome = "refused"
    <3>1. \A q \in AudioProc : /\ Reader(q)' <=> Reader(q)
                               /\ Writer(q)' <=> Writer(q)
                               /\ Forced(q)' <=> Forced(q)
      BY <1>0, <1>2, <1>3, <2>2 DEF Reader, Writer, Forced, Reads, Writes
    <3> QED
      BY <1>0, <1>2, <1>3, <1>t, <2>2, <3>1, FdsSame
  <2>3. CASE ~broken /\ outcome = "opened"
    <3> DEFINE n == NewFd
    <3>0. n \in 1 .. MaxFd /\ n \notin fds /\ n # Nofd /\ n # 0
      BY <1>4, <2>3 DEF Nofd
    <3>1. /\ afd'.in = IF Reads(mode) THEN n ELSE afd.in
          /\ afd'.out = IF Writes(mode) THEN n ELSE afd.out
          /\ fds' = fds \cup {n}
      BY <1>0, <1>5, <2>3, <3>0, AudioAssumption
    <3> HIDE DEF n
    <3>2. OneEach /\ FdsMatch
      BY <1>t, <2>3 DEF FdsOwned
    <3>3. /\ Reads(mode) => afd.in = Nofd
          /\ Writes(mode) => afd.out = Nofd
          /\ Reads(mode) \/ Writes(mode)
      BY <1>0, <1>1, <3>2 DEF FdsMatch, AudioMode, Reads, Writes
    <3>4. \A q \in AudioProc : ~Forced(q)
      BY <1>0, <3>2 DEF OneEach
    <3>5. /\ Reader(p)' <=> Reads(mode)
          /\ Writer(p)' <=> Writes(mode)
          /\ ~Forced(p)' /\ ~Reader(p) /\ ~Writer(p)
      BY <1>0, <1>2, <1>3, <2>3 DEF Reader, Writer, Forced
    <3>6. \A q \in AudioProc \ {p} : /\ Reader(q)' <=> Reader(q)
                                     /\ Writer(q)' <=> Writer(q)
                                     /\ ~Forced(q)'
      BY <1>3, <3>4 DEF Reader, Writer, Forced
    <3>7. /\ Reads(mode) => \A q \in AudioProc : ~Reader(q)
          /\ Writes(mode) => \A q \in AudioProc : ~Writer(q)
      BY <3>2, <3>3 DEF FdsMatch
    <3>8. OneEach'
      BY <3>2, <3>5, <3>6, <3>7 DEF OneEach
    <3>9. /\ afd'.in \in {Nofd} \cup 1 .. MaxFd /\ afd'.out \in {Nofd} \cup 1 .. MaxFd
      BY <3>0, <3>1, <3>2 DEF FdsMatch
    <3>10. /\ afd'.in # Nofd <=> \E q \in AudioProc : Reader(q)' \/ Forced(q)'
           /\ afd'.out # Nofd <=> \E q \in AudioProc : Writer(q)' \/ Forced(q)'
      BY <3>0, <3>1, <3>2, <3>4, <3>5, <3>6 DEF FdsMatch
    <3>11. ASSUME NEW q \in AudioProc, audio'[q].at = "opening"
           PROVE  /\ Reads(audio'[q].mode) => afd'.in = Nofd
                  /\ Writes(audio'[q].mode) => afd'.out = Nofd
      <4>1. q # p /\ audio[q].at = "opening" /\ audio'[q] = audio[q]
        BY <1>2, <1>3, <3>11
      <4>2. /\ Reads(audio[q].mode) => ~Reads(mode)
            /\ Writes(audio[q].mode) => ~Writes(mode)
        BY <1>0, <1>t, <4>1 DEF AudioLocks
      <4> QED
        BY <3>1, <3>2, <4>1, <4>2 DEF FdsMatch
    <3>12. \A q, u \in AudioProc : Reader(q)' /\ Writer(u)' => (afd'.in = afd'.out <=> q = u)
      <4>1. afd.in # n /\ afd.out # n
        BY <3>0, <3>2 DEF FdsMatch
      <4>2. ASSUME NEW q \in AudioProc, NEW u \in AudioProc, Reader(q)', Writer(u)'
            PROVE  afd'.in = afd'.out <=> q = u
        <5>1. CASE Reads(mode) /\ Writes(mode)
          BY <3>1, <3>5, <3>6, <3>7, <4>2, <5>1
        <5>2. CASE Reads(mode) /\ ~Writes(mode)
          BY <3>1, <3>5, <3>6, <3>7, <4>1, <4>2, <5>2
        <5>3. CASE ~Reads(mode) /\ Writes(mode)
          BY <3>1, <3>5, <3>6, <3>7, <4>1, <4>2, <5>3
        <5> QED
          BY <3>3, <5>1, <5>2, <5>3
      <4> QED
        BY <4>2
    <3>13. fds' = {0, afd'.in, afd'.out} \ {Nofd}
      <4>1. fds = {0, afd.in, afd.out} \ {Nofd}
        BY <3>2 DEF FdsMatch
      <4> QED
        BY <3>0, <3>1, <3>3, <4>1
    <3>14. FdsMatch'
      BY <3>9, <3>10, <3>11, <3>12, <3>13 DEF FdsMatch
    <3> QED
      BY <3>8, <3>14 DEF FdsOwned
  <2> QED
    BY <2>1, <2>2, <2>3
<1>11. CtlAlone'
  BY <1>0, <1>2, <1>3, <1>t, CtlSame
<1>12. BytesSent'
  BY <1>0, <1>2, <1>3, <1>t, BytesSame
<1> QED
  BY <1>8, <1>9, <1>10, <1>11, <1>12 DEF AudioInv
\* A file is closed: what is open for both is one descriptor.
LEMMA AudioCloses == ASSUME AudioInv, NEW p \in AudioProc, AudioClose(p) PROVE AudioInv'
<1> DEFINE mode == audio[p].mode
<1>t. AudioTypeOK /\ AudioLocks /\ FdsOwned /\ CtlAlone /\ BytesSent
  BY DEF AudioInv
<1>0. /\ audio[p].at = "user" /\ mode # "none" /\ AudioGoes(p, Free)
      /\ Reads(mode) => inlock = {}
      /\ Writes(mode) => outlock = {}
      /\ fds' = fds \ {IF Reads(mode) THEN afd.in ELSE afd.out}
      /\ afd' = Sets(mode, Nofd)
      /\ UNCHANGED <<inlock, outlock, av, sent, broken, want, lost>>
  BY DEF AudioClose, Open, AudioGoes, audiolocks, audiohist
<1>1. audio[p] \in AudioFile /\ mode \in AudioMode
  BY <1>0, <1>t, RecordFacts DEF AudioFile
<1>2. /\ audio'[p] = Free /\ \A q \in AudioProc \ {p} : audio'[q] = audio[q]
      /\ audio' \in [AudioProc -> AudioFile \cup AudioWriting \cup AudioCtl]
  BY <1>0, <1>t, FreeFacts, GoesFacts
<1>3. /\ afd' \in [in : Int, out : Int]
      /\ afd'.in = IF Reads(mode) THEN Nofd ELSE afd.in
      /\ afd'.out = IF Writes(mode) THEN Nofd ELSE afd.out
  BY <1>0, <1>t DEF Sets, AudioTypeOK, Nofd
<1>4. AudioTypeOK'
  BY <1>0, <1>2, <1>3, <1>t, FreeFacts DEF AudioTypeOK
<1>5. AudioLocks'
  <2>1. p \notin inlock /\ p \notin outlock
    BY <1>0, <1>t DEF AudioLocks
  <2> QED
    BY <1>0, <1>t, <2>1, FreeFacts, LockStep
<1>6. FdsOwned'
  <2> SUFFICES ASSUME ~broken PROVE OneEach' /\ FdsMatch'
    BY <1>0 DEF FdsOwned
  <2>1. OneEach /\ FdsMatch
    BY <1>t DEF FdsOwned
  <2>2. /\ Reader(p) <=> Reads(mode)
        /\ Writer(p) <=> Writes(mode)
        /\ ~Reader(p)' /\ ~Writer(p)' /\ ~Forced(p)' /\ ~Forced(p)
        /\ Reads(mode) \/ Writes(mode)
    BY <1>0, <1>1, <1>2, FreeFacts DEF Reader, Writer, Forced, Reads, Writes, AudioMode
  <2>3. \A q \in AudioProc \ {p} : /\ Reader(q)' <=> Reader(q)
                                   /\ Writer(q)' <=> Writer(q)
                                   /\ Forced(q)' <=> Forced(q)
    BY <1>2 DEF Reader, Writer, Forced
  <2>4. \A q \in AudioProc : ~Forced(q)
    BY <2>1, <2>2 DEF OneEach
  <2>5. /\ Reads(mode) => \A q \in AudioProc \ {p} : ~Reader(q)
        /\ Writes(mode) => \A q \in AudioProc \ {p} : ~Writer(q)
    BY <2>1, <2>2 DEF OneEach
  <2>6. OneEach'
    BY <2>1, <2>2, <2>3, <2>4 DEF OneEach
  <2>7. /\ afd'.in # Nofd <=> \E q \in AudioProc : Reader(q)' \/ Forced(q)'
        /\ afd'.out # Nofd <=> \E q \in AudioProc : Writer(q)' \/ Forced(q)'
    BY <1>3, <2>1, <2>2, <2>3, <2>4, <2>5 DEF FdsMatch
  <2>8. \A q, u \in AudioProc : Reader(q)' /\ Writer(u)' => (afd'.in = afd'.out <=> q = u)
    BY <1>3, <2>1, <2>2, <2>3, <2>5 DEF FdsMatch
  <2>9. fds' = {0, afd'.in, afd'.out} \ {Nofd}
    <3>1. /\ afd.in \in {Nofd} \cup 1 .. MaxFd /\ afd.out \in {Nofd} \cup 1 .. MaxFd
          /\ fds = {0, afd.in, afd.out} \ {Nofd}
      BY <2>1 DEF FdsMatch
    <3>2. CASE Reads(mode) /\ Writes(mode)
      <4>1. afd.in = afd.out /\ afd.in # Nofd /\ afd.in # 0
        BY <2>1, <2>2, <3>1, <3>2, AudioAssumption DEF FdsMatch, Nofd
      <4> QED
        BY <1>0, <1>3, <3>1, <3>2, <4>1 DEF Nofd
    <3>3. CASE Reads(mode) /\ ~Writes(mode)
      <4>1. afd.in # Nofd /\ afd.in # 0 /\ afd.in # afd.out
        BY <2>1, <2>2, <2>4, <2>5, <3>1, <3>3, AudioAssumption DEF FdsMatch, Nofd
      <4> QED
        BY <1>0, <1>3, <3>1, <3>3, <4>1 DEF Nofd
    <3>4. CASE ~Reads(mode) /\ Writes(mode)
      <4>1. afd.out # Nofd /\ afd.out # 0 /\ afd.in # afd.out
        BY <2>1, <2>2, <2>4, <2>5, <3>1, <3>4, AudioAssumption DEF FdsMatch, Nofd
      <4> QED
        BY <1>0, <1>3, <3>1, <3>4, <4>1 DEF Nofd
    <3> QED
      BY <2>2, <3>2, <3>3, <3>4
  <2>10. \A q \in AudioProc : audio'[q].at = "opening" =>
            /\ Reads(audio'[q].mode) => afd'.in = Nofd
            /\ Writes(audio'[q].mode) => afd'.out = Nofd
    BY <1>2, <1>3, <2>1, FreeFacts DEF FdsMatch
  <2>11. afd'.in \in {Nofd} \cup 1 .. MaxFd /\ afd'.out \in {Nofd} \cup 1 .. MaxFd
    BY <1>3, <2>1 DEF FdsMatch
  <2> QED
    BY <2>6, <2>7, <2>8, <2>9, <2>10, <2>11 DEF FdsMatch
<1>7. CtlAlone'
  BY <1>0, <1>2, <1>t, FreeFacts, CtlSame
<1>8. BytesSent'
  BY <1>0, <1>2, <1>t, FreeFacts, BytesSame
<1> QED
  BY <1>4, <1>5, <1>6, <1>7, <1>8 DEF AudioInv

\* Where a process reads and writes its file the descriptors stay as they are.
LEMMA AudioFileStep ==
    ASSUME AudioInv, NEW p \in AudioProc, NEW r \in AudioRecord, AudioGoes(p, r),
           audio[p].at \in {"user", "writing"}, r.at \in {"user", "writing"},
           r.mode = audio[p].mode, UNCHANGED <<afd, fds, av, broken, want, lost>>,
           sent' \in Nat, AudioLocks', BytesSent'
    PROVE  AudioInv'
<1>t. AudioTypeOK /\ FdsOwned /\ CtlAlone
  BY DEF AudioInv
<1>1. /\ audio'[p] = r /\ \A q \in AudioProc \ {p} : audio'[q] = audio[q]
      /\ audio' \in [AudioProc -> AudioFile \cup AudioWriting \cup AudioCtl]
  BY <1>t, GoesFacts
<1>2. AudioTypeOK'
  BY <1>1, <1>t DEF AudioTypeOK
<1>3. \A q \in AudioProc : /\ Reader(q)' <=> Reader(q)
                           /\ Writer(q)' <=> Writer(q)
                           /\ Forced(q)' <=> Forced(q)
  BY <1>1 DEF Reader, Writer, Forced
<1>4. FdsOwned'
  BY <1>1, <1>3, <1>t, FdsSame
<1>5. CtlAlone'
  BY <1>1, <1>t, CtlSame
<1> QED
  BY <1>2, <1>4, <1>5 DEF AudioInv

LEMMA AudioWrites == ASSUME AudioInv, NEW p \in AudioProc, AudioWrite(p) PROVE AudioInv'
<1>t. AudioTypeOK /\ AudioLocks
  BY DEF AudioInv
<1>0. /\ audio[p].at = "user" /\ audio[p].mode # "none" /\ Writes(audio[p].mode)
      /\ outlock = {} /\ outlock' = {p} /\ sent' = 0
      /\ UNCHANGED <<afd, fds, inlock, av, broken, want, lost>>
  BY DEF AudioWrite, Open, audiofiles, audiohist
<1>1. PICK bufsz \in 1 .. MaxBytes :
        AudioGoes(p, [mode |-> audio[p].mode, at |-> "writing", total |-> 0,
                      count |-> MaxBytes, bufsz |-> bufsz])
  BY <1>t DEF AudioWrite, AudioGoes, AudioTypeOK
<1> DEFINE r == [mode |-> audio[p].mode, at |-> "writing", total |-> 0,
                 count |-> MaxBytes, bufsz |-> bufsz]
<1>2. audio[p] \in AudioFile /\ audio[p].mode \in {"write", "rdwr"}
  BY <1>0, <1>t, RecordFacts DEF AudioFile, Writes
<1>3. r \in AudioRecord /\ r.at = "writing" /\ r.mode = audio[p].mode /\ r.total = 0
  BY <1>2, AudioAssumption DEF AudioRecord, AudioWriting
<1> HIDE DEF r
<1>4. AudioGoes(p, r)
  BY <1>1 DEF r
<1>5. AudioLocks'
  <2>1. p \notin inlock
    BY <1>0, <1>t DEF AudioLocks
  <2> QED
    BY <1>0, <1>3, <1>4, <1>t, <2>1, LockStep
<1>6. audio'[p] = r /\ \A q \in AudioProc \ {p} : audio'[q] = audio[q]
  BY <1>4, <1>t, GoesFacts
<1>7. BytesSent'
  BY <1>0, <1>3, <1>6, <1>t DEF BytesSent, AudioLocks
<1> QED
  BY <1>0, <1>3, <1>4, <1>5, <1>7, AudioFileStep

LEMMA AudioWriteParts == ASSUME AudioInv, NEW p \in AudioProc, AudioWritePart(p) PROVE AudioInv'
<1> DEFINE w == audio[p]
           chunk == IF w.bufsz < w.count - w.total THEN w.bufsz ELSE w.count - w.total
<1>t. AudioTypeOK /\ AudioLocks /\ BytesSent
  BY DEF AudioInv
<1>0. /\ w.at = "writing" /\ w.total < w.count
      /\ UNCHANGED <<afd, fds, inlock, outlock, av, broken, want, lost>>
  BY DEF AudioWritePart, audiofiles, audiolocks, audiohist
<1>1. PICK status \in 1 .. chunk :
         /\ sent' = sent + status
         /\ audio' = [audio EXCEPT ![p].total = Total(w.total, chunk, status)]
  BY DEF AudioWritePart
<1>2. w \in AudioWriting
  BY <1>0, <1>t, RecordFacts
<1>3. w.total \in Nat /\ w.bufsz \in Nat /\ w.count \in Nat /\ sent \in Nat
  BY <1>2, <1>t DEF AudioWriting, AudioTypeOK
<1>4. status \in Nat
  BY <1>3
<1>5. w.total + status \in Nat /\ sent + status \in Nat
  BY <1>3, <1>4
<1> DEFINE r == [w EXCEPT !.total = w.total + status]
<1>6. AudioGoes(p, r)
  BY <1>1, <1>t DEF AudioGoes, Total, AudioTypeOK
<1>7. r \in AudioRecord /\ r.at = "writing" /\ r.mode = w.mode /\ r.total = w.total + status
  BY <1>2, <1>5 DEF AudioRecord, AudioWriting
<1>8. w.mode \in {"write", "rdwr"}
  BY <1>2 DEF AudioWriting
<1> HIDE DEF r, chunk
<1>9. AudioLocks'
  <2>1. outlock = {p} /\ p \notin inlock
    BY <1>0, <1>t DEF AudioLocks
  <2> QED
    BY <1>0, <1>6, <1>7, <1>t, <2>1, LockStep
<1>10. audio'[p] = r /\ \A q \in AudioProc \ {p} : audio'[q] = audio[q]
  BY <1>6, <1>t, GoesFacts
<1>11. BytesSent'
  <2>1. sent = w.total
    BY <1>0, <1>t DEF BytesSent
  <2>2. \A q \in AudioProc \ {p} : audio[q].at # "writing"
    BY <1>0, <1>t DEF AudioLocks
  <2> QED
    BY <1>1, <1>7, <1>10, <2>1, <2>2 DEF BytesSent
<1> QED
  BY <1>0, <1>1, <1>5, <1>6, <1>7, <1>9, <1>11, AudioFileStep

LEMMA AudioWritesAll == ASSUME AudioInv, NEW p \in AudioProc, AudioWritten(p) PROVE AudioInv'
<1> DEFINE r == [mode |-> audio[p].mode, at |-> "user"]
<1>t. AudioTypeOK /\ AudioLocks /\ BytesSent
  BY DEF AudioInv
<1>0. /\ audio[p].at = "writing" /\ sent' = 0 /\ AudioGoes(p, r)
      /\ inlock' = inlock \ {p} /\ outlock' = outlock \ {p}
      /\ UNCHANGED <<afd, fds, av, broken, want, lost>>
  BY <1>t DEF AudioWritten, AudioGoes, Unlock, audiofiles, audiohist, AudioTypeOK
<1>1. audio[p].mode \in {"write", "rdwr"}
  BY <1>0, <1>t, RecordFacts DEF AudioWriting
<1>2. r \in AudioRecord /\ r.at = "user" /\ r.mode = audio[p].mode
  BY <1>1 DEF AudioRecord, AudioFile, AudioMode
<1> HIDE DEF r
<1>3. AudioLocks'
  BY <1>0, <1>2, <1>t, LockStep
<1>4. audio'[p] = r /\ \A q \in AudioProc \ {p} : audio'[q] = audio[q]
  BY <1>0, <1>t, GoesFacts
<1>5. BytesSent'
  BY <1>0, <1>2, <1>4, <1>t DEF BytesSent, AudioLocks
<1> QED
  BY <1>0, <1>2, <1>3, <1>5, AudioFileStep

\* Nothing that is stated here changes when a file is read.
LEMMA AudioIdle ==
    ASSUME AudioInv, UNCHANGED <<afd, fds, inlock, outlock, av, audio, sent, broken, want, lost>>
    PROVE  AudioInv'
<1>1. AudioTypeOK' /\ AudioLocks'
  BY DEF AudioInv, AudioTypeOK, AudioLocks
<1>2. FdsOwned'
  BY DEF AudioInv, FdsOwned, OneEach, FdsMatch, Reader, Writer, Forced
<1>3. CtlAlone' /\ BytesSent'
  BY DEF AudioInv, CtlAlone, InCtl, BytesSent
<1> QED
  BY <1>1, <1>2, <1>3 DEF AudioInv

\* A write of audioctl starts: it copies the settings.
LEMMA CtlStarts ==
    ASSUME AudioInv, NEW p \in AudioProc, NEW d \in {"in", "out"}, NEW val \in Setting,
           CtlWrite(p, d, val)
    PROVE  AudioInv'
<1> DEFINE r == [mode |-> "none", at |-> "in", mod |-> d, forced |-> FALSE,
                 tmpav |-> [av EXCEPT ![d] = val]]
<1>t. AudioTypeOK /\ AudioLocks /\ FdsOwned /\ CtlAlone /\ BytesSent
  BY DEF AudioInv
<1>0. /\ audio[p] = Free /\ AudioGoes(p, r)
      /\ lost' = (lost \/ InCtl # {})
      /\ UNCHANGED <<afd, fds, inlock, outlock, av, sent, broken, want>>
  BY DEF CtlWrite, AudioGoes, audiofiles, audiolocks
<1>1. [av EXCEPT ![d] = val] \in Settings
  BY <1>t DEF AudioTypeOK, Settings
<1>2. /\ r \in AudioRecord /\ r.at = "in" /\ r.mode = "none" /\ r.forced = FALSE
      /\ r.mod = d /\ r.tmpav = [av EXCEPT ![d] = val]
  BY <1>1 DEF AudioRecord, AudioCtl
<1> HIDE DEF r
<1>3. /\ audio'[p] = r /\ \A q \in AudioProc \ {p} : audio'[q] = audio[q]
      /\ audio' \in [AudioProc -> AudioFile \cup AudioWriting \cup AudioCtl]
  BY <1>0, <1>2, <1>t, GoesFacts
<1>4. AudioTypeOK'
  BY <1>0, <1>2, <1>3, <1>t DEF AudioTypeOK
<1>5. AudioLocks'
  <2>1. p \notin inlock /\ p \notin outlock
    BY <1>0, <1>t, FreeFacts DEF AudioLocks
  <2> QED
    BY <1>0, <1>2, <1>t, <2>1, LockStep
<1>6. FdsOwned'
  <2>1. \A q \in AudioProc : /\ Reader(q)' <=> Reader(q)
                             /\ Writer(q)' <=> Writer(q)
                             /\ Forced(q)' <=> Forced(q)
    BY <1>0, <1>2, <1>3, FreeFacts DEF Reader, Writer, Forced, Reads, Writes
  <2> QED
    BY <1>0, <1>2, <1>3, <1>t, <2>1, FdsSame
<1>7. CtlAlone'
  <2> SUFFICES ASSUME ~lost' PROVE CtlAlone'
    BY DEF CtlAlone
  <2>1. ~lost /\ InCtl = {} /\ av = want
    BY <1>0, <1>t DEF CtlAlone, AudioTypeOK
  <2>2. InCtl' = {p}
    BY <1>2, <1>3, <2>1 DEF InCtl
  <2>3. r.tmpav[d] = val /\ [av EXCEPT ![d] = val] = [av EXCEPT ![d] = r.tmpav[d]]
    BY <1>2, <1>t DEF AudioTypeOK, Settings
  <2> QED
    BY <1>0, <1>2, <1>3, <2>1, <2>2, <2>3 DEF CtlAlone
<1>8. BytesSent'
  BY <1>0, <1>2, <1>3, <1>t, BytesSame
<1> QED
  BY <1>4, <1>5, <1>6, <1>7, <1>8 DEF AudioInv

\* A write of audioctl goes on to where it sets the output, or gives up: the
\* descriptors are as FdsOwned says by the time it has the device to itself.
LEMMA CtlGoes ==
    ASSUME AudioInv, NEW p \in AudioProc, NEW r \in AudioRecord, AudioGoes(p, r),
           audio[p].at \in {"in", "out", "done"},
           \/ r = Free
           \/ /\ r.at \in {"in", "out", "done"} /\ r.mode = "none"
              /\ r.tmpav = audio[p].tmpav /\ r.mod = audio[p].mod,
           afd' \in [in : Int, out : Int], fds' \subseteq Nat, broken' \in BOOLEAN,
           UNCHANGED <<inlock, outlock, av, sent, want, lost>>, FdsOwned'
    PROVE  AudioInv'
<1>t. AudioTypeOK /\ AudioLocks /\ CtlAlone /\ BytesSent
  BY DEF AudioInv
<1>1. /\ audio'[p] = r /\ \A q \in AudioProc \ {p} : audio'[q] = audio[q]
      /\ audio' \in [AudioProc -> AudioFile \cup AudioWriting \cup AudioCtl]
  BY <1>t, GoesFacts
<1>2. r.at \in {"user", "in", "out", "done"} /\ r.mode = "none"
  BY FreeFacts
<1>3. AudioTypeOK'
  BY <1>1, <1>2, <1>t DEF AudioTypeOK
<1>4. AudioLocks'
  <2>1. p \notin inlock /\ p \notin outlock
    BY <1>t DEF AudioLocks
  <2> QED
    BY <1>2, <1>t, <2>1, LockStep
<1>5. CtlAlone'
  BY <1>1, <1>t, FreeFacts, CtlSame
<1>6. BytesSent'
  BY <1>1, <1>2, <1>t, BytesSame
<1> QED
  BY <1>3, <1>4, <1>5, <1>6 DEF AudioInv

LEMMA CtlIns ==
    ASSUME AudioInv, NEW p \in AudioProc, NEW opens \in BOOLEAN, NEW paused \in BOOLEAN,
           NEW mixer \in BOOLEAN, CtlIn(p, opens, paused, mixer)
    PROVE  AudioInv'
<1> DEFINE force == afd.in = Nofd /\ afd.out = Nofd
           fd == IF force /\ opens THEN NewFd ELSE afd.in
           sets == fd >= 0 /\ audio[p].mod = "in"
           ok == Audio_set_info(sets, paused /\ mixer)
           r == IF ok THEN [audio[p] EXCEPT !.at = "out", !.forced = force] ELSE Free
<1>t. AudioTypeOK /\ AudioLocks /\ FdsOwned /\ CtlAlone /\ BytesSent
  BY DEF AudioInv
<1>0. /\ audio[p].at = "in" /\ inlock = {}
      /\ force /\ opens => AnyFd
      /\ fds' = IF force /\ opens THEN fds \cup {fd} ELSE fds
      /\ afd' = IF force /\ opens THEN [in |-> fd, out |-> fd] ELSE afd
      /\ broken' = (broken \/ (force /\ (~opens \/ outlock # {} \/ ~ok)))
      /\ UNCHANGED <<inlock, outlock, av, sent, want, lost>>
  BY DEF CtlIn, audiolocks
<1>1. AudioGoes(p, r)
  <2>1. \/ ~ok /\ Fails(p)
        \/ ok /\ audio' = [audio EXCEPT ![p].at = "out", ![p].forced = force]
    BY DEF CtlIn
  <2>2. CASE ~ok /\ Fails(p)
    BY <2>2 DEF Fails, AudioGoes
  <2>3. CASE ok /\ audio' = [audio EXCEPT ![p].at = "out", ![p].forced = force]
    <3> HIDE DEF force, ok
    <3> QED
      BY <1>t, <2>3 DEF AudioGoes, AudioTypeOK
  <2> QED
    BY <2>1, <2>2, <2>3
<1>2. audio[p] \in AudioCtl
  BY <1>0, <1>t, RecordFacts
<1>3. force \in BOOLEAN /\ (force => fd = IF opens THEN NewFd ELSE Nofd)
  OBVIOUS
<1>4. force /\ opens => fd \in 1 .. MaxFd /\ fd \notin fds /\ fd \in Nat \ {0}
  BY <1>0, <1>t, NewFdFacts, AudioAssumption DEF AudioTypeOK
<1> HIDE DEF force, fd, ok
<1>5. /\ r \in AudioRecord
      /\ ok => /\ r.at = "out" /\ r.mode = "none" /\ r.forced = force
               /\ r.tmpav = audio[p].tmpav /\ r.mod = audio[p].mod
      /\ ~ok => r = Free
  BY <1>2, <1>3, FreeFacts DEF AudioRecord, AudioCtl
<1> HIDE DEF r
<1>6. audio'[p] = r /\ \A q \in AudioProc \ {p} : audio'[q] = audio[q]
  BY <1>1, <1>t, GoesFacts
<1>7. /\ afd' \in [in : Int, out : Int] /\ fds' \subseteq Nat /\ broken' \in BOOLEAN
  <2>1. fds' \subseteq Nat
    BY <1>0, <1>4, <1>t DEF AudioTypeOK
  <2>2. force /\ opens => [in |-> fd, out |-> fd] \in [in : Int, out : Int]
    BY <1>4
  <2>3. afd' \in [in : Int, out : Int]
    BY <1>0, <2>2, <1>t DEF AudioTypeOK
  <2>4. broken' \in BOOLEAN
    <3>1. broken \in BOOLEAN
      BY <1>t DEF AudioTypeOK
    <3> QED
      BY <1>0, <3>1
  <2> QED
    BY <2>1, <2>3, <2>4
<1>8. ~Reader(p) /\ ~Writer(p) /\ ~Reader(p)' /\ ~Writer(p)' /\ ~Forced(p)
  BY <1>0, <1>2, <1>5, <1>6, FreeFacts DEF AudioCtl, Reader, Writer, Forced, Reads, Writes
<1>9. Forced(p)' <=> ok /\ force
  BY <1>5, <1>6, FreeFacts DEF Forced
<1>10. \A q \in AudioProc \ {p} : /\ Reader(q)' <=> Reader(q)
                                  /\ Writer(q)' <=> Writer(q)
                                  /\ Forced(q)' <=> Forced(q)
  BY <1>6 DEF Reader, Writer, Forced
<1>11. FdsOwned'
  <2>1. CASE broken'
    BY <2>1 DEF FdsOwned
  <2>2. CASE ~force
    <3>1. \A q \in AudioProc : /\ Reader(q)' <=> Reader(q)
                               /\ Writer(q)' <=> Writer(q)
                               /\ Forced(q)' <=> Forced(q)
      BY <1>8, <1>9, <1>10, <2>2
    <3>2. UNCHANGED <<afd, fds>> /\ (~broken' => ~broken)
      BY <1>0, <2>2
    <3>3. \A q \in AudioProc : audio'[q].at = "opening" =>
             audio[q].at = "opening" /\ audio'[q].mode = audio[q].mode
      BY <1>5, <1>6, FreeFacts
    <3> QED
      BY <1>t, <3>1, <3>2, <3>3, FdsSame
  <2>3. CASE ~broken' /\ force
    <3>1. ~broken /\ opens /\ outlock = {} /\ ok
      BY <1>0, <2>3
    <3>2. OneEach /\ FdsMatch
      BY <1>t, <3>1 DEF FdsOwned
    <3>3. /\ afd'.in = fd /\ afd'.out = fd /\ fds' = fds \cup {fd}
          /\ afd.in = Nofd /\ afd.out = Nofd
      BY <1>0, <2>3, <3>1 DEF force
    <3>4. \A q \in AudioProc : ~Reader(q) /\ ~Writer(q) /\ ~Forced(q)
      BY <3>2, <3>3 DEF FdsMatch
    <3>5. \A q \in AudioProc : audio[q].at # "opening"
      <4>1. \A q \in AudioProc : audio[q].at = "opening" => audio[q].mode \in AudioMode
        BY <1>t DEF AudioTypeOK
      <4> QED
        BY <1>0, <1>t, <3>1, <4>1 DEF AudioLocks, AudioMode, Reads, Writes
    <3>6. \A q \in AudioProc : audio'[q].at # "opening"
      BY <1>5, <1>6, <3>1, <3>5
    <3>7. \A q \in AudioProc : ~Reader(q)' /\ ~Writer(q)' /\ (Forced(q)' <=> q = p)
      BY <1>8, <1>9, <1>10, <2>3, <3>1, <3>4
    <3>8. OneEach'
      BY <3>3, <3>6, <3>7 DEF OneEach
    <3>9. fd \in 1 .. MaxFd /\ fd # Nofd
      BY <1>4, <2>3, <3>1 DEF Nofd
    <3>10. fds' = {0, afd'.in, afd'.out} \ {Nofd}
      BY <3>2, <3>3, <3>9 DEF FdsMatch, Nofd
    <3>11. FdsMatch'
      BY <3>3, <3>6, <3>7, <3>9, <3>10 DEF FdsMatch
    <3> QED
      BY <3>8, <3>11 DEF FdsOwned
  <2> QED
    BY <2>1, <2>2, <2>3
<1> QED
  BY <1>0, <1>1, <1>5, <1>7, <1>11, CtlGoes

LEMMA CtlOuts ==
    ASSUME AudioInv, NEW p \in AudioProc, NEW paused \in BOOLEAN, NEW mixer \in BOOLEAN,
           CtlOut(p, paused, mixer)
    PROVE  AudioInv'
<1> DEFINE sets == afd.out >= 0 /\ audio[p].mod = "out"
           ok == Audio_set_info(sets, paused /\ mixer)
           r == IF ok THEN [audio[p] EXCEPT !.at = "done"] ELSE Free
<1>t. AudioTypeOK /\ AudioLocks /\ FdsOwned /\ CtlAlone /\ BytesSent
  BY DEF AudioInv
<1>0. /\ audio[p].at = "out" /\ outlock = {}
      /\ broken' = (broken \/ (~ok /\ audio[p].forced))
      /\ UNCHANGED <<afd, fds, inlock, outlock, av, sent, want, lost>>
  BY DEF CtlOut, audiofiles, audiolocks
<1>1. AudioGoes(p, r)
  <2>1. \/ ~ok /\ Fails(p)
        \/ ok /\ audio' = [audio EXCEPT ![p].at = "done"]
    BY DEF CtlOut
  <2>2. CASE ~ok /\ Fails(p)
    BY <2>2 DEF Fails, AudioGoes
  <2>3. CASE ok /\ audio' = [audio EXCEPT ![p].at = "done"]
    <3> HIDE DEF ok
    <3> QED
      BY <1>t, <2>3 DEF AudioGoes, AudioTypeOK
  <2> QED
    BY <2>1, <2>2, <2>3
<1>2. audio[p] \in AudioCtl
  BY <1>0, <1>t, RecordFacts
<1> HIDE DEF ok
<1>3. /\ r \in AudioRecord
      /\ ok => /\ r.at = "done" /\ r.mode = "none" /\ r.forced = audio[p].forced
               /\ r.tmpav = audio[p].tmpav /\ r.mod = audio[p].mod
      /\ ~ok => r = Free
  BY <1>2, FreeFacts DEF AudioRecord, AudioCtl
<1> HIDE DEF r
<1>4. audio'[p] = r /\ \A q \in AudioProc \ {p} : audio'[q] = audio[q]
  BY <1>1, <1>t, GoesFacts
<1>5. FdsOwned'
  <2> SUFFICES ASSUME ~broken' PROVE FdsOwned'
    BY DEF FdsOwned
  <2>1. ~broken /\ (~ok => ~audio[p].forced)
    BY <1>0, <1>2 DEF AudioCtl
  <2>2. Forced(p)' <=> Forced(p)
    BY <1>0, <1>3, <1>4, <2>1, FreeFacts DEF Forced
  <2>3. ~Reader(p) /\ ~Writer(p) /\ ~Reader(p)' /\ ~Writer(p)'
    BY <1>2, <1>3, <1>4, FreeFacts DEF AudioCtl, Reader, Writer, Reads, Writes
  <2>4. \A q \in AudioProc : /\ Reader(q)' <=> Reader(q)
                             /\ Writer(q)' <=> Writer(q)
                             /\ Forced(q)' <=> Forced(q)
    BY <1>4, <2>2, <2>3 DEF Reader, Writer, Forced
  <2>5. \A q \in AudioProc : audio'[q].at = "opening" =>
           audio[q].at = "opening" /\ audio'[q].mode = audio[q].mode
    BY <1>3, <1>4, FreeFacts
  <2> QED
    BY <1>0, <1>t, <2>1, <2>4, <2>5, FdsSame
<1>6. broken' \in BOOLEAN /\ afd' \in [in : Int, out : Int] /\ fds' \subseteq Nat
  BY <1>0, <1>t DEF AudioTypeOK
<1> QED
  BY <1>0, <1>1, <1>3, <1>5, <1>6, CtlGoes

\* A write of audioctl ends: the settings are replaced, what it opened is closed.
LEMMA CtlEnds == ASSUME AudioInv, NEW p \in AudioProc, CtlDone(p) PROVE AudioInv'
<1> DEFINE c == audio[p]
<1>t. AudioTypeOK /\ AudioLocks /\ FdsOwned /\ CtlAlone /\ BytesSent
  BY DEF AudioInv
<1>0. /\ c.at = "done" /\ AudioGoes(p, Free)
      /\ av' = c.tmpav /\ want' = [want EXCEPT ![c.mod] = c.tmpav[c.mod]]
      /\ fds' = IF c.forced THEN fds \ {afd.in} ELSE fds
      /\ afd' = IF c.forced THEN [in |-> Nofd, out |-> Nofd] ELSE afd
      /\ UNCHANGED <<inlock, outlock, sent, broken, lost>>
  BY DEF CtlDone, Fails, AudioGoes, audiofiles, audiolocks
<1>1. c \in AudioCtl
  BY <1>0, <1>t, RecordFacts
<1>2. c.mode = "none" /\ c.mod \in {"in", "out"} /\ c.forced \in BOOLEAN /\ c.tmpav \in Settings
  BY <1>1 DEF AudioCtl
<1>3. audio'[p] = Free /\ \A q \in AudioProc \ {p} : audio'[q] = audio[q]
  BY <1>0, <1>t, GoesFacts
<1>4. AudioTypeOK'
  <2>1. audio' \in [AudioProc -> AudioFile \cup AudioWriting \cup AudioCtl]
    BY <1>0, <1>t, GoesFacts, FreeFacts
  <2>2. afd' \in [in : Int, out : Int] /\ fds' \subseteq Nat
    <3>1. fds' \subseteq Nat
      BY <1>0, <1>t DEF AudioTypeOK
    <3>2. [in |-> Nofd, out |-> Nofd] \in [in : Int, out : Int]
      BY DEF Nofd
    <3> QED
      BY <1>0, <1>t, <3>1, <3>2 DEF AudioTypeOK
  <2>3. c.tmpav[c.mod] \in Setting \cup {0}
    BY <1>2 DEF Settings
  <2>4. want' \in Settings
    BY <1>0, <1>2, <1>t, <2>3 DEF AudioTypeOK, Settings
  <2> QED
    BY <1>0, <1>2, <1>3, <1>t, <2>1, <2>2, <2>4, FreeFacts DEF AudioTypeOK
<1>5. AudioLocks'
  <2>1. p \notin inlock /\ p \notin outlock
    BY <1>0, <1>t DEF AudioLocks
  <2> QED
    BY <1>0, <1>t, <2>1, FreeFacts, LockStep
<1>6. ~Reader(p) /\ ~Writer(p) /\ ~Reader(p)' /\ ~Writer(p)' /\ ~Forced(p)'
  BY <1>2, <1>3, FreeFacts DEF Reader, Writer, Forced, Reads, Writes
<1>7. \A q \in AudioProc \ {p} : /\ Reader(q)' <=> Reader(q)
                                 /\ Writer(q)' <=> Writer(q)
                                 /\ Forced(q)' <=> Forced(q)
  BY <1>3 DEF Reader, Writer, Forced
<1>8. FdsOwned'
  <2> SUFFICES ASSUME ~broken' PROVE FdsOwned'
    BY DEF FdsOwned
  <2>1. OneEach /\ FdsMatch
    BY <1>0, <1>t DEF FdsOwned
  <2>2. CASE ~c.forced
    <3>1. ~Forced(p)
      BY <2>2 DEF Forced
    <3>2. \A q \in AudioProc : /\ Reader(q)' <=> Reader(q)
                               /\ Writer(q)' <=> Writer(q)
                               /\ Forced(q)' <=> Forced(q)
      BY <1>6, <1>7, <3>1
    <3>3. \A q \in AudioProc : audio'[q].at = "opening" =>
             audio[q].at = "opening" /\ audio'[q].mode = audio[q].mode
      BY <1>3, FreeFacts
    <3>4. UNCHANGED <<afd, fds>> /\ (~broken' => ~broken)
      BY <1>0, <2>2
    <3> QED
      BY <1>t, <3>2, <3>3, <3>4, FdsSame
  <2>3. CASE c.forced
    <3>1. Forced(p)
      BY <1>0, <2>3 DEF Forced
    <3>2. /\ \A q \in AudioProc : ~Reader(q) /\ ~Writer(q) /\ audio[q].at # "opening"
          /\ \A q \in AudioProc \ {p} : ~Forced(q)
          /\ afd.in = afd.out /\ afd.in # Nofd
      BY <2>1, <3>1 DEF OneEach, FdsMatch
    <3>3. \A q \in AudioProc : ~Reader(q)' /\ ~Writer(q)' /\ ~Forced(q)' /\ audio'[q].at # "opening"
      BY <1>3, <1>6, <1>7, <3>2, FreeFacts
    <3>4. /\ afd'.in = Nofd /\ afd'.out = Nofd /\ fds' = fds \ {afd.in}
      BY <1>0, <2>3
    <3>5. afd.in \in 1 .. MaxFd /\ fds = {0, afd.in} /\ afd.in # 0 /\ Nofd # 0
      BY <2>1, <3>2, AudioAssumption DEF FdsMatch, Nofd
    <3>6. fds' = {0, afd'.in, afd'.out} \ {Nofd}
      BY <3>4, <3>5
    <3>7. OneEach'
      BY <3>3 DEF OneEach
    <3>8. FdsMatch'
      BY <3>3, <3>4, <3>6 DEF FdsMatch
    <3> QED
      BY <3>7, <3>8 DEF FdsOwned
  <2> QED
    BY <1>2, <2>2, <2>3
<1>9. CtlAlone'
  <2> SUFFICES ASSUME ~lost' PROVE CtlAlone'
    BY DEF CtlAlone
  <2>1. p \in InCtl /\ p \notin InCtl'
    BY <1>0, <1>3, FreeFacts DEF InCtl
  <2>2. /\ av = want /\ \A q \in InCtl : q = p
        /\ c.tmpav = [av EXCEPT ![c.mod] = c.tmpav[c.mod]]
    BY <1>0, <1>t, <2>1 DEF CtlAlone
  <2>3. \A q \in AudioProc : q \notin InCtl'
    BY <1>3, <2>1, <2>2 DEF InCtl
  <2>4. av' = want'
    BY <1>0, <2>2
  <2>5. InCtl' = {}
    BY <2>3 DEF InCtl
  <2> QED
    BY <2>4, <2>5 DEF CtlAlone
<1>10. BytesSent'
  BY <1>0, <1>3, <1>t, FreeFacts, BytesSame
<1> QED
  BY <1>4, <1>5, <1>8, <1>9, <1>10 DEF AudioInv

LEMMA AudioStep == AudioInv /\ [AudioNext]_audioVars => AudioInv'
<1> SUFFICES ASSUME AudioInv, [AudioNext]_audioVars PROVE AudioInv'
  OBVIOUS
<1>1. CASE UNCHANGED audioVars
  BY <1>1, AudioIdle DEF audioVars, audiofiles, audiolocks, audiohist
<1>2. ASSUME NEW p \in AudioProc, NEW mode \in {"read", "write", "rdwr"}, AudioOpen(p, mode)
      PROVE  AudioInv'
  BY <1>2, AudioOpens DEF AudioMode
<1>3. ASSUME NEW p \in AudioProc, NEW outcome \in {"opened", "refused", "noflags", "novolume"},
             AudioOpened(p, outcome)
      PROVE  AudioInv'
  BY <1>3, AudioIsOpened
<1>4. ASSUME NEW p \in AudioProc,
             AudioClose(p) \/ AudioWrite(p) \/ AudioWritePart(p) \/ AudioWritten(p)
      PROVE  AudioInv'
  BY <1>4, AudioCloses, AudioWrites, AudioWriteParts, AudioWritesAll
<1>5. ASSUME NEW p \in AudioProc, NEW d \in {"in", "out"}, NEW val \in Setting, CtlWrite(p, d, val)
      PROVE  AudioInv'
  BY <1>5, CtlStarts
<1>6. ASSUME NEW p \in AudioProc, NEW ok \in BOOLEAN, AudioRead(p, ok)
      PROVE  AudioInv'
  BY <1>6, AudioIdle DEF AudioRead, audiofiles, audiolocks, audiohist
<1>7. ASSUME NEW p \in AudioProc, NEW opens \in BOOLEAN, NEW paused \in BOOLEAN,
             NEW mixer \in BOOLEAN, CtlIn(p, opens, paused, mixer)
      PROVE  AudioInv'
  BY <1>7, CtlIns
<1>8. ASSUME NEW p \in AudioProc, NEW paused \in BOOLEAN, NEW mixer \in BOOLEAN,
             CtlOut(p, paused, mixer)
      PROVE  AudioInv'
  BY <1>8, CtlOuts
<1>9. ASSUME NEW p \in AudioProc, CtlDone(p) PROVE AudioInv'
  BY <1>9, CtlEnds
<1> QED
  BY <1>1, <1>2, <1>3, <1>4, <1>5, <1>6, <1>7, <1>8, <1>9 DEF AudioNext

LEMMA OneAtMost ==
    ASSUME NEW S, \A x, y \in S : x = y
    PROVE  Cardinality(S) <= 1
<1>1. CASE S = {}
  BY <1>1, FS_EmptySet
<1>2. CASE S # {}
  <2>1. PICK x \in S : S = {x}
    BY <1>2
  <2>2. Cardinality({x}) = 1
    BY FS_Singleton
  <2> QED
    BY <2>1, <2>2
<1> QED
  BY <1>1, <1>2

LEMMA AudioPromise == AudioInv => AudioShared
<1> SUFFICES ASSUME AudioInv PROVE AudioShared
  OBVIOUS
<1>t. AudioTypeOK /\ FdsOwned /\ CtlAlone /\ BytesSent
  BY DEF AudioInv
<1>1. DescriptorsOwned
  <2> SUFFICES ASSUME ~broken PROVE DescriptorsOwned
    BY DEF DescriptorsOwned
  <2> DEFINE fileReaders == {p \in AudioProc : audio[p].at # "opening" /\ Reads(audio[p].mode)}
             fileWriters == {p \in AudioProc : audio[p].at # "opening" /\ Writes(audio[p].mode)}
             ctlForced == {p \in InCtl : audio[p].at # "in" /\ audio[p].forced}
  <2>1. OneEach /\ FdsMatch
    BY <1>t DEF FdsOwned
  <2>2. /\ fileReaders = {p \in AudioProc : Reader(p)}
        /\ fileWriters = {p \in AudioProc : Writer(p)}
        /\ ctlForced = {p \in AudioProc : Forced(p)}
    BY DEF Reader, Writer, Forced, InCtl
  <2> HIDE DEF fileReaders, fileWriters, ctlForced
  <2>3. Cardinality(fileReaders \cup ctlForced) <= 1
    <3>1. \A p, q \in fileReaders \cup ctlForced : p = q
      BY <2>1, <2>2 DEF OneEach
    <3> QED
      BY <3>1, OneAtMost
  <2>4. Cardinality(fileReaders) <= 1
    <3>1. \A p, q \in fileReaders : p = q
      BY <2>1, <2>2 DEF OneEach
    <3> QED
      BY <3>1, OneAtMost
  <2>5. Cardinality(fileWriters) <= 1
    <3>1. \A p, q \in fileWriters : p = q
      BY <2>1, <2>2 DEF OneEach
    <3> QED
      BY <3>1, OneAtMost
  <2>6. /\ afd.in # Nofd <=> fileReaders \cup ctlForced # {}
        /\ afd.out # Nofd <=> fileWriters \cup ctlForced # {}
    BY <2>1, <2>2 DEF FdsMatch
  <2>7. fds = {0, afd.in, afd.out} \ {Nofd}
    BY <2>1 DEF FdsMatch
  <2> QED
    BY <2>3, <2>4, <2>5, <2>6, <2>7 DEF DescriptorsOwned, fileReaders, fileWriters, ctlForced
<1>2. SettingsKept
  BY <1>t DEF SettingsKept, CtlAlone
<1> QED
  BY <1>1, <1>2, <1>t DEF AudioShared

\* The audio device of lab 67 keeps its promise whatever processes open, write
\* and set it: until one of the mistakes named above is made, the descriptors
\* are those of the open files; settings made one after the other are kept; and
\* a write counts what it has sent.
THEOREM AudioIsShared == AudioSpec => []AudioShared
BY AudioStarts, AudioStep, AudioPromise, PTL DEF AudioSpec

=============================================================================
