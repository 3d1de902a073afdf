------------------------------ MODULE Pointer -------------------------------
(***************************************************************************)
(* Lab 55: the pointer, in win.c and devcons.c.  The window thread turns   *)
(* the messages of the mouse into events, and calls mouseproduce for each; *)
(* the process that has /dev/pointer open sleeps in mouseconsume.  Only    *)
(* changes of the buttons are queued; a reader that finds no change gets   *)
(* the current position, once for every event put.                         *)
(*                                                                         *)
(* An event is its number and the buttons: the number stands for the       *)
(* position and the time, so that no two events are the same.  Sleep and   *)
(* Wakeup are taken for a wait on the condition: a Rendez has room for one *)
(* sleeper, and the file for one process that uses it.                     *)
(***************************************************************************)
EXTENDS Integers, FiniteSets

CONSTANTS Nevent, PointerProc,
          MouseKey,              \* buttons and keys of the host that count
          MaxPut                 \* bound: events produced

Button == {"left", "middle", "right"}

ASSUME PointerAssumption ==
    /\ Nevent \in Nat \ {0} /\ MaxPut \in Nat /\ IsFiniteSet(PointerProc)
    /\ MouseKey \subseteq Button \cup {"control"}

VARIABLES mouse,                 \* the last event
          clicks, rd, wr, full,  \* the ring of button changes
          put, get,              \* events produced and consumed
          ptr,                   \* count of opens of /dev/pointer
          reader,                \* what each process does with it
          last,                  \* history: what a reader got last
          owed, overflowed       \* history: changes not yet read; was it full?

ring == <<clicks, rd, wr, full>>
pointerHist == <<last, owed, overflowed>>
pointerVars == <<mouse, ring, put, get, ptr, reader, pointerHist>>

Event == [n : 0 .. MaxPut, b : SUBSET (Button \cup {"double", "close"})]
NoEvent == [n |-> 0, b |-> {}]
Following(i) == IF i + 1 = Nevent THEN 0 ELSE i + 1

PointerInit ==
    /\ mouse = NoEvent
    /\ clicks = [i \in 0 .. Nevent - 1 |-> NoEvent]
    /\ rd = 0 /\ wr = 0 /\ full = FALSE
    /\ put = 0 /\ get = 0
    /\ ptr = 0 /\ reader = [p \in PointerProc |-> "user"]
    /\ last = NoEvent /\ owed = {} /\ overflowed = FALSE

(***************************************************************************)
(* mouseproduce holds ptrq.lk throughout: a change of the buttons is       *)
(* stored if there is room, and the reader is woken for every event.       *)
(***************************************************************************)
Mouseproduce(b) ==
    LET e == [n |-> put + 1, b |-> b]
        changed == mouse.b # b
    IN  /\ put < MaxPut
        /\ mouse' = e
        /\ \/ /\ changed /\ ~full
              /\ clicks' = [clicks EXCEPT ![wr] = e]
              /\ wr' = Following(wr)
              /\ full' = (wr' = rd)
           \/ (~changed \/ full) /\ UNCHANGED <<clicks, wr, full>>
        /\ put' = put + 1
        /\ owed' = IF changed THEN owed \cup {e.n} ELSE owed
        /\ overflowed' = (overflowed \/ full')
        /\ UNCHANGED <<rd, get, ptr, reader, last>>

\* WindowProc: the buttons of an event are those that are down, the right one
\* with the control key for the middle one, and the one that was clicked twice.
\* A double click is seen as such in one event only: the next one is a change.
Pressed(twice, down) ==
    (IF twice = "none" THEN {} ELSE {"double", twice})
    \cup (down \cap {"left", "middle"})
    \cup (IF "right" \notin down THEN {} ELSE IF "control" \in down THEN {"middle"} ELSE {"right"})

\* When the window is closed there is an event of its own, and no other after.
MouseMessage(twice, down) ==
    mouse.b # {"close"} /\ Mouseproduce(Pressed(twice, down))
CloseMessage ==
    mouse.b # {"close"} /\ Mouseproduce({"close"})

-----------------------------------------------------------------------------
\* consopen of Qpointer counts the open, and if it is not the first takes it
\* back; another open that comes between is refused too.
PointerOpen(p) ==
    /\ reader[p] = "user"
    /\ ptr' = ptr + 1
    /\ reader' = [reader EXCEPT ![p] = IF ptr' = 1 THEN "open" ELSE "refused"]
    /\ UNCHANGED <<mouse, ring, put, get, pointerHist>>

\* The open is taken back, or the file closed.
PointerClose(p) ==
    /\ reader[p] \in {"open", "refused"}
    /\ ptr' = ptr - 1
    /\ reader' = [reader EXCEPT ![p] = "user"]
    /\ UNCHANGED <<mouse, ring, put, get, pointerHist>>

Ptrqnotempty == full \/ put # get

\* mutant: a reader takes all events put for seen, as devwmsz.c does
Consumed_All == put
Consumed == get + 1

\* mouseconsume: asleep, woken, and then under the lock.
PointerRead(p) ==
    /\ reader[p] = "open"
    /\ reader' = [reader EXCEPT ![p] = "asleep"]
    /\ UNCHANGED <<mouse, ring, put, get, ptr, pointerHist>>

PointerWake(p) ==
    /\ reader[p] = "asleep" /\ Ptrqnotempty
    /\ reader' = [reader EXCEPT ![p] = "awake"]
    /\ UNCHANGED <<mouse, ring, put, get, ptr, pointerHist>>

Mouseconsume(p) ==
    /\ reader[p] = "awake"
    /\ full' = FALSE
    /\ get' = Consumed
    /\ \/ rd # wr /\ last' = clicks[rd] /\ rd' = Following(rd)
       \/ rd = wr /\ last' = mouse /\ UNCHANGED rd
    /\ owed' = owed \ {last'.n}
    /\ reader' = [reader EXCEPT ![p] = "open"]
    /\ UNCHANGED <<mouse, clicks, wr, put, ptr, overflowed>>

PointerNext ==
    \/ \E twice \in {"none"} \cup (MouseKey \cap Button), down \in SUBSET MouseKey :
          MouseMessage(twice, down)
    \/ CloseMessage
    \/ \E p \in PointerProc :
          PointerOpen(p) \/ PointerClose(p) \/ PointerRead(p) \/ PointerWake(p) \/ Mouseconsume(p)

PointerSpec == PointerInit /\ [][PointerNext]_pointerVars

-----------------------------------------------------------------------------
\* The count is right, and one process at most has the file open.
OnePointer ==
    /\ ptr = Cardinality({p \in PointerProc : reader[p] # "user"})
    /\ Cardinality({p \in PointerProc : reader[p] \notin {"user", "refused"}}) <= 1

\* A reader sleeps only when the last event has been read: put and get agree
\* again only after the ring was read out, although an event that is no change
\* of the buttons is counted and not stored, and a full ring is forgotten.
SleeperIsCurrent ==
    \A p \in PointerProc : reader[p] = "asleep" /\ ~Ptrqnotempty => last = mouse

\* Until the ring was full once, readers see every press and release, in order:
\* none is still owed when a later event has been returned.
PressesSeen == overflowed \/ \A n \in owed : n > last.n

\* What /dev/pointer promises its reader.
MouseDelivered == OnePointer /\ SleeperIsCurrent /\ PressesSeen

=============================================================================
