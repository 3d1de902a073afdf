------------------------------- MODULE WmSize -------------------------------
(***************************************************************************)
(* Lab 59: devwmsz.c, the size of the host's window as the file /dev/      *)
(* wmsize.  It is the mouse driver with other names, but without its lock: *)
(* wmtrack, called by the window thread, and wmsizeconsume, called by the  *)
(* one reader with mouse.q held, run at the same time.  So their steps are *)
(* here one access each to a variable or field the other uses.  Only a     *)
(* click goes into its slot, or out of it, in one step with the index that *)
(* hands the slot over, and an index is back in the ring as it is stored.  *)
(*                                                                         *)
(* The time of an event is left out, and so is isdelta: as only wmtrack    *)
(* writes mouse.v, a difference is one more way to name the new size.      *)
(***************************************************************************)
EXTENDS Integers, FiniteSets

CONSTANTS WmEvent,               \* length of the ring (Nevent)
          WmLength,              \* widths and heights
          WmChan,                \* channels of the device
          MaxTrack, MaxWmRef     \* bounds: sizes tracked, references

ASSUME WmSizeAssumption ==
    WmEvent \in Nat \ {0} /\ 0 \in WmLength /\ MaxTrack \in Nat /\ MaxWmRef \in Nat

VARIABLES
    v,                           \* mouse.v: x, y and b
    wmring,                      \* ptrq: rd, wr, clicks, full, put, get
    tracker,                     \* wmtrack: where it is, what it was called with
    wmref, wmq,                  \* mouse.ref and who holds mouse.q
    chan,                        \* channel: none, walked or open
    wmread,                      \* wmsizeread: where it is, what it copied
    wmlast, wmstored             \* history: size read last; was a click stored?

wmdev == <<wmref, wmq, chan>>
wmSizeVars == <<v, wmring, tracker, wmdev, wmread, wmlast, wmstored>>

Wmsize == [x : WmLength, y : WmLength, b : {0, 1}]
Unsized == [x |-> 0, y |-> 0, b |-> 0]
After(i) == IF i + 1 >= WmEvent THEN 0 ELSE i + 1

WmSizeInit ==
    /\ v = Unsized
    /\ wmring = [rd |-> 0, wr |-> 0, full |-> FALSE, put |-> 0, get |-> 0,
                 clicks |-> [i \in 0 .. WmEvent - 1 |-> Unsized]]
    /\ tracker = [at |-> "idle", e |-> Unsized, lastb |-> 0]
    /\ wmref = 0 /\ wmq = {}
    /\ chan = [c \in WmChan |-> "none"]
    /\ wmread = [at |-> "idle", e |-> Unsized]
    /\ wmlast = Unsized /\ wmstored = FALSE

-----------------------------------------------------------------------------
\* wmtrack returns at once when nothing changed.
Wmtrack(e) ==
    /\ tracker.at = "idle" /\ wmring.put < MaxTrack
    /\ e # v
    /\ tracker' = [at |-> "x", e |-> e, lastb |-> v.b]
    /\ UNCHANGED <<v, wmring, wmdev, wmread, wmlast, wmstored>>

TrackX ==
    /\ tracker.at = "x"
    /\ v' = [v EXCEPT !.x = tracker.e.x]
    /\ tracker' = [tracker EXCEPT !.at = "y"]
    /\ UNCHANGED <<wmring, wmdev, wmread, wmlast, wmstored>>

TrackY ==
    /\ tracker.at = "y"
    /\ v' = [v EXCEPT !.y = tracker.e.y]
    /\ tracker' = [tracker EXCEPT !.at = "b"]
    /\ UNCHANGED <<wmring, wmdev, wmread, wmlast, wmstored>>

TrackB ==
    /\ tracker.at = "b"
    /\ v' = [v EXCEPT !.b = tracker.e.b]
    /\ tracker' = [tracker EXCEPT !.at = "click"]
    /\ UNCHANGED <<wmring, wmdev, wmread, wmlast, wmstored>>

\* Only a change of the buttons is stored, if full is not set.
TrackClick ==
    /\ tracker.at = "click"
    /\ LET stores == ~wmring.full /\ tracker.lastb # v.b IN
       /\ wmring' = IF stores THEN [wmring EXCEPT !.clicks[wmring.wr] = v,
                                                  !.wr = After(wmring.wr)]
                              ELSE wmring
       /\ wmstored' = (wmstored \/ stores)
       /\ tracker' = [tracker EXCEPT !.at = IF stores THEN "full" ELSE "put"]
    /\ UNCHANGED <<v, wmdev, wmread, wmlast>>

TrackFull ==
    /\ tracker.at = "full"
    /\ wmring' = [wmring EXCEPT !.full = (wmring.wr = wmring.rd) \/ @]
    /\ tracker' = [tracker EXCEPT !.at = "put"]
    /\ UNCHANGED <<v, wmdev, wmread, wmlast, wmstored>>

TrackPut ==
    /\ tracker.at = "put"
    /\ wmring' = [wmring EXCEPT !.put = @ + 1]
    /\ tracker' = [tracker EXCEPT !.at = "idle", !.lastb = 0]
    /\ UNCHANGED <<v, wmdev, wmread, wmlast, wmstored>>

-----------------------------------------------------------------------------
\* mutant: the reader waits for a click
WmQnotempty_Clicks == wmring.full \/ wmring.rd # wmring.wr
WmQnotempty == wmring.full \/ wmring.put # wmring.get

\* wmsizeread: mouse.q is held from before the sleep until after the copy.
WmRead(c) ==
    /\ chan[c] = "open" /\ wmq = {}
    /\ wmq' = {c}
    /\ wmread' = [at |-> "asleep", e |-> Unsized]
    /\ UNCHANGED <<v, wmring, tracker, wmref, chan, wmlast, wmstored>>

\* wmsizeconsume clears full, lets get catch up with put, and only then reads.
ConsumeFull ==
    /\ wmread.at = "asleep" /\ WmQnotempty
    /\ wmring' = [wmring EXCEPT !.full = FALSE]
    /\ wmread' = [wmread EXCEPT !.at = "get"]
    /\ UNCHANGED <<v, tracker, wmdev, wmlast, wmstored>>

ConsumeGet ==
    /\ wmread.at = "get"
    /\ wmring' = [wmring EXCEPT !.get = wmring.put]
    /\ wmread' = [wmread EXCEPT !.at = "look"]
    /\ UNCHANGED <<v, tracker, wmdev, wmlast, wmstored>>

WmReturn(e) ==
    /\ wmread' = [at |-> "idle", e |-> Unsized] /\ wmlast' = e
    /\ wmq' = {} /\ UNCHANGED <<v, tracker, wmref, chan, wmstored>>

ConsumeLook ==
    /\ wmread.at = "look"
    /\ wmread' = [wmread EXCEPT !.at = IF wmring.rd # wmring.wr THEN "click" ELSE "x"]
    /\ UNCHANGED <<v, wmring, tracker, wmdev, wmlast, wmstored>>

ConsumeClick ==
    /\ wmread.at = "click"
    /\ wmring' = [wmring EXCEPT !.rd = After(wmring.rd)]
    /\ WmReturn(wmring.clicks[wmring.rd])

\* mouse.v is copied a field at a time.
ConsumeX ==
    /\ wmread.at = "x"
    /\ wmread' = [at |-> "y", e |-> [Unsized EXCEPT !.x = v.x]]
    /\ UNCHANGED <<v, wmring, tracker, wmdev, wmlast, wmstored>>

ConsumeY ==
    /\ wmread.at = "y"
    /\ wmread' = [at |-> "b", e |-> [wmread.e EXCEPT !.y = v.y]]
    /\ UNCHANGED <<v, wmring, tracker, wmdev, wmlast, wmstored>>

ConsumeB ==
    /\ wmread.at = "b"
    /\ WmReturn([wmread.e EXCEPT !.b = v.b])
    /\ UNCHANGED wmring

-----------------------------------------------------------------------------
\* A channel is walked to the file, and may be cloned there: mouse.ref counts
\* the clone, which no close will take back.
WmWalk(c) ==
    /\ chan[c] = "none"
    /\ chan' = [chan EXCEPT ![c] = "walked"]
    /\ \/ UNCHANGED wmref
       \/ /\ \E d \in WmChan \ {c} : chan[d] = "walked"
          /\ wmref < MaxWmRef /\ wmref' = wmref + 1
    /\ UNCHANGED <<v, wmring, tracker, wmq, wmread, wmlast, wmstored>>

\* wmsizeopen refuses a busy device in two ways.  Under the lock it has counted
\* the channel before, and does not take that back: the device is lost.
WmOpen(c) ==
    /\ chan[c] = "walked"
    /\ \/ wmq # {} /\ UNCHANGED <<wmref, chan>>
       \/ /\ wmq = {} /\ wmref < MaxWmRef
          /\ wmref' = wmref + 1
          /\ chan' = IF wmref' = 1 THEN [chan EXCEPT ![c] = "open"] ELSE chan
    /\ UNCHANGED <<v, wmring, tracker, wmq, wmread, wmlast, wmstored>>

\* mutant: every close gives its reference back, opened or not
WmClose_Uncounted(c) ==
    /\ chan[c] # "none" /\ wmq = {} /\ wmref > 0
    /\ wmref' = wmref - 1
    /\ chan' = [chan EXCEPT ![c] = "none"]
    /\ UNCHANGED <<v, wmring, tracker, wmq, wmread, wmlast, wmstored>>

WmClose(c) ==
    /\ chan[c] # "none"
    /\ \/ chan[c] = "open" /\ wmq = {} /\ wmref' = wmref - 1
       \/ chan[c] = "walked" /\ UNCHANGED wmref
    /\ chan' = [chan EXCEPT ![c] = "none"]
    /\ UNCHANGED <<v, wmring, tracker, wmq, wmread, wmlast, wmstored>>

WmSizeNext ==
    \/ \E e \in Wmsize : Wmtrack(e)
    \/ TrackX \/ TrackY \/ TrackB \/ TrackClick \/ TrackFull \/ TrackPut
    \/ ConsumeFull \/ ConsumeGet \/ ConsumeLook \/ ConsumeClick
    \/ ConsumeX \/ ConsumeY \/ ConsumeB
    \/ \E c \in WmChan : WmRead(c) \/ WmWalk(c) \/ WmOpen(c) \/ WmClose(c)

WmSizeSpec == WmSizeInit /\ [][WmSizeNext]_wmSizeVars

-----------------------------------------------------------------------------
\* Without a lock a reader may copy half of a new size, but it cannot go to
\* sleep on it: put advances after v was set, and get before v is read.  The
\* promise ends with the first click stored: get skips what the ring holds.
SizeSeen ==
    /\ tracker.at = "idle" /\ wmread.at = "asleep" /\ ~WmQnotempty /\ ~wmstored
    => wmlast = v

\* References leak, but no channel is open uncounted, so that two are never
\* open together and the one read that sleeps under mouse.q is the only one.
OneSizeReader ==
    /\ \A c \in WmChan : chan[c] = "open" => wmref > 0
    /\ \A c, d \in WmChan : chan[c] = "open" /\ chan[d] = "open" => c = d
    /\ wmread.at # "idle" => \E c \in wmq : chan[c] = "open"

\* What devwmsz.c keeps of its promise in spite of the missing lock.
WmSizeTracked == SizeSeen /\ OneSizeReader

=============================================================================
