------------------------------ MODULE Handheld ------------------------------
(***************************************************************************)
(* Lab 67: emu on a handheld.  devapm.c blanks the screen for processes    *)
(* that write /dev/apm; tsinput.c and tsinput_t3.c turn the events of the  *)
(* touch screen into mousetrack calls, and those of the buttons into keys, *)
(* pointer buttons, or calls of devapm.c.  The rest of devapm.c, which     *)
(* shares no state with this, is module Apm.                               *)
(*                                                                         *)
(* A packet of the touch screen is what the tests of t3stylus on the index *)
(* of its EV_SYN are written for: both axes, the pressure, and for a press *)
(* or a release the key.  The pen is at the same number on both axes; a    *)
(* variable that no event of the read has set holds garbage.               *)
(***************************************************************************)
EXTENDS Integers, Sequences, FiniteSets

CONSTANTS ApmProc,               \* processes that use /dev/apm
          Buttons,               \* the device of the hardware buttons
          Spot,                  \* positions of the pen
          MaxPackets             \* bound: packets the pen sends

\* At 0 the pen is lifted.
ASSUME HandheldAssumption == Spot \subseteq Nat \ {0}

VARIABLES currvesastt, lit,      \* the state devapm.c believes in, the screen's
          apmjob,                \* caller: what it is doing; history: was it alone?
          crossed,               \* history: is the damage of calls that overlapped there?
          tsb, lastb,            \* the button the pen stands for
          events, pen, packets,  \* events unread; the pen; packets sent
          tracked, torn          \* history: last mousetrack; is it of a torn packet?

blankVars == <<currvesastt, lit, apmjob, crossed>>
penVars == <<tsb, lastb, events, pen, packets, tracked, torn>>
handheldVars == <<blankVars, penVars>>

Idling == [at |-> "user", want |-> "unset", alone |-> TRUE]
Blanking == {"started", "opened", "set"}
Garbage == -1
Lifted == [b |-> 0, x |-> 0, y |-> 0]

HandheldInit ==
    /\ currvesastt = "unset" /\ lit = "on" /\ crossed = FALSE
    /\ apmjob = [p \in ApmProc \cup {Buttons} |-> Idling]
    /\ tsb = 1 /\ lastb = 0
    /\ events = <<>> /\ pen = 0 /\ packets = 0
    /\ tracked = Lifted /\ torn = FALSE

-----------------------------------------------------------------------------
(***************************************************************************)
(* devapm.c                                                                *)
(***************************************************************************)
\* error() in keysProc: it has nobody to catch it.
Gone == [Idling EXCEPT !.at = "gone"]
Acts(p) == IF p = Buttons THEN [Idling EXCEPT !.at = "acts"] ELSE Idling

UnderWay == {q \in DOMAIN apmjob : apmjob[q].at \in Blanking}

\* Calls that want the same do not hurt each other.
Start(p, want) ==
    /\ apmjob' = [q \in DOMAIN apmjob |->
                     IF q = p THEN [at |-> "started", want |-> want, alone |-> UnderWay = {}]
                     ELSE [apmjob[q] EXCEPT !.alone = FALSE]]
    /\ crossed' = (crossed \/ \E q \in UnderWay : apmjob[q].want # want)
    /\ UNCHANGED <<currvesastt, lit>>

\* apmwrite of "blank".
BlankWrite(p) ==
    /\ p \in ApmProc /\ apmjob[p].at = "user"
    /\ Start(p, "off")
    /\ UNCHANGED penVars

\* mutant: the state is believed in even if the host refused it
Believed_Always(p, ok) == apmjob[p].want
Believed(p, ok) == IF ok THEN apmjob[p].want ELSE currvesastt

(***************************************************************************)
(* apm_blank: nothing to do, or no frame buffer; else the ioctl, under     *)
(* apmlock; then the state, with no lock.  A call the host refused ends in *)
(* error().                                                                *)
(***************************************************************************)
BlankCheck(p) ==
    /\ apmjob[p].at = "started"
    /\ \/ apmjob' = [apmjob EXCEPT ![p] = Acts(p)]
       \/ currvesastt # apmjob[p].want /\ apmjob' = [apmjob EXCEPT ![p].at = "opened"]
    /\ UNCHANGED <<currvesastt, lit, crossed, penVars>>

BlankIoctl(p, ok) ==
    /\ apmjob[p].at = "opened"
    /\ lit' = IF ok THEN apmjob[p].want ELSE lit
    /\ apmjob' = [apmjob EXCEPT ![p].at = IF ok THEN "set" ELSE "refused"]
    /\ UNCHANGED <<currvesastt, crossed, penVars>>

BlankDone(p) ==
    /\ apmjob[p].at \in {"set", "refused"}
    /\ LET ok == apmjob[p].at = "set"
       IN  /\ currvesastt' = Believed(p, ok)
           /\ apmjob' = [apmjob EXCEPT ![p] =
                            IF ~ok /\ p = Buttons THEN Gone ELSE Acts(p)]
           /\ crossed' = (crossed /\ ~(ok /\ apmjob[p].alone))
    /\ UNCHANGED <<lit, penVars>>

-----------------------------------------------------------------------------
(***************************************************************************)
(* keysProc and t3keys: any button pressed makes the pen the left button.  *)
(* A button released has the screen lit, and then it is a button of the    *)
(* pointer, a suspension, or a key for the console.  One that is none of   *)
(* them (No) does nothing.                                                 *)
(***************************************************************************)
ButtonPressed ==
    /\ apmjob[Buttons].at = "user"
    /\ tsb' = 1
    /\ UNCHANGED <<blankVars, lastb, events, pen, packets, tracked, torn>>

ButtonReleased ==
    /\ apmjob[Buttons].at = "user"
    /\ Start(Buttons, "on")
    /\ UNCHANGED penVars

\* What follows apm_blank: RShift, LCtrl and LShift, or a key; or PwrOff, which
\* suspends and may fail.
ButtonActs ==
    /\ apmjob[Buttons].at = "acts"
    /\ \/ apmjob' = [apmjob EXCEPT ![Buttons] = Idling] /\ tsb' \in {1, 2, 4, tsb}
       \/ apmjob' = [apmjob EXCEPT ![Buttons] = Gone] /\ UNCHANGED tsb
    /\ UNCHANGED <<currvesastt, lit, crossed, lastb, events, pen, packets, tracked, torn>>

-----------------------------------------------------------------------------
(***************************************************************************)
(* The pen, tsProc and t3stylus.                                           *)
(***************************************************************************)
Packet(i, p, key) == <<[on |-> "x", v |-> i], [on |-> "y", v |-> i], [on |-> "p", v |-> p]>>
                     \o key \o <<[on |-> "syn", v |-> 0]>>
Key(v) == <<[on |-> "key", v |-> v]>>

Sends(packet) == events' = events \o packet /\ packets' = packets + 1

PenMoves(i) ==
    /\ packets < MaxPackets
    /\ pen' = i
    /\ Sends(IF pen = 0 THEN Packet(i, 1, Key(1)) ELSE Packet(i, 1, <<>>))
    /\ UNCHANGED <<blankVars, tsb, lastb, tracked, torn>>

PenLifts ==
    /\ pen # 0 /\ pen' = 0
    /\ Sends(Packet(pen, 0, Key(0)))
    /\ UNCHANGED <<blankVars, tsb, lastb, tracked, torn>>

Nevents == 5
EventsRead == SubSeq(events, 1, IF Len(events) < Nevents THEN Len(events) ELSE Nevents)

\* The first EV_SYN of a read ends the handling of it.
Syn(ev) == CHOOSE i \in DOMAIN ev : ev[i].on = "syn" /\ \A j \in 1 .. i - 1 : ev[j].on # "syn"
ValueOf(ev, on) ==
    LET at == {i \in 1 .. Syn(ev) : ev[i].on = on}
    IN  IF at = {} THEN Garbage ELSE ev[CHOOSE i \in at : TRUE].v

\* mutant: a release is taken for a motion
Track_NoLift(ev, b) ==
    IF Syn(ev) >= 4 THEN [b |-> b, x |-> ValueOf(ev, "x"), y |-> ValueOf(ev, "y")] ELSE tracked

\* A motion or a release, by the events before EV_SYN; a press is neither.
Motion(ev) == Syn(ev) = 4 /\ ValueOf(ev, "p") = 1
Release(ev) == Syn(ev) > 4 /\ ValueOf(ev, "p") = 0 /\ ValueOf(ev, "key") # 1
Track(ev, b) ==
    IF Motion(ev) THEN [b |-> b, x |-> ValueOf(ev, "x"), y |-> ValueOf(ev, "y")]
    ELSE IF Release(ev) THEN Lifted
    ELSE tracked

\* The read is one packet, from its beginning to its end, and tells of the pen.
OnePacket(ev) == ev[1].on = "x" /\ Syn(ev) = Len(ev) /\ (Motion(ev) \/ Release(ev))

\* A press soon after the last one, with the same button, is a double click;
\* what of the read follows its EV_SYN is lost.
Stylus(soon) ==
    /\ events # <<>>
    /\ LET ev == EventsRead
           pressed == ValueOf(ev, "key") = 1
       IN  /\ events' = SubSeq(events, Len(ev) + 1, Len(events))
           /\ lastb' = IF pressed THEN tsb ELSE lastb
           /\ tracked' = Track(ev, IF pressed /\ soon /\ tsb = lastb THEN tsb + 256 ELSE tsb)
           /\ torn' = IF OnePacket(ev) THEN FALSE ELSE torn \/ Syn(ev) # Len(ev)
    /\ UNCHANGED <<blankVars, tsb, pen, packets>>

HandheldNext ==
    \/ \E p \in ApmProc : BlankWrite(p)
    \/ \E p \in DOMAIN apmjob :
          BlankCheck(p) \/ BlankDone(p) \/ \E ok \in BOOLEAN : BlankIoctl(p, ok)
    \/ ButtonPressed \/ ButtonReleased \/ ButtonActs
    \/ \E i \in Spot : PenMoves(i)
    \/ PenLifts
    \/ \E soon \in BOOLEAN : Stylus(soon)

HandheldSpec == HandheldInit /\ [][HandheldNext]_handheldVars

-----------------------------------------------------------------------------
\* When no call of apm_blank is under way, the state devapm.c believes the
\* screen to be in is the screen's: calls that overlap do no harm if they want
\* the same.  Calls that want opposite things leave a wrong state, because
\* currvesastt is tested and set outside the lock, and it stays wrong until a
\* call that overlaps no other has set the screen.
BlankingKnown == crossed \/ currvesastt \in {"unset", lit} \/ UnderWay # {}

\* Once all is read a lifted pen is reported as lifted, and a position is that of
\* one packet, unless a read took a part of the next packet, and until a read is
\* just one packet again.  A part of a packet costs the report of the release, or
\* has a position made of garbage; only y is always one.
PenFollowed ==
    /\ ~torn => tracked.x = tracked.y /\ (events = <<>> /\ pen = 0 => tracked = Lifted)
    /\ tracked.y \in Spot \cup {0}

HandheldKnows == BlankingKnown /\ PenFollowed

=============================================================================
