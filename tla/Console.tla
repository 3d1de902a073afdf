------------------------------- MODULE Console ------------------------------
(***************************************************************************)
(* Lab 55: the console of devcons.c.  The process kbdslave puts what is    *)
(* typed into kbdq; a reader of /dev/cons edits it into a line while it    *)
(* holds kbd.q, and passes complete lines on through lineq.  A process     *)
(* that writes rawon to /dev/consctl turns the editing off, at any time    *)
(* and without that lock.                                                  *)
(*                                                                         *)
(* A key is its kind and its number, so that no two keys are the same: the *)
(* number tells a key lost, repeated or out of order.  The operations on   *)
(* queues are those of the emulator's library: qproduce drops what does    *)
(* not fit, qread takes what there is.                                     *)
(***************************************************************************)
EXTENDS Naturals, Sequences

CONSTANTS ConsProc,              \* processes that use the console
          LineSize,              \* room in kbd.line
          KbdqSize,              \* room in kbdq
          ReadSize,              \* bytes asked for by a read
          MaxTyped               \* bound: keys typed

ASSUME ConsoleAssumption == {LineSize, KbdqSize, ReadSize} \subseteq Nat \ {0}

VARIABLES kbdq, lineq,
          eof,                   \* is the end of the file all there is in lineq?
          line,                  \* kbd.line up to kbd.x
          raw, ctl,
          consq,                 \* who holds kbd.q
          proc,                  \* process: what it does, and has open
          typed,                 \* number of keys typed
          used, erased, got      \* history: keys taken from kbdq, keys edited
                                 \* away, and what reads returned

keys == <<kbdq, typed>>
editor == <<lineq, eof, line, consq, used, erased, got>>
consoleVars == <<keys, editor, raw, ctl, proc>>

Kind == {"char", "erase", "kill", "newline", "eot"}
RangeOf(s) == {s[i] : i \in DOMAIN s}

ConsoleInit ==
    /\ kbdq = <<>> /\ typed = 0
    /\ lineq = <<>> /\ eof = FALSE /\ line = <<>> /\ consq = {}
    /\ raw = FALSE /\ ctl = 0
    /\ proc = [p \in ConsProc |-> [at |-> "user", ctl |-> FALSE]]
    /\ used = {} /\ erased = {} /\ got = <<>>

Goes(p, at) == proc' = [proc EXCEPT ![p].at = at]

-----------------------------------------------------------------------------
\* kbdslave, started by the first attach: the echo is left out.
Kbdslave(k) ==
    /\ typed < MaxTyped
    /\ typed' = typed + 1
    /\ kbdq' = IF Len(kbdq) < KbdqSize THEN Append(kbdq, [n |-> typed', kind |-> k])
                                       ELSE kbdq
    /\ UNCHANGED <<editor, raw, ctl, proc>>

-----------------------------------------------------------------------------
\* consread of Qcons.
ConsRead(p) ==
    /\ proc[p].at = "user" /\ consq = {}
    /\ consq' = {p}
    /\ Goes(p, "editing")
    /\ UNCHANGED <<keys, lineq, eof, line, used, erased, got, raw, ctl>>

\* What remains of the line when it is passed on.
\* mutant: the line is passed on and kept
Rest_Kept(l) == l
Rest(l) == <<>>

\* The line with one more key: a character is added, erase takes back the last
\* one and kill all of them.  A line that ends or is full is passed on, the end
\* of file key alone left off.
Edit(k) ==
    LET added  == Append(line, k)
        ends   == k.kind \in {"newline", "eot"} \/ Len(added) = LineSize
        passed == IF k.kind = "eot" THEN line ELSE added
        kept   == SubSeq(line, 1, Len(line) - 1)
    IN  \/ /\ k.kind = "erase"
           /\ line' = IF line = <<>> THEN line ELSE kept
           /\ erased' = erased \cup (RangeOf(line) \ RangeOf(line')) /\ UNCHANGED lineq
        \/ /\ k.kind = "kill"
           /\ line' = <<>>
           /\ erased' = erased \cup RangeOf(line) /\ UNCHANGED lineq
        \/ /\ k.kind \notin {"erase", "kill"} /\ ~ends
           /\ line' = added
           /\ UNCHANGED <<lineq, erased>>
        \/ /\ k.kind \notin {"erase", "kill"} /\ ends
           /\ line' = Rest(added)
           /\ lineq' = lineq \o passed
           /\ UNCHANGED erased

\* qcanread: the end of the file, typed on an empty line, is a block of no bytes.
Qcanread == lineq # <<>> \/ eof

\* One round of the loop: a raw key overtakes the line under way.
ConsKey(p) ==
    /\ proc[p].at = "editing" /\ ~Qcanread /\ kbdq # <<>>
    /\ LET k == [Head(kbdq) EXCEPT !.kind = IF raw THEN "raw" ELSE @] IN
       /\ used' = used \cup (IF k.kind \in {"erase", "kill", "eot"} THEN {} ELSE {k})
       /\ IF raw THEN lineq' = <<k>> /\ UNCHANGED <<line, erased>> ELSE Edit(k)
       /\ eof' = (k.kind = "eot" /\ line = <<>>)
    /\ kbdq' = Tail(kbdq)
    /\ UNCHANGED <<typed, consq, got, raw, ctl, proc>>

\* qread: at the end of the file it returns nothing.
ConsReturn(p) ==
    /\ proc[p].at = "editing" /\ Qcanread
    /\ LET n == IF ReadSize < Len(lineq) THEN ReadSize ELSE Len(lineq) IN
       /\ got' = got \o SubSeq(lineq, 1, n)
       /\ lineq' = SubSeq(lineq, n + 1, Len(lineq))
    /\ eof' = FALSE
    /\ consq' = {}
    /\ Goes(p, "user")
    /\ UNCHANGED <<keys, line, used, erased, raw, ctl>>

\* The reader is interrupted in qread: the line under way is kept.
ConsInterrupted(p) ==
    /\ proc[p].at = "editing" /\ ~Qcanread /\ kbdq = <<>>
    /\ consq' = {}
    /\ Goes(p, "user")
    /\ UNCHANGED <<keys, lineq, eof, line, used, erased, got, raw, ctl>>

-----------------------------------------------------------------------------
ConsctlOpen(p) ==
    /\ proc[p] = [at |-> "user", ctl |-> FALSE]
    /\ ctl' = ctl + 1
    /\ proc' = [proc EXCEPT ![p].ctl = TRUE]
    /\ UNCHANGED <<keys, editor, raw>>

ConsctlWrite(p) ==
    /\ proc[p] = [at |-> "user", ctl |-> TRUE]
    /\ raw' \in BOOLEAN
    /\ UNCHANGED <<keys, editor, ctl, proc>>

\* consclose: the last close ends the raw mode, in a second step.
ConsctlClose(p) ==
    /\ proc[p] = [at |-> "user", ctl |-> TRUE]
    /\ ctl' = ctl - 1
    /\ proc' = [proc EXCEPT ![p] = [at |-> IF ctl' = 0 THEN "closing" ELSE "user",
                                    ctl |-> FALSE]]
    /\ UNCHANGED <<keys, editor, raw>>

ConsctlCooked(p) ==
    /\ proc[p].at = "closing"
    /\ raw' = FALSE
    /\ Goes(p, "user")
    /\ UNCHANGED <<keys, editor, ctl>>

ConsoleNext ==
    \/ \E k \in Kind : Kbdslave(k)
    \/ \E p \in ConsProc :
          \/ ConsRead(p) \/ ConsKey(p) \/ ConsReturn(p) \/ ConsInterrupted(p)
          \/ ConsctlOpen(p) \/ ConsctlWrite(p) \/ ConsctlClose(p) \/ ConsctlCooked(p)

ConsoleSpec == ConsoleInit /\ [][ConsoleNext]_consoleVars

-----------------------------------------------------------------------------
\* Whichever processes read, and whenever raw is turned on and off: every key
\* taken is in the line, passed on or edited away, and in one of these only.
KeysKept ==
    LET passed == RangeOf(got) \cup RangeOf(lineq) IN
    /\ used = RangeOf(line) \cup passed \cup erased
    /\ RangeOf(line) \cap passed = {} /\ erased \cap (RangeOf(line) \cup passed) = {}

\* Edited keys are passed on in the order typed, and so are raw ones; a raw key
\* may overtake edited ones.
KeysInOrder ==
    LET out == got \o lineq IN
    \A i, j \in DOMAIN out :
        i < j /\ (out[i].kind = "raw" <=> out[j].kind = "raw") => out[i].n < out[j].n

\* Nothing is passed on of a line that may still be edited: what was passed on
\* is older than the line under way, if raw mode did not come between, and the
\* end of the file is passed on only when no key waits.
LinesWhole ==
    /\ eof => line = <<>> /\ lineq = <<>>
    /\ \A k \in RangeOf(got) \cup RangeOf(lineq), l \in RangeOf(line) :
           k.kind = "raw" \/ k.n < l.n

\* Raw mode does not outlive the processes that hold consctl open, and kbd.q
\* is held by a process that is reading.
NothingLeftBehind ==
    /\ raw => ctl > 0 \/ \E p \in ConsProc : proc[p].at = "closing"
    /\ consq = {p \in ConsProc : proc[p].at = "editing"}

\* What /dev/cons and /dev/consctl promise.
LinesDelivered == KeysKept /\ KeysInOrder /\ LinesWhole /\ NothingLeftBehind

=============================================================================
