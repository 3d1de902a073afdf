-------------------------------- MODULE Keys --------------------------------
(***************************************************************************)
(* Lab 55: keys of the emulator's window.  The window thread (WindowProc   *)
(* of win.c) handles the messages of a key, and turns them into characters *)
(* for /dev/keyboard or, while a process has /dev/scancode open, into scan *)
(* codes.  Characters pass through gkbdputc, which composes sequences      *)
(* after the key Latin, and which processes that write /dev/keyboard call  *)
(* at the same time.  Opening and closing /dev/scancode is devcons.c.      *)
(*                                                                         *)
(* A key is its number; the two queues are histories of what was put into  *)
(* them, since what a reader takes changes nothing here.                   *)
(***************************************************************************)
EXTENDS Naturals, Sequences

CONSTANTS KeyProc,               \* processes that use these files
          MaxKeys                \* bound: keys pressed or written

ASSUME KeysAssumption == MaxKeys \in Nat

VARIABLES
    gkscanq,                     \* is there a queue for scan codes?
    gq, kbdq_lock,               \* who holds kbd.gq and kbd.q
    user,                        \* process: what it does
    scanner,                     \* processes that have /dev/scancode open
    msgs,                        \* messages of the window
    scanning,                    \* key whose code WindowProc is about to put
    putting,                     \* caller of gkbdputc: where, with which key
    collecting, kc,              \* the sequence being composed
    gkbd, gscan,                 \* keys put into gkbdq and into gkscanq
    pressed,                     \* number of keys
    handed, switched,            \* history: keys given to gkbdputc; keys whose
                                 \* messages saw /dev/scancode come or go
    overlapped,                  \* history: calls of gkbdputc overlapped, and not
                                 \* all of them have returned
    refused, robbed,             \* history: an open was refused; it released
                                 \* kbd.q under a reader that still edits
    fault                        \* history: a queue was used when gone

locks == <<gq, kbdq_lock, user, scanner, refused, robbed>>
window == <<msgs, scanning, pressed>>
compose == <<putting, collecting, kc, gkbd, handed, overlapped>>
keysVars == <<gkscanq, locks, window, compose, gscan, switched, fault>>

Caller == KeyProc \cup {"window"}
Latin == 0
Idle == [at |-> "idle", k |-> Latin]
Keycode == 1 .. MaxKeys

KeysInit ==
    /\ gkscanq = FALSE
    /\ gq = {} /\ kbdq_lock = {} /\ user = [p \in KeyProc |-> "user"]
    /\ scanner = {}
    /\ msgs = <<>> /\ scanning = Latin /\ pressed = 0
    /\ putting = [c \in Caller |-> Idle]
    /\ collecting = FALSE /\ kc = <<>>
    /\ gkbd = <<>> /\ gscan = {} /\ handed = <<>>
    /\ switched = {} /\ overlapped = FALSE /\ refused = FALSE /\ robbed = FALSE /\ fault = FALSE

-----------------------------------------------------------------------------
(***************************************************************************)
(* gkbdputc, in two steps when a sequence is being composed: the key is    *)
(* added to kc, then latin1 looks at it.  latin1 is the library's: here a  *)
(* sequence is two keys long, and keys that follow each other compose.     *)
(***************************************************************************)
Latin1(s) == IF Len(s) < 2 THEN "more" ELSE IF Len(s) = 2 /\ s[2] = s[1] + 1 THEN "found" ELSE "none"

Calls(c, k) ==
    /\ putting[c] = Idle
    /\ putting' = [putting EXCEPT ![c] = [at |-> "called", k |-> k]]
    /\ overlapped' = (overlapped \/ \E d \in Caller : putting[d].at # "idle")

Others(c) == \E d \in Caller \ {c} : putting[d].at # "idle"

\* A call returns, with s handed over until now.  When it is the last of calls
\* that overlapped, what they made of their keys is taken for what they were.
Returns(c, s) ==
    /\ putting' = [putting EXCEPT ![c] = Idle]
    /\ overlapped' = (overlapped /\ Others(c))
    /\ handed' = IF overlapped /\ ~Others(c) THEN gkbd' \o (IF collecting' THEN kc' ELSE <<>>)
                                             ELSE s

\* mutant: a new sequence begins with what is left of the last one
Restarted_Not(s) == s
Restarted(s) == <<>>

GkbdputcLatin(c) ==
    /\ putting[c] = [at |-> "called", k |-> Latin]
    /\ collecting' = TRUE /\ kc' = Restarted(kc) /\ UNCHANGED gkbd
    /\ Returns(c, IF collecting THEN SubSeq(handed, 1, Len(handed) - Len(kc)) ELSE handed)
    /\ UNCHANGED <<gkscanq, locks, window, gscan, switched, fault>>

GkbdputcKey(c) ==
    /\ putting[c].at = "called" /\ putting[c].k # Latin
    /\ \/ /\ collecting
          /\ kc' = Append(kc, putting[c].k)
          /\ putting' = [putting EXCEPT ![c].at = "latin1"]
          /\ handed' = Append(handed, putting[c].k)
          /\ UNCHANGED <<collecting, gkbd, overlapped>>
       \/ /\ ~collecting
          /\ gkbd' = Append(gkbd, putting[c].k) /\ UNCHANGED <<collecting, kc>>
          /\ Returns(c, Append(handed, putting[c].k))
    /\ UNCHANGED <<gkscanq, locks, window, gscan, switched, fault>>

GkbdputcCompose(c) ==
    /\ putting[c].at = "latin1"
    /\ \/ Latin1(kc) = "more" /\ UNCHANGED <<collecting, gkbd>>
       \/ Latin1(kc) # "more" /\ collecting' = FALSE /\ gkbd' = gkbd \o kc
    /\ UNCHANGED kc
    /\ Returns(c, handed)
    /\ UNCHANGED <<gkscanq, locks, window, gscan, switched, fault>>

-----------------------------------------------------------------------------
(***************************************************************************)
(* The window.  A character key is a message when it goes down and, once   *)
(* that is translated, a second one with the character; a special key is   *)
(* one, and so is the Alt key, when it goes up.  A key held down repeats   *)
(* its messages, with a mark (bit 30) that the key was down before.        *)
(***************************************************************************)
Press(kind) ==
    /\ pressed < MaxKeys /\ msgs = <<>>
    /\ pressed' = pressed + 1
    /\ msgs' = CASE kind = "char" ->
                       <<[m |-> "keydown", n |-> pressed', before |-> FALSE],
                         [m |-> "char", n |-> pressed', before |-> FALSE]>>
                 [] kind = "special" -> <<[m |-> "special", n |-> pressed', before |-> FALSE]>>
                 [] kind = "repeat" ->  <<[m |-> "keydown", n |-> pressed', before |-> TRUE],
                                          [m |-> "char", n |-> pressed', before |-> TRUE]>>
                 [] kind = "alt" ->     <<[m |-> "syskeydown", n |-> pressed', before |-> FALSE],
                                          [m |-> "syskeyup", n |-> Latin, before |-> TRUE]>>
    /\ UNCHANGED <<gkscanq, locks, scanning, compose, gscan, switched, fault>>

\* WindowProc looks whether there is a queue for scan codes.  If there is, all
\* messages but characters go to it, those with the mark left out by scancode.
\* mutant: characters go to the keyboard in either case
Characters_Always == {"special", "char", "syskeyup"}
Characters == IF gkscanq THEN {} ELSE {"special", "char", "syskeyup"}

WinMessage ==
    /\ msgs # <<>> /\ scanning = Latin /\ putting["window"] = Idle
    /\ LET m == Head(msgs)
           scans == gkscanq /\ m.m # "char" /\ ~m.before
       IN  /\ scanning' = IF scans THEN m.n ELSE Latin
           /\ \/ m.m \in Characters /\ Calls("window", m.n)
              \/ m.m \notin Characters /\ UNCHANGED <<putting, overlapped>>
    /\ msgs' = Tail(msgs)
    /\ UNCHANGED <<gkscanq, locks, pressed, collecting, kc, gkbd, handed, gscan,
                   switched, fault>>

\* scancode uses the queue without a lock: it may be gone by now.
Scancode ==
    /\ scanning # Latin
    /\ \/ gkscanq /\ gscan' = gscan \cup {scanning} /\ UNCHANGED fault
       \/ ~gkscanq /\ fault' = TRUE /\ UNCHANGED gscan
    /\ scanning' = Latin
    /\ UNCHANGED <<gkscanq, locks, msgs, pressed, compose, switched>>

-----------------------------------------------------------------------------
\* A process writes a key to /dev/keyboard.
KeyboardWrite(p) ==
    /\ user[p] = "user" /\ pressed < MaxKeys
    /\ Calls(p, pressed + 1)
    /\ pressed' = pressed + 1
    /\ UNCHANGED <<gkscanq, locks, msgs, scanning, collecting, kc, gkbd, handed, gscan,
                   switched, fault>>

Switch(q) ==
    /\ gkscanq' = q
    /\ switched' = switched \cup {msgs[i].n : i \in DOMAIN msgs} \cup {scanning}

\* consopen of Qscancode.  A second open is refused, but it releases kbd.q, the
\* lock of the console, and not kbd.gq, which it took.
ScancodeOpen(p) ==
    /\ user[p] = "user" /\ putting[p] = Idle /\ p \notin scanner /\ gq = {}
    /\ \/ /\ ~gkscanq
          /\ Switch(TRUE)
          /\ scanner' = scanner \cup {p}
          /\ UNCHANGED <<gq, kbdq_lock, refused, robbed>>
       \/ /\ gkscanq
          /\ gq' = {p} /\ kbdq_lock' = {}
          /\ refused' = TRUE /\ robbed' = (robbed \/ kbdq_lock # {})
          /\ UNCHANGED <<gkscanq, scanner, switched>>
    /\ UNCHANGED <<user, window, compose, gscan, fault>>

ScancodeClose(p) ==
    /\ user[p] = "user" /\ putting[p] = Idle /\ p \in scanner /\ gq = {}
    /\ Switch(FALSE)
    /\ scanner' = scanner \ {p}
    /\ UNCHANGED <<gq, kbdq_lock, user, refused, robbed, window, compose, gscan, fault>>

\* A reader of /dev/cons edits a line while it holds kbd.q (module Console), and
\* releases that lock when it is done, whoever has it by then.
Editors == {p \in KeyProc : user[p] = "edit"}
Edits(p) ==
    /\ \/ /\ user[p] = "user" /\ putting[p] = Idle /\ kbdq_lock = {}
          /\ kbdq_lock' = {p} /\ user' = [user EXCEPT ![p] = "edit"]
          /\ UNCHANGED robbed
       \/ /\ user[p] = "edit"
          /\ kbdq_lock' = {} /\ user' = [user EXCEPT ![p] = "user"]
          /\ robbed' = (robbed /\ Editors # {p})
    /\ UNCHANGED <<gkscanq, gq, scanner, refused, window, compose, gscan, switched, fault>>

KeysNext ==
    \/ \E kind \in {"char", "special", "repeat", "alt"} : Press(kind)
    \/ WinMessage \/ Scancode
    \/ \E c \in Caller : GkbdputcLatin(c) \/ GkbdputcKey(c) \/ GkbdputcCompose(c)
    \/ \E p \in KeyProc : KeyboardWrite(p) \/ ScancodeOpen(p) \/ ScancodeClose(p) \/ Edits(p)

KeysSpec == KeysInit /\ [][KeysNext]_keysVars

-----------------------------------------------------------------------------
\* Composing loses and repeats no key: while calls of gkbdputc do not overlap,
\* the keyboard has the keys handed over, in order, but for a sequence under way
\* and for sequences given up by a second Latin.  Calls that overlapped do no
\* damage to the keys that come after them.
ComposedOnce ==
    overlapped \/ handed = gkbd \o (IF collecting THEN kc ELSE <<>>)

\* A key reaches one of the two files only, if neither an open nor a close of
\* /dev/scancode comes between its messages; and only such a close can take
\* the queue away from under the window thread.  A refused open neither takes
\* the queue from the process that has the file open, nor looks open itself.
OneFile ==
    /\ \A n \in Keycode : (\E i \in DOMAIN gkbd : gkbd[i] = n) /\ n \in gscan => n \in switched
    /\ fault => switched # {}
    /\ gkscanq <=> scanner # {}
    /\ \A p, q \in scanner : p = q

\* kbd.gq is not held after a call, unless an open of /dev/scancode was refused:
\* that leaves it held for ever.  Whoever edits has kbd.q for itself, but for
\* the readers that such an open robs of it, until all of them are done.
LocksMatch ==
    /\ gq # {} <=> refused
    /\ robbed \/ kbdq_lock = Editors
    /\ robbed => refused

\* What the window's keys promise.
KeysDelivered == ComposedOnce /\ OneFile /\ LocksMatch

=============================================================================
