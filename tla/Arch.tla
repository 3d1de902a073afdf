-------------------------------- MODULE Arch --------------------------------
(***************************************************************************)
(* Lab 55: devarch.c, the device of a Windows host that answers queries of *)
(* the registry (/dev/regquery: write the query, then read the value) and  *)
(* makes the window full screen.  Calls acquire one thing after another    *)
(* and each can fail, so the code keeps a stack of handlers: waserror      *)
(* pushes one, poperror pops one, and an error runs them from the top.     *)
(*                                                                         *)
(* A channel is used by one process at a time: nothing in the code keeps   *)
(* two calls on one channel from freeing its value twice.                  *)
(***************************************************************************)
EXTENDS Integers, Sequences, FiniteSets, SequencesExt

CONSTANTS ArchProc, ArchChan,    \* processes, channels of regquery
          Cpus                   \* processors the registry lists

ASSUME ArchAssumption == Cpus \in Nat

VARIABLES
    call,                        \* process: channel, where it is, its value
    labels,                      \* process: its handlers
    has,                         \* process: what it holds
    reglock,                     \* who holds it
    aux,                         \* channel: the value found last
    values,                      \* values allocated
    screentog, frame,            \* the switch, and what the window is
    ncpu, bootlabels,            \* archinit: processors found, handlers left
    together                     \* history: was the switch turned by two at once?

registry == <<call, labels, has, reglock, aux, values>>
archVars == <<registry, screentog, frame, ncpu, bootlabels, together>>

NoValue == 0
Done == [at |-> "user", chan |-> {}, v |-> NoValue]
NewValue == CHOOSE n \in 1 .. Cardinality(values) + 1 : n \notin values

ArchInit ==
    /\ call = [p \in ArchProc |-> Done]
    /\ labels = [p \in ArchProc |-> <<>>]
    /\ has = [p \in ArchProc |-> {}]
    /\ reglock = {}
    /\ aux = [c \in ArchChan |-> NoValue] /\ values = {}
    /\ screentog = 0 /\ frame = 0
    /\ ncpu = 0 /\ bootlabels = 0
    /\ together = FALSE

At(p, at) == call[p].at = at
GoesTo(p, at) == call' = [call EXCEPT ![p].at = at]
Push(p, what) ==
    /\ labels' = [labels EXCEPT ![p] = Append(@, what)]
    /\ has' = [has EXCEPT ![p] = @ \cup {what}]
Booted == bootlabels > Cpus
elsewhere == <<screentog, frame, ncpu, bootlabels, together>>

-----------------------------------------------------------------------------
(***************************************************************************)
(* error: the handlers run from the top, each gives back what it stands    *)
(* for.  That of getregistry ("reglock") returns nil instead of going on   *)
(* to the next one; then archwrite has no value, and raises an error.      *)
(***************************************************************************)
Unwound(l) == LET i == SelectLastInSeq(l, LAMBDA x : x = "reglock") IN
               IF i = 0 THEN l ELSE SubSeq(l, i, Len(l))

\* mutant: the handler of getregistry forgets the lock
Released_Locked(l) == ToSet(Unwound(l)) \ {"reglock"}
Released(l) == ToSet(Unwound(l))

Raise(p) ==
    /\ LET l == labels[p] IN
       /\ has' = [has EXCEPT ![p] = @ \ Released(l)]
       /\ labels' = [labels EXCEPT ![p] = SubSeq(l, 1, Len(l) - Len(Unwound(l)))]
       /\ reglock' = reglock \ (IF "reglock" \in Released(l) THEN {p} ELSE {})
       /\ values' = values \ (IF "value" \in Released(l) THEN {call[p].v} ELSE {})
       /\ call' = [call EXCEPT ![p] =
                      IF "reglock" \in ToSet(l) THEN [@ EXCEPT !.at = "answer", !.v = NoValue]
                                                ELSE Done]
    /\ UNCHANGED aux

Begins(p, c, at, v) ==
    /\ Booted /\ call[p] = Done /\ \A q \in ArchProc : call[q].chan # {c}
    /\ call' = [call EXCEPT ![p] = [at |-> at, chan |-> {c}, v |-> v]]
    /\ UNCHANGED <<labels, has, reglock, elsewhere>>

\* archwrite of regquery: the value not read yet is thrown away, and the query
\* is parsed and widened.
Archwrite(p, c) ==
    /\ Begins(p, c, "parse", NoValue)
    /\ values' = values \ {aux[c]} /\ aux' = [aux EXCEPT ![c] = NoValue]

Parsed(p) ==
    /\ At(p, "parse")
    /\ Push(p, "cb")
    /\ GoesTo(p, "root")
    /\ UNCHANGED <<reglock, aux, values, elsewhere>>

Root(p, ok) ==
    /\ At(p, "root")
    /\ IF ok THEN Push(p, "key") /\ GoesTo(p, "item") /\ UNCHANGED <<reglock, aux, values>>
             ELSE Raise(p)
    /\ UNCHANGED elsewhere

Item(p) ==
    /\ At(p, "item")
    /\ Push(p, "item")
    /\ GoesTo(p, "lock")
    /\ UNCHANGED <<reglock, aux, values, elsewhere>>

\* getregistry: lock, key, size and type, value.
Lock(p) ==
    /\ At(p, "lock") /\ reglock = {}
    /\ reglock' = {p}
    /\ Push(p, "reglock")
    /\ GoesTo(p, "open")
    /\ UNCHANGED <<aux, values, elsewhere>>

RegOpenKey(p, ok) ==
    /\ At(p, "open")
    /\ IF ok THEN Push(p, "hkey") /\ GoesTo(p, "size") /\ UNCHANGED <<reglock, aux, values>>
             ELSE Raise(p)
    /\ UNCHANGED elsewhere

QuerySize(p, ok) ==
    /\ At(p, "size")
    /\ IF ok THEN /\ Push(p, "value")
                  /\ values' = values \cup {NewValue}
                  /\ call' = [call EXCEPT ![p].at = "value", ![p].v = NewValue]
                  /\ UNCHANGED <<reglock, aux>>
             ELSE Raise(p)
    /\ UNCHANGED elsewhere

\* A type it does not know, or a value that has grown since, is an error too.
QueryValue(p, ok) ==
    /\ At(p, "value")
    /\ IF ok THEN /\ labels' = [labels EXCEPT ![p] = SubSeq(@, 1, Len(@) - 3)]
                  /\ has' = [has EXCEPT ![p] = @ \ {"value", "hkey", "reglock"}]
                  /\ reglock' = {}
                  /\ GoesTo(p, "answer")
                  /\ UNCHANGED <<aux, values>>
             ELSE Raise(p)
    /\ UNCHANGED elsewhere

Answer(p) ==
    /\ At(p, "answer")
    /\ IF call[p].v = NoValue THEN Raise(p)
       ELSE /\ \E c \in call[p].chan : aux' = [aux EXCEPT ![c] = call[p].v]
            /\ labels' = [labels EXCEPT ![p] = <<>>]
            /\ has' = [has EXCEPT ![p] = @ \ {"cb", "key", "item"}]
            /\ call' = [call EXCEPT ![p] = Done]
            /\ UNCHANGED <<reglock, values>>
    /\ UNCHANGED elsewhere

\* archread of regquery: a value is read once.
Archread(p, c) ==
    /\ aux[c] # NoValue
    /\ Begins(p, c, "format", aux[c])
    /\ UNCHANGED <<aux, values>>

ArchFormat(p) ==
    /\ At(p, "format")
    /\ Push(p, "p")
    /\ GoesTo(p, "formatted")
    /\ UNCHANGED <<reglock, aux, values, elsewhere>>

ReadDone(p) ==
    /\ At(p, "formatted")
    /\ labels' = [labels EXCEPT ![p] = <<>>]
    /\ has' = [has EXCEPT ![p] = @ \ {"p"}]
    /\ \E c \in call[p].chan : aux' = [aux EXCEPT ![c] = NoValue]
    /\ values' = values \ {call[p].v}
    /\ call' = [call EXCEPT ![p] = Done]
    /\ UNCHANGED <<reglock, elsewhere>>

\* archclose, when no call uses the channel any more.
Archclose(c) ==
    /\ \A p \in ArchProc : call[p].chan # {c}
    /\ aux[c] # NoValue
    /\ values' = values \ {aux[c]} /\ aux' = [aux EXCEPT ![c] = NoValue]
    /\ UNCHANGED <<call, labels, has, reglock, elsewhere>>

-----------------------------------------------------------------------------
\* archwrite of fullscreen: the switch is turned, then the window is told.
Toggle(p) ==
    /\ Booted /\ call[p] = Done
    /\ screentog' = 1 - screentog
    /\ call' = [call EXCEPT ![p] = [at |-> "toggled", chan |-> {}, v |-> screentog']]
    /\ together' = (together \/ \E q \in ArchProc : At(q, "toggled"))
    /\ UNCHANGED <<labels, has, reglock, aux, values, frame, ncpu, bootlabels>>

Toggled(p) ==
    /\ At(p, "toggled")
    /\ frame' = call[p].v
    /\ call' = [call EXCEPT ![p] = Done]
    /\ UNCHANGED <<labels, has, reglock, aux, values, screentog, ncpu, bootlabels, together>>

\* archinit: nprocs asks for one processor after the other, and pushes a handler
\* for each that it never pops.
Nprocs ==
    /\ bootlabels <= Cpus
    /\ bootlabels' = bootlabels + 1
    /\ ncpu' = IF ncpu < Cpus THEN ncpu + 1 ELSE ncpu
    /\ UNCHANGED <<registry, screentog, frame, together>>

ArchNext ==
    \/ \E p \in ArchProc :
          \/ \E c \in ArchChan : Archwrite(p, c) \/ Archread(p, c)
          \/ Parsed(p) \/ Item(p) \/ Lock(p) \/ Answer(p) \/ ArchFormat(p) \/ ReadDone(p)
          \/ \E ok \in BOOLEAN : \/ Root(p, ok) \/ RegOpenKey(p, ok)
                                 \/ QuerySize(p, ok) \/ QueryValue(p, ok)
          \/ Toggle(p) \/ Toggled(p)
    \/ \E c \in ArchChan : Archclose(c)
    \/ Nprocs

ArchSpec == ArchInit /\ [][ArchNext]_archVars

-----------------------------------------------------------------------------
\* Whichever step of a query fails, the call gives back all it took: it holds
\* what its handlers stand for, and nothing when it is over.
NothingHeld ==
    /\ \A p \in ArchProc : ToSet(labels[p]) = has[p] /\ (call[p] = Done => has[p] = {})
    /\ reglock = {p \in ArchProc : "reglock" \in has[p]}

\* No value leaks and none is freed in use: the values are those of a channel
\* and those of a query under way.
ValuesOwned ==
       values = ({aux[c] : c \in ArchChan} \cup {call[p].v : p \in
                    {q \in ArchProc : call[q].chan # {}}}) \ {NoValue}

\* The window is what the switch says, if no two turned it at the same time.
FrameMatches == together \/ frame = screentog \/ \E p \in ArchProc : At(p, "toggled")

\* What devarch.c promises of its errors.
ArchClean == NothingHeld /\ ValuesOwned /\ FrameMatches

=============================================================================
