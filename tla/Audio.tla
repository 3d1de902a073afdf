-------------------------------- MODULE Audio -------------------------------
(***************************************************************************)
(* Lab 67: audio-oss.c, the audio device of a Linux host.  The files       *)
(* /dev/audio (read, written or both) and /dev/audioctl share the          *)
(* descriptors afd.in and afd.out and the settings av.  inlock and outlock *)
(* are meant to guard them, but a write of audioctl gives both up before   *)
(* it is done, and it opens the device itself when nobody has.             *)
(*                                                                         *)
(* Descriptors are small numbers, 0 the standard input of the emulator.    *)
(***************************************************************************)
EXTENDS Integers, FiniteSets

CONSTANTS AudioProc,             \* processes
          Setting,               \* values of a setting
          MaxFd, MaxBytes        \* bounds: descriptors, bytes written at once

ASSUME AudioAssumption == {MaxFd, MaxBytes} \subseteq Nat \ {0}

VARIABLES
    afd,                         \* afd.in and afd.out
    fds,                         \* descriptors of the emulator
    inlock, outlock,             \* who holds them
    av,                          \* the settings, of input and of output
    inpause,                     \* audio_in_pause, which is for in and for out
    audio,                       \* process: what it has open, where it is
    sent,                        \* bytes the write under way has sent
    broken,                      \* history: see DescriptorsOwned
    want, lost                   \* history: settings made, were writes together?

audiofiles == <<afd, fds>>
audiolocks == <<inlock, outlock>>
audiohist == <<broken, want, lost>>
audioVars == <<audiofiles, audiolocks, av, inpause, audio, sent, audiohist>>

Nofd == -1
Free == [mode |-> "none", at |-> "user"]

AudioInit ==
    /\ afd = [in |-> Nofd, out |-> Nofd] /\ fds = {0}
    /\ inlock = {} /\ outlock = {}
    /\ av = [in |-> 0, out |-> 0] /\ inpause = "unpause"
    /\ audio = [p \in AudioProc |-> Free]
    /\ sent = 0
    /\ broken = FALSE
    /\ want = av /\ lost = FALSE

NewFd == CHOOSE n \in 1 .. MaxFd : n \notin fds /\ \A m \in 1 .. n - 1 : m \in fds
AnyFd == \E n \in 1 .. MaxFd : n \notin fds
Unlock(p) == inlock' = inlock \ {p} /\ outlock' = outlock \ {p}
Reads(m) == m \in {"read", "rdwr"}
Writes(m) == m \in {"write", "rdwr"}
InCtl == {p \in AudioProc : audio[p].at \in {"in", "out", "done"}}

\* audio_pause: the device is reset, unless it is the one for input and that is
\* what was done last; ok is what the call returns.
Audio_pause(input, f, ok) ==
    /\ input /\ inpause = f => ok
    /\ inpause' = IF ok THEN f ELSE inpause

\* audio_set_info sets what was asked for; only the mixer, which has the volume,
\* can make it fail, if it is there at all.
Audio_set_info(sets, mixer) == sets => mixer

-----------------------------------------------------------------------------
\* audio_file_open takes the locks of its mode and looks whether the device is
\* in use.
AudioOpen(p, mode) ==
    /\ audio[p] = Free
    /\ Reads(mode) => inlock = {} /\ afd.in < 0
    /\ Writes(mode) => outlock = {} /\ afd.out < 0
    /\ inlock' = IF Reads(mode) THEN {p} ELSE inlock
    /\ outlock' = IF Writes(mode) THEN {p} ELSE outlock
    /\ audio' = [audio EXCEPT ![p] = [mode |-> mode, at |-> "opening"]]
    /\ UNCHANGED <<audiofiles, av, inpause, sent, audiohist>>

Sets(mode, fd) == [in  |-> IF Reads(mode) THEN fd ELSE afd.in,
                   out |-> IF Writes(mode) THEN fd ELSE afd.out]

\* audio_open: the descriptor is closed again when the device cannot be made to
\* block or to pause, but not when its flags cannot be read: that counts as
\* success, with descriptor 0; nor when the volume cannot be set.
AudioOpened(p, outcome) ==
    LET mode == audio[p].mode
        opens == outcome \in {"opened", "noflags"}
    IN  /\ audio[p].at = "opening"
        /\ outcome # "refused" => AnyFd
        /\ fds' = IF outcome = "refused" THEN fds ELSE fds \cup {NewFd}
        /\ afd' = CASE outcome = "opened" -> Sets(mode, NewFd)
                    [] outcome = "noflags" -> Sets(mode, 0)
                    [] OTHER -> afd
        /\ broken' = (broken \/ outcome \in {"noflags", "novolume"})
        /\ IF outcome \in {"refused", "noflags"} THEN UNCHANGED inpause
           ELSE Audio_pause(FALSE, "pause", TRUE)
        /\ audio' = [audio EXCEPT ![p] = IF opens THEN [@ EXCEPT !.at = "user"] ELSE Free]
        /\ Unlock(p)
        /\ UNCHANGED <<av, sent, want, lost>>

Open(p) == audio[p].mode # "none" /\ audio[p].at = "user"

\* audio_file_close: what is open for both is closed once.
AudioClose(p) ==
    LET mode == audio[p].mode IN
    /\ Open(p)
    /\ Reads(mode) => inlock = {}
    /\ Writes(mode) => outlock = {}
    /\ fds' = fds \ {IF Reads(mode) THEN afd.in ELSE afd.out}
    /\ afd' = Sets(mode, Nofd)
    /\ audio' = [audio EXCEPT ![p] = Free]
    /\ UNCHANGED <<audiolocks, av, inpause, sent, audiohist>>

\* audio_file_read, under inlock: the host's read is the step that blocks.
AudioRead(p, ok) ==
    /\ Open(p) /\ Reads(audio[p].mode) /\ inlock = {}
    /\ IF afd.in < 0 THEN UNCHANGED inpause ELSE Audio_pause(TRUE, "unpause", ok)
    /\ UNCHANGED <<audiofiles, audiolocks, av, audio, sent, audiohist>>

\* audio_file_write sends a part of the data as large as the device's buffer at
\* a time: each time from the beginning of the data.
\* mutant: a part that the device took only in part counts in full
Total_Asked(total, chunk, status) == total + chunk
Total(total, chunk, status) == total + status

AudioWrite(p) ==
    /\ Open(p) /\ Writes(audio[p].mode) /\ outlock = {} /\ afd.out >= 0
    /\ \E bufsz \in 1 .. MaxBytes :
          audio' = [audio EXCEPT ![p] = [mode |-> @.mode, at |-> "writing", total |-> 0,
                                         count |-> MaxBytes, bufsz |-> bufsz]]
    /\ outlock' = {p} /\ sent' = 0
    /\ UNCHANGED <<audiofiles, inlock, av, inpause, audiohist>>

AudioWritePart(p) ==
    LET w == audio[p]
        chunk == IF w.bufsz < w.count - w.total THEN w.bufsz ELSE w.count - w.total
    IN  /\ w.at = "writing" /\ w.total < w.count
        /\ \E status \in 1 .. chunk :
              /\ sent' = sent + status
              /\ audio' = [audio EXCEPT ![p].total = Total(w.total, chunk, status)]
        /\ UNCHANGED <<audiofiles, audiolocks, av, inpause, audiohist>>

\* The write is over, or the device refuses the rest.
AudioWritten(p) ==
    /\ audio[p].at = "writing"
    /\ audio' = [audio EXCEPT ![p] = [mode |-> @.mode, at |-> "user"]]
    /\ sent' = 0
    /\ Unlock(p)
    /\ UNCHANGED <<audiofiles, av, inpause, audiohist>>

-----------------------------------------------------------------------------
\* audio_ctl_write: it copies the settings and changes one in the copy;
CtlWrite(p, d, val) ==
    /\ audio[p] = Free
    /\ audio' = [audio EXCEPT ![p] = [mode |-> "none", at |-> "in", mod |-> d, forced |-> FALSE,
                                      tmpav |-> [av EXCEPT ![d] = val]]]
    /\ lost' = (lost \/ InCtl # {})
    /\ UNCHANGED <<audiofiles, audiolocks, av, inpause, sent, broken, want>>

Fails(p) == audio' = [audio EXCEPT ![p] = Free]

\* it opens the device if neither descriptor is in use, which is found out with
\* inlock alone, and sets the input;
CtlIn(p, opens, paused, mixer) ==
    LET force == afd.in = Nofd /\ afd.out = Nofd
        fd == IF force /\ opens THEN NewFd ELSE afd.in
        sets == fd >= 0 /\ audio[p].mod = "in"
        ok == Audio_set_info(sets, paused /\ mixer)
    IN  /\ audio[p].at = "in" /\ inlock = {}
        /\ force /\ opens => AnyFd
        /\ fds' = IF force /\ opens THEN fds \cup {fd} ELSE fds
        /\ afd' = IF force /\ opens THEN [in |-> fd, out |-> fd] ELSE afd
        /\ IF sets THEN Audio_pause(TRUE, "pause", paused) ELSE UNCHANGED inpause
        /\ broken' = (broken \/ (force /\ (~opens \/ outlock # {} \/ ~ok)))
        /\ \/ ~ok /\ Fails(p)
           \/ ok /\ audio' = [audio EXCEPT ![p].at = "out", ![p].forced = force]
        /\ UNCHANGED <<audiolocks, av, sent, want, lost>>

\* it sets the output, with outlock;
CtlOut(p, paused, mixer) ==
    LET sets == afd.out >= 0 /\ audio[p].mod = "out"
        ok == Audio_set_info(sets, paused /\ mixer)
    IN  /\ audio[p].at = "out" /\ outlock = {}
        /\ IF sets THEN Audio_pause(afd.out = afd.in, "out", paused) ELSE UNCHANGED inpause
        /\ broken' = (broken \/ (~ok /\ audio[p].forced))
        /\ \/ ~ok /\ Fails(p)
           \/ ok /\ audio' = [audio EXCEPT ![p].at = "done"]
        /\ UNCHANGED <<audiofiles, audiolocks, av, sent, want, lost>>

\* and with no lock it replaces the settings, and closes what it opened.
CtlDone(p) ==
    /\ audio[p].at = "done"
    /\ av' = audio[p].tmpav
    /\ want' = [want EXCEPT ![audio[p].mod] = audio[p].tmpav[audio[p].mod]]
    /\ IF audio[p].forced THEN fds' = fds \ {afd.in} /\ afd' = [in |-> Nofd, out |-> Nofd]
                          ELSE UNCHANGED audiofiles
    /\ Fails(p)
    /\ UNCHANGED <<audiolocks, inpause, sent, broken, lost>>

AudioNext ==
    \E p \in AudioProc :
       \/ \E mode \in {"read", "write", "rdwr"} : AudioOpen(p, mode)
       \/ \E outcome \in {"opened", "refused", "noflags", "novolume"} : AudioOpened(p, outcome)
       \/ AudioClose(p) \/ AudioWrite(p) \/ AudioWritePart(p) \/ AudioWritten(p)
       \/ \E d \in {"in", "out"}, val \in Setting : CtlWrite(p, d, val)
       \/ \E ok \in BOOLEAN : AudioRead(p, ok)
       \/ \E opens, paused, mixer \in BOOLEAN : CtlIn(p, opens, paused, mixer)
       \/ \E paused, mixer \in BOOLEAN : CtlOut(p, paused, mixer)
       \/ CtlDone(p)

AudioSpec == AudioInit /\ [][AudioNext]_audioVars

-----------------------------------------------------------------------------
(***************************************************************************)
(* Every file open has its descriptor, a descriptor in afd belongs to a    *)
(* file or to a write of audioctl under way, and no other is open.  This   *)
(* ends with the first of three mistakes (broken):                         *)
(*   a write of audioctl opens the device while a file is being opened for *)
(*   writing, or fails to, and takes as its own what an open put there     *)
(*   meanwhile;                                                            *)
(*   it fails after it has opened the device, which stays open;            *)
(*   an open fails without closing its descriptor.                         *)
(***************************************************************************)
DescriptorsOwned ==
    broken \/
    LET readers == {p \in AudioProc : audio[p].at # "opening" /\ Reads(audio[p].mode)}
        writers == {p \in AudioProc : audio[p].at # "opening" /\ Writes(audio[p].mode)}
        forced == {p \in InCtl : audio[p].at # "in" /\ audio[p].forced}
    IN  /\ Cardinality(readers \cup forced) <= 1 \/ afd.in # afd.out
        /\ Cardinality(readers) <= 1 /\ Cardinality(writers) <= 1
        /\ afd.in # Nofd <=> readers \cup forced # {}
        /\ afd.out # Nofd <=> writers \cup forced # {}
        /\ fds = {0, afd.in, afd.out} \ {Nofd}

\* A setting made is kept, if no two writes of audioctl were under way together.
SettingsKept == lost \/ av = want

\* A write has sent as many bytes as it counts.  (They are the data if the device
\* took them in one part, and the beginning of it over and over if not.)
BytesSent == \A p \in AudioProc : audio[p].at = "writing" => sent = audio[p].total

\* What the audio device promises.
AudioShared == DescriptorsOwned /\ SettingsKept /\ BytesSent

=============================================================================
