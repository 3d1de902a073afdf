------------------------------- MODULE Kprint -------------------------------
(***************************************************************************)
(* Lab 55: /dev/kprint of devcons.c, of which one file can be open.  While *)
(* it is, what is written to /dev/cons goes to its reader.  The queue      *)
(* between them is guarded by a read-write lock, and a reader sleeps with  *)
(* the lock held for reading.                                              *)
(*                                                                         *)
(* The lock is that of emu: who wants to write takes its first part, and   *)
(* then waits for the readers; meanwhile canrlock fails.                   *)
(***************************************************************************)
EXTENDS Integers, FiniteSets

CONSTANTS KprintProc,            \* processes, each with a file of its own
          KprintSize             \* lines the queue has room for

ASSUME KprintAssumption == KprintSize \in Nat \ {0}

VARIABLES kprintq,               \* lines in the queue, or no queue
          writer, readers,       \* the lock: who waits or writes; who reads
          kprocs, kfile          \* what a process does; its file

kprintVars == <<kprintq, writer, readers, kprocs, kfile>>

NoQueue == -1
Nobody == "nobody"

KprintInit ==
    /\ kprintq = NoQueue /\ writer = Nobody /\ readers = {}
    /\ kprocs = [p \in KprintProc |-> "user"]
    /\ kfile = [p \in KprintProc |-> "none"]

\* mutant: a file that was refused is closed as if it were open
Copen_Always(p) == {"open", "refused"}
\* The flag COPEN of a file, which a refused open clears.
Copen(p) == {"open"}

\* An open, or the close of a file that is open, asks for the lock; the close
\* of one that is not does nothing.
KprintAsks(p) ==
    /\ kprocs[p] = "user"
    /\ \/ /\ kfile[p] = "none" \/ kfile[p] \in Copen(p)
          /\ writer = Nobody
          /\ writer' = p
          /\ kprocs' = [kprocs EXCEPT ![p] = IF kfile[p] = "none" THEN "opening" ELSE "closing"]
          /\ UNCHANGED kfile
       \/ /\ kfile[p] = "refused" /\ kfile[p] \notin Copen(p)
          /\ kfile' = [kfile EXCEPT ![p] = "none"]
          /\ UNCHANGED <<writer, kprocs>>
    /\ UNCHANGED <<kprintq, readers>>

\* wlock to wunlock: one file is open at a time.
KprintOpens(p) ==
    /\ kprocs[p] = "opening" /\ readers = {}
    /\ kfile' = [kfile EXCEPT ![p] = IF kprintq = NoQueue THEN "open" ELSE "refused"]
    /\ kprintq' = IF kprintq = NoQueue THEN 0 ELSE kprintq
    /\ writer' = Nobody
    /\ kprocs' = [kprocs EXCEPT ![p] = "user"]
    /\ UNCHANGED <<readers>>

KprintCloses(p) ==
    /\ kprocs[p] = "closing" /\ readers = {}
    /\ kprintq' = NoQueue
    /\ kfile' = [kfile EXCEPT ![p] = "none"]
    /\ writer' = Nobody
    /\ kprocs' = [kprocs EXCEPT ![p] = "user"]
    /\ UNCHANGED <<readers>>

KprintReads(p) ==
    /\ kprocs[p] = "user" /\ kfile[p] = "open" /\ writer = Nobody
    /\ readers' = readers \cup {p}
    /\ kprocs' = [kprocs EXCEPT ![p] = "reading"]
    /\ UNCHANGED <<kprintq, writer, kfile>>

\* qread returns, or the sleeping process is killed.
KprintGets(p) ==
    /\ kprocs[p] = "reading"
    /\ kprintq' = IF kprintq > 0 THEN kprintq - 1 ELSE kprintq
    /\ readers' = readers \ {p}
    /\ kprocs' = [kprocs EXCEPT ![p] = "user"]
    /\ UNCHANGED <<writer, kfile>>

\* A line for the console goes to the queue, and is dropped if that is full; or
\* to the host if there is no queue, or if anybody waits for the lock.
ConsWrite ==
    /\ writer = Nobody /\ kprintq \in 0 .. KprintSize - 1
    /\ kprintq' = kprintq + 1
    /\ UNCHANGED <<writer, readers, kprocs, kfile>>

KprintNext ==
    \/ ConsWrite
    \/ \E p \in KprintProc :
          \/ KprintAsks(p) \/ KprintOpens(p) \/ KprintCloses(p)
          \/ KprintReads(p) \/ KprintGets(p)

KprintSpec == KprintInit /\ [][KprintNext]_kprintVars

-----------------------------------------------------------------------------
\* There is a queue while, and only while, the one open file of /dev/kprint is
\* open: no reader finds it gone, and no refused open takes it from another.
QueueOwned ==
    LET open == {p \in KprintProc : kfile[p] = "open"}
    IN  /\ Cardinality(open) = IF kprintq = NoQueue THEN 0 ELSE 1
        /\ readers \subseteq open

=============================================================================
