-------------------------------- MODULE Apm ---------------------------------
(***************************************************************************)
(* Lab 67: devapm.c, the power management device of a handheld: the files  *)
(* of the host behind /dev/apm, and what a read of it tells.  There is one *)
(* descriptor of /proc/apm for all, and it is read once: nothing seeks.    *)
(* How the screen is blanked is module Handheld.                           *)
(***************************************************************************)
EXTENDS Integers

CONSTANT ApmUser                 \* processes that use /dev/apm

VARIABLES apmfd, procfd,         \* of /dev/apm_bios; of /proc/apm: where it is
          apmuser                \* what each has open; history: what its first
                                 \* read told, was it alone, was the host willing

apmVars == <<apmfd, procfd, apmuser>>

NotOpen == [open |-> FALSE, alone |-> TRUE, host |-> TRUE, first |-> "none"]

ApmInit ==
    /\ apmfd = "closed" /\ procfd = "closed"
    /\ apmuser = [p \in ApmUser |-> NotOpen]

\* apm_dev_init and apm_proc_init open what is not open yet, if they can.
DevInit(fd) == IF fd = "closed" THEN {"closed", "start"} ELSE {fd}
\* mutant: the descriptor stays
ProcClose_Kept == procfd
ProcClose == "closed"

\* No two of them are alone.
Crowded == [p \in ApmUser |-> [apmuser[p] EXCEPT !.alone = FALSE]]

\* apmattach needs both files.
ApmAttach ==
    /\ apmfd' \in DevInit(apmfd)
    /\ procfd' \in IF apmfd' = "closed" THEN {procfd} ELSE DevInit(procfd)
    /\ UNCHANGED apmuser

\* apmopen goes on whether or not the host lets it.
ApmOpen(p) ==
    /\ ~apmuser[p].open
    /\ procfd' \in DevInit(procfd)
    /\ LET others == \E q \in ApmUser \ {p} : apmuser[q].open
           told == IF others THEN Crowded ELSE apmuser
       IN  apmuser' = [told EXCEPT ![p] = [open |-> TRUE, alone |-> ~others,
                                           host |-> procfd' # "closed", first |-> "none"]]
    /\ UNCHANGED apmfd

\* apmclose closes the descriptor of all, whether it is the file that is closed
\* or the directory.
ApmClose(p) ==
    /\ apmuser[p].open
    /\ procfd' = ProcClose
    /\ apmuser' = [Crowded EXCEPT ![p] = NotOpen]
    /\ UNCHANGED apmfd

ApmCloseDir ==
    /\ procfd' = ProcClose
    /\ apmuser' = Crowded
    /\ UNCHANGED apmfd

\* apmread: nothing read from the host is taken for a battery that is empty.
ApmRead(p) ==
    /\ apmuser[p].open
    /\ procfd' = IF procfd = "start" THEN "end" ELSE procfd
    /\ apmuser' = [apmuser EXCEPT ![p].first =
          IF @ # "none" THEN @
          ELSE CASE procfd = "closed" -> "error"
                 [] procfd = "start" -> "battery"
                 [] procfd = "end" -> "empty"]
    /\ UNCHANGED apmfd

\* apm_suspend, for a writer of /dev/apm or for a button: what the host does
\* meanwhile is not seen here.
Suspend ==
    /\ apmfd' \in DevInit(apmfd)
    /\ UNCHANGED <<procfd, apmuser>>

ApmNext ==
    \/ ApmAttach \/ ApmCloseDir \/ Suspend
    \/ \E p \in ApmUser : ApmOpen(p) \/ ApmClose(p) \/ ApmRead(p)

ApmSpec == ApmInit /\ [][ApmNext]_apmVars

-----------------------------------------------------------------------------
\* The first read after an open tells the state of the battery, if the host let
\* the file be opened and nobody else had it open, or closed it, meanwhile.  A
\* second read, or a second reader, is told that the battery is empty.
BatteryRead ==
    \A p \in ApmUser :
        apmuser[p].open /\ apmuser[p].alone /\ apmuser[p].host
            => apmuser[p].first \in {"none", "battery"}

=============================================================================
