------------------------------- MODULE MCRudp -------------------------------
(* How much each socket sends in the instances of Rudp that TLC checks. *)
EXTENDS Rudp

One    == [s \in Sock |-> 1]
\* A client with three messages in flight; the server answers once.
Uneven == [s \in Sock |-> IF s = Listener THEN 1 ELSE 3]
=============================================================================
