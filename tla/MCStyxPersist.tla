--------------------------- MODULE MCStyxPersist ----------------------------
(* Small instances of the persistent Styx proxy for TLC. *)
EXTENDS StyxPersist

CONSTANTS x, y           \* anames

OneTree == [t \in Client |-> x]
TwoTrees == [t \in Client |-> IF t = 1 THEN x ELSE y]

Plain == {"Attach", "Walk", "Open", "Read", "Clunk"}
NoClunk == {"Attach", "Walk", "Open", "Read"}
All == Plain \cup {"Create", "Remove", "Flush"}

=============================================================================
