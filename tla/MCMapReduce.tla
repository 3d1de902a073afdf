---------------------------- MODULE MCMapReduce -----------------------------
(* Small instances of the gridfs master for TLC. *)
EXTENDS MapReduce, TLC

CONSTANTS a, b, c        \* files

OneTree == [d \in Root |-> <<a, b, c>>]
ShortTree == [d \in Root |-> <<a, b>>]
TwoTrees == [d \in Root |-> IF d = 1 THEN <<a>> ELSE <<b, c>>]
Roots == {1, 2}
OneRoot == {1}

Interchangeable == Permutations(Worker)

=============================================================================
