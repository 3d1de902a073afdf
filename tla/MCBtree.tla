------------------------------ MODULE MCBtree -------------------------------
(* Small instances of the B+ tree for TLC: four entries fill a block. *)
EXTENDS Btree

CONSTANTS u, v, None

\* An empty tree, and one of three leaves under an inner block, which the
\* next key at the end splits.
Loads == {<<>>, <<2, 4, 6, 8, 10, 12, 14>>}
=============================================================================
