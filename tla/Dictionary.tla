----------------------------- MODULE Dictionary -----------------------------
(***************************************************************************)
(* What the B+ tree of lab 101 promises: the interface of btree.m, which   *)
(* is roughly that of dbm, one call at a time.  A file that is opened may  *)
(* hold any dictionary.                                                    *)
(***************************************************************************)
EXTENDS Integers

CONSTANTS Key, Val, Nil

VARIABLES dict,      \* the value stored for each key, or Nil
          call,      \* the last call and its key
          result     \* what it returned (or stored)

vars == <<dict, call, result>>

Stored == {k \in Key : dict[k] # Nil}

First(S) == IF S = {} THEN Nil ELSE CHOOSE k \in S : \A l \in S : k <= l

Init == /\ dict \in [Key -> Val \cup {Nil}]
        /\ call = <<"open", Nil>> /\ result = Nil

Store(k, v) ==
    /\ call' = <<"store", k>> /\ result' = v
    /\ dict' = [dict EXCEPT ![k] = v]

Fetch(k) ==
    /\ call' = <<"fetch", k>> /\ result' = dict[k]
    /\ UNCHANGED dict

Firstkey ==
    /\ call' = <<"firstkey", Nil>> /\ result' = First(Stored)
    /\ UNCHANGED dict

Nextkey(k) ==
    /\ call' = <<"nextkey", k>>
    /\ k \in Stored /\ result' = First({l \in Stored : l > k})
    /\ UNCHANGED dict

\* Closing the file and opening it again loses nothing.
Reopen == /\ call' = <<"open", Nil>> /\ result' = Nil
          /\ UNCHANGED dict

Next == \/ \E k \in Key : Fetch(k) \/ Nextkey(k)
        \/ \E k \in Key, v \in Val : Store(k, v)
        \/ Firstkey \/ Reopen

Spec == Init /\ [][Next]_vars

=============================================================================
