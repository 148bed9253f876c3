------------------------------ MODULE KeyIndex ------------------------------
(***************************************************************************)
(* What the B-tree promises to myjql.c: a set of keys, to which a key that *)
(* is not in it can be added and from which one that is can be taken.      *)
(***************************************************************************)
CONSTANT Key

VARIABLE keys

Init == keys = {}

Add(k) == k \notin keys /\ keys' = keys \cup {k}

Drop(k) == k \in keys /\ keys' = keys \ {k}

Next == \E k \in Key : Add(k) \/ Drop(k)

Spec == Init /\ [][Next]_keys
=============================================================================
