----------------------------- MODULE ItemStore -----------------------------
(***************************************************************************)
(* What a block promises to table.c: an item put into it gets an index     *)
(* that is not in use, keeps that index and its bytes whatever is put or   *)
(* removed beside it, and is gone once its index is deleted.               *)
(***************************************************************************)
CONSTANTS
    Slots,  \* the indexes an item can get
    Items   \* the items

VARIABLE items  \* the item at every index in use

Init == items = [i \in {} |-> {}]

Put(i, item) ==
    /\ i \notin DOMAIN items
    /\ items' = [j \in DOMAIN items \cup {i} |-> IF j = i THEN item ELSE items[j]]

Remove(i) ==
    /\ i \in DOMAIN items
    /\ items' = [j \in DOMAIN items \ {i} |-> items[j]]

Next == \E i \in Slots : Remove(i) \/ \E item \in Items : Put(i, item)

Spec == Init /\ [][Next]_items
=============================================================================
