------------------------------ MODULE MCBTree ------------------------------
(***************************************************************************)
(* TLC instance of BTree with the DEGREE the program has for 128-byte      *)
(* pages, used in two ways, one of which is chosen at the start.           *)
(*                                                                         *)
(* Few keys come and go in every order.                                    *)
(*                                                                         *)
(* For trees of three levels, all keys are inserted in one of a few        *)
(* orders, so that leaves and inner nodes split at their left end, at      *)
(* their right end and in the middle; then they are deleted, each time one *)
(* of the Least least or Greatest greatest keys that are left, so that     *)
(* inner nodes borrow and merge on either side; and then inserted again,   *)
(* which takes nodes from the free list.                                   *)
(***************************************************************************)
EXTENDS BTreeCalls

CONSTANTS
    Few,       \* how many keys come and go in every order
    Least,     \* how many of the least keys may be deleted next
    Greatest,  \* how many of the greatest ones
    Rounds     \* how often the tree is built

VARIABLES
    order,  \* the keys still to insert, in turn
    round   \* how often the tree was built, 0 if it is not built in order

Ascending == [i \in Key |-> i]
Descending == [i \in Key |-> MaxKey + 1 - i]
FromTheEnds == [i \in Key |-> IF i % 2 = 1 THEN (i + 1) \div 2 ELSE MaxKey + 1 - i \div 2]

Orders == {Ascending, Descending, FromTheEnds}

MCInit ==
    /\ Init
    /\ \/ round = 0 /\ order = <<>>
       \/ round = 1 /\ order \in Orders

AnyOrder ==
    /\ round = 0
    /\ \E k \in 1 .. Few : b_tree_insert(k) \/ b_tree_delete(k)
    /\ UNCHANGED <<order, round>>

Build ==
    /\ order # <<>>
    /\ b_tree_insert(Head(order))
    /\ order' = Tail(order)
    /\ UNCHANGED round

TakeApart ==
    /\ order = <<>>
    /\ round \in 1 .. Rounds - 1
    /\ \E k \in Stored :
         /\ \/ Cardinality({q \in Stored : q < k}) < Least
            \/ Cardinality({q \in Stored : q > k}) < Greatest
         /\ b_tree_delete(k)
    /\ UNCHANGED <<order, round>>

Again ==
    /\ order = <<>>
    /\ round \in 1 .. Rounds - 1
    /\ Stored = {}
    /\ round' = round + 1
    /\ order' \in Orders
    /\ UNCHANGED tree

MCNext == AnyOrder \/ Build \/ TakeApart \/ Again

MCSpec == MCInit /\ [][MCNext]_<<tree, order, round>>
=============================================================================
