----------------------------- MODULE PageStore -----------------------------
(***************************************************************************)
(* What one paged file with its buffer pool promises to the hash map, the  *)
(* tables and the B-tree that use it: an array of pages that grows at its  *)
(* end, in which a page may be written only while it is pinned, and in     *)
(* which a page always holds what was last written to it.  Caching,        *)
(* eviction, closing and re-opening the file are invisible here.           *)
(***************************************************************************)
EXTENDS Naturals

CONSTANTS
    MaxPages,  \* bound on the number of pages of the file
    Vals,      \* what a page can hold
    Zero       \* the contents of a page nobody has written (EMPTY_PAGE)

VARIABLES
    mem,       \* the contents of every page
    length,    \* how many pages the file has
    pins       \* how many times each page is pinned

vars == <<mem, length, pins>>

PageAddr == 0 .. MaxPages - 1

Init ==
    /\ mem = [a \in PageAddr |-> Zero]
    /\ length = 0
    /\ pins = [a \in PageAddr |-> 0]

Pin(a) ==
    /\ a < length
    /\ pins' = [pins EXCEPT ![a] = @ + 1]
    /\ UNCHANGED <<mem, length>>

Unpin(a) ==
    /\ pins[a] > 0
    /\ pins' = [pins EXCEPT ![a] = @ - 1]
    /\ UNCHANGED <<mem, length>>

Write(a, v) ==
    /\ pins[a] > 0
    /\ mem' = [mem EXCEPT ![a] = v]
    /\ UNCHANGED <<length, pins>>

Extend(v) ==
    /\ length < MaxPages
    /\ mem' = [mem EXCEPT ![length] = v]
    /\ length' = length + 1
    /\ UNCHANGED pins

Next ==
    \/ \E a \in PageAddr : Pin(a) \/ Unpin(a)
    \/ \E a \in PageAddr, v \in Vals : Write(a, v)
    \/ \E v \in Vals : Extend(v)

Spec == Init /\ [][Next]_vars
=============================================================================
