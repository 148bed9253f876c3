---------------------------- MODULE FreeSpaceMap ----------------------------
(***************************************************************************)
(* What hash_map.c promises to a table: it knows the free space of every   *)
(* block the table registered, and hands out a registered block with at    *)
(* least the wanted space, as little above it as there is.                 *)
(***************************************************************************)
EXTENDS Naturals

CONSTANTS
    Addr,     \* the blocks a table can register
    MaxSize,  \* sizes are below MaxSize
    None      \* no address, no size: the -1 of the code

VARIABLES
    space,  \* the size under which every block is registered, or None
    ret     \* what the last hash_table_pop_lower_bound returned

vars == <<space, ret>>

Size == 0 .. MaxSize - 1

Fits(a, s) == space[a] # None /\ space[a] >= s

Init ==
    /\ space = [a \in Addr |-> None]
    /\ ret = None

Insert(s, a) ==
    /\ space[a] = None
    /\ space' = [space EXCEPT ![a] = s]
    /\ UNCHANGED ret

Pop(s, a) ==
    /\ space[a] = s
    /\ space' = [space EXCEPT ![a] = None]
    /\ UNCHANGED ret

PopLowerBound(s) ==
    \/ \E a \in Addr :
         /\ Fits(a, s)
         /\ \A b \in Addr : Fits(b, s) => space[b] >= space[a]
         /\ space' = [space EXCEPT ![a] = None]
         /\ ret' = a
    \/ /\ ~\E a \in Addr : Fits(a, s)
       /\ ret' = None
       /\ UNCHANGED space

Next ==
    \E s \in Size : PopLowerBound(s) \/ \E a \in Addr : Insert(s, a) \/ Pop(s, a)

Spec == Init /\ [][Next]_vars
=============================================================================
