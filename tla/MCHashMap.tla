----------------------------- MODULE MCHashMap -----------------------------
(***************************************************************************)
(* TLC instance of HashMap with four sizes in two directory blocks and     *)
(* five addresses, used in two ways, one of which is chosen at the start:  *)
(* few addresses at a time under any size, for the scan from a size on; or *)
(* many under the two sizes in the middle, for chains of three blocks of   *)
(* two entries.  Every block of a list holds an entry or is free, so as    *)
(* many blocks as addresses are enough for MaxBlocks never to stop an      *)
(* insertion.                                                              *)
(***************************************************************************)
EXTENDS HashMapCalls

CONSTANT Few  \* how many addresses that is

VARIABLE use  \* "wide" or "long"

Held == {a \in Addr : \E s \in Size : Registered(s, a)}

Allowed(size) == IF use = "wide" THEN Cardinality(Held) < Few ELSE size \in {1, 2}

MCInit == Init /\ use \in {"wide", "long"}

MCNext ==
    /\ \E size \in Size :
         \/ hash_table_pop_lower_bound(size)
         \/ \E addr \in Addr :
              \/ Allowed(size) /\ hash_table_insert(size, addr)
              \/ hash_table_pop(size, addr)
    /\ UNCHANGED use

MCSpec == MCInit /\ [][MCNext]_<<vars, use>>

Symmetry == Permutations(Addr)
=============================================================================
