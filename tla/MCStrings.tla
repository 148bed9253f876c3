----------------------------- MODULE MCStrings -----------------------------
(***************************************************************************)
(* TLC instance of Strings with chunks of two characters: strings that are *)
(* empty, end with a full chunk, or with a part of one, and keys of one    *)
(* and of two chunks that start alike; what is searched for are all        *)
(* strings of up to two characters of an alphabet of two, and two of three *)
(* that start like the keys.                                               *)
(***************************************************************************)
EXTENDS Strings

MCKey == {<<1, 1>>, <<1, 1, 2, 1>>}

MCValue == {<<>>, <<2>>}

MCProbe == UNION {[1 .. m -> {1, 2}] : m \in 0 .. 2} \cup {<<1, 1, 1>>, <<1, 1, 2>>}

(* One separator at a time, and two only while the last key is deleted, so *)
(* that a separator is copied, too.                                        *)
FewSeparators ==
    \/ Cardinality(separators') <= 1
    \/ At("rebalance")' /\ call.op = "del" /\ leaves' = {}

MCNext == StringsNext /\ FewSeparators

MCSpec == StringsInit /\ [][MCNext]_<<vars, chunks>>
=============================================================================
