---------------------------- MODULE LinkedLists -----------------------------
(***************************************************************************)
(* Lists as the files keep them: every element names the next one, and the *)
(* last one names none.  next is the function from elements to what they   *)
(* name, nil is what stands for none.                                      *)
(***************************************************************************)
EXTENDS Integers, Sequences, FiniteSets

(* The elements from first on, as the code meets them following next, but  *)
(* at most max of them: a list that runs into itself shows as one that is  *)
(* too long.                                                               *)
ListFrom(next, first, nil, max) ==
    LET atMost[m \in 0 .. max] ==
          [b \in DOMAIN next \cup {nil} |->
             IF m = 0 \/ b = nil THEN <<>> ELSE <<b>> \o atMost[m - 1][next[b]]]
    IN  atMost[max][first]

(* Sequence s is the whole list that begins with first.                    *)
IsList(next, first, nil, s) ==
    /\ s \in Seq(DOMAIN next)
    /\ s = <<>> => first = nil
    /\ s # <<>> => first = s[1] /\ next[s[Len(s)]] = nil
    /\ \A k \in 1 .. Len(s) - 1 : next[s[k]] = s[k + 1]
=============================================================================
