------------------------------ MODULE MCSystem ------------------------------
(***************************************************************************)
(* TLC instances of System: one key, two values of different lengths that  *)
(* the server takes, one string that is too long, and the empty string,    *)
(* which only a variable that was never filled can hold.                   *)
(***************************************************************************)
EXTENDS System, TLC

CONSTANTS c1, c2, empty, k, v1, v2, long

MCStr == {empty, k, v1, v2, long}

MCLenOf == [s \in MCStr |->
              IF s = empty THEN 0 ELSE IF s \in {k, v1} THEN 1 ELSE IF s = v2 THEN 2 ELSE 3]

MCGet(key) == [code |-> 0, key |-> key]
MCSet(key, value) == [code |-> 1, key |-> key, value |-> value]
MCDel(key) == [code |-> 2, key |-> key]

(* All kinds of requests and refusals, and one request that replaces what  *)
(* it finds if it is made twice.                                           *)
AllRequests ==
    {MCGet(k), MCSet(k, v1), MCSet(k, v2), MCDel(k), MCSet(long, v1), MCSet(k, long)}

FewRequests == {MCGet(k), MCSet(k, v1), MCSet(k, v2)}

Interchangeable == Permutations({c1, c2})
=============================================================================
