------------------------------ MODULE KeyValue ------------------------------
(***************************************************************************)
(* What the store promises to the server: a map from keys to values.       *)
(* Giving a key that has a value another one is two steps, since           *)
(* myjql_set takes the key out of the index before it puts it back; this   *)
(* is the database that Server takes for granted.                          *)
(***************************************************************************)
CONSTANTS
    Key,
    Value,
    None  \* no value

VARIABLES
    store,  \* the value of every key
    answer  \* what the last step read

Init ==
    /\ store = [k \in Key |-> None]
    /\ answer = None

Get(k) == answer' = store[k] /\ UNCHANGED store

Put(k, v) ==
    /\ store[k] = None
    /\ store' = [store EXCEPT ![k] = v]
    /\ answer' = None

Remove(k) ==
    /\ store[k] # None
    /\ store' = [store EXCEPT ![k] = None]
    /\ answer' = None

Next == \E k \in Key : Get(k) \/ Remove(k) \/ \E v \in Value : Put(k, v)

Spec == Init /\ [][Next]_<<store, answer>>
=============================================================================
