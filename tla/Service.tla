------------------------------ MODULE Service ------------------------------
(***************************************************************************)
(* What the server promises to clients that keep to the protocol: each     *)
(* request takes effect at one moment between being asked and being        *)
(* answered, and the answer is the one of that moment.                     *)
(***************************************************************************)
EXTENDS Integers

CONSTANTS
    Client,
    Str,          \* keys and values
    LenOf,        \* their lengths
    MAX_STR_LEN,  \* how long the server takes them
    Request,      \* what a client can ask: a code, a key and, to set it, a value
    None          \* no value

VARIABLES
    store,    \* the value of every key
    stage,    \* of every client: "idle", "asked" or "done"
    request,  \* what it asked last
    reply     \* what it was told last

vars == <<store, stage, request, reply>>

IsGet(r) == r.code = 0
IsSet(r) == r.code = 1
IsDel(r) == r.code = 2

TooLong(s) == LenOf[s] > MAX_STR_LEN

Refused(r) == TooLong(r.key) \/ (IsSet(r) /\ TooLong(r.value))

Outcome(r) ==
    IF TooLong(r.key) THEN "key too long"
    ELSE IF Refused(r) THEN "value too long"
    ELSE IF IsGet(r) THEN store[r.key]
    ELSE "ok"

Effect(r) ==
    IF Refused(r) \/ IsGet(r) THEN store
    ELSE [store EXCEPT ![r.key] = IF IsSet(r) THEN r.value ELSE None]

Init ==
    /\ store = [s \in Str |-> None]
    /\ stage = [c \in Client |-> "idle"]
    /\ request = [c \in Client |-> None]
    /\ reply = [c \in Client |-> None]

Ask(c, r) ==
    /\ stage[c] = "idle"
    /\ stage' = [stage EXCEPT ![c] = "asked"]
    /\ request' = [request EXCEPT ![c] = r]
    /\ UNCHANGED <<store, reply>>

Do(c) ==
    /\ stage[c] = "asked"
    /\ stage' = [stage EXCEPT ![c] = "done"]
    /\ store' = Effect(request[c])
    /\ reply' = [reply EXCEPT ![c] = Outcome(request[c])]
    /\ UNCHANGED request

Reply(c) ==
    /\ stage[c] = "done"
    /\ stage' = [stage EXCEPT ![c] = "idle"]
    /\ UNCHANGED <<store, request, reply>>

Next == \E c \in Client : Do(c) \/ Reply(c) \/ \E r \in Request : Ask(c, r)

Spec == Init /\ [][Next]_vars
=============================================================================
