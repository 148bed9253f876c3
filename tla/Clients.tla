------------------------------ MODULE Clients ------------------------------
(***************************************************************************)
(* The client processes: the class client (myjqlclient.cpp) under a caller *)
(* such as the shell (myjqlshell.cpp), which makes one request after the   *)
(* other and prints what came of it.  A caller that is killed, or that     *)
(* calls exit as the shell does at the end of its input, closes the        *)
(* connection without the destructor of client.                            *)
(***************************************************************************)
EXTENDS Wire

CONSTANTS
    Request,  \* what is asked: a code, a key and, to set it, a value
    MaxAsks,  \* bound on the requests of a client
    Dying     \* the clients that may end without their destructor

ASSUME ClientsAssumption ==
    /\ MaxAsks \in Nat
    /\ Dying \subseteq Client
    /\ \A r \in Request : r.code \in 0 .. 2 /\ r.key \in Str /\ (r.code = 1 => r.value \in Str)

VARIABLES
    user  \* of every client: where it is, its requests so far, the last
          \* one, its local variable code and what it told its caller last

UserAt(c, l) == user[c].at = l

UserGoesTo(c, l) == user' = [user EXCEPT ![c].at = l]

ClientsInit ==
    user = [c \in Client |->
              [at |-> "new", asks |-> 0, request |-> None, code |-> None, result |-> None]]

(* The constructor.                                                        *)
Connect(c, listening) ==
    /\ UserAt(c, "new")
    /\ IF listening
       THEN Connects(c) /\ UserGoesTo(c, "idle")
       ELSE UserGoesTo(c, "gone") /\ UNCHANGED wire

IsGet(r) == r.code = 0
IsSet(r) == r.code = 1

LenSent(r) == LenOf[IF IsSet(r) THEN r.value ELSE r.key]

StringWords(s) == <<LenOf[s], s>>

ValueWords(r) == IF IsSet(r) THEN StringWords(r.value) ELSE <<>>

WordsOf(r) == <<r.code>> \o (StringWords(r.key) \o ValueWords(r))

Asks(c, r) == UserAt(c, "idle") /\ user[c].asks < MaxAsks

(* get, set and del send their request ...                                 *)
Ask(c, r) ==
    /\ Asks(c, r)
    /\ Sends("client", c, WordsOf(r))
    /\ user' = [user EXCEPT ![c].at = "asked", ![c].asks = @ + 1,
                            ![c].request = r, ![c].code = LenSent(r)]

AskFails(c, r) ==
    /\ Asks(c, r)
    /\ SendFails("client", c)
    /\ user' = [user EXCEPT ![c].asks = @ + 1, ![c].request = r, ![c].result = "error"]

(* ... where the second send already may find the server gone.             *)
AskBreaks(c, r) ==
    /\ Asks(c, r)
    /\ SendBreaks("client", c) \/ peer["client"][c] = "fin"
    /\ Closes("client", {c}, <<>>)
    /\ UserGoesTo(c, "gone")

-----------------------------------------------------------------------------
(* They receive the answer; with recv returning 0, code stays as it is.    *)
Hears(c) == Gets("client", c) \/ GetsEnd("client", c)

Heard(c) == IF words["client"][c] # <<>> THEN Head(words["client"][c]) ELSE user[c].code

Verdict(r, code) ==
    IF IsGet(r) /\ code = 0 THEN None
    ELSE IF ~IsGet(r) /\ code = 1 THEN "ok"
    ELSE IF code = 2 THEN "key too long"
    ELSE IF IsSet(r) /\ code = 3 THEN "value too long"
    ELSE "error"

HearCode(c) ==
    /\ UserAt(c, "asked")
    /\ Hears(c)
    /\ user' = IF IsGet(user[c].request) /\ Heard(c) = 1
               THEN [user EXCEPT ![c].at = "length", ![c].code = 1]
               ELSE [user EXCEPT ![c].at = "idle", ![c].code = None,
                                 ![c].result = Verdict(user[c].request, Heard(c))]

HearLength(c) ==
    /\ UserAt(c, "length")
    /\ Hears(c)
    /\ user' = [user EXCEPT ![c].at = "value", ![c].code = Heard(c)]

HearValue(c) ==
    /\ UserAt(c, "value")
    /\ Hears(c)
    /\ user' = [user EXCEPT ![c].at = "idle", ![c].code = None,
                            ![c].result = IF words["client"][c] # <<>> /\ LenOf[Heard(c)] = user[c].code
                                          THEN Heard(c) ELSE "error"]

HearError(c) ==
    /\ user[c].at \in {"asked", "length", "value"}
    /\ GetsError("client", c)
    /\ user' = [user EXCEPT ![c].at = "idle", ![c].code = None, ![c].result = "error"]

-----------------------------------------------------------------------------
(* The destructor sends 3, waits for any answer and closes.  If its send   *)
(* raises SIGPIPE, the end of the process closes the connection.           *)
Leave(c) ==
    /\ UserAt(c, "idle")
    /\ \/ Sends("client", c, <<3>>) /\ UserGoesTo(c, "leaving")
       \/ SendFails("client", c) /\ UserGoesTo(c, "left")

HearBye(c) ==
    /\ UserAt(c, "leaving")
    /\ Hears(c) \/ GetsError("client", c)
    /\ UserGoesTo(c, "left")

CloseSocket(c) ==
    /\ UserAt(c, "left") \/ (UserAt(c, "idle") /\ SendBreaks("client", c))
    /\ Closes("client", {c}, <<>>)
    /\ UserGoesTo(c, "gone")

(* The process ends without the destructor, at any point of a request.     *)
Dies(c) ==
    /\ c \in Dying
    /\ ~UserAt(c, "new") /\ ~UserAt(c, "gone")
    /\ \/ Closes("client", {c}, <<>>)
       \/ /\ peer["client"][c] = "open"
          /\ \E r \in Request : Asks(c, r) /\ \E n \in 1 .. Len(WordsOf(r)) :
               Closes("client", {c}, SubSeq(WordsOf(r), 1, n))
    /\ UserGoesTo(c, "gone")

(* What a client does once it is asked to; the rest is up to its caller.   *)
GoesOn(c) ==
    HearCode(c) \/ HearLength(c) \/ HearValue(c) \/ HearError(c) \/ HearBye(c) \/ CloseSocket(c)

client(c) ==
    \/ \E r \in Request : Ask(c, r) \/ AskFails(c, r) \/ AskBreaks(c, r)
    \/ GoesOn(c) \/ Leave(c) \/ Dies(c)
=============================================================================
