-------------------------------- MODULE Wire --------------------------------
(***************************************************************************)
(* The connections between clients and server, as socket, send, recv and   *)
(* close provide them on Linux; no source file of the repository.  Every   *)
(* connection has two ends, and each end a stream of words that it has not *)
(* received yet and what it knows of its peer:                             *)
(*   none    not connected                                                 *)
(*   open    nothing else was heard                                        *)
(*   fin     the peer has closed: recv returns 0 after the last word       *)
(*   reset   the peer closed with words unread, or without having accepted *)
(*           the connection: the next call returns -1                      *)
(*   broken  -1 was returned, or the peer has refused what was sent after  *)
(*           it closed: send raises SIGPIPE, recv returns 0                *)
(* A word is what one send puts into a stream and one recv takes out.      *)
(***************************************************************************)
EXTENDS Naturals, Sequences

CONSTANTS
    Client,  \* the clients, each with one connection
    Str,     \* keys and values
    LenOf,   \* their lengths
    None     \* no string, no code, no thread

VARIABLES
    words,  \* words[e][c]: what end e of the connection of c has yet to receive
    peer    \* peer[e][c]: what end e knows of the other end

wire == <<words, peer>>

End == {"client", "server"}

OtherEnd(e) == IF e = "client" THEN "server" ELSE "client"

WireInit ==
    /\ words = [e \in End |-> [c \in Client |-> <<>>]]
    /\ peer = [e \in End |-> [c \in Client |-> "none"]]

Connects(c) ==
    /\ peer["client"][c] = "none"
    /\ peer' = [e \in End |-> [peer[e] EXCEPT ![c] = "open"]]
    /\ UNCHANGED words

-----------------------------------------------------------------------------
(* recv: a word, 0, or -1.                                                 *)
Gets(e, c) ==
    /\ words[e][c] # <<>>
    /\ words' = [words EXCEPT ![e][c] = Tail(@)]
    /\ UNCHANGED peer

GetsEnd(e, c) ==
    /\ words[e][c] = <<>>
    /\ peer[e][c] \in {"fin", "broken"}
    /\ UNCHANGED wire

GetsError(e, c) ==
    /\ words[e][c] = <<>>
    /\ peer[e][c] = "reset"
    /\ peer' = [peer EXCEPT ![e][c] = "broken"]
    /\ UNCHANGED words

-----------------------------------------------------------------------------
(* send: the words arrive, or the peer has closed and refuses them, which  *)
(* becomes known at once or later, or -1.                                  *)
Sends(e, c, ws) ==
    \/ /\ peer[e][c] = "open"
       /\ words' = [words EXCEPT ![OtherEnd(e)][c] = @ \o ws]
       /\ UNCHANGED peer
    \/ /\ peer[e][c] = "fin"
       /\ \E known \in {"fin", "broken"} : peer' = [peer EXCEPT ![e][c] = known]
       /\ UNCHANGED words

SendFails(e, c) ==
    /\ peer[e][c] = "reset"
    /\ peer' = [peer EXCEPT ![e][c] = "broken"]
    /\ UNCHANGED words

SendBreaks(e, c) == peer[e][c] = "broken"

(* close of the connections of cs at end e, after sending ws; those of     *)
(* unaccepted were never accepted.                                         *)
Ends(e, cs, ws, unaccepted) ==
    LET f == OtherEnd(e)
        Heard(c) == IF peer[f][c] # "open" THEN peer[f][c]
                    ELSE IF words[e][c] = <<>> /\ c \notin unaccepted THEN "fin"
                    ELSE "reset"
    IN
      /\ words' = [words EXCEPT ![e] = [c \in Client |-> IF c \in cs THEN <<>> ELSE @[c]],
                                ![f] = [c \in Client |-> IF c \in cs THEN @[c] \o ws ELSE @[c]]]
      /\ peer' = [peer EXCEPT ![f] = [c \in Client |-> IF c \in cs THEN Heard(c) ELSE @[c]]]

Closes(e, cs, ws) == Ends(e, cs, ws, {})
=============================================================================
