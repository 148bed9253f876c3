------------------------------- MODULE System -------------------------------
(***************************************************************************)
(* The server with its clients, and what they should do together.          *)
(***************************************************************************)
EXTENDS Server, Clients

vars == <<server, user, wire>>

Listening == state \in {"serving", "closed"}

Init == WireInit /\ ServerInit /\ ClientsInit

ClientStep(c) ==
    /\ Connect(c, Listening) \/ client(c)
    /\ UNCHANGED server

Next ==
    \/ ServerNext /\ UNCHANGED user
    \/ \E c \in Client : ClientStep(c)

Spec == Init /\ [][Next]_vars

(* The system schedules every thread of a process that is not waiting, and *)
(* delivers what was sent.  That signals arrive, or that callers ask or    *)
(* leave, is not assumed.                                                  *)
Fairness ==
    /\ \A c \in Client :
         /\ WF_vars(Accept(c) /\ UNCHANGED user)
         /\ WF_vars(InstanceThread(c) /\ UNCHANGED user)
         /\ WF_vars(GoesOn(c) /\ UNCHANGED server)
    /\ WF_vars(Prints(Main) /\ UNCHANGED user)
    /\ \A t \in Thread : WF_vars(exit_nicely(t) /\ UNCHANGED user)

FairSpec == Spec /\ Fairness

-----------------------------------------------------------------------------
Locals ==
    [code : Code \cup {None},
     op : Code \cup {None},
     key : Str \cup {None},
     value : Str \cup {None},
     answer : {<<>>, <<0>>, <<1>>, <<2>>, <<3>>}
                \cup UNION {{Found(v), Tail(Found(v)), <<v>>} : v \in Str}]

TypeOK ==
    /\ state \in {"serving", "closed", "exiting", "dead"}
    /\ owner \in Thread \cup {None, Destroyed}
    /\ db \in [Str -> Str \cup {None}]
    /\ saved \in [Str -> Str \cup {None}]
    /\ pc \in [Client -> {"none", "command", "key_len", "key", "value_len", "value", "lock",
                          "call", "replace", "unlock", "answer", "close", "ended"}]
    /\ local \in [Client -> Locals]
    /\ handler \in [Thread -> {"no", "print", "lock", "close", "unlock", "cleanup", "exit"}]
    /\ signals \in 0 .. MaxSignals
    /\ line \in [Thread -> BOOLEAN]
    /\ stdout \in Thread \cup {None}
    /\ \A e \in End : \A c \in Client :
         /\ \A i \in DOMAIN words[e][c] : words[e][c][i] \in Code \cup Str
         /\ peer[e][c] \in {"none", "open", "fin", "reset", "broken"}
    /\ \A c \in Client :
         /\ user[c].at \in {"new", "idle", "asked", "length", "value", "leaving", "left", "gone"}
         /\ user[c].asks \in 0 .. MaxAsks
         /\ user[c].request \in Request \cup {None}
         /\ user[c].code \in Code \cup {None}
         /\ user[c].result \in
              Str \cup {None, "ok", "key too long", "value too long", "error"}

(* No two threads are inside the database at once until it is closed, and  *)
(* none is while it is being closed: the handler waits its turn.           *)
Calls(t) == t \in Client /\ pc[t] \in {"call", "replace", "unlock"}

Closing(t) == handler[t] = "close"

MutualExclusion ==
    state = "serving" =>
      \A t, u \in Thread : (Calls(t) \/ Closing(t)) /\ (Calls(u) \/ Closing(u)) => t = u

(* What a shutdown saves is what calls left that had returned: no key is   *)
(* missing because the call that was replacing its value was interrupted,  *)
(* be it by the handler on its own thread.                                 *)
SavesFinishedCalls == [][saved' # saved => \A c \in Client : pc[c] \notin {"call", "replace"}]_vars

(* Why: as long as the database is open, the mutex is not destroyed and    *)
(* belongs to the thread that calls or closes it; no handler is past the   *)
(* closing; and a thread whose handler closes was not calling.             *)
Functions == DOMAIN pc = Client /\ DOMAIN handler = Thread

OwnerInside ==
    /\ owner # Destroyed
    /\ \A t \in Thread : Calls(t) \/ Closing(t) => owner = t

NotPastClosing == \A t \in Thread : handler[t] \notin {"unlock", "cleanup", "exit"}

NotBoth == \A t \in Thread : ~(Calls(t) /\ Closing(t))

IInv == Functions /\ (state = "serving" => OwnerInside /\ NotPastClosing /\ NotBoth)

(* The database is called only for what a client has asked and is waiting  *)
(* for: "recv: 1 key_len key value_len value" (myjqlserver.c:228).         *)
Asked(c) ==
    /\ UserAt(c, "asked")
    /\ local[c].op = user[c].request.code
    /\ local[c].key = user[c].request.key
    /\ IsSet(user[c].request) => local[c].value = user[c].request.value

Requesting(c) == pc[c] \in {"lock", "call", "replace", "unlock"}

CallsAreAsked == \A c \in Client : state # "dead" /\ Requesting(c) => Asked(c)

(* While a client is connected, what other clients do, and how they leave, *)
(* never makes its thread call for anything else.                          *)
ConnectedAreServed ==
    \A c \in Client : state # "dead" /\ Requesting(c) /\ peer["server"][c] = "open" => Asked(c)

(* Why: what is in the two streams of a connection is what the client and  *)
(* its thread still expect of each other.  A client that is not there yet, *)
(* or found no server, has no thread; one that is idle has sent nothing;   *)
(* what one has asked is on its way, or known to the thread, or what is    *)
(* left of the answer is; the last message of one that leaves is 3.        *)
IsSeq(s) == s \in Seq({s[i] : i \in DOMAIN s})

AnswerLeft(c) == words["client"][c] \o local[c].answer

NoAnswer(c) == words["client"][c] = <<>> /\ local[c].answer = <<>>

NotConnected(c) ==
    /\ user[c].at \in {"new", "gone"}
    /\ pc[c] = "none" /\ local[c].answer = <<>>
    /\ \A e \in End : peer[e][c] = "none" /\ words[e][c] = <<>>

Idle(c) ==
    /\ UserAt(c, "idle")
    /\ pc[c] \in {"none", "command"}
    /\ words["server"][c] = <<>> /\ NoAnswer(c)

OnItsWay(c) ==
    LET r == user[c].request
        sent == words["server"][c]
    IN  /\ UserAt(c, "asked") /\ r \in Request
        /\ NoAnswer(c)
        /\ \/ pc[c] \in {"none", "command"} /\ sent = WordsOf(r)
           \/ /\ local[c].op = r.code
              /\ \/ pc[c] = "key_len" /\ sent = StringWords(r.key) \o ValueWords(r)
                 \/ pc[c] = "key" /\ sent = <<r.key>> \o ValueWords(r)
                 \/ /\ IsSet(r) /\ local[c].key = r.key
                    /\ \/ pc[c] = "value_len" /\ sent = StringWords(r.value)
                       \/ pc[c] = "value" /\ sent = <<r.value>>

(* How long the rest of an answer is that begins with word.                *)
LengthLeft(c, word) ==
    IF UserAt(c, "value") THEN 1
    ELSE IF UserAt(c, "length") THEN 2
    ELSE IF IsGet(user[c].request) /\ word = 1 THEN 3
    ELSE 1

BeingServed(c) ==
    /\ Requesting(c) /\ Asked(c) /\ user[c].request \in Request
    /\ words["server"][c] = <<>> /\ words["client"][c] = <<>>
    /\ Refusal(local[c].op, local[c].key, local[c].value) = <<>>
    /\ IF pc[c] = "unlock"
       THEN IsSeq(local[c].answer) /\ Len(local[c].answer) = LengthLeft(c, local[c].answer[1])
       ELSE local[c].answer = <<>>

BeingAnswered(c) ==
    /\ user[c].at \in {"asked", "length", "value"}
    /\ words["server"][c] = <<>>
    /\ \/ pc[c] = "answer" /\ local[c].answer # <<>> /\ local[c].op # 3
       \/ pc[c] = "command" /\ local[c].answer = <<>>
    /\ IsSeq(words["client"][c]) /\ IsSeq(local[c].answer)
    /\ Len(AnswerLeft(c)) = LengthLeft(c, AnswerLeft(c)[1])

Leaving(c) ==
    \/ /\ UserAt(c, "leaving")
       /\ peer["client"][c] = "open"
       /\ \/ pc[c] \in {"none", "command"} /\ words["server"][c] = <<3>> /\ NoAnswer(c)
          \/ /\ pc[c] = "answer" /\ local[c].op = 3
             /\ words["client"][c] = <<>> /\ local[c].answer = <<1>>
    \/ /\ user[c].at \in {"leaving", "left"}
       /\ pc[c] \in {"close", "ended"}

Connected(c) ==
    /\ peer["server"][c] = "open"
    /\ \/ /\ peer["client"][c] = "open"
          /\ Idle(c) \/ OnItsWay(c) \/ BeingServed(c) \/ BeingAnswered(c)
       \/ Leaving(c)

Away(c) ==
    /\ UserAt(c, "gone")
    /\ peer["server"][c] \notin {"none", "open"}
    /\ c \notin Dying => pc[c] \in {"close", "ended"}

Related(c) == NotConnected(c) \/ Connected(c) \/ Away(c)

UserFields ==
    /\ DOMAIN user = Client
    /\ \A c \in Client : DOMAIN user[c] = {"at", "asks", "request", "code", "result"}

ThreadFields ==
    /\ DOMAIN pc = Client /\ DOMAIN local = Client
    /\ \A c \in Client : DOMAIN local[c] = {"code", "op", "key", "value", "answer"}

WireFields ==
    /\ DOMAIN words = End /\ DOMAIN peer = End
    /\ \A e \in End : DOMAIN words[e] = Client /\ DOMAIN peer[e] = Client

InStep ==
    /\ UserFields /\ ThreadFields /\ WireFields
    /\ state # "dead" => \A c \in Client : Related(c)

(* Every request takes effect in one step between its first and its last   *)
(* message, in spite of the two steps of myjql_set, and the answer the     *)
(* caller gets is the one of that step.                                    *)
Waiting(c) == user[c].at \in {"asked", "length", "value"}

Done(c) ==
    \/ pc[c] \in {"replace", "unlock", "answer"}
    \/ pc[c] = "command" /\ words["server"][c] = <<>>

(* What the caller of a request that is done will be told.                 *)
ToldWords(c) ==
    words["client"][c] \o IF pc[c] = "replace" THEN <<1>> ELSE local[c].answer

Told(c) ==
    LET ws == ToldWords(c) IN
      IF UserAt(c, "asked") /\ Len(ws) = 1
      THEN Verdict(user[c].request, ws[1])
      ELSE ws[Len(ws)]

Stage(c) == IF ~Waiting(c) THEN "idle" ELSE IF Done(c) THEN "done" ELSE "asked"

Reply(c) == IF Waiting(c) /\ Done(c) THEN Told(c) ELSE user[c].result

Replaces(c, s) == pc[c] = "replace" /\ local[c].key = s

ValueOf(s) ==
    IF \E c \in Client : Replaces(c, s)
    THEN local[CHOOSE c \in Client : Replaces(c, s)].value
    ELSE db[s]

Promised == INSTANCE Service WITH
    store <- [s \in Str |-> ValueOf(s)],
    stage <- [c \in Client |-> Stage(c)],
    request <- [c \in Client |-> user[c].request],
    reply <- [c \in Client |-> Reply(c)]

ImplementsService == Promised!Spec

(* Why, as long as no signal arrives and no client dies: the server goes   *)
(* on, and a value that is sent has the length that is sent before it.     *)
Undisturbed ==
    /\ state = "serving"
    /\ signals = 0 /\ \A t \in Thread : handler[t] = "no"
    /\ DOMAIN db = Str

Measured(c) ==
    Waiting(c) /\ Done(c) =>
      LET ws == ToldWords(c)
          n == Len(ws)
      IN  IF UserAt(c, "value") THEN user[c].code = LenOf[ws[n]]
          ELSE n > 1 => ws[n - 1] = LenOf[ws[n]]

AsPromised == Undisturbed /\ \A c \in Client : Measured(c)

(* Every request is answered, and the thread of a client that has left     *)
(* ends.                                                                   *)
Answered == \A c \in Client : Waiting(c) ~> ~Waiting(c)

LeftThreadsEnd == \A c \in Client : UserAt(c, "gone") ~> pc[c] = "ended"

(* A signal ends the server, however its threads go on meanwhile, unless   *)
(* it leaves a thread in a circle: the handler (myjqlserver.c:407) waits   *)
(* for the mutex that its own thread owns, or its thread was interrupted   *)
(* inside printf and the owner of the mutex has a line to print (171, 298, *)
(* 356, 404, 411).  No other wait for the mutex or for stdout lasts.       *)
WaitsToPrint(t) == IF handler[t] = "no" THEN line[t] ELSE handler[t] \in {"print", "unlock"}

WaitsForItself(t) ==
    /\ handler[t] = "lock"
    /\ \/ owner = t
       \/ stdout = t /\ owner \in Thread /\ WaitsToPrint(owner)

StopsUnlessCircle ==
    \A t \in Thread :
      handler[t] # "no" ~> state = "dead" \/ \E u \in Thread : WaitsForItself(u)

(* Any signal ends the server: "Terminating server." (myjqlserver.c:404).  *)
SignalStops == \A t \in Thread : handler[t] # "no" ~> state = "dead"

(* A client tells its caller that a request is done only if the server has *)
(* sent it 1: "recv: 1 (ok)" (myjqlclient.cpp:205).                        *)
OkIsReceived ==
    [][\A c \in Client :
         user[c].at = "asked" /\ user'[c].at = "idle" /\ user'[c].result = "ok" =>
           words["client"][c] # <<>> /\ Head(words["client"][c]) = 1]_vars
=============================================================================
