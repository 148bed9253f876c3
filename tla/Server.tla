------------------------------- MODULE Server -------------------------------
(***************************************************************************)
(* The server process (myjqlserver.c): the main thread, which accepts, a   *)
(* thread per client (InstanceThread), the mutex CriticalSection, and the  *)
(* SIGINT handler, which runs on any of these threads in the middle of     *)
(* what the thread was doing.  The database is what Store promises, a map  *)
(* from keys to values, except that setting a key that exists is not one   *)
(* step: myjql_set deletes the key from the index and inserts it again.    *)
(*                                                                         *)
(* recv returning 0 is no error in this code: the variable it should have  *)
(* filled keeps what was in it, which for a fresh key or value is garbage. *)
(*                                                                         *)
(* What printf writes is left out, but not that it locks stdout while it   *)
(* writes: a thread that is interrupted inside printf keeps that lock for  *)
(* good, since the handler does not return.  The handler's own printf goes *)
(* through if its thread is the one that holds the lock.  Other locks of   *)
(* the C library (of malloc) are left out.                                 *)
(***************************************************************************)
EXTENDS Wire

CONSTANTS
    Main,         \* the main thread; the thread of a client has its name
    MAX_STR_LEN,
    MaxSignals,   \* bound on the signals that arrive
    Destroyed     \* the owner of a mutex that is destroyed

Thread == Client \cup {Main}

(* The values of code: 4 stands for all that are no command.               *)
Code == 0 .. 4

ASSUME ServerAssumption ==
    /\ Main \notin Client
    /\ None \notin Thread
    /\ Destroyed \notin Thread \cup {None}
    /\ MAX_STR_LEN \in Nat
    /\ MaxSignals \in Nat

VARIABLES
    state,    \* of the process: "serving", "closed" (the pools), "exiting" or "dead"
    owner,    \* the thread that owns CriticalSection
    db,       \* the value of every key, in the pools
    saved,    \* what myjql_close wrote to the files
    pc,       \* where the thread of a client is
    local,    \* its local variables
    handler,  \* where the SIGINT handler of a thread is, "no" if it is not running
    signals,  \* signals so far
    line,     \* whether a thread has a line to print before it goes on
    stdout    \* the thread that was interrupted while it held the lock of stdout

process == <<state, owner, db, saved, handler, signals>>
output == <<line, stdout>>
server == <<process, output, pc, local>>

NoLocals == [code |-> None, op |-> None, key |-> None, value |-> None, answer |-> <<>>]

ServerInit ==
    /\ state = "serving"
    /\ owner = None
    /\ db = [s \in Str |-> None]
    /\ saved = db
    /\ pc = [c \in Client |-> "none"]
    /\ local = [c \in Client |-> NoLocals]
    /\ handler = [t \in Thread |-> "no"]
    /\ signals = 0
    /\ line = [t \in Thread |-> t = Main]
    /\ stdout = None

(* A thread does not go on while the handler runs on it.                   *)
Runs(t) == state # "dead" /\ handler[t] = "no"

At(c, l) == Runs(c) /\ ~line[c] /\ pc[c] = l

GoesTo(c, l) == pc' = [pc EXCEPT ![c] = l]

(* The end of the process, by exit, SIGPIPE or a crash.  Connections that  *)
(* were not accepted are reset.                                            *)
Die ==
    /\ state' = "dead"
    /\ Ends("server", Client, <<>>, {c \in Client : pc[c] = "none"})
    /\ UNCHANGED <<owner, db, saved, handler, signals, output, pc, local>>

(* printf, a step of its own after the one it belongs to, in which SIGINT  *)
(* may arrive.  When none can any more, and nobody keeps stdout, no printf *)
(* waits and it is no step: that saves states and no behaviour.            *)
PrintsAtOnce == signals = MaxSignals /\ stdout = None

WillPrint(ts) ==
    /\ line' = IF PrintsAtOnce THEN line ELSE [t \in Thread |-> line[t] \/ t \in ts]
    /\ UNCHANGED stdout

MayPrint(t) == stdout \in {None, t}

Prints(t) ==
    /\ Runs(t)
    /\ line[t]
    /\ MayPrint(t)
    /\ line' = [line EXCEPT ![t] = FALSE]
    /\ UNCHANGED <<process, stdout, pc, local, wire>>

(* pthread_mutex_lock and _unlock fail on a mutex that is destroyed, which *)
(* nobody looks at.  Faulty variants: a lock that does not wait; an unlock *)
(* that is missing.                                                        *)
Locks_Always(t) == owner' = t

Locks(t) ==
    \/ owner = None /\ owner' = t
    \/ owner = Destroyed /\ UNCHANGED owner

Unlocks_Forgotten(t) == UNCHANGED owner

Unlocks(t) == owner' = IF owner = t THEN None ELSE owner

-----------------------------------------------------------------------------
(* The main thread.  Once the listening socket is closed, accept fails.    *)
Accept(c) ==
    /\ Runs(Main) /\ ~line[Main]
    /\ state # "exiting"
    /\ pc[c] = "none"
    /\ peer["server"][c] # "none"
    /\ GoesTo(c, "command")
    /\ WillPrint({c, Main})
    /\ UNCHANGED <<process, local, wire>>

AcceptFails ==
    /\ Runs(Main) /\ ~line[Main]
    /\ state = "exiting"
    /\ WillPrint({Main})
    /\ UNCHANGED <<process, pc, local, wire>>

-----------------------------------------------------------------------------
(* A thread receives.  Received is what the variable may hold then.        *)
Recv(c) == Gets("server", c) \/ GetsEnd("server", c)

Received(c, stale) ==
    IF words["server"][c] # <<>> THEN {Head(words["server"][c])} ELSE stale

StaleCode(c) == IF local[c].code = None THEN Code ELSE {local[c].code}

Garbage(n) == {s \in Str : LenOf[s] = n}

RecvCommand(c) ==
    /\ At(c, "command")
    /\ Recv(c)
    /\ \E code \in Received(c, StaleCode(c)) :
         /\ local' = [local EXCEPT ![c].code = code, ![c].op = code,
                                   ![c].answer = IF code = 3 THEN <<1>> ELSE <<>>]
         /\ GoesTo(c, IF code \in 0 .. 2 THEN "key_len" ELSE IF code = 3 THEN "answer" ELSE "command")
    /\ UNCHANGED <<process, output>>

RecvKeyLen(c) ==
    /\ At(c, "key_len")
    /\ Recv(c)
    /\ \E code \in Received(c, StaleCode(c)) : local' = [local EXCEPT ![c].code = code]
    /\ GoesTo(c, "key")
    /\ UNCHANGED <<process, output>>

TooLong(s) == LenOf[s] > MAX_STR_LEN

(* A string that is too long is refused, the key first.                    *)
Refusal(op, key, value) ==
    IF TooLong(key) THEN <<2>>
    ELSE IF op = 1 /\ TooLong(value) THEN <<3>>
    ELSE <<>>

(* Once all is received, and printed.                                      *)
Decide(c, key, value) ==
    LET refusal == Refusal(local[c].op, key, value) IN
      /\ local' = [local EXCEPT ![c].key = key, ![c].value = value, ![c].answer = refusal,
                                ![c].code = IF refusal = <<>> THEN @ ELSE Head(refusal)]
      /\ GoesTo(c, IF refusal = <<>> THEN "lock" ELSE "answer")
      /\ WillPrint({c})

RecvKey(c) ==
    /\ At(c, "key")
    /\ Recv(c)
    /\ \E key \in Received(c, Garbage(local[c].code)) :
         IF local[c].op = 1
         THEN /\ local' = [local EXCEPT ![c].key = key]
              /\ GoesTo(c, "value_len")
              /\ UNCHANGED output
         ELSE Decide(c, key, None)
    /\ UNCHANGED process

RecvValueLen(c) ==
    /\ At(c, "value_len")
    /\ Recv(c)
    /\ \E code \in Received(c, StaleCode(c)) : local' = [local EXCEPT ![c].code = code]
    /\ GoesTo(c, "value")
    /\ UNCHANGED <<process, output>>

(* Faulty variant: key and value are mixed up.                             *)
RecvValue_Swapped(c) ==
    /\ At(c, "value")
    /\ Recv(c)
    /\ \E value \in Received(c, Garbage(local[c].code)) : Decide(c, value, local[c].key)
    /\ UNCHANGED process

RecvValue(c) ==
    /\ At(c, "value")
    /\ Recv(c)
    /\ \E value \in Received(c, Garbage(local[c].code)) : Decide(c, local[c].key, value)
    /\ UNCHANGED process

(* recv or send returns -1: that is printed, the socket is closed and the  *)
(* thread ends.                                                            *)
Fails(c) ==
    /\ \/ /\ \E l \in {"command", "key_len", "key", "value_len", "value"} : At(c, l)
          /\ GetsError("server", c)
       \/ At(c, "answer") /\ SendFails("server", c)
    /\ GoesTo(c, "ended")
    /\ WillPrint({c})
    /\ UNCHANGED <<process, local>>

-----------------------------------------------------------------------------
(* A thread uses the database, and prints that it has before it unlocks.   *)
LockedCall(c) ==
    /\ At(c, "lock")
    /\ Locks(c)
    /\ GoesTo(c, "call")
    /\ UNCHANGED <<state, db, saved, handler, signals, output, local, wire>>

Found(v) == <<1, LenOf[v], v>>

Get(c) ==
    /\ At(c, "call")
    /\ local[c].op = 0
    /\ LET value == db[local[c].key] IN
         local' = [local EXCEPT ![c].answer = IF value = None THEN <<0>> ELSE Found(value)]
    /\ GoesTo(c, "unlock")
    /\ WillPrint({c})
    /\ UNCHANGED <<process, wire>>

(* Setting a key that is not there, or that was taken out by the step      *)
(* before.                                                                 *)
Set(c) ==
    /\ local[c].op = 1
    /\ \/ At(c, "call") /\ db[local[c].key] = None
       \/ At(c, "replace")
    /\ db' = [db EXCEPT ![local[c].key] = local[c].value]
    /\ local' = [local EXCEPT ![c].answer = <<1>>]
    /\ GoesTo(c, "unlock")
    /\ WillPrint({c})
    /\ UNCHANGED <<state, owner, saved, handler, signals, wire>>

TakeOutOld(c) ==
    /\ At(c, "call")
    /\ local[c].op = 1
    /\ db[local[c].key] # None
    /\ db' = [db EXCEPT ![local[c].key] = None]
    /\ GoesTo(c, "replace")
    /\ UNCHANGED <<state, owner, saved, handler, signals, output, local, wire>>

Del(c) ==
    /\ At(c, "call")
    /\ local[c].op = 2
    /\ db' = [db EXCEPT ![local[c].key] = None]
    /\ local' = [local EXCEPT ![c].answer = <<1>>]
    /\ GoesTo(c, "unlock")
    /\ WillPrint({c})
    /\ UNCHANGED <<state, owner, saved, handler, signals, wire>>

(* On closed pools a call works as long as its pages are in the frames;    *)
(* with a page that is not, it uses a file that is closed.                 *)
CallCrashes(c) ==
    /\ At(c, "call") \/ At(c, "replace")
    /\ state # "serving"
    /\ Die

UnlockedCall(c) ==
    /\ At(c, "unlock")
    /\ Unlocks(c)
    /\ GoesTo(c, "answer")
    /\ UNCHANGED <<state, db, saved, handler, signals, output, local, wire>>

-----------------------------------------------------------------------------
(* A thread answers, one send per word.  code keeps the last number sent.  *)
(* Faulty variant: the loop is not left when the client exits.             *)
AfterAnswer_Loops(op) == "command"

AfterAnswer(op) == IF op = 3 THEN "close" ELSE "command"

Answer(c) ==
    /\ At(c, "answer")
    /\ Sends("server", c, <<Head(local[c].answer)>>)
    /\ LET word == Head(local[c].answer)
           rest == Tail(local[c].answer)
           code == IF word \in Code THEN word ELSE local[c].code
       IN
         IF rest # <<>>
         THEN local' = [local EXCEPT ![c].code = code, ![c].answer = rest] /\ UNCHANGED pc
         ELSE /\ local' = [local EXCEPT ![c] = [NoLocals EXCEPT !.code = code]]
              /\ GoesTo(c, AfterAnswer(local[c].op))
    /\ UNCHANGED <<process, output>>

(* SIGPIPE is neither caught nor ignored.                                  *)
AnswerBreaks(c) ==
    /\ At(c, "answer")
    /\ SendBreaks("server", c)
    /\ Die

CloseConnection(c) ==
    /\ At(c, "close")
    /\ Closes("server", {c}, <<>>)
    /\ GoesTo(c, "ended")
    /\ WillPrint({c})
    /\ UNCHANGED <<process, local>>

InstanceThread(c) ==
    \/ RecvCommand(c) \/ RecvKeyLen(c) \/ RecvKey(c) \/ RecvValueLen(c) \/ RecvValue(c)
    \/ Fails(c)
    \/ LockedCall(c) \/ Get(c) \/ Set(c) \/ TakeOutOld(c) \/ Del(c) \/ UnlockedCall(c)
    \/ CallCrashes(c)
    \/ Answer(c) \/ AnswerBreaks(c)
    \/ CloseConnection(c)
    \/ Prints(c)

-----------------------------------------------------------------------------
(* SIGINT is delivered to one of the threads that exist, which may be      *)
(* inside printf.                                                          *)
Interrupt(t) ==
    /\ Runs(t)
    /\ t \in {Main} \cup {c \in Client : pc[c] \notin {"none", "ended"} \/ line[c]}
    /\ signals < MaxSignals
    /\ signals' = signals + 1
    /\ handler' = [handler EXCEPT ![t] = "print"]
    /\ stdout' \in IF line[t] /\ stdout = None THEN {None, t} ELSE {stdout}
    /\ UNCHANGED <<state, owner, db, saved, pc, local, line, wire>>

In(t, l) == state # "dead" /\ handler[t] = l

HandlerGoesTo(t, l) == handler' = [handler EXCEPT ![t] = l]

(* "Ctrl-C event", "Terminating server."                                   *)
ExitPrints(t) ==
    /\ In(t, "print")
    /\ MayPrint(t)
    /\ HandlerGoesTo(t, "lock")
    /\ UNCHANGED <<state, owner, db, saved, signals, output, pc, local, wire>>

(* Faulty variant: the handler does not wait for the mutex.                *)
ExitLocks_NoWait(t) ==
    /\ In(t, "lock")
    /\ HandlerGoesTo(t, "close")
    /\ UNCHANGED <<state, owner, db, saved, signals, output, pc, local, wire>>

ExitLocks(t) ==
    /\ In(t, "lock")
    /\ Locks(t)
    /\ HandlerGoesTo(t, "close")
    /\ UNCHANGED <<state, db, saved, signals, output, pc, local, wire>>

(* myjql_close.  A second handler closes files that are closed.            *)
ExitCloses(t) ==
    /\ In(t, "close")
    /\ IF state = "serving"
       THEN state' = "closed" /\ saved' = db
       ELSE UNCHANGED <<state, saved>>
    /\ HandlerGoesTo(t, "unlock")
    /\ UNCHANGED <<owner, db, signals, output, pc, local, wire>>

ExitCrashes(t) == In(t, "close") /\ state # "serving" /\ Die

(* After it has printed "myjql_close".                                     *)
ExitUnlocks(t) ==
    /\ In(t, "unlock")
    /\ MayPrint(t)
    /\ Unlocks(t)
    /\ HandlerGoesTo(t, "cleanup")
    /\ UNCHANGED <<state, db, saved, signals, output, pc, local, wire>>

(* The listening socket is closed; a mutex in use is not destroyed.         *)
ExitCleansUp(t) ==
    /\ In(t, "cleanup")
    /\ state' = "exiting"
    /\ owner' = IF owner = None THEN Destroyed ELSE owner
    /\ HandlerGoesTo(t, "exit")
    /\ UNCHANGED <<db, saved, signals, output, pc, local, wire>>

Exits(t) == In(t, "exit") /\ Die

exit_nicely(t) ==
    ExitPrints(t) \/ ExitLocks(t) \/ ExitCloses(t) \/ ExitCrashes(t) \/ ExitUnlocks(t)
      \/ ExitCleansUp(t) \/ Exits(t)

ServerNext ==
    \/ \E c \in Client : Accept(c) \/ InstanceThread(c)
    \/ AcceptFails \/ Prints(Main)
    \/ \E t \in Thread : Interrupt(t) \/ exit_nicely(t)
=============================================================================
