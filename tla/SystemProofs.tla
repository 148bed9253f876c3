--------------------------- MODULE SystemProofs ----------------------------
(***************************************************************************)
(* Proofs about System, for any number of clients and signals, any         *)
(* requests, and clients that may die at any point: the database is used   *)
(* by one thread at a time, a shutdown saves it between two calls, and a   *)
(* thread is always in step with its client, so that it calls the database *)
(* for what was asked and nothing else.  The last part shows that server   *)
(* and clients together implement Service.                                 *)
(***************************************************************************)
EXTENDS System, TLAPS

USE DEF Thread

LEMMA InitInv == Init => IInv
<1> SUFFICES ASSUME Init PROVE IInv
  OBVIOUS
<1>1. /\ owner = None
      /\ pc = [c \in Client |-> "none"]
      /\ handler = [t \in Thread |-> "no"]
  BY DEF Init, ServerInit
<1> QED
  BY <1>1, ServerAssumption
     DEF IInv, Functions, OwnerInside, NotPastClosing, NotBoth, Calls, Closing

-----------------------------------------------------------------------------
(* What most steps do to the invariant.                                    *)

(* Steps that move no thread.                                              *)
LEMMA NoMove ==
    ASSUME IInv, UNCHANGED <<state, owner, pc, handler>>
    PROVE  IInv'
BY DEF IInv, Functions, OwnerInside, NotPastClosing, NotBoth, Calls, Closing

(* The end of the process, and all that follows the closing.               *)
LEMMA NotServing ==
    ASSUME Functions', state' # "serving"
    PROVE  IInv'
BY DEF IInv

(* A thread that goes on outside the database, or within it.               *)
LEMMA ThreadMoves ==
    ASSUME IInv, NEW c \in Client, NEW l, GoesTo(c, l),
           UNCHANGED <<state, owner, handler>>,
           Calls(c) \/ l \notin {"call", "replace", "unlock"},
           handler[c] = "no"
    PROVE  IInv'
<1>1. Functions'
  BY DEF IInv, Functions, GoesTo
<1>2. CASE state # "serving"
  BY <1>1, <1>2, NotServing
<1>3. CASE state = "serving"
  <2>1. ASSUME NEW t \in Thread PROVE Calls(t)' => Calls(t)
    BY DEF Calls, GoesTo, IInv, Functions
  <2>2. ASSUME NEW t \in Thread PROVE Closing(t)' = Closing(t)
    BY DEF Closing
  <2>3. OwnerInside' /\ NotPastClosing' /\ NotBoth'
    BY <1>3, <2>1, <2>2 DEF IInv, OwnerInside, NotPastClosing, NotBoth
  <2> QED
    BY <1>1, <2>3 DEF IInv
<1> QED
  BY <1>2, <1>3

-----------------------------------------------------------------------------
(* The steps of the thread of a client that need more.                     *)

LEMMA LockKeeps ==
    ASSUME IInv, NEW c \in Client, LockedCall(c)
    PROVE  IInv'
<1>1. /\ handler[c] = "no" /\ GoesTo(c, "call")
      /\ UNCHANGED <<state, handler>> /\ Locks(c)
  BY DEF LockedCall, At, Runs
<1>2. Functions'
  BY <1>1 DEF IInv, Functions, GoesTo
<1>3. CASE state # "serving"
  BY <1>1, <1>2, <1>3, NotServing
<1>4. CASE state = "serving"
  <2>1. owner = None /\ owner' = c
    BY <1>1, <1>4 DEF IInv, OwnerInside, Locks
  <2>2. \A t \in Thread : ~Calls(t) /\ ~Closing(t)
    BY <1>4, <2>1, ServerAssumption DEF IInv, OwnerInside
  <2>3. \A t \in Thread : ~Closing(t)' /\ (Calls(t)' => t = c)
    BY <1>1, <2>2 DEF Calls, Closing, GoesTo, IInv, Functions
  <2>4. OwnerInside' /\ NotBoth'
    BY <2>1, <2>3, ServerAssumption DEF OwnerInside, NotBoth
  <2>5. NotPastClosing'
    BY <1>1, <1>4 DEF IInv, NotPastClosing
  <2> QED
    BY <1>2, <2>4, <2>5 DEF IInv
<1> QED
  BY <1>3, <1>4

LEMMA UnlockKeeps ==
    ASSUME IInv, NEW c \in Client, UnlockedCall(c)
    PROVE  IInv'
<1>1. /\ handler[c] = "no" /\ pc[c] = "unlock" /\ GoesTo(c, "answer")
      /\ UNCHANGED <<state, handler>> /\ Unlocks(c)
  BY DEF UnlockedCall, At, Runs
<1>2. Functions'
  BY <1>1 DEF IInv, Functions, GoesTo
<1>3. CASE state # "serving"
  BY <1>1, <1>2, <1>3, NotServing
<1>4. CASE state = "serving"
  <2>1. owner = c /\ owner' = None
    BY <1>1, <1>4 DEF IInv, OwnerInside, Calls, Unlocks
  <2>2. \A t \in Thread : t # c => ~Calls(t) /\ ~Closing(t)
    BY <1>4, <2>1 DEF IInv, OwnerInside
  <2>3. \A t \in Thread : ~Calls(t)' /\ ~Closing(t)'
    BY <1>1, <2>2 DEF Calls, Closing, GoesTo, IInv, Functions
  <2>4. OwnerInside' /\ NotBoth'
    BY <2>1, <2>3, ServerAssumption DEF OwnerInside, NotBoth
  <2>5. NotPastClosing'
    BY <1>1, <1>4 DEF IInv, NotPastClosing
  <2> QED
    BY <1>2, <2>4, <2>5 DEF IInv
<1> QED
  BY <1>3, <1>4

LEMMA DieKeeps ==
    ASSUME IInv, Die
    PROVE  IInv'
<1>1. Functions'
  BY DEF IInv, Functions, Die
<1> QED
  BY <1>1, NotServing DEF Die

LEMMA ThreadKeeps ==
    ASSUME IInv, NEW c \in Client, InstanceThread(c)
    PROVE  IInv'
<1>1. CASE RecvCommand(c)
  <2>1. PICK l \in {"key_len", "answer", "command"} : GoesTo(c, l)
    BY <1>1 DEF RecvCommand
  <2> QED
    BY <1>1, <2>1, ThreadMoves DEF RecvCommand, At, Runs, process
<1>2. CASE RecvKeyLen(c)
  BY <1>2, ThreadMoves DEF RecvKeyLen, At, Runs, process
<1>3. CASE RecvKey(c)
  <2>1. PICK l \in {"value_len", "lock", "answer"} : GoesTo(c, l)
    BY <1>3 DEF RecvKey, Decide
  <2> QED
    BY <1>3, <2>1, ThreadMoves DEF RecvKey, At, Runs, process
<1>4. CASE RecvValueLen(c)
  BY <1>4, ThreadMoves DEF RecvValueLen, At, Runs, process
<1>5. CASE RecvValue(c)
  <2>1. PICK l \in {"lock", "answer"} : GoesTo(c, l)
    BY <1>5 DEF RecvValue, Decide
  <2> QED
    BY <1>5, <2>1, ThreadMoves DEF RecvValue, At, Runs, process
<1>6. CASE Fails(c)
  BY <1>6, ThreadMoves DEF Fails, At, Runs, process
<1>7. CASE LockedCall(c)
  BY <1>7, LockKeeps
<1>8. CASE Get(c)
  BY <1>8, ThreadMoves DEF Get, At, Runs, process, Calls
<1>9. CASE Set(c)
  BY <1>9, ThreadMoves DEF Set, At, Runs, Calls
<1>10. CASE TakeOutOld(c)
  BY <1>10, ThreadMoves DEF TakeOutOld, At, Runs, Calls
<1>11. CASE Del(c)
  BY <1>11, ThreadMoves DEF Del, At, Runs, Calls
<1>12. CASE UnlockedCall(c)
  BY <1>12, UnlockKeeps
<1>13. CASE CallCrashes(c) \/ AnswerBreaks(c)
  BY <1>13, DieKeeps DEF CallCrashes, AnswerBreaks
<1>14. CASE Answer(c)
  <2>1. CASE UNCHANGED pc
    BY <1>14, <2>1, NoMove DEF Answer, process
  <2>2. CASE GoesTo(c, AfterAnswer(local[c].op))
    <3>1. AfterAnswer(local[c].op) \notin {"call", "replace", "unlock"}
      BY DEF AfterAnswer
    <3> QED
      BY <1>14, <2>2, <3>1, ThreadMoves DEF Answer, At, Runs, process
  <2> QED
    BY <1>14, <2>1, <2>2 DEF Answer
<1>15. CASE CloseConnection(c)
  BY <1>15, ThreadMoves DEF CloseConnection, At, Runs, process
<1>16. CASE Prints(c)
  BY <1>16, NoMove DEF Prints, process
<1> QED
  BY <1>1, <1>2, <1>3, <1>4, <1>5, <1>6, <1>7, <1>8, <1>9, <1>10, <1>11, <1>12,
     <1>13, <1>14, <1>15, <1>16 DEF InstanceThread

-----------------------------------------------------------------------------
(* The signal handler.                                                     *)

LEMMA InterruptKeeps ==
    ASSUME IInv, NEW t \in Thread, Interrupt(t)
    PROVE  IInv'
<1>1. /\ handler' = [handler EXCEPT ![t] = "print"]
      /\ UNCHANGED <<state, owner, pc>>
  BY DEF Interrupt
<1>2. Functions'
  BY <1>1 DEF IInv, Functions
<1>3. \A u \in Thread : Calls(u)' = Calls(u) /\ (Closing(u)' => Closing(u))
  BY <1>1 DEF Calls, Closing, IInv, Functions
<1>4. NotPastClosing => NotPastClosing'
  BY <1>1 DEF NotPastClosing, IInv, Functions
<1> QED
  BY <1>1, <1>2, <1>3, <1>4 DEF IInv, OwnerInside, NotBoth

LEMMA ExitLocksKeeps ==
    ASSUME IInv, NEW t \in Thread, ExitLocks(t)
    PROVE  IInv'
<1>1. /\ handler' = [handler EXCEPT ![t] = "close"]
      /\ UNCHANGED <<state, pc>> /\ Locks(t)
  BY DEF ExitLocks, HandlerGoesTo
<1>2. Functions'
  BY <1>1 DEF IInv, Functions
<1>3. CASE state # "serving"
  BY <1>1, <1>2, <1>3, NotServing
<1>4. CASE state = "serving"
  <2>1. owner = None /\ owner' = t
    BY <1>1, <1>4 DEF IInv, OwnerInside, Locks
  <2>2. \A u \in Thread : ~Calls(u) /\ ~Closing(u)
    BY <1>4, <2>1, ServerAssumption DEF IInv, OwnerInside
  <2>3. \A u \in Thread : ~Calls(u)' /\ (Closing(u)' => u = t)
    BY <1>1, <2>2 DEF Calls, Closing, IInv, Functions
  <2>4. OwnerInside' /\ NotBoth'
    BY <2>1, <2>3, ServerAssumption DEF OwnerInside, NotBoth
  <2>5. NotPastClosing'
    BY <1>1, <1>4 DEF IInv, NotPastClosing, Functions
  <2> QED
    BY <1>2, <2>4, <2>5 DEF IInv
<1> QED
  BY <1>3, <1>4

LEMMA HandlerKeeps ==
    ASSUME IInv, NEW t \in Thread, exit_nicely(t)
    PROVE  IInv'
<1>1. CASE ExitLocks(t)
  BY <1>1, ExitLocksKeeps
<1>2. CASE ExitCloses(t)
  <2>1. Functions' /\ state' # "serving"
    BY <1>2 DEF ExitCloses, HandlerGoesTo, IInv, Functions
  <2> QED
    BY <2>1, NotServing
<1>3. CASE ExitCrashes(t) \/ Exits(t)
  BY <1>3, DieKeeps DEF ExitCrashes, Exits
<1>4. CASE ExitUnlocks(t)
  <2>1. state # "serving"
    BY <1>4 DEF ExitUnlocks, In, IInv, NotPastClosing
  <2>2. Functions' /\ state' # "serving"
    BY <1>4, <2>1 DEF ExitUnlocks, HandlerGoesTo, IInv, Functions
  <2> QED
    BY <2>2, NotServing
<1>5. CASE ExitCleansUp(t)
  <2>1. Functions' /\ state' # "serving"
    BY <1>5 DEF ExitCleansUp, HandlerGoesTo, IInv, Functions
  <2> QED
    BY <2>1, NotServing
<1>6. CASE ExitPrints(t)
  <2>1. /\ handler' = [handler EXCEPT ![t] = "lock"]
        /\ UNCHANGED <<state, owner, pc>>
    BY <1>6 DEF ExitPrints, HandlerGoesTo
  <2>2. Functions'
    BY <2>1 DEF IInv, Functions
  <2>3. \A u \in Thread : Calls(u)' = Calls(u) /\ (Closing(u)' => Closing(u))
    BY <2>1 DEF Calls, Closing, IInv, Functions
  <2>4. NotPastClosing => NotPastClosing'
    BY <2>1 DEF NotPastClosing, IInv, Functions
  <2> QED
    BY <2>1, <2>2, <2>3, <2>4 DEF IInv, OwnerInside, NotBoth
<1> QED
  BY <1>1, <1>2, <1>3, <1>4, <1>5, <1>6 DEF exit_nicely

-----------------------------------------------------------------------------
LEMMA NextKeeps == IInv /\ [Next]_vars => IInv'
<1> SUFFICES ASSUME IInv, [Next]_vars PROVE IInv'
  OBVIOUS
<1>1. CASE UNCHANGED vars
  BY <1>1, NoMove DEF vars, server, process
<1>2. ASSUME NEW c \in Client, ClientStep(c) PROVE IInv'
  BY <1>2, NoMove DEF ClientStep, server, process
<1>3. ASSUME NEW c \in Client, Accept(c) PROVE IInv'
  <2>1. CASE handler[c] = "no"
    BY <1>3, <2>1, ThreadMoves DEF Accept, process
  <2>2. CASE handler[c] # "no"
    BY <1>3, <2>2 DEF Accept, process, GoesTo, IInv, Functions, OwnerInside, NotPastClosing,
                      NotBoth, Calls, Closing
  <2> QED
    BY <2>1, <2>2
<1>4. ASSUME NEW c \in Client, InstanceThread(c) PROVE IInv'
  BY <1>4, ThreadKeeps
<1>5. ASSUME NEW t \in Thread, Interrupt(t) \/ exit_nicely(t) PROVE IInv'
  BY <1>5, InterruptKeeps, HandlerKeeps
<1>6. CASE AcceptFails \/ Prints(Main)
  BY <1>6, NoMove DEF AcceptFails, Prints, process
<1> QED
  BY <1>1, <1>2, <1>3, <1>4, <1>5, <1>6 DEF Next, ServerNext

LEMMA AlwaysIInv == Spec => []IInv
BY InitInv, NextKeeps, PTL DEF Spec

-----------------------------------------------------------------------------
(* The database is used by one thread at a time until it is closed, and by *)
(* none while it is being closed.                                          *)
THEOREM OneThreadInside == Spec => []MutualExclusion
<1>1. IInv => MutualExclusion
  BY DEF IInv, OwnerInside, MutualExclusion
<1> QED
  BY <1>1, AlwaysIInv, PTL

(* A shutdown saves the database between two calls, whatever threads were  *)
(* interrupted and wherever they were.                                     *)
LEMMA SavingStep ==
    ASSUME IInv, [Next]_vars, saved' # saved
    PROVE  \A c \in Client : pc[c] \notin {"call", "replace"}
<1>1. PICK t \in Thread : ExitCloses(t)
  <2>1. ~UNCHANGED vars
    BY DEF vars, server, process
  <2>2. \A c \in Client : ~ClientStep(c)
    BY DEF ClientStep, server, process
  <2>3. ~Die
    BY DEF Die
  <2>4. \A c \in Client : ~Accept(c)
    BY DEF Accept, process
  <2>5. \A c \in Client : ~InstanceThread(c)
    BY <2>3 DEF InstanceThread, RecvCommand, RecvKeyLen, RecvKey, RecvValueLen, RecvValue, Fails,
                LockedCall, Get, Set, TakeOutOld, Del, UnlockedCall, CallCrashes, Answer,
                AnswerBreaks, CloseConnection, Prints, process
  <2>6. \A t \in Thread : Interrupt(t) \/ exit_nicely(t) => ExitCloses(t)
    BY <2>3 DEF Interrupt, exit_nicely, ExitPrints, ExitLocks, ExitCrashes, ExitUnlocks, ExitCleansUp,
                Exits
  <2>7. ~AcceptFails /\ ~Prints(Main)
    BY DEF AcceptFails, Prints, process
  <2> QED
    BY <2>1, <2>2, <2>4, <2>5, <2>6, <2>7 DEF Next, ServerNext
<1>2. state = "serving" /\ Closing(t)
  BY <1>1 DEF ExitCloses, In, Closing
<1>3. \A u \in Thread : Calls(u) => u = t
  BY <1>2 DEF IInv, OwnerInside
<1> QED
  BY <1>2, <1>3 DEF IInv, NotBoth, Calls

THEOREM ShutdownSavesFinishedCalls == Spec => SavesFinishedCalls
<1>1. IInv /\ [Next]_vars =>
        [saved' # saved => \A c \in Client : pc[c] \notin {"call", "replace"}]_vars
  BY SavingStep
<1> QED
  BY <1>1, AlwaysIInv, PTL DEF Spec, SavesFinishedCalls
-----------------------------------------------------------------------------
(* What recv, send and close do to a connection.                           *)
SameWire(d) == \A e \in End : words'[e][d] = words[e][d] /\ peer'[e][d] = peer[e][d]

OthersSameWire(c) == \A d \in Client \ {c} : SameWire(d)

LEMMA GetsIs ==
    ASSUME WireFields, NEW e \in End, NEW c \in Client, Gets(e, c)
    PROVE  /\ WireFields' /\ OthersSameWire(c)
           /\ words[e][c] # <<>> /\ words'[e][c] = Tail(words[e][c])
           /\ words'[OtherEnd(e)][c] = words[OtherEnd(e)][c]
           /\ peer' = peer
BY DEF WireFields, OthersSameWire, SameWire, Gets, End, OtherEnd

LEMMA GetsErrorIs ==
    ASSUME WireFields, NEW e \in End, NEW c \in Client, GetsError(e, c) \/ SendFails(e, c)
    PROVE  /\ WireFields' /\ OthersSameWire(c)
           /\ peer[e][c] = "reset" /\ peer'[e][c] = "broken"
           /\ peer'[OtherEnd(e)][c] = peer[OtherEnd(e)][c]
           /\ words' = words
BY DEF WireFields, OthersSameWire, SameWire, GetsError, SendFails, End, OtherEnd

LEMMA SendsIs ==
    ASSUME WireFields, NEW e \in End, NEW c \in Client, NEW ws, Sends(e, c, ws)
    PROVE  /\ WireFields' /\ OthersSameWire(c)
           /\ words'[e][c] = words[e][c]
           /\ peer'[OtherEnd(e)][c] = peer[OtherEnd(e)][c]
           /\ \/ /\ peer[e][c] = "open" /\ peer' = peer
                 /\ words'[OtherEnd(e)][c] = words[OtherEnd(e)][c] \o ws
              \/ peer[e][c] = "fin" /\ peer'[e][c] \in {"fin", "broken"} /\ words' = words
<1>1. CASE /\ peer[e][c] = "open" /\ peer' = peer
           /\ words' = [words EXCEPT ![OtherEnd(e)][c] = @ \o ws]
  <2> DEFINE w == words[OtherEnd(e)][c] \o ws
  <2>1. words' = [words EXCEPT ![OtherEnd(e)][c] = w]
    BY <1>1
  <2> HIDE DEF w
  <2>2. /\ WireFields' /\ OthersSameWire(c)
        /\ words'[e][c] = words[e][c] /\ words'[OtherEnd(e)][c] = w
    BY <1>1, <2>1 DEF WireFields, OthersSameWire, SameWire, End, OtherEnd
  <2> QED
    BY <1>1, <2>2 DEF w
<1>2. ASSUME peer[e][c] = "fin", words' = words, NEW known \in {"fin", "broken"},
             peer' = [peer EXCEPT ![e][c] = known]
      PROVE  /\ WireFields' /\ OthersSameWire(c)
             /\ peer'[e][c] = known
             /\ peer'[OtherEnd(e)][c] = peer[OtherEnd(e)][c]
  BY <1>2 DEF WireFields, OthersSameWire, SameWire, End, OtherEnd
<1> QED
  BY <1>1, <1>2 DEF Sends

LEMMA EndsIs ==
    ASSUME WireFields, NEW e \in End, NEW cs \in SUBSET Client, NEW ws, NEW unaccepted,
           Ends(e, cs, ws, unaccepted)
    PROVE  /\ WireFields'
           /\ \A d \in Client \ cs : SameWire(d)
           /\ peer'[e] = peer[e]
           /\ \A c \in cs : peer'[OtherEnd(e)][c] =
                IF peer[OtherEnd(e)][c] # "open" THEN peer[OtherEnd(e)][c]
                ELSE IF words[e][c] = <<>> /\ c \notin unaccepted THEN "fin" ELSE "reset"
BY DEF WireFields, SameWire, Ends, End, OtherEnd

LEMMA ClosesIs ==
    ASSUME WireFields, NEW e \in End, NEW cs \in SUBSET Client, NEW ws, Closes(e, cs, ws)
    PROVE  /\ WireFields'
           /\ \A d \in Client \ cs : SameWire(d)
           /\ peer'[e] = peer[e]
           /\ \A c \in cs : peer'[OtherEnd(e)][c] =
                IF peer[OtherEnd(e)][c] # "open" THEN peer[OtherEnd(e)][c]
                ELSE IF words[e][c] = <<>> THEN "fin" ELSE "reset"
BY EndsIs DEF Closes

LEMMA ConnectsIs ==
    ASSUME WireFields, NEW c \in Client, Connects(c)
    PROVE  /\ WireFields' /\ OthersSameWire(c)
           /\ words' = words /\ \A e \in End : peer'[e][c] = "open"
BY DEF WireFields, OthersSameWire, SameWire, Connects, End

-----------------------------------------------------------------------------
(* The words of a connection.                                              *)
LEMMA SeqIs ==
    ASSUME NEW S, NEW s \in Seq(S)
    PROVE  IsSeq(s)
BY DEF IsSeq

LEMMA BothSeqs ==
    ASSUME NEW a, NEW b, IsSeq(a), IsSeq(b)
    PROVE  \E S : a \in Seq(S) /\ b \in Seq(S)
<1> DEFINE A == {a[i] : i \in DOMAIN a}
           B == {b[i] : i \in DOMAIN b}
<1>1. a \in Seq(A) /\ b \in Seq(B)
  BY DEF IsSeq
<1> HIDE DEF A, B
<1>2. a \in Seq(A \cup B) /\ b \in Seq(A \cup B)
  BY <1>1
<1> QED
  BY <1>2

(* A word that goes from the answer into the stream stays left.            *)
LEMMA WordMoves ==
    ASSUME NEW a, NEW b, IsSeq(a), IsSeq(b), b # <<>>
    PROVE  /\ (a \o <<Head(b)>>) \o Tail(b) = a \o b
           /\ IsSeq(a \o <<Head(b)>>) /\ IsSeq(Tail(b))
<1>1. PICK S : a \in Seq(S) /\ b \in Seq(S)
  BY BothSeqs
<1>2. Head(b) \in S /\ Tail(b) \in Seq(S)
  BY <1>1
<1>3. a \o <<Head(b)>> \in Seq(S)
  BY <1>1, <1>2
<1>4. (a \o <<Head(b)>>) \o Tail(b) = a \o b
  BY <1>1, <1>2
<1> QED
  BY <1>2, <1>3, <1>4, SeqIs

(* A word that is heard is the first of what is left.                      *)
LEMMA WordHeard ==
    ASSUME NEW a, NEW b, IsSeq(a), IsSeq(b), a # <<>>
    PROVE  /\ IsSeq(Tail(a)) /\ (a \o b)[1] = Head(a)
           /\ Len(Tail(a) \o b) = Len(a \o b) - 1
           /\ Len(a \o b) = 1 => Tail(a) = <<>> /\ b = <<>>
<1>1. PICK S : a \in Seq(S) /\ b \in Seq(S)
  BY BothSeqs
<1>2. Tail(a) \in Seq(S) /\ Len(Tail(a)) = Len(a) - 1 /\ Len(a) \in Nat \ {0}
  BY <1>1
<1>3. Len(a \o b) = Len(a) + Len(b) /\ (a \o b)[1] = Head(a) /\ Len(b) \in Nat
  BY <1>1, <1>2
<1>4. Len(Tail(a) \o b) = Len(a) - 1 + Len(b)
  BY <1>1, <1>2
<1>5. Len(a \o b) = 1 => Len(Tail(a)) = 0 /\ Len(b) = 0
  BY <1>2, <1>3
<1>6. \A s \in Seq(S) : Len(s) = 0 => s = <<>>
  OBVIOUS
<1>7. IsSeq(Tail(a))
  BY <1>2, SeqIs
<1> QED
  BY <1>1, <1>2, <1>3, <1>4, <1>5, <1>6, <1>7

LEMMA FirstWord ==
    ASSUME NEW S, NEW x \in S, NEW s \in Seq(S)
    PROVE  /\ <<x>> \o s \in Seq(S) /\ <<x>> \o s # <<>>
           /\ Head(<<x>> \o s) = x /\ Tail(<<x>> \o s) = s
           /\ <<>> \o s = s /\ s \o <<>> = s
<1>1. <<x>> \in Seq(S) /\ Len(<<x>>) = 1 /\ <<x>>[1] = x
  OBVIOUS
<1>2. /\ <<x>> \o s \in Seq(S) /\ Len(<<x>> \o s) = 1 + Len(s)
      /\ (<<x>> \o s)[1] = x
  BY <1>1
<1>3. <<x>> \o s # <<>> /\ Head(<<x>> \o s) = x
  BY <1>2
<1>4. Tail(<<x>> \o s) = s
  BY <1>1, <1>2
<1>5. <<>> \o s = s /\ s \o <<>> = s
  OBVIOUS
<1> QED
  BY <1>2, <1>3, <1>4, <1>5

LEMMA TwoWords ==
    ASSUME NEW S, NEW x \in S, NEW y \in S
    PROVE  <<x, y>> = <<x>> \o <<y>>
<1>1. /\ <<x>> \o <<y>> \in Seq(S) /\ <<x, y>> \in Seq(S)
      /\ Len(<<x>> \o <<y>>) = 2 /\ Len(<<x, y>>) = 2
  OBVIOUS
<1>2. (<<x>> \o <<y>>)[1] = x /\ (<<x>> \o <<y>>)[2] = y
  OBVIOUS
<1>3. <<x, y>>[1] = x /\ <<x, y>>[2] = y
  OBVIOUS
<1>4. \A s, t \in Seq(S) : Len(s) = 2 /\ Len(t) = 2 /\ s[1] = t[1] /\ s[2] = t[2] => s = t
  OBVIOUS
<1> QED
  BY <1>1, <1>2, <1>3, <1>4

(* What a request is made of.                                              *)
LEMMA StringWordsAre ==
    ASSUME NEW S, NEW s \in S, LenOf[s] \in S, NEW t \in Seq(S)
    PROVE  /\ StringWords(s) \in Seq(S) /\ Tail(StringWords(s)) = <<s>>
           /\ StringWords(s) \o t \in Seq(S) /\ StringWords(s) \o t # <<>>
           /\ Tail(StringWords(s) \o t) = <<s>> \o t
<1>1. /\ StringWords(s) \in Seq(S)
      /\ StringWords(s) = <<LenOf[s]>> \o <<s>>
  BY TwoWords DEF StringWords
<1>2. <<LenOf[s]>> \in Seq(S) /\ <<s>> \in Seq(S)
  OBVIOUS
<1>3. (<<LenOf[s]>> \o <<s>>) \o t = <<LenOf[s]>> \o (<<s>> \o t)
  BY <1>2
<1>4. <<s>> \o t \in Seq(S)
  BY <1>2
<1>5. /\ Tail(<<LenOf[s]>> \o <<s>>) = <<s>>
  BY <1>2, FirstWord
<1>6. /\ <<LenOf[s]>> \o (<<s>> \o t) \in Seq(S)
      /\ <<LenOf[s]>> \o (<<s>> \o t) # <<>>
      /\ Tail(<<LenOf[s]>> \o (<<s>> \o t)) = <<s>> \o t
  BY <1>4, FirstWord
<1> QED
  BY <1>1, <1>3, <1>5, <1>6

LEMMA RequestWords ==
    ASSUME NEW r \in Request
    PROVE  /\ WordsOf(r) # <<>> /\ Head(WordsOf(r)) = r.code
           /\ Tail(WordsOf(r)) = StringWords(r.key) \o ValueWords(r)
           /\ StringWords(r.key) \o ValueWords(r) # <<>>
           /\ Tail(StringWords(r.key) \o ValueWords(r)) = <<r.key>> \o ValueWords(r)
           /\ <<r.key>> \o ValueWords(r) # <<>>
           /\ Head(<<r.key>> \o ValueWords(r)) = r.key
           /\ Tail(<<r.key>> \o ValueWords(r)) = ValueWords(r)
           /\ Tail(StringWords(r.value)) = <<r.value>>
           /\ IsSet(r) => ValueWords(r) = StringWords(r.value)
           /\ ~IsSet(r) => ValueWords(r) = <<>>
           /\ <<>> \o WordsOf(r) = WordsOf(r)
<1> DEFINE S == {r.code, LenOf[r.key], r.key, LenOf[r.value], r.value}
<1>1. /\ r.code \in S /\ LenOf[r.key] \in S /\ r.key \in S
      /\ LenOf[r.value] \in S /\ r.value \in S /\ <<>> \in Seq(S)
  OBVIOUS
<1> HIDE DEF S
<1>2. StringWords(r.value) \in Seq(S) /\ Tail(StringWords(r.value)) = <<r.value>>
  BY <1>1, StringWordsAre
<1>3. ValueWords(r) \in Seq(S)
  BY <1>1, <1>2 DEF ValueWords
<1>4. /\ StringWords(r.key) \o ValueWords(r) \in Seq(S)
      /\ StringWords(r.key) \o ValueWords(r) # <<>>
      /\ Tail(StringWords(r.key) \o ValueWords(r)) = <<r.key>> \o ValueWords(r)
  BY <1>1, <1>3, StringWordsAre
<1>5. /\ <<r.key>> \o ValueWords(r) # <<>>
      /\ Head(<<r.key>> \o ValueWords(r)) = r.key
      /\ Tail(<<r.key>> \o ValueWords(r)) = ValueWords(r)
  BY <1>1, <1>3, FirstWord
<1>6. /\ WordsOf(r) \in Seq(S) /\ WordsOf(r) # <<>> /\ Head(WordsOf(r)) = r.code
      /\ Tail(WordsOf(r)) = StringWords(r.key) \o ValueWords(r)
  BY <1>1, <1>4, FirstWord DEF WordsOf
<1>7. <<>> \o WordsOf(r) = WordsOf(r)
  BY <1>6
<1>8. /\ IsSet(r) => ValueWords(r) = StringWords(r.value)
      /\ ~IsSet(r) => ValueWords(r) = <<>>
  BY DEF ValueWords
<1> QED
  BY <1>2, <1>4, <1>5, <1>6, <1>7, <1>8

-----------------------------------------------------------------------------
(* What a connection is in depends on nothing else than its own client,    *)
(* thread and streams.                                                     *)
Same(d) ==
    /\ SameWire(d)
    /\ user'[d] = user[d] /\ pc'[d] = pc[d] /\ local'[d] = local[d]

Others(c) == Client \ {c}

LEMMA StaysRelated ==
    ASSUME NEW d \in Client, Same(d), Related(d)
    PROVE  Related(d)'
<1>1. /\ user'[d] = user[d] /\ pc'[d] = pc[d] /\ local'[d] = local[d]
      /\ words'["server"][d] = words["server"][d] /\ words'["client"][d] = words["client"][d]
      /\ peer'["server"][d] = peer["server"][d] /\ peer'["client"][d] = peer["client"][d]
  BY DEF Same, SameWire, End
<1>2. NotConnected(d) => NotConnected(d)'
  BY <1>1 DEF NotConnected, End
<1>3. Away(d) => Away(d)'
  BY <1>1 DEF Away, UserAt
<1>4. AnswerLeft(d)' = AnswerLeft(d) /\ NoAnswer(d)' = NoAnswer(d)
  BY <1>1 DEF AnswerLeft, NoAnswer
<1>5. Idle(d) => Idle(d)'
  BY <1>1, <1>4 DEF Idle, UserAt
<1>6. OnItsWay(d) => OnItsWay(d)'
  BY <1>1, <1>4 DEF OnItsWay, UserAt
<1>7. \A w : LengthLeft(d, w)' = LengthLeft(d, w)
  BY <1>1 DEF LengthLeft, UserAt
<1>8. BeingServed(d) => BeingServed(d)'
  BY <1>1, <1>7 DEF BeingServed, Requesting, Asked, UserAt
<1>9. BeingAnswered(d) => BeingAnswered(d)'
  BY <1>1, <1>4, <1>7 DEF BeingAnswered
<1>10. Leaving(d) => Leaving(d)'
  BY <1>1, <1>4 DEF Leaving, UserAt
<1>11. Connected(d) => Connected(d)'
  BY <1>1, <1>5, <1>6, <1>8, <1>9, <1>10 DEF Connected
<1> QED
  BY <1>2, <1>3, <1>11 DEF Related

LEMMA OthersStayRelated ==
    ASSUME InStep, NEW c \in Client,
           UserFields', ThreadFields', WireFields',
           \A d \in Others(c) : Same(d),
           state # "dead" => state' = "dead" \/ Related(c)',
           state = "dead" => state' = "dead"
    PROVE  InStep'
<1> SUFFICES ASSUME state' # "dead" PROVE \A d \in Client : Related(d)'
  BY DEF InStep
<1>1. \A d \in Others(c) : Related(d)'
  BY StaysRelated DEF InStep, Others
<1> QED
  BY <1>1 DEF Others

-----------------------------------------------------------------------------
(* The steps of a client, which move no thread.                            *)
ThreadsStay == UNCHANGED <<state, pc, local>>

LEMMA ClientMoves ==
    ASSUME InStep, NEW c \in Client, ThreadsStay,
           UserFields', \A d \in Others(c) : user'[d] = user[d],
           WireFields', OthersSameWire(c),
           state # "dead" => Related(c)'
    PROVE  InStep'
<1>1. ThreadFields'
  BY DEF InStep, ThreadFields, ThreadsStay
<1>2. \A d \in Others(c) : Same(d)
  BY DEF Same, Others, OthersSameWire, ThreadsStay
<1> QED
  BY <1>1, <1>2, OthersStayRelated DEF ThreadsStay

LEMMA GoesToIs ==
    ASSUME UserFields, NEW c \in Client, NEW l, UserGoesTo(c, l)
    PROVE  /\ UserFields' /\ \A d \in Others(c) : user'[d] = user[d]
           /\ user'[c].at = l /\ user'[c].request = user[c].request
BY DEF UserFields, Others, UserGoesTo

LEMMA ConnectKeeps ==
    ASSUME InStep, NEW c \in Client, NEW l, Connect(c, l), ThreadsStay
    PROVE  InStep'
<1>1. CASE Connects(c) /\ UserGoesTo(c, "idle")
  <2>1. ASSUME state # "dead" PROVE Related(c)'
    <3>1. NotConnected(c)
      BY <2>1 DEF Connect, UserAt, InStep, Related, Connected, Idle, OnItsWay, BeingServed,
                  Asked, BeingAnswered, Leaving, Away
    <3>2. /\ user'[c].at = "idle" /\ words' = words /\ \A e \in End : peer'[e][c] = "open"
      BY <1>1, GoesToIs, ConnectsIs DEF InStep
    <3>3. /\ words["server"][c] = <<>> /\ words["client"][c] = <<>>
          /\ local[c].answer = <<>> /\ pc[c] = "none"
      BY <3>1 DEF NotConnected, End
    <3>4. NoAnswer(c)'
      BY <3>2, <3>3 DEF NoAnswer, ThreadsStay
    <3>5. Idle(c)'
      BY <3>2, <3>3, <3>4 DEF Idle, UserAt, ThreadsStay
    <3> QED
      BY <3>2, <3>5 DEF Related, Connected, End
  <2> QED
    BY <1>1, <2>1, ConnectsIs, GoesToIs, ClientMoves DEF InStep
<1>2. CASE UserGoesTo(c, "gone") /\ UNCHANGED wire
  <2>1. ASSUME state # "dead" PROVE Related(c)'
    <3>1. NotConnected(c)
      BY <2>1 DEF Connect, UserAt, InStep, Related, Connected, Idle, OnItsWay, BeingServed,
                  Asked, BeingAnswered, Leaving, Away
    <3>2. NotConnected(c)'
      BY <1>2, <3>1, GoesToIs DEF NotConnected, ThreadsStay, wire, InStep
    <3> QED
      BY <3>2 DEF Related
  <2>2. WireFields' /\ OthersSameWire(c)
    BY <1>2 DEF wire, WireFields, OthersSameWire, SameWire, InStep
  <2> QED
    BY <1>2, <2>1, <2>2, GoesToIs, ClientMoves DEF InStep
<1> QED
  BY <1>1, <1>2 DEF Connect

(* A client that is connected hears and sends as long as it has not closed *)
(* its end: the server closes only after its last message.                 *)
LEMMA ClientIsHeard ==
    ASSUME InStep, state # "dead", NEW c \in Client,
           user[c].at \in {"idle", "asked", "length", "value", "leaving"}
    PROVE  /\ Connected(c)
           /\ \/ peer["client"][c] = "open"
              \/ user[c].at = "leaving" /\ pc[c] \in {"close", "ended"}
           /\ user[c].at = "idle" => Idle(c)
           /\ user[c].at = "asked" => OnItsWay(c) \/ BeingServed(c) \/ BeingAnswered(c)
           /\ user[c].at \in {"length", "value"} => BeingAnswered(c)
           /\ user[c].at = "leaving" => Leaving(c)
<1>1. Related(c) /\ ~NotConnected(c) /\ ~Away(c)
  BY DEF InStep, NotConnected, Away, UserAt
<1>2. Connected(c)
  BY <1>1 DEF Related
<1>3. CASE Leaving(c)
  BY <1>2, <1>3 DEF Leaving, UserAt
<1>4. CASE /\ peer["client"][c] = "open"
           /\ Idle(c) \/ OnItsWay(c) \/ BeingServed(c) \/ BeingAnswered(c)
  BY <1>2, <1>4 DEF Idle, OnItsWay, BeingServed, Asked, BeingAnswered, UserAt
<1> QED
  BY <1>2, <1>3, <1>4 DEF Connected

LEMMA AskKeeps ==
    ASSUME InStep, NEW c \in Client, NEW r \in Request, Ask(c, r), ThreadsStay
    PROVE  InStep'
<1>1. /\ UserFields' /\ \A d \in Others(c) : user'[d] = user[d]
      /\ user'[c].at = "asked" /\ user'[c].request = r
  BY DEF Ask, InStep, UserFields, Others
<1>2. ASSUME state # "dead" PROVE Related(c)'
  <2>1. Idle(c) /\ Connected(c) /\ peer["client"][c] = "open"
    BY <1>2, ClientIsHeard DEF Ask, Asks, UserAt
  <2>2. /\ words'["server"][c] = words["server"][c] \o WordsOf(r)
        /\ words'["client"][c] = words["client"][c] /\ peer' = peer
    BY <2>1, SendsIs DEF Ask, InStep, End, OtherEnd
  <2>3. words["server"][c] = <<>> /\ NoAnswer(c)
    BY <2>1 DEF Idle
  <2>4. words'["server"][c] = WordsOf(r)
    BY <2>2, <2>3, RequestWords
  <2>5. NoAnswer(c)'
    BY <2>2, <2>3 DEF NoAnswer, ThreadsStay
  <2>6. OnItsWay(c)'
    BY <1>1, <2>1, <2>4, <2>5 DEF OnItsWay, UserAt, Idle, ThreadsStay
  <2> QED
    BY <2>1, <2>2, <2>6 DEF Related, Connected
<1> QED
  BY <1>1, <1>2, SendsIs, ClientMoves DEF InStep, Ask, End

LEMMA HearsIs ==
    ASSUME WireFields, NEW c \in Client, Hears(c)
    PROVE  /\ WireFields' /\ OthersSameWire(c)
           /\ peer' = peer /\ words'["server"][c] = words["server"][c]
           /\ peer["client"][c] = "open" =>
                /\ words["client"][c] # <<>> /\ Heard(c) = Head(words["client"][c])
                /\ words'["client"][c] = Tail(words["client"][c])
<1>1. CASE Gets("client", c)
  BY <1>1, GetsIs DEF End, OtherEnd, Heard
<1>2. CASE GetsEnd("client", c)
  BY <1>2 DEF GetsEnd, wire, WireFields, OthersSameWire, SameWire
<1> QED
  BY <1>1, <1>2 DEF Hears

(* While it is idle, nothing has come between the two ends.                *)
LEMMA FailsKeeps ==
    ASSUME InStep, NEW c \in Client, (\E r \in Request : AskFails(c, r)) \/ HearError(c), ThreadsStay
    PROVE  InStep'
<1>1. /\ UserFields' /\ \A d \in Others(c) : user'[d] = user[d]
      /\ user[c].at \in {"idle", "asked", "length", "value"}
  BY DEF AskFails, HearError, Asks, UserAt, InStep, UserFields, Others
<1>2. WireFields' /\ OthersSameWire(c) /\ peer["client"][c] = "reset"
  BY GetsErrorIs DEF AskFails, HearError, InStep, End
<1>3. state = "dead"
  BY <1>1, <1>2, ClientIsHeard
<1> QED
  BY <1>1, <1>2, <1>3, ClientMoves

LEMMA CloseMoves ==
    ASSUME InStep, NEW c \in Client, NEW ws, Closes("client", {c}, ws), UserGoesTo(c, "gone"),
           ThreadsStay,
           state # "dead" => Connected(c) /\ (c \notin Dying => pc[c] \in {"close", "ended"})
    PROVE  InStep'
<1>1. /\ UserFields' /\ \A d \in Others(c) : user'[d] = user[d]
      /\ user'[c].at = "gone"
  BY GoesToIs DEF InStep
<1>2. /\ WireFields' /\ \A d \in Client \ {c} : SameWire(d)
      /\ peer'["server"][c] =
           IF peer["server"][c] # "open" THEN peer["server"][c]
           ELSE IF words["client"][c] = <<>> THEN "fin" ELSE "reset"
  BY ClosesIs DEF InStep, End, OtherEnd
<1>3. ASSUME state # "dead" PROVE Away(c)'
  BY <1>1, <1>2, <1>3 DEF Connected, Away, UserAt, ThreadsStay
<1> QED
  BY <1>1, <1>2, <1>3, ClientMoves DEF OthersSameWire, Related

LEMMA AskBreaksKeeps ==
    ASSUME InStep, NEW c \in Client, NEW r \in Request, AskBreaks(c, r), ThreadsStay
    PROVE  InStep'
<1>1. state = "dead"
  BY ClientIsHeard DEF AskBreaks, Asks, UserAt, SendBreaks
<1> QED
  BY <1>1, CloseMoves DEF AskBreaks

LEMMA CloseSocketKeeps ==
    ASSUME InStep, NEW c \in Client, CloseSocket(c), ThreadsStay
    PROVE  InStep'
<1>1. ASSUME state # "dead" PROVE Connected(c) /\ pc[c] \in {"close", "ended"}
  <2>1. user[c].at = "left"
    BY <1>1, ClientIsHeard DEF CloseSocket, UserAt, SendBreaks
  <2>2. Related(c)
    BY <1>1 DEF InStep
  <2> QED
    BY <2>1, <2>2 DEF Related, Connected, NotConnected, Away, UserAt, Idle, OnItsWay, BeingServed,
                      Asked, BeingAnswered, Leaving
<1> QED
  BY <1>1, CloseMoves DEF CloseSocket

LEMMA DiesKeeps ==
    ASSUME InStep, NEW c \in Client, Dies(c), ThreadsStay
    PROVE  InStep'
<1>1. state # "dead" => Connected(c)
  BY DEF InStep, Related, NotConnected, Away, Dies, UserAt
<1>2. \E ws : Closes("client", {c}, ws)
  BY DEF Dies
<1> QED
  BY <1>1, <1>2, CloseMoves DEF Dies

LEMMA LeaveKeeps ==
    ASSUME InStep, NEW c \in Client, Leave(c), ThreadsStay
    PROVE  InStep'
<1>1. PICK l \in {"leaving", "left"} : UserGoesTo(c, l)
  BY DEF Leave
<1>2. /\ UserFields' /\ \A d \in Others(c) : user'[d] = user[d]
      /\ user'[c].at = l
  BY <1>1, GoesToIs DEF InStep
<1>3. WireFields' /\ OthersSameWire(c)
  BY SendsIs, GetsErrorIs DEF Leave, InStep, End
<1>4. ASSUME state # "dead" PROVE Related(c)'
  <2>1. Idle(c) /\ Connected(c) /\ peer["client"][c] = "open"
    BY <1>4, ClientIsHeard DEF Leave, UserAt
  <2>2. Sends("client", c, <<3>>) /\ UserGoesTo(c, "leaving")
    BY <2>1 DEF Leave, SendFails
  <2>3. /\ words'["server"][c] = words["server"][c] \o <<3>>
        /\ words'["client"][c] = words["client"][c] /\ peer' = peer
    BY <2>1, <2>2, SendsIs DEF InStep, End, OtherEnd
  <2>4. words["server"][c] = <<>> /\ NoAnswer(c)
    BY <2>1 DEF Idle
  <2>5. words'["server"][c] = <<3>> /\ NoAnswer(c)'
    BY <2>3, <2>4 DEF NoAnswer, ThreadsStay
  <2>6. user'[c].at = "leaving"
    BY <2>2, GoesToIs DEF InStep
  <2>7. Leaving(c)'
    BY <2>1, <2>3, <2>5, <2>6 DEF Leaving, UserAt, Idle, ThreadsStay
  <2> QED
    BY <2>1, <2>3, <2>7 DEF Related, Connected
<1> QED
  BY <1>2, <1>3, <1>4, ClientMoves

LEMMA HearByeKeeps ==
    ASSUME InStep, NEW c \in Client, HearBye(c), ThreadsStay
    PROVE  InStep'
<1>1. /\ UserFields' /\ \A d \in Others(c) : user'[d] = user[d]
      /\ user'[c].at = "left"
  BY GoesToIs DEF HearBye, InStep
<1>2. WireFields' /\ OthersSameWire(c) /\ peer'["server"][c] = peer["server"][c]
  BY HearsIs, GetsErrorIs DEF HearBye, InStep, End, OtherEnd
<1>3. ASSUME state # "dead" PROVE Related(c)'
  <2>1. Connected(c) /\ Leaving(c)
    BY <1>3, ClientIsHeard DEF HearBye, UserAt
  <2>2. pc[c] \in {"close", "ended"}
    <3>1. CASE peer["client"][c] = "open"
      <4>1. words["client"][c] # <<>> /\ UserAt(c, "leaving")
        BY <3>1, HearsIs DEF HearBye, GetsError, InStep
      <4> QED
        BY <2>1, <4>1 DEF Leaving, NoAnswer
    <3> QED
      BY <2>1, <3>1 DEF Leaving
  <2> QED
    BY <1>1, <1>2, <2>1, <2>2 DEF Related, Connected, Leaving, ThreadsStay
<1> QED
  BY <1>1, <1>2, <1>3, ClientMoves

(* Hearing the first word of an answer, its length, the value.             *)
LEMMA AnswerIsHeard ==
    ASSUME InStep, state # "dead", NEW c \in Client, Hears(c),
           user[c].at \in {"asked", "length", "value"}
    PROVE  /\ peer["client"][c] = "open" /\ Connected(c) /\ BeingAnswered(c)
           /\ Heard(c) = AnswerLeft(c)[1]
           /\ words["client"][c] # <<>> /\ IsSeq(words'["client"][c])
           /\ Len(words'["client"][c] \o local[c].answer) = LengthLeft(c, Heard(c)) - 1
           /\ LengthLeft(c, Heard(c)) = 1 =>
                words'["client"][c] = <<>> /\ local[c].answer = <<>> /\ pc[c] = "command"
<1>1. peer["client"][c] = "open" /\ Connected(c)
  BY ClientIsHeard
<1>2. /\ words["client"][c] # <<>> /\ Heard(c) = Head(words["client"][c])
      /\ words'["client"][c] = Tail(words["client"][c])
  BY <1>1, HearsIs DEF InStep
<1>3. BeingAnswered(c)
  BY <1>2, ClientIsHeard DEF OnItsWay, BeingServed, NoAnswer
<1>4. /\ IsSeq(words["client"][c]) /\ IsSeq(local[c].answer)
      /\ Len(AnswerLeft(c)) = LengthLeft(c, AnswerLeft(c)[1])
  BY <1>3 DEF BeingAnswered
<1>5. /\ IsSeq(words'["client"][c])
      /\ AnswerLeft(c)[1] = Heard(c)
      /\ Len(words'["client"][c] \o local[c].answer) = Len(AnswerLeft(c)) - 1
      /\ Len(AnswerLeft(c)) = 1 => words'["client"][c] = <<>> /\ local[c].answer = <<>>
  BY <1>2, <1>4, WordHeard DEF AnswerLeft
<1> QED
  BY <1>1, <1>2, <1>3, <1>4, <1>5 DEF BeingAnswered

LEMMA HearKeeps ==
    ASSUME InStep, NEW c \in Client, HearCode(c) \/ HearLength(c) \/ HearValue(c), ThreadsStay
    PROVE  InStep'
<1>1. /\ UserFields' /\ \A d \in Others(c) : user'[d] = user[d]
      /\ Hears(c) /\ user[c].at \in {"asked", "length", "value"}
      /\ user'[c].request = user[c].request
  <2>1. CASE HearCode(c)
    BY <2>1 DEF HearCode, UserAt, InStep, UserFields, Others
  <2>2. CASE HearLength(c)
    BY <2>2 DEF HearLength, UserAt, InStep, UserFields, Others
  <2>3. CASE HearValue(c)
    BY <2>3 DEF HearValue, UserAt, InStep, UserFields, Others
  <2> QED
    BY <2>1, <2>2, <2>3
<1>2. /\ WireFields' /\ OthersSameWire(c)
      /\ peer' = peer /\ words'["server"][c] = words["server"][c]
  BY <1>1, HearsIs DEF InStep
<1>3. ASSUME state # "dead" PROVE Related(c)'
  <2>1. /\ peer["client"][c] = "open" /\ Connected(c) /\ BeingAnswered(c)
        /\ IsSeq(words'["client"][c])
        /\ Len(words'["client"][c] \o local[c].answer) = LengthLeft(c, Heard(c)) - 1
        /\ LengthLeft(c, Heard(c)) = 1 =>
             words'["client"][c] = <<>> /\ local[c].answer = <<>> /\ pc[c] = "command"
    BY <1>1, <1>3, AnswerIsHeard
  <2>2. /\ AnswerLeft(c)' = words'["client"][c] \o local[c].answer
        /\ NoAnswer(c)' = (words'["client"][c] = <<>> /\ local[c].answer = <<>>)
    BY DEF AnswerLeft, NoAnswer, ThreadsStay
  <2>3. \/ user'[c].at = "idle" /\ LengthLeft(c, Heard(c)) = 1
        \/ user'[c].at = "length" /\ LengthLeft(c, Heard(c)) = 3
        \/ user'[c].at = "value" /\ LengthLeft(c, Heard(c)) = 2
    <3>1. CASE HearCode(c)
      BY <3>1 DEF HearCode, UserAt, LengthLeft, InStep, UserFields
    <3>2. CASE HearLength(c)
      BY <3>2 DEF HearLength, UserAt, LengthLeft, InStep, UserFields
    <3>3. CASE HearValue(c)
      BY <3>3 DEF HearValue, UserAt, LengthLeft, InStep, UserFields
    <3> QED
      BY <3>1, <3>2, <3>3
  <2>4. CASE user'[c].at = "idle" /\ LengthLeft(c, Heard(c)) = 1
    <3>1. Idle(c)'
      BY <1>2, <2>1, <2>2, <2>4 DEF Idle, UserAt, BeingAnswered, ThreadsStay
    <3> QED
      BY <1>2, <2>1, <3>1 DEF Related, Connected
  <2>5. CASE \/ user'[c].at = "length" /\ LengthLeft(c, Heard(c)) = 3
             \/ user'[c].at = "value" /\ LengthLeft(c, Heard(c)) = 2
    <3>1. Len(AnswerLeft(c))' = LengthLeft(c, AnswerLeft(c)[1])'
      <4>1. LengthLeft(c, AnswerLeft(c)[1])' = IF user'[c].at = "value" THEN 1 ELSE 2
        BY <2>5 DEF LengthLeft, UserAt
      <4>2. Len(AnswerLeft(c))' = LengthLeft(c, Heard(c)) - 1
        BY <2>1, <2>2
      <4> QED
        BY <2>5, <4>1, <4>2
    <3>2. BeingAnswered(c)'
      BY <1>2, <2>1, <2>5, <3>1 DEF BeingAnswered, ThreadsStay
    <3> QED
      BY <1>2, <2>1, <3>2 DEF Related, Connected
  <2> QED
    BY <2>3, <2>4, <2>5
<1> QED
  BY <1>1, <1>2, <1>3, ClientMoves

LEMMA ClientKeeps ==
    ASSUME InStep, NEW c \in Client, ClientStep(c)
    PROVE  InStep'
<1>1. ThreadsStay
  BY DEF ClientStep, ThreadsStay, server, process
<1>2. CASE \E r \in Request : Ask(c, r) \/ AskFails(c, r) \/ AskBreaks(c, r)
  BY <1>1, <1>2, AskKeeps, FailsKeeps, AskBreaksKeeps
<1>3. CASE GoesOn(c)
  BY <1>1, <1>3, FailsKeeps, HearKeeps, HearByeKeeps, CloseSocketKeeps DEF GoesOn
<1>4. CASE Leave(c) \/ Dies(c)
  BY <1>1, <1>4, LeaveKeeps, DiesKeeps
<1>5. CASE Connect(c, Listening)
  BY <1>1, <1>5, ConnectKeeps
<1> QED
  BY <1>2, <1>3, <1>4, <1>5 DEF ClientStep, client

-----------------------------------------------------------------------------
(* The steps of a thread, which leave its client where it is.              *)
LEMMA ThreadStepMoves ==
    ASSUME InStep, NEW c \in Client, UNCHANGED <<user, state>>,
           ThreadFields', \A d \in Others(c) : pc'[d] = pc[d] /\ local'[d] = local[d],
           WireFields', OthersSameWire(c),
           state # "dead" => Related(c)'
    PROVE  InStep'
<1>1. UserFields'
  BY DEF InStep, UserFields
<1>2. \A d \in Others(c) : Same(d)
  BY DEF Same, Others, OthersSameWire
<1> QED
  BY <1>1, <1>2, OthersStayRelated

LEMMA AwayStays ==
    ASSUME NEW c \in Client, Away(c), UNCHANGED user,
           peer'["server"][c] \notin {"none", "open"},
           pc[c] \in {"close", "ended"} => pc'[c] \in {"close", "ended"}
    PROVE  Related(c)'
BY DEF Away, UserAt, Related

LEMMA RecvIs ==
    ASSUME WireFields, NEW c \in Client, Recv(c)
    PROVE  /\ WireFields' /\ OthersSameWire(c)
           /\ peer' = peer /\ words'["client"][c] = words["client"][c]
           /\ peer["server"][c] = "open" =>
                /\ words["server"][c] # <<>>
                /\ words'["server"][c] = Tail(words["server"][c])
                /\ \A stale : Received(c, stale) = {Head(words["server"][c])}
<1>1. CASE Gets("server", c)
  BY <1>1, GetsIs DEF End, OtherEnd, Received
<1>2. CASE GetsEnd("server", c)
  BY <1>2 DEF GetsEnd, wire, WireFields, OthersSameWire, SameWire
<1> QED
  BY <1>1, <1>2 DEF Recv

LEMMA GoesToPc ==
    ASSUME ThreadFields, NEW c \in Client, NEW l, GoesTo(c, l)
    PROVE  /\ DOMAIN pc' = Client /\ pc'[c] = l
           /\ \A d \in Others(c) : pc'[d] = pc[d]
BY DEF ThreadFields, GoesTo, Others

(* A thread that receives is either away or gets what was asked.           *)
LEMMA WhatIsReceived ==
    ASSUME InStep, NEW c \in Client, state # "dead", ~Away(c), Recv(c),
           pc[c] \in {"command", "key_len", "key", "value_len", "value"}
    PROVE  /\ Connected(c) /\ peer["server"][c] = "open"
           /\ words["server"][c] # <<>>
           /\ words'["server"][c] = Tail(words["server"][c])
           /\ \A stale : Received(c, stale) = {Head(words["server"][c])}
           /\ NoAnswer(c)
           /\ \/ peer["client"][c] = "open" /\ OnItsWay(c)
              \/ Leaving(c) /\ pc[c] = "command" /\ words["server"][c] = <<3>>
<1>1. Connected(c) /\ peer["server"][c] = "open"
  BY DEF InStep, Related, NotConnected, Connected
<1>2. /\ words["server"][c] # <<>>
      /\ words'["server"][c] = Tail(words["server"][c])
      /\ \A stale : Received(c, stale) = {Head(words["server"][c])}
  BY <1>1, RecvIs DEF InStep
<1>3. ~Idle(c) /\ ~BeingServed(c) /\ ~BeingAnswered(c)
  BY <1>2 DEF Idle, BeingServed, BeingAnswered
<1> QED
  BY <1>1, <1>2, <1>3 DEF Connected, Leaving, OnItsWay

LEMMA RecvCommandKeeps ==
    ASSUME InStep, NEW c \in Client, RecvCommand(c), UNCHANGED user
    PROVE  InStep'
<1>1. PICK code \in Received(c, StaleCode(c)) :
        /\ local' = [local EXCEPT ![c].code = code, ![c].op = code,
                                  ![c].answer = IF code = 3 THEN <<1>> ELSE <<>>]
        /\ GoesTo(c, IF code \in 0 .. 2 THEN "key_len" ELSE IF code = 3 THEN "answer" ELSE "command")
  BY DEF RecvCommand
<1>2. /\ ThreadFields' /\ \A d \in Others(c) : pc'[d] = pc[d] /\ local'[d] = local[d]
      /\ pc'[c] = IF code \in 0 .. 2 THEN "key_len" ELSE IF code = 3 THEN "answer" ELSE "command"
      /\ local'[c].op = code /\ local'[c].answer = IF code = 3 THEN <<1>> ELSE <<>>
  BY <1>1, GoesToPc DEF InStep, ThreadFields, Others
<1>3. /\ WireFields' /\ OthersSameWire(c)
      /\ peer' = peer /\ words'["client"][c] = words["client"][c]
      /\ pc[c] = "command" /\ state # "dead" /\ state' = state
  BY RecvIs DEF RecvCommand, InStep, At, Runs, process
<1>4. CASE Away(c)
  BY <1>2, <1>3, <1>4, AwayStays, ThreadStepMoves DEF Away
<1>5. CASE ~Away(c)
  <2>1. /\ Connected(c) /\ peer["server"][c] = "open"
        /\ words'["server"][c] = Tail(words["server"][c])
        /\ code = Head(words["server"][c])
        /\ NoAnswer(c)
    BY <1>1, <1>3, <1>5, WhatIsReceived DEF RecvCommand
  <2>2. CASE peer["client"][c] = "open" /\ OnItsWay(c)
    <3> DEFINE r == user[c].request
    <3>1. r \in Request /\ words["server"][c] = WordsOf(r) /\ UserAt(c, "asked")
      BY <1>3, <2>2 DEF OnItsWay
    <3>2. code = r.code /\ words'["server"][c] = StringWords(r.key) \o ValueWords(r)
      BY <2>1, <3>1, RequestWords
    <3>3. code \in 0 .. 2
      BY <3>1, <3>2, ClientsAssumption
    <3>4. NoAnswer(c)'
      BY <1>2, <1>3, <2>1, <3>3 DEF NoAnswer
    <3>5. OnItsWay(c)'
      BY <1>2, <3>1, <3>2, <3>3, <3>4 DEF OnItsWay, UserAt
    <3> QED
      BY <1>2, <1>3, <2>1, <2>2, <3>5, ThreadStepMoves DEF Related, Connected
  <2>3. CASE Leaving(c) /\ words["server"][c] = <<3>>
    <3>1. code = 3
      BY <2>1, <2>3
    <3>2. UserAt(c, "leaving") /\ peer["client"][c] = "open"
      BY <1>3, <2>3 DEF Leaving
    <3>3. Leaving(c)'
      BY <1>2, <1>3, <2>1, <3>1, <3>2 DEF Leaving, NoAnswer, UserAt
    <3> QED
      BY <1>2, <1>3, <2>1, <3>3, ThreadStepMoves DEF Related, Connected
  <2> QED
    BY <1>3, <1>5, <2>2, <2>3, WhatIsReceived DEF RecvCommand
<1> QED
  BY <1>4, <1>5

(* A length is not looked at.                                              *)
LEMMA RecvLenKeeps ==
    ASSUME InStep, NEW c \in Client, RecvKeyLen(c) \/ RecvValueLen(c), UNCHANGED user
    PROVE  InStep'
<1>1. PICK code \in Received(c, StaleCode(c)) : local' = [local EXCEPT ![c].code = code]
  BY DEF RecvKeyLen, RecvValueLen
<1>2. PICK l : /\ GoesTo(c, l)
               /\ \/ pc[c] = "key_len" /\ l = "key"
                  \/ pc[c] = "value_len" /\ l = "value"
  BY DEF RecvKeyLen, RecvValueLen, At
<1>3. /\ ThreadFields' /\ \A d \in Others(c) : pc'[d] = pc[d] /\ local'[d] = local[d]
      /\ pc'[c] = l /\ local'[c].op = local[c].op /\ local'[c].key = local[c].key
      /\ local'[c].answer = local[c].answer
  BY <1>1, <1>2, GoesToPc DEF InStep, ThreadFields, Others
<1>4. /\ WireFields' /\ OthersSameWire(c) /\ Recv(c)
      /\ peer' = peer /\ words'["client"][c] = words["client"][c]
      /\ state # "dead" /\ state' = state
  BY RecvIs DEF RecvKeyLen, RecvValueLen, InStep, At, Runs, process
<1>5. CASE Away(c)
  BY <1>2, <1>3, <1>4, <1>5, AwayStays, ThreadStepMoves DEF Away
<1>6. CASE ~Away(c)
  <2>1. /\ Connected(c) /\ peer["server"][c] = "open" /\ peer["client"][c] = "open"
        /\ words'["server"][c] = Tail(words["server"][c])
        /\ NoAnswer(c) /\ OnItsWay(c)
    BY <1>2, <1>4, <1>6, WhatIsReceived
  <2> DEFINE r == user[c].request
  <2>2. /\ r \in Request /\ UserAt(c, "asked") /\ local[c].op = r.code
        /\ l = "key" => words'["server"][c] = <<r.key>> \o ValueWords(r)
        /\ l = "value" => /\ IsSet(r) /\ local[c].key = r.key
                          /\ words'["server"][c] = <<r.value>>
    BY <1>2, <2>1, RequestWords DEF OnItsWay
  <2>3. NoAnswer(c)'
    BY <1>3, <1>4, <2>1 DEF NoAnswer
  <2>4. OnItsWay(c)'
    BY <1>2, <1>3, <2>2, <2>3 DEF OnItsWay, UserAt
  <2> QED
    BY <1>3, <1>4, <2>1, <2>4, ThreadStepMoves DEF Related, Connected
<1> QED
  BY <1>5, <1>6

(* An answer of one word that is no 1 to a get is all there will be.       *)
LEMMA OneWordLeft ==
    ASSUME NEW c \in Client, NEW w, UserAt(c, "asked")', words'["client"][c] = <<>>,
           local'[c].answer = <<w>>, IsGet(user'[c].request) => w # 1
    PROVE  /\ IsSeq(words'["client"][c]) /\ IsSeq(local'[c].answer) /\ local'[c].answer # <<>>
           /\ Len(local'[c].answer) = LengthLeft(c, local[c].answer[1])'
           /\ Len(AnswerLeft(c))' = LengthLeft(c, AnswerLeft(c)[1])'
<1>1. <<w>> \in Seq({w}) /\ <<>> \in Seq({w}) /\ <<>> \o <<w>> = <<w>>
  OBVIOUS
<1>2. AnswerLeft(c)' = <<w>>
  BY <1>1 DEF AnswerLeft
<1>3. Len(<<w>>) = 1 /\ <<w>>[1] = w /\ <<w>> # <<>>
  OBVIOUS
<1>4. LengthLeft(c, local[c].answer[1])' = 1
  BY <1>3 DEF LengthLeft, UserAt
<1>5. LengthLeft(c, AnswerLeft(c)[1])' = 1
  BY <1>2, <1>3 DEF LengthLeft, UserAt
<1> QED
  BY <1>1, <1>2, <1>3, <1>4, <1>5, SeqIs

LEMMA DecideKeeps ==
    ASSUME InStep, NEW c \in Client, NEW key, NEW value, Decide(c, key, value),
           Recv(c), pc[c] \in {"key", "value"}, UNCHANGED <<user, state>>, state # "dead",
           ~Away(c) =>
             LET r == user[c].request IN
               /\ key = r.key /\ (IsSet(r) => value = r.value)
               /\ words'["server"][c] = <<>>
    PROVE  InStep'
<1> DEFINE r == user[c].request
           refusal == Refusal(local[c].op, key, value)
<1>1. /\ local' = [local EXCEPT ![c].key = key, ![c].value = value, ![c].answer = refusal,
                                ![c].code = IF refusal = <<>> THEN @ ELSE Head(refusal)]
      /\ GoesTo(c, IF refusal = <<>> THEN "lock" ELSE "answer")
  BY DEF Decide
<1>2. refusal \in {<<>>, <<2>>, <<3>>}
  BY DEF Refusal
<1> HIDE DEF refusal
<1>3. /\ ThreadFields' /\ \A d \in Others(c) : pc'[d] = pc[d] /\ local'[d] = local[d]
      /\ pc'[c] = IF refusal = <<>> THEN "lock" ELSE "answer"
      /\ local'[c].op = local[c].op /\ local'[c].key = key /\ local'[c].value = value
      /\ local'[c].answer = refusal
  BY <1>1, GoesToPc DEF InStep, ThreadFields, Others
<1>4. /\ WireFields' /\ OthersSameWire(c)
      /\ peer' = peer /\ words'["client"][c] = words["client"][c]
  BY RecvIs DEF InStep
<1>5. CASE Away(c)
  BY <1>3, <1>4, <1>5, AwayStays, ThreadStepMoves DEF Away
<1>6. CASE ~Away(c)
  <2>1. /\ Connected(c) /\ peer["server"][c] = "open" /\ peer["client"][c] = "open"
        /\ NoAnswer(c) /\ OnItsWay(c)
    BY <1>6, WhatIsReceived
  <2>2. /\ r \in Request /\ UserAt(c, "asked") /\ local[c].op = r.code
        /\ key = r.key /\ (IsSet(r) => value = r.value)
        /\ words'["server"][c] = <<>> /\ words'["client"][c] = <<>>
    BY <1>4, <1>6, <2>1 DEF OnItsWay, NoAnswer
  <2>3. CASE refusal = <<>>
    <3>1. Requesting(c)' /\ Asked(c)'
      BY <1>3, <2>2, <2>3 DEF Requesting, Asked, UserAt
    <3>2. Refusal(local[c].op, local[c].key, local[c].value)' = <<>>
      BY <1>3, <2>3 DEF Refusal, refusal, TooLong
    <3>3. BeingServed(c)'
      BY <1>3, <2>2, <2>3, <3>1, <3>2 DEF BeingServed
    <3> QED
      BY <1>3, <1>4, <2>1, <3>3, ThreadStepMoves DEF Related, Connected
  <2>4. ASSUME NEW w \in {2, 3}, refusal = <<w>> PROVE InStep'
    <3>1. UserAt(c, "asked")' /\ words'["client"][c] = <<>> /\ local'[c].answer = <<w>>
      BY <1>3, <2>2, <2>4 DEF UserAt
    <3>2. /\ IsSeq(words'["client"][c]) /\ IsSeq(local'[c].answer) /\ local'[c].answer # <<>>
          /\ Len(AnswerLeft(c))' = LengthLeft(c, AnswerLeft(c)[1])'
      BY <2>2, <2>4, <3>1, OneWordLeft
    <3>3. local'[c].op # 3 /\ pc'[c] = "answer"
      BY <1>3, <2>2, <2>4, <3>2, ClientsAssumption
    <3>4. BeingAnswered(c)'
      BY <2>2, <3>1, <3>2, <3>3 DEF BeingAnswered, UserAt
    <3> QED
      BY <1>3, <1>4, <2>1, <3>4, ThreadStepMoves DEF Related, Connected
  <2> QED
    BY <1>2, <2>3, <2>4
<1> QED
  BY <1>5, <1>6

LEMMA RecvKeyKeeps ==
    ASSUME InStep, NEW c \in Client, RecvKey(c), UNCHANGED user
    PROVE  InStep'
<1>1. /\ pc[c] = "key" /\ state # "dead" /\ state' = state /\ Recv(c)
      /\ WireFields' /\ OthersSameWire(c)
      /\ peer' = peer /\ words'["client"][c] = words["client"][c]
  BY RecvIs DEF RecvKey, InStep, At, Runs, process
<1>2. PICK key \in Received(c, Garbage(local[c].code)) :
        IF local[c].op = 1
        THEN local' = [local EXCEPT ![c].key = key] /\ GoesTo(c, "value_len")
        ELSE Decide(c, key, None)
  BY DEF RecvKey
<1> DEFINE r == user[c].request
<1>3. ASSUME ~Away(c)
      PROVE  /\ Connected(c) /\ peer["client"][c] = "open" /\ NoAnswer(c) /\ UserAt(c, "asked")
             /\ r \in Request /\ local[c].op = r.code /\ key = r.key
             /\ words'["server"][c] = ValueWords(r)
             /\ IsSet(r) => ValueWords(r) = StringWords(r.value)
             /\ ~IsSet(r) => ValueWords(r) = <<>>
  <2>1. /\ Connected(c) /\ peer["client"][c] = "open" /\ NoAnswer(c) /\ OnItsWay(c)
        /\ key = Head(words["server"][c]) /\ words'["server"][c] = Tail(words["server"][c])
    BY <1>1, <1>2, <1>3, WhatIsReceived
  <2>2. /\ r \in Request /\ local[c].op = r.code /\ UserAt(c, "asked")
        /\ words["server"][c] = <<r.key>> \o ValueWords(r)
    BY <1>1, <2>1 DEF OnItsWay
  <2> QED
    BY <2>1, <2>2, RequestWords
<1>4. CASE local[c].op = 1
  <2>1. /\ ThreadFields' /\ \A d \in Others(c) : pc'[d] = pc[d] /\ local'[d] = local[d]
        /\ pc'[c] = "value_len" /\ local'[c].op = local[c].op /\ local'[c].key = key
        /\ local'[c].answer = local[c].answer
    BY <1>2, <1>4, GoesToPc DEF InStep, ThreadFields, Others
  <2>2. CASE Away(c)
    BY <1>1, <2>1, <2>2, AwayStays, ThreadStepMoves DEF Away
  <2>3. CASE ~Away(c)
    <3>1. NoAnswer(c)'
      BY <1>1, <1>3, <2>1, <2>3 DEF NoAnswer
    <3>2. OnItsWay(c)'
      BY <1>3, <1>4, <2>1, <2>3, <3>1 DEF OnItsWay, UserAt, IsSet
    <3> QED
      BY <1>1, <1>3, <2>1, <2>3, <3>2, ThreadStepMoves DEF Related, Connected
  <2> QED
    BY <2>2, <2>3
<1>5. CASE local[c].op # 1
  <2>1. ~Away(c) => /\ key = r.key /\ ~IsSet(r) /\ words'["server"][c] = <<>>
    BY <1>3, <1>5 DEF IsSet
  <2> QED
    BY <1>1, <1>2, <1>5, <2>1, DecideKeeps
<1> QED
  BY <1>4, <1>5

LEMMA RecvValueKeeps ==
    ASSUME InStep, NEW c \in Client, RecvValue(c), UNCHANGED user
    PROVE  InStep'
<1>1. pc[c] = "value" /\ state # "dead" /\ state' = state /\ Recv(c)
  BY DEF RecvValue, At, Runs, process
<1>2. PICK value \in Received(c, Garbage(local[c].code)) : Decide(c, local[c].key, value)
  BY DEF RecvValue
<1> DEFINE r == user[c].request
<1>3. ASSUME ~Away(c)
      PROVE  local[c].key = r.key /\ value = r.value /\ words'["server"][c] = <<>>
  <2>1. /\ OnItsWay(c)
        /\ value = Head(words["server"][c]) /\ words'["server"][c] = Tail(words["server"][c])
    BY <1>1, <1>2, <1>3, WhatIsReceived
  <2>2. local[c].key = r.key /\ words["server"][c] = <<r.value>>
    BY <1>1, <2>1 DEF OnItsWay
  <2> QED
    BY <2>1, <2>2
<1> QED
  BY <1>1, <1>2, <1>3, DecideKeeps

(* A connection that fails is one whose client has gone.                   *)
LEMMA ThreadFailsKeeps ==
    ASSUME InStep, NEW c \in Client, Fails(c), UNCHANGED user
    PROVE  InStep'
<1>1. /\ ThreadFields' /\ \A d \in Others(c) : pc'[d] = pc[d] /\ local'[d] = local[d]
      /\ pc'[c] = "ended"
  BY GoesToPc DEF Fails, InStep, ThreadFields
<1>2. /\ WireFields' /\ OthersSameWire(c) /\ peer["server"][c] = "reset"
      /\ peer'["server"][c] = "broken" /\ state # "dead" /\ state' = state
  BY GetsErrorIs DEF Fails, InStep, End, At, Runs, process
<1>3. Away(c)
  BY <1>2 DEF InStep, Related, NotConnected, Connected, End
<1> QED
  BY <1>1, <1>2, <1>3, AwayStays, ThreadStepMoves

-----------------------------------------------------------------------------
(* A thread that uses the database.                                        *)
LEMMA ServedMoves ==
    ASSUME InStep, NEW c \in Client, NEW l \in {"call", "replace", "unlock"},
           Runs(c), pc[c] \in {"lock", "call", "replace"}, GoesTo(c, l),
           UNCHANGED <<state, user, wire>>,
           NEW answer,
           \/ local' = local /\ answer = local[c].answer
           \/ local' = [local EXCEPT ![c].answer = answer],
           IF l # "unlock" THEN answer = local[c].answer
           ELSE \/ \E w : answer = <<w>> /\ (local[c].op = 0 => w # 1)
                \/ local[c].op = 0 /\ \E w, v : answer = <<1, w, v>>
    PROVE  InStep'
<1>1. /\ ThreadFields' /\ \A d \in Others(c) : pc'[d] = pc[d] /\ local'[d] = local[d]
      /\ pc'[c] = l /\ local'[c].op = local[c].op /\ local'[c].key = local[c].key
      /\ local'[c].value = local[c].value /\ local'[c].answer = answer
  BY GoesToPc DEF InStep, ThreadFields, Others
<1>2. WireFields' /\ OthersSameWire(c) /\ words' = words /\ peer' = peer
  BY DEF wire, WireFields, OthersSameWire, SameWire, InStep
<1>3. state # "dead" /\ state' = state
  BY DEF Runs
<1>4. CASE Away(c)
  BY <1>1, <1>2, <1>3, <1>4, AwayStays, ThreadStepMoves DEF Away
<1>5. CASE ~Away(c)
  <2>1. Connected(c) /\ peer["server"][c] = "open" /\ peer["client"][c] = "open" /\ BeingServed(c)
    BY <1>3, <1>5 DEF InStep, Related, NotConnected, Connected, Requesting, Idle, OnItsWay,
                      BeingAnswered, Leaving
  <2>2. /\ Requesting(c)' /\ Asked(c)' /\ user'[c].request \in Request
        /\ words'["server"][c] = <<>> /\ words'["client"][c] = <<>>
        /\ Refusal(local[c].op, local[c].key, local[c].value)' = <<>>
    BY <1>1, <1>2, <2>1 DEF BeingServed, Requesting, Asked, UserAt, Refusal, TooLong
  <2>3. UserAt(c, "asked")' /\ IsGet(user'[c].request) = (local[c].op = 0)
    BY <2>1, <2>2 DEF Asked, BeingServed, IsGet
  <2>4. l = "unlock" => /\ IsSeq(local'[c].answer)
                        /\ Len(local'[c].answer) = LengthLeft(c, local[c].answer[1])'
    <3>1. ASSUME NEW w, answer = <<w>>, local[c].op = 0 => w # 1
          PROVE  /\ IsSeq(local'[c].answer)
                 /\ Len(local'[c].answer) = LengthLeft(c, local[c].answer[1])'
      BY <1>1, <2>2, <2>3, <3>1, OneWordLeft
    <3>2. ASSUME local[c].op = 0, NEW w, NEW v, answer = <<1, w, v>>
          PROVE  /\ IsSeq(local'[c].answer)
                 /\ Len(local'[c].answer) = LengthLeft(c, local[c].answer[1])'
      <4>1. answer \in Seq({1, w, v}) /\ Len(answer) = 3 /\ answer[1] = 1
        BY <3>2
      <4>2. LengthLeft(c, local[c].answer[1])' = 3
        BY <1>1, <2>3, <3>2, <4>1 DEF LengthLeft, UserAt
      <4> QED
        BY <1>1, <4>1, <4>2, SeqIs
    <3> QED
      BY <3>1, <3>2
  <2>5. BeingServed(c)'
    BY <1>1, <2>1, <2>2, <2>4 DEF BeingServed
  <2> QED
    BY <1>1, <1>2, <1>3, <2>1, <2>5, ThreadStepMoves DEF Related, Connected
<1> QED
  BY <1>4, <1>5

LEMMA CallKeeps ==
    ASSUME InStep, NEW c \in Client,
           LockedCall(c) \/ Get(c) \/ Set(c) \/ TakeOutOld(c) \/ Del(c), UNCHANGED user
    PROVE  InStep'
<1>1. CASE LockedCall(c)
  BY <1>1, ServedMoves DEF LockedCall, At, Runs
<1>2. CASE TakeOutOld(c)
  BY <1>2, ServedMoves DEF TakeOutOld, At, Runs
<1>3. CASE Get(c)
  <2> DEFINE value == db[local[c].key]
             answer == IF value = None THEN <<0>> ELSE Found(value)
  <2>1. local' = [local EXCEPT ![c].answer = answer]
    BY <1>3 DEF Get
  <2>2. \/ answer = <<0>>
        \/ answer = <<1, LenOf[value], value>>
    BY DEF Found
  <2> HIDE DEF answer
  <2>3. /\ Runs(c) /\ pc[c] = "call" /\ GoesTo(c, "unlock") /\ local[c].op = 0
        /\ UNCHANGED <<state, user, wire>>
    BY <1>3 DEF Get, At, process
  <2>4. CASE answer = <<0>>
    <3>1. 0 # 1
      OBVIOUS
    <3>2. \E w : answer = <<w>> /\ (local[c].op = 0 => w # 1)
      BY <2>4, <3>1, Zenon
    <3> QED
      BY <2>1, <2>3, <3>2, ServedMoves
  <2>5. CASE answer = <<1, LenOf[value], value>>
    <3>1. \E w, v : answer = <<1, w, v>>
      BY <2>5
    <3> QED
      BY <2>1, <2>3, <3>1, ServedMoves
  <2> QED
    BY <2>2, <2>4, <2>5
<1>4. CASE Set(c) \/ Del(c)
  <2>1. local' = [local EXCEPT ![c].answer = <<1>>] /\ local[c].op # 0
    BY <1>4 DEF Set, Del
  <2> QED
    BY <1>4, <2>1, ServedMoves DEF Set, Del, At
<1> QED
  BY <1>1, <1>2, <1>3, <1>4

LEMMA UnlockedCallKeeps ==
    ASSUME InStep, NEW c \in Client, UnlockedCall(c), UNCHANGED user
    PROVE  InStep'
<1>1. /\ ThreadFields' /\ \A d \in Others(c) : pc'[d] = pc[d] /\ local'[d] = local[d]
      /\ pc[c] = "unlock" /\ pc'[c] = "answer" /\ local' = local
      /\ state # "dead" /\ state' = state
  BY GoesToPc DEF UnlockedCall, At, Runs, InStep, ThreadFields
<1>2. WireFields' /\ OthersSameWire(c) /\ words' = words /\ peer' = peer
  BY DEF UnlockedCall, wire, WireFields, OthersSameWire, SameWire, InStep
<1>3. CASE Away(c)
  BY <1>1, <1>2, <1>3, AwayStays, ThreadStepMoves DEF Away
<1>4. CASE ~Away(c)
  <2>1. Connected(c) /\ peer["server"][c] = "open" /\ peer["client"][c] = "open" /\ BeingServed(c)
    BY <1>1, <1>4 DEF InStep, Related, NotConnected, Connected, Idle, OnItsWay,
                      BeingAnswered, Leaving
  <2> DEFINE a == local[c].answer
  <2>2. /\ UserAt(c, "asked") /\ local[c].op = user[c].request.code /\ user[c].request \in Request
        /\ words["server"][c] = <<>> /\ words["client"][c] = <<>>
        /\ IsSeq(a) /\ Len(a) = LengthLeft(c, a[1])
    BY <1>1, <2>1 DEF BeingServed, Asked
  <2>3. AnswerLeft(c) = a /\ IsSeq(<<>>)
    <3>1. a \in Seq({a[i] : i \in DOMAIN a})
      BY <2>2 DEF IsSeq
    <3>2. <<>> \in Seq({1})
      OBVIOUS
    <3> HIDE DEF a
    <3>3. <<>> \o a = a
      BY <3>1
    <3> QED
      BY <2>2, <3>2, <3>3, SeqIs DEF AnswerLeft, a
  <2>4. a # <<>> /\ local[c].op # 3
    <3>1. Len(a) # 0
      BY <2>2 DEF LengthLeft
    <3> QED
      BY <2>2, <3>1, ClientsAssumption
  <2>5. /\ AnswerLeft(c)' = AnswerLeft(c)
        /\ LengthLeft(c, AnswerLeft(c)[1])' = LengthLeft(c, AnswerLeft(c)[1])
    BY <1>1, <1>2 DEF AnswerLeft, LengthLeft, UserAt
  <2>6. BeingAnswered(c)'
    BY <1>1, <1>2, <2>2, <2>3, <2>4, <2>5 DEF BeingAnswered, UserAt
  <2> QED
    BY <1>1, <1>2, <2>1, <2>6, ThreadStepMoves DEF Related, Connected
<1> QED
  BY <1>3, <1>4

-----------------------------------------------------------------------------
(* A thread that answers.                                                  *)
LEMMA AnswerKeeps ==
    ASSUME InStep, NEW c \in Client, Answer(c), UNCHANGED user
    PROVE  InStep'
<1> DEFINE a == local[c].answer
           word == Head(a)
           code == IF word \in Code THEN word ELSE local[c].code
<1>1. /\ pc[c] = "answer" /\ state # "dead" /\ state' = state
      /\ Sends("server", c, <<word>>)
  BY DEF Answer, At, Runs, process
<1>2. /\ ThreadFields' /\ \A d \in Others(c) : pc'[d] = pc[d] /\ local'[d] = local[d]
      /\ IF Tail(a) # <<>>
         THEN pc'[c] = "answer" /\ local'[c].answer = Tail(a) /\ local'[c].op = local[c].op
         ELSE /\ pc'[c] = AfterAnswer(local[c].op)
              /\ local'[c].answer = <<>>
  <2>1. CASE Tail(a) # <<>>
    <3>1. local' = [local EXCEPT ![c].code = code, ![c].answer = Tail(a)] /\ UNCHANGED pc
      BY <2>1 DEF Answer
    <3> HIDE DEF code
    <3> QED
      BY <1>1, <2>1, <3>1 DEF InStep, ThreadFields, Others
  <2>2. CASE Tail(a) = <<>>
    <3>1. /\ local' = [local EXCEPT ![c] = [NoLocals EXCEPT !.code = code]]
          /\ GoesTo(c, AfterAnswer(local[c].op))
      BY <2>2 DEF Answer
    <3> HIDE DEF code
    <3> QED
      BY <2>2, <3>1, GoesToPc DEF InStep, ThreadFields, Others, NoLocals
  <2> QED
    BY <2>1, <2>2
<1>3. /\ WireFields' /\ OthersSameWire(c)
      /\ words'["server"][c] = words["server"][c] /\ peer'["client"][c] = peer["client"][c]
      /\ \/ /\ peer["server"][c] = "open" /\ peer' = peer
            /\ words'["client"][c] = words["client"][c] \o <<word>>
         \/ peer["server"][c] = "fin" /\ peer'["server"][c] \in {"fin", "broken"}
  BY <1>1, SendsIs DEF InStep, End, OtherEnd
<1> HIDE DEF word
<1>4. CASE Away(c)
  BY <1>1, <1>2, <1>3, <1>4, AwayStays, ThreadStepMoves DEF Away
<1>5. CASE ~Away(c)
  <2>1. /\ Connected(c) /\ peer["server"][c] = "open"
        /\ words'["client"][c] = words["client"][c] \o <<word>>
        /\ (peer["client"][c] = "open" /\ BeingAnswered(c)) \/ Leaving(c)
    BY <1>1, <1>3, <1>5 DEF InStep, Related, NotConnected, Connected, Idle, OnItsWay,
                            BeingServed, Requesting
  <2>2. CASE peer["client"][c] = "open" /\ BeingAnswered(c)
    <3>1. /\ a # <<>> /\ IsSeq(words["client"][c]) /\ IsSeq(a) /\ local[c].op # 3
          /\ words["server"][c] = <<>> /\ user[c].at \in {"asked", "length", "value"}
          /\ Len(AnswerLeft(c)) = LengthLeft(c, AnswerLeft(c)[1])
      BY <1>1, <2>2 DEF BeingAnswered
    <3>2. /\ (words["client"][c] \o <<word>>) \o Tail(a) = AnswerLeft(c)
          /\ IsSeq(words["client"][c] \o <<word>>) /\ IsSeq(Tail(a))
      BY <3>1, WordMoves DEF AnswerLeft, word
    <3>3. local'[c].answer = Tail(a)
      BY <1>2
    <3>4. AnswerLeft(c)' = AnswerLeft(c)
      BY <2>1, <3>2, <3>3 DEF AnswerLeft
    <3>5. LengthLeft(c, AnswerLeft(c)[1])' = LengthLeft(c, AnswerLeft(c)[1])
      BY <3>4 DEF LengthLeft, UserAt
    <3>6. \/ pc'[c] = "answer" /\ local'[c].answer # <<>> /\ local'[c].op # 3
          \/ pc'[c] = "command" /\ local'[c].answer = <<>>
      BY <1>2, <3>1 DEF AfterAnswer
    <3>7. BeingAnswered(c)'
      BY <1>3, <2>1, <3>1, <3>2, <3>3, <3>4, <3>5, <3>6 DEF BeingAnswered
    <3> QED
      BY <1>1, <1>2, <1>3, <2>1, <2>2, <3>7, ThreadStepMoves DEF Related, Connected
  <2>3. CASE Leaving(c)
    <3>1. UserAt(c, "leaving") /\ local[c].op = 3 /\ a = <<1>>
      BY <1>1, <2>3 DEF Leaving
    <3>2. Tail(a) = <<>>
      BY <3>1
    <3>3. Leaving(c)'
      BY <1>2, <3>1, <3>2 DEF Leaving, UserAt, AfterAnswer
    <3> QED
      BY <1>1, <1>2, <1>3, <2>1, <3>3, ThreadStepMoves DEF Related, Connected
  <2> QED
    BY <2>1, <2>2, <2>3
<1> QED
  BY <1>4, <1>5

LEMMA CloseConnectionKeeps ==
    ASSUME InStep, NEW c \in Client, CloseConnection(c), UNCHANGED user
    PROVE  InStep'
<1>1. /\ ThreadFields' /\ \A d \in Others(c) : pc'[d] = pc[d] /\ local'[d] = local[d]
      /\ pc[c] = "close" /\ pc'[c] = "ended" /\ state # "dead" /\ state' = state
  BY GoesToPc DEF CloseConnection, At, Runs, process, InStep, ThreadFields
<1>2. WireFields' /\ OthersSameWire(c) /\ peer'["server"] = peer["server"]
  BY ClosesIs DEF CloseConnection, InStep, End, OtherEnd, OthersSameWire
<1>3. CASE Away(c)
  BY <1>1, <1>2, <1>3, AwayStays, ThreadStepMoves DEF Away
<1>4. CASE ~Away(c)
  <2>1. Connected(c) /\ Leaving(c)
    BY <1>1, <1>4 DEF InStep, Related, NotConnected, Connected, Idle, OnItsWay,
                      BeingServed, Requesting, BeingAnswered
  <2>2. Leaving(c)'
    BY <1>1, <2>1 DEF Leaving, UserAt
  <2> QED
    BY <1>1, <1>2, <2>1, <2>2, ThreadStepMoves DEF Related, Connected
<1> QED
  BY <1>3, <1>4

LEMMA AcceptKeeps ==
    ASSUME InStep, NEW c \in Client, Accept(c), UNCHANGED user
    PROVE  InStep'
<1>1. /\ ThreadFields' /\ \A d \in Others(c) : pc'[d] = pc[d] /\ local'[d] = local[d]
      /\ pc[c] = "none" /\ pc'[c] = "command" /\ local' = local
      /\ peer["server"][c] # "none" /\ state # "dead" /\ state' = state
  BY GoesToPc DEF Accept, Runs, process, InStep, ThreadFields
<1>2. WireFields' /\ OthersSameWire(c) /\ words' = words /\ peer' = peer
  BY DEF Accept, wire, WireFields, OthersSameWire, SameWire, InStep
<1>3. CASE Away(c)
  BY <1>1, <1>2, <1>3, AwayStays, ThreadStepMoves DEF Away
<1>4. CASE ~Away(c)
  <2>1. Connected(c)
    BY <1>1, <1>4 DEF InStep, Related, NotConnected, End
  <2>2. NoAnswer(c)' = NoAnswer(c)
    BY <1>1, <1>2 DEF NoAnswer
  <2>3. Idle(c) => Idle(c)'
    BY <1>1, <1>2, <2>2 DEF Idle, UserAt
  <2>4. OnItsWay(c) => OnItsWay(c)'
    BY <1>1, <1>2, <2>2 DEF OnItsWay, UserAt
  <2>5. Leaving(c) => Leaving(c)'
    BY <1>1, <1>2, <2>2 DEF Leaving, UserAt
  <2>6. Connected(c)'
    BY <1>1, <1>2, <2>1, <2>3, <2>4, <2>5 DEF Connected, BeingServed, BeingAnswered, Requesting
  <2> QED
    BY <1>1, <1>2, <2>6, ThreadStepMoves DEF Related
<1> QED
  BY <1>3, <1>4

(* The end of the process leaves nothing to say.                           *)
LEMMA DieEnds ==
    ASSUME InStep, Die, UNCHANGED user
    PROVE  InStep'
<1>1. state' = "dead" /\ UNCHANGED <<pc, local, user>>
  BY DEF Die
<1>2. WireFields'
  BY EndsIs DEF Die, InStep, End
<1> QED
  BY <1>1, <1>2 DEF InStep, UserFields, ThreadFields

LEMMA NothingMoves ==
    ASSUME InStep, UNCHANGED <<user, pc, local, wire>>, state = "dead" => state' = "dead"
    PROVE  InStep'
<1>1. UserFields' /\ ThreadFields' /\ WireFields'
  BY DEF InStep, UserFields, ThreadFields, WireFields, wire
<1>2. \A d \in Client : Same(d)
  BY DEF Same, SameWire, wire
<1> QED
  BY <1>1, <1>2, StaysRelated DEF InStep

LEMMA InStepKept == InStep /\ [Next]_vars => InStep'
<1> SUFFICES ASSUME InStep, [Next]_vars PROVE InStep'
  OBVIOUS
<1>1. CASE UNCHANGED vars
  BY <1>1, NothingMoves DEF vars, server, process
<1>2. ASSUME NEW c \in Client, ClientStep(c) PROVE InStep'
  BY <1>2, ClientKeeps
<1>3. ASSUME UNCHANGED user, NEW c \in Client, Accept(c) \/ InstanceThread(c) PROVE InStep'
  <2>1. CASE RecvCommand(c) \/ RecvKeyLen(c) \/ RecvKey(c) \/ RecvValueLen(c) \/ RecvValue(c)
    BY <1>3, <2>1, RecvCommandKeeps, RecvLenKeeps, RecvKeyKeeps, RecvValueKeeps
  <2>2. CASE LockedCall(c) \/ Get(c) \/ Set(c) \/ TakeOutOld(c) \/ Del(c) \/ UnlockedCall(c)
    BY <1>3, <2>2, CallKeeps, UnlockedCallKeeps
  <2>3. CASE Accept(c) \/ Fails(c) \/ Answer(c) \/ CloseConnection(c)
    BY <1>3, <2>3, AcceptKeeps, ThreadFailsKeeps, AnswerKeeps, CloseConnectionKeeps
  <2>4. CASE CallCrashes(c) \/ AnswerBreaks(c)
    BY <1>3, <2>4, DieEnds DEF CallCrashes, AnswerBreaks
  <2>5. CASE Prints(c)
    BY <1>3, <2>5, NothingMoves DEF Prints, process
  <2> QED
    BY <1>3, <2>1, <2>2, <2>3, <2>4, <2>5 DEF InstanceThread
<1>4. ASSUME UNCHANGED user, NEW t \in Thread, Interrupt(t) \/ exit_nicely(t) PROVE InStep'
  <2>1. CASE Interrupt(t)
    BY <1>4, <2>1, NothingMoves DEF Interrupt
  <2>2. CASE \/ ExitPrints(t) \/ ExitLocks(t) \/ ExitCloses(t) \/ ExitUnlocks(t)
             \/ ExitCleansUp(t)
    BY <1>4, <2>2, NothingMoves DEF ExitPrints, ExitLocks, ExitCloses, ExitUnlocks, ExitCleansUp, In
  <2>3. CASE ExitCrashes(t) \/ Exits(t)
    BY <1>4, <2>3, DieEnds DEF ExitCrashes, Exits
  <2> QED
    BY <1>4, <2>1, <2>2, <2>3 DEF exit_nicely
<1>5. CASE UNCHANGED user /\ (AcceptFails \/ Prints(Main))
  BY <1>5, NothingMoves DEF AcceptFails, Prints, Runs, process
<1> QED
  BY <1>1, <1>2, <1>3, <1>4, <1>5 DEF Next, ServerNext

LEMMA InitInStep == Init => InStep
<1> SUFFICES ASSUME Init PROVE InStep
  OBVIOUS
<1>1. UserFields /\ ThreadFields /\ WireFields
  BY DEF Init, WireInit, ServerInit, ClientsInit, UserFields, ThreadFields, WireFields, NoLocals
<1>2. ASSUME NEW c \in Client PROVE NotConnected(c)
  BY DEF Init, WireInit, ServerInit, ClientsInit, NotConnected, NoLocals, End
<1> QED
  BY <1>1, <1>2 DEF InStep, Related

LEMMA AlwaysInStep == Spec => []InStep
BY InitInStep, InStepKept, PTL DEF Spec

(* The database is called only for what a client has asked and still waits *)
(* for, whatever signals arrive, as long as no client dies.                *)
THEOREM CallsForWhatIsAsked ==
    ASSUME Dying = {}
    PROVE  Spec => []CallsAreAsked
<1>1. InStep => CallsAreAsked
  BY DEF InStep, CallsAreAsked, Requesting, Related, NotConnected, Connected, Away, Idle, OnItsWay,
         BeingServed, BeingAnswered, Leaving
<1> QED
  BY <1>1, AlwaysInStep, PTL

(* It is called for nothing else by the thread of a client that is still   *)
(* connected, whatever other clients do and however they end.              *)
THEOREM ServesTheConnected == Spec => []ConnectedAreServed
<1>1. InStep => ConnectedAreServed
  BY DEF InStep, ConnectedAreServed, Requesting, Related, NotConnected, Connected, Away, Idle,
         OnItsWay, BeingServed, BeingAnswered, Leaving, End
<1> QED
  BY <1>1, AlwaysInStep, PTL

-----------------------------------------------------------------------------
(* The steps of the service, one client at a time.                         *)
LEMMA OthersAsPromised ==
    ASSUME NEW d \in Client, Same(d)
    PROVE  /\ Stage(d)' = Stage(d) /\ Reply(d)' = Reply(d)
           /\ user'[d].request = user[d].request
           /\ Measured(d) => Measured(d)'
<1>1. /\ user'[d] = user[d] /\ pc'[d] = pc[d] /\ local'[d] = local[d]
      /\ words'["server"][d] = words["server"][d] /\ words'["client"][d] = words["client"][d]
  BY DEF Same, SameWire, End
<1>2. /\ Waiting(d)' = Waiting(d) /\ Done(d)' = Done(d) /\ ToldWords(d)' = ToldWords(d)
      /\ \A l : UserAt(d, l)' = UserAt(d, l)
  BY <1>1 DEF Waiting, Done, ToldWords, UserAt
<1>3. Told(d)' = Told(d)
  BY <1>1, <1>2 DEF Told
<1> QED
  BY <1>1, <1>2, <1>3 DEF Stage, Reply, Measured

StoreStays == \A s \in Str : ValueOf(s)' = ValueOf(s)

LEMMA Stutters ==
    ASSUME AsPromised, Undisturbed', NEW c \in Client,
           \A d \in Others(c) : Same(d), StoreStays,
           Stage(c)' = Stage(c), Reply(c)' = Reply(c), user'[c].request = user[c].request,
           Measured(c)'
    PROVE  AsPromised' /\ UNCHANGED Promised!vars
<1>1. \A d \in Client : /\ Stage(d)' = Stage(d) /\ Reply(d)' = Reply(d)
                        /\ user'[d].request = user[d].request /\ Measured(d)'
  BY OthersAsPromised DEF Others, AsPromised
<1> QED
  BY <1>1 DEF AsPromised, Promised!vars, StoreStays

LEMMA ServiceAsks ==
    ASSUME AsPromised, Undisturbed', NEW c \in Client, NEW r \in Request,
           \A d \in Others(c) : Same(d), StoreStays,
           Stage(c) = "idle", Stage(c)' = "asked", Reply(c)' = Reply(c), user'[c].request = r,
           Measured(c)'
    PROVE  AsPromised' /\ Promised!Next
<1>1. \A d \in Others(c) : /\ Stage(d)' = Stage(d) /\ Reply(d)' = Reply(d)
                           /\ user'[d].request = user[d].request /\ Measured(d)'
  BY OthersAsPromised DEF Others, AsPromised
<1>2. Promised!Ask(c, r)
  BY <1>1 DEF Promised!Ask, StoreStays, Others
<1> QED
  BY <1>1, <1>2 DEF AsPromised, Promised!Next, Others

LEMMA ServiceReplies ==
    ASSUME AsPromised, Undisturbed', NEW c \in Client,
           \A d \in Others(c) : Same(d), StoreStays,
           Stage(c) = "done", Stage(c)' = "idle", Reply(c)' = Reply(c),
           user'[c].request = user[c].request,
           Measured(c)'
    PROVE  AsPromised' /\ Promised!Next
<1>1. \A d \in Others(c) : /\ Stage(d)' = Stage(d) /\ Reply(d)' = Reply(d)
                           /\ user'[d].request = user[d].request /\ Measured(d)'
  BY OthersAsPromised DEF Others, AsPromised
<1>2. Promised!Reply(c)
  BY <1>1 DEF Promised!Reply, StoreStays, Others
<1> QED
  BY <1>1, <1>2 DEF AsPromised, Promised!Next, Others

LEMMA ServiceDoes ==
    ASSUME AsPromised, Undisturbed', NEW c \in Client, \A d \in Others(c) : Same(d),
           Stage(c) = "asked", Stage(c)' = "done", user'[c].request = user[c].request,
           [s \in Str |-> ValueOf(s)]' = Promised!Effect(user[c].request),
           Reply(c)' = Promised!Outcome(user[c].request),
           Measured(c)'
    PROVE  AsPromised' /\ Promised!Next
<1>1. \A d \in Others(c) : /\ Stage(d)' = Stage(d) /\ Reply(d)' = Reply(d)
                           /\ user'[d].request = user[d].request /\ Measured(d)'
  BY OthersAsPromised DEF Others, AsPromised
<1>2. [d \in Client |-> Stage(d)]' = [[d \in Client |-> Stage(d)] EXCEPT ![c] = "done"]
  BY <1>1 DEF Others
<1>3. [d \in Client |-> Reply(d)]' =
        [[d \in Client |-> Reply(d)] EXCEPT ![c] = Promised!Outcome(user[c].request)]
  BY <1>1 DEF Others
<1>4. [d \in Client |-> user[d].request]' = [d \in Client |-> user[d].request]
  BY <1>1 DEF Others
<1>5. Promised!Do(c)
  BY <1>2, <1>3, <1>4 DEF Promised!Do
<1> QED
  BY <1>1, <1>5 DEF AsPromised, Promised!Next, Others

-----------------------------------------------------------------------------
(* What the service has stored: at most one thread replaces a value.       *)
OneReplaces == \A d, e \in Client : pc[d] = "replace" /\ pc[e] = "replace" => d = e

ValuesAre ==
    \A s : /\ (\A d \in Client : pc[d] # "replace") => ValueOf(s) = db[s]
          /\ \A d \in Client : pc[d] = "replace" =>
               ValueOf(s) = IF local[d].key = s THEN local[d].value ELSE db[s]

LEMMA ValueOfIs == OneReplaces => ValuesAre
<1> SUFFICES ASSUME OneReplaces, NEW s
             PROVE  /\ (\A d \in Client : pc[d] # "replace") => ValueOf(s) = db[s]
                    /\ \A d \in Client : pc[d] = "replace" =>
                         ValueOf(s) = IF local[d].key = s THEN local[d].value ELSE db[s]
  BY DEF ValuesAre
<1>1. ASSUME \A d \in Client : pc[d] # "replace" PROVE ValueOf(s) = db[s]
  BY <1>1 DEF ValueOf, Replaces
<1>2. ASSUME NEW d \in Client, pc[d] = "replace"
      PROVE  ValueOf(s) = IF local[d].key = s THEN local[d].value ELSE db[s]
  <2>1. CASE local[d].key = s
    <3>1. Replaces(d, s) /\ \A e \in Client : Replaces(e, s) => e = d
      BY <1>2, <2>1 DEF Replaces, OneReplaces
    <3>2. (CHOOSE e \in Client : Replaces(e, s)) = d
      BY <3>1
    <3> QED
      BY <2>1, <3>1, <3>2 DEF ValueOf
  <2>2. CASE local[d].key # s
    <3>1. \A e \in Client : ~Replaces(e, s)
      BY <1>2, <2>2 DEF Replaces, OneReplaces
    <3> QED
      BY <2>2, <3>1 DEF ValueOf
  <2> QED
    BY <2>1, <2>2
<1> QED
  BY <1>1, <1>2

LEMMA CallsAlone == IInv /\ state = "serving" =>
    /\ OneReplaces
    /\ \A c \in Client : pc[c] \in {"call", "replace", "unlock"} =>
         \A d \in Client : d # c => pc[d] \notin {"call", "replace", "unlock"}
BY DEF IInv, OwnerInside, Calls, OneReplaces

LEMMA Values ==
    IInv /\ IInv' /\ Undisturbed /\ Undisturbed' => ValuesAre /\ ValuesAre'
<1>1. IInv /\ Undisturbed => ValuesAre
  BY CallsAlone, ValueOfIs DEF Undisturbed
<1> QED
  BY <1>1, PTL

LEMMA StoreIsKept ==
    ASSUME IInv, IInv', Undisturbed, Undisturbed', NEW c \in Client,
           \A d \in Others(c) : Same(d),
           pc[c] # "replace", pc'[c] # "replace", db' = db
    PROVE  StoreStays
<1>1. ValuesAre /\ ValuesAre'
  BY Values
<1>2. CASE \A d \in Client : pc[d] # "replace"
  <2>1. \A d \in Client : pc'[d] # "replace"
    BY <1>2 DEF Others, Same
  <2> QED
    BY <1>1, <1>2, <2>1 DEF ValuesAre, StoreStays
<1>3. ASSUME NEW d \in Client, pc[d] = "replace" PROVE StoreStays
  <2>1. pc'[d] = "replace" /\ local'[d] = local[d]
    BY <1>3 DEF Others, Same
  <2> QED
    BY <1>1, <1>3, <2>1 DEF ValuesAre, StoreStays
<1> QED
  BY <1>2, <1>3

-----------------------------------------------------------------------------
(* The steps of a client, as steps of the service.                         *)
Serves == AsPromised' /\ (Promised!Next \/ UNCHANGED Promised!vars)

LEMMA WaitingIs ==
    ASSUME InStep, state = "serving", NEW c \in Client, Waiting(c)
    PROVE  /\ Connected(c) /\ peer["client"][c] = "open" /\ peer["server"][c] = "open"
           /\ OnItsWay(c) \/ BeingServed(c) \/ BeingAnswered(c)
           /\ user[c].at \in {"length", "value"} => BeingAnswered(c)
<1>1. user[c].at \in {"asked", "length", "value"}
  BY DEF Waiting
<1> QED
  BY <1>1, ClientIsHeard DEF Connected

LEMMA NotWaitingStutters ==
    ASSUME AsPromised, Undisturbed', NEW c \in Client,
           \A d \in Others(c) : Same(d), StoreStays,
           ~Waiting(c), ~Waiting(c)',
           user'[c].result = user[c].result, user'[c].request = user[c].request
    PROVE  Serves
<1>1. Stage(c)' = Stage(c) /\ Reply(c)' = Reply(c) /\ Measured(c)'
  BY DEF Stage, Reply, Measured
<1> QED
  BY <1>1, Stutters DEF Serves

LEMMA ServedAsk ==
    ASSUME InStep, AsPromised, Undisturbed', NEW c \in Client, NEW r \in Request, Ask(c, r),
           ThreadsStay, \A d \in Others(c) : Same(d), StoreStays
    PROVE  Serves
<1>1. Idle(c) /\ peer["client"][c] = "open"
  BY ClientIsHeard DEF Ask, Asks, UserAt, AsPromised, Undisturbed
<1>2. /\ words'["server"][c] = words["server"][c] \o WordsOf(r)
      /\ WordsOf(r) # <<>> /\ <<>> \o WordsOf(r) = WordsOf(r)
  BY <1>1, SendsIs, RequestWords DEF Ask, InStep, End, OtherEnd
<1>3. /\ user'[c].at = "asked" /\ user'[c].request = r /\ user'[c].result = user[c].result
      /\ user[c].at = "idle"
  BY DEF Ask, Asks, UserAt, InStep, UserFields
<1>4. ~Waiting(c) /\ Waiting(c)' /\ ~Done(c)'
  BY <1>1, <1>2, <1>3 DEF Waiting, Done, Idle, ThreadsStay
<1>5. /\ Stage(c) = "idle" /\ Stage(c)' = "asked" /\ Reply(c)' = Reply(c)
      /\ Measured(c)'
  BY <1>3, <1>4 DEF Stage, Reply, Measured
<1> QED
  BY <1>3, <1>5, ServiceAsks DEF Serves

(* Hearing a word leaves the words behind it.                              *)
LEMMA WordsBehind ==
    ASSUME NEW a, NEW b, IsSeq(a), IsSeq(b), a # <<>>
    PROVE  /\ Len(a \o b) \in Nat
           /\ \A i \in 1 .. Len(a \o b) - 1 : (Tail(a) \o b)[i] = (a \o b)[i + 1]
<1>1. PICK S : a \in Seq(S) /\ b \in Seq(S)
  BY BothSeqs
<1>2. Tail(a) \in Seq(S) /\ Len(Tail(a)) = Len(a) - 1 /\ Len(a) \in Nat /\ Len(a) # 0
  BY <1>1
<1>3. \A i \in 1 .. Len(a) - 1 : Tail(a)[i] = a[i + 1]
  BY <1>1, <1>2
<1>4. Len(a \o b) = Len(a) + Len(b) /\ Len(b) \in Nat
  BY <1>1
<1>5. ASSUME NEW i \in 1 .. Len(a) + Len(b) - 1
      PROVE  (Tail(a) \o b)[i] = (a \o b)[i + 1]
  <2>1. (a \o b)[i + 1] = IF i + 1 <= Len(a) THEN a[i + 1] ELSE b[i + 1 - Len(a)]
    BY <1>1, <1>2, <1>4
  <2>2. (Tail(a) \o b)[i] = IF i <= Len(a) - 1 THEN Tail(a)[i] ELSE b[i - (Len(a) - 1)]
    BY <1>1, <1>2, <1>4
  <2>3. i + 1 - Len(a) = i - (Len(a) - 1)
    BY <1>2
  <2> QED
    BY <1>2, <1>3, <2>1, <2>2, <2>3
<1> QED
  BY <1>4, <1>5

LEMMA ServedHear ==
    ASSUME InStep, AsPromised, Undisturbed', NEW c \in Client,
           HearCode(c) \/ HearLength(c) \/ HearValue(c),
           ThreadsStay, \A d \in Others(c) : Same(d), StoreStays
    PROVE  Serves
<1> DEFINE ws == AnswerLeft(c)
           n == Len(ws)
           rest == Tail(words["client"][c]) \o local[c].answer
<1>1. Hears(c) /\ user[c].at \in {"asked", "length", "value"} /\ state = "serving"
  BY DEF HearCode, HearLength, HearValue, UserAt, AsPromised, Undisturbed
<1>2. /\ BeingAnswered(c) /\ Heard(c) = ws[1] /\ words["client"][c] # <<>>
      /\ n = LengthLeft(c, Heard(c))
      /\ n = 1 => pc[c] = "command" /\ local[c].answer = <<>>
      /\ peer["client"][c] = "open" /\ words'["client"][c] = Tail(words["client"][c])
      /\ words'["server"][c] = words["server"][c] /\ words["server"][c] = <<>>
  <2>1. /\ BeingAnswered(c) /\ Heard(c) = ws[1] /\ words["client"][c] # <<>>
        /\ LengthLeft(c, Heard(c)) = 1 => pc[c] = "command" /\ local[c].answer = <<>>
        /\ peer["client"][c] = "open"
    BY <1>1, AnswerIsHeard
  <2>2. n = LengthLeft(c, Heard(c)) /\ words["server"][c] = <<>>
    BY <2>1 DEF BeingAnswered
  <2>3. /\ words'["client"][c] = Tail(words["client"][c])
        /\ words'["server"][c] = words["server"][c]
    BY <1>1, <2>1, HearsIs DEF InStep
  <2> QED
    BY <2>1, <2>2, <2>3
<1>3. /\ IsSeq(words["client"][c]) /\ IsSeq(local[c].answer)
      /\ pc[c] \in {"answer", "command"} /\ pc'[c] = pc[c] /\ local'[c] = local[c]
  BY <1>2 DEF BeingAnswered, ThreadsStay
<1>4. \A i \in 1 .. n - 1 : rest[i] = ws[i + 1]
  <2> DEFINE a == words["client"][c]
             b == local[c].answer
  <2>1. IsSeq(a) /\ IsSeq(b) /\ a # <<>>
    BY <1>2, <1>3
  <2> HIDE DEF a, b
  <2>2. \A i \in 1 .. Len(a \o b) - 1 : (Tail(a) \o b)[i] = (a \o b)[i + 1]
    BY <2>1, WordsBehind
  <2> QED
    BY <2>2 DEF AnswerLeft, a, b
<1>5. Len(rest) = n - 1
  BY <1>2, <1>3, WordHeard DEF AnswerLeft
<1>6. ToldWords(c) = ws /\ ToldWords(c)' = rest
  BY <1>2, <1>3 DEF ToldWords, AnswerLeft
<1>7. Waiting(c) /\ Done(c) /\ Done(c)'
  BY <1>1, <1>2, <1>3 DEF Waiting, Done
<1>8. IF UserAt(c, "value") THEN user[c].code = LenOf[ws[n]] ELSE n > 1 => ws[n - 1] = LenOf[ws[n]]
  BY <1>6, <1>7 DEF AsPromised, Measured
<1>9. /\ Stage(c) = "done"
      /\ Reply(c) = IF UserAt(c, "asked") /\ n = 1 THEN Verdict(user[c].request, ws[1]) ELSE ws[n]
  BY <1>6, <1>7 DEF Stage, Reply, Told
<1> HIDE DEF ws, n, rest
<1>10. CASE n = 1 /\ user'[c].at = "idle"
  <2>1. ~Waiting(c)' /\ user'[c].request = user[c].request
    BY <1>10 DEF Waiting, HearCode, HearLength, HearValue, InStep, UserFields
  <2>2. user'[c].result = Reply(c)
    <3>1. CASE HearCode(c)
      BY <1>2, <1>9, <1>10, <3>1 DEF HearCode, UserAt, InStep, UserFields
    <3>2. CASE HearLength(c)
      BY <1>10, <3>2 DEF HearLength, InStep, UserFields
    <3>3. CASE HearValue(c)
      BY <1>2, <1>8, <1>9, <1>10, <3>3 DEF HearValue, UserAt, InStep, UserFields
    <3> QED
      BY <3>1, <3>2, <3>3
  <2>3. Stage(c)' = "idle" /\ Reply(c)' = Reply(c) /\ Measured(c)'
    BY <2>1, <2>2 DEF Stage, Reply, Measured
  <2> QED
    BY <1>9, <2>1, <2>3, ServiceReplies DEF Serves
<1>11. CASE \/ UserAt(c, "asked") /\ n = 3 /\ user'[c].at = "length"
            \/ UserAt(c, "length") /\ n = 2 /\ user'[c].at = "value" /\ user'[c].code = Heard(c)
  <2>1. Waiting(c)' /\ user'[c].request = user[c].request
    BY <1>11 DEF Waiting, HearCode, HearLength, HearValue, InStep, UserFields
  <2>2. rest[n - 1] = ws[n]
    BY <1>4, <1>11
  <2>3. Told(c)' = ws[n]
    BY <1>5, <1>6, <1>11, <2>2 DEF Told, UserAt
  <2>4. Stage(c)' = "done" /\ Reply(c)' = ws[n] /\ Reply(c) = ws[n]
    BY <1>7, <1>9, <1>11, <2>1, <2>3 DEF Stage, Reply, UserAt
  <2>5. Measured(c)'
    <3>1. CASE UserAt(c, "asked") /\ n = 3 /\ user'[c].at = "length"
      <4>1. rest[1] = ws[2] /\ rest[2] = ws[3] /\ ws[2] = LenOf[ws[3]] /\ Len(rest) = 2
        BY <1>4, <1>5, <1>8, <3>1 DEF UserAt
      <4> QED
        BY <1>6, <3>1, <4>1 DEF Measured, UserAt
    <3>2. CASE UserAt(c, "length") /\ n = 2 /\ user'[c].at = "value" /\ user'[c].code = Heard(c)
      <4>1. rest[1] = ws[2] /\ Len(rest) = 1 /\ ws[1] = LenOf[ws[2]]
        BY <1>4, <1>5, <1>8, <3>2 DEF UserAt
      <4> QED
        BY <1>2, <1>6, <3>2, <4>1 DEF Measured, UserAt
    <3> QED
      BY <1>11, <3>1, <3>2
  <2> QED
    BY <1>9, <2>1, <2>4, <2>5, Stutters DEF Serves
<1> QED
  <2>1. CASE HearCode(c)
    BY <1>2, <1>10, <1>11, <2>1 DEF HearCode, UserAt, LengthLeft, InStep, UserFields, n
  <2>2. CASE HearLength(c)
    BY <1>2, <1>10, <1>11, <2>2 DEF HearLength, UserAt, LengthLeft, InStep, UserFields, n
  <2>3. CASE HearValue(c)
    BY <1>2, <1>10, <1>11, <2>3 DEF HearValue, UserAt, LengthLeft, InStep, UserFields, n
  <2> QED
    BY <2>1, <2>2, <2>3

Good == IInv /\ InStep /\ AsPromised

LEMMA StepOfClient ==
    ASSUME Good, IInv', NEW c \in Client, ClientStep(c)
    PROVE  /\ ThreadsStay /\ Undisturbed' /\ StoreStays
           /\ \A d \in Others(c) : user'[d] = user[d]
<1>1. ThreadsStay /\ UNCHANGED <<state, signals, handler, db>>
  BY DEF ClientStep, ThreadsStay, server, process
<1>2. Undisturbed'
  BY <1>1 DEF Good, AsPromised, Undisturbed
<1>3. ValuesAre /\ ValuesAre'
  BY <1>2, Values DEF Good, AsPromised
<1>4. StoreStays
  <2>1. CASE \A d \in Client : pc[d] # "replace"
    BY <1>1, <1>3, <2>1 DEF ValuesAre, StoreStays, ThreadsStay
  <2>2. ASSUME NEW d \in Client, pc[d] = "replace" PROVE StoreStays
    BY <1>1, <1>3, <2>2 DEF ValuesAre, StoreStays, ThreadsStay
  <2> QED
    BY <2>1, <2>2
<1>5. \A d \in Others(c) : user'[d] = user[d]
  BY DEF ClientStep, client, GoesOn, Connect, Ask, AskFails, AskBreaks, HearCode, HearLength, HearValue,
         HearError, HearBye, CloseSocket, Leave, Dies, UserGoesTo, Others, Good, InStep, UserFields
<1> QED
  BY <1>1, <1>2, <1>4, <1>5

LEMMA StepOfWire ==
    ASSUME Good, NEW c \in Client, ClientStep(c)
    PROVE  OthersSameWire(c)
<1>1. WireFields
  BY DEF Good, InStep
<1>2. ASSUME NEW ws, Closes("client", {c}, ws) PROVE OthersSameWire(c)
  BY <1>1, <1>2, ClosesIs DEF OthersSameWire, End
<1>3. ASSUME UNCHANGED wire PROVE OthersSameWire(c)
  BY <1>1, <1>3 DEF wire, OthersSameWire, SameWire
<1>4. CASE GoesOn(c)
  BY <1>1, <1>2, <1>4, HearsIs, GetsErrorIs
     DEF GoesOn, HearCode, HearLength, HearValue, HearError, HearBye, CloseSocket, End
<1>5. CASE Connect(c, Listening) \/ Leave(c) \/ Dies(c)
  BY <1>1, <1>2, <1>3, <1>5, ConnectsIs, SendsIs, GetsErrorIs DEF Connect, Leave, Dies, End
<1>6. CASE \E r \in Request : Ask(c, r) \/ AskFails(c, r) \/ AskBreaks(c, r)
  BY <1>1, <1>2, <1>6, SendsIs, GetsErrorIs DEF Ask, AskFails, AskBreaks, End
<1> QED
  BY <1>4, <1>5, <1>6 DEF ClientStep, client

LEMMA ClientServes ==
    ASSUME Dying = {}, Good, IInv', NEW c \in Client, ClientStep(c)
    PROVE  Serves
<1>1. /\ ThreadsStay /\ Undisturbed' /\ StoreStays
      /\ \A d \in Others(c) : Same(d)
      /\ InStep /\ AsPromised /\ state = "serving"
  BY StepOfClient, StepOfWire DEF Same, Others, OthersSameWire, ThreadsStay, Good, AsPromised, Undisturbed
<1>2. ASSUME NEW l, l \notin {"asked", "length", "value"}, UserGoesTo(c, l), ~Waiting(c)
      PROVE  Serves
  <2>1. ~Waiting(c)' /\ user'[c].result = user[c].result /\ user'[c].request = user[c].request
    BY <1>1, <1>2 DEF Waiting, UserGoesTo, InStep, UserFields
  <2> QED
    BY <1>1, <1>2, <2>1, NotWaitingStutters
<1>3. CASE \E r \in Request : Ask(c, r)
  BY <1>1, <1>3, ServedAsk
<1>4. CASE HearCode(c) \/ HearLength(c) \/ HearValue(c)
  BY <1>1, <1>4, ServedHear
<1>5. CASE (\E r \in Request : AskFails(c, r) \/ AskBreaks(c, r)) \/ HearError(c)
  BY <1>1, <1>5, ClientIsHeard DEF AskFails, AskBreaks, HearError, Asks, UserAt, SendFails, SendBreaks,
                                   GetsError
<1>6. CASE HearBye(c) \/ CloseSocket(c) \/ Leave(c) \/ Connect(c, Listening)
  BY <1>2, <1>6 DEF HearBye, CloseSocket, Leave, Connect, Waiting, UserAt
<1>7. ~Dies(c)
  BY DEF Dies
<1> QED
  BY <1>3, <1>4, <1>5, <1>6, <1>7 DEF ClientStep, client, GoesOn

-----------------------------------------------------------------------------
(* The steps of a thread, as steps of the service.                         *)
LEMMA StagesAre ==
    ASSUME NEW c \in Client
    PROVE  /\ ~Waiting(c) => Stage(c) = "idle" /\ Reply(c) = user[c].result
           /\ Waiting(c) /\ ~Done(c) => Stage(c) = "asked" /\ Reply(c) = user[c].result
           /\ Waiting(c) /\ Done(c) => Stage(c) = "done" /\ Reply(c) = Told(c)
BY DEF Stage, Reply

(* A step before the request takes effect, or of a client that waits for   *)
(* nothing.                                                                *)
LEMMA QuietStep ==
    ASSUME AsPromised, Undisturbed', NEW c \in Client,
           \A d \in Others(c) : Same(d), StoreStays, UNCHANGED user,
           Waiting(c) => ~Done(c) /\ ~Done(c)'
    PROVE  Serves
<1>1. Waiting(c)' = Waiting(c)
  BY DEF Waiting
<1>2. Stage(c)' = Stage(c) /\ Reply(c)' = Reply(c) /\ Measured(c)'
  BY <1>1 DEF Stage, Reply, Measured
<1> QED
  BY <1>2, Stutters DEF Serves

(* A step after it.                                                        *)
LEMMA LateStep ==
    ASSUME AsPromised, Undisturbed', NEW c \in Client,
           \A d \in Others(c) : Same(d), StoreStays, UNCHANGED user,
           Waiting(c), Done(c), Done(c)', ToldWords(c)' = ToldWords(c)
    PROVE  Serves
<1>1. Waiting(c)' = Waiting(c) /\ \A l : UserAt(c, l)' = UserAt(c, l)
  BY DEF Waiting, UserAt
<1>2. Told(c)' = Told(c)
  BY <1>1 DEF Told
<1>3. Measured(c)'
  BY <1>1 DEF Measured, AsPromised
<1>4. Stage(c)' = Stage(c) /\ Reply(c)' = Reply(c)
  BY <1>1, <1>2 DEF Stage, Reply
<1> QED
  BY <1>3, <1>4, Stutters DEF Serves

LEMMA StepOfThread ==
    ASSUME Good, IInv', NEW c \in Client, Accept(c) \/ InstanceThread(c), ~Die, UNCHANGED user
    PROVE  /\ Undisturbed' /\ (\A d \in Others(c) : Same(d))
           /\ db' = db /\ pc[c] # "replace" /\ pc'[c] # "replace" => StoreStays
<1>1. WireFields /\ ThreadFields /\ DOMAIN db = Str
  BY DEF Good, InStep, AsPromised, Undisturbed
<1>2. OthersSameWire(c)
  <2>1. ASSUME UNCHANGED wire PROVE OthersSameWire(c)
    BY <1>1, <2>1 DEF wire, OthersSameWire, SameWire
  <2>2. ASSUME NEW ws, Closes("server", {c}, ws) PROVE OthersSameWire(c)
    BY <1>1, <2>2, ClosesIs DEF OthersSameWire, End
  <2>3. CASE RecvCommand(c) \/ RecvKeyLen(c) \/ RecvKey(c) \/ RecvValueLen(c) \/ RecvValue(c)
    BY <1>1, <2>3, RecvIs DEF RecvCommand, RecvKeyLen, RecvKey, RecvValueLen, RecvValue
  <2>4. CASE Fails(c) \/ Answer(c) \/ CloseConnection(c)
    BY <1>1, <2>2, <2>4, GetsErrorIs, SendsIs DEF Fails, Answer, CloseConnection, End
  <2>5. CASE \/ Accept(c) \/ LockedCall(c) \/ Get(c) \/ Set(c) \/ TakeOutOld(c) \/ Del(c)
             \/ UnlockedCall(c) \/ Prints(c)
    BY <2>1, <2>5 DEF Accept, LockedCall, Get, Set, TakeOutOld, Del, UnlockedCall, Prints
  <2> QED
    BY <2>3, <2>4, <2>5 DEF InstanceThread, CallCrashes, AnswerBreaks
<1>3. ASSUME NEW d \in Others(c) PROVE pc'[d] = pc[d] /\ local'[d] = local[d]
  <2>1. CASE RecvCommand(c) \/ RecvKeyLen(c) \/ RecvKey(c) \/ RecvValueLen(c) \/ RecvValue(c)
    BY <1>1, <2>1 DEF RecvCommand, RecvKeyLen, RecvKey, RecvValueLen, RecvValue, Decide, GoesTo,
                      Others, ThreadFields
  <2>2. CASE Fails(c) \/ Answer(c) \/ CloseConnection(c)
    BY <1>1, <2>2 DEF Fails, Answer, CloseConnection, GoesTo, Others, ThreadFields
  <2>3. CASE \/ Accept(c) \/ LockedCall(c) \/ Get(c) \/ Set(c) \/ TakeOutOld(c) \/ Del(c)
             \/ UnlockedCall(c) \/ Prints(c)
    BY <1>1, <2>3 DEF Accept, LockedCall, Get, Set, TakeOutOld, Del, UnlockedCall, Prints, GoesTo,
                      Others, ThreadFields
  <2> QED
    BY <2>1, <2>2, <2>3 DEF InstanceThread, CallCrashes, AnswerBreaks
<1>4. UNCHANGED <<state, signals, handler>> /\ DOMAIN db' = Str
  BY <1>1 DEF InstanceThread, Accept, RecvCommand, RecvKeyLen, RecvKey, RecvValueLen, RecvValue, Fails,
              LockedCall, Get, Set, TakeOutOld, Del, UnlockedCall, CallCrashes, Answer,
              AnswerBreaks, CloseConnection, Prints, process
<1>5. Undisturbed'
  BY <1>4 DEF Good, AsPromised, Undisturbed
<1>6. \A d \in Others(c) : Same(d)
  BY <1>2, <1>3 DEF Same, OthersSameWire, Others
<1> QED
  BY <1>5, <1>6, StoreIsKept DEF Good, AsPromised

(* A request takes effect with an answer of one word.                      *)
LEMMA OneWordTold ==
    ASSUME NEW c \in Client, NEW w, UserAt(c, "asked"), UNCHANGED user,
           words'["client"][c] = <<>>,
           IF pc'[c] = "replace" THEN w = 1 ELSE local'[c].answer = <<w>>
    PROVE  ToldWords(c)' = <<w>> /\ Told(c)' = Verdict(user[c].request, w) /\ Measured(c)'
<1>1. <<>> \o <<w>> = <<w>> /\ Len(<<w>>) = 1 /\ <<w>>[1] = w
  OBVIOUS
<1>2. ToldWords(c)' = <<w>>
  BY <1>1 DEF ToldWords
<1> QED
  BY <1>1, <1>2 DEF Told, Measured, UserAt

LEMMA DecideServes ==
    ASSUME Good, Undisturbed', NEW c \in Client, NEW key, NEW value, Decide(c, key, value),
           Recv(c), pc[c] \in {"key", "value"}, UNCHANGED user,
           \A d \in Others(c) : Same(d), StoreStays,
           Waiting(c) =>
             LET r == user[c].request IN key = r.key /\ (IsSet(r) => value = r.value)
    PROVE  Serves
<1> DEFINE r == user[c].request
           refusal == Refusal(local[c].op, key, value)
<1>1. /\ ThreadFields /\ InStep /\ AsPromised /\ state = "serving"
      /\ GoesTo(c, IF refusal = <<>> THEN "lock" ELSE "answer")
      /\ refusal \in {<<>>, <<2>>, <<3>>}
  BY DEF Decide, Refusal, Good, InStep, AsPromised, Undisturbed
<1>2. pc'[c] = IF refusal = <<>> THEN "lock" ELSE "answer"
  BY <1>1, GoesToPc
<1>3. CASE refusal = <<>> \/ ~Waiting(c)
  BY <1>1, <1>2, <1>3, QuietStep DEF Done
<1>4. CASE Waiting(c) /\ refusal # <<>>
  <2>1. OnItsWay(c) /\ words'["client"][c] = words["client"][c] /\ ~Away(c)
    BY <1>1, <1>4, WaitingIs, RecvIs DEF BeingServed, BeingAnswered, Requesting, Away, Connected, InStep
  <2>2. /\ UserAt(c, "asked") /\ local[c].op = r.code /\ r \in Request
        /\ words'["client"][c] = <<>>
    BY <2>1 DEF OnItsWay, NoAnswer
  <2>3. local'[c].answer = refusal
    BY <1>1 DEF Decide, ThreadFields
  <2>4. PICK w \in {2, 3} : refusal = <<w>>
    BY <1>1, <1>4
  <2>5. Told(c)' = Verdict(r, w) /\ Measured(c)'
    BY <1>2, <1>4, <2>2, <2>3, <2>4, OneWordTold
  <2>6. /\ w = 2 => TooLong(r.key)
        /\ w = 3 => ~TooLong(r.key) /\ IsSet(r) /\ TooLong(r.value)
    BY <1>4, <2>2, <2>4 DEF Refusal, IsSet
  <2>7. Promised!Effect(r) = [s \in Str |-> ValueOf(s)]
    BY <2>4, <2>6 DEF Promised!Effect, Promised!Refused, Promised!TooLong, Promised!IsSet, TooLong, IsSet
  <2>8. Promised!Outcome(r) = Verdict(r, w)
    <3> HIDE DEF refusal
    <3>1. CASE w = 2
      <4>1. Verdict(r, w) = "key too long"
        BY <3>1 DEF Verdict
      <4>2. Promised!Outcome(r) = "key too long"
        BY <2>6, <3>1 DEF Promised!Outcome, Promised!TooLong, TooLong
      <4> QED
        BY <4>1, <4>2
    <3>2. CASE w = 3
      <4>1. Verdict(r, w) = "value too long"
        BY <2>6, <3>2 DEF Verdict, IsSet, IsGet
      <4>2. Promised!Outcome(r) = "value too long"
        BY <2>6, <3>2 DEF Promised!Outcome, Promised!Refused, Promised!TooLong, Promised!IsSet, TooLong,
                          IsSet
      <4> QED
        BY <4>1, <4>2
    <3> QED
      BY <2>4, <3>1, <3>2
  <2>9. ~Done(c) /\ Done(c)' /\ Waiting(c)'
    BY <1>2, <1>4 DEF Done, Waiting
  <2>10. Stage(c) = "asked" /\ Stage(c)' = "done" /\ Reply(c)' = Promised!Outcome(r)
    BY <1>4, <2>5, <2>8, <2>9 DEF Stage, Reply
  <2>11. [s \in Str |-> ValueOf(s)]' = Promised!Effect(r)
    BY <2>7 DEF StoreStays
  <2> QED
    BY <1>1, <2>5, <2>10, <2>11, ServiceDoes DEF Serves
<1> QED
  BY <1>3, <1>4

LEMMA ReceivingServes ==
    ASSUME Good, IInv', UNCHANGED user, NEW c \in Client,
           \/ RecvCommand(c) \/ RecvKeyLen(c) \/ RecvKey(c) \/ RecvValueLen(c) \/ RecvValue(c)
    PROVE  Serves
<1>1. /\ InStep /\ AsPromised /\ state = "serving" /\ state' = state /\ Recv(c) /\ ThreadFields
      /\ pc[c] \in {"command", "key_len", "key", "value_len", "value"} /\ db' = db
  BY DEF RecvCommand, RecvKeyLen, RecvKey, RecvValueLen, RecvValue, At, process, Good, AsPromised,
         Undisturbed, InStep
<1>2. Undisturbed' /\ (\A d \in Others(c) : Same(d)) /\ (pc'[c] # "replace" => StoreStays)
  BY <1>1, StepOfThread DEF InstanceThread, Die, Good, AsPromised, Undisturbed
<1>3. ASSUME Waiting(c)
      PROVE  /\ OnItsWay(c) /\ \A stale : Received(c, stale) = {Head(words["server"][c])}
             /\ words["server"][c] # <<>>
  <2>1. ~Away(c) /\ ~Leaving(c)
    BY <1>1, <1>3, WaitingIs DEF Away, Connected, Leaving, Waiting, UserAt
  <2> QED
    BY <1>1, <2>1, WhatIsReceived
<1>4. CASE RecvCommand(c)
  <2>1. PICK code \in Received(c, StaleCode(c)) :
          GoesTo(c, IF code \in 0 .. 2 THEN "key_len" ELSE IF code = 3 THEN "answer" ELSE "command")
    BY <1>4 DEF RecvCommand
  <2>2. pc'[c] = IF code \in 0 .. 2 THEN "key_len" ELSE IF code = 3 THEN "answer" ELSE "command"
    BY <1>1, <2>1, GoesToPc
  <2>3. ASSUME Waiting(c) PROVE ~Done(c) /\ ~Done(c)'
    <3>1. user[c].request \in Request /\ words["server"][c] = WordsOf(user[c].request)
      BY <1>3, <1>4, <2>3 DEF OnItsWay, RecvCommand, At
    <3>2. code = user[c].request.code
      BY <1>3, <2>1, <2>3, <3>1, RequestWords
    <3>3. pc'[c] = "key_len" /\ pc[c] = "command"
      BY <1>4, <2>2, <3>1, <3>2, ClientsAssumption DEF RecvCommand, At
    <3> QED
      BY <1>3, <2>3, <3>3 DEF Done
  <2> QED
    BY <1>1, <1>2, <2>2, <2>3, QuietStep
<1>5. CASE RecvKeyLen(c) \/ RecvValueLen(c)
  <2>1. pc[c] \in {"key_len", "value_len"} /\ pc'[c] \in {"key", "value"}
    BY <1>1, <1>5, GoesToPc DEF RecvKeyLen, RecvValueLen, At
  <2> QED
    BY <1>1, <1>2, <2>1, QuietStep DEF Done
<1>6. CASE RecvKey(c)
  <2>1. PICK key \in Received(c, Garbage(local[c].code)) :
          IF local[c].op = 1
          THEN local' = [local EXCEPT ![c].key = key] /\ GoesTo(c, "value_len")
          ELSE Decide(c, key, None)
    BY <1>6 DEF RecvKey
  <2>2. pc[c] = "key"
    BY <1>6 DEF RecvKey, At
  <2>3. CASE local[c].op = 1
    <3>1. pc'[c] = "value_len"
      BY <1>1, <2>1, <2>3, GoesToPc
    <3> QED
      BY <1>1, <1>2, <2>2, <3>1, QuietStep DEF Done
  <2>4. CASE local[c].op # 1
    <3>1. Decide(c, key, None) /\ pc'[c] # "replace"
      BY <1>1, <2>1, <2>4, GoesToPc DEF Decide
    <3>2. Waiting(c) => key = user[c].request.key /\ ~IsSet(user[c].request)
      BY <1>3, <2>1, <2>2, <2>4, RequestWords DEF OnItsWay, IsSet
    <3> QED
      BY <1>1, <1>2, <2>2, <3>1, <3>2, DecideServes
  <2> QED
    BY <2>3, <2>4
<1>7. CASE RecvValue(c)
  <2>1. PICK value \in Received(c, Garbage(local[c].code)) : Decide(c, local[c].key, value)
    BY <1>7 DEF RecvValue
  <2>2. pc[c] = "value" /\ pc'[c] # "replace"
    <3>1. \E l \in {"lock", "answer"} : GoesTo(c, l)
      BY <2>1 DEF Decide
    <3> QED
      BY <1>1, <1>7, <3>1, GoesToPc DEF RecvValue, At
  <2>3. Waiting(c) => local[c].key = user[c].request.key /\ value = user[c].request.value
    <3>1. ASSUME Waiting(c)
          PROVE  local[c].key = user[c].request.key /\ words["server"][c] = <<user[c].request.value>>
      BY <1>3, <2>2, <3>1 DEF OnItsWay
    <3> QED
      BY <1>3, <2>1, <3>1
  <2> QED
    BY <1>1, <1>2, <2>1, <2>2, <2>3, DecideServes
<1> QED
  BY <1>4, <1>5, <1>6, <1>7

(* What a thread that calls the database calls it for.                     *)
LEMMA CallIs ==
    ASSUME Dying = {}, Good, NEW c \in Client, pc[c] \in {"call", "replace", "unlock"}
    PROVE  LET r == user[c].request IN
             /\ Waiting(c) /\ UserAt(c, "asked") /\ r \in Request /\ r.key \in Str
             /\ words["client"][c] = <<>> /\ (pc[c] # "unlock" => local[c].answer = <<>>)
             /\ local[c].op = r.code /\ local[c].key = r.key
             /\ IsSet(r) => local[c].value = r.value
             /\ ~Promised!Refused(r)
             /\ \A d \in Others(c) : pc[d] # "replace"
<1> DEFINE r == user[c].request
<1>1. BeingServed(c)
  BY DEF Good, InStep, AsPromised, Undisturbed, Related, NotConnected, Away, Connected, Idle, OnItsWay,
         BeingAnswered, Leaving
<1>2. /\ UserAt(c, "asked") /\ r \in Request /\ words["client"][c] = <<>>
      /\ pc[c] # "unlock" => local[c].answer = <<>>
      /\ local[c].op = r.code /\ local[c].key = r.key
      /\ IsSet(r) => local[c].value = r.value
      /\ Refusal(local[c].op, local[c].key, local[c].value) = <<>>
  BY <1>1 DEF BeingServed, Asked
<1>3. ~Promised!Refused(r)
  BY <1>2 DEF Refusal, Promised!Refused, Promised!IsSet, Promised!TooLong, TooLong, IsSet
<1>4. \A d \in Others(c) : pc[d] # "replace"
  BY CallsAlone DEF Good, AsPromised, Undisturbed, Others
<1> QED
  BY <1>2, <1>3, <1>4, ClientsAssumption DEF Waiting, UserAt

(* A call that takes effect: what is stored then, and what it answers.     *)
LEMMA EffectServes ==
    ASSUME Good, Undisturbed', NEW c \in Client, UNCHANGED user, \A d \in Others(c) : Same(d),
           pc[c] = "call", pc'[c] \in {"replace", "unlock"},
           UserAt(c, "asked"),
           [s \in Str |-> ValueOf(s)]' = Promised!Effect(user[c].request),
           Told(c)' = Promised!Outcome(user[c].request),
           Measured(c)'
    PROVE  Serves
<1>1. Waiting(c) /\ Waiting(c)' /\ ~Done(c) /\ Done(c)'
  BY DEF Waiting, UserAt, Done
<1>2. Stage(c) = "asked" /\ Stage(c)' = "done" /\ Reply(c)' = Promised!Outcome(user[c].request)
  BY <1>1 DEF Stage, Reply
<1> QED
  BY <1>2, ServiceDoes DEF Serves, Good

LEMMA GetServes ==
    ASSUME Dying = {}, Good, IInv', UNCHANGED user, NEW c \in Client, Get(c)
    PROVE  Serves
<1> DEFINE r == user[c].request
           value == db[r.key]
<1>1. /\ pc[c] = "call" /\ pc'[c] = "unlock" /\ local[c].op = 0 /\ db' = db /\ wire' = wire
      /\ ThreadFields /\ state = "serving" /\ state' = state
  BY GoesToPc DEF Get, At, Good, InStep, process, AsPromised, Undisturbed
<1>2. /\ UserAt(c, "asked") /\ r.key \in Str /\ words'["client"][c] = <<>>
      /\ r.code = 0 /\ local[c].key = r.key /\ ~Promised!Refused(r)
      /\ \A d \in Others(c) : pc[d] # "replace"
  BY <1>1, CallIs DEF wire
<1>3. local'[c].answer = IF value = None THEN <<0>> ELSE Found(value)
  BY <1>1, <1>2 DEF Get, ThreadFields
<1>4. Undisturbed' /\ (\A d \in Others(c) : Same(d)) /\ StoreStays
  BY <1>1, StepOfThread DEF InstanceThread, Die
<1>5. ValueOf(r.key) = value
  BY <1>1, <1>2, <1>4, Values DEF ValuesAre, Good, AsPromised, Others
<1>6. Promised!Effect(r) = [s \in Str |-> ValueOf(s)]
  BY <1>2 DEF Promised!Effect, Promised!IsGet
<1>7. Promised!Outcome(r) = value
  BY <1>2, <1>5 DEF Promised!Outcome, Promised!IsGet, Promised!Refused
<1> HIDE DEF value
<1>8. Told(c)' = value /\ Measured(c)'
  <2>1. CASE value = None
    <3>1. Told(c)' = Verdict(r, 0) /\ Measured(c)'
      BY <1>1, <1>2, <1>3, <2>1, OneWordTold
    <3> QED
      BY <1>2, <2>1, <3>1 DEF Verdict, IsGet
  <2>2. CASE value # None
    <3> DEFINE a == Found(value)
    <3>1. Len(a) = 3 /\ a[2] = LenOf[value] /\ a[3] = value
      BY DEF Found
    <3>2. <<>> \o a = a
      <4>1. a \in Seq({1, LenOf[value], value})
        BY DEF Found
      <4> HIDE DEF a
      <4> QED
        BY <4>1
    <3> HIDE DEF a
    <3>3. local'[c].answer = a
      BY <1>3, <2>2 DEF a
    <3>4. ToldWords(c)' = a
      BY <1>1, <1>2, <3>2, <3>3 DEF ToldWords
    <3>5. user'[c].at = "asked"
      BY <1>2 DEF UserAt
    <3>6. Told(c)' = value
      <4>1. Told(c)' = IF UserAt(c, "asked")' /\ Len(a) = 1 THEN Verdict(user'[c].request, a[1])
                       ELSE a[Len(a)]
        BY <3>4 DEF Told
      <4> QED
        BY <3>1, <4>1
    <3>7. Measured(c)'
      <4>1. a[Len(a) - 1] = LenOf[a[Len(a)]]
        BY <3>1
      <4> QED
        BY <3>4, <3>5, <4>1 DEF Measured, UserAt
    <3> QED
      BY <3>6, <3>7
  <2> QED
    BY <2>1, <2>2
<1>9. [s \in Str |-> ValueOf(s)]' = Promised!Effect(r)
  BY <1>4, <1>6 DEF StoreStays
<1> QED
  BY <1>1, <1>2, <1>4, <1>7, <1>8, <1>9, EffectServes

(* Setting and deleting answer 1, and store as promised already when the   *)
(* old value is taken out.                                                 *)
LEMMA ChangeServes ==
    ASSUME Dying = {}, Good, IInv', UNCHANGED user, NEW c \in Client,
           pc[c] = "call", Set(c) \/ TakeOutOld(c) \/ Del(c)
    PROVE  Serves
<1> DEFINE r == user[c].request
<1>1. /\ wire' = wire /\ local[c].op \in {1, 2} /\ ThreadFields /\ DOMAIN db = Str
      /\ state = "serving" /\ state' = state
  BY DEF Set, TakeOutOld, Del, Good, InStep, AsPromised, Undisturbed
<1>2. /\ UserAt(c, "asked") /\ r.key \in Str /\ words'["client"][c] = <<>>
      /\ r.code = local[c].op /\ local[c].key = r.key /\ ~Promised!Refused(r)
      /\ IsSet(r) => local[c].value = r.value
      /\ \A d \in Others(c) : pc[d] # "replace"
  BY <1>1, CallIs DEF wire
<1>3. /\ IF TakeOutOld(c) THEN pc'[c] = "replace" /\ local' = local
         ELSE pc'[c] = "unlock" /\ local'[c].answer = <<1>>
      /\ local'[c].key = local[c].key /\ local'[c].value = local[c].value
  <2>1. CASE TakeOutOld(c)
    BY <1>1, <2>1, GoesToPc DEF TakeOutOld
  <2>2. CASE ~TakeOutOld(c)
    BY <1>1, <2>2, GoesToPc DEF Set, Del, ThreadFields
  <2> QED
    BY <2>1, <2>2
<1>4. Undisturbed' /\ (\A d \in Others(c) : Same(d))
  BY <1>1, StepOfThread DEF InstanceThread, Die
<1>5. \A d \in Others(c) : pc'[d] # "replace"
  BY <1>2, <1>4 DEF Same
<1>6. \A s \in Str : ValueOf(s) = db[s]
  BY <1>2, <1>4, Values DEF ValuesAre, Good, AsPromised, Others
<1>7. \A s \in Str : ValueOf(s)' = IF s = r.key THEN (IF IsSet(r) THEN r.value ELSE None) ELSE db[s]
  <2>1. CASE TakeOutOld(c)
    <3>1. db' = [db EXCEPT ![r.key] = None] /\ IsSet(r)
      BY <1>2, <2>1 DEF TakeOutOld, IsSet
    <3> QED
      BY <1>1, <1>2, <1>3, <1>4, <2>1, <3>1, Values DEF ValuesAre, Good, AsPromised
  <2>2. CASE ~TakeOutOld(c)
    <3>1. db' = [db EXCEPT ![r.key] = IF IsSet(r) THEN r.value ELSE None]
      BY <1>2, <2>2 DEF Set, Del, IsSet
    <3>2. \A d \in Client : pc'[d] # "replace"
      BY <1>3, <1>5, <2>2 DEF Others
    <3> QED
      BY <1>1, <1>2, <1>4, <3>1, <3>2, Values DEF ValuesAre, Good, AsPromised
  <2> QED
    BY <2>1, <2>2
<1>8. [s \in Str |-> ValueOf(s)]' = Promised!Effect(r)
  BY <1>1, <1>2, <1>6, <1>7 DEF Promised!Effect, Promised!IsGet, Promised!IsSet, IsSet
<1>9. Promised!Outcome(r) = "ok"
  BY <1>1, <1>2 DEF Promised!Outcome, Promised!IsGet, Promised!Refused
<1>10. Told(c)' = Verdict(r, 1) /\ Measured(c)'
  BY <1>2, <1>3, OneWordTold
<1>11. Verdict(r, 1) = "ok"
  BY <1>1, <1>2 DEF Verdict, IsGet, IsSet
<1> QED
  BY <1>2, <1>3, <1>4, <1>8, <1>9, <1>10, <1>11, EffectServes

(* The value that replaces another is stored already, as promised.         *)
LEMMA ReplaceServes ==
    ASSUME Dying = {}, Good, IInv', UNCHANGED user, NEW c \in Client, pc[c] = "replace", Set(c)
    PROVE  Serves
<1> DEFINE r == user[c].request
<1>1. /\ wire' = wire /\ ThreadFields /\ DOMAIN db = Str /\ state = "serving" /\ state' = state
      /\ pc'[c] = "unlock" /\ local'[c].answer = <<1>>
  BY GoesToPc DEF Set, Good, InStep, AsPromised, Undisturbed, ThreadFields
<1>2. /\ Waiting(c) /\ r.key \in Str /\ words["client"][c] = <<>> /\ local[c].key = r.key
      /\ \A d \in Others(c) : pc[d] # "replace"
  BY CallIs
<1>3. Undisturbed' /\ (\A d \in Others(c) : Same(d))
  BY <1>1, StepOfThread DEF InstanceThread, Die
<1>4. \A d \in Client : pc'[d] # "replace"
  BY <1>1, <1>2, <1>3 DEF Same, Others
<1>5. db' = [db EXCEPT ![r.key] = local[c].value]
  BY <1>2 DEF Set
<1>6. StoreStays
  BY <1>1, <1>2, <1>3, <1>4, <1>5, Values DEF StoreStays, ValuesAre, Good, AsPromised
<1>7. ToldWords(c)' = ToldWords(c)
  BY <1>1, <1>2 DEF ToldWords, wire
<1>8. Done(c) /\ Done(c)'
  BY <1>1 DEF Done
<1> QED
  BY <1>2, <1>3, <1>6, <1>7, <1>8, LateStep DEF Good

LEMMA AnswerServes ==
    ASSUME Good, IInv', UNCHANGED user, NEW c \in Client, Answer(c)
    PROVE  Serves
<1> DEFINE a == local[c].answer
<1>1. /\ InStep /\ WireFields /\ ThreadFields /\ state = "serving" /\ state' = state /\ db' = db
      /\ pc[c] = "answer" /\ Sends("server", c, <<Head(a)>>)
  BY DEF Answer, At, Good, InStep, AsPromised, Undisturbed, process
<1>2. /\ local'[c].answer = Tail(a)
      /\ pc'[c] = IF Tail(a) # <<>> THEN "answer" ELSE AfterAnswer(local[c].op)
  <2>1. CASE Tail(a) # <<>>
    <3>1. UNCHANGED pc /\ \E code : local' = [local EXCEPT ![c].code = code, ![c].answer = Tail(a)]
      BY <2>1 DEF Answer
    <3> QED
      BY <1>1, <2>1, <3>1 DEF ThreadFields
  <2>2. CASE Tail(a) = <<>>
    <3>1. /\ GoesTo(c, AfterAnswer(local[c].op))
          /\ \E code : local' = [local EXCEPT ![c] = [NoLocals EXCEPT !.code = code]]
      BY <2>2 DEF Answer
    <3> QED
      BY <1>1, <2>2, <3>1, GoesToPc DEF ThreadFields, NoLocals
  <2> QED
    BY <2>1, <2>2
<1>3. Undisturbed' /\ (\A d \in Others(c) : Same(d)) /\ StoreStays
  BY <1>1, <1>2, StepOfThread DEF InstanceThread, AfterAnswer, Die
<1>4. CASE ~Waiting(c)
  BY <1>3, <1>4, QuietStep DEF Good
<1>5. CASE Waiting(c)
  <2>1. BeingAnswered(c) /\ peer["server"][c] = "open"
    BY <1>1, <1>5, WaitingIs DEF OnItsWay, BeingServed, Requesting
  <2>2. /\ words'["client"][c] = words["client"][c] \o <<Head(a)>>
        /\ words'["server"][c] = words["server"][c]
    BY <1>1, <2>1, SendsIs DEF End, OtherEnd
  <2>3. /\ a # <<>> /\ IsSeq(words["client"][c]) /\ IsSeq(a)
        /\ words["server"][c] = <<>> /\ local[c].op # 3
    BY <1>1, <2>1 DEF BeingAnswered
  <2>4. (words["client"][c] \o <<Head(a)>>) \o Tail(a) = words["client"][c] \o a
    BY <2>3, WordMoves
  <2>5. ToldWords(c)' = ToldWords(c)
    BY <1>1, <1>2, <2>2, <2>4 DEF ToldWords, AfterAnswer
  <2>6. Done(c) /\ Done(c)'
    BY <1>1, <1>2, <2>2, <2>3 DEF Done, AfterAnswer
  <2> QED
    BY <1>3, <1>5, <2>5, <2>6, LateStep DEF Good
<1> QED
  BY <1>4, <1>5

(* Steps in which nothing is done but printing.                            *)
LEMMA PrintingServes ==
    ASSUME Good, IInv', UNCHANGED <<process, pc, local, user, wire>>
    PROVE  Serves
<1>1. /\ Undisturbed' /\ \A d \in Client : Same(d)
  BY DEF process, wire, Good, AsPromised, Undisturbed, Same, SameWire
<1>2. ValuesAre /\ ValuesAre'
  BY <1>1, Values DEF Good, AsPromised
<1>3. StoreStays
  <2>1. CASE \A d \in Client : pc[d] # "replace"
    BY <1>2, <2>1 DEF ValuesAre, StoreStays, process
  <2>2. ASSUME NEW d \in Client, pc[d] = "replace" PROVE StoreStays
    BY <1>2, <2>2 DEF ValuesAre, StoreStays, process
  <2> QED
    BY <2>1, <2>2
<1>4. \A d \in Client : /\ Stage(d)' = Stage(d) /\ Reply(d)' = Reply(d)
                        /\ user'[d].request = user[d].request /\ Measured(d)'
  BY <1>1, OthersAsPromised DEF Good, AsPromised
<1>5. UNCHANGED Promised!vars /\ AsPromised'
  BY <1>1, <1>3, <1>4 DEF AsPromised, Promised!vars, StoreStays
<1> QED
  BY <1>5 DEF Serves

LEMMA ThreadServes ==
    ASSUME Dying = {}, Good, IInv', UNCHANGED user, NEW c \in Client, Accept(c) \/ InstanceThread(c)
    PROVE  Serves
<1>1. InStep /\ ThreadFields /\ AsPromised /\ state = "serving"
  BY DEF Good, InStep, AsPromised, Undisturbed
<1>2. CASE Accept(c)
  <2>1. pc[c] = "none" /\ pc'[c] = "command" /\ db' = db /\ wire' = wire /\ state' = state
    BY <1>1, <1>2, GoesToPc DEF Accept, process
  <2>2. ASSUME Waiting(c) PROVE ~Done(c) /\ ~Done(c)'
    <3>1. OnItsWay(c)
      BY <1>1, <2>1, <2>2, WaitingIs DEF BeingServed, Requesting, BeingAnswered
    <3>2. words["server"][c] # <<>>
      BY <2>1, <3>1, RequestWords DEF OnItsWay
    <3> QED
      BY <2>1, <3>2 DEF Done, wire
  <2> QED
    BY <1>1, <1>2, <2>1, <2>2, StepOfThread, QuietStep DEF Die
<1>3. CASE Fails(c) \/ CloseConnection(c)
  <2>1. /\ pc'[c] = "ended" /\ db' = db /\ state' = state
        /\ pc[c] \in {"command", "key_len", "key", "value_len", "value", "answer", "close"}
    BY <1>1, <1>3, GoesToPc DEF Fails, CloseConnection, At, process
  <2>2. ~Waiting(c)
    <3>1. CASE Fails(c)
      BY <1>1, <3>1, WaitingIs DEF Fails, GetsError, SendFails
    <3>2. CASE CloseConnection(c)
      BY <1>1, <3>2, WaitingIs DEF CloseConnection, At, OnItsWay, BeingServed, Requesting, BeingAnswered
    <3> QED
      BY <1>3, <3>1, <3>2
  <2> QED
    BY <1>1, <1>3, <2>1, <2>2, StepOfThread, QuietStep DEF InstanceThread, Die
<1>4. CASE LockedCall(c)
  <2>1. pc[c] = "lock" /\ pc'[c] = "call" /\ db' = db /\ state' = state
    BY <1>1, <1>4, GoesToPc DEF LockedCall, At
  <2> QED
    BY <1>1, <1>4, <2>1, StepOfThread, QuietStep DEF InstanceThread, Die, Done
<1>5. CASE UnlockedCall(c)
  <2>1. /\ pc[c] = "unlock" /\ pc'[c] = "answer" /\ db' = db /\ state' = state
        /\ local' = local /\ wire' = wire
    BY <1>1, <1>5, GoesToPc DEF UnlockedCall, At
  <2>2. Waiting(c)
    BY <2>1, CallIs
  <2>3. Done(c) /\ Done(c)' /\ ToldWords(c)' = ToldWords(c)
    BY <2>1 DEF Done, ToldWords, wire
  <2> QED
    BY <1>1, <1>5, <2>1, <2>2, <2>3, StepOfThread, LateStep DEF InstanceThread, Die
<1>6. ~CallCrashes(c)
  BY <1>1 DEF CallCrashes
<1>7. ~AnswerBreaks(c)
  BY <1>1 DEF AnswerBreaks, SendBreaks, At, InStep, Related, NotConnected, Away, Connected
<1>8. CASE RecvCommand(c) \/ RecvKeyLen(c) \/ RecvKey(c) \/ RecvValueLen(c) \/ RecvValue(c)
  BY <1>8, ReceivingServes
<1>9. CASE Get(c) \/ Set(c) \/ TakeOutOld(c) \/ Del(c)
  BY <1>9, GetServes, ChangeServes, ReplaceServes DEF Get, Set, TakeOutOld, Del, At
<1>10. CASE Answer(c)
  BY <1>10, AnswerServes
<1>11. CASE Prints(c)
  BY <1>11, PrintingServes DEF Prints
<1> QED
  BY <1>2, <1>3, <1>4, <1>5, <1>6, <1>7, <1>8, <1>9, <1>10, <1>11 DEF InstanceThread

-----------------------------------------------------------------------------
LEMMA NextServes ==
    ASSUME Dying = {}, MaxSignals = 0
    PROVE  Good /\ IInv' /\ [Next]_vars => Serves
<1> SUFFICES ASSUME Good, IInv', [Next]_vars PROVE Serves
  OBVIOUS
<1>1. CASE UNCHANGED vars
  BY <1>1, PrintingServes DEF vars, server
<1>2. ASSUME NEW c \in Client, ClientStep(c) PROVE Serves
  BY <1>2, ClientServes
<1>3. ASSUME UNCHANGED user, NEW c \in Client, Accept(c) \/ InstanceThread(c) PROVE Serves
  BY <1>3, ThreadServes
<1>5. CASE UNCHANGED user /\ (AcceptFails \/ Prints(Main))
  BY <1>5, PrintingServes DEF AcceptFails, Prints
<1>4. ASSUME NEW t \in Thread PROVE ~Interrupt(t) /\ ~exit_nicely(t)
  <2>1. ~Interrupt(t)
    BY DEF Interrupt, Good, AsPromised, Undisturbed
  <2>2. ~exit_nicely(t)
    BY DEF exit_nicely, ExitPrints, ExitLocks, ExitCloses, ExitCrashes, ExitUnlocks, ExitCleansUp, Exits,
           In, Good, AsPromised, Undisturbed
  <2> QED
    BY <2>1, <2>2
<1> QED
  BY <1>1, <1>2, <1>3, <1>4, <1>5 DEF Next, ServerNext

LEMMA InitServes == Init => AsPromised /\ Promised!Init
<1> SUFFICES ASSUME Init PROVE AsPromised /\ Promised!Init
  OBVIOUS
<1>1. /\ state = "serving" /\ signals = 0 /\ handler = [t \in Thread |-> "no"]
      /\ db = [s \in Str |-> None] /\ pc = [c \in Client |-> "none"]
      /\ \A c \in Client : user[c].at = "new" /\ user[c].request = None /\ user[c].result = None
  BY DEF Init, ServerInit, ClientsInit
<1>2. Undisturbed
  BY <1>1 DEF Undisturbed
<1>3. \A c \in Client : Stage(c) = "idle" /\ Reply(c) = None /\ Measured(c)
  BY <1>1 DEF Stage, Reply, Measured, Waiting
<1>4. \A s \in Str : ValueOf(s) = None
  BY <1>1 DEF ValueOf, Replaces
<1> QED
  BY <1>1, <1>2, <1>3, <1>4 DEF AsPromised, Promised!Init

(* Without signals, and with clients that do not die, every request takes  *)
(* effect in one step between its first message and its last, and is       *)
(* answered as of that step.                                               *)
THEOREM SystemServes ==
    ASSUME Dying = {}, MaxSignals = 0
    PROVE  Spec => ImplementsService
<1>1. Init => AsPromised /\ Promised!Init
  BY InitServes
<1>2. IInv /\ IInv' /\ InStep /\ AsPromised /\ [Next]_vars =>
        AsPromised' /\ [Promised!Next]_(Promised!vars)
  BY NextServes DEF Good, Serves
<1> QED
  BY <1>1, <1>2, AlwaysIInv, AlwaysInStep, PTL DEF Spec, ImplementsService, Promised!Spec
=============================================================================
