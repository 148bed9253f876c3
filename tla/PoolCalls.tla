----------------------------- MODULE PoolCalls -----------------------------
(***************************************************************************)
(* How a caller has to use a buffer pool (BufferPool).  A call of the hash *)
(* map or of the B-tree is seen here as the sequence of what it does to    *)
(* the pool: it gets a page, releases one, or goes through the pointer to  *)
(* a page it got, at the place where the code does so.                     *)
(***************************************************************************)
EXTENDS Integers, Sequences, FiniteSets, SequencesExt

LOCAL Event(what, page) == [what |-> what, page |-> page]

Get(page) == <<Event("get", page)>>
Release(page) == <<Event("release", page)>>
Use(page) == <<Event("use", page)>>

(* The pages the caller has pinned, one entry for each pin; the pages that *)
(* are surely in their frames, whatever the pool held before the call; and *)
(* the page that was got last.                                             *)
Nothing == [pins |-> <<>>, held |-> {}, last |-> -1]

(* A page that is not in a frame takes one that is empty or not pinned.    *)
(* Only the pinned pages are sure to stay, and the one got last unless all *)
(* other frames are pinned: PinnedStays and LatestSurvives of BufferPool.  *)
AfterGet(s, page, frames) ==
    LET pinned == ToSet(s.pins)
        last == IF Cardinality(pinned \ {s.last}) < frames - 1 THEN {s.last} ELSE {}
    IN  [pins |-> Append(s.pins, page),
         held |-> IF page \in s.held THEN s.held ELSE pinned \cup last \cup {page},
         last |-> page]

After(s, e, frames) ==
    CASE e.what = "get" -> AfterGet(s, e.page, frames)
      [] e.what = "release" -> [s EXCEPT !.pins = RemoveFirst(@, e.page)]
      [] e.what = "use" -> s

(* get_page returns a frame only if there is one that is not pinned; a     *)
(* page is released only by who got it; and a pointer is good only while   *)
(* the page is in its frame.                                               *)
Permitted(s, e, frames) ==
    CASE e.what = "get" -> e.page \in s.held \/ Cardinality(ToSet(s.pins)) < frames
      [] e.what = "release" -> e.page \in ToSet(s.pins)
      [] e.what = "use" -> e.page \in s.held

RECURSIVE ObeysFrom(_, _, _)
ObeysFrom(s, calls, frames) ==
    IF calls = <<>> THEN s.pins = <<>>
    ELSE /\ Permitted(s, Head(calls), frames)
         /\ ObeysFrom(After(s, Head(calls), frames), Tail(calls), frames)

(* With that many frames the calls never find all of them pinned, use no   *)
(* pointer whose page may be gone, and leave nothing pinned.               *)
Obeys(calls, frames) == ObeysFrom(Nothing, calls, frames)
=============================================================================
