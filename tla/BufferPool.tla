----------------------------- MODULE BufferPool -----------------------------
(***************************************************************************)
(* One BufferPool (include/buffer_pool.h) over one file (file_io.c): a     *)
(* fixed array of CACHE_PAGE frames, a recency list and a pin count per    *)
(* frame.  The server runs every database call under one mutex, so a call  *)
(* of get_page, release, write_page or close_buffer_pool is one step.      *)
(*                                                                         *)
(* An address is a page number (byte address / PAGE_SIZE); NoPage is the   *)
(* -1 that marks an empty frame.  The callers of the pool are the          *)
(* environment: they pin existing pages, write through the pointers they   *)
(* got, release what they pinned, and append pages with write_page.        *)
(***************************************************************************)
EXTENDS Integers

CONSTANTS
    CACHE_PAGE,  \* number of frames
    MaxPages,    \* bound on the number of pages of the file
    MaxPin,      \* bound on the pin count of a frame
    Vals,        \* what a page can hold
    Zero         \* the contents of a page nobody has written (EMPTY_PAGE)

ASSUME PoolAssumption ==
    /\ CACHE_PAGE \in Nat \ {0}
    /\ MaxPages \in Nat
    /\ MaxPin \in Nat \ {0}
    /\ Zero \in Vals

VARIABLES
    addrs,   \* pool->addrs: the page each frame holds
    lru,     \* pool->lru: resident pages, most recently got first
    ref,     \* pool->ref: pin count of each frame
    pages,   \* pool->pages: the contents of each frame
    file,    \* the pages as they are in the file
    length,  \* file.length, in pages
    open     \* between init_buffer_pool and close_buffer_pool

vars == <<addrs, lru, ref, pages, file, length, open>>

Frame == 0 .. CACHE_PAGE - 1
PageAddr == 0 .. MaxPages - 1
NoPage == -1

TypeOK ==
    /\ addrs \in [Frame -> PageAddr \cup {NoPage}]
    /\ lru \in [Frame -> PageAddr \cup {NoPage}]
    /\ ref \in [Frame -> 0 .. MaxPin]
    /\ pages \in [Frame -> Vals]
    /\ file \in [PageAddr -> Vals]
    /\ length \in 0 .. MaxPages
    /\ open \in BOOLEAN

-----------------------------------------------------------------------------
(* file_io.c.  Both calls check the address and the pool ignores what they *)
(* return: a read that fails leaves the frame as it was, a write of an     *)
(* empty frame (address -1) writes nothing.  A write at the end of the     *)
(* file would grow it; only AppendPage writes there.                       *)

ReadPage(old, a) == IF a \in 0 .. length - 1 THEN file[a] ELSE old

(* Faulty variant: the victim's page is not written back.                  *)
WritePage_Dropped(f, a, v) == f

WritePage(f, a, v) == IF a \in 0 .. length - 1 THEN [f EXCEPT ![a] = v] ELSE f

-----------------------------------------------------------------------------
(* Faulty variant: the shift stops one place early.                        *)
MoveToFront_Short(l, j, a) ==
    [k \in Frame |-> IF k = 0 THEN a ELSE IF k < j THEN l[k - 1] ELSE l[k]]

(* The page at position j of the list goes to the front and those before   *)
(* it move down one place; what was at position j is overwritten.          *)
MoveToFront(l, j, a) ==
    [k \in Frame |-> IF k = 0 THEN a ELSE IF k <= j THEN l[k - 1] ELSE l[k]]

Resident(a) == \E i \in Frame : addrs[i] = a

FrameOf(a) == CHOOSE i \in Frame : addrs[i] = a

FreeFrame == \E i \in Frame : addrs[i] = NoPage

(* get_page finds the page in a frame.                                     *)
GetHit(a) ==
    /\ \E i \in Frame :
         /\ addrs[i] = a
         /\ ref[i] < MaxPin
         /\ ref' = [ref EXCEPT ![i] = @ + 1]
    /\ \E j \in Frame :
         /\ lru[j] = a
         /\ lru' = MoveToFront(lru, j, a)
    /\ UNCHANGED <<addrs, pages, file, length, open>>

(* get_page reads the page into the first empty frame; the whole recency   *)
(* list moves down and its last entry is dropped.                          *)
GetFree(a) ==
    /\ ~Resident(a)
    /\ \E i \in Frame :
         /\ addrs[i] = NoPage
         /\ \A k \in Frame : k < i => addrs[k] # NoPage
         /\ ref[i] < MaxPin
         /\ pages' = [pages EXCEPT ![i] = ReadPage(@, a)]
         /\ addrs' = [addrs EXCEPT ![i] = a]
         /\ ref' = [ref EXCEPT ![i] = @ + 1]
    /\ lru' = MoveToFront(lru, CACHE_PAGE - 1, a)
    /\ UNCHANGED <<file, length, open>>

(* Frame j can be reused for the list position i.                          *)
Victim(i, j) == addrs[j] = lru[i] /\ ref[j] = 0

(* Faulty variant: the list is scanned from its front.                     *)
Chosen_FromFront(i, j) == Victim(i, j) /\ \A k, m \in Frame : k < i => ~Victim(k, m)

(* The list is scanned from its end.                                       *)
Chosen(i, j) == Victim(i, j) /\ \A k, m \in Frame : k > i => ~Victim(k, m)

(* get_page writes the least recently got page that is not pinned back to  *)
(* the file and reads the wanted page into its frame.  When every frame is *)
(* pinned the function ends without returning a value: the callers must    *)
(* leave room, which is why no action describes that case.                 *)
GetEvict(a) ==
    /\ ~Resident(a)
    /\ ~FreeFrame
    /\ \E i, j \in Frame :
         /\ Chosen(i, j)
         /\ file' = WritePage(file, addrs[j], pages[j])
         /\ pages' = [pages EXCEPT ![j] = ReadPage(@, a)]
         /\ addrs' = [addrs EXCEPT ![j] = a]
         /\ ref' = [ref EXCEPT ![j] = @ + 1]
         /\ lru' = MoveToFront(lru, i, a)
    /\ UNCHANGED <<length, open>>

GetPage(a) ==
    /\ open
    /\ a < length
    /\ GetHit(a) \/ GetFree(a) \/ GetEvict(a)

(* A caller releases a page as many times as it got it.                    *)
HasPin(i) == ref[i] > 0

Release(a) ==
    /\ open
    /\ \E i \in Frame :
         /\ addrs[i] = a
         /\ HasPin(i)
         /\ ref' = [ref EXCEPT ![i] = @ - 1]
    /\ UNCHANGED <<addrs, lru, pages, file, length, open>>

(* A caller stores through the pointer get_page returned; the pool has no  *)
(* dirty bit, the frame simply differs from the file from now on.          *)
Store(i, v) ==
    /\ open
    /\ HasPin(i)
    /\ pages' = [pages EXCEPT ![i] = v]
    /\ UNCHANGED <<addrs, lru, ref, file, length, open>>

(* A caller appends a page it built on its stack, bypassing the frames:    *)
(* write_page(&page, &pool->file, pool->file.length).                      *)
AppendPage(v) ==
    /\ open
    /\ length < MaxPages
    /\ file' = [file EXCEPT ![length] = v]
    /\ length' = length + 1
    /\ UNCHANGED <<addrs, lru, ref, pages, open>>

(* close_buffer_pool writes every frame back, the empty ones in vain.  It  *)
(* runs between database calls, when nothing is pinned, and leaves addrs   *)
(* and lru as they are.                                                    *)
Close ==
    /\ open
    /\ \A i \in Frame : ref[i] = 0
    /\ file' = [a \in PageAddr |->
                  IF a < length /\ Resident(a) THEN pages[FrameOf(a)] ELSE file[a]]
    /\ open' = FALSE
    /\ UNCHANGED <<addrs, lru, ref, pages, length>>

(* init_buffer_pool on the file that exists already: the frames keep their *)
(* old bytes and are all empty.                                            *)
Open ==
    /\ ~open
    /\ addrs' = [i \in Frame |-> NoPage]
    /\ lru' = [i \in Frame |-> NoPage]
    /\ ref' = [i \in Frame |-> 0]
    /\ open' = TRUE
    /\ UNCHANGED <<pages, file, length>>

(* init_buffer_pool on a file it creates.                                  *)
Init ==
    /\ addrs = [i \in Frame |-> NoPage]
    /\ lru = [i \in Frame |-> NoPage]
    /\ ref = [i \in Frame |-> 0]
    /\ pages = [i \in Frame |-> Zero]
    /\ file = [a \in PageAddr |-> Zero]
    /\ length = 0
    /\ open = TRUE

Next ==
    \/ \E a \in PageAddr : GetPage(a) \/ Release(a)
    \/ \E i \in Frame, v \in Vals : Store(i, v)
    \/ \E v \in Vals : AppendPage(v)
    \/ Close
    \/ Open

Spec == Init /\ [][Next]_vars

-----------------------------------------------------------------------------
(* The recency list names exactly the resident pages, each once, and no    *)
(* page is in two frames: the shifts of get_page (buffer_pool.c:30-65)     *)
(* never lose or duplicate a page, so the eviction scan can find every     *)
(* frame.                                                                  *)
LruExact ==
    /\ \A i, k \in Frame : addrs[i] = addrs[k] /\ addrs[i] # NoPage => i = k
    /\ \A i, k \in Frame : lru[i] = lru[k] /\ lru[i] # NoPage => i = k
    /\ \A i \in Frame : \E k \in Frame : lru[k] = addrs[i]
    /\ \A i \in Frame : \E k \in Frame : addrs[k] = lru[i]

(* The rest of the inductive invariant.  Frames are taken from the lowest  *)
(* empty one, so the empty frames are the last ones and as many positions  *)
(* at the end of the recency list are empty: shifting the whole list when  *)
(* an empty frame is taken drops an empty position.                        *)
EmptyFramesLast ==
    /\ \A i \in Frame : addrs[i] = NoPage <=> lru[i] = NoPage
    /\ \A i, k \in Frame : i < k /\ addrs[i] = NoPage => addrs[k] = NoPage
    /\ \A i \in Frame : addrs[i] = NoPage => ref[i] = 0

ResidentInFile == \A i \in Frame : addrs[i] < length

ClosedIsClean ==
    ~open => \A i \in Frame :
                /\ ref[i] = 0
                /\ addrs[i] # NoPage => file[addrs[i]] = pages[i]

IInv == TypeOK /\ LruExact /\ EmptyFramesLast /\ ResidentInFile /\ ClosedIsClean

(* A frame keeps its page for as long as somebody has it pinned, whatever  *)
(* the other callers get meanwhile: pointers of get_page stay good until   *)
(* the matching release.                                                   *)
PinnedStays ==
    [][\A i \in Frame : ref[i] > 0 => addrs'[i] = addrs[i]]_vars

(* The page that was got last loses its frame to the next page only when   *)
(* every other frame is pinned, even if it was released in between.        *)
(* hash_table_pop relies on it: it follows block->next of a block it has   *)
(* already released (hash_map.c:185-207).                                  *)
LatestSurvives ==
    [][\A i \in Frame :
         open /\ addrs[i] # NoPage /\ addrs[i] = lru[0] /\ addrs'[i] # addrs[i]
           => \A k \in Frame \ {i} : ref[k] > 0]_vars

(* Seen through the pool, pages behave as PageStore says: a page holds     *)
(* what was last stored in it, through evictions, re-reads and a close     *)
(* followed by an open.                                                    *)
Contents(a) == IF Resident(a) THEN pages[FrameOf(a)] ELSE file[a]
PinsOf(a) == IF Resident(a) THEN ref[FrameOf(a)] ELSE 0

PS == INSTANCE PageStore WITH
        mem <- [a \in PageAddr |-> Contents(a)],
        pins <- [a \in PageAddr |-> PinsOf(a)]

ImplementsPageStore == PS!Spec
=============================================================================
