-------------------------- MODULE BufferPoolProofs --------------------------
(***************************************************************************)
(* Proofs about BufferPool for every number of frames, pages and values:   *)
(* its types, the exactness of the recency list, the two guarantees its    *)
(* callers rely on, and that it implements PageStore.                      *)
(***************************************************************************)
EXTENDS BufferPool, TLAPS

(* A table of frames or of list positions names no page twice; names page  *)
(* a at most at place j; and, but for its place i, names only what the     *)
(* table m names outside its place j.                                      *)
Once(l) == \A i, k \in Frame : l[i] = l[k] /\ l[i] # NoPage => i = k
OnlyAt(l, a, j) == \A k \in Frame : l[k] = a => k = j
Covers(m, j, l, i) == \A n \in Frame \ {i} : \E k \in Frame \ {j} : m[k] = l[n]

(* Moving position j to the front of a recency list yields a list of the   *)
(* same type: a at the front, the others in the order they had.            *)
LEMMA MoveToFrontType ==
    ASSUME NEW l \in [Frame -> PageAddr \cup {NoPage}], NEW j \in Frame,
           NEW a \in PageAddr, NEW m, m = MoveToFront(l, j, a)
    PROVE  /\ m \in [Frame -> PageAddr \cup {NoPage}]
           /\ m[0] = a
           /\ \A k \in Frame : k > j => m[k] = l[k]
           /\ \A k \in Frame : 0 < k /\ k <= j => m[k] = l[k - 1]
  <1>1. 0 \in Frame /\ \A k \in Frame : k \in Int /\ (k # 0 => k - 1 \in Frame /\ k > 0)
    BY PoolAssumption DEF Frame
  <1>2. m = [k \in Frame |-> IF k = 0 THEN a ELSE IF k <= j THEN l[k - 1] ELSE l[k]]
    BY DEF MoveToFront
  <1>3. m \in [Frame -> PageAddr \cup {NoPage}]
    BY <1>1, <1>2
  <1>4. \A k \in Frame : k > j => m[k] = l[k]
    BY <1>1, <1>2 DEF Frame
  <1>5. \A k \in Frame : 0 < k /\ k <= j => m[k] = l[k - 1]
    BY <1>1, <1>2
  <1> QED
    BY <1>1, <1>2, <1>3, <1>4, <1>5

(* Behind its front, the list names after the move what it named before    *)
(* anywhere but at position j.                                             *)
LEMMA MoveToFrontNames ==
    ASSUME NEW l \in [Frame -> PageAddr \cup {NoPage}], NEW j \in Frame,
           NEW a \in PageAddr, NEW m, m = MoveToFront(l, j, a)
    PROVE  Covers(m, 0, l, j) /\ Covers(l, j, m, 0)
  <1> DEFINE Source(k) == IF k <= j THEN k - 1 ELSE k
  <1>1. m[0] = a /\ 0 \in Frame
    BY MoveToFrontType, PoolAssumption DEF Frame
  <1>2. \A k \in Frame \ {0} : Source(k) \in Frame /\ Source(k) # j /\ m[k] = l[Source(k)]
    BY MoveToFrontType, PoolAssumption DEF Frame
  <1>3. \A i, k \in Frame \ {0} : Source(i) = Source(k) => i = k
    BY DEF Frame
  <1>4. \A s \in Frame \ {j} : \E k \in Frame \ {0} : s = Source(k)
    <2> TAKE s \in Frame \ {j}
    <2>1. CASE s < j
      <3>1. s + 1 \in Frame \ {0}
        BY <2>1, PoolAssumption DEF Frame
      <3>2. s = Source(s + 1)
        BY <2>1 DEF Frame
      <3> QED
        BY <3>1, <3>2
    <2>2. CASE s > j
      <3>1. s \in Frame \ {0}
        BY <2>2 DEF Frame
      <3>2. s = Source(s)
        BY <2>2 DEF Frame
      <3> QED
        BY <3>1, <3>2
    <2> QED
      BY <2>1, <2>2 DEF Frame
  <1> HIDE DEF Source
  <1> QED
    BY <1>2, <1>4 DEF Covers

(* No page is named twice after the move if none was before and a stood    *)
(* nowhere but at position j.                                              *)
LEMMA MoveToFrontOnce ==
    ASSUME NEW l \in [Frame -> PageAddr \cup {NoPage}], NEW j \in Frame,
           NEW a \in PageAddr, NEW m, m = MoveToFront(l, j, a),
           Once(l), OnlyAt(l, a, j)
    PROVE  Once(m)
  <1> DEFINE Source(k) == IF k <= j THEN k - 1 ELSE k
  <1>1. m[0] = a /\ 0 \in Frame
    BY MoveToFrontType, PoolAssumption DEF Frame
  <1>2. \A k \in Frame \ {0} : Source(k) \in Frame /\ Source(k) # j /\ m[k] = l[Source(k)]
    BY MoveToFrontType, PoolAssumption DEF Frame
  <1>3. \A i, k \in Frame \ {0} : Source(i) = Source(k) => i = k
    BY DEF Frame
  <1> HIDE DEF Source
  <1> QED
    BY <1>1, <1>2, <1>3 DEF Once, OnlyAt

(* A page that is in a frame is in the frame FrameOf names.                *)
LEMMA FrameOfResident ==
    ASSUME NEW a, Resident(a)
    PROVE  FrameOf(a) \in Frame /\ addrs[FrameOf(a)] = a
  BY DEF Resident, FrameOf

(* ReadPage and WritePage keep the types of a frame and of the file.       *)
LEMMA ReadWriteType ==
    ASSUME TypeOK, NEW a, NEW v \in Vals
    PROVE  ReadPage(v, a) \in Vals /\ WritePage(file, a, v) \in [PageAddr -> Vals]
  <1>1. length \in Nat /\ length <= MaxPages /\ file \in [PageAddr -> Vals]
    BY PoolAssumption DEF TypeOK
  <1>2. a \in 0 .. length - 1 => a \in PageAddr
    BY <1>1, PoolAssumption DEF PageAddr
  <1> QED
    BY <1>1, <1>2 DEF ReadPage, WritePage

-----------------------------------------------------------------------------
LEMMA InitIInv == Init => IInv
  BY PoolAssumption
  DEF Init, IInv, TypeOK, LruExact, EmptyFramesLast, ResidentInFile,
      ClosedIsClean, NoPage, Frame, PageAddr

(* Every branch of get_page puts page a in frame f and at the front of the *)
(* list, dropping list position j.  The list stays exact if f and j are    *)
(* what the rest of the frames and of the list do not need.                *)
LEMMA ReplaceExact ==
    ASSUME TypeOK, NEW f \in Frame, NEW j \in Frame, NEW a \in PageAddr,
           Once(addrs), Once(lru), OnlyAt(addrs, a, f), OnlyAt(lru, a, j),
           Covers(lru, j, addrs, f), Covers(addrs, f, lru, j),
           addrs' = [addrs EXCEPT ![f] = a],
           lru' = MoveToFront(lru, j, a)
    PROVE  LruExact'
  <1>1. lru \in [Frame -> PageAddr \cup {NoPage}] /\ addrs \in [Frame -> PageAddr \cup {NoPage}]
    BY DEF TypeOK
  <1>2. Once(lru')
    BY <1>1, MoveToFrontOnce
  <1>3. Covers(lru', 0, lru, j) /\ Covers(lru, j, lru', 0)
    BY <1>1, MoveToFrontNames
  <1>4. lru'[0] = a /\ 0 \in Frame
    BY <1>1, MoveToFrontType, PoolAssumption DEF Frame
  <1>5. addrs'[f] = a /\ \A i \in Frame \ {f} : addrs'[i] = addrs[i]
    BY <1>1
  <1>6. Once(addrs')
    BY <1>5 DEF Once, OnlyAt
  <1>7. \A i \in Frame : \E k \in Frame : lru'[k] = addrs'[i]
    <2> SUFFICES ASSUME NEW i \in Frame \ {f} PROVE \E k \in Frame : lru'[k] = addrs'[i]
      BY <1>4, <1>5
    <2>1. PICK s \in Frame \ {j} : lru[s] = addrs[i]
      BY DEF Covers
    <2>2. PICK k \in Frame : lru'[k] = lru[s]
      BY ONLY <1>3, s \in Frame \ {j} DEF Covers
    <2> QED
      BY <1>5, <2>1, <2>2
  <1>8. \A k \in Frame : \E i \in Frame : addrs'[i] = lru'[k]
    <2> SUFFICES ASSUME NEW k \in Frame \ {0} PROVE \E i \in Frame : addrs'[i] = lru'[k]
      BY <1>4, <1>5
    <2>1. PICK s \in Frame \ {j} : lru[s] = lru'[k]
      BY <1>3 DEF Covers
    <2>2. PICK i \in Frame \ {f} : addrs[i] = lru[s]
      BY DEF Covers
    <2> QED
      BY <1>5, <2>1, <2>2
  <1> QED
    BY <1>2, <1>6, <1>7, <1>8 DEF LruExact, Once

(* A page that is in a frame and in the list needs no other frame and no   *)
(* other position.                                                         *)
LEMMA ListedOnce ==
    ASSUME LruExact, NEW i \in Frame, NEW j \in Frame, addrs[i] = lru[j], lru[j] # NoPage
    PROVE  /\ Once(addrs) /\ Once(lru)
           /\ Covers(lru, j, addrs, i) /\ Covers(addrs, i, lru, j)
  <1>1. Once(addrs) /\ Once(lru)
    BY DEF LruExact, Once
  <1>2. Covers(lru, j, addrs, i)
    <2>1. \A f \in Frame : \E k \in Frame : lru[k] = addrs[f]
      BY DEF LruExact
    <2> QED
      BY <1>1, <2>1 DEF Covers, Once
  <1>3. Covers(addrs, i, lru, j)
    <2>1. \A k \in Frame : \E f \in Frame : addrs[f] = lru[k]
      BY DEF LruExact
    <2> QED
      BY <1>1, <2>1 DEF Covers, Once
  <1> QED
    BY <1>1, <1>2, <1>3

(* A page that is in no frame is nowhere in the list.                      *)
LEMMA NotListed ==
    ASSUME LruExact, NEW a, ~Resident(a), NEW i \in Frame, NEW j \in Frame
    PROVE  OnlyAt(addrs, a, i) /\ OnlyAt(lru, a, j)
  <1>1. \A k \in Frame : addrs[k] # a
    BY DEF Resident
  <1>2. \A k \in Frame : \E f \in Frame : addrs[f] = lru[k]
    BY DEF LruExact
  <1> QED
    BY <1>1, <1>2 DEF OnlyAt

LEMMA NoPageNoAddr == NoPage \notin PageAddr
  BY PoolAssumption DEF NoPage, PageAddr

(* A hit only reorders the recency list.                                   *)
LEMMA HitIInv ==
    ASSUME IInv, NEW a \in PageAddr, open, a < length, GetHit(a)
    PROVE  IInv'
  <1>0. TypeOK /\ LruExact /\ EmptyFramesLast /\ ResidentInFile /\ ClosedIsClean
    BY DEF IInv
  <1>1. PICK i \in Frame : addrs[i] = a /\ ref[i] < MaxPin
                           /\ ref' = [ref EXCEPT ![i] = @ + 1]
    BY DEF GetHit
  <1>2. PICK j \in Frame : lru[j] = a /\ lru' = MoveToFront(lru, j, a)
    BY DEF GetHit
  <1>3. UNCHANGED <<addrs, pages, file, length, open>>
    BY DEF GetHit
  <1>4. /\ lru' \in [Frame -> PageAddr \cup {NoPage}]
        /\ lru'[0] = a
        /\ \A k \in Frame : k > j => lru'[k] = lru[k]
        /\ \A k \in Frame : 0 < k /\ k <= j => lru'[k] = lru[k - 1]
    BY <1>0, <1>2, MoveToFrontType DEF TypeOK
  <1>5. TypeOK'
    <2>1. ref[i] + 1 \in 0 .. MaxPin
      BY <1>0, <1>1, PoolAssumption DEF TypeOK
    <2>2. ref' \in [Frame -> 0 .. MaxPin]
      BY <1>0, <1>1, <2>1 DEF TypeOK
    <2> QED
      BY <1>0, <1>3, <1>4, <2>2 DEF TypeOK
  <1>6. LruExact'
    <2>1. addrs[i] = lru[j] /\ lru[j] # NoPage
      BY <1>1, <1>2, NoPageNoAddr
    <2>2. /\ Once(addrs) /\ Once(lru)
          /\ Covers(lru, j, addrs, i) /\ Covers(addrs, i, lru, j)
      BY <1>0, <2>1, ListedOnce
    <2>3. OnlyAt(addrs, a, i) /\ OnlyAt(lru, a, j)
      BY <1>1, <1>2, <2>2, NoPageNoAddr DEF Once, OnlyAt
    <2>4. addrs' = [addrs EXCEPT ![i] = a]
      BY <1>0, <1>1, <1>3 DEF TypeOK
    <2> QED
      BY <1>0, <1>2, <2>2, <2>3, <2>4, ReplaceExact
  <1>7. EmptyFramesLast'
    <2>1. \A k \in Frame : k <= j => addrs[k] # NoPage
      BY <1>0, <1>2, NoPageNoAddr DEF EmptyFramesLast, Frame
    <2>2. \A k \in Frame : k > 0 => k - 1 \in Frame
      BY PoolAssumption DEF Frame
    <2>3. \A k \in Frame : k <= j => lru'[k] # NoPage
      BY <1>0, <1>4, <2>1, <2>2, NoPageNoAddr DEF EmptyFramesLast, Frame
    <2>4. \A k \in Frame : addrs[k] = NoPage <=> lru'[k] = NoPage
      BY <1>0, <1>4, <2>1, <2>3 DEF EmptyFramesLast, Frame
    <2>5. \A k \in Frame : addrs[k] = NoPage => ref'[k] = 0
      BY <1>0, <1>1, NoPageNoAddr DEF EmptyFramesLast, TypeOK
    <2> QED
      BY <1>0, <1>3, <2>4, <2>5 DEF EmptyFramesLast
  <1>8. ResidentInFile' /\ ClosedIsClean'
    BY <1>0, <1>3 DEF ResidentInFile, ClosedIsClean
  <1> QED
    BY <1>5, <1>6, <1>7, <1>8 DEF IInv

(* The lowest empty frame is taken; the list's last position, empty too,   *)
(* is dropped.                                                             *)
LEMMA FreeIInv ==
    ASSUME IInv, NEW a \in PageAddr, open, a < length, GetFree(a)
    PROVE  IInv'
  <1>0. TypeOK /\ LruExact /\ EmptyFramesLast /\ ResidentInFile /\ ClosedIsClean
    BY DEF IInv
  <1>1. PICK i \in Frame : /\ addrs[i] = NoPage
                           /\ \A k \in Frame : k < i => addrs[k] # NoPage
                           /\ ref[i] < MaxPin
                           /\ pages' = [pages EXCEPT ![i] = ReadPage(@, a)]
                           /\ addrs' = [addrs EXCEPT ![i] = a]
                           /\ ref' = [ref EXCEPT ![i] = @ + 1]
    BY DEF GetFree
  <1>2. UNCHANGED <<file, length, open>>
    BY DEF GetFree
  <1> DEFINE j == CACHE_PAGE - 1
  <1>3. j \in Frame /\ \A k \in Frame : k <= j /\ (k # 0 => k - 1 \in Frame)
    BY PoolAssumption DEF Frame
  <1>4. lru' = MoveToFront(lru, j, a)
    BY DEF GetFree
  <1> HIDE DEF j
  <1>5. /\ lru' \in [Frame -> PageAddr \cup {NoPage}]
        /\ lru'[0] = a
        /\ \A k \in Frame : 0 < k => lru'[k] = lru[k - 1]
    BY <1>0, <1>3, <1>4, MoveToFrontType DEF TypeOK
  <1>6. \A k \in Frame : addrs[k] = NoPage <=> lru[k] = NoPage
    BY <1>0 DEF EmptyFramesLast
  <1>7. \A k \in Frame : addrs[k] = NoPage <=> k >= i
    BY <1>0, <1>1 DEF EmptyFramesLast, Frame
  <1>8. /\ addrs'[i] = a
        /\ \A k \in Frame \ {i} : addrs'[k] = addrs[k] /\ ref'[k] = ref[k]
    BY <1>0, <1>1 DEF TypeOK
  <1>9. TypeOK'
    <2>1. ref[i] + 1 \in 0 .. MaxPin /\ ReadPage(pages[i], a) \in Vals
      BY <1>0, <1>1, ReadWriteType, PoolAssumption DEF TypeOK
    <2>2. /\ ref' \in [Frame -> 0 .. MaxPin]
          /\ pages' \in [Frame -> Vals]
          /\ addrs' \in [Frame -> PageAddr \cup {NoPage}]
      BY <1>0, <1>1, <2>1 DEF TypeOK
    <2> QED
      BY <1>0, <1>2, <1>5, <2>2 DEF TypeOK
  <1>10. LruExact'
    <2>1. Once(addrs) /\ Once(lru)
      BY <1>0 DEF LruExact, Once
    <2>2. OnlyAt(addrs, a, i) /\ OnlyAt(lru, a, j)
      <3>1. LruExact /\ ~Resident(a)
        BY <1>0 DEF GetFree
      <3> QED
        BY <1>3, <3>1, NotListed
    <2>3. Covers(lru, j, addrs, i)
      <3> SUFFICES ASSUME NEW n \in Frame \ {i}
                   PROVE  \E k \in Frame \ {j} : lru[k] = addrs[n]
        BY DEF Covers
      <3>1. CASE n > i
        <4>1. i # j
          BY <3>1, <1>3 DEF Frame
        <4> QED
          BY <3>1, <4>1, <1>6, <1>7 DEF Frame
      <3>2. CASE n < i
        <4>1. PICK k \in Frame : lru[k] = addrs[n]
          BY <1>0 DEF LruExact
        <4>2. k # j
          BY <3>2, <4>1, <1>1, <1>3, <1>6, <1>7 DEF Frame
        <4> QED
          BY <4>1, <4>2
      <3> QED
        BY <3>1, <3>2 DEF Frame
    <2>4. Covers(addrs, i, lru, j)
      <3> SUFFICES ASSUME NEW n \in Frame \ {j}
                   PROVE  \E k \in Frame \ {i} : addrs[k] = lru[n]
        BY DEF Covers
      <3>1. CASE n >= i
        <4>1. i # j
          BY <3>1, <1>3 DEF Frame
        <4>2. lru[n] = NoPage /\ addrs[j] = NoPage
          BY <3>1, <1>3, <1>6, <1>7 DEF Frame
        <4> QED
          BY <4>1, <4>2, <1>3
      <3>2. CASE n < i
        <4>1. PICK k \in Frame : addrs[k] = lru[n]
          BY <1>0 DEF LruExact
        <4>2. k # i
          BY <3>2, <4>1, <1>1, <1>6, <1>7 DEF Frame
        <4> QED
          BY <4>1, <4>2
      <3> QED
        BY <3>1, <3>2 DEF Frame
    <2> QED
      BY <1>0, <1>1, <1>3, <1>4, <2>1, <2>2, <2>3, <2>4, ReplaceExact
  <1>11. EmptyFramesLast'
    <2>1. \A k \in Frame : lru'[k] = NoPage <=> k > i
      BY <1>3, <1>5, <1>6, <1>7, NoPageNoAddr DEF Frame
    <2>2. \A k \in Frame : addrs'[k] = NoPage <=> k > i
      BY <1>7, <1>8, NoPageNoAddr DEF Frame
    <2>3. \A k \in Frame : addrs'[k] = NoPage => ref'[k] = 0
      BY <1>0, <1>8, NoPageNoAddr DEF EmptyFramesLast
    <2> QED
      BY <2>1, <2>2, <2>3 DEF EmptyFramesLast, Frame
  <1>12. ResidentInFile' /\ ClosedIsClean'
    BY <1>0, <1>2, <1>8 DEF ResidentInFile, ClosedIsClean
  <1> QED
    BY <1>9, <1>10, <1>11, <1>12 DEF IInv

(* Every frame holds a page; the victim's is written back and replaced.    *)
LEMMA EvictIInv ==
    ASSUME IInv, NEW a \in PageAddr, open, a < length, GetEvict(a)
    PROVE  IInv'
  <1>0. TypeOK /\ LruExact /\ EmptyFramesLast /\ ResidentInFile /\ ClosedIsClean
    BY DEF IInv
  <1>1. PICK i, j \in Frame : /\ Victim(i, j)
                              /\ file' = WritePage(file, addrs[j], pages[j])
                              /\ pages' = [pages EXCEPT ![j] = ReadPage(@, a)]
                              /\ addrs' = [addrs EXCEPT ![j] = a]
                              /\ ref' = [ref EXCEPT ![j] = @ + 1]
                              /\ lru' = MoveToFront(lru, i, a)
    BY DEF GetEvict, Chosen
  <1>2. ~Resident(a) /\ UNCHANGED <<length, open>>
    BY DEF GetEvict, Chosen
  <1>3. \A k \in Frame : addrs[k] # NoPage /\ lru[k] # NoPage
    BY <1>0 DEF GetEvict, Chosen, FreeFrame, EmptyFramesLast
  <1>4. \A k \in Frame : k # 0 => k - 1 \in Frame
    BY PoolAssumption DEF Frame
  <1>5. /\ lru' \in [Frame -> PageAddr \cup {NoPage}]
        /\ lru'[0] = a
        /\ \A k \in Frame : k > i => lru'[k] = lru[k]
        /\ \A k \in Frame : 0 < k /\ k <= i => lru'[k] = lru[k - 1]
    BY <1>0, <1>1, MoveToFrontType DEF TypeOK
  <1>6. /\ addrs'[j] = a
        /\ \A k \in Frame \ {j} : addrs'[k] = addrs[k]
    BY <1>0, <1>1 DEF TypeOK
  <1>7. TypeOK'
    <2>1. /\ ref[j] + 1 \in 0 .. MaxPin
          /\ ReadPage(pages[j], a) \in Vals
          /\ file' \in [PageAddr -> Vals]
      BY <1>0, <1>1, ReadWriteType, PoolAssumption DEF TypeOK, Victim
    <2>2. /\ ref' \in [Frame -> 0 .. MaxPin]
          /\ pages' \in [Frame -> Vals]
          /\ addrs' \in [Frame -> PageAddr \cup {NoPage}]
      BY <1>0, <1>1, <2>1 DEF TypeOK
    <2> QED
      BY <1>0, <1>2, <1>5, <2>1, <2>2 DEF TypeOK
  <1>8. LruExact'
    <2>1. addrs[j] = lru[i] /\ lru[i] # NoPage
      BY <1>1, <1>3 DEF Victim
    <2>2. /\ Once(addrs) /\ Once(lru)
          /\ Covers(lru, i, addrs, j) /\ Covers(addrs, j, lru, i)
      BY <1>0, <2>1, ListedOnce
    <2>3. OnlyAt(addrs, a, j) /\ OnlyAt(lru, a, i)
      BY <1>0, <1>2, NotListed
    <2> QED
      BY <1>0, <1>1, <2>2, <2>3, ReplaceExact
  <1>9. EmptyFramesLast'
    <2>1. \A k \in Frame : lru'[k] # NoPage
      BY <1>3, <1>4, <1>5, NoPageNoAddr, SMTT(30) DEF Frame
    <2>2. \A k \in Frame : addrs'[k] # NoPage
      BY <1>3, <1>6, NoPageNoAddr
    <2> QED
      BY <2>1, <2>2 DEF EmptyFramesLast
  <1>10. ResidentInFile' /\ ClosedIsClean'
    BY <1>0, <1>2, <1>6 DEF ResidentInFile, ClosedIsClean
  <1> QED
    BY <1>7, <1>8, <1>9, <1>10 DEF IInv

-----------------------------------------------------------------------------
(* The actions that leave the frames' addresses and the list alone, and    *)
(* Open, which empties both.                                               *)
LEMMA ReleaseIInv ==
    ASSUME IInv, NEW a \in PageAddr, Release(a)
    PROVE  IInv'
  <1>1. PICK i \in Frame : addrs[i] = a /\ ref[i] > 0 /\ ref' = [ref EXCEPT ![i] = @ - 1]
    BY DEF Release, HasPin
  <1>2. open /\ UNCHANGED <<addrs, lru, pages, file, length, open>>
    BY DEF Release
  <1>3. TypeOK'
    <2>1. ref \in [Frame -> 0 .. MaxPin]
      BY DEF IInv, TypeOK
    <2>2. ref[i] - 1 \in 0 .. MaxPin
      BY <1>1, <2>1, PoolAssumption
    <2>3. ref' \in [Frame -> 0 .. MaxPin]
      BY <1>1, <2>1, <2>2
    <2> QED
      BY <1>2, <2>3 DEF IInv, TypeOK
  <1>4. EmptyFramesLast'
    <2>1. \A k \in Frame : addrs[k] = NoPage => ref'[k] = 0
      BY <1>1, NoPageNoAddr DEF IInv, TypeOK, EmptyFramesLast
    <2> QED
      BY <1>2, <2>1 DEF IInv, EmptyFramesLast
  <1>5. LruExact' /\ ResidentInFile' /\ ClosedIsClean'
    BY <1>2 DEF IInv, LruExact, ResidentInFile, ClosedIsClean
  <1> QED
    BY <1>3, <1>4, <1>5 DEF IInv

LEMMA StoreIInv ==
    ASSUME IInv, NEW i \in Frame, NEW v \in Vals, Store(i, v)
    PROVE  IInv'
  BY DEF Store, IInv, TypeOK, LruExact, EmptyFramesLast, ResidentInFile, ClosedIsClean

LEMMA AppendIInv ==
    ASSUME IInv, NEW v \in Vals, AppendPage(v)
    PROVE  IInv'
  <1>1. /\ open /\ length < MaxPages
        /\ file' = [file EXCEPT ![length] = v]
        /\ length' = length + 1
        /\ UNCHANGED <<addrs, lru, ref, pages, open>>
    BY DEF AppendPage
  <1>2. TypeOK'
    <2>1. length' \in 0 .. MaxPages
      BY <1>1, PoolAssumption DEF IInv, TypeOK
    <2> QED
      BY <1>1, <2>1 DEF IInv, TypeOK
  <1>3. ResidentInFile'
    BY <1>1, PoolAssumption DEF IInv, TypeOK, ResidentInFile, PageAddr, NoPage
  <1>4. LruExact' /\ EmptyFramesLast' /\ ClosedIsClean'
    BY <1>1 DEF IInv, LruExact, EmptyFramesLast, ClosedIsClean
  <1> QED
    BY <1>2, <1>3, <1>4 DEF IInv

LEMMA CloseIInv ==
    ASSUME IInv, Close
    PROVE  IInv'
  <1>1. /\ \A i \in Frame : ref[i] = 0
        /\ file' = [a \in PageAddr |->
                      IF a < length /\ Resident(a) THEN pages[FrameOf(a)] ELSE file[a]]
        /\ open' = FALSE
        /\ UNCHANGED <<addrs, lru, ref, pages, length>>
    BY DEF Close
  <1>2. TypeOK'
    <2>1. file' \in [PageAddr -> Vals]
      <3>1. \A a \in PageAddr : Resident(a) => pages[FrameOf(a)] \in Vals
        BY FrameOfResident DEF IInv, TypeOK
      <3>2. \A a \in PageAddr : file[a] \in Vals
        BY DEF IInv, TypeOK
      <3> QED
        BY <1>1, <3>1, <3>2
    <2> QED
      BY <1>1, <2>1 DEF IInv, TypeOK
  <1>3. ClosedIsClean'
    <2> SUFFICES ASSUME NEW i \in Frame, addrs[i] # NoPage
                 PROVE  file'[addrs[i]] = pages[i]
      BY <1>1 DEF ClosedIsClean
    <2>1. addrs[i] \in PageAddr /\ addrs[i] < length
      BY DEF IInv, TypeOK, ResidentInFile
    <2>2. Resident(addrs[i])
      BY DEF Resident
    <2>3. FrameOf(addrs[i]) = i
      BY <2>2, FrameOfResident DEF IInv, LruExact
    <2> QED
      BY <1>1, <2>1, <2>2, <2>3
  <1>4. LruExact' /\ EmptyFramesLast' /\ ResidentInFile'
    BY <1>1 DEF IInv, LruExact, EmptyFramesLast, ResidentInFile
  <1> QED
    BY <1>2, <1>3, <1>4 DEF IInv

LEMMA OpenIInv ==
    ASSUME IInv, Open
    PROVE  IInv'
  <1>1. /\ addrs' = [i \in Frame |-> NoPage]
        /\ lru' = [i \in Frame |-> NoPage]
        /\ ref' = [i \in Frame |-> 0]
        /\ open' = TRUE
        /\ UNCHANGED <<pages, file, length>>
    BY DEF Open
  <1>2. TypeOK'
    BY <1>1, PoolAssumption DEF IInv, TypeOK
  <1>3. LruExact' /\ EmptyFramesLast' /\ ClosedIsClean'
    BY <1>1 DEF LruExact, EmptyFramesLast, ClosedIsClean
  <1>4. ResidentInFile'
    BY <1>1, PoolAssumption DEF IInv, TypeOK, ResidentInFile, NoPage
  <1> QED
    BY <1>2, <1>3, <1>4 DEF IInv

LEMMA NextIInv == IInv /\ [Next]_vars => IInv'
  <1> SUFFICES ASSUME IInv, [Next]_vars PROVE IInv'
    OBVIOUS
  <1>1. ASSUME NEW a \in PageAddr, GetPage(a) PROVE IInv'
    BY <1>1, HitIInv, FreeIInv, EvictIInv DEF GetPage
  <1>2. ASSUME NEW a \in PageAddr, Release(a) PROVE IInv'
    BY <1>2, ReleaseIInv
  <1>3. ASSUME NEW i \in Frame, NEW v \in Vals, Store(i, v) PROVE IInv'
    BY <1>3, StoreIInv
  <1>4. ASSUME NEW v \in Vals, AppendPage(v) PROVE IInv'
    BY <1>4, AppendIInv
  <1>5. CASE Close
    BY <1>5, CloseIInv
  <1>6. CASE Open
    BY <1>6, OpenIInv
  <1>7. CASE UNCHANGED vars
    BY <1>7 DEF vars, IInv, TypeOK, LruExact, EmptyFramesLast, ResidentInFile, ClosedIsClean
  <1> QED
    BY <1>1, <1>2, <1>3, <1>4, <1>5, <1>6, <1>7 DEF Next

LEMMA InductiveInvariant == Spec => []IInv
  <1> QED
    BY InitIInv, NextIInv, PTL DEF Spec

-----------------------------------------------------------------------------
(* In every reachable state each variable of the pool has its type; in     *)
(* particular no frame's unsigned pin count is ever decremented below 0.   *)
THEOREM TypeCorrect == Spec => []TypeOK
  BY InductiveInvariant, PTL DEF IInv

(* In every reachable state the recency list names exactly the resident    *)
(* pages and no page is in two frames.                                     *)
THEOREM LruIsExact == Spec => []LruExact
  BY InductiveInvariant, PTL DEF IInv

-----------------------------------------------------------------------------
(* A pinned frame keeps its page: pointers of get_page stay good until the *)
(* matching release.                                                       *)
THEOREM PinnedPagesStay == Spec => PinnedStays
  <1>1. ASSUME IInv, [Next]_vars, NEW i \in Frame, ref[i] > 0
        PROVE  addrs'[i] = addrs[i]
    <2> USE <1>1
    <2>0. addrs \in [Frame -> PageAddr \cup {NoPage}]
      BY DEF IInv, TypeOK
    <2>1. ASSUME NEW a \in PageAddr, GetHit(a) PROVE addrs'[i] = addrs[i]
      BY <2>1 DEF GetHit
    <2>2. ASSUME NEW a \in PageAddr, GetFree(a) PROVE addrs'[i] = addrs[i]
      <3>1. PICK f \in Frame : addrs[f] = NoPage /\ addrs' = [addrs EXCEPT ![f] = a]
        BY <2>2 DEF GetFree
      <3>2. f # i
        BY <3>1 DEF IInv, EmptyFramesLast
      <3> QED
        BY <2>0, <3>1, <3>2
    <2>3. ASSUME NEW a \in PageAddr, GetEvict(a) PROVE addrs'[i] = addrs[i]
      <3>1. PICK n, f \in Frame : Victim(n, f) /\ addrs' = [addrs EXCEPT ![f] = a]
        BY <2>3 DEF GetEvict, Chosen
      <3>2. f # i
        BY <3>1 DEF Victim
      <3> QED
        BY <2>0, <3>1, <3>2
    <2>4. ASSUME NEW a \in PageAddr, Release(a) PROVE addrs'[i] = addrs[i]
      BY <2>4 DEF Release
    <2>5. ASSUME NEW f \in Frame, NEW v \in Vals, Store(f, v) PROVE addrs'[i] = addrs[i]
      BY <2>5 DEF Store
    <2>6. ASSUME NEW v \in Vals, AppendPage(v) PROVE addrs'[i] = addrs[i]
      BY <2>6 DEF AppendPage
    <2>7. CASE Close
      BY <2>7 DEF Close
    <2>8. ~Open
      BY DEF Open, IInv, ClosedIsClean
    <2>9. CASE UNCHANGED vars
      BY <2>9 DEF vars
    <2> QED
      BY <2>1, <2>2, <2>3, <2>4, <2>5, <2>6, <2>7, <2>8, <2>9 DEF Next, GetPage
  <1>2. IInv /\ [Next]_vars => [\A i \in Frame : ref[i] > 0 => addrs'[i] = addrs[i]]_vars
    BY <1>1
  <1> QED
    BY <1>2, InductiveInvariant, PTL DEF Spec, PinnedStays

(* The page that was got last is evicted only when every other frame is    *)
(* pinned, which is what the uses after release in hash_table_pop need.    *)
THEOREM LatestPageSurvives == Spec => LatestSurvives
  <1>1. ASSUME IInv, [Next]_vars, open, NEW i \in Frame, addrs[i] # NoPage,
               addrs[i] = lru[0], addrs'[i] # addrs[i], NEW k \in Frame \ {i}
        PROVE  ref[k] > 0
    <2> USE <1>1
    <2>0. addrs \in [Frame -> PageAddr \cup {NoPage}] /\ LruExact /\ 0 \in Frame
      BY PoolAssumption DEF IInv, TypeOK, Frame
    <2>1. ASSUME NEW a \in PageAddr PROVE ~GetHit(a) /\ ~Release(a)
      BY DEF GetHit, Release
    <2>2. ASSUME NEW a \in PageAddr PROVE ~GetFree(a)
      <3> SUFFICES ASSUME GetFree(a) PROVE FALSE
        OBVIOUS
      <3>1. PICK f \in Frame : addrs[f] = NoPage /\ addrs' = [addrs EXCEPT ![f] = a]
        BY DEF GetFree
      <3> QED
        BY <2>0, <3>1
    <2>3. PICK a \in PageAddr : GetEvict(a)
      <3>1. ASSUME NEW f \in Frame, NEW v \in Vals PROVE ~Store(f, v) /\ ~AppendPage(v)
        BY DEF Store, AppendPage
      <3>2. ~Close /\ ~Open /\ ~UNCHANGED vars
        BY DEF Close, Open, vars
      <3> QED
        BY <2>1, <2>2, <3>1, <3>2, PoolAssumption DEF Next, GetPage
    <2>4. PICK n, f \in Frame : /\ Victim(n, f)
                                /\ addrs' = [addrs EXCEPT ![f] = a]
                                /\ \A p, q \in Frame : p > n => ~Victim(p, q)
      BY <2>3 DEF GetEvict, Chosen
    <2>5. f = i
      BY <2>0, <2>4
    <2>once. Once(lru)
      BY <2>0 DEF LruExact, Once
    <2>6. n = 0
      BY <2>0, <2>once, <2>4, <2>5 DEF Victim, Once
    <2>7. PICK p \in Frame : lru[p] = addrs[k]
      BY <2>0 DEF LruExact
    <2>8. p # 0
      <3>1. addrs[k] # addrs[i]
        BY <2>0 DEF LruExact
      <3> QED
        BY <2>7, <3>1
    <2>9. ~Victim(p, k)
      BY <2>4, <2>6, <2>8 DEF Frame
    <2> QED
      BY <2>7, <2>9 DEF Victim, IInv, TypeOK
  <1>2. IInv /\ [Next]_vars =>
          [\A i \in Frame :
             open /\ addrs[i] # NoPage /\ addrs[i] = lru[0] /\ addrs'[i] # addrs[i]
               => \A k \in Frame \ {i} : ref[k] > 0]_vars
    BY <1>1
  <1> QED
    BY <1>2, InductiveInvariant, PTL DEF Spec, LatestSurvives

-----------------------------------------------------------------------------
(* What the refinement mapping yields, before and after a step.            *)
LEMMA ResidentContents ==
    ASSUME LruExact, NEW i \in Frame, addrs[i] # NoPage
    PROVE  Contents(addrs[i]) = pages[i] /\ PinsOf(addrs[i]) = ref[i]
  <1>1. Resident(addrs[i])
    BY DEF Resident
  <1>2. FrameOf(addrs[i]) = i
    BY <1>1, FrameOfResident DEF LruExact
  <1> QED
    BY <1>1, <1>2 DEF Contents, PinsOf

LEMMA ResidentContentsNext ==
    ASSUME LruExact', NEW i \in Frame, addrs'[i] # NoPage
    PROVE  Contents(addrs[i])' = pages'[i] /\ PinsOf(addrs[i])' = ref'[i]
  <1>1. \E k \in Frame : addrs'[k] = addrs'[i]
    OBVIOUS
  <1>2. (CHOOSE k \in Frame : addrs'[k] = addrs'[i]) = i
    <2>1. \A k, n \in Frame : addrs'[k] = addrs'[n] /\ addrs'[k] # NoPage => k = n
      BY DEF LruExact
    <2> QED
      BY <1>1, <2>1
  <1> QED
    BY <1>1, <1>2 DEF Contents, PinsOf, Resident, FrameOf

LEMMA AbsentContents ==
    ASSUME NEW b, ~Resident(b)
    PROVE  Contents(b) = file[b] /\ PinsOf(b) = 0
  BY DEF Contents, PinsOf

LEMMA AbsentContentsNext ==
    ASSUME NEW b, \A k \in Frame : addrs'[k] # b
    PROVE  Contents(b)' = file'[b] /\ PinsOf(b)' = 0
  BY DEF Contents, PinsOf, Resident

(* A page whose frame and contents a step leaves alone, and a page that    *)
(* stays out of the frames, are what they were.                            *)
LEMMA SamePage ==
    ASSUME LruExact, LruExact', NEW b \in PageAddr,
           \/ \E i \in Frame : /\ addrs[i] = b /\ addrs'[i] = b
                               /\ pages'[i] = pages[i] /\ ref'[i] = ref[i]
           \/ /\ \A i \in Frame : addrs[i] # b /\ addrs'[i] # b
              /\ file'[b] = file[b]
    PROVE  Contents(b)' = Contents(b) /\ PinsOf(b)' = PinsOf(b)
  <1>1. CASE \E i \in Frame : /\ addrs[i] = b /\ addrs'[i] = b
                              /\ pages'[i] = pages[i] /\ ref'[i] = ref[i]
    <2>1. PICK i \in Frame : /\ addrs[i] = b /\ addrs'[i] = b
                             /\ pages'[i] = pages[i] /\ ref'[i] = ref[i]
      BY <1>1
    <2>2. Contents(b) = pages[i] /\ PinsOf(b) = ref[i]
      BY <2>1, ResidentContents, NoPageNoAddr
    <2>3. Contents(b)' = pages'[i] /\ PinsOf(b)' = ref'[i]
      BY <2>1, ResidentContentsNext, NoPageNoAddr
    <2> QED
      BY <2>1, <2>2, <2>3
  <1>2. CASE /\ \A i \in Frame : addrs[i] # b /\ addrs'[i] # b
             /\ file'[b] = file[b]
    <2>1. Contents(b) = file[b] /\ PinsOf(b) = 0
      BY <1>2, AbsentContents DEF Resident
    <2>2. Contents(b)' = file'[b] /\ PinsOf(b)' = 0
      BY <1>2, AbsentContentsNext
    <2> QED
      BY <1>2, <2>1, <2>2
  <1> QED
    BY <1>1, <1>2

(* Getting a page pins it and changes no contents, whether it was in a     *)
(* frame, an empty frame is used or another page has to go.                *)
PinsPage(a) ==
    \A b \in PageAddr :
      /\ Contents(b)' = Contents(b)
      /\ PinsOf(b)' = IF b = a THEN PinsOf(b) + 1 ELSE PinsOf(b)

LEMMA HitPins ==
    ASSUME IInv, IInv', NEW a \in PageAddr, GetHit(a)
    PROVE  PinsPage(a)
  <1>0. LruExact /\ LruExact' /\ ref \in [Frame -> 0 .. MaxPin]
    BY DEF IInv, TypeOK
  <1>1. PICK i \in Frame : addrs[i] = a /\ ref' = [ref EXCEPT ![i] = @ + 1]
    BY DEF GetHit
  <1>2. UNCHANGED <<addrs, pages, file>>
    BY DEF GetHit
  <1> SUFFICES ASSUME NEW b \in PageAddr
               PROVE  /\ Contents(b)' = Contents(b)
                      /\ PinsOf(b)' = IF b = a THEN PinsOf(b) + 1 ELSE PinsOf(b)
    BY DEF PinsPage
  <1>3. CASE b = a
    <2>1. Contents(a) = pages[i] /\ PinsOf(a) = ref[i]
      BY <1>0, <1>1, ResidentContents, NoPageNoAddr
    <2>2. Contents(a)' = pages'[i] /\ PinsOf(a)' = ref'[i]
      BY <1>0, <1>1, <1>2, ResidentContentsNext, NoPageNoAddr
    <2> QED
      BY <1>0, <1>1, <1>2, <1>3, <2>1, <2>2
  <1>4. CASE b # a
    BY <1>0, <1>1, <1>2, <1>4, SamePage
  <1> QED
    BY <1>3, <1>4

LEMMA FreePins ==
    ASSUME IInv, IInv', NEW a \in PageAddr, a < length, GetFree(a)
    PROVE  PinsPage(a)
  <1>0. /\ LruExact /\ LruExact' /\ ref \in [Frame -> 0 .. MaxPin]
        /\ addrs \in [Frame -> PageAddr \cup {NoPage}] /\ pages \in [Frame -> Vals]
    BY DEF IInv, TypeOK
  <1>1. PICK i \in Frame : /\ addrs[i] = NoPage
                           /\ pages' = [pages EXCEPT ![i] = ReadPage(@, a)]
                           /\ addrs' = [addrs EXCEPT ![i] = a]
                           /\ ref' = [ref EXCEPT ![i] = @ + 1]
    BY DEF GetFree
  <1>2. ~Resident(a) /\ UNCHANGED <<file, length>>
    BY DEF GetFree
  <1> SUFFICES ASSUME NEW b \in PageAddr
               PROVE  /\ Contents(b)' = Contents(b)
                      /\ PinsOf(b)' = IF b = a THEN PinsOf(b) + 1 ELSE PinsOf(b)
    BY DEF PinsPage
  <1>3. CASE b = a
    <2>1. Contents(a) = file[a] /\ PinsOf(a) = 0
      BY <1>2, AbsentContents
    <2>2. Contents(a)' = pages'[i] /\ PinsOf(a)' = ref'[i]
      BY <1>0, <1>1, ResidentContentsNext, NoPageNoAddr
    <2>3. pages'[i] = file[a]
      BY <1>0, <1>1 DEF ReadPage, PageAddr, IInv, TypeOK
    <2>4. ref'[i] = 1
      BY <1>0, <1>1 DEF IInv, EmptyFramesLast
    <2> QED
      BY <1>3, <2>1, <2>2, <2>3, <2>4
  <1>4. CASE b # a
    BY <1>0, <1>1, <1>2, <1>4, SamePage, NoPageNoAddr
  <1> QED
    BY <1>3, <1>4

LEMMA EvictPins ==
    ASSUME IInv, IInv', NEW a \in PageAddr, a < length, GetEvict(a)
    PROVE  PinsPage(a)
  <1>0. /\ LruExact /\ LruExact' /\ ref \in [Frame -> 0 .. MaxPin]
        /\ addrs \in [Frame -> PageAddr \cup {NoPage}] /\ pages \in [Frame -> Vals]
        /\ file \in [PageAddr -> Vals] /\ length \in Nat
    BY PoolAssumption DEF IInv, TypeOK
  <1>1. PICK n, j \in Frame : /\ Victim(n, j)
                              /\ file' = WritePage(file, addrs[j], pages[j])
                              /\ pages' = [pages EXCEPT ![j] = ReadPage(@, a)]
                              /\ addrs' = [addrs EXCEPT ![j] = a]
                              /\ ref' = [ref EXCEPT ![j] = @ + 1]
    BY DEF GetEvict, Chosen
  <1>2. ~Resident(a) /\ \A k \in Frame : addrs[k] # NoPage
    BY DEF GetEvict, Chosen, FreeFrame
  <1>3. /\ addrs[j] \in PageAddr /\ addrs[j] < length
        /\ file' = [file EXCEPT ![addrs[j]] = pages[j]]
    <2>1. addrs[j] \in PageAddr /\ addrs[j] < length
      BY <1>0, <1>2 DEF IInv, ResidentInFile
    <2> QED
      BY <1>0, <1>1, <2>1 DEF WritePage, PageAddr
  <1>4. addrs[j] # a
    BY <1>2 DEF Resident
  <1> SUFFICES ASSUME NEW b \in PageAddr
               PROVE  /\ Contents(b)' = Contents(b)
                      /\ PinsOf(b)' = IF b = a THEN PinsOf(b) + 1 ELSE PinsOf(b)
    BY DEF PinsPage
  <1>5. CASE b = a
    <2>1. Contents(a) = file[a] /\ PinsOf(a) = 0
      BY <1>2, AbsentContents
    <2>2. Contents(a)' = pages'[j] /\ PinsOf(a)' = ref'[j]
      BY <1>0, <1>1, ResidentContentsNext, NoPageNoAddr
    <2>3. pages'[j] = file[a]
      BY <1>0, <1>1 DEF ReadPage, PageAddr
    <2>4. ref'[j] = 1
      BY <1>0, <1>1 DEF Victim
    <2> QED
      BY <1>5, <2>1, <2>2, <2>3, <2>4
  <1>6. CASE b = addrs[j]
    <2>1. Contents(b) = pages[j] /\ PinsOf(b) = 0
      BY <1>0, <1>1, <1>2, <1>6, ResidentContents DEF Victim
    <2>2. \A k \in Frame : addrs'[k] # b
      BY <1>0, <1>1, <1>4, <1>6, NoPageNoAddr DEF LruExact
    <2>3. Contents(b)' = file'[b] /\ PinsOf(b)' = 0
      BY <2>2, AbsentContentsNext
    <2> QED
      BY <1>0, <1>3, <1>4, <1>6, <2>1, <2>3
  <1>7. CASE b # a /\ b # addrs[j]
    <2>1. file'[b] = file[b]
      BY <1>0, <1>3, <1>7
    <2>2. CASE \E i \in Frame : addrs[i] = b
      <3>1. PICK i \in Frame : addrs[i] = b
        BY <2>2
      <3>2. i # j
        BY <1>7, <3>1
      <3>3. addrs'[i] = b /\ pages'[i] = pages[i] /\ ref'[i] = ref[i]
        BY <1>0, <1>1, <3>1, <3>2
      <3> QED
        BY <1>0, <1>7, <3>1, <3>3, SamePage
    <2>3. CASE \A i \in Frame : addrs[i] # b
      <3>1. \A i \in Frame : addrs'[i] # b
        BY <1>0, <1>1, <1>7, <2>3
      <3> QED
        BY <1>0, <1>7, <2>1, <2>3, <3>1, SamePage
    <2> QED
      BY <2>2, <2>3
  <1> QED
    BY <1>5, <1>6, <1>7

(* The steps that change no pin or no contents, on the abstract pages.     *)
LEMMA GetImplements ==
    ASSUME IInv, IInv', NEW a \in PageAddr, GetPage(a)
    PROVE  PS!Pin(a)
  <1>1. a < length /\ UNCHANGED length
    BY DEF GetPage, GetHit, GetFree, GetEvict
  <1>2. PinsPage(a)
    BY HitPins, FreePins, EvictPins DEF GetPage
  <1> QED
    BY <1>1, <1>2 DEF PinsPage, PS!Pin

LEMMA ReleaseImplements ==
    ASSUME IInv, IInv', NEW a \in PageAddr, Release(a)
    PROVE  PS!Unpin(a)
  <1>0. LruExact /\ LruExact' /\ ref \in [Frame -> 0 .. MaxPin]
    BY DEF IInv, TypeOK
  <1>1. PICK i \in Frame : addrs[i] = a /\ ref[i] > 0 /\ ref' = [ref EXCEPT ![i] = @ - 1]
    BY DEF Release, HasPin
  <1>2. UNCHANGED <<addrs, pages, file, length>>
    BY DEF Release
  <1>3. Contents(a) = pages[i] /\ PinsOf(a) = ref[i]
    BY <1>0, <1>1, ResidentContents, NoPageNoAddr
  <1>4. Contents(a)' = pages[i] /\ PinsOf(a)' = ref[i] - 1
    BY <1>0, <1>1, <1>2, ResidentContentsNext, NoPageNoAddr
  <1>5. ASSUME NEW b \in PageAddr, b # a
        PROVE  Contents(b)' = Contents(b) /\ PinsOf(b)' = PinsOf(b)
    BY <1>0, <1>1, <1>2, <1>5, SamePage
  <1> QED
    BY <1>1, <1>2, <1>3, <1>4, <1>5 DEF PS!Unpin

LEMMA StoreImplements ==
    ASSUME IInv, IInv', NEW i \in Frame, NEW v \in Vals, Store(i, v)
    PROVE  PS!Write(addrs[i], v) /\ addrs[i] \in PageAddr
  <1>0. LruExact /\ LruExact' /\ pages \in [Frame -> Vals]
    BY DEF IInv, TypeOK
  <1>1. ref[i] > 0 /\ pages' = [pages EXCEPT ![i] = v]
        /\ UNCHANGED <<addrs, ref, file, length>>
    BY DEF Store, HasPin
  <1>2. addrs[i] \in PageAddr /\ addrs[i] # NoPage
    BY <1>1 DEF IInv, TypeOK, EmptyFramesLast
  <1>3. Contents(addrs[i]) = pages[i] /\ PinsOf(addrs[i]) = ref[i]
    BY <1>0, <1>2, ResidentContents
  <1>4. Contents(addrs[i])' = v /\ PinsOf(addrs[i])' = ref[i]
    BY <1>0, <1>1, <1>2, ResidentContentsNext
  <1>5. ASSUME NEW b \in PageAddr, b # addrs[i]
        PROVE  Contents(b)' = Contents(b) /\ PinsOf(b)' = PinsOf(b)
    BY <1>0, <1>1, <1>5, SamePage
  <1>6. Contents(addrs[i])' = v /\ addrs' = addrs
    BY <1>1, <1>4
  <1>7. [b \in PageAddr |-> Contents(b)]' =
          [[b \in PageAddr |-> Contents(b)] EXCEPT ![addrs[i]] = v]
    BY <1>2, <1>5, <1>6
  <1>8. [b \in PageAddr |-> PinsOf(b)]' = [b \in PageAddr |-> PinsOf(b)]
    BY <1>1, <1>2, <1>3, <1>4, <1>5
  <1> QED
    BY <1>1, <1>2, <1>3, <1>7, <1>8 DEF PS!Write

LEMMA AppendImplements ==
    ASSUME IInv, IInv', NEW v \in Vals, AppendPage(v)
    PROVE  PS!Extend(v)
  <1>0. LruExact /\ LruExact' /\ file \in [PageAddr -> Vals] /\ length \in Nat
    BY PoolAssumption DEF IInv, TypeOK
  <1>1. /\ length < MaxPages
        /\ file' = [file EXCEPT ![length] = v]
        /\ length' = length + 1
        /\ UNCHANGED <<addrs, ref, pages>>
    BY DEF AppendPage
  <1>2. length \in PageAddr
    BY <1>0, <1>1, PoolAssumption DEF PageAddr
  <1>3. \A k \in Frame : addrs[k] # length
    BY <1>0 DEF IInv, ResidentInFile
  <1>4. ASSUME NEW b \in PageAddr, b # length
        PROVE  Contents(b)' = Contents(b) /\ PinsOf(b)' = PinsOf(b)
    BY <1>0, <1>1, <1>4, SamePage
  <1>5. Contents(length) = file[length] /\ PinsOf(length) = 0
    BY <1>3, AbsentContents DEF Resident
  <1>6. \A b : b = length => Contents(b)' = file'[b] /\ PinsOf(b)' = 0
    BY <1>1, <1>3, AbsentContentsNext
  <1>7. [b \in PageAddr |-> Contents(b)]' =
          [[b \in PageAddr |-> Contents(b)] EXCEPT ![length] = v]
    BY <1>0, <1>1, <1>2, <1>4, <1>6
  <1>8. [b \in PageAddr |-> PinsOf(b)]' = [b \in PageAddr |-> PinsOf(b)]
    BY <1>2, <1>4, <1>5, <1>6
  <1> QED
    BY <1>1, <1>7, <1>8 DEF PS!Extend

LEMMA CloseStutters ==
    ASSUME IInv, IInv', Close
    PROVE  UNCHANGED PS!vars
  <1>0. LruExact /\ LruExact'
    BY DEF IInv
  <1>1. /\ UNCHANGED <<addrs, ref, pages, length>>
        /\ file' = [a \in PageAddr |->
                      IF a < length /\ Resident(a) THEN pages[FrameOf(a)] ELSE file[a]]
    BY DEF Close
  <1>2. ASSUME NEW b \in PageAddr
        PROVE  Contents(b)' = Contents(b) /\ PinsOf(b)' = PinsOf(b)
    <2>1. CASE Resident(b)
      BY <1>0, <1>1, <2>1, SamePage DEF Resident
    <2>2. CASE ~Resident(b)
      <3>1. file'[b] = file[b]
        BY <1>1, <2>2
      <3>2. \A i \in Frame : addrs[i] # b /\ addrs'[i] # b
        BY <1>1, <2>2 DEF Resident
      <3> QED
        BY <1>0, <3>1, <3>2, SamePage
    <2> QED
      BY <2>1, <2>2
  <1> QED
    BY <1>1, <1>2 DEF PS!vars

LEMMA OpenStutters ==
    ASSUME IInv, IInv', Open
    PROVE  UNCHANGED PS!vars
  <1>0. LruExact /\ LruExact' /\ ClosedIsClean /\ ~open
    BY DEF IInv, Open
  <1>1. /\ addrs' = [i \in Frame |-> NoPage]
        /\ UNCHANGED <<pages, file, length>>
    BY DEF Open
  <1>2. ASSUME NEW b \in PageAddr
        PROVE  Contents(b)' = Contents(b) /\ PinsOf(b)' = PinsOf(b)
    <2>1. Contents(b)' = file[b] /\ PinsOf(b)' = 0
      BY <1>1, AbsentContentsNext, NoPageNoAddr
    <2>2. CASE Resident(b)
      <3>1. PICK i \in Frame : addrs[i] = b
        BY <2>2 DEF Resident
      <3> QED
        BY <1>0, <2>1, <3>1, ResidentContents, NoPageNoAddr DEF ClosedIsClean
    <2>3. CASE ~Resident(b)
      BY <2>1, <2>3, AbsentContents
    <2> QED
      BY <2>2, <2>3
  <1> QED
    BY <1>1, <1>2 DEF PS!vars

(* The pool implements an array of pages: what was last stored in a page   *)
(* is what the next get_page finds there, through evictions, re-reads and  *)
(* a close followed by an open.                                            *)
THEOREM PoolImplementsPageStore == Spec => ImplementsPageStore
  <1>1. Init => PS!Init
    <2> SUFFICES ASSUME Init PROVE PS!Init
      OBVIOUS
    <2>1. ASSUME NEW b \in PageAddr PROVE Contents(b) = Zero /\ PinsOf(b) = 0
      <3>1. ~Resident(b)
        BY NoPageNoAddr DEF Init, Resident
      <3> QED
        BY <3>1, AbsentContents DEF Init
    <2> QED
      BY <2>1 DEF Init, PS!Init, PS!PageAddr, PageAddr
  <1>2. IInv /\ IInv' /\ [Next]_vars => [PS!Next]_PS!vars
    <2> SUFFICES ASSUME IInv, IInv', [Next]_vars PROVE [PS!Next]_PS!vars
      OBVIOUS
    <2>p. PS!PageAddr = PageAddr
      BY DEF PS!PageAddr, PageAddr
    <2>1. ASSUME NEW a \in PageAddr, GetPage(a) PROVE PS!Next
      BY <2>1, <2>p, GetImplements DEF PS!Next
    <2>2. ASSUME NEW a \in PageAddr, Release(a) PROVE PS!Next
      BY <2>2, <2>p, ReleaseImplements DEF PS!Next
    <2>3. ASSUME NEW i \in Frame, NEW v \in Vals, Store(i, v) PROVE PS!Next
      BY <2>3, <2>p, StoreImplements DEF PS!Next
    <2>4. ASSUME NEW v \in Vals, AppendPage(v) PROVE PS!Next
      BY <2>4, AppendImplements DEF PS!Next
    <2>5. CASE Close
      BY <2>5, CloseStutters
    <2>6. CASE Open
      BY <2>6, OpenStutters
    <2>7. CASE UNCHANGED vars
      BY <2>7 DEF vars, PS!vars, Contents, PinsOf, Resident, FrameOf
    <2> QED
      BY <2>1, <2>2, <2>3, <2>4, <2>5, <2>6, <2>7 DEF Next
  <1> QED
    BY <1>1, <1>2, InductiveInvariant, PTL DEF Spec, ImplementsPageStore, PS!Spec
=============================================================================
