---------------------------- MODULE HashMapCalls ----------------------------
(***************************************************************************)
(* What the calls of hash_map.c do to their pool, in the state HashMap     *)
(* describes.  Each operator below follows the code of its call and names  *)
(* the pages in the order in which they are got, used and released.        *)
(***************************************************************************)
EXTENDS HashMap, PoolCalls

CONSTANT CACHE_PAGE  \* number of frames

ASSUME FramesAssumption == CACHE_PAGE \in Nat \ {0}

CtrlPage == 0
DirectoryPage(size) == DirPage(size) + 1
BlockPage(b) == NDir + 1 + b

(* The first free block is taken through the pool, one behind the end of   *)
(* the file is written past it.                                            *)
TakeBlockCalls ==
    LET p == BlockPage(free_block_head) IN
      IF free_block_head = NoBlock THEN <<>>
      ELSE Get(p) \o Use(CtrlPage) \o Use(p) \o Release(p)

(* Faulty variant: the block that is left stays pinned.                    *)
LeaveBlock_Pinned(c, m) == <<>>

(* The walk along chain c leaves its m-th block behind; the first one      *)
(* stays pinned to the end of the call.                                    *)
LeaveBlock(c, m) == IF m = 1 THEN <<>> ELSE Release(BlockPage(c[m]))

(* hash_table_insert looks at a block and, when it is full, releases it    *)
(* before it reads or sets its next.                                       *)
InsertStep(c, m) ==
    LET p == BlockPage(c[m]) IN
      Get(p) \o Use(p) \o LeaveBlock(c, m) \o (IF IsFull(c[m]) THEN Use(p) ELSE <<>>)

InsertWalk(c) ==
    LET full == {m \in DOMAIN c : \A i \in 1 .. m : IsFull(c[i])}
        stop == Cardinality(full) + 1
    IN  FlattenSeq([m \in 1 .. stop - 1 |-> InsertStep(c, m)])
          \o (IF stop > Len(c) THEN TakeBlockCalls ELSE InsertStep(c, stop))

hash_table_insert_calls(size) ==
    LET c == Chain(size)
        dir == DirectoryPage(size)
    IN  Get(CtrlPage) \o Get(dir) \o Use(dir) \o Release(dir)
          \o (IF c = <<>> THEN Use(CtrlPage) \o Use(dir) \o TakeBlockCalls
              ELSE InsertWalk(c) \o Release(BlockPage(c[1])))
          \o Release(CtrlPage)

(* The scan of hash_table_pop_lower_bound gets the directory block anew    *)
(* for every slot.                                                         *)
ScanCalls(size) ==
    LET slots == {d \in Scanned(size) :
                    \A e \in Scanned(size) : Earlier(e, d) => directory[e[1]][e[2]] = NoBlock}
        inOrder == SetToSortSeq(slots, Earlier)
        Slot(d) ==
          LET dir == d[1] + 1
              b == directory[d[1]][d[2]]
              p == BlockPage(b)
          IN  Use(CtrlPage) \o Get(dir) \o Use(dir)
                \o (IF b = NoBlock THEN <<>>
                    ELSE Get(p) \o Use(p)
                           \o (IF BecomesEmpty(b) THEN Use(dir) \o Use(CtrlPage) ELSE <<>>)
                           \o Release(p))
                \o Release(dir)
    IN  FlattenSeq([m \in DOMAIN inOrder |-> Slot(inOrder[m])])

hash_table_pop_lower_bound_calls(size) ==
    Get(CtrlPage) \o ScanCalls(size) \o Release(CtrlPage)

(* hash_table_pop goes on from a block it has released already: to read    *)
(* its next, and to change it when the block behind it becomes empty.      *)
PopStep(c, m) ==
    LET p == BlockPage(c[m])
        before == IF m = 1 THEN <<>> ELSE Use(BlockPage(c[m - 1]))
    IN  before \o Get(p) \o Use(p)

PopWalk(dir, c, k) ==
    LET before == IF k = 1 THEN dir ELSE BlockPage(c[k - 1])
        p == BlockPage(c[k])
    IN  FlattenSeq([m \in 1 .. k - 1 |-> PopStep(c, m) \o LeaveBlock(c, m)])
          \o PopStep(c, k)
          \o (IF BecomesEmpty(c[k]) THEN Use(before) \o Use(p) \o Use(CtrlPage) ELSE <<>>)
          \o LeaveBlock(c, k)

hash_table_pop_calls(size, addr) ==
    LET c == Chain(size)
        dir == DirectoryPage(size)
        k == CHOOSE m \in DOMAIN c : addr \in ToSet(table[c[m]])
    IN  Get(CtrlPage) \o Get(dir) \o Use(dir)
          \o PopWalk(dir, c, k)
          \o Release(BlockPage(c[1])) \o Release(dir) \o Release(CtrlPage)

-----------------------------------------------------------------------------
(* No call of the map ever finds all frames pinned (get_page would return  *)
(* no pointer at all, buffer_pool.c:66), nor leaves a page pinned (so many *)
(* calls would), nor goes through a pointer whose page may have lost its   *)
(* frame, although the walks use blocks they have released (hash_map.c:    *)
(* 64-80, 185-207): whatever the chains are, and whatever was in the       *)
(* frames before the call.                                                 *)
PagesHeld ==
    \A size \in Size :
      /\ Obeys(hash_table_pop_lower_bound_calls(size), CACHE_PAGE)
      /\ Obeys(hash_table_insert_calls(size), CACHE_PAGE)
      /\ \A addr \in Addr :
           Registered(size, addr) => Obeys(hash_table_pop_calls(size, addr), CACHE_PAGE)
=============================================================================
