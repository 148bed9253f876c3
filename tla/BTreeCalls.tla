----------------------------- MODULE BTreeCalls -----------------------------
(***************************************************************************)
(* What the calls of b_tree.c do to their pool, in the state BTree         *)
(* describes.  Each operator below follows the code of its function, with  *)
(* the tree as the function finds it, and names the pages in the order in  *)
(* which they are got, used and released.  The functions get the control   *)
(* block anew on every level.                                              *)
(***************************************************************************)
EXTENDS BTree, PoolCalls

CtrlPage == 0
NodePage(b) == b + 1

(* Page p is pinned around what is done in between.                        *)
Held(p, calls) == Get(p) \o Use(p) \o calls \o Release(p)

RECURSIVE tree_search_calls(_, _, _)
tree_search_calls(t, b, k) ==
    LET c == ChildFor(t, b, k) IN
      Use(NodePage(b))
        \o (IF t.node[b].leaf THEN <<>>
            ELSE Held(NodePage(c), tree_search_calls(t, c, k) \o Use(NodePage(b))))

b_tree_search_calls(t, k) ==
    LET r == t.root_node IN
      Held(CtrlPage, Held(NodePage(r), tree_search_calls(t, r, k) \o Use(CtrlPage)))

-----------------------------------------------------------------------------
(* Node b is split: a free node is got, linked in and released; a node     *)
(* behind the end of the file is written past the pool.                    *)
SplitCalls(t, b) ==
    Use(CtrlPage) \o Use(NodePage(b))
      \o (IF t.free_node_head = NoNode THEN <<>>
          ELSE Held(NodePage(t.free_node_head), Use(CtrlPage) \o Use(NodePage(b))))

(* Faulty variant: the early return when the child was not split leaves    *)
(* the control block pinned.                                               *)
ReturnEarly_Pinned == <<>>

ReturnEarly == Release(CtrlPage)

(* What the insertion does on the level of b after that of its child.      *)
InnerCalls(below, b) ==
    IF below.entry = NoEntry THEN ReturnEarly
    ELSE Use(NodePage(b))
           \o (IF n(below.tree, b) < 2 * DEGREE THEN <<>> ELSE SplitCalls(below.tree, b))
           \o Release(CtrlPage)

RECURSIVE tree_insert_calls(_, _, _)
tree_insert_calls(t, b, k) ==
    LET c == ChildFor(t, b, k) IN
      Get(CtrlPage) \o Use(NodePage(b))
        \o (IF t.node[b].leaf
            THEN (IF n(t, b) < 2 * DEGREE THEN <<>> ELSE SplitCalls(t, b)) \o Release(CtrlPage)
            ELSE Held(NodePage(c), tree_insert_calls(t, c, k) \o Use(NodePage(b)))
                   \o InnerCalls(tree_insert(t, c, k), b))

b_tree_insert_calls(t, k) ==
    LET r == t.root_node
        done == tree_insert(t, r, k)
    IN  Held(CtrlPage, Held(NodePage(r),
          tree_insert_calls(t, r, k)
            \o (IF done.entry = NoEntry THEN <<>> ELSE SplitCalls(done.tree, r))))

-----------------------------------------------------------------------------
(* Node c of parent p, with i rows of p before it, borrows from or merges  *)
(* with its right sibling, or the left one when there is none.             *)
MendCalls(t, p, c, i) ==
    LET s == NodePage(IF i # n(t, p) THEN t.node[p].child[i + 2] ELSE t.node[p].child[i]) IN
      Held(s, Use(NodePage(c)) \o Use(NodePage(p)) \o Use(CtrlPage) \o Use(s))

(* What the deletion does on the level of c after that of its child.       *)
UnwindCalls(below, p, c) ==
    LET u == DropEntry(below.tree, c, below.old) IN
      IF below.old = NoString THEN ReturnEarly
      ELSE Use(NodePage(c))
             \o (IF n(u, c) >= DEGREE THEN <<>>
                 ELSE Use(NodePage(p)) \o MendCalls(u, p, c, find_index(u, p, RowKey(u, c, 1))))
             \o Release(CtrlPage)

RECURSIVE tree_delete_calls(_, _, _, _)
tree_delete_calls(t, p, c, k) ==
    LET g == ChildFor(t, c, k) IN
      Get(CtrlPage) \o Use(NodePage(c))
        \o (IF t.node[c].leaf
            THEN (IF HasSpare(t, c) THEN <<>>
                  ELSE Use(NodePage(p)) \o MendCalls(t, p, c, find_index(t, p, RowKey(t, c, 1))))
                   \o Release(CtrlPage)
            ELSE Held(NodePage(g), tree_delete_calls(t, c, g, k) \o Use(NodePage(c)))
                   \o UnwindCalls(tree_delete(t, c, g, k), p, c))

b_tree_delete_calls(t, k) ==
    LET r == t.root_node
        c == ChildFor(t, r, k)
    IN  Held(CtrlPage, Held(NodePage(r),
          IF t.node[r].leaf THEN <<>>
          ELSE Held(NodePage(c), tree_delete_calls(t, r, c, k)
                                   \o Use(NodePage(r)) \o Use(CtrlPage))))

-----------------------------------------------------------------------------
RECURSIVE Levels(_, _)
Levels(t, b) == IF t.node[b].leaf THEN 1 ELSE 1 + Levels(t, t.node[b].child[1])

(* A call on the index pins at most one page per level, the control block  *)
(* and one more node at a time, and has released everything when it        *)
(* returns, on every path of b_tree.c with its early returns (275-278,     *)
(* 482-485) and its roots that come and go (60-96, 136-147).  So with 16   *)
(* frames get_page never finds all of them pinned (buffer_pool.c:66)       *)
(* before the tree has 15 levels.                                          *)
FramesFit ==
    LET frames == Levels(tree, tree.root_node) + 2
        stored == Stored
    IN  \A k \in Key :
          /\ Obeys(b_tree_search_calls(tree, k), frames)
          /\ IF k \in stored THEN Obeys(b_tree_delete_calls(tree, k), frames)
             ELSE Obeys(b_tree_insert_calls(tree, k), frames)
=============================================================================
