------------------------------- MODULE BTree -------------------------------
(***************************************************************************)
(* The index (b_tree.c): a B+-tree of nodes in a paged file, with a list   *)
(* of free nodes, whose inner nodes hold copies of keys that live in the   *)
(* string table.                                                           *)
(*                                                                         *)
(* Nodes are numbered in the order the file grew (byte address /           *)
(* PAGE_SIZE - 1, since the control block comes first).  A row of a leaf   *)
(* is the rid of a record; it stands for the key of that record, which     *)
(* never changes while it is in the tree.  A row of an inner node is the   *)
(* rid of a string that insert_handler wrote and that only                 *)
(* delete_handler removes; string says which strings exist.                *)
(*                                                                         *)
(* The calls are recursive functions of the tree they find, so that each   *)
(* of b_tree_insert and b_tree_delete, which run under the mutex of the    *)
(* server, is one step.  They are defined by the number of levels there    *)
(* may still be below a node, which is less than the nodes of the file.    *)
(***************************************************************************)
EXTENDS Integers, Sequences, FiniteSets, SequencesExt, LinkedLists

CONSTANTS
    DEGREE,  \* a node has at most 2 * DEGREE rows
    MaxKey   \* keys are 1 .. MaxKey, in the order of compare_string_record

ASSUME TreeAssumption ==
    /\ DEGREE \in Nat /\ DEGREE >= 2   \* "it MUST be satisfied that: DEGREE >= 2"
    /\ MaxKey \in Nat

VARIABLE tree  \* control block, file and strings

Key == 1 .. MaxKey
NoKey == 0
NoNode == -1
NoString == -1

(* BNode; n is the length of row.  A slot the code sets to -1 or rid_null  *)
(* is not in the sequences.                                                *)
BNode(leaf, row, child, next) == [leaf |-> leaf, row |-> row, child |-> child, next |-> next]

TypeOK ==
    /\ tree.length \in Nat
    /\ DOMAIN tree.node = 0 .. tree.length - 1
    /\ tree.root_node \in DOMAIN tree.node
    /\ tree.free_node_head \in DOMAIN tree.node \cup {NoNode}
    /\ \A b \in DOMAIN tree.node :
         LET node == tree.node[b] IN
           /\ node.leaf \in BOOLEAN
           /\ node.row \in Seq(IF node.leaf THEN Key ELSE DOMAIN tree.string)
           /\ Len(node.row) <= 2 * DEGREE
           /\ node.child \in Seq(DOMAIN tree.node)
           /\ node.next \in DOMAIN tree.node \cup {NoNode}
    /\ DOMAIN tree.string \subseteq Nat
    /\ \A s \in DOMAIN tree.string : tree.string[s] \in Key

n(t, b) == Len(t.node[b].row)

-----------------------------------------------------------------------------
(* insert_handler writes a string table entry with the key of a row.       *)
NewString(t) ==
    CHOOSE s \in 0 .. Cardinality(DOMAIN t.string) : s \notin DOMAIN t.string

insert_handler(t, k) ==
    LET x == NewString(t) IN
      [t EXCEPT !.string = [s \in DOMAIN @ \cup {x} |-> IF s = x THEN k ELSE @[s]]]

delete_handler(t, s) == [t EXCEPT !.string = Restrict(@, DOMAIN @ \ {s})]

(* A node for a split: the first free one, else a page appended to the     *)
(* file.  Everything in it is overwritten.                                 *)
NewNode(t) == IF t.free_node_head = NoNode THEN t.length ELSE t.free_node_head

TakeNode(t) ==
    IF t.free_node_head = NoNode
    THEN [t EXCEPT !.length = @ + 1,
                   !.node = [b \in 0 .. t.length |-> IF b = t.length THEN BNode(TRUE, <<>>, <<>>, NoNode)
                                                     ELSE @[b]]]
    ELSE [t EXCEPT !.free_node_head = t.node[@].next]

(* Faulty variant: the rest of the free list is lost.                      *)
FreeNode_CutsList(t, b) ==
    [t EXCEPT !.node[b] = BNode(TRUE, <<>>, <<>>, NoNode), !.free_node_head = b]

(* A node that is given up goes to the front of the free list.  Its rows   *)
(* and children are never read again.                                      *)
FreeNode(t, b) ==
    [t EXCEPT !.node[b] = BNode(TRUE, <<>>, <<>>, t.free_node_head), !.free_node_head = b]

(* The key cmp reads for the i-th row of a node.                           *)
RowKey(t, b, i) == LET r == t.node[b].row[i] IN IF t.node[b].leaf THEN r ELSE t.string[r]

(* Faulty variant: an equal row counts as greater.                         *)
find_index_Strict(t, b, k) ==
    Cardinality({i \in 1 .. n(t, b) : \A j \in 1 .. i : RowKey(t, b, j) < k})

(* find_index counts the rows before the first one that is greater.        *)
find_index(t, b, k) ==
    Cardinality({i \in 1 .. n(t, b) : \A j \in 1 .. i : RowKey(t, b, j) <= k})

ChildFor(t, b, k) == t.node[b].child[find_index(t, b, k) + 1]

tree_search(t, b, k) ==
    LET search[m \in 0 .. t.length] ==
          [c \in DOMAIN t.node |->
             IF m > 0 /\ ~t.node[c].leaf THEN search[m - 1][ChildFor(t, c, k)]
             ELSE IF k \in ToSet(t.node[c].row) THEN k ELSE NoKey]
    IN  search[t.length][b]

b_tree_search(t, k) == tree_search(t, t.root_node, k)

-----------------------------------------------------------------------------
(* Faulty variant: a node splits one row too late.                         *)
Overfull_Late(row) == Len(row) > 2 * DEGREE + 1

Overfull(row) == Len(row) > 2 * DEGREE

(* tree_insert returns the tree and newchildentry: the node a split added  *)
(* behind the node it split, and the separator for the parent.             *)
NoEntry == [addr |-> NoNode, rid |-> NoString]

PutInLeaf(t, b, k) ==
    LET row == InsertAt(t.node[b].row, find_index(t, b, k) + 1, k)
        a == NewNode(t)
        right == SubSeq(row, DEGREE + 1, 2 * DEGREE + 1)
    IN  IF ~Overfull(row)
        THEN [tree |-> [t EXCEPT !.node[b].row = row], entry |-> NoEntry]
        ELSE [tree |-> [insert_handler(TakeNode(t), right[1]) EXCEPT
                          !.node[a] = BNode(TRUE, right, <<>>, t.node[b].next),
                          !.node[b].row = SubSeq(row, 1, DEGREE),
                          !.node[b].next = a],
              entry |-> [addr |-> a, rid |-> NewString(t)]]

(* The entry goes behind the i-th row; the middle row of a full node moves *)
(* up.                                                                     *)
PutInInner(t, b, i, e) ==
    LET row == InsertAt(t.node[b].row, i + 1, e.rid)
        child == InsertAt(t.node[b].child, i + 2, e.addr)
        a == NewNode(t)
    IN  IF ~Overfull(row)
        THEN [tree |-> [t EXCEPT !.node[b].row = row, !.node[b].child = child],
              entry |-> NoEntry]
        ELSE [tree |-> [TakeNode(t) EXCEPT
                          !.node[a] = BNode(FALSE, SubSeq(row, DEGREE + 2, 2 * DEGREE + 1),
                                            SubSeq(child, DEGREE + 2, 2 * DEGREE + 2), NoNode),
                          !.node[b].row = SubSeq(row, 1, DEGREE),
                          !.node[b].child = SubSeq(child, 1, DEGREE + 1)],
              entry |-> [addr |-> a, rid |-> row[DEGREE + 1]]]

(* The level of b, with what the recursion came back with.                 *)
PutAbove(t, b, k, below) ==
    IF below.entry = NoEntry THEN below
    ELSE PutInInner(below.tree, b, find_index(t, b, k), below.entry)

tree_insert(t, b, k) ==
    LET insert[m \in 0 .. t.length] ==
          [c \in DOMAIN t.node |->
             IF m = 0 \/ t.node[c].leaf THEN PutInLeaf(t, c, k)
             ELSE PutAbove(t, c, k, insert[m - 1][ChildFor(t, c, k)])]
    IN  insert[t.length][b]

(* The root was split: a new root gets the two halves.                     *)
NewRoot(t, e) ==
    LET a == NewNode(t) IN
      [TakeNode(t) EXCEPT
         !.node[a] = BNode(FALSE, <<e.rid>>, <<t.root_node, e.addr>>, NoNode),
         !.root_node = a]

(* myjql_set inserts only keys b_tree_search does not find.                *)
b_tree_insert(k) ==
    /\ b_tree_search(tree, k) = NoKey
    /\ LET done == tree_insert(tree, tree.root_node, k) IN
         tree' = IF done.entry = NoEntry THEN done.tree ELSE NewRoot(done.tree, done.entry)

-----------------------------------------------------------------------------
(* tree_delete returns the tree and oldchildentry: the separator of the    *)
(* parent that a merge has made void, still in the string table.           *)
Kept(t) == [tree |-> t, old |-> NoString]

(* Faulty variant: a node with DEGREE rows gives one away.                 *)
HasSpare_Always(t, b) == n(t, b) >= DEGREE

HasSpare(t, b) == n(t, b) > DEGREE

(* Below, l and r are the children of p on the two sides of its i-th row.  *)
LeftOf(t, p, i) == t.node[p].child[i]
RightOf(t, p, i) == t.node[p].child[i + 1]

(* Faulty variant: the string of the old separator is not deleted.         *)
Separate_Leaks(t, p, i) ==
    [insert_handler(t, t.node[RightOf(t, p, i)].row[1]) EXCEPT !.node[p].row[i] = NewString(t)]

(* The separator is replaced by a copy of the first key of the leaf behind *)
(* it.                                                                     *)
Separate(t, p, i) ==
    LET u == delete_handler(t, t.node[p].row[i]) IN
      [insert_handler(u, u.node[RightOf(u, p, i)].row[1]) EXCEPT !.node[p].row[i] = NewString(u)]

BorrowFirst(t, p, i) ==
    LET l == LeftOf(t, p, i)  r == RightOf(t, p, i) IN
      Separate([t EXCEPT !.node[l].row = Append(@, Head(t.node[r].row)),
                         !.node[r].row = Tail(@)], p, i)

BorrowLast(t, p, i) ==
    LET l == LeftOf(t, p, i)  r == RightOf(t, p, i) IN
      Separate([t EXCEPT !.node[r].row = <<Last(t.node[l].row)>> \o @,
                         !.node[l].row = Front(@)], p, i)

(* Faulty variant: the leaf that is freed stays in the chain of leaves.    *)
MergeLeaves_KeepsNext(t, p, i) ==
    LET l == LeftOf(t, p, i)  r == RightOf(t, p, i) IN
      [tree |-> FreeNode([t EXCEPT !.node[l].row = @ \o t.node[r].row], r),
       old |-> t.node[p].row[i]]

MergeLeaves(t, p, i) ==
    LET l == LeftOf(t, p, i)  r == RightOf(t, p, i) IN
      [tree |-> FreeNode([t EXCEPT !.node[l].row = @ \o t.node[r].row,
                                   !.node[l].next = t.node[r].next], r),
       old |-> t.node[p].row[i]]

(* A leaf of p that was down to DEGREE rows lost one; i is how many rows   *)
(* of p are before it.  The right sibling helps, or the left one when      *)
(* there is none.                                                          *)
MendLeaf(t, p, i) ==
    IF i # n(t, p)
    THEN IF HasSpare(t, RightOf(t, p, i + 1)) THEN Kept(BorrowFirst(t, p, i + 1))
         ELSE MergeLeaves(t, p, i + 1)
    ELSE IF HasSpare(t, LeftOf(t, p, i)) THEN Kept(BorrowLast(t, p, i))
         ELSE MergeLeaves(t, p, i)

(* Faulty variant: the row moves without its child.                        *)
RotateLeft_LosesChild(t, p, i) ==
    LET l == LeftOf(t, p, i)  r == RightOf(t, p, i) IN
      [t EXCEPT !.node[l].row = Append(@, t.node[p].row[i]),
                !.node[p].row[i] = Head(t.node[r].row),
                !.node[r].row = Tail(@),
                !.node[r].child = Tail(@)]

(* Inner nodes borrow by turning the separator of the parent; no string is *)
(* copied.                                                                 *)
RotateLeft(t, p, i) ==
    LET l == LeftOf(t, p, i)  r == RightOf(t, p, i) IN
      [t EXCEPT !.node[l].row = Append(@, t.node[p].row[i]),
                !.node[l].child = Append(@, Head(t.node[r].child)),
                !.node[p].row[i] = Head(t.node[r].row),
                !.node[r].row = Tail(@),
                !.node[r].child = Tail(@)]

RotateRight(t, p, i) ==
    LET l == LeftOf(t, p, i)  r == RightOf(t, p, i) IN
      [t EXCEPT !.node[r].row = <<t.node[p].row[i]>> \o @,
                !.node[r].child = <<Last(t.node[l].child)>> \o @,
                !.node[p].row[i] = Last(t.node[l].row),
                !.node[l].row = Front(@),
                !.node[l].child = Front(@)]

(* A merge copies the separator, because the parent deletes its own.       *)
MergeInner(t, p, i) ==
    LET l == LeftOf(t, p, i)
        r == RightOf(t, p, i)
        u == insert_handler(t, RowKey(t, p, i))
    IN  [tree |-> FreeNode([u EXCEPT
                    !.node[l].row = (@ \o <<NewString(t)>>) \o t.node[r].row,
                    !.node[l].child = @ \o t.node[r].child,
                    !.node[l].next = t.node[r].next], r),
         old |-> t.node[p].row[i]]

MendInner(t, p, i) ==
    IF i # n(t, p)
    THEN IF HasSpare(t, RightOf(t, p, i + 1)) THEN Kept(RotateLeft(t, p, i + 1))
         ELSE MergeInner(t, p, i + 1)
    ELSE IF HasSpare(t, LeftOf(t, p, i)) THEN Kept(RotateRight(t, p, i))
         ELSE MergeInner(t, p, i)

(* Node b loses the void separator and the child behind it.                *)
DropEntry(t, b, old) ==
    LET i == find_index(t, b, t.string[old]) IN
      [delete_handler(t, old) EXCEPT !.node[b].row = RemoveAt(@, i),
                                     !.node[b].child = RemoveAt(@, i + 1)]

DropRow(t, b, k) == [t EXCEPT !.node[b].row = RemoveAt(@, find_index(t, b, k))]

DropInLeaf(t, p, c, k) ==
    IF HasSpare(t, c) THEN Kept(DropRow(t, c, k))
    ELSE MendLeaf(DropRow(t, c, k), p, find_index(t, p, RowKey(t, c, 1)))

(* The level of child c of p, with what the recursion came back with.      *)
DropAbove(p, c, below) ==
    LET u == DropEntry(below.tree, c, below.old) IN
      IF below.old = NoString THEN below
      ELSE IF n(u, c) >= DEGREE THEN Kept(u)
      ELSE MendInner(u, p, find_index(u, p, RowKey(u, c, 1)))

tree_delete(t, p, b, k) ==
    LET delete[m \in 0 .. t.length] ==
          [q \in DOMAIN t.node |-> [c \in DOMAIN t.node |->
             IF m = 0 \/ t.node[c].leaf THEN DropInLeaf(t, q, c, k)
             ELSE DropAbove(q, c, delete[m - 1][c][ChildFor(t, c, k)])]]
    IN  delete[t.length][p][b]

(* The root lost its last separator: its only child becomes the root.      *)
DropRoot(t, old) ==
    LET r == t.root_node IN
      FreeNode([delete_handler(t, old) EXCEPT !.root_node = t.node[r].child[1]], r)

(* myjql_set and myjql_del delete only keys b_tree_search found.           *)
b_tree_delete(k) ==
    LET r == tree.root_node
        done == tree_delete(tree, r, ChildFor(tree, r, k), k)
    IN  /\ b_tree_search(tree, k) # NoKey
        /\ tree' = IF tree.node[r].leaf THEN DropRow(tree, r, k)
                   ELSE IF done.old = NoString THEN done.tree
                   ELSE IF n(done.tree, r) > 1 THEN DropEntry(done.tree, r, done.old)
                   ELSE DropRoot(done.tree, done.old)

-----------------------------------------------------------------------------
(* b_tree_init on a file it creates: the root is an empty leaf.            *)
Init ==
    tree = [root_node |-> 0, free_node_head |-> NoNode, length |-> 1,
            node |-> [b \in {0} |-> BNode(TRUE, <<>>, <<>>, NoNode)],
            string |-> [s \in {} |-> NoKey]]

Next == \E k \in Key : b_tree_insert(k) \/ b_tree_delete(k)

Spec == Init /\ [][Next]_tree

-----------------------------------------------------------------------------
(* The nodes by their distance from the root, and so all in the tree.      *)
Level(t) ==
    LET at[d \in 0 .. t.length] ==
          IF d = 0 THEN {t.root_node}
          ELSE UNION {ToSet(t.node[b].child) : b \in at[d - 1]}
    IN  at

Used == UNION {Level(tree)[d] : d \in 0 .. tree.length}

Leaves == {b \in Used : tree.node[b].leaf}
Inner == Used \ Leaves

Rows(b) == ToSet(tree.node[b].row)

Stored == UNION {Rows(b) : b \in Leaves}

(* Every key in a leaf is found from the root and no other key is: the     *)
(* separators that splits, borrows and merges leave behind (b_tree.c:      *)
(* 232-266, 438-462, 502-547) always send the search to the right leaf,    *)
(* also when the key a separator was copied from is long gone.             *)
SearchExact ==
    LET stored == Stored IN
      \A k \in Key : b_tree_search(tree, k) = IF k \in stored THEN k ELSE NoKey

(* All leaves are equally deep, every node but the root is at least half   *)
(* full and an inner node has one child more than rows, in whatever order  *)
(* keys come and go; so a call pins no more pages than the height asks     *)
(* for.                                                                    *)
Balanced ==
    /\ \A d \in 0 .. tree.length :
         \A b, c \in Level(tree)[d] : tree.node[b].leaf = tree.node[c].leaf
    /\ \A b \in Used :
         LET node == tree.node[b] IN
           /\ b # tree.root_node => Len(node.row) >= DEGREE
           /\ ~node.leaf => node.row # <<>> /\ Len(node.child) = Len(node.row) + 1

(* The list of free nodes; one that runs into itself shows as one with a   *)
(* node twice.                                                             *)
FreeNodes ==
    ListFrom([b \in DOMAIN tree.node |-> tree.node[b].next],
             tree.free_node_head, NoNode, tree.length + 1)

(* Every node of the file is in the tree once, at one place under one      *)
(* parent, or on the free list once: splits and merges neither lose nodes  *)
(* nor use a node that is free.                                            *)
NodesOwnedOnce ==
    LET used == Used  free == FreeNodes IN
      /\ \A b \in used : \A i \in DOMAIN tree.node[b].child :
           /\ tree.node[b].child[i] # tree.root_node
           /\ \A c \in used : \A j \in DOMAIN tree.node[c].child :
                tree.node[b].child[i] = tree.node[c].child[j] => b = c /\ i = j
      /\ IsInjective(free)
      /\ used \cap ToSet(free) = {}
      /\ used \cup ToSet(free) = 0 .. tree.length - 1

(* The strings the handlers wrote are exactly the rows of the inner nodes, *)
(* each of one row: none is leaked when separators are replaced, and no    *)
(* node keeps a string that delete_handler has removed.                    *)
StringsOwnedOnce ==
    LET inner == Inner IN
      /\ \A b, c \in inner : \A i \in DOMAIN tree.node[b].row, j \in DOMAIN tree.node[c].row :
           tree.node[b].row[i] = tree.node[c].row[j] => b = c /\ i = j
      /\ UNION {Rows(b) : b \in inner} = DOMAIN tree.string

Below(b, c) == \A x \in Rows(b), y \in Rows(c) : x < y

(* The next pointers lead through all leaves from left to right: the rows  *)
(* of a leaf are in order, and all others are before it or, if it has a    *)
(* next one, are that one or behind it.                                    *)
LeavesChained ==
    LET leaves == Leaves IN
      \A b \in leaves :
        LET row == tree.node[b].row
            c == tree.node[b].next
        IN  /\ \A i \in 1 .. Len(row) - 1 : row[i] < row[i + 1]
            /\ c = NoNode => \A d \in leaves \ {b} : Below(d, b)
            /\ c # NoNode => /\ c \in leaves \ {b} /\ Below(b, c)
                             /\ \A d \in leaves \ {b, c} : Below(d, b) \/ Below(c, d)

(* The tree holds the keys that were inserted and not deleted since: every *)
(* call adds or takes away its own key, and moving rows between leaves     *)
(* (b_tree.c:422-484) never drops or resurrects another one.               *)
Index == INSTANCE KeyIndex WITH keys <- Stored

ImplementsKeyIndex ==
    /\ Index!Spec
    /\ [][\A k \in Key :
            /\ b_tree_insert(k) => Index!Add(k)
            /\ b_tree_delete(k) => Index!Drop(k)]_tree
=============================================================================
