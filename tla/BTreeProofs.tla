----------------------------- MODULE BTreeProofs -----------------------------
(***************************************************************************)
(* Proofs about BTree. TreeInv is the inductive invariant; Whole says what *)
(* it is of a tree file t whose nodes have the places g, h levels above    *)
(* the leaves. Good and Sized are its parts, and hold, but for the nodes   *)
(* and strings that are named, in the middle of a call as well.            *)
(***************************************************************************)
EXTENDS BTree, StructureProofs, FiniteSetTheorems, TLAPS

-----------------------------------------------------------------------------
(* The invariant of a tree file. *)

(* The rows and children of b are as its place wants them. *)
NodeFits(t, g, b) ==
    /\ g[b].lev = 0 => t.node[b].child = <<>> /\ LeafFits(g[b], t.node[b].row, Key)
    /\ g[b].lev # 0 => InnerFits(t.string, g, g[b], t.node[b].row, t.node[b].child)

(* The records of nodes, as the program allocates them. *)
Nodes == [leaf : BOOLEAN, row : Seq(Nat), child : Seq(Nat), next : Int]

(* t is a tree file: its fields have their types. *)
Typed(t) ==
    /\ t \in [root_node : Nat, free_node_head : Int, length : Nat,
              node : [0 .. t.length - 1 -> Nodes], string : [DOMAIN t.string -> Key]]
    /\ DOMAIN t.string \subseteq Nat /\ IsFiniteSet(DOMAIN t.string)

(* The nodes that are not in the tree are on the free list. *)
Listed(t, U) ==
    \E s : /\ IsList(NextIn(t), t.free_node_head, NoNode, s)
           /\ IsInjective(s)
           /\ U \cap ToSet(s) = {}
           /\ U \cup ToSet(s) = DOMAIN t.node

(* What a link may be. *)
Links(t) == DOMAIN t.node \cup {NoNode}

(* They are empty, and no node leads out of the file. *)
Spare(t, U) ==
    /\ Listed(t, U)
    /\ \A b \in DOMAIN t.node \ U : t.node[b].leaf /\ t.node[b].row = <<>> /\ t.node[b].child = <<>>
    /\ \A b \in DOMAIN t.node : t.node[b].next \in Links(t)

(* The tree, except that nodes in X may not fit and the strings in E are   *)
(* no rows yet.                                                            *)
Good(t, g, h, X, E) ==
    /\ Typed(t)
    /\ DOMAIN g \subseteq DOMAIN t.node
    /\ Tiled(g, h, MaxKey)
    /\ t.root_node \in DOMAIN g /\ g[t.root_node].lev = h
    /\ \A b \in DOMAIN g : t.node[b].leaf <=> g[b].lev = 0
    /\ \A b \in DOMAIN g \ X : NodeFits(t, g, b)
    /\ Owned(t, g, E)
    /\ Spare(t, DOMAIN g)
    /\ Chained(t, g, MaxKey, NoNode)

(* Sizes, of which those of X are yet too small. *)
Sized(t, g, X) ==
    \A b \in DOMAIN g :
      /\ Len(t.node[b].row) <= 2 * DEGREE
      /\ b \notin X => /\ g[b].lev # 0 => Len(t.node[b].row) >= 1
                       /\ b # t.root_node => Len(t.node[b].row) >= DEGREE

(* The child behind the i-th row, and no other, has k in its range. *)
Routed(t, g, b, k, i) ==
    LET child == t.node[b].child IN
      /\ i \in 0 .. n(t, b) /\ i + 1 \in 1 .. Len(child)
      /\ ChildFor(t, b, k) = child[i + 1]
      /\ \A j \in 1 .. Len(child) :
           g[child[j]].lo <= k /\ k < g[child[j]].hi <=> j = i + 1

(* A key in the range of an inner node is in that of one child, which      *)
(* find_index finds.                                                       *)
LEMMA FindIndex ==
    ASSUME NEW t, NEW g, NEW at, at \in Place, NEW b, ~t.node[b].leaf,
           InnerFits(t.string, g, at, t.node[b].row, t.node[b].child), Ordered(g),
           t.string \in [DOMAIN t.string -> Key],
           NEW k, k \in Nat, at.lo <= k, k < at.hi
    PROVE  Routed(t, g, b, k, find_index(t, b, k))
<1> DEFINE child == t.node[b].child
           row == t.node[b].row
           N == Len(row)
           f == [i \in 1 .. N |-> t.string[row[i]]]
           i == find_index(t, b, k)
           lo(m) == g[child[m]].lo
           hi(m) == g[child[m]].hi
<1>1. /\ row \in Seq(DOMAIN t.string) /\ Len(child) = N + 1
      /\ lo(1) = at.lo /\ hi(Len(child)) = at.hi
      /\ \A m \in 1 .. N : hi(m) = f[m] /\ lo(m + 1) = f[m]
  BY DEF InnerFits
<1>2. N \in Nat /\ \A m \in 1 .. N : f[m] \in Int
  <2>1. N \in Nat /\ \A m \in 1 .. N : row[m] \in DOMAIN t.string
    <3>1. row \in Seq(DOMAIN t.string)
      BY <1>1
    <3> QED
      BY ONLY <3>1
  <2> QED
    BY <2>1 DEF Key
<1>3. /\ \A a, c \in 1 .. N + 1 : a < c => hi(a) <= lo(c)
      /\ \A a \in 1 .. N + 1 : lo(a) \in Nat /\ hi(a) \in Nat /\ lo(a) < hi(a)
  BY <1>1, FitsInside DEF Place
<1>4. i = Cardinality({m \in 1 .. N : \A j \in 1 .. m : f[j] <= k})
  <2>1. ASSUME NEW m \in 1 .. N, NEW j \in 1 .. m PROVE f[j] = RowKey(t, b, j)
    <3>1. j \in 1 .. N
      BY <1>2
    <3> QED
      BY <3>1 DEF RowKey
  <2>2. {m \in 1 .. N : \A j \in 1 .. m : f[j] <= k} = {m \in 1 .. N : \A j \in 1 .. m : RowKey(t, b, j) <= k}
    BY <2>1
  <2> HIDE DEF f
  <2> QED
    BY <2>2 DEF find_index, n
<1> HIDE DEF i, f, N
<1>5. i \in 0 .. N /\ (\A m \in 1 .. i : f[m] <= k) /\ (i < N => k < f[i + 1])
  <2>1. k \in Int
    OBVIOUS
  <2> QED
    BY <1>2, <1>4, <2>1, PrefixCount
<1>6. ChildFor(t, b, k) = child[i + 1]
  BY DEF ChildFor, i
<1>7. i + 1 \in 1 .. N + 1 /\ Len(child) = N + 1
  BY <1>1, <1>2, <1>5
<1> HIDE DEF lo, hi, child
<1>8. lo(i + 1) <= k /\ k < hi(i + 1)
  <2>1. lo(i + 1) <= k
    <3>1. CASE i = 0
      BY <1>1, <3>1
    <3>2. CASE i # 0
      <4>1. i \in 1 .. N /\ i \in 1 .. i
        BY <1>2, <1>5, <3>2
      <4> QED
        BY <1>1, <1>5, <4>1
    <3> QED
      BY <3>1, <3>2
  <2>2. k < hi(i + 1)
    <3>1. CASE i = N
      BY <1>1, <1>7, <3>1
    <3>2. CASE i # N
      <4>1. i + 1 \in 1 .. N /\ i < N
        BY <1>2, <1>5, <3>2
      <4> QED
        BY <1>1, <1>5, <4>1
    <3> QED
      BY <3>1, <3>2
  <2> QED
    BY <2>1, <2>2
<1>9. ASSUME NEW j \in 1 .. N + 1, lo(j) <= k, k < hi(j) PROVE j = i + 1
  <2>1. ~(j < i + 1)
    <3>1. SUFFICES ASSUME j < i + 1 PROVE FALSE
      OBVIOUS
    <3>2. hi(j) <= lo(i + 1) /\ hi(j) \in Nat /\ lo(i + 1) \in Nat
      BY <1>3, <1>7, <3>1
    <3> QED
      BY <1>8, <1>9, <3>2
  <2>2. ~(i + 1 < j)
    <3>1. SUFFICES ASSUME i + 1 < j PROVE FALSE
      OBVIOUS
    <3>2. hi(i + 1) <= lo(j) /\ hi(i + 1) \in Nat /\ lo(j) \in Nat
      BY <1>3, <1>7, <3>1
    <3> QED
      BY <1>8, <1>9, <3>2
  <2> QED
    BY <1>2, <1>5, <2>1, <2>2
<1>10. i \in 0 .. n(t, b)
  BY <1>5 DEF n, N
<1> HIDE DEF row
<1> QED
  BY <1>6, <1>7, <1>8, <1>9, <1>10 DEF i, child, lo, hi, Routed

(* find_index in a leaf finds the place of a key. *)
LEMMA FindRow ==
    ASSUME NEW t, NEW at, NEW b, t.node[b].leaf, LeafFits(at, t.node[b].row, Key), NEW k \in Nat,
           NEW i, i = find_index(t, b, k)
    PROVE  FoundRow(t.node[b].row, k, i)
<1> DEFINE row == t.node[b].row
           N == Len(row)
<1>1. N \in Nat /\ row \in Seq(Key) /\ \A j \in 1 .. N : row[j] \in Nat
  BY LeafDistinct
<1>2. \A x, y \in 1 .. N : x < y => row[x] < row[y]
  BY DEF LeafFits
<1>3. i = Cardinality({m \in 1 .. N : \A j \in 1 .. m : row[j] <= k})
  <2>1. \A j : RowKey(t, b, j) = row[j]
    BY DEF RowKey
  <2> HIDE DEF row
  <2> QED
    BY <2>1 DEF find_index, n, row
<1>4. i \in 0 .. N /\ (\A j \in 1 .. i : row[j] <= k) /\ (i < N => k < row[i + 1])
  <2>1. k \in Int /\ N \in Nat /\ \A j \in 1 .. N : row[j] \in Int
    BY <1>1
  <2> HIDE DEF row, N
  <2> QED
    BY <1>3, <2>1, PrefixCount
<1>5. ASSUME NEW j \in i + 1 .. N PROVE k < row[j]
  <2>1. i + 1 \in 1 .. N /\ i < N /\ j \in 1 .. N
    BY <1>1, <1>4
  <2>2. k < row[i + 1] /\ row[i + 1] \in Nat /\ row[j] \in Nat
    BY <1>1, <1>4, <2>1
  <2>3. j = i + 1 \/ i + 1 < j
    BY ONLY <1>1, <1>4, <2>1, <1>5
  <2>4. i + 1 < j => row[i + 1] < row[j]
    BY ONLY <1>1, <1>2, <2>1
  <2> QED
    BY ONLY <2>2, <2>3, <2>4, k \in Nat
<1>6. ASSUME k \in ToSet(row) PROVE i \in 1 .. N /\ row[i] = k
  <2>1. PICK j \in 1 .. N : row[j] = k
    BY <1>1, <1>6, ToSetIs
  <2>2. j \in 1 .. i
    BY <1>1, <1>4, <1>5, <2>1
  <2>3. i \in 1 .. N /\ row[i] <= k /\ row[i] \in Nat
    BY <1>1, <1>4, <2>2
  <2>4. j = i \/ row[j] < row[i]
    BY <1>1, <1>2, <2>1, <2>2, <2>3
  <2> QED
    BY <2>1, <2>3, <2>4
<1> QED
  BY <1>4, <1>5, <1>6 DEF FoundRow

-----------------------------------------------------------------------------
(* Steps on the fields of a tree file. *)

(* The fields of a tree file. *)
LEMMA TypedIs ==
    ASSUME NEW t, Typed(t)
    PROVE  /\ t = [root_node |-> t.root_node, free_node_head |-> t.free_node_head, length |-> t.length,
                   node |-> t.node, string |-> t.string]
           /\ t.root_node \in Nat /\ t.free_node_head \in Int /\ t.length \in Nat
           /\ DOMAIN t.node = 0 .. t.length - 1 /\ t.node \in [DOMAIN t.node -> Nodes]
           /\ DOMAIN t.node \subseteq Nat
           /\ t.string \in [DOMAIN t.string -> Key]
           /\ DOMAIN t.string \subseteq Nat /\ IsFiniteSet(DOMAIN t.string)
  BY DEF Typed

(* The fields of a node. *)
LEMMA NodeIs ==
    ASSUME NEW t, Typed(t), NEW b \in DOMAIN t.node
    PROVE  /\ t.node[b] = BNode(t.node[b].leaf, t.node[b].row, t.node[b].child, t.node[b].next)
           /\ t.node[b] \in Nodes
           /\ t.node[b].leaf \in BOOLEAN /\ t.node[b].next \in Int
           /\ t.node[b].row \in Seq(Nat) /\ t.node[b].child \in Seq(Nat)
           /\ Len(t.node[b].row) \in Nat /\ Len(t.node[b].child) \in Nat
<1>1. t.node[b] \in Nodes
  BY TypedIs
<1> QED
  BY <1>1 DEF Nodes, BNode

(* A change to nodes and strings only. *)
LEMMA SetIs ==
    ASSUME NEW t, Typed(t), NEW node \in [DOMAIN t.node -> Nodes],
           NEW string, string \in [DOMAIN string -> Key], DOMAIN string \subseteq Nat, IsFiniteSet(DOMAIN string),
           NEW v, v = [root_node |-> t.root_node, free_node_head |-> t.free_node_head, length |-> t.length,
                       node |-> node, string |-> string]
    PROVE  /\ Typed(v) /\ v.node = node /\ v.string = string /\ v.root_node = t.root_node
           /\ v.free_node_head = t.free_node_head /\ v.length = t.length
<1>2. node \in [0 .. t.length - 1 -> Nodes]
  BY TypedIs
<1>3. t.root_node \in Nat /\ t.free_node_head \in Int /\ t.length \in Nat
  BY TypedIs
<1> QED
  BY <1>2, <1>3 DEF Typed

(* insert_handler finds a string that does not exist. *)
LEMMA NewStringIs ==
    ASSUME NEW t, Typed(t)
    PROVE  NewString(t) \in Nat /\ NewString(t) \notin DOMAIN t.string
<1> DEFINE D == DOMAIN t.string
<1>1. IsFiniteSet(D) /\ Cardinality(D) \in Nat
  BY TypedIs, FS_CardinalityType
<1> HIDE DEF D
<1>2. \E s \in 0 .. Cardinality(D) : s \notin D
  <2>1. SUFFICES ASSUME 0 .. Cardinality(D) \subseteq D PROVE FALSE
    OBVIOUS
  <2>2. 0 \in Int /\ Cardinality(D) \in Int /\ 0 <= Cardinality(D)
    BY <1>1
  <2>3. Cardinality(0 .. Cardinality(D)) = Cardinality(D) - 0 + 1
    <3> DEFINE c == Cardinality(D)
    <3>1. c \in Int /\ 0 \in Int /\ ~(0 > c)
      BY <2>2
    <3> HIDE DEF c
    <3>2. Cardinality(0 .. c) = c - 0 + 1
      <4>1. Cardinality(0 .. c) = IF 0 > c THEN 0 ELSE c - 0 + 1
        BY <3>1, FS_Interval, Zenon
      <4> QED
        BY <3>1, <4>1
    <3> QED
      BY <3>2 DEF c
  <2>4. Cardinality(0 .. Cardinality(D)) <= Cardinality(D)
    BY <1>1, <2>1, FS_Subset
  <2> QED
    BY <1>1, <2>3, <2>4
<1>3. NewString(t) \in 0 .. Cardinality(D) /\ NewString(t) \notin D
  BY <1>2 DEF NewString, D
<1> QED
  BY <1>1, <1>3 DEF D

(* The strings after a new one is stored. *)
LEMMA InsertIs ==
    ASSUME NEW str, str \in [DOMAIN str -> Key], DOMAIN str \subseteq Nat, IsFiniteSet(DOMAIN str),
           NEW k \in Key, NEW x \in Nat, x \notin DOMAIN str,
           NEW ss, ss = [s \in DOMAIN str \cup {x} |-> IF s = x THEN k ELSE str[s]]
    PROVE  /\ ss \in [DOMAIN ss -> Key] /\ DOMAIN ss = DOMAIN str \cup {x}
           /\ DOMAIN ss \subseteq Nat /\ IsFiniteSet(DOMAIN ss)
           /\ ss[x] = k /\ \A s \in DOMAIN str : ss[s] = str[s]
<1>1. IsFiniteSet(DOMAIN str \cup {x})
  BY FS_AddElement
<1>2. ss \in [DOMAIN str \cup {x} -> Key]
  OBVIOUS
<1> QED
  BY <1>1, <1>2

(* The free list depends on the nodes outside the tree only. *)
LEMMA ListedStays ==
    ASSUME NEW t, NEW U, Listed(t, U), NEW v, DOMAIN v.node = DOMAIN t.node,
           v.free_node_head = t.free_node_head,
           \A b \in DOMAIN t.node \ U : v.node[b].next = t.node[b].next
    PROVE  Listed(v, U)
<1>1. PICK s : /\ IsList(NextIn(t), t.free_node_head, NoNode, s) /\ IsInjective(s)
               /\ U \cap ToSet(s) = {} /\ U \cup ToSet(s) = DOMAIN t.node
  BY DEF Listed
<1>2. DOMAIN NextIn(v) = DOMAIN NextIn(t)
  BY DEF NextIn
<1>3. ASSUME NEW k \in 1 .. Len(s) PROVE NextIn(v)[s[k]] = NextIn(t)[s[k]]
  <2>1. s \in Seq(DOMAIN NextIn(t))
    BY <1>1 DEF IsList
  <2>2. s[k] \in ToSet(s)
    BY <2>1, ToSetIs
  <2>3. s[k] \in DOMAIN t.node \ U
    BY <1>1, <2>2
  <2> QED
    BY <2>3 DEF NextIn
<1>4. IsList(NextIn(v), v.free_node_head, NoNode, s)
  BY <1>1, <1>2, <1>3, ListStays
<1> QED
  BY <1>1, <1>4 DEF Listed

(* A change to nodes in the tree leaves the spare ones as they are. *)
LEMMA SpareStays ==
    ASSUME NEW t, NEW U, Spare(t, U), NEW v, DOMAIN v.node = DOMAIN t.node,
           v.free_node_head = t.free_node_head,
           \A b \in DOMAIN t.node \ U : v.node[b] = t.node[b],
           \A b \in U : v.node[b].next \in Links(t)
    PROVE  Spare(v, U)
<1>1. Listed(v, U)
  <2>1. Listed(t, U) /\ \A b \in DOMAIN t.node \ U : v.node[b].next = t.node[b].next
    BY DEF Spare
  <2> QED
    BY ONLY <2>1, DOMAIN v.node = DOMAIN t.node, v.free_node_head = t.free_node_head, ListedStays
<1> QED
  BY <1>1 DEF Spare, Links

(* Every link leads to a node of the file. *)
LEMMA LinkIs ==
    ASSUME NEW t, NEW U, Spare(t, U), NEW b, b \in DOMAIN t.node
    PROVE  t.node[b].next \in Links(t) /\ NoNode \in Links(t)
  BY DEF Spare, Links

(* The node taken for a split was spare or is new. *)
LEMMA TakeIs ==
    ASSUME NEW t, Typed(t), NEW U, Spare(t, U), NEW v, v = TakeNode(t), NEW a, a = NewNode(t)
    PROVE  /\ Typed(v) /\ Spare(v, U \cup {a}) /\ a \notin U
           /\ DOMAIN v.node = DOMAIN t.node \cup {a}
           /\ \A b \in DOMAIN t.node : v.node[b] = t.node[b]
           /\ v.string = t.string /\ v.root_node = t.root_node
<1>0. PICK s : /\ IsList(NextIn(t), t.free_node_head, NoNode, s) /\ IsInjective(s)
               /\ U \cap ToSet(s) = {} /\ U \cup ToSet(s) = DOMAIN t.node
  BY DEF Spare, Listed
<1>1. s \in Seq(DOMAIN t.node) /\ DOMAIN NextIn(t) = DOMAIN t.node
  BY <1>0 DEF IsList, NextIn
<1>2. NoNode \notin DOMAIN t.node /\ t.length \notin DOMAIN t.node /\ t.length \in Nat
      /\ DOMAIN t.node = 0 .. t.length - 1
  BY TypedIs DEF NoNode
<1>3. CASE t.free_node_head = NoNode
  <2> DEFINE nn == [b \in 0 .. t.length |-> IF b = t.length THEN BNode(TRUE, <<>>, <<>>, NoNode) ELSE t.node[b]]
             L == t.length + 1
  <2>1. v = [t EXCEPT !.length = L, !.node = nn] /\ a = t.length
    BY <1>3 DEF TakeNode, NewNode
  <2>2. nn = [b \in DOMAIN t.node \cup {a} |-> IF b = a THEN BNode(TRUE, <<>>, <<>>, NoNode) ELSE t.node[b]]
    BY <1>2, <2>1
  <2>3. DOMAIN t.node \cup {a} = 0 .. L - 1 /\ L \in Nat
    BY <1>2, <2>1
  <2>4. BNode(TRUE, <<>>, <<>>, NoNode) \in Nodes
    BY DEF BNode, Nodes, NoNode
  <2>5. t.node \in [DOMAIN t.node -> Nodes]
    BY TypedIs
  <2>6. nn \in [0 .. L - 1 -> Nodes] /\ \A b \in DOMAIN t.node : nn[b] = t.node[b]
    BY <1>2, <2>1, <2>2, <2>3, <2>4, <2>5
  <2> HIDE DEF nn, L
  <2>7. v = [root_node |-> t.root_node, free_node_head |-> t.free_node_head, length |-> L,
             node |-> nn, string |-> t.string]
    BY <2>1, TypedIs
  <2>8. Typed(v)
    <3>1. /\ t.root_node \in Nat /\ t.free_node_head \in Int /\ t.string \in [DOMAIN t.string -> Key]
          /\ DOMAIN t.string \subseteq Nat /\ IsFiniteSet(DOMAIN t.string)
      BY TypedIs
    <3> QED
      BY <2>3, <2>6, <2>7, <3>1 DEF Typed
  <2>9. s = <<>>
    <3>1. s # <<>> => 1 \in 1 .. Len(s)
      BY <1>1
    <3> QED
      BY <1>0, <1>1, <1>2, <1>3, <3>1 DEF IsList
  <2>10. IsList(NextIn(v), v.free_node_head, NoNode, s)
    BY <1>3, <2>7, <2>9 DEF IsList
  <2>11. ToSet(s) = {}
    BY <1>1, <2>9, ToSetIs
  <2>12. U = DOMAIN t.node /\ DOMAIN v.node = DOMAIN t.node \cup {a} /\ v.node = nn
    BY <1>0, <2>3, <2>6, <2>7, <2>11
  <2>13. Spare(v, U \cup {a})
    <3>1. Listed(v, U \cup {a})
      BY <1>0, <2>10, <2>11, <2>12 DEF Listed
    <3>2. nn[a] = BNode(TRUE, <<>>, <<>>, NoNode)
      BY <2>2
    <3>3. nn[a].next = NoNode
      BY ONLY <3>2 DEF BNode
    <3>4. \A b \in DOMAIN t.node : nn[b].next \in Links(t)
      BY <2>6 DEF Spare
    <3>5. \A b \in DOMAIN v.node : v.node[b].next \in Links(v)
      BY ONLY <2>12, <3>3, <3>4 DEF Links
    <3> QED
      BY ONLY <2>12, <3>1, <3>5 DEF Spare
  <2> QED
    BY <1>2, <2>1, <2>6, <2>7, <2>8, <2>12, <2>13
<1>4. CASE t.free_node_head # NoNode
  <2>1. v = [t EXCEPT !.free_node_head = t.node[t.free_node_head].next] /\ a = t.free_node_head
    BY <1>4, TypedIs DEF TakeNode, NewNode
  <2>2. s # <<>> /\ a = s[1] /\ 1 \in 1 .. Len(s) /\ s[1] \in ToSet(s)
    <3>1. s # <<>>
      BY <1>0, <1>4 DEF IsList
    <3>2. 1 \in 1 .. Len(s)
      BY <1>1, <3>1
    <3> QED
      BY <1>0, <1>1, <2>1, <3>1, <3>2, ToSetIs DEF IsList
  <2>3. a \in DOMAIN t.node /\ a \notin U
    BY <1>0, <2>2
  <2>4. t.node[a].next \in Int /\ NextIn(t)[t.free_node_head] = t.node[a].next
    BY <2>1, <2>3, NodeIs DEF NextIn
  <2>5. v = [root_node |-> t.root_node, free_node_head |-> t.node[a].next, length |-> t.length,
             node |-> t.node, string |-> t.string]
    BY <2>1, TypedIs
  <2>6. Typed(v)
    <3>1. /\ t.root_node \in Nat /\ t.length \in Nat /\ t.string \in [DOMAIN t.string -> Key]
          /\ DOMAIN t.string \subseteq Nat /\ IsFiniteSet(DOMAIN t.string)
          /\ t.node \in [0 .. t.length - 1 -> Nodes]
      BY TypedIs
    <3> QED
      BY <2>4, <2>5, <3>1 DEF Typed
  <2>7. NextIn(v) = NextIn(t)
    BY <2>5 DEF NextIn
  <2>8. IsList(NextIn(t), NextIn(t)[t.free_node_head], NoNode, Tail(s))
    BY <1>0, <2>2, ListPop
  <2>9. IsInjective(Tail(s)) /\ ToSet(Tail(s)) = ToSet(s) \ {a}
    BY <1>0, <1>1, <2>2, ToSetTail
  <2>10. Spare(v, U \cup {a})
    <3>1. IsList(NextIn(v), v.free_node_head, NoNode, Tail(s))
      BY <2>4, <2>5, <2>7, <2>8
    <3>2. (U \cup {a}) \cap ToSet(Tail(s)) = {} /\ (U \cup {a}) \cup ToSet(Tail(s)) = DOMAIN v.node
      BY <1>0, <2>2, <2>5, <2>9
    <3>3. Listed(v, U \cup {a})
      BY <2>9, <3>1, <3>2 DEF Listed
    <3>4. v.node = t.node
      BY ONLY <2>5
    <3> QED
      BY ONLY <3>3, <3>4, Spare(t, U) DEF Spare, Links
  <2> QED
    BY <2>3, <2>5, <2>6, <2>10
<1> QED
  BY <1>3, <1>4

(* FreeNode puts a node of the tree on the free list. *)
LEMMA GiveIs ==
    ASSUME NEW t, Typed(t), NEW U, Spare(t, U), NEW r \in U, NEW v, v = FreeNode(t, r)
    PROVE  /\ Typed(v) /\ Spare(v, U \ {r}) /\ DOMAIN v.node = DOMAIN t.node
           /\ \A b \in DOMAIN t.node : b # r => v.node[b] = t.node[b]
           /\ v.string = t.string /\ v.root_node = t.root_node
<1>0. PICK s : /\ IsList(NextIn(t), t.free_node_head, NoNode, s) /\ IsInjective(s)
               /\ U \cap ToSet(s) = {} /\ U \cup ToSet(s) = DOMAIN t.node
  BY DEF Spare, Listed
<1>1. s \in Seq(DOMAIN t.node) /\ DOMAIN NextIn(t) = DOMAIN t.node
  BY <1>0 DEF IsList, NextIn
<1> DEFINE y == BNode(TRUE, <<>>, <<>>, t.free_node_head)
           nn == [t.node EXCEPT ![r] = y]
<1>2. r \in DOMAIN t.node /\ r \in Int
  BY <1>0, TypedIs
<1>3. y \in Nodes /\ y.next = t.free_node_head
  <2>1. t.free_node_head \in Int
    BY TypedIs
  <2> QED
    BY <2>1 DEF BNode, Nodes
<1> HIDE DEF y
<1>4. /\ nn \in [DOMAIN t.node -> Nodes] /\ nn[r] = y
      /\ \A b \in DOMAIN t.node : b # r => nn[b] = t.node[b]
  BY <1>2, <1>3, TypedIs
<1>5. v = [root_node |-> t.root_node, free_node_head |-> r, length |-> t.length,
           node |-> nn, string |-> t.string]
  <2>1. v = [t EXCEPT !.node = nn, !.free_node_head = r]
    BY DEF FreeNode, y
  <2> HIDE DEF nn
  <2> QED
    BY <2>1, TypedIs
<1> HIDE DEF nn
<1>6. Typed(v) /\ DOMAIN v.node = DOMAIN t.node
  <2>1. /\ t.root_node \in Nat /\ t.length \in Nat /\ t.string \in [DOMAIN t.string -> Key]
        /\ DOMAIN t.string \subseteq Nat /\ IsFiniteSet(DOMAIN t.string)
        /\ DOMAIN t.node = 0 .. t.length - 1
    BY TypedIs
  <2>2. nn \in [0 .. t.length - 1 -> Nodes]
    BY <1>4, <2>1
  <2> QED
    BY <1>2, <1>4, <1>5, <2>1, <2>2 DEF Typed
<1>7. DOMAIN NextIn(v) = DOMAIN NextIn(t) /\ NextIn(v)[r] = t.free_node_head
  BY <1>1, <1>2, <1>3, <1>4, <1>5, <1>6 DEF NextIn
<1>8. ASSUME NEW k \in 1 .. Len(s) PROVE NextIn(v)[s[k]] = NextIn(t)[s[k]]
  <2>1. s[k] \in ToSet(s)
    BY <1>1, ToSetIs
  <2>2. s[k] \in DOMAIN t.node /\ s[k] # r
    BY <1>0, <2>1
  <2> QED
    BY <1>4, <1>5, <1>6, <2>2 DEF NextIn
<1>9. IsList(NextIn(v), r, NoNode, <<r>> \o s)
  BY <1>0, <1>1, <1>2, <1>7, <1>8, ListPush
<1>10. ToSet(<<r>> \o s) = ToSet(s) \cup {r} /\ IsInjective(<<r>> \o s)
  BY <1>0, <1>1, <1>2, ToSetPush
<1>11. Spare(v, U \ {r})
  <2>1. (U \ {r}) \cap ToSet(<<r>> \o s) = {} /\ (U \ {r}) \cup ToSet(<<r>> \o s) = DOMAIN v.node
    BY <1>0, <1>2, <1>6, <1>10
  <2>2. v.free_node_head = r
    BY <1>5
  <2>3. Listed(v, U \ {r})
    BY <1>9, <1>10, <2>1, <2>2 DEF Listed
  <2>4. t.free_node_head \in Links(t)
    <3>1. s # <<>> => s[1] \in DOMAIN t.node
      BY <1>1
    <3> QED
      BY <1>0, <3>1 DEF IsList, Links
  <2>5. v.node = nn /\ DOMAIN v.node = DOMAIN t.node
    BY ONLY <1>5, <1>6
  <2>6. y.leaf /\ y.row = <<>> /\ y.child = <<>> /\ y.next = t.free_node_head
    BY DEF y, BNode
  <2> QED
    BY ONLY <1>2, <1>4, <2>3, <2>4, <2>5, <2>6, Spare(t, U) DEF Spare, Links
<1> QED
  BY <1>4, <1>5, <1>6, <1>11

(* A node that fits still does when what it refers to is unchanged. *)
LEMMA NodeStays ==
    ASSUME NEW t, NEW g, NEW b, NodeFits(t, g, b), NEW v, NEW g2,
           v.node[b].row = t.node[b].row, v.node[b].child = t.node[b].child, g2[b] = g[b],
           g[b].lev # 0 => /\ \A s \in RowSet(t, b) : s \in DOMAIN v.string /\ v.string[s] = t.string[s]
                           /\ \A c \in ToSet(t.node[b].child) : c \in DOMAIN g2 /\ g2[c] = g[c]
    PROVE  NodeFits(v, g2, b)
<1>1. CASE g[b].lev = 0
  BY <1>1 DEF NodeFits
<1>2. CASE g[b].lev # 0
  <2>1. InnerFits(t.string, g, g[b], t.node[b].row, t.node[b].child)
    BY <1>2 DEF NodeFits
  <2>2. InnerFits(v.string, g2, g[b], t.node[b].row, t.node[b].child)
    BY <1>2, <2>1, InnerStays DEF RowSet
  <2> QED
    BY <1>2, <2>2 DEF NodeFits
<1> QED
  BY <1>1, <1>2

(* The rows of a leaf with one more key. *)
LEMMA LeafPut ==
    ASSUME NEW t, NEW at, at \in Place, NEW b, t.node[b].leaf, LeafFits(at, t.node[b].row, Key),
           NEW k, k \in Key, at.lo <= k, k < at.hi, k \notin RowSet(t, b),
           NEW row, row = InsertAt(t.node[b].row, find_index(t, b, k) + 1, k)
    PROVE  /\ LeafFits(at, row, Key) /\ Len(row) = n(t, b) + 1 /\ ToSet(row) = RowSet(t, b) \cup {k}
           /\ row \in Seq(Key)
<1> DEFINE old == t.node[b].row
           i == find_index(t, b, k)
           j == i + 1
           N == Len(old)
<1>1. k \in Nat /\ old \in Seq(Key) /\ N \in Nat /\ \A m \in 1 .. N : old[m] \in Nat
  BY TreeAssumption, LeafDistinct DEF Key
<1>2. /\ i \in 0 .. N /\ (\A m \in 1 .. i : old[m] <= k) /\ (\A m \in i + 1 .. N : k < old[m])
  BY <1>1, FindRow DEF FoundRow
<1> HIDE DEF i
<1>3. j \in 1 .. N + 1 /\ j - 1 = i
  BY <1>1, <1>2
<1>4. row = InsertAt(old, j, k)
  BY DEF i
<1> HIDE DEF j, N, old
<1>5. /\ row \in Seq(Key) /\ Len(row) = N + 1
      /\ \A m \in 1 .. j - 1 : row[m] = old[m]
      /\ row[j] = k
      /\ \A m \in j + 1 .. N + 1 : row[m] = old[m - 1]
      /\ ToSet(row) = ToSet(old) \cup {k}
  <2>1. old \in Seq(Key) /\ j \in 1 .. Len(old) + 1
    BY <1>1, <1>3 DEF N
  <2>2. /\ InsertAt(old, j, k) \in Seq(Key)
        /\ Len(InsertAt(old, j, k)) = Len(old) + 1
        /\ \A m \in 1 .. j - 1 : InsertAt(old, j, k)[m] = old[m]
        /\ InsertAt(old, j, k)[j] = k
        /\ \A m \in j + 1 .. Len(old) + 1 : InsertAt(old, j, k)[m] = old[m - 1]
        /\ ToSet(InsertAt(old, j, k)) = ToSet(old) \cup {k}
    BY ONLY <2>1, k \in Key, InsertAtIs
  <2> QED
    BY <1>4, <2>2 DEF N
<1>6. \A m \in 1 .. N : at.lo <= old[m] /\ old[m] < at.hi /\ old[m] # k
  <2>1. \A m \in 1 .. N : old[m] \in ToSet(old)
    BY <1>1, ToSetIs DEF N
  <2> QED
    BY <2>1 DEF LeafFits, N, old, RowSet
<1>7. \A a, c \in 1 .. N : a < c => old[a] < old[c]
  BY DEF LeafFits, N, old
<1>8. ASSUME NEW m \in 1 .. N + 1
      PROVE  /\ at.lo <= row[m] /\ row[m] < at.hi
             /\ m < j => m \in 1 .. N /\ row[m] = old[m] /\ row[m] < k
             /\ m = j => row[m] = k
             /\ m > j => m - 1 \in 1 .. N /\ row[m] = old[m - 1] /\ k < row[m]
  <2>1. CASE m < j
    <3>1. m \in 1 .. j - 1 /\ m \in 1 .. N /\ m \in 1 .. i
      BY <1>1, <1>3, <2>1
    <3>2. row[m] = old[m] /\ old[m] <= k /\ old[m] # k /\ old[m] \in Nat
      BY <1>1, <1>2, <1>5, <1>6, <3>1
    <3> QED
      BY <1>1, <1>3, <1>6, <2>1, <3>1, <3>2
  <2>2. CASE m = j
    BY <1>3, <1>5, <2>2
  <2>3. CASE m > j
    <3>1. m \in j + 1 .. N + 1 /\ m - 1 \in i + 1 .. N /\ m - 1 \in 1 .. N
      BY <1>1, <1>3, <2>3
    <3>2. row[m] = old[m - 1] /\ k < old[m - 1]
      BY <1>2, <1>5, <3>1
    <3> QED
      BY <1>1, <1>3, <1>6, <2>3, <3>1, <3>2
  <2> QED
    BY <1>1, <1>3, <2>1, <2>2, <2>3
<1>9. ASSUME NEW a \in 1 .. N + 1, NEW c \in 1 .. N + 1, a < c PROVE row[a] < row[c]
  <2>0. j \in Nat /\ N \in Nat
    BY <1>1, <1>3
  <2>1. CASE c < j
    BY <1>7, <1>8, <1>9, <2>0, <2>1
  <2>2. CASE c = j
    BY <1>8, <1>9, <2>0, <2>2
  <2>3. CASE c > j /\ a < j
    <3>1. row[a] < k /\ k < row[c] /\ row[a] = old[a] /\ row[c] = old[c - 1] /\ a \in 1 .. N /\ c - 1 \in 1 .. N
      BY <1>8, <2>3
    <3>2. old[a] \in Nat /\ old[c - 1] \in Nat
      BY <1>1, <3>1
    <3> QED
      BY <1>1, <3>1, <3>2
  <2>4. CASE c > j /\ a = j
    BY <1>8, <2>4
  <2>5. CASE c > j /\ a > j
    <3>1. a - 1 < c - 1 /\ a - 1 \in 1 .. N /\ c - 1 \in 1 .. N /\ row[a] = old[a - 1] /\ row[c] = old[c - 1]
      BY <1>8, <1>9, <2>5
    <3> QED
      BY <1>7, <3>1
  <2> QED
    BY <2>0, <2>1, <2>2, <2>3, <2>4, <2>5
<1> QED
  BY <1>5, <1>8, <1>9 DEF LeafFits, N, old, n, RowSet

(* A leaf with other rows that fit keeps the tree good. *)
LEMMA PutLeafStays ==
    ASSUME NEW t, NEW g, NEW h, Good(t, g, h, {}, {}), NEW b, b \in DOMAIN g, g[b].lev = 0,
           NEW row, row \in Seq(Key), LeafFits(g[b], row, Key),
           NEW v, v = WithRow(t, b, row)
    PROVE  Good(v, g, h, {}, {}) /\ OnlyRow(t, g, v, b, row)
<1>0. v = [t EXCEPT !.node[b].row = row]
  BY DEF WithRow
<1> USE <1>0
<1>1. /\ Typed(t) /\ b \in DOMAIN t.node /\ DOMAIN g \subseteq DOMAIN t.node /\ Tiled(g, h, MaxKey)
      /\ t.root_node \in DOMAIN g /\ g[t.root_node].lev = h
      /\ \A x \in DOMAIN g : t.node[x].leaf <=> g[x].lev = 0
      /\ \A x \in DOMAIN g : NodeFits(t, g, x)
      /\ Owned(t, g, {}) /\ Spare(t, DOMAIN g) /\ Chained(t, g, MaxKey, NoNode)
  BY DEF Good
<1> DEFINE y == BNode(t.node[b].leaf, row, t.node[b].child, t.node[b].next)
           nn == [t.node EXCEPT ![b] = y]
<1>2. /\ t.node[b] = BNode(t.node[b].leaf, t.node[b].row, t.node[b].child, t.node[b].next)
      /\ t.node[b].child \in Seq(Nat) /\ t.node[b].next \in Int /\ row \in Seq(Nat)
  <2>1. Key \subseteq Nat
    BY TreeAssumption DEF Key
  <2> QED
    BY <1>1, <2>1, NodeIs
<1>3. v = [root_node |-> t.root_node, free_node_head |-> t.free_node_head, length |-> t.length,
           node |-> nn, string |-> t.string]
  <2>1. [t.node[b] EXCEPT !.row = row] = y
    BY <1>2 DEF BNode
  <2>2. v = [t EXCEPT !.node = [t.node EXCEPT ![b] = [t.node[b] EXCEPT !.row = row]]]
    BY <1>1, TypedIs
  <2>3. v = [t EXCEPT !.node = nn]
    BY <2>1, <2>2
  <2> HIDE DEF nn
  <2> QED
    BY <1>1, <2>3, TypedIs
<1>4. /\ nn \in [DOMAIN t.node -> Nodes]
      /\ nn[b].row = row /\ nn[b].child = t.node[b].child /\ nn[b].next = t.node[b].next /\ nn[b].leaf = t.node[b].leaf
      /\ \A x \in DOMAIN t.node : x # b => nn[x] = t.node[x]
  <2>1. y \in Nodes
    BY <1>1, <1>2, NodeIs DEF BNode, Nodes
  <2>2. y.row = row /\ y.child = t.node[b].child /\ y.next = t.node[b].next /\ y.leaf = t.node[b].leaf
    BY DEF BNode
  <2>3. t.node \in [DOMAIN t.node -> Nodes]
    BY <1>1, TypedIs
  <2> HIDE DEF y
  <2> QED
    BY <1>1, <2>1, <2>2, <2>3
<1> HIDE DEF nn, y
<1>5. /\ Typed(v) /\ v.node = nn /\ v.string = t.string /\ v.root_node = t.root_node
      /\ v.free_node_head = t.free_node_head
  <2>1. /\ t.string \in [DOMAIN t.string -> Key] /\ DOMAIN t.string \subseteq Nat /\ IsFiniteSet(DOMAIN t.string)
    BY <1>1, TypedIs
  <2>2. Typed(t) /\ nn \in [DOMAIN t.node -> Nodes]
    BY <1>1, <1>4
  <2> QED
    BY ONLY <1>3, <2>1, <2>2, SetIs
<1>6. DOMAIN v.node = DOMAIN t.node
  BY <1>4, <1>5
<1>7. \A x \in DOMAIN t.node : v.node[x].next = t.node[x].next /\ v.node[x].leaf = t.node[x].leaf
  BY <1>4, <1>5
<1>8. ASSUME NEW x \in DOMAIN g PROVE NodeFits(v, g, x)
  <2>1. CASE x = b
    BY <1>1, <1>4, <1>5, <2>1 DEF NodeFits
  <2>2. CASE x # b
    <3>1. v.node[x] = t.node[x]
      BY <1>1, <1>4, <1>5, <2>2
    <3> QED
      BY <1>1, <1>5, <3>1 DEF NodeFits
  <2> QED
    BY <2>1, <2>2
<1>9. Owned(v, g, {})
  <2>1. \A x \in DOMAIN g : g[x].lev # 0 => RowSet(v, x) = RowSet(t, x)
    BY <1>1, <1>4, <1>5 DEF RowSet
  <2> QED
    BY <1>1, <1>5, <2>1 DEF Owned
<1>10. Spare(v, DOMAIN g)
  <2>1. \A x \in DOMAIN t.node \ DOMAIN g : v.node[x] = t.node[x]
    BY <1>1, <1>4, <1>5
  <2>2. \A x \in DOMAIN g : v.node[x].next \in Links(t)
    BY <1>1, <1>7, LinkIs
  <2> QED
    BY ONLY <1>1, <1>5, <1>6, <2>1, <2>2, SpareStays
<1>11. Chained(v, g, MaxKey, NoNode)
  <2>1. \A x \in DOMAIN g : v.node[x].next = t.node[x].next
    BY <1>1, <1>7
  <2> QED
    BY <1>1, <2>1 DEF Chained
<1>12. \A x \in DOMAIN g : v.node[x].leaf <=> g[x].lev = 0
  BY <1>1, <1>7
<1>13. Good(v, g, h, {}, {})
  BY <1>1, <1>5, <1>6, <1>8, <1>9, <1>10, <1>11, <1>12 DEF Good
<1> QED
  BY <1>1, <1>4, <1>5, <1>13 DEF OnlyRow

(* Keys are numbers. *)
LEMMA KeysAreNat ==
    ASSUME NEW s, s \in Seq(Key)
    PROVE  s \in Seq(Nat)
<1>1. Key \subseteq Nat
  BY DEF Key
<1>2. /\ Len(s) \in Nat /\ DOMAIN s = 1 .. Len(s) /\ s = [i \in 1 .. Len(s) |-> s[i]]
      /\ \A i \in 1 .. Len(s) : s[i] \in Nat
  BY <1>1
<1> QED
  BY ONLY <1>2

-----------------------------------------------------------------------------
(* A node is split. *)

(* The two halves of a leaf with one row too many. *)
LeafHalved(at, row, left, right, m) ==
    /\ m \in Key /\ m \in Nat /\ at.lo < m /\ m < at.hi
    /\ LeafFits([lev |-> at.lev, lo |-> at.lo, hi |-> m], left, Key) /\ Len(left) = DEGREE /\ left \in Seq(Key)
    /\ LeafFits([lev |-> at.lev, lo |-> m, hi |-> at.hi], right, Key) /\ Len(right) = DEGREE + 1 /\ right \in Seq(Key)
    /\ ToSet(left) \cup ToSet(right) = ToSet(row)

(* The tree after the leaf b is split, its right half in node a. *)
SplitLeaf(t, b, a, left, right, m) ==
    [insert_handler(TakeNode(t), m) EXCEPT
       !.node[a] = BNode(TRUE, right, <<>>, t.node[b].next),
       !.node[b].row = left,
       !.node[b].next = a]

(* What SplitLeaf does, field by field. *)
LeafIsSplit(t, U, v, b, a, x, left, right, m) ==
    /\ Typed(v) /\ Spare(v, U \cup {a}) /\ a \notin U /\ a \in Nat
    /\ DOMAIN v.node = DOMAIN t.node \cup {a} /\ v.root_node = t.root_node
    /\ x \notin DOMAIN t.string /\ DOMAIN v.string = DOMAIN t.string \cup {x} /\ v.string[x] = m
    /\ \A s \in DOMAIN t.string : v.string[s] = t.string[s]
    /\ v.node[a].leaf = TRUE /\ v.node[a].row = right /\ v.node[a].child = <<>>
    /\ v.node[a].next = t.node[b].next
    /\ v.node[b].leaf = t.node[b].leaf /\ v.node[b].row = left /\ v.node[b].child = t.node[b].child
    /\ v.node[b].next = a
    /\ \A y \in DOMAIN t.node : y # a /\ y # b => v.node[y] = t.node[y]

(* The two halves of an overfull leaf. *)
LEMMA LeafHalves ==
    ASSUME NEW at, at \in Place, NEW row, LeafFits(at, row, Key), Len(row) = 2 * DEGREE + 1,
           NEW left, left = SubSeq(row, 1, DEGREE),
           NEW right, right = SubSeq(row, DEGREE + 1, 2 * DEGREE + 1),
           NEW m, m = right[1]
    PROVE  LeafHalved(at, row, left, right, m)
<1>1. DEGREE \in Nat /\ DEGREE >= 2
  BY TreeAssumption
<1>2. /\ row \in Seq(Key) /\ \A i \in 1 .. Len(row) : row[i] \in Key /\ row[i] \in Nat
      /\ \A i \in 1 .. Len(row) : at.lo <= row[i] /\ row[i] < at.hi
      /\ \A i, j \in 1 .. Len(row) : i < j => row[i] < row[j]
  BY LeafDistinct DEF LeafFits
<1> DEFINE D == DEGREE
           L == 2 * DEGREE + 1
<1>3. /\ D \in Nat /\ L \in Nat /\ D + 1 <= L /\ Len(row) = L /\ L - D = D + 1 /\ D >= 2
      /\ left = SubSeq(row, 1, D) /\ right = SubSeq(row, D + 1, L)
  BY <1>1
<1> HIDE DEF D, L
<1>4. /\ left \in Seq(Key) /\ Len(left) = D
      /\ \A x : x \in ToSet(left) <=> \E i \in 1 .. D : row[i] = x
  <2>1. 1 \in 1 .. Len(row) + 1 /\ D \in 0 .. Len(row) /\ 1 <= D + 1 /\ D - 1 + 1 = D /\ row \in Seq(Key)
    BY <1>2, <1>3
  <2> DEFINE e == 1
  <2>2. e \in 1 .. Len(row) + 1 /\ D \in 0 .. Len(row) /\ e <= D + 1 /\ row \in Seq(Key)
    BY ONLY <2>1
  <2>3. e = 1 /\ left = SubSeq(row, e, D) /\ D - e + 1 = D
    BY ONLY <1>3, <2>1
  <2> HIDE DEF e
  <2>4. /\ SubSeq(row, e, D) \in Seq(Key) /\ Len(SubSeq(row, e, D)) = D - e + 1
        /\ \A i \in 1 .. D - e + 1 : SubSeq(row, e, D)[i] = row[e + i - 1]
        /\ \A x : x \in ToSet(SubSeq(row, e, D)) <=> \E i \in e .. D : row[i] = x
    BY ONLY <2>2, SubSeqIs
  <2> QED
    BY ONLY <2>3, <2>4
<1> DEFINE c == D + 1
<1>5. /\ right \in Seq(Key) /\ Len(right) = D + 1 /\ right[1] = row[c]
      /\ \A x : x \in ToSet(right) <=> \E i \in c .. L : row[i] = x
  <2>1. c \in 1 .. Len(row) + 1 /\ L \in 0 .. Len(row) /\ c <= L + 1 /\ row \in Seq(Key)
    BY <1>2, <1>3
  <2>2. L - c + 1 = D + 1 /\ c + 1 - 1 = c /\ 1 \in 1 .. L - c + 1
    BY <1>3
  <2> HIDE DEF c
  <2>3. /\ SubSeq(row, c, L) \in Seq(Key) /\ Len(SubSeq(row, c, L)) = L - c + 1
        /\ \A i \in 1 .. L - c + 1 : SubSeq(row, c, L)[i] = row[c + i - 1]
        /\ \A x : x \in ToSet(SubSeq(row, c, L)) <=> \E i \in c .. L : row[i] = x
    BY ONLY <2>1, SubSeqIs
  <2>4. SubSeq(row, c, L)[1] = row[c]
    BY <2>2, <2>3
  <2>5. right = SubSeq(row, c, L)
    BY <1>3 DEF c
  <2> QED
    BY <2>2, <2>3, <2>4, <2>5
<1>6. c \in 1 .. L /\ 1 \in 1 .. L /\ c \in 2 .. L
  BY <1>3
<1>7. m = row[c] /\ row[1] < m /\ at.lo <= row[1] /\ m < at.hi /\ m \in Key /\ m \in Nat /\ row[1] \in Nat
  BY <1>2, <1>3, <1>5, <1>6
<1>8. at.lo \in Nat /\ at.hi \in Nat /\ at.lo < m
  <2>1. at.lo \in Nat /\ at.hi \in Nat
    BY DEF Place
  <2> QED
    BY ONLY <1>7, <2>1
<1>9. LeafFits([lev |-> at.lev, lo |-> at.lo, hi |-> m], left, Key)
  <2>1. \A i \in 1 .. D : at.lo <= row[i] /\ row[i] < m
    <3>1. \A i \in 1 .. D : i \in 1 .. L /\ i < c
      BY <1>3
    <3> QED
      BY <1>2, <1>3, <1>6, <1>7, <3>1
  <2>2. 1 \in 1 .. Len(row) + 1 /\ D \in 0 .. Len(row) /\ 1 <= D + 1
    BY <1>3
  <2> DEFINE at2 == [lev |-> at.lev, lo |-> at.lo, hi |-> m]
  <2>3. \A i \in 1 .. D : at2.lo <= row[i] /\ row[i] < at2.hi
    BY <2>1
  <2> HIDE DEF at2
  <2>4. LeafFits(at2, SubSeq(row, 1, D), Key)
    BY ONLY <2>2, <2>3, at \in Place, LeafFits(at, row, Key), LeafSub
  <2> QED
    BY <1>3, <2>4 DEF at2
<1>10. LeafFits([lev |-> at.lev, lo |-> m, hi |-> at.hi], right, Key)
  <2>1. \A i \in c .. L : m <= row[i] /\ row[i] < at.hi
    <3>1. \A i \in c .. L : i \in 1 .. L /\ (i = c \/ c < i)
      BY <1>3
    <3>2. \A i \in c .. L : row[i] \in Nat /\ row[i] < at.hi /\ (row[i] = m \/ m < row[i])
      BY <1>2, <1>3, <1>6, <1>7, <3>1
    <3> QED
      BY ONLY <1>7, <3>2
  <2>2. c \in 1 .. Len(row) + 1 /\ L \in 0 .. Len(row) /\ c <= L + 1
    BY <1>3
  <2> DEFINE at2 == [lev |-> at.lev, lo |-> m, hi |-> at.hi]
  <2>3. \A i \in c .. L : at2.lo <= row[i] /\ row[i] < at2.hi
    BY <2>1
  <2>5. right = SubSeq(row, c, L)
    BY <1>3
  <2> HIDE DEF at2, c
  <2>4. LeafFits(at2, SubSeq(row, c, L), Key)
    BY ONLY <2>2, <2>3, at \in Place, LeafFits(at, row, Key), LeafSub
  <2> QED
    BY <2>4, <2>5 DEF at2
<1>11. ToSet(left) \cup ToSet(right) = ToSet(row)
  <2>1. \A x : x \in ToSet(row) <=> \E i \in 1 .. L : row[i] = x
    BY <1>2, <1>3, ToSetIs
  <2>2. \A i : i \in 1 .. L <=> i \in 1 .. D \/ i \in c .. L
    BY <1>3
  <2> QED
    BY <1>4, <1>5, <2>1, <2>2
<1> QED
  BY ONLY <1>3, <1>4, <1>5, <1>7, <1>8, <1>9, <1>10, <1>11 DEF D, LeafHalved

(* The tree after a leaf split. *)
LEMMA LeafSplitsIs ==
    ASSUME NEW t, Typed(t), NEW U, Spare(t, U), NEW b, b \in U, b \in DOMAIN t.node,
           NEW a, a = NewNode(t), NEW x, x = NewString(t),
           NEW left, left \in Seq(Key), NEW right, right \in Seq(Key), NEW m, m \in Key,
           NEW v, v = SplitLeaf(t, b, a, left, right, m)
    PROVE  LeafIsSplit(t, U, v, b, a, x, left, right, m)
<1> DEFINE u == TakeNode(t)
           ss == [s \in DOMAIN u.string \cup {x} |-> IF s = x THEN m ELSE u.string[s]]
           ya == BNode(TRUE, right, <<>>, t.node[b].next)
           yb == BNode(t.node[b].leaf, left, t.node[b].child, a)
           nn == [u.node EXCEPT ![a] = ya, ![b] = yb]
<1>3. /\ Typed(u) /\ Spare(u, U \cup {a}) /\ a \notin U
      /\ DOMAIN u.node = DOMAIN t.node \cup {a}
      /\ \A y \in DOMAIN t.node : u.node[y] = t.node[y]
      /\ u.string = t.string /\ u.root_node = t.root_node
  <2>1. u = TakeNode(t) /\ Typed(t) /\ Spare(t, U) /\ a = NewNode(t)
    OBVIOUS
  <2> HIDE DEF u
  <2> QED
    BY ONLY <2>1, TakeIs
<1>4. x = NewString(u)
  BY ONLY <1>3, x = NewString(t) DEF NewString
<1>5. v = [root_node |-> u.root_node, free_node_head |-> u.free_node_head, length |-> u.length,
           node |-> nn, string |-> ss]
  <2>1. insert_handler(u, m) = [u EXCEPT !.string = ss]
    BY ONLY <1>4 DEF insert_handler
  <2>2. v = [[u EXCEPT !.string = ss] EXCEPT !.node[a] = ya, !.node[b].row = left, !.node[b].next = a]
    BY <2>1 DEF SplitLeaf
  <2>3. u = [root_node |-> u.root_node, free_node_head |-> u.free_node_head, length |-> u.length,
             node |-> u.node, string |-> u.string]
    BY ONLY <1>3, TypedIs
  <2>4. /\ u.node[b] = BNode(t.node[b].leaf, t.node[b].row, t.node[b].child, t.node[b].next)
        /\ b \in DOMAIN u.node /\ a # b /\ u.node \in [DOMAIN u.node -> Nodes]
    <3>1. b \in DOMAIN u.node /\ a # b
      BY ONLY <1>3, b \in U, b \in DOMAIN t.node
    <3>2. u.node \in [DOMAIN u.node -> Nodes]
      BY ONLY <1>3, TypedIs
    <3>3. t.node[b] = BNode(t.node[b].leaf, t.node[b].row, t.node[b].child, t.node[b].next)
      BY ONLY Typed(t), b \in DOMAIN t.node, NodeIs
    <3> QED
      BY ONLY <3>1, <3>2, <3>3, <1>3, b \in DOMAIN t.node
  <2>5. [[u.node[b] EXCEPT !.row = left] EXCEPT !.next = a] = yb
    <3>1. u.node[b] = BNode(t.node[b].leaf, t.node[b].row, t.node[b].child, t.node[b].next)
      BY ONLY <2>4
    <3> DEFINE q == [u.node[b] EXCEPT !.row = left]
    <3>2. q = BNode(t.node[b].leaf, left, t.node[b].child, t.node[b].next)
      BY ONLY <3>1 DEF BNode
    <3> HIDE DEF q
    <3>3. [q EXCEPT !.next = a] = yb
      BY ONLY <3>2 DEF BNode, yb
    <3> QED
      BY ONLY <3>3 DEF q
  <2> HIDE DEF ss, ya, yb, u
  <2>6. [u.node EXCEPT ![a] = ya, ![b] = [[u.node[b] EXCEPT !.row = left] EXCEPT !.next = a]] = nn
    BY ONLY <2>5 DEF nn
  <2>7. v = [root_node |-> u.root_node, free_node_head |-> u.free_node_head, length |-> u.length,
             node |-> nn, string |-> ss]
    BY ONLY <2>2, <2>3, <2>4, <2>6
  <2> QED
    BY <2>7
<1> HIDE DEF u
<1>6. /\ x \in Nat /\ x \notin DOMAIN u.string
      /\ ss \in [DOMAIN ss -> Key] /\ DOMAIN ss = DOMAIN u.string \cup {x}
      /\ DOMAIN ss \subseteq Nat /\ IsFiniteSet(DOMAIN ss)
      /\ ss[x] = m /\ \A s \in DOMAIN u.string : ss[s] = u.string[s]
  <2>1. ss = [s \in DOMAIN u.string \cup {x} |-> IF s = x THEN m ELSE u.string[s]]
    OBVIOUS
  <2> HIDE DEF ss
  <2>2. /\ u.string \in [DOMAIN u.string -> Key] /\ DOMAIN u.string \subseteq Nat /\ IsFiniteSet(DOMAIN u.string)
    BY ONLY <1>3, TypedIs
  <2>3. x \in Nat /\ x \notin DOMAIN u.string
    BY ONLY <1>3, <1>4, NewStringIs
  <2> QED
    BY ONLY <2>1, <2>2, <2>3, m \in Key, InsertIs
<1> HIDE DEF ss
<1>7. /\ ya \in Nodes /\ ya.row = right /\ ya.child = <<>> /\ ya.next = t.node[b].next /\ ya.leaf = TRUE
      /\ yb \in Nodes /\ yb.row = left /\ yb.child = t.node[b].child /\ yb.next = a /\ yb.leaf = t.node[b].leaf
      /\ a \in Nat
  <2>1. /\ t.node[b].leaf \in BOOLEAN /\ t.node[b].next \in Int /\ t.node[b].child \in Seq(Nat)
    BY ONLY Typed(t), b \in DOMAIN t.node, NodeIs
  <2>2. Key \subseteq Nat
    BY ONLY TreeAssumption DEF Key
  <2>3. a \in Nat
    BY ONLY <1>3, TypedIs
  <2>5. left \in Seq(Nat) /\ right \in Seq(Nat)
    BY ONLY left \in Seq(Key), right \in Seq(Key), KeysAreNat
  <2>4. <<>> \in Seq(Nat)
    OBVIOUS
  <2> QED
    BY ONLY <2>1, <2>3, <2>4, <2>5 DEF BNode, Nodes, ya, yb
<1> HIDE DEF ya, yb
<1>8. /\ nn \in [DOMAIN u.node -> Nodes] /\ nn[a] = ya /\ nn[b] = yb /\ a # b
      /\ \A y \in DOMAIN t.node : y # a /\ y # b => nn[y] = t.node[y]
  <2>1. u.node \in [DOMAIN u.node -> Nodes]
    BY ONLY <1>3, TypedIs
  <2>2. a \in DOMAIN u.node /\ b \in DOMAIN u.node /\ a # b
    BY ONLY <1>3, b \in U, b \in DOMAIN t.node
  <2> QED
    BY ONLY <1>3, <1>7, <2>1, <2>2 DEF nn
<1> HIDE DEF nn
<1>9. /\ Typed(v) /\ v.node = nn /\ v.string = ss /\ v.root_node = t.root_node
      /\ v.free_node_head = u.free_node_head
  <2>1. Typed(u) /\ nn \in [DOMAIN u.node -> Nodes] /\ ss \in [DOMAIN ss -> Key] /\ DOMAIN ss \subseteq Nat /\ IsFiniteSet(DOMAIN ss)
    BY ONLY <1>3, <1>6, <1>8
  <2>2. /\ Typed(v) /\ v.node = nn /\ v.string = ss /\ v.root_node = u.root_node
        /\ v.free_node_head = u.free_node_head
    BY ONLY <1>5, <2>1, SetIs
  <2> QED
    BY ONLY <1>3, <2>2
<1>10. DOMAIN v.node = DOMAIN t.node \cup {a}
  BY ONLY <1>3, <1>8, <1>9
<1>16. Spare(v, U \cup {a})
  <2>1. DOMAIN v.node = DOMAIN u.node /\ v.free_node_head = u.free_node_head
    BY ONLY <1>3, <1>9, <1>10
  <2>2. \A y \in DOMAIN u.node \ (U \cup {a}) : v.node[y] = u.node[y]
    BY ONLY <1>3, <1>8, <1>9, b \in U
  <2>4. \A y \in U \cup {a} : v.node[y].next \in Links(u)
    <3>1. \A y \in DOMAIN u.node : u.node[y].next \in Links(u)
      BY ONLY <1>3, LinkIs
    <3>2. U \cup {a} \subseteq DOMAIN u.node
      BY ONLY <1>3 DEF Spare, Listed
    <3>3. u.node[b].next = t.node[b].next /\ a \in Links(u)
      BY ONLY <1>3, b \in DOMAIN t.node DEF Links
    <3>4. v.node[a].next \in Links(u) /\ v.node[b].next \in Links(u)
      BY ONLY <1>3, <1>7, <1>8, <1>9, <3>1, <3>3, b \in DOMAIN t.node
    <3>5. \A y \in DOMAIN t.node : y # a /\ y # b => v.node[y].next = u.node[y].next
      BY ONLY <1>3, <1>8, <1>9
    <3> QED
      BY ONLY <1>3, <3>1, <3>2, <3>4, <3>5
  <2>3. Spare(u, U \cup {a})
    BY <1>3
  <2> QED
    BY ONLY <2>1, <2>2, <2>3, <2>4, SpareStays
<1>20. v.node[a] = ya /\ v.node[b] = yb /\ \A y \in DOMAIN t.node : y # a /\ y # b => v.node[y] = t.node[y]
  BY ONLY <1>8, <1>9
<1>21. /\ x \notin DOMAIN t.string /\ DOMAIN v.string = DOMAIN t.string \cup {x} /\ v.string[x] = m
       /\ \A s \in DOMAIN t.string : v.string[s] = t.string[s]
  BY ONLY <1>3, <1>6, <1>9
<1> QED
  BY ONLY <1>3, <1>7, <1>9, <1>10, <1>16, <1>20, <1>21 DEF LeafIsSplit

(* A split of a leaf leaves the new bound to be stored above. *)
LEMMA LeafSplitsGood ==
    ASSUME NEW t, NEW g, NEW h, Good(t, g, h, {}, {}), NEW b, b \in DOMAIN g, g[b].lev = 0,
           NEW k, k \in Nat, g[b].lo <= k, k < g[b].hi, NEW a, NEW x, NEW left, NEW right,
           NEW m, NEW row, LeafHalved(g[b], row, left, right, m),
           NEW v, LeafIsSplit(t, DOMAIN g, v, b, a, x, left, right, m),
           NEW g2, g2 = SplitPlace(g, b, a, m)
    PROVE  Good(v, g2, h, {y \in DOMAIN g : Covers(g, y, 1, k)}, {x})
<1>0. /\ m \in Nat /\ g[b].lo < m /\ m < g[b].hi
      /\ LeafFits([lev |-> g[b].lev, lo |-> g[b].lo, hi |-> m], left, Key)
      /\ LeafFits([lev |-> g[b].lev, lo |-> m, hi |-> g[b].hi], right, Key)
      /\ Typed(v) /\ Spare(v, DOMAIN g \cup {a}) /\ a \notin DOMAIN g
      /\ DOMAIN v.node = DOMAIN t.node \cup {a} /\ v.root_node = t.root_node
      /\ x \notin DOMAIN t.string /\ DOMAIN v.string = DOMAIN t.string \cup {x} /\ v.string[x] = m
      /\ \A s \in DOMAIN t.string : v.string[s] = t.string[s]
      /\ v.node[a].leaf = TRUE /\ v.node[a].row = right /\ v.node[a].child = <<>>
      /\ v.node[a].next = t.node[b].next
      /\ v.node[b].leaf = t.node[b].leaf /\ v.node[b].row = left /\ v.node[b].child = t.node[b].child
      /\ v.node[b].next = a
      /\ \A y \in DOMAIN t.node : y # a /\ y # b => v.node[y] = t.node[y]
  BY ONLY LeafHalved(g[b], row, left, right, m), LeafIsSplit(t, DOMAIN g, v, b, a, x, left, right, m)
     DEF LeafHalved, LeafIsSplit
<1> USE <1>0
<1>1. /\ Typed(t) /\ b \in DOMAIN t.node /\ DOMAIN g \subseteq DOMAIN t.node /\ Tiled(g, h, MaxKey)
      /\ t.root_node \in DOMAIN g /\ g[t.root_node].lev = h
      /\ \A y \in DOMAIN g : t.node[y].leaf <=> g[y].lev = 0
      /\ \A y \in DOMAIN g : NodeFits(t, g, y)
      /\ Owned(t, g, {}) /\ Spare(t, DOMAIN g) /\ Chained(t, g, MaxKey, NoNode)
  BY DEF Good
<1>11. /\ DOMAIN g2 = DOMAIN g \cup {a}
       /\ g2[a] = [lev |-> g[b].lev, lo |-> m, hi |-> g[b].hi]
       /\ g2[b] = [lev |-> g[b].lev, lo |-> g[b].lo, hi |-> m]
       /\ \A y \in DOMAIN g : y # b => g2[y] = g[y]
  BY Zenon DEF SplitPlace
<1>12. Tiled(g2, h, MaxKey)
  BY <1>1, TileSplit
<1>13. /\ g2[a].lev = 0 /\ g2[b].lev = 0
       /\ \A y \in DOMAIN g : g2[y].lev = g[y].lev
  BY <1>11
<1> DEFINE X == {y \in DOMAIN g : Covers(g, y, 1, k)}
<1>14. ASSUME NEW y \in DOMAIN g2 \ X PROVE NodeFits(v, g2, y)
  <2>1. CASE y = a
    BY <1>11, <1>13, <2>1 DEF NodeFits
  <2>2. CASE y = b
    <3>1. t.node[b].child = <<>>
      BY <1>1 DEF NodeFits
    <3> QED
      BY <1>11, <1>13, <2>2, <3>1 DEF NodeFits
  <2>3. CASE y # a /\ y # b
    <3>1. y \in DOMAIN g /\ NodeFits(t, g, y) /\ v.node[y] = t.node[y] /\ g2[y] = g[y]
      BY <1>1, <1>11, <2>3
    <3>2. ASSUME g[y].lev # 0, NEW c \in ToSet(t.node[y].child) PROVE c \in DOMAIN g /\ c # b
      <4>1. InnerFits(t.string, g, g[y], t.node[y].row, t.node[y].child)
        BY <3>1, <3>2 DEF NodeFits
      <4>2. /\ g[y] \in Place /\ g[y].lo < g[y].hi /\ g[y].lo \in Nat /\ g[y].hi \in Nat /\ g[y].lev \in Nat
            /\ g[b].lo \in Nat /\ g[b].hi \in Nat
        BY <1>1, <3>1, TiledIs
      <4>3. \A d \in ToSet(t.node[y].child) :
              /\ d \in DOMAIN g /\ g[d].lev + 1 = g[y].lev
              /\ g[y].lo <= g[d].lo /\ g[d].lo < g[d].hi /\ g[d].hi <= g[y].hi
        <5>1. Tiled(g, h, MaxKey) /\ g[y] \in Place /\ g[y].lo < g[y].hi
          BY <1>1, <4>2
        <5> QED
          BY ONLY <4>1, <5>1, InnerIs
      <4>4. ASSUME c = b PROVE FALSE
        <5>1. g[y].lev = 1 /\ g[y].lo <= k /\ k < g[y].hi
          BY <3>2, <4>2, <4>3, <4>4
        <5> QED
          BY <3>1, <5>1 DEF Covers
      <4> QED
        BY <3>2, <4>3, <4>4
    <3>3. g[y].lev # 0 => /\ \A s \in RowSet(t, y) : s \in DOMAIN v.string /\ v.string[s] = t.string[s]
                          /\ \A c \in ToSet(t.node[y].child) : c \in DOMAIN g2 /\ g2[c] = g[c]
      <4>1. SUFFICES ASSUME g[y].lev # 0
                     PROVE  /\ \A s \in RowSet(t, y) : s \in DOMAIN v.string /\ v.string[s] = t.string[s]
                            /\ \A c \in ToSet(t.node[y].child) : c \in DOMAIN g2 /\ g2[c] = g[c]
        OBVIOUS
      <4>2. RowSet(t, y) \subseteq DOMAIN t.string
        BY <1>1, <3>1, <4>1 DEF Owned
      <4> QED
        BY <1>11, <3>2, <4>1, <4>2
    <3> QED
      BY <3>1, <3>3, NodeStays
  <2> QED
    BY <2>1, <2>2, <2>3
<1>15. Owned(v, g2, {x})
  <2>1. \A y : IsInner(g2, y) <=> IsInner(g, y)
    BY <1>11, <1>13 DEF IsInner
  <2>2. \A y : IsInner(g, y) => RowSet(v, y) = RowSet(t, y)
    BY <1>1 DEF RowSet, IsInner
  <2>3. DOMAIN v.string = DOMAIN t.string \cup {x} /\ x \notin DOMAIN t.string
    OBVIOUS
  <2> QED
    BY <1>1, <2>1, <2>2, <2>3 DEF Owned, IsInner
<1>16. Spare(v, DOMAIN g2)
  BY <1>11
<1>17. Chained(v, g2, MaxKey, NoNode)
  <2>1. /\ v.node[b].next = a /\ v.node[a].next = t.node[b].next
        /\ \A y \in DOMAIN g : y # b => v.node[y].next = t.node[y].next
    BY <1>1
  <2>2. Tiled(g, h, MaxKey) /\ Chained(t, g, MaxKey, NoNode) /\ b \in DOMAIN g /\ g[b].lev = 0 /\ a \notin DOMAIN g
    BY <1>1
  <2> QED
    BY ONLY <2>1, <2>2, g2 = SplitPlace(g, b, a, m), ChainSplit
<1>18. \A y \in DOMAIN g2 : v.node[y].leaf <=> g2[y].lev = 0
  BY <1>1, <1>11, <1>13
<1>19. Good(v, g2, h, X, {x})
  BY <1>1, <1>11, <1>12, <1>13, <1>14, <1>15, <1>16, <1>17, <1>18 DEF Good
<1> QED
  BY <1>19

(* A change to the nodes of the tree and to strings only. *)
LEMMA NodesSet ==
    ASSUME NEW t, Typed(t), NEW U, Spare(t, U), NEW nn, nn \in [DOMAIN t.node -> Nodes],
           \A y \in DOMAIN t.node : y \notin U => nn[y] = t.node[y],
           \A y \in U : nn[y].next \in Links(t),
           NEW ss, ss \in [DOMAIN ss -> Key], DOMAIN ss \subseteq Nat, IsFiniteSet(DOMAIN ss),
           NEW v, v = [root_node |-> t.root_node, free_node_head |-> t.free_node_head, length |-> t.length,
                       node |-> nn, string |-> ss]
    PROVE  /\ Typed(v) /\ Spare(v, U) /\ v.node = nn /\ v.string = ss /\ v.root_node = t.root_node
           /\ DOMAIN v.node = DOMAIN t.node
<1>1. /\ Typed(v) /\ v.node = nn /\ v.string = ss /\ v.root_node = t.root_node
      /\ v.free_node_head = t.free_node_head
  BY SetIs
<1>2. DOMAIN v.node = DOMAIN t.node
  BY <1>1
<1>3. /\ \A y \in DOMAIN t.node \ U : v.node[y] = t.node[y]
      /\ \A y \in U : v.node[y].next \in Links(t)
  BY <1>1
<1>4. Spare(v, U)
  BY ONLY <1>1, <1>2, <1>3, Spare(t, U), SpareStays
<1> QED
  BY ONLY <1>1, <1>2, <1>4

(* The fields of a new node. *)
LEMMA BNodeIs ==
    ASSUME NEW f \in BOOLEAN, NEW w \in Seq(Nat), NEW c \in Seq(Nat), NEW z \in Int,
           NEW y, y = BNode(f, w, c, z)
    PROVE  y \in Nodes /\ y.leaf = f /\ y.row = w /\ y.child = c /\ y.next = z
  BY DEF BNode, Nodes

(* Only the rows and children of node b differ between t and v. *)
OnlyInner(t, U, v, b, row, child) ==
    /\ Typed(v) /\ Spare(v, U) /\ DOMAIN v.node = DOMAIN t.node
    /\ v.root_node = t.root_node /\ v.string = t.string
    /\ v.node[b].leaf = t.node[b].leaf /\ v.node[b].row = row /\ v.node[b].child = child
    /\ v.node[b].next = t.node[b].next
    /\ \A y \in DOMAIN t.node : y # b => v.node[y] = t.node[y]

(* Assigning rows and children to an inner node changes only it. *)
LEMMA InnerPutIs ==
    ASSUME NEW t, Typed(t), NEW U, Spare(t, U), NEW b, b \in U, b \in DOMAIN t.node,
           NEW row, row \in Seq(Nat), NEW child, child \in Seq(Nat),
           NEW v, v = WithInner(t, b, row, child)
    PROVE  OnlyInner(t, U, v, b, row, child)
<1> DEFINE yb == BNode(t.node[b].leaf, row, child, t.node[b].next)
           nn == [t.node EXCEPT ![b] = yb]
<1>1. v = [root_node |-> t.root_node, free_node_head |-> t.free_node_head, length |-> t.length,
           node |-> nn, string |-> t.string]
  <2>1. t = [root_node |-> t.root_node, free_node_head |-> t.free_node_head, length |-> t.length,
             node |-> t.node, string |-> t.string]
    BY ONLY Typed(t), TypedIs
  <2>2. t.node \in [DOMAIN t.node -> Nodes]
    BY ONLY Typed(t), TypedIs
  <2>3. t.node[b] = BNode(t.node[b].leaf, t.node[b].row, t.node[b].child, t.node[b].next)
    BY ONLY Typed(t), b \in DOMAIN t.node, NodeIs
  <2> DEFINE q == [t.node[b] EXCEPT !.row = row]
  <2>4. q = BNode(t.node[b].leaf, row, t.node[b].child, t.node[b].next)
    BY ONLY <2>3 DEF BNode
  <2> HIDE DEF q
  <2>5. [q EXCEPT !.child = child] = yb
    BY ONLY <2>4 DEF BNode, yb
  <2> HIDE DEF yb
  <2>6. [t.node EXCEPT ![b] = [[t.node[b] EXCEPT !.row = row] EXCEPT !.child = child]] = nn
    BY ONLY <2>5 DEF nn, q
  <2>7. v = [t EXCEPT !.node[b].row = row, !.node[b].child = child] /\ b \in DOMAIN t.node
    BY DEF WithInner
  <2> QED
    BY ONLY <2>1, <2>2, <2>6, <2>7
<1>2. yb \in Nodes /\ yb.leaf = t.node[b].leaf /\ yb.row = row /\ yb.child = child /\ yb.next = t.node[b].next
  <2>1. t.node[b].leaf \in BOOLEAN /\ t.node[b].next \in Int
    BY ONLY Typed(t), b \in DOMAIN t.node, NodeIs
  <2> QED
    BY ONLY <2>1, row \in Seq(Nat), child \in Seq(Nat), BNodeIs
<1> HIDE DEF yb
<1>3. /\ nn \in [DOMAIN t.node -> Nodes] /\ nn[b] = yb /\ \A y \in DOMAIN t.node : y # b => nn[y] = t.node[y]
  <2>1. t.node \in [DOMAIN t.node -> Nodes]
    BY ONLY Typed(t), TypedIs
  <2> QED
    BY ONLY <1>2, <2>1, b \in DOMAIN t.node DEF nn
<1> HIDE DEF nn
<1>4. /\ Typed(v) /\ Spare(v, U) /\ v.node = nn /\ v.string = t.string /\ v.root_node = t.root_node
      /\ DOMAIN v.node = DOMAIN t.node
  <2>1. t.string \in [DOMAIN t.string -> Key] /\ DOMAIN t.string \subseteq Nat /\ IsFiniteSet(DOMAIN t.string)
    BY ONLY Typed(t), TypedIs
  <2>2. nn \in [DOMAIN t.node -> Nodes] /\ \A y \in DOMAIN t.node : y \notin U => nn[y] = t.node[y]
    BY <1>3
  <2>3. \A y \in U : nn[y].next \in Links(t)
    <3>1. \A y \in DOMAIN t.node : t.node[y].next \in Links(t)
      BY ONLY Spare(t, U), LinkIs
    <3>2. U \subseteq DOMAIN t.node
      BY ONLY Spare(t, U) DEF Spare, Listed
    <3> QED
      BY ONLY <1>2, <1>3, <3>1, <3>2, b \in DOMAIN t.node
  <2> QED
    BY ONLY <1>1, <2>1, <2>2, <2>3, Typed(t), Spare(t, U), NodesSet
<1> QED
  BY ONLY <1>2, <1>3, <1>4 DEF OnlyInner

(* An inner node that takes the pending row makes the tree good. *)
LEMMA InnerPutGood ==
    ASSUME NEW t, NEW g, NEW h, NEW p, p \in DOMAIN g, NEW s, Good(t, g, h, {p}, {s}), g[p].lev # 0,
           NEW row, NEW child, InnerFits(t.string, g, g[p], row, child), ToSet(row) = RowSet(t, p) \cup {s},
           NEW v, OnlyInner(t, DOMAIN g, v, p, row, child)
    PROVE  Good(v, g, h, {}, {})
<1>0. /\ Typed(v) /\ Spare(v, DOMAIN g) /\ DOMAIN v.node = DOMAIN t.node
      /\ v.root_node = t.root_node /\ v.string = t.string
      /\ v.node[p].leaf = t.node[p].leaf /\ v.node[p].row = row /\ v.node[p].child = child
      /\ v.node[p].next = t.node[p].next
      /\ \A y \in DOMAIN t.node : y # p => v.node[y] = t.node[y]
  BY ONLY OnlyInner(t, DOMAIN g, v, p, row, child) DEF OnlyInner
<1> USE <1>0
<1>1. /\ Typed(t) /\ DOMAIN g \subseteq DOMAIN t.node /\ Tiled(g, h, MaxKey)
      /\ t.root_node \in DOMAIN g /\ g[t.root_node].lev = h
      /\ \A y \in DOMAIN g : t.node[y].leaf <=> g[y].lev = 0
      /\ \A y \in DOMAIN g : y # p => NodeFits(t, g, y)
      /\ Owned(t, g, {s}) /\ Chained(t, g, MaxKey, NoNode)
  BY DEF Good
<1>2. \A y \in DOMAIN t.node : v.node[y].next = t.node[y].next /\ v.node[y].leaf = t.node[y].leaf
  BY <1>1
<1>3. ASSUME NEW y \in DOMAIN g PROVE NodeFits(v, g, y)
  <2>1. CASE y = p
    BY <2>1 DEF NodeFits
  <2>2. CASE y # p
    <3>1. v.node[y] = t.node[y]
      BY <1>1, <2>2
    <3> QED
      BY <1>1, <2>2, <3>1 DEF NodeFits
  <2> QED
    BY <2>1, <2>2
<1>4. Owned(v, g, {})
  <2> DEFINE W == RowSet(t, p) \cup {s}
  <2>1. \A y : IsInner(g, y) /\ y # p => RowSet(v, y) = RowSet(t, y)
    BY <1>1 DEF RowSet, IsInner
  <2>2. RowSet(v, p) = W
    BY DEF RowSet
  <2>3. W \subseteq DOMAIN t.string
    BY <1>1 DEF Owned
  <2>4. IsInner(g, p)
    BY DEF IsInner
  <2> HIDE DEF W
  <2>5. \A z : z \in W <=> z \in {s} \/ z \in RowSet(t, p)
    BY DEF W
  <2> QED
    BY ONLY <1>1, <2>1, <2>2, <2>3, <2>4, <2>5, v.string = t.string DEF Owned, IsInner
<1>5. Chained(v, g, MaxKey, NoNode)
  BY <1>1, <1>2 DEF Chained
<1>6. \A y \in DOMAIN g : v.node[y].leaf <=> g[y].lev = 0
  BY <1>1, <1>2
<1> QED
  BY <1>1, <1>3, <1>4, <1>5, <1>6 DEF Good

(* The two halves of an inner node with one row too many, whose middle row *)
(* w goes up.                                                              *)
InnerHalved(str, g, at, row, left, lefts, right, rights, w, m) ==
    /\ w \in ToSet(row) /\ w \in DOMAIN str /\ m \in Nat /\ at.lo < m /\ m < at.hi
    /\ InnerFits(str, g, [lev |-> at.lev, lo |-> at.lo, hi |-> m], left, lefts)
    /\ InnerFits(str, g, [lev |-> at.lev, lo |-> m, hi |-> at.hi], right, rights)
    /\ Len(left) = DEGREE /\ Len(right) = DEGREE
    /\ ToSet(left) \cap ToSet(right) = {} /\ w \notin ToSet(left) /\ w \notin ToSet(right)
    /\ ToSet(row) = ToSet(left) \cup ToSet(right) \cup {w}

(* The two halves of an overfull inner node. *)
LEMMA InnerHalves ==
    ASSUME NEW str, NEW g, NEW h, Tiled(g, h, MaxKey), NEW at \in Place, at.lo < at.hi, NEW row, NEW child,
           InnerFits(str, g, at, row, child), Len(row) = 2 * DEGREE + 1, str \in [DOMAIN str -> Key],
           NEW left, left = SubSeq(row, 1, DEGREE), NEW lefts, lefts = SubSeq(child, 1, DEGREE + 1),
           NEW right, right = SubSeq(row, DEGREE + 2, 2 * DEGREE + 1),
           NEW rights, rights = SubSeq(child, DEGREE + 2, 2 * DEGREE + 2),
           NEW w, w = row[DEGREE + 1], NEW m, m = str[w]
    PROVE  InnerHalved(str, g, at, row, left, lefts, right, rights, w, m)
<1> DEFINE D == DEGREE
           L == 2 * DEGREE + 1
           c == D + 1
           e == D + 2
           M == L + 1
<1>1. /\ D \in Nat /\ D >= 2 /\ L \in Nat /\ c + D = L /\ Len(row) = L /\ c = D + 1 /\ e = c + 1 /\ M = L + 1
      /\ left = SubSeq(row, 1, D) /\ lefts = SubSeq(child, 1, c)
      /\ right = SubSeq(row, e, L) /\ rights = SubSeq(child, e, M) /\ w = row[c]
  <2>1. D \in Nat /\ D >= 2 /\ L \in Nat /\ c + D = L /\ e = c + 1 /\ M = L + 1 /\ M = 2 * DEGREE + 2
    BY ONLY TreeAssumption DEF D, L, c, e, M
  <2>2. left = SubSeq(row, 1, D) /\ lefts = SubSeq(child, 1, c) /\ w = row[c] /\ c = D + 1
    BY DEF D, c
  <2>3. Len(row) = L /\ right = SubSeq(row, e, L)
    BY DEF L, e
  <2>4. rights = SubSeq(child, e, M)
    <3> HIDE DEF M
    <3> QED
      BY ONLY <2>1, rights = SubSeq(child, DEGREE + 2, 2 * DEGREE + 2) DEF e
  <2> HIDE DEF D, L, c, e, M
  <2> QED
    BY ONLY <2>1, <2>2, <2>3, <2>4
<1> HIDE DEF D, L, c, e, M
<1>2. /\ row \in Seq(DOMAIN str) /\ child \in Seq(DOMAIN g) /\ IsInjective(row)
      /\ Len(child) = Len(row) + 1
      /\ \A i \in 1 .. Len(row) : row[i] \in ToSet(row)
      /\ \A i \in 1 .. Len(row) : at.lo < str[row[i]] /\ str[row[i]] < at.hi
  <2>1. Tiled(g, h, MaxKey) /\ at \in Place /\ at.lo < at.hi /\ InnerFits(str, g, at, row, child)
    OBVIOUS
  <2>2. row \in Seq(DOMAIN str) /\ child \in Seq(DOMAIN g) /\ Len(child) = Len(row) + 1
    BY ONLY <2>1 DEF InnerFits
  <2>5. IsInjective(row)
    BY ONLY <2>1, InnerIs
  <2>3. \A i \in 1 .. Len(row) : row[i] \in ToSet(row)
    BY ONLY <2>1, InnerIs
  <2>4. \A i \in 1 .. Len(row) : at.lo < str[row[i]] /\ str[row[i]] < at.hi
    BY ONLY <2>1, InnerIs
  <2> QED
    BY ONLY <2>2, <2>3, <2>4, <2>5
<1>3. /\ c \in 1 .. L /\ c \in 1 .. Len(child) /\ 1 \in 1 .. Len(child) /\ 1 <= c /\ c - 1 = D
      /\ e \in 1 .. Len(child) /\ M \in 1 .. Len(child) /\ e <= M /\ M - 1 = L /\ Len(child) = M
  BY ONLY <1>1, <1>2
<1>4. /\ \A i \in 1 .. Len(row) : g[child[i]].hi = str[row[i]] /\ g[child[i + 1]].lo = str[row[i]]
      /\ g[child[1]].lo = at.lo /\ g[child[Len(child)]].hi = at.hi
  BY DEF InnerFits
<1>5. /\ w \in ToSet(row) /\ w \in DOMAIN str /\ m \in Nat /\ at.lo < m /\ m < at.hi
      /\ g[child[c]].hi = m /\ g[child[e]].lo = m
  <2>1. w \in ToSet(row) /\ w \in DOMAIN str /\ at.lo < m /\ m < at.hi
    <3>1. c \in 1 .. Len(row) /\ w = row[c]
      BY ONLY <1>1, <1>3
    <3>2. w \in DOMAIN str
      BY ONLY <1>2, <3>1
    <3> QED
      BY ONLY <1>2, <3>1, <3>2, m = str[w]
  <2>2. m \in Nat
    <3>1. m \in Key
      BY ONLY <2>1, m = str[w], str \in [DOMAIN str -> Key]
    <3> QED
      BY ONLY <3>1, TreeAssumption DEF Key
  <2>3. g[child[c]].hi = m /\ g[child[e]].lo = m
    BY <1>1, <1>3, <1>4
  <2> QED
    BY <2>1, <2>2, <2>3
<1>6. InnerFits(str, g, [lev |-> at.lev, lo |-> at.lo, hi |-> m], left, lefts)
  <2>1. InnerFits(str, g, [lev |-> at.lev, lo |-> g[child[1]].lo, hi |-> g[child[c]].hi],
                  SubSeq(row, 1, c - 1), SubSeq(child, 1, c))
    BY ONLY <1>3, InnerFits(str, g, at, row, child), FitsSub
  <2> QED
    BY ONLY <1>1, <1>3, <1>4, <1>5, <2>1
<1>7. InnerFits(str, g, [lev |-> at.lev, lo |-> m, hi |-> at.hi], right, rights)
  <2>1. InnerFits(str, g, [lev |-> at.lev, lo |-> g[child[e]].lo, hi |-> g[child[M]].hi],
                  SubSeq(row, e, M - 1), SubSeq(child, e, M))
    BY ONLY <1>3, InnerFits(str, g, at, row, child), FitsSub
  <2> QED
    BY ONLY <1>1, <1>3, <1>4, <1>5, <2>1
<1>8. /\ Len(left) = D /\ \A x : x \in ToSet(left) <=> \E i \in 1 .. D : row[i] = x
  <2>1. 1 \in 1 .. Len(row) + 1 /\ D \in 0 .. Len(row) /\ 1 <= D + 1 /\ D - 1 + 1 = D /\ row \in Seq(DOMAIN str)
    BY ONLY <1>1, <1>2
  <2>2. /\ Len(SubSeq(row, 1, D)) = D - 1 + 1
        /\ \A x : x \in ToSet(SubSeq(row, 1, D)) <=> \E i \in 1 .. D : row[i] = x
    BY ONLY <2>1, SubSeqIs
  <2> QED
    BY ONLY <1>1, <2>1, <2>2
<1>9. /\ Len(right) = D /\ \A x : x \in ToSet(right) <=> \E i \in e .. L : row[i] = x
  <2>1. e \in 1 .. Len(row) + 1 /\ L \in 0 .. Len(row) /\ e <= L + 1 /\ L - e + 1 = D /\ row \in Seq(DOMAIN str)
    BY ONLY <1>1, <1>2
  <2>2. /\ Len(SubSeq(row, e, L)) = L - e + 1
        /\ \A x : x \in ToSet(SubSeq(row, e, L)) <=> \E i \in e .. L : row[i] = x
    BY ONLY <2>1, SubSeqIs
  <2> QED
    BY ONLY <1>1, <2>1, <2>2
<1>10. \A x : x \in ToSet(row) <=> \E i \in 1 .. L : row[i] = x
  <2>1. row \in Seq(DOMAIN str)
    BY ONLY <1>2
  <2>2. \A x : x \in ToSet(row) <=> \E i \in 1 .. Len(row) : row[i] = x
    BY ONLY <2>1, ToSetIs
  <2>3. Len(row) = L
    BY ONLY <1>1
  <2> QED
    BY ONLY <2>2, <2>3
<1>11. \A i, j \in 1 .. L : row[i] = row[j] => i = j
  <2>1. DOMAIN row = 1 .. L
    BY ONLY <1>1, <1>2
  <2> QED
    BY ONLY <1>2, <2>1 DEF IsInjective
<1>12. /\ \A i : i \in 1 .. L <=> i \in 1 .. D \/ i = c \/ i \in e .. L
       /\ \A i \in 1 .. D, j \in e .. L : i # j
       /\ c \notin 1 .. D /\ c \notin e .. L
  BY ONLY <1>1
<1>13. /\ ToSet(left) \cap ToSet(right) = {} /\ w \notin ToSet(left) /\ w \notin ToSet(right)
       /\ ToSet(row) = ToSet(left) \cup ToSet(right) \cup {w}
  <2>1. w = row[c]
    BY ONLY <1>1
  <2>2. \A x : x \in ToSet(left) <=> \E i \in 1 .. D : row[i] = x
    BY ONLY <1>8
  <2>3. \A x : x \in ToSet(right) <=> \E i \in e .. L : row[i] = x
    BY ONLY <1>9
  <2>4. ToSet(left) \cap ToSet(right) = {} /\ w \notin ToSet(left) /\ w \notin ToSet(right)
    BY ONLY <2>1, <2>2, <2>3, <1>11, <1>12
  <2>5. \A x : x \in ToSet(row) <=> x \in ToSet(left) \/ x \in ToSet(right) \/ x = w
    BY ONLY <2>1, <2>2, <2>3, <1>10, <1>12
  <2> QED
    BY ONLY <2>4, <2>5
<1> QED
  BY ONLY <1>5, <1>6, <1>7, <1>8, <1>9, <1>13 DEF D, InnerHalved

(* v is t with another node at b. *)
OnNode(t, v, U, b, node) ==
    /\ Typed(v) /\ Spare(v, U) /\ DOMAIN v.node = DOMAIN t.node
    /\ v.root_node = t.root_node /\ v.string = t.string
    /\ v.node[b] = node /\ \A y \in DOMAIN t.node : y # b => v.node[y] = t.node[y]

(* One field after the other. *)
LEMMA NodeSetIs ==
    ASSUME NEW t, Typed(t), NEW U, Spare(t, U), NEW b \in U, b \in DOMAIN t.node, NEW y \in Nodes, y.next \in Links(t),
           NEW v, v = [t EXCEPT !.node[b] = y]
    PROVE  OnNode(t, v, U, b, y)
<1> DEFINE nn == [t.node EXCEPT ![b] = y]
<1>1. v = [root_node |-> t.root_node, free_node_head |-> t.free_node_head, length |-> t.length,
           node |-> nn, string |-> t.string]
  <2>1. t = [root_node |-> t.root_node, free_node_head |-> t.free_node_head, length |-> t.length,
             node |-> t.node, string |-> t.string]
    BY ONLY Typed(t), TypedIs
  <2>2. v = [t EXCEPT !.node[b] = y]
    OBVIOUS
  <2> QED
    BY ONLY <2>1, <2>2
<1>2. /\ nn \in [DOMAIN t.node -> Nodes] /\ nn[b] = y /\ \A z \in DOMAIN t.node : z # b => nn[z] = t.node[z]
  <2>1. t.node \in [DOMAIN t.node -> Nodes]
    BY ONLY Typed(t), TypedIs
  <2> QED
    BY ONLY <2>1, y \in Nodes, b \in DOMAIN t.node
<1> HIDE DEF nn
<1>3. /\ Typed(v) /\ Spare(v, U) /\ v.node = nn /\ v.string = t.string /\ v.root_node = t.root_node
      /\ DOMAIN v.node = DOMAIN t.node
  <2>1. t.string \in [DOMAIN t.string -> Key] /\ DOMAIN t.string \subseteq Nat /\ IsFiniteSet(DOMAIN t.string)
    BY ONLY Typed(t), TypedIs
  <2>2. nn \in [DOMAIN t.node -> Nodes] /\ \A z \in DOMAIN t.node : z \notin U => nn[z] = t.node[z]
    BY <1>2
  <2>3. \A z \in U : nn[z].next \in Links(t)
    <3>1. \A z \in DOMAIN t.node : t.node[z].next \in Links(t)
      BY ONLY Spare(t, U), LinkIs
    <3>2. U \subseteq DOMAIN t.node
      BY ONLY Spare(t, U) DEF Spare, Listed
    <3> QED
      BY ONLY <1>2, <3>1, <3>2, y.next \in Links(t)
  <2> QED
    BY ONLY <1>1, <2>1, <2>2, <2>3, Typed(t), Spare(t, U), NodesSet
<1> QED
  BY ONLY <1>2, <1>3 DEF OnNode

(* Assigning the rows of a node. *)
LEMMA RowIs ==
    ASSUME NEW t, Typed(t), NEW U, Spare(t, U), NEW b \in U, b \in DOMAIN t.node,
           NEW f, NEW r, NEW c, NEW z, t.node[b] = BNode(f, r, c, z), NEW row \in Seq(Nat),
           NEW v, v = [t EXCEPT !.node[b].row = row]
    PROVE  OnNode(t, v, U, b, BNode(f, row, c, z))
<1>1. [t.node[b] EXCEPT !.row = row] = BNode(f, row, c, z)
  BY ONLY t.node[b] = BNode(f, r, c, z) DEF BNode
<1> DEFINE y == BNode(f, row, c, z)
<1>2. v = [t EXCEPT !.node[b] = y]
  BY ONLY <1>1, v = [t EXCEPT !.node[b].row = row]
<1>3. y \in Nodes
  <2>1. t.node[b] \in Nodes
    BY ONLY Typed(t), b \in DOMAIN t.node, NodeIs
  <2> QED
    BY ONLY <2>1, t.node[b] = BNode(f, r, c, z), row \in Seq(Nat) DEF BNode, Nodes
<1>5. y.next \in Links(t)
  <2>1. t.node[b].next \in Links(t)
    BY ONLY Spare(t, U), b \in DOMAIN t.node, LinkIs
  <2> QED
    BY ONLY <2>1, t.node[b] = BNode(f, r, c, z) DEF BNode, y
<1> HIDE DEF y
<1>4. OnNode(t, v, U, b, y)
  BY ONLY <1>2, <1>3, <1>5, Typed(t), Spare(t, U), b \in U, b \in DOMAIN t.node, NodeSetIs
<1> QED
  BY ONLY <1>4 DEF y

(* Assigning the children of a node. *)
LEMMA ChildIs ==
    ASSUME NEW t, Typed(t), NEW U, Spare(t, U), NEW b \in U, b \in DOMAIN t.node,
           NEW f, NEW r, NEW c, NEW z, t.node[b] = BNode(f, r, c, z), NEW child \in Seq(Nat),
           NEW v, v = [t EXCEPT !.node[b].child = child]
    PROVE  OnNode(t, v, U, b, BNode(f, r, child, z))
<1>1. [t.node[b] EXCEPT !.child = child] = BNode(f, r, child, z)
  BY ONLY t.node[b] = BNode(f, r, c, z) DEF BNode
<1> DEFINE y == BNode(f, r, child, z)
<1>2. v = [t EXCEPT !.node[b] = y]
  BY ONLY <1>1, v = [t EXCEPT !.node[b].child = child]
<1>3. y \in Nodes
  <2>1. t.node[b] \in Nodes
    BY ONLY Typed(t), b \in DOMAIN t.node, NodeIs
  <2> QED
    BY ONLY <2>1, t.node[b] = BNode(f, r, c, z), child \in Seq(Nat) DEF BNode, Nodes
<1>5. y.next \in Links(t)
  <2>1. t.node[b].next \in Links(t)
    BY ONLY Spare(t, U), b \in DOMAIN t.node, LinkIs
  <2> QED
    BY ONLY <2>1, t.node[b] = BNode(f, r, c, z) DEF BNode, y
<1> HIDE DEF y
<1>4. OnNode(t, v, U, b, y)
  BY ONLY <1>2, <1>3, <1>5, Typed(t), Spare(t, U), b \in U, b \in DOMAIN t.node, NodeSetIs
<1> QED
  BY ONLY <1>4 DEF y

(* Assigning the link of a node. *)
LEMMA NextIs ==
    ASSUME NEW t, Typed(t), NEW U, Spare(t, U), NEW b \in U, b \in DOMAIN t.node,
           NEW f, NEW r, NEW c, NEW z, t.node[b] = BNode(f, r, c, z), NEW next \in Int, next \in Links(t),
           NEW v, v = [t EXCEPT !.node[b].next = next]
    PROVE  OnNode(t, v, U, b, BNode(f, r, c, next))
<1>1. [t.node[b] EXCEPT !.next = next] = BNode(f, r, c, next)
  BY ONLY t.node[b] = BNode(f, r, c, z) DEF BNode
<1> DEFINE y == BNode(f, r, c, next)
<1>2. v = [t EXCEPT !.node[b] = y]
  BY ONLY <1>1, v = [t EXCEPT !.node[b].next = next]
<1>3. y \in Nodes
  <2>1. t.node[b] \in Nodes
    BY ONLY Typed(t), b \in DOMAIN t.node, NodeIs
  <2> QED
    BY ONLY <2>1, t.node[b] = BNode(f, r, c, z), next \in Int DEF BNode, Nodes
<1>5. y.next \in Links(t)
  BY ONLY next \in Links(t) DEF BNode, y
<1> HIDE DEF y
<1>4. OnNode(t, v, U, b, y)
  BY ONLY <1>2, <1>3, <1>5, Typed(t), Spare(t, U), b \in U, b \in DOMAIN t.node, NodeSetIs
<1> QED
  BY ONLY <1>4 DEF y

(* The strings change and the nodes do not. *)
LEMMA StringIs ==
    ASSUME NEW t, Typed(t), NEW U, Spare(t, U),
           NEW ss, ss \in [DOMAIN ss -> Key], DOMAIN ss \subseteq Nat, IsFiniteSet(DOMAIN ss),
           NEW v, v = [t EXCEPT !.string = ss]
    PROVE  /\ Typed(v) /\ Spare(v, U) /\ v.node = t.node /\ v.root_node = t.root_node /\ v.string = ss
<1>1. v = [root_node |-> t.root_node, free_node_head |-> t.free_node_head, length |-> t.length,
           node |-> t.node, string |-> ss]
  <2>1. t = [root_node |-> t.root_node, free_node_head |-> t.free_node_head, length |-> t.length,
             node |-> t.node, string |-> t.string]
    BY ONLY Typed(t), TypedIs
  <2>2. v = [t EXCEPT !.string = ss]
    OBVIOUS
  <2> QED
    BY ONLY <2>1, <2>2
<1>2. t.node \in [DOMAIN t.node -> Nodes] /\ \A z \in DOMAIN t.node : z \notin U => t.node[z] = t.node[z]
  BY ONLY Typed(t), TypedIs
<1>3. \A z \in U : t.node[z].next \in Links(t)
  <2>1. U \subseteq DOMAIN t.node
    BY ONLY Spare(t, U) DEF Spare, Listed
  <2> QED
    BY ONLY <2>1, Spare(t, U), LinkIs
<1> QED
  BY ONLY <1>1, <1>2, <1>3, Typed(t), Spare(t, U), ss \in [DOMAIN ss -> Key], DOMAIN ss \subseteq Nat,
          IsFiniteSet(DOMAIN ss), NodesSet

(* insert_handler stores a new string. *)
LEMMA InsertHandlerIs ==
    ASSUME NEW t, Typed(t), NEW U, Spare(t, U), NEW k \in Key, NEW x, x = NewString(t),
           NEW v, v = insert_handler(t, k)
    PROVE  /\ Typed(v) /\ Spare(v, U) /\ v.node = t.node /\ v.root_node = t.root_node
           /\ x \in Nat /\ x \notin DOMAIN t.string /\ DOMAIN v.string = DOMAIN t.string \cup {x} /\ v.string[x] = k
           /\ \A s \in DOMAIN t.string : v.string[s] = t.string[s]
<1> DEFINE ss == [s \in DOMAIN t.string \cup {x} |-> IF s = x THEN k ELSE t.string[s]]
<1>1. v = [t EXCEPT !.string = ss]
  BY ONLY x = NewString(t), v = insert_handler(t, k) DEF insert_handler
<1>2. x \in Nat /\ x \notin DOMAIN t.string
  BY ONLY Typed(t), x = NewString(t), NewStringIs
<1>3. /\ ss \in [DOMAIN ss -> Key] /\ DOMAIN ss = DOMAIN t.string \cup {x}
      /\ DOMAIN ss \subseteq Nat /\ IsFiniteSet(DOMAIN ss)
      /\ ss[x] = k /\ \A s \in DOMAIN t.string : ss[s] = t.string[s]
  <2>1. ss = [s \in DOMAIN t.string \cup {x} |-> IF s = x THEN k ELSE t.string[s]]
    OBVIOUS
  <2> HIDE DEF ss
  <2>2. /\ t.string \in [DOMAIN t.string -> Key] /\ DOMAIN t.string \subseteq Nat /\ IsFiniteSet(DOMAIN t.string)
    BY ONLY Typed(t), TypedIs
  <2> QED
    BY ONLY <1>2, <2>1, <2>2, k \in Key, InsertIs
<1> HIDE DEF ss
<1>4. Typed(v) /\ Spare(v, U) /\ v.node = t.node /\ v.root_node = t.root_node /\ v.string = ss
  BY ONLY <1>1, <1>3, Typed(t), Spare(t, U), StringIs
<1> QED
  BY ONLY <1>2, <1>3, <1>4

(* delete_handler drops a string. *)
LEMMA DeleteHandlerIs ==
    ASSUME NEW t, Typed(t), NEW U, Spare(t, U), NEW x, NEW v, v = delete_handler(t, x)
    PROVE  /\ Typed(v) /\ Spare(v, U) /\ v.node = t.node /\ v.root_node = t.root_node
           /\ DOMAIN v.string = DOMAIN t.string \ {x}
           /\ \A s \in DOMAIN v.string : v.string[s] = t.string[s]
<1> DEFINE ss == Restrict(t.string, DOMAIN t.string \ {x})
<1>1. v = [t EXCEPT !.string = ss]
  BY ONLY v = delete_handler(t, x) DEF delete_handler
<1>3. /\ ss \in [DOMAIN ss -> Key] /\ DOMAIN ss = DOMAIN t.string \ {x}
      /\ DOMAIN ss \subseteq Nat /\ IsFiniteSet(DOMAIN ss)
      /\ \A s \in DOMAIN ss : ss[s] = t.string[s]
  <2>1. ss = [s \in DOMAIN t.string \ {x} |-> t.string[s]]
    BY DEF Restrict
  <2>2. DOMAIN t.string \subseteq Nat /\ t.string \in [DOMAIN t.string -> Key] /\ IsFiniteSet(DOMAIN t.string)
    BY ONLY Typed(t), TypedIs
  <2>3. IsFiniteSet(DOMAIN t.string \ {x})
    BY ONLY <2>2, FS_Subset
  <2> HIDE DEF ss
  <2> QED
    BY ONLY <2>1, <2>2, <2>3
<1> HIDE DEF ss
<1>4. Typed(v) /\ Spare(v, U) /\ v.node = t.node /\ v.root_node = t.root_node /\ v.string = ss
  BY ONLY <1>1, <1>3, Typed(t), Spare(t, U), StringIs
<1> QED
  BY ONLY <1>3, <1>4

(* The tree after the inner node b is split. *)
SplitInner(t, b, a, left, lefts, right, rights) ==
    [TakeNode(t) EXCEPT
       !.node[a] = BNode(FALSE, right, rights, NoNode),
       !.node[b].row = left,
       !.node[b].child = lefts]

(* What SplitInner does, field by field. *)
InnerIsSplit(t, U, v, b, a, left, lefts, right, rights) ==
    /\ Typed(v) /\ Spare(v, U \cup {a}) /\ a \notin U /\ a \in Nat
    /\ DOMAIN v.node = DOMAIN t.node \cup {a} /\ v.root_node = t.root_node
    /\ v.string = t.string
    /\ v.node[a].leaf = FALSE /\ v.node[a].row = right /\ v.node[a].child = rights
    /\ v.node[b].leaf = t.node[b].leaf /\ v.node[b].row = left /\ v.node[b].child = lefts
    /\ \A y \in DOMAIN t.node : y # a /\ y # b => v.node[y] = t.node[y]

(* The tree after the split of an inner node. *)
LEMMA InnerSplitsIs ==
    ASSUME NEW t, Typed(t), NEW U, Spare(t, U), NEW b, b \in U, b \in DOMAIN t.node,
           NEW a, a = NewNode(t), NEW left, left \in Seq(Nat), NEW lefts, lefts \in Seq(Nat),
           NEW right, right \in Seq(Nat), NEW rights, rights \in Seq(Nat),
           NEW v, v = SplitInner(t, b, a, left, lefts, right, rights)
    PROVE  InnerIsSplit(t, U, v, b, a, left, lefts, right, rights)
<1> DEFINE u == TakeNode(t)
           W == U \cup {a}
           ya == BNode(FALSE, right, rights, NoNode)
           u1 == [u EXCEPT !.node[a] = ya]
           u2 == [u1 EXCEPT !.node[b].row = left]
<1>1. v = [u2 EXCEPT !.node[b].child = lefts]
  BY DEF SplitInner
<1>2. u1 = [u EXCEPT !.node[a] = ya] /\ u2 = [u1 EXCEPT !.node[b].row = left]
  OBVIOUS
<1>3. /\ Typed(u) /\ Spare(u, W) /\ a \notin U
      /\ DOMAIN u.node = DOMAIN t.node \cup {a}
      /\ \A y \in DOMAIN t.node : u.node[y] = t.node[y]
      /\ u.string = t.string /\ u.root_node = t.root_node
  <2>1. u = TakeNode(t)
    OBVIOUS
  <2>4. Typed(t) /\ Spare(t, U)
    OBVIOUS
  <2>5. a = NewNode(t)
    OBVIOUS
  <2>2. W = U \cup {a}
    OBVIOUS
  <2> HIDE DEF u, W, ya, u1, u2
  <2>3. /\ Typed(u) /\ Spare(u, U \cup {a}) /\ a \notin U
        /\ DOMAIN u.node = DOMAIN t.node \cup {a}
        /\ \A y \in DOMAIN t.node : u.node[y] = t.node[y]
        /\ u.string = t.string /\ u.root_node = t.root_node
    BY ONLY <2>1, <2>4, <2>5, TakeIs
  <2> QED
    BY ONLY <2>2, <2>3
<1>4. ya \in Nodes /\ ya.leaf = FALSE /\ ya.row = right /\ ya.child = rights /\ ya.next \in Links(u)
  <2>1. ya \in Nodes /\ ya.leaf = FALSE /\ ya.row = right /\ ya.child = rights
    BY ONLY right \in Seq(Nat), rights \in Seq(Nat) DEF BNode, Nodes, NoNode, ya
  <2>2. ya.next = NoNode
    BY DEF BNode, ya
  <2> QED
    BY ONLY <2>1, <2>2 DEF Links
<1>5. a \in W /\ b \in W /\ a # b /\ a \in DOMAIN u.node /\ b \in DOMAIN u.node /\ a \in Nat
  <2>1. DOMAIN u.node \subseteq Nat
    BY ONLY <1>3, TypedIs
  <2> QED
    BY <1>3, <2>1
<1> HIDE DEF u, W, ya, u1, u2
<1>6. OnNode(u, u1, W, a, ya)
  BY ONLY <1>2, <1>3, <1>4, <1>5, NodeSetIs
<1>7. /\ Typed(u1) /\ Spare(u1, W) /\ b \in DOMAIN u1.node
      /\ u1.node[b] = BNode(t.node[b].leaf, t.node[b].row, t.node[b].child, t.node[b].next)
  <2>1. t.node[b] = BNode(t.node[b].leaf, t.node[b].row, t.node[b].child, t.node[b].next)
    BY ONLY Typed(t), b \in DOMAIN t.node, NodeIs
  <2> QED
    BY ONLY <1>3, <1>5, <1>6, <2>1, b \in DOMAIN t.node DEF OnNode
<1>8. OnNode(u1, u2, W, b, BNode(t.node[b].leaf, left, t.node[b].child, t.node[b].next))
  BY ONLY <1>2, <1>5, <1>7, left \in Seq(Nat), RowIs
<1>9. /\ Typed(u2) /\ Spare(u2, W) /\ b \in DOMAIN u2.node
      /\ u2.node[b] = BNode(t.node[b].leaf, left, t.node[b].child, t.node[b].next)
  BY ONLY <1>7, <1>8 DEF OnNode
<1>10. OnNode(u2, v, W, b, BNode(t.node[b].leaf, left, lefts, t.node[b].next))
  BY ONLY <1>1, <1>5, <1>9, lefts \in Seq(Nat), ChildIs
<1>11. v.node[b] = BNode(t.node[b].leaf, left, lefts, t.node[b].next) /\ v.node[a] = ya
  BY ONLY <1>5, <1>6, <1>8, <1>10 DEF OnNode
<1>12. v.node[b].leaf = t.node[b].leaf /\ v.node[b].row = left /\ v.node[b].child = lefts
  BY ONLY <1>11 DEF BNode
<1>13. /\ Typed(v) /\ Spare(v, W) /\ DOMAIN v.node = DOMAIN u.node /\ v.root_node = u.root_node
       /\ v.string = u.string
       /\ \A y \in DOMAIN u.node : y # a /\ y # b => v.node[y] = u.node[y]
  BY ONLY <1>6, <1>8, <1>10 DEF OnNode
<1> QED
  BY ONLY <1>3, <1>4, <1>5, <1>11, <1>12, <1>13 DEF W, InnerIsSplit

(* A split of an inner node leaves the middle row to be stored above. *)
LEMMA InnerSplitsGood ==
    ASSUME NEW t, NEW g, NEW h, NEW p, p \in DOMAIN g, NEW s, Good(t, g, h, {p}, {s}), g[p].lev # 0,
           NEW k, k \in Nat, g[p].lo <= k, k < g[p].hi,
           NEW row, NEW child, InnerFits(t.string, g, g[p], row, child),
           ToSet(row) = RowSet(t, p) \cup {s},
           NEW a, NEW left, NEW lefts, NEW right, NEW rights, NEW w,
           NEW m, InnerHalved(t.string, g, g[p], row, left, lefts, right, rights, w, m),
           NEW v, InnerIsSplit(t, DOMAIN g, v, p, a, left, lefts, right, rights),
           NEW g2, g2 = SplitPlace(g, p, a, m)
    PROVE  Good(v, g2, h, {y \in DOMAIN g : Covers(g, y, g[p].lev + 1, k)}, {w})
<1>0. /\ m \in Nat /\ g[p].lo < m /\ m < g[p].hi
      /\ InnerFits(t.string, g, [lev |-> g[p].lev, lo |-> g[p].lo, hi |-> m], left, lefts)
      /\ InnerFits(t.string, g, [lev |-> g[p].lev, lo |-> m, hi |-> g[p].hi], right, rights)
      /\ ToSet(left) \cap ToSet(right) = {} /\ w \notin ToSet(left) /\ w \notin ToSet(right)
      /\ ToSet(row) = ToSet(left) \cup ToSet(right) \cup {w}
      /\ Typed(v) /\ Spare(v, DOMAIN g \cup {a}) /\ a \notin DOMAIN g
      /\ DOMAIN v.node = DOMAIN t.node \cup {a} /\ v.root_node = t.root_node /\ v.string = t.string
      /\ v.node[a].leaf = FALSE /\ v.node[a].row = right /\ v.node[a].child = rights
      /\ v.node[p].leaf = t.node[p].leaf /\ v.node[p].row = left /\ v.node[p].child = lefts
      /\ \A y \in DOMAIN t.node : y # a /\ y # p => v.node[y] = t.node[y]
  BY ONLY InnerHalved(t.string, g, g[p], row, left, lefts, right, rights, w, m),
          InnerIsSplit(t, DOMAIN g, v, p, a, left, lefts, right, rights) DEF InnerHalved, InnerIsSplit
<1> USE <1>0
<1>1. /\ Typed(t) /\ p \in DOMAIN t.node /\ DOMAIN g \subseteq DOMAIN t.node /\ Tiled(g, h, MaxKey)
      /\ t.root_node \in DOMAIN g /\ g[t.root_node].lev = h
      /\ \A y \in DOMAIN g : t.node[y].leaf <=> g[y].lev = 0
      /\ \A y \in DOMAIN g : y # p => NodeFits(t, g, y)
      /\ Owned(t, g, {s}) /\ Spare(t, DOMAIN g) /\ Chained(t, g, MaxKey, NoNode)
  BY DEF Good
<1>11. /\ DOMAIN g2 = DOMAIN g \cup {a} /\ a # p
       /\ g2[a] = [lev |-> g[p].lev, lo |-> m, hi |-> g[p].hi]
       /\ g2[p] = [lev |-> g[p].lev, lo |-> g[p].lo, hi |-> m]
       /\ \A y \in DOMAIN g : y # p => g2[y] = g[y]
  BY Zenon DEF SplitPlace
<1>12. Tiled(g2, h, MaxKey)
  BY <1>1, TileSplit
<1>13. /\ g2[a].lev = g[p].lev /\ g2[p].lev = g[p].lev
       /\ \A y \in DOMAIN g : g2[y].lev = g[y].lev
  BY <1>11
<1>2. /\ \A y \in DOMAIN g : /\ g[y] \in Place /\ g[y].lo < g[y].hi
                             /\ g[y].lo \in Nat /\ g[y].hi \in Nat /\ g[y].lev \in Nat
  BY ONLY <1>1, TiledIs
<1>3. ASSUME NEW y \in DOMAIN g, y # p, g[y].lev # 0, NEW c \in ToSet(t.node[y].child)
      PROVE  /\ c \in DOMAIN g /\ g[c].lev + 1 = g[y].lev
             /\ g[y].lo <= g[c].lo /\ g[c].hi <= g[y].hi
  <2>1. InnerFits(t.string, g, g[y], t.node[y].row, t.node[y].child)
    BY <1>1, <1>3 DEF NodeFits
  <2>2. Tiled(g, h, MaxKey) /\ g[y] \in Place /\ g[y].lo < g[y].hi
    BY <1>1, <1>2, <1>3
  <2>3. \A d \in ToSet(t.node[y].child) : /\ d \in DOMAIN g /\ g[d].lev + 1 = g[y].lev
                                          /\ g[y].lo <= g[d].lo /\ g[d].lo < g[d].hi /\ g[d].hi <= g[y].hi
    BY ONLY <2>1, <2>2, InnerIs
  <2> QED
    BY <1>3, <2>3
<1>4. \A c \in ToSet(child) : c \in DOMAIN g /\ c # p /\ c \in DOMAIN g2 /\ g2[c] = g[c]
  <2>1. Tiled(g, h, MaxKey) /\ g[p] \in Place /\ g[p].lo < g[p].hi
    BY <1>1, <1>2
  <2>2. \A d \in ToSet(child) : /\ d \in DOMAIN g /\ g[d].lev + 1 = g[p].lev
                                /\ g[p].lo <= g[d].lo /\ g[d].lo < g[d].hi /\ g[d].hi <= g[p].hi
    BY ONLY <2>1, InnerFits(t.string, g, g[p], row, child), InnerIs
  <2>3. \A d \in ToSet(child) : d # p
    BY <1>2, <2>2
  <2> QED
    BY <1>11, <2>2, <2>3
<1>5. ASSUME NEW at, NEW rr, NEW cc, InnerFits(t.string, g, at, rr, cc), at.lev = g[p].lev, at \in Place, at.lo < at.hi
      PROVE  InnerFits(v.string, g2, at, rr, cc)
  <2>2. \A d \in ToSet(cc) : /\ d \in DOMAIN g /\ g[d].lev + 1 = at.lev
                             /\ at.lo <= g[d].lo /\ g[d].lo < g[d].hi /\ g[d].hi <= at.hi
    BY ONLY <1>1, <1>5, InnerIs
  <2>3. \A d \in ToSet(cc) : d # p
    BY <1>2, <1>5, <2>2
  <2>4. \A d \in ToSet(cc) : d \in DOMAIN g2 /\ g2[d] = g[d]
    BY <1>11, <2>2, <2>3
  <2>5. \A z \in ToSet(rr) : z \in DOMAIN v.string /\ v.string[z] = t.string[z]
    <3>1. rr \in Seq(DOMAIN t.string)
      BY <1>5 DEF InnerFits
    <3>2. \A z \in ToSet(rr) : z \in DOMAIN t.string
      BY <3>1, ToSetIs
    <3> QED
      BY <3>2
  <2> QED
    BY ONLY <1>5, <2>4, <2>5, InnerStays
<1> DEFINE X == {y \in DOMAIN g : Covers(g, y, g[p].lev + 1, k)}
<1>14. ASSUME NEW y \in DOMAIN g2 \ X PROVE NodeFits(v, g2, y)
  <2>1. CASE y = a
    <3>1. g2[a] \in Place /\ g2[a].lo < g2[a].hi
      BY <1>2, <1>11 DEF Place
    <3>2. InnerFits(t.string, g, g2[a], right, rights)
      BY <1>11
    <3>3. InnerFits(v.string, g2, g2[a], right, rights)
      BY ONLY <1>5, <1>13, <3>1, <3>2
    <3> QED
      BY <1>13, <2>1, <3>3 DEF NodeFits
  <2>2. CASE y = p
    <3>1. g2[p] \in Place /\ g2[p].lo < g2[p].hi
      BY <1>2, <1>11 DEF Place
    <3>2. InnerFits(t.string, g, g2[p], left, lefts)
      BY <1>11
    <3>3. InnerFits(v.string, g2, g2[p], left, lefts)
      BY ONLY <1>5, <1>13, <3>1, <3>2
    <3> QED
      BY <1>13, <2>2, <3>3 DEF NodeFits
  <2>3. CASE y # a /\ y # p
    <3>1. y \in DOMAIN g /\ NodeFits(t, g, y) /\ v.node[y] = t.node[y] /\ g2[y] = g[y] /\ y # p
      BY <1>1, <1>11, <2>3
    <3>2. ASSUME g[y].lev # 0, NEW c \in ToSet(t.node[y].child) PROVE c \in DOMAIN g /\ c # p
      <4>1. c \in DOMAIN g /\ g[c].lev + 1 = g[y].lev /\ g[y].lo <= g[c].lo /\ g[c].hi <= g[y].hi
        BY ONLY <1>3, <3>1, <3>2
      <4>4. ASSUME c = p PROVE FALSE
        <5>1. g[y].lev = g[p].lev + 1 /\ g[y].lo <= k /\ k < g[y].hi
          BY <1>2, <3>1, <4>1, <4>4
        <5> QED
          BY <3>1, <5>1 DEF Covers
      <4> QED
        BY <4>1, <4>4
    <3>3. g[y].lev # 0 => /\ \A z \in RowSet(t, y) : z \in DOMAIN v.string /\ v.string[z] = t.string[z]
                          /\ \A c \in ToSet(t.node[y].child) : c \in DOMAIN g2 /\ g2[c] = g[c]
      <4>1. SUFFICES ASSUME g[y].lev # 0
                     PROVE  /\ \A z \in RowSet(t, y) : z \in DOMAIN v.string /\ v.string[z] = t.string[z]
                            /\ \A c \in ToSet(t.node[y].child) : c \in DOMAIN g2 /\ g2[c] = g[c]
        OBVIOUS
      <4>2. RowSet(t, y) \subseteq DOMAIN t.string
        BY <1>1, <3>1, <4>1 DEF Owned
      <4> QED
        BY <1>11, <3>2, <4>1, <4>2
    <3> QED
      BY ONLY <3>1, <3>3, NodeStays
  <2> QED
    BY <2>1, <2>2, <2>3
<1>15. Owned(v, g2, {w})
  <2> DEFINE Q == ToSet(row)
  <2>1. \A y : IsInner(g, y) /\ y \notin {p} <=> IsInner(g2, y) /\ y \notin {p, a}
    BY <1>11, <1>13 DEF IsInner
  <2>2. \A y : IsInner(g, y) /\ y \notin {p} => RowSet(v, y) = RowSet(t, y)
    BY <1>1 DEF RowSet, IsInner
  <2>3. IsInner(g, p) /\ IsInner(g2, p) /\ IsInner(g2, a)
    BY <1>11, <1>13 DEF IsInner
  <2>4. RowSet(v, p) = ToSet(left) /\ RowSet(v, a) = ToSet(right)
    BY DEF RowSet
  <2>5. Q \subseteq DOMAIN t.string
    <3>1. row \in Seq(DOMAIN t.string)
      BY DEF InnerFits
    <3> QED
      BY <3>1, ToSetIs
  <2>6. \A z : z \in Q <=> z \in {s} \/ (\E c \in {p} : z \in RowSet(t, c))
    OBVIOUS
  <2>7. DOMAIN v.string = (DOMAIN t.string \ Q) \cup Q
    BY <2>5
  <2>8. Q = ToSet(left) \cup ToSet(right) \cup {w}
    OBVIOUS
  <2> HIDE DEF Q
  <2>9. {w} \subseteq Q /\ (Q \ Q) \cap DOMAIN t.string = {}
    BY <2>8
  <2>10. \A y \in {p, a} : RowSet(v, y) \subseteq Q \ {w}
    BY <2>4, <2>8
  <2>11. \A y, z \in {p, a} : y # z => RowSet(v, y) \cap RowSet(v, z) = {}
    BY <2>4
  <2>12. \A z \in Q \ {w} : \E y \in {p, a} : z \in RowSet(v, y)
    BY <2>4, <2>8
  <2>13. (\A y \in {p} : IsInner(g, y)) /\ (\A y \in {p, a} : IsInner(g2, y))
    BY <2>3
  <2>14. Owned(t, g, {s})
    BY <1>1
  <2>15. Exchange(t, g, {s}, v, g2, {w}, {p}, {p, a}, Q, Q)
    BY ONLY <2>1, <2>2, <2>6, <2>7, <2>9, <2>10, <2>11, <2>12, <2>13 DEF Exchange
  <2> QED
    BY ONLY <2>14, <2>15, OwnedStep
<1>16. Spare(v, DOMAIN g2)
  BY <1>11
<1>17. Chained(v, g2, MaxKey, NoNode)
  <2>1. \A y \in DOMAIN g : g[y].lev = 0 => /\ y \in DOMAIN g2 /\ g2[y] = g[y]
                                            /\ v.node[y].next = t.node[y].next
    BY <1>1, <1>11
  <2>2. \A y \in DOMAIN g2 : g2[y].lev = 0 => y \in DOMAIN g /\ g[y].lev = 0
    BY <1>11, <1>13
  <2> QED
    BY ONLY <1>1, <2>1, <2>2, ChainStays
<1>18. \A y \in DOMAIN g2 : v.node[y].leaf <=> g2[y].lev = 0
  BY <1>1, <1>11, <1>13
<1>19. Good(v, g2, h, X, {w})
  BY <1>1, <1>11, <1>12, <1>13, <1>14, <1>15, <1>16, <1>17, <1>18 DEF Good
<1> QED
  BY <1>19

(* The tree with the new root a, which has the row s and two children. *)
RootIsNew(t, v, U, a, d, s) ==
    /\ Typed(v) /\ Spare(v, U \cup {a}) /\ a \notin U
    /\ DOMAIN v.node = DOMAIN t.node \cup {a} /\ v.root_node = a /\ v.string = t.string
    /\ v.node[a].leaf = FALSE /\ v.node[a].row = <<s>> /\ v.node[a].child = <<t.root_node, d>>
    /\ \A y \in DOMAIN t.node : y # a => v.node[y] = t.node[y]

(* NewRoot makes such a root. *)
LEMMA NewRootIs ==
    ASSUME NEW t, Typed(t), NEW U, Spare(t, U), NEW e, e.addr \in Nat, e.rid \in Nat,
           NEW a, a = NewNode(t), NEW v, v = NewRoot(t, e)
    PROVE  RootIsNew(t, v, U, a, e.addr, e.rid)
<1> DEFINE u == TakeNode(t)
           W == U \cup {a}
           ya == BNode(FALSE, <<e.rid>>, <<t.root_node, e.addr>>, NoNode)
           u1 == [u EXCEPT !.node[a] = ya]
<1>1. v = [u1 EXCEPT !.root_node = a]
  BY a = NewNode(t), v = NewRoot(t, e) DEF NewRoot
<1>2. u1 = [u EXCEPT !.node[a] = ya]
  OBVIOUS
<1>3. /\ Typed(u) /\ Spare(u, W) /\ a \notin U
      /\ DOMAIN u.node = DOMAIN t.node \cup {a}
      /\ \A y \in DOMAIN t.node : u.node[y] = t.node[y]
      /\ u.string = t.string /\ u.root_node = t.root_node
  <2>1. u = TakeNode(t)
    OBVIOUS
  <2>2. W = U \cup {a}
    OBVIOUS
  <2> HIDE DEF u, W
  <2>3. /\ Typed(u) /\ Spare(u, U \cup {a}) /\ a \notin U
        /\ DOMAIN u.node = DOMAIN t.node \cup {a}
        /\ \A y \in DOMAIN t.node : u.node[y] = t.node[y]
        /\ u.string = t.string /\ u.root_node = t.root_node
    BY ONLY <2>1, Typed(t), Spare(t, U), a = NewNode(t), TakeIs
  <2> QED
    BY ONLY <2>2, <2>3
<1>4. ya \in Nodes /\ ya.leaf = FALSE /\ ya.row = <<e.rid>> /\ ya.child = <<t.root_node, e.addr>>
      /\ ya.next \in Links(u)
  <2>1. t.root_node \in Nat
    BY ONLY Typed(t), TypedIs
  <2>2. <<e.rid>> \in Seq(Nat) /\ <<t.root_node, e.addr>> \in Seq(Nat)
    BY <2>1
  <2> QED
    BY ONLY <2>2 DEF BNode, Nodes, NoNode, ya, Links
<1>5. a \in W /\ a \in DOMAIN u.node /\ a \in Nat
  <2>1. DOMAIN u.node \subseteq Nat
    BY ONLY <1>3, TypedIs
  <2> QED
    BY <1>3, <2>1
<1> HIDE DEF u, W, ya, u1
<1>6. OnNode(u, u1, W, a, ya)
  BY ONLY <1>2, <1>3, <1>4, <1>5, NodeSetIs
<1>7. /\ Typed(u1) /\ Spare(u1, W) /\ DOMAIN u1.node = DOMAIN u.node /\ u1.node[a] = ya
      /\ u1.string = u.string /\ \A y \in DOMAIN u.node : y # a => u1.node[y] = u.node[y]
  BY ONLY <1>6 DEF OnNode
<1>8. /\ u1 = [root_node |-> u1.root_node, free_node_head |-> u1.free_node_head, length |-> u1.length,
               node |-> u1.node, string |-> u1.string]
  BY ONLY <1>7, TypedIs
<1>9. /\ v = [root_node |-> a, free_node_head |-> u1.free_node_head, length |-> u1.length,
              node |-> u1.node, string |-> u1.string]
      /\ v.node = u1.node /\ v.string = u1.string /\ v.root_node = a /\ v.free_node_head = u1.free_node_head
  BY ONLY <1>1, <1>8
<1>10. Typed(v)
  BY ONLY <1>5, <1>7, <1>8, <1>9 DEF Typed
<1>11. Spare(v, W)
  <2>1. /\ DOMAIN v.node = DOMAIN u1.node /\ \A b \in DOMAIN u1.node \ W : v.node[b] = u1.node[b]
        /\ \A b \in W : v.node[b].next \in Links(u1)
    <3>1. W \subseteq DOMAIN u1.node
      BY ONLY <1>7 DEF Spare, Listed
    <3> QED
      BY ONLY <1>7, <1>9, <3>1, LinkIs
  <2> QED
    BY ONLY <1>7, <1>9, <2>1, SpareStays
<1> QED
  BY ONLY <1>3, <1>4, <1>5, <1>7, <1>9, <1>10, <1>11 DEF W, RootIsNew

(* A new root takes the pending row. *)
LEMMA NewRootGood ==
    ASSUME NEW t, NEW g, NEW h, NEW s, Good(t, g, h, {}, {s}),
           NEW r, r = t.root_node, NEW e, e \in DOMAIN g, NEW m, m = t.string[s],
           g[r] = [lev |-> h, lo |-> 0, hi |-> m],
           g[e] = [lev |-> h, lo |-> m, hi |-> MaxKey + 1],
           NEW a, NEW v, RootIsNew(t, v, DOMAIN g, a, e, s),
           NEW g2, g2 = Above(g, h, a, MaxKey), NEW h2, h2 = h + 1
    PROVE  Good(v, g2, h2, {}, {})
<1>0. /\ Typed(v) /\ Spare(v, DOMAIN g \cup {a}) /\ a \notin DOMAIN g
      /\ DOMAIN v.node = DOMAIN t.node \cup {a} /\ v.root_node = a /\ v.string = t.string
      /\ v.node[a].leaf = FALSE /\ v.node[a].row = <<s>> /\ v.node[a].child = <<r, e>>
      /\ \A y \in DOMAIN t.node : y # a => v.node[y] = t.node[y]
  BY DEF RootIsNew
<1> USE <1>0
<1>1. /\ Typed(t) /\ DOMAIN g \subseteq DOMAIN t.node /\ Tiled(g, h, MaxKey)
      /\ r \in DOMAIN g
      /\ \A y \in DOMAIN g : t.node[y].leaf <=> g[y].lev = 0
      /\ \A y \in DOMAIN g : NodeFits(t, g, y)
      /\ Owned(t, g, {s}) /\ Spare(t, DOMAIN g) /\ Chained(t, g, MaxKey, NoNode)
  BY DEF Good
<1>10. Tiled(g2, h2, MaxKey)
  <2>1. Tiled(g, h, MaxKey)
    BY <1>1
  <2> QED
    BY ONLY <1>0, <2>1, g2 = Above(g, h, a, MaxKey), h2 = h + 1, TileAbove
<1>11. /\ DOMAIN g2 = DOMAIN g \cup {a}
       /\ g2[a] = [lev |-> h + 1, lo |-> 0, hi |-> MaxKey + 1]
       /\ \A y \in DOMAIN g : y # a /\ g2[y] = g[y]
  BY Zenon DEF Above
<1>2. h \in Nat /\ g2[a].lev = h + 1 /\ h + 1 # 0 /\ \A y \in DOMAIN g : g2[y].lev = g[y].lev
  <2>1. h \in Nat
    BY <1>1 DEF Tiled
  <2> QED
    BY <1>11, <2>1
<1>3. s \in DOMAIN t.string
  BY <1>1 DEF Owned
<1>4. InnerFits(v.string, g2, g2[a], <<s>>, <<r, e>>)
  <2>1. <<s>> \in Seq(DOMAIN v.string) /\ <<r, e>> \in Seq(DOMAIN g2) /\ Len(<<s>>) = 1 /\ Len(<<r, e>>) = 2
    <3>1. s \in DOMAIN v.string /\ r \in DOMAIN g2 /\ e \in DOMAIN g2
      BY <1>1, <1>3, <1>11
    <3> DEFINE S == DOMAIN v.string
               B == DOMAIN g2
    <3>2. s \in S /\ r \in B /\ e \in B
      BY ONLY <3>1
    <3> HIDE DEF S, B
    <3>3. <<s>> \in Seq(S) /\ Len(<<s>>) = 1
      BY ONLY <3>2
    <3>4. <<r, e>> \in Seq(B) /\ Len(<<r, e>>) = 2
      BY ONLY <3>2
    <3> QED
      BY ONLY <3>3, <3>4 DEF S, B
  <2>2. g2[r] = [lev |-> h, lo |-> 0, hi |-> m] /\ g2[e] = [lev |-> h, lo |-> m, hi |-> MaxKey + 1]
    BY <1>1, <1>11
  <2>3. <<r, e>>[1] = r /\ <<r, e>>[2] = e /\ <<s>>[1] = s
    OBVIOUS
  <2>4. g2[r].lev = h /\ g2[e].lev = h /\ g2[r].lo = 0 /\ g2[r].hi = m /\ g2[e].lo = m /\ g2[e].hi = MaxKey + 1
    BY <2>2
  <2>5. g2[a].lev = h + 1 /\ g2[a].lo = 0 /\ g2[a].hi = MaxKey + 1
    BY <1>11
  <2>6. v.string[s] = m
    OBVIOUS
  <2> DEFINE row == <<s>>
             child == <<r, e>>
  <2>7. Len(row) = 1 /\ Len(child) = 2 /\ row[1] = s /\ child[1] = r /\ child[2] = e
        /\ row \in Seq(DOMAIN v.string) /\ child \in Seq(DOMAIN g2)
    BY ONLY <2>1, <2>3
  <2> HIDE DEF row, child
  <2>8. \A i \in 1 .. Len(child) : g2[child[i]].lev + 1 = g2[a].lev
    <3>1. \A i \in 1 .. Len(child) : i = 1 \/ i = 2
      BY ONLY <2>7
    <3> QED
      BY ONLY <2>4, <2>5, <2>7, <3>1
  <2>9. \A i \in 1 .. Len(row) : i = 1
    BY ONLY <2>7
  <2>10. \A i \in 1 .. Len(row) : g2[child[i]].hi = v.string[row[i]] /\ g2[child[i + 1]].lo = v.string[row[i]]
    <3>1. 1 + 1 = 2
      OBVIOUS
    <3> QED
      BY ONLY <2>4, <2>6, <2>7, <2>9, <3>1
  <2>11. Len(child) = Len(row) + 1
    BY ONLY <2>7
  <2>12. InnerFits(v.string, g2, g2[a], row, child)
    BY ONLY <2>4, <2>5, <2>7, <2>8, <2>10, <2>11 DEF InnerFits
  <2> QED
    BY <2>12 DEF row, child
<1>14. ASSUME NEW y \in DOMAIN g2 PROVE NodeFits(v, g2, y)
  <2>1. CASE y = a
    BY <1>2, <1>4, <2>1 DEF NodeFits
  <2>3. CASE y # a
    <3>1. y \in DOMAIN g /\ NodeFits(t, g, y) /\ v.node[y] = t.node[y] /\ g2[y] = g[y]
      BY <1>1, <1>11, <2>3
    <3>3. g[y].lev # 0 => /\ \A z \in RowSet(t, y) : z \in DOMAIN v.string /\ v.string[z] = t.string[z]
                          /\ \A c \in ToSet(t.node[y].child) : c \in DOMAIN g2 /\ g2[c] = g[c]
      <4>1. SUFFICES ASSUME g[y].lev # 0
                     PROVE  /\ \A z \in RowSet(t, y) : z \in DOMAIN v.string /\ v.string[z] = t.string[z]
                            /\ \A c \in ToSet(t.node[y].child) : c \in DOMAIN g2 /\ g2[c] = g[c]
        OBVIOUS
      <4>2. RowSet(t, y) \subseteq DOMAIN t.string
        BY <1>1, <3>1, <4>1 DEF Owned
      <4>3. \A c \in ToSet(t.node[y].child) : c \in DOMAIN g
        <5>1. t.node[y].child \in Seq(DOMAIN g)
          BY <3>1, <4>1 DEF NodeFits, InnerFits
        <5> QED
          BY ONLY <5>1, ToSetIs
      <4> QED
        BY <1>11, <4>2, <4>3
    <3> QED
      BY ONLY <3>1, <3>3, NodeStays
  <2> QED
    BY <2>1, <2>3
<1>15. Owned(v, g2, {})
  <2>1. \A y : IsInner(g, y) /\ y \notin {} <=> IsInner(g2, y) /\ y \notin {a}
    BY <1>2, <1>11 DEF IsInner
  <2>2. \A y : IsInner(g, y) /\ y \notin {} => RowSet(v, y) = RowSet(t, y)
    BY <1>1, <1>11 DEF RowSet, IsInner
  <2>3. IsInner(g2, a)
    BY <1>2, <1>11 DEF IsInner
  <2>4. RowSet(v, a) = {s}
    <3>1. ToSet(<<s>>) = {s}
      BY <1>3, OneIs
    <3> QED
      BY <3>1 DEF RowSet
  <2>5. \A z : z \in {s} <=> z \in {s} \/ (\E c \in {} : z \in RowSet(t, c))
    OBVIOUS
  <2>6. DOMAIN v.string = (DOMAIN t.string \ {s}) \cup {s}
    BY <1>3
  <2>7. Exchange(t, g, {s}, v, g2, {}, {}, {a}, {s}, {s})
    BY <2>1, <2>2, <2>3, <2>4, <2>5, <2>6 DEF Exchange
  <2>8. Owned(t, g, {s})
    BY <1>1
  <2> QED
    BY ONLY <2>7, <2>8, OwnedStep
<1>16. Spare(v, DOMAIN g2)
  BY <1>11
<1>17. Chained(v, g2, MaxKey, NoNode)
  <2>1. \A y \in DOMAIN g : g[y].lev = 0 => /\ y \in DOMAIN g2 /\ g2[y] = g[y]
                                            /\ v.node[y].next = t.node[y].next
    BY <1>1, <1>11
  <2>2. \A y \in DOMAIN g2 : g2[y].lev = 0 => y \in DOMAIN g /\ g[y].lev = 0
    BY <1>2, <1>11
  <2> QED
    BY ONLY <1>1, <2>1, <2>2, ChainStays
<1>18. \A y \in DOMAIN g2 : v.node[y].leaf <=> g2[y].lev = 0
  BY <1>1, <1>2, <1>11
<1> QED
  BY <1>1, <1>2, <1>10, <1>11, <1>14, <1>15, <1>16, <1>17, <1>18 DEF Good

-----------------------------------------------------------------------------
(* Neighbours below a node. *)

(* Two neighbours below p. *)
LEMMA Siblings ==
    ASSUME NEW t, NEW g, NEW h, Good(t, g, h, {}, {}), NEW p \in DOMAIN g, g[p].lev # 0,
           NEW j \in 1 .. n(t, p), NEW l, l = LeftOf(t, p, j), NEW r, r = RightOf(t, p, j)
    PROVE  /\ l \in DOMAIN g /\ r \in DOMAIN g /\ l # r /\ l # p /\ r # p
           /\ g[l].lev + 1 = g[p].lev /\ g[r].lev + 1 = g[p].lev /\ g[l].lev = g[r].lev
           /\ g[l].hi = t.string[t.node[p].row[j]] /\ g[r].lo = t.string[t.node[p].row[j]] /\ g[l].hi = g[r].lo
           /\ g[p].lo <= g[l].lo /\ g[r].hi <= g[p].hi
           /\ t.node[p].row[j] \in RowSet(t, p) /\ t.node[p].row[j] \in DOMAIN t.string
           /\ n(t, p) \in Nat /\ Len(t.node[p].child) = n(t, p) + 1 /\ n(t, p) = Len(t.node[p].row)
           /\ InnerFits(t.string, g, g[p], t.node[p].row, t.node[p].child)
           /\ l = t.node[p].child[j] /\ r = t.node[p].child[j + 1] /\ j + 1 \in 1 .. Len(t.node[p].child)
           /\ j \in 1 .. Len(t.node[p].child)
           /\ g[p] \in Place /\ Ordered(g) /\ Tiled(g, h, MaxKey)
<1> DEFINE row == t.node[p].row
           child == t.node[p].child
           str == t.string
<1>1. /\ Tiled(g, h, MaxKey) /\ NodeFits(t, g, p)
  BY DEF Good
<1>2. InnerFits(str, g, g[p], row, child)
  BY <1>1 DEF NodeFits
<1>3. Ordered(g) /\ g[p] \in Place /\ g[p].lo < g[p].hi /\ g[p].lev \in Nat
  BY ONLY <1>1, p \in DOMAIN g, TiledIs
<1>4. /\ row \in Seq(DOMAIN str) /\ child \in Seq(DOMAIN g) /\ Len(row) \in Nat /\ Len(child) = Len(row) + 1
      /\ \A i \in 1 .. Len(child) : g[child[i]].lev + 1 = g[p].lev
      /\ \A i \in 1 .. Len(row) : g[child[i]].hi = str[row[i]] /\ g[child[i + 1]].lo = str[row[i]]
  <2> HIDE DEF row, child, str
  <2>1. /\ row \in Seq(DOMAIN str) /\ child \in Seq(DOMAIN g) /\ Len(child) = Len(row) + 1
        /\ \A i \in 1 .. Len(child) : g[child[i]].lev + 1 = g[p].lev
        /\ \A i \in 1 .. Len(row) : g[child[i]].hi = str[row[i]] /\ g[child[i + 1]].lo = str[row[i]]
    BY ONLY <1>2 DEF InnerFits
  <2> QED
    BY ONLY <2>1
<1>5. /\ \A i \in 1 .. Len(child) : /\ child[i] \in DOMAIN g
                                    /\ g[child[i]] \in Place
                                    /\ g[child[i]].lo < g[child[i]].hi
                                    /\ g[p].lo <= g[child[i]].lo /\ g[child[i]].hi <= g[p].hi
  BY ONLY <1>2, <1>3, FitsInside
<1>6. n(t, p) = Len(row) /\ l = child[j] /\ r = child[j + 1]
  BY DEF n, LeftOf, RightOf
<1> HIDE DEF row, child, str
<1>7. j \in 1 .. Len(row) /\ j \in 1 .. Len(child) /\ j + 1 \in 1 .. Len(child)
  BY <1>4, <1>6
<1>8. /\ l \in DOMAIN g /\ r \in DOMAIN g
      /\ g[l].lev + 1 = g[p].lev /\ g[r].lev + 1 = g[p].lev
      /\ g[l].hi = str[row[j]] /\ g[r].lo = str[row[j]] /\ g[l].hi = g[r].lo
      /\ g[p].lo <= g[l].lo /\ g[r].hi <= g[p].hi
      /\ g[l] \in Place /\ g[r] \in Place /\ g[l].lo < g[l].hi
  BY ONLY <1>4, <1>5, <1>6, <1>7
<1>9. g[l].lev \in Nat /\ g[r].lev \in Nat /\ g[l].lo \in Nat /\ g[l].hi \in Nat
  BY ONLY <1>8 DEF Place
<1>10. g[l].lev = g[r].lev /\ l # r /\ l # p /\ r # p
  BY ONLY <1>3, <1>8, <1>9
<1>11. row[j] \in DOMAIN str /\ row[j] \in ToSet(row)
  BY ONLY <1>4, <1>7, ToSetIs
<1>12. /\ t.node[p].row = row /\ t.node[p].child = child /\ t.string = str /\ RowSet(t, p) = ToSet(row)
  BY DEF row, child, str, RowSet
<1>13. j + 1 \in 1 .. Len(child) /\ Len(child) = n(t, p) + 1 /\ n(t, p) \in Nat
  BY <1>4, <1>6, <1>7
<1> QED
  BY ONLY <1>1, <1>2, <1>3, <1>6, <1>7, <1>8, <1>10, <1>11, <1>12, <1>13

(* Only p has l or r as a child. *)
LEMMA OthersChildren ==
    ASSUME NEW t, NEW g, NEW h, Good(t, g, h, {}, {}), NEW p \in DOMAIN g, g[p].lev # 0,
           NEW j \in 1 .. n(t, p), NEW l, l = LeftOf(t, p, j), NEW r, r = RightOf(t, p, j),
           NEW b \in DOMAIN g, g[b].lev # 0, b # p
    PROVE  \A c \in ToSet(t.node[b].child) : c \in DOMAIN g /\ c # l /\ c # r
<1>1. Tiled(g, h, MaxKey) /\ NodeFits(t, g, p) /\ NodeFits(t, g, b)
  BY DEF Good
<1>2. /\ l = t.node[p].child[j] /\ r = t.node[p].child[j + 1]
      /\ j \in 1 .. Len(t.node[p].child) /\ j + 1 \in 1 .. Len(t.node[p].child)
  BY Siblings
<1>3. l \in ToSet(t.node[p].child) /\ r \in ToSet(t.node[p].child)
  <2>1. t.node[p].child \in Seq(DOMAIN g)
    BY <1>1 DEF NodeFits, InnerFits
  <2> QED
    BY ONLY <1>2, <2>1, ToSetIs
<1>4. t.node[b].child \in Seq(DOMAIN g)
  BY <1>1 DEF NodeFits, InnerFits
<1>5. \A c \in ToSet(t.node[b].child) : c \in DOMAIN g
  BY ONLY <1>4, ToSetIs
<1>6. ASSUME NEW c \in ToSet(t.node[b].child), c \in ToSet(t.node[p].child) PROVE FALSE
  <2> DEFINE str == t.string
             row == t.node[b].row
             child == t.node[b].child
             row2 == t.node[p].row
             child2 == t.node[p].child
  <2>1. Tiled(g, h, MaxKey) /\ InnerFits(str, g, g[b], row, child) /\ InnerFits(str, g, g[p], row2, child2)
    BY <1>1 DEF NodeFits
  <2>2. c \in ToSet(child) /\ c \in ToSet(child2)
    BY <1>6
  <2> HIDE DEF str, row, child, row2, child2
  <2> QED
    BY ONLY <2>1, <2>2, b \in DOMAIN g, p \in DOMAIN g, b # p, OneParent
<1> QED
  BY ONLY <1>3, <1>5, <1>6

(* The bound between two neighbours moves; whatever else the step did, it  *)
(* left the other nodes alone.                                             *)
LEMMA ShiftGood ==
    ASSUME NEW t, NEW g, NEW h, Good(t, g, h, {}, {}), NEW p \in DOMAIN g, g[p].lev # 0,
           NEW j \in 1 .. n(t, p), NEW l, l = LeftOf(t, p, j), NEW r, r = RightOf(t, p, j),
           NEW m \in Nat, g[l].lo < m, m < g[r].hi, NEW g2, g2 = ShiftBound(g, l, r, m),
           NEW v, Typed(v), Spare(v, DOMAIN g), DOMAIN v.node = DOMAIN t.node, v.root_node = t.root_node,
           \A b \in DOMAIN g : v.node[b].leaf = t.node[b].leaf /\ v.node[b].next = t.node[b].next,
           \A b \in DOMAIN g : b # l /\ b # r /\ b # p
                                 => v.node[b].row = t.node[b].row /\ v.node[b].child = t.node[b].child,
           \A b \in DOMAIN g : g[b].lev # 0 /\ b # l /\ b # r /\ b # p
                                 => \A s \in RowSet(t, b) : s \in DOMAIN v.string /\ v.string[s] = t.string[s],
           NEW y \in DOMAIN v.string, v.string[y] = m,
           v.node[p].row = [t.node[p].row EXCEPT ![j] = y], v.node[p].child = t.node[p].child,
           \A i \in 1 .. n(t, p) : i # j => LET s == t.node[p].row[i] IN
                                              s \in DOMAIN v.string /\ v.string[s] = t.string[s],
           NodeFits(v, g2, l), NodeFits(v, g2, r), Owned(v, g2, {})
    PROVE  Good(v, g2, h, {}, {})
<1>1. /\ DOMAIN g \subseteq DOMAIN t.node /\ Tiled(g, h, MaxKey)
      /\ t.root_node \in DOMAIN g /\ g[t.root_node].lev = h
      /\ \A b \in DOMAIN g : t.node[b].leaf <=> g[b].lev = 0
      /\ \A b \in DOMAIN g : NodeFits(t, g, b)
      /\ Chained(t, g, MaxKey, NoNode)
  BY DEF Good
<1>2. /\ l \in DOMAIN g /\ r \in DOMAIN g /\ l # r /\ l # p /\ r # p
      /\ g[l].lev = g[r].lev /\ g[l].hi = g[r].lo
      /\ n(t, p) = Len(t.node[p].row) /\ n(t, p) \in Nat
      /\ InnerFits(t.string, g, g[p], t.node[p].row, t.node[p].child)
      /\ l = t.node[p].child[j] /\ r = t.node[p].child[j + 1] /\ j + 1 \in 1 .. Len(t.node[p].child)
      /\ j \in 1 .. Len(t.node[p].child)
      /\ g[p] \in Place /\ Ordered(g)
  BY ONLY Good(t, g, h, {}, {}), p \in DOMAIN g, g[p].lev # 0, j \in 1 .. n(t, p), l = LeftOf(t, p, j),
          r = RightOf(t, p, j), Siblings
<1>4. /\ Tiled(g2, h, MaxKey) /\ DOMAIN g2 = DOMAIN g
      /\ g2[l] = [lev |-> g[l].lev, lo |-> g[l].lo, hi |-> m]
      /\ g2[r] = [lev |-> g[r].lev, lo |-> m, hi |-> g[r].hi]
      /\ \A b \in DOMAIN g : b # l /\ b # r => g2[b] = g[b]
  <2>1. Tiled(g, h, MaxKey) /\ l \in DOMAIN g /\ r \in DOMAIN g /\ l # r /\ g[l].lev = g[r].lev /\ g[l].hi = g[r].lo
    BY ONLY <1>1, <1>2
  <2> QED
    BY ONLY <2>1, m \in Nat, g[l].lo < m, m < g[r].hi, g2 = ShiftBound(g, l, r, m), ShiftIs
<1>3. Tiled(g2, h, MaxKey)
  BY ONLY <1>4
<1>5. \A b \in DOMAIN g : g2[b].lev = g[b].lev
  <2>1. g2[l].lev = g[l].lev /\ g2[r].lev = g[r].lev
    BY ONLY <1>4
  <2> QED
    BY ONLY <1>4, <2>1
<1>6. NodeFits(v, g2, p)
  <2>0. t.node[p].child \in Seq(DOMAIN g)
    BY ONLY <1>2 DEF InnerFits
  <2>2. \A k \in 1 .. Len(t.node[p].child) : k # j /\ k # j + 1
                        => t.node[p].child[k] \in DOMAIN g2 /\ g2[t.node[p].child[k]] = g[t.node[p].child[k]]
    <3>1. ASSUME NEW k \in 1 .. Len(t.node[p].child), k # j, k # j + 1
          PROVE  t.node[p].child[k] # l /\ t.node[p].child[k] # r
      <4>1. j \in Nat
        BY ONLY <1>2
      <4>2. j \in 1 .. Len(t.node[p].child) /\ j + 1 \in 1 .. Len(t.node[p].child) /\ g[p] \in Place /\ Ordered(g)
            /\ InnerFits(t.string, g, g[p], t.node[p].row, t.node[p].child)
        BY ONLY <1>2
      <4> DEFINE jj == j + 1
      <4>3. l = t.node[p].child[j] /\ r = t.node[p].child[jj] /\ jj \in 1 .. Len(t.node[p].child) /\ k # jj
        BY ONLY <1>2, <3>1 DEF jj
      <4> HIDE DEF jj
      <4> QED
        BY ONLY <3>1, <4>2, <4>3, FitsOnce
    <3>2. \A k \in 1 .. Len(t.node[p].child) : t.node[p].child[k] \in DOMAIN g
      BY ONLY <2>0
    <3> QED
      BY ONLY <1>4, <3>1, <3>2
  <2>3. \A k \in 1 .. Len(t.node[p].row) : k # j
              => t.node[p].row[k] \in DOMAIN v.string /\ v.string[t.node[p].row[k]] = t.string[t.node[p].row[k]]
    BY <1>2
  <2>4. /\ t.node[p].child[j] \in DOMAIN g2 /\ t.node[p].child[j + 1] \in DOMAIN g2
        /\ g2[t.node[p].child[j]] = [lev |-> g[t.node[p].child[j]].lev, lo |-> g[t.node[p].child[j]].lo,
                                     hi |-> v.string[y]]
        /\ g2[t.node[p].child[j + 1]] = [lev |-> g[t.node[p].child[j + 1]].lev, lo |-> v.string[y],
                                         hi |-> g[t.node[p].child[j + 1]].hi]
    BY <1>2, <1>4
  <2>5. j \in 1 .. Len(t.node[p].row)
    BY <1>2
  <2>6. InnerFits(v.string, g2, g[p], [t.node[p].row EXCEPT ![j] = y], t.node[p].child)
    <3> DEFINE at == g[p]
               row == t.node[p].row
               child == t.node[p].child
               str == t.string
               str2 == v.string
    <3>1. at \in Place /\ InnerFits(str, g, at, row, child) /\ Ordered(g)
      BY ONLY <1>2
    <3>2. j \in 1 .. Len(row) /\ y \in DOMAIN str2
      BY ONLY <2>5, y \in DOMAIN v.string
    <3>3. \A k \in 1 .. Len(row) : k # j => row[k] \in DOMAIN str2 /\ str2[row[k]] = str[row[k]]
      BY ONLY <2>3
    <3>4. \A k \in 1 .. Len(child) : k # j /\ k # j + 1 => child[k] \in DOMAIN g2 /\ g2[child[k]] = g[child[k]]
      BY ONLY <2>2
    <3>5. /\ child[j] \in DOMAIN g2 /\ child[j + 1] \in DOMAIN g2
          /\ g2[child[j]] = [lev |-> g[child[j]].lev, lo |-> g[child[j]].lo, hi |-> str2[y]]
          /\ g2[child[j + 1]] = [lev |-> g[child[j + 1]].lev, lo |-> str2[y], hi |-> g[child[j + 1]].hi]
      BY ONLY <2>4
    <3>6. ShiftsAt(str, g, row, child, str2, g2, j, y)
      BY ONLY <3>2, <3>3, <3>4, <3>5 DEF ShiftsAt
    <3> DEFINE row2 == [row EXCEPT ![j] = y]
    <3>7. row2 = [row EXCEPT ![j] = y]
      OBVIOUS
    <3> HIDE DEF at, row, child, str, str2, row2
    <3>8. InnerFits(str2, g2, at, row2, child)
      BY ONLY <3>1, <3>6, <3>7, FitsShift
    <3> QED
      BY ONLY <3>8 DEF at, row, child, str2, row2
  <2>7. g2[p] = g[p]
    BY <1>2, <1>4
  <2> QED
    BY <2>6, <2>7 DEF NodeFits
<1>7. ASSUME NEW b \in DOMAIN g2 PROVE NodeFits(v, g2, b)
  <2>1. CASE b = l \/ b = r \/ b = p
    BY <1>6, <2>1
  <2>2. CASE b # l /\ b # r /\ b # p
    <3>1. /\ b \in DOMAIN g /\ NodeFits(t, g, b) /\ g2[b] = g[b]
          /\ v.node[b].row = t.node[b].row /\ v.node[b].child = t.node[b].child
      BY <1>1, <1>4, <2>2
    <3>2. ASSUME g[b].lev # 0 PROVE \A c \in ToSet(t.node[b].child) : c \in DOMAIN g2 /\ g2[c] = g[c]
      <4>1. \A c \in ToSet(t.node[b].child) : c \in DOMAIN g /\ c # l /\ c # r
        BY ONLY Good(t, g, h, {}, {}), p \in DOMAIN g, g[p].lev # 0, j \in 1 .. n(t, p), l = LeftOf(t, p, j),
                r = RightOf(t, p, j), <2>2, <3>1, <3>2, OthersChildren
      <4> QED
        BY ONLY <1>4, <4>1
    <3>3. g[b].lev # 0 => \A s \in RowSet(t, b) : s \in DOMAIN v.string /\ v.string[s] = t.string[s]
      BY <2>2, <3>1
    <3> QED
      BY ONLY <3>1, <3>2, <3>3, NodeStays
  <2> QED
    BY <2>1, <2>2
<1>8. Chained(v, g2, MaxKey, NoNode)
  <2>1. \A b \in DOMAIN g : v.node[b].next = t.node[b].next
    OBVIOUS
  <2>2. /\ Tiled(g, h, MaxKey) /\ Chained(t, g, MaxKey, NoNode)
        /\ l \in DOMAIN g /\ r \in DOMAIN g /\ l # r /\ g[l].lev = g[r].lev /\ g[l].hi = g[r].lo
    BY ONLY <1>1, <1>2
  <2> QED
    BY ONLY <2>1, <2>2, m \in Nat, g[l].lo < m, m < g[r].hi, g2 = ShiftBound(g, l, r, m), ChainShift
<1>9. \A b \in DOMAIN g2 : v.node[b].leaf <=> g2[b].lev = 0
  BY <1>1, <1>4, <1>5
<1>10. Spare(v, DOMAIN g2) /\ DOMAIN g2 \subseteq DOMAIN v.node /\ v.root_node \in DOMAIN g2 /\ g2[v.root_node].lev = h
  BY <1>1, <1>4, <1>5
<1> QED
  BY ONLY <1>3, <1>7, <1>8, <1>9, <1>10, Typed(v), Owned(v, g2, {}) DEF Good

(* Two neighbours are joined; whatever else the step did, it left the      *)
(* other nodes alone.                                                      *)
LEMMA JoinGood ==
    ASSUME NEW t, NEW g, NEW h, Good(t, g, h, {}, {}), NEW p \in DOMAIN g, g[p].lev # 0,
           NEW j \in 1 .. n(t, p), NEW l, l = LeftOf(t, p, j), NEW r, r = RightOf(t, p, j),
           NEW g2, g2 = JoinPlaces(g, l, r),
           NEW v, Typed(v), Spare(v, DOMAIN g \ {r}), DOMAIN v.node = DOMAIN t.node, v.root_node = t.root_node,
           \A b \in DOMAIN g : b # r => v.node[b].leaf = t.node[b].leaf,
           \A b \in DOMAIN g : b # l /\ b # r => v.node[b].next = t.node[b].next,
           v.node[l].next = t.node[r].next,
           \A b \in DOMAIN g : b # l /\ b # r /\ b # p
                                 => v.node[b].row = t.node[b].row /\ v.node[b].child = t.node[b].child,
           \A b \in DOMAIN g : g[b].lev # 0 /\ b # l /\ b # r /\ b # p
                                 => \A s \in RowSet(t, b) : s \in DOMAIN v.string /\ v.string[s] = t.string[s],
           v.node[p].row = RemoveAt(t.node[p].row, j), v.node[p].child = RemoveAt(t.node[p].child, j + 1),
           \A i \in 1 .. n(t, p) : i # j => LET s == t.node[p].row[i] IN
                                              s \in DOMAIN v.string /\ v.string[s] = t.string[s],
           NodeFits(v, g2, l), Owned(v, g2, {})
    PROVE  Good(v, g2, h, {}, {})
<1>1. /\ DOMAIN g \subseteq DOMAIN t.node /\ Tiled(g, h, MaxKey)
      /\ t.root_node \in DOMAIN g /\ g[t.root_node].lev = h
      /\ \A b \in DOMAIN g : t.node[b].leaf <=> g[b].lev = 0
      /\ \A b \in DOMAIN g : NodeFits(t, g, b)
      /\ Chained(t, g, MaxKey, NoNode)
  BY DEF Good
<1>2. /\ l \in DOMAIN g /\ r \in DOMAIN g /\ l # r /\ l # p /\ r # p
      /\ g[l].lev = g[r].lev /\ g[l].hi = g[r].lo /\ g[r].lev + 1 = g[p].lev
      /\ n(t, p) = Len(t.node[p].row) /\ n(t, p) \in Nat
      /\ InnerFits(t.string, g, g[p], t.node[p].row, t.node[p].child)
      /\ l = t.node[p].child[j] /\ r = t.node[p].child[j + 1] /\ j + 1 \in 1 .. Len(t.node[p].child)
      /\ j \in 1 .. Len(t.node[p].child)
      /\ g[p] \in Place /\ Ordered(g)
  BY ONLY Good(t, g, h, {}, {}), p \in DOMAIN g, g[p].lev # 0, j \in 1 .. n(t, p), l = LeftOf(t, p, j),
          r = RightOf(t, p, j), Siblings
<1>3. Tiled(g2, h, MaxKey)
  BY ONLY <1>1, <1>2, g2 = JoinPlaces(g, l, r), TileJoin
<1>4. /\ DOMAIN g2 = DOMAIN g \ {r}
      /\ g2[l] = [lev |-> g[l].lev, lo |-> g[l].lo, hi |-> g[r].hi]
      /\ \A b \in DOMAIN g : b # l /\ b # r => g2[b] = g[b]
  <2>1. g2 = JoinPlaces(g, l, r) /\ l \in DOMAIN g \ {r}
    BY ONLY <1>2, g2 = JoinPlaces(g, l, r)
  <2> QED
    BY ONLY <2>1, Zenon DEF JoinPlaces
<1>5. \A b \in DOMAIN g2 : b \in DOMAIN g /\ g2[b].lev = g[b].lev
  <2>1. g2[l].lev = g[l].lev
    BY ONLY <1>4
  <2> QED
    BY ONLY <1>4, <2>1
<1>6. NodeFits(v, g2, p)
  <2>0. t.node[p].child \in Seq(DOMAIN g)
    BY ONLY <1>2 DEF InnerFits
  <2> DEFINE at == g[p]
             row == t.node[p].row
             child == t.node[p].child
             str == t.string
             str2 == v.string
             row2 == RemoveAt(row, j)
             child2 == RemoveAt(child, j + 1)
  <2>1. \A k \in 1 .. Len(child) : k # j /\ k # j + 1 => child[k] \in DOMAIN g2 /\ g2[child[k]] = g[child[k]]
    <3>1. ASSUME NEW k \in 1 .. Len(t.node[p].child), k # j, k # j + 1
          PROVE  t.node[p].child[k] # l /\ t.node[p].child[k] # r
      <4>1. t.node[p].child[k] = t.node[p].child[j] => k = j
        BY ONLY <1>2, k \in 1 .. Len(t.node[p].child), FitsOnce
      <4> DEFINE e == j + 1
      <4>2. e \in 1 .. Len(t.node[p].child)
        BY ONLY <1>2
      <4> HIDE DEF e
      <4>3. t.node[p].child[k] = t.node[p].child[e] => k = e
        BY ONLY <1>2, <4>2, k \in 1 .. Len(t.node[p].child), FitsOnce
      <4> QED
        BY ONLY <1>2, <3>1, <4>1, <4>3 DEF e
    <3>2. \A k \in 1 .. Len(t.node[p].child) : t.node[p].child[k] \in DOMAIN g
      BY ONLY <2>0
    <3> QED
      BY ONLY <1>4, <3>1, <3>2
  <2>2. \A k \in 1 .. Len(row) : k # j => row[k] \in DOMAIN str2 /\ str2[row[k]] = str[row[k]]
    BY <1>2
  <2>3. j \in 1 .. Len(row)
    BY <1>2
  <2>4. /\ child[j] \in DOMAIN g2
        /\ g2[child[j]] = [lev |-> g[child[j]].lev, lo |-> g[child[j]].lo, hi |-> g[child[j + 1]].hi]
    BY <1>2, <1>4
  <2>5. DropsAt(str, g, row, child, str2, g2, j)
    BY ONLY <2>1, <2>2, <2>3, <2>4 DEF DropsAt
  <2>6. at \in Place /\ InnerFits(str, g, at, row, child) /\ Ordered(g)
    BY ONLY <1>2
  <2>7. row2 = RemoveAt(row, j) /\ child2 = RemoveAt(child, j + 1)
    OBVIOUS
  <2>8. g2[p] = at /\ v.node[p].row = row2 /\ v.node[p].child = child2
    BY <1>2, <1>4
  <2> HIDE DEF at, row, child, str, str2, row2, child2
  <2>9. InnerFits(str2, g2, at, row2, child2)
    BY ONLY <2>5, <2>6, <2>7, FitsDrop
  <2>10. g[p].lev # 0 /\ at = g[p]
    BY DEF at
  <2> QED
    BY ONLY <2>8, <2>9, <2>10 DEF NodeFits, str2
<1>7. ASSUME NEW b \in DOMAIN g2 PROVE NodeFits(v, g2, b)
  <2>1. CASE b = l \/ b = p
    BY <1>6, <2>1
  <2>2. CASE b # l /\ b # p
    <3>1. /\ b \in DOMAIN g /\ b # r /\ NodeFits(t, g, b) /\ g2[b] = g[b]
          /\ v.node[b].row = t.node[b].row /\ v.node[b].child = t.node[b].child
      BY <1>1, <1>4, <2>2
    <3>2. ASSUME g[b].lev # 0 PROVE \A c \in ToSet(t.node[b].child) : c \in DOMAIN g2 /\ g2[c] = g[c]
      <4>1. \A c \in ToSet(t.node[b].child) : c \in DOMAIN g /\ c # l /\ c # r
        BY ONLY Good(t, g, h, {}, {}), p \in DOMAIN g, g[p].lev # 0, j \in 1 .. n(t, p), l = LeftOf(t, p, j),
                r = RightOf(t, p, j), <2>2, <3>1, <3>2, OthersChildren
      <4> QED
        BY ONLY <1>4, <4>1
    <3>3. g[b].lev # 0 => \A s \in RowSet(t, b) : s \in DOMAIN v.string /\ v.string[s] = t.string[s]
      BY <2>2, <3>1
    <3> QED
      BY ONLY <3>1, <3>2, <3>3, NodeStays
  <2> QED
    BY <2>1, <2>2
<1>8. Chained(v, g2, MaxKey, NoNode)
  <2>1. \A b \in DOMAIN g : b # l /\ b # r => v.node[b].next = t.node[b].next
    OBVIOUS
  <2>2. CASE g[l].lev = 0
    <3>1. g[l].lev = 0 /\ g[r].lev = 0 /\ v.node[l].next = t.node[r].next
      BY <1>2, <2>2
    <3> QED
      <4>1. /\ Tiled(g, h, MaxKey) /\ Chained(t, g, MaxKey, NoNode)
            /\ l \in DOMAIN g /\ r \in DOMAIN g /\ l # r /\ g[l].hi = g[r].lo
        BY ONLY <1>1, <1>2
      <4> QED
        BY ONLY <4>1, <2>1, <3>1, g2 = JoinPlaces(g, l, r), ChainJoin
  <2>3. CASE g[l].lev # 0
    <3>1. \A b \in DOMAIN g : g[b].lev = 0 => /\ b \in DOMAIN g2 /\ g2[b] = g[b]
                                              /\ v.node[b].next = t.node[b].next
      BY ONLY <1>2, <1>4, <2>1, <2>3
    <3>2. \A b \in DOMAIN g2 : g2[b].lev = 0 => b \in DOMAIN g /\ g[b].lev = 0
      BY ONLY <1>5
    <3> QED
      BY ONLY <1>1, <3>1, <3>2, ChainStays
  <2> QED
    BY <2>2, <2>3
<1>9. \A b \in DOMAIN g2 : v.node[b].leaf <=> g2[b].lev = 0
  BY <1>1, <1>4, <1>5
<1>10. Spare(v, DOMAIN g2) /\ DOMAIN g2 \subseteq DOMAIN v.node /\ v.root_node \in DOMAIN g2 /\ g2[v.root_node].lev = h
  <2>1. t.root_node # r
    <3>1. g[p].lev <= h /\ g[p].lev \in Nat /\ h \in Nat /\ g[r].lev \in Nat
      BY <1>1, <1>2 DEF Tiled, Place
    <3>2. g[r].lev + 1 = g[p].lev /\ g[t.root_node].lev = h
      BY <1>1, <1>2
    <3> QED
      BY ONLY <3>1, <3>2
  <2> QED
    BY <1>1, <1>4, <1>5, <2>1
<1> QED
  BY ONLY <1>3, <1>7, <1>8, <1>9, <1>10, Typed(v), Owned(v, g2, {}) DEF Good

(* The j-th row of p is y, a string with key m, instead of the old one. *)
Separated(t, v, p, j, m, y) ==
    LET s == t.node[p].row[j] IN
      /\ y \notin DOMAIN t.string \ {s}
      /\ DOMAIN v.string = (DOMAIN t.string \ {s}) \cup {y} /\ v.string[y] = m
      /\ \A z \in DOMAIN t.string \ {s} : v.string[z] = t.string[z]
      /\ v.node[p] = BNode(t.node[p].leaf, [t.node[p].row EXCEPT ![j] = y], t.node[p].child, t.node[p].next)

(* The separator of two leaves is a new copy of the first key of the right *)
(* one.                                                                    *)
LEMMA SeparateIs ==
    ASSUME NEW t, Typed(t), NEW U, Spare(t, U), NEW p, p \in U, p \in DOMAIN t.node,
           NEW j, NEW m, m = t.node[RightOf(t, p, j)].row[1], m \in Key,
           j \in 1 .. Len(t.node[p].row),
           NEW v, v = Separate(t, p, j)
    PROVE  \E y : /\ Typed(v) /\ Spare(v, U) /\ DOMAIN v.node = DOMAIN t.node /\ v.root_node = t.root_node
                  /\ Separated(t, v, p, j, m, y)
                  /\ \A b \in DOMAIN t.node : b # p => v.node[b] = t.node[b]
<1> DEFINE s == t.node[p].row[j]
           w == delete_handler(t, s)
           y == NewString(w)
           u == insert_handler(w, m)
           row == [t.node[p].row EXCEPT ![j] = y]
<1>1. /\ Typed(w) /\ Spare(w, U) /\ w.node = t.node /\ w.root_node = t.root_node
      /\ DOMAIN w.string = DOMAIN t.string \ {s}
      /\ \A z \in DOMAIN w.string : w.string[z] = t.string[z]
  <2>1. w = delete_handler(t, s)
    OBVIOUS
  <2> HIDE DEF w
  <2> QED
    BY ONLY <2>1, Typed(t), Spare(t, U), DeleteHandlerIs
<1>2. v = [u EXCEPT !.node[p].row[j] = y]
  <2>1. RightOf(w, p, j) = RightOf(t, p, j)
    BY ONLY <1>1 DEF RightOf
  <2>2. w.node[RightOf(w, p, j)].row[1] = m
    BY ONLY <1>1, <2>1, m = t.node[RightOf(t, p, j)].row[1]
  <2>3. v = [insert_handler(w, w.node[RightOf(w, p, j)].row[1]) EXCEPT !.node[p].row[j] = NewString(w)]
    BY ONLY v = Separate(t, p, j) DEF Separate, w, s, y, u
  <2> QED
    BY ONLY <2>2, <2>3
<1>3. u = insert_handler(w, m) /\ y = NewString(w)
  OBVIOUS
<1>11. s = t.node[p].row[j]
  OBVIOUS
<1> HIDE DEF w, s
<1>4. /\ Typed(u) /\ Spare(u, U) /\ u.node = w.node /\ u.root_node = w.root_node
      /\ y \in Nat /\ y \notin DOMAIN w.string /\ DOMAIN u.string = DOMAIN w.string \cup {y} /\ u.string[y] = m
      /\ \A z \in DOMAIN w.string : u.string[z] = w.string[z]
  <2> HIDE DEF u, y
  <2> QED
    BY ONLY <1>1, <1>3, m \in Key, InsertHandlerIs
<1> HIDE DEF u, y
<1>5. t.node[p] = BNode(t.node[p].leaf, t.node[p].row, t.node[p].child, t.node[p].next) /\ t.node[p].row \in Seq(Nat)
  BY ONLY Typed(t), p \in DOMAIN t.node, NodeIs
<1>6. v = [u EXCEPT !.node[p].row = row]
  BY ONLY <1>1, <1>2, <1>4
<1>7. row \in Seq(Nat)
  BY ONLY <1>4, <1>5, j \in 1 .. Len(t.node[p].row)
<1> HIDE DEF row
<1>8. OnNode(u, v, U, p, BNode(t.node[p].leaf, row, t.node[p].child, t.node[p].next))
  <2>1. u.node[p] = BNode(t.node[p].leaf, t.node[p].row, t.node[p].child, t.node[p].next) /\ p \in DOMAIN u.node
    BY ONLY <1>1, <1>4, <1>5, p \in DOMAIN t.node
  <2> QED
    BY ONLY <1>4, <1>6, <1>7, <2>1, p \in U, RowIs
<1>9. /\ Typed(v) /\ Spare(v, U) /\ DOMAIN v.node = DOMAIN t.node /\ v.root_node = t.root_node
      /\ v.string = u.string
      /\ v.node[p] = BNode(t.node[p].leaf, row, t.node[p].child, t.node[p].next)
      /\ \A b \in DOMAIN t.node : b # p => v.node[b] = t.node[b]
  BY ONLY <1>1, <1>4, <1>8 DEF OnNode
<1>10. /\ y \notin DOMAIN t.string \ {s}
       /\ DOMAIN v.string = (DOMAIN t.string \ {s}) \cup {y} /\ v.string[y] = m
       /\ \A z \in DOMAIN t.string \ {s} : v.string[z] = t.string[z]
  BY ONLY <1>1, <1>4, <1>9
<1>12. Separated(t, v, p, j, m, y)
  BY ONLY <1>9, <1>10, <1>11 DEF Separated, row
<1> QED
  BY ONLY <1>9, <1>12

(* Keys move between two leaves. *)
LEMMA BorrowGood ==
    ASSUME NEW t, NEW g, NEW h, Good(t, g, h, {}, {}), NEW p \in DOMAIN g, g[p].lev = 1,
           NEW j \in 1 .. n(t, p), NEW l, l = LeftOf(t, p, j), NEW r, r = RightOf(t, p, j),
           NEW m \in Nat, g[l].lo < m, m < g[r].hi, NEW g2, g2 = ShiftBound(g, l, r, m),
           NEW rowl, LeafFits([lev |-> 0, lo |-> g[l].lo, hi |-> m], rowl, Key),
           NEW rowr, LeafFits([lev |-> 0, lo |-> m, hi |-> g[r].hi], rowr, Key),
           NEW v, Typed(v), Spare(v, DOMAIN g), DOMAIN v.node = DOMAIN t.node, v.root_node = t.root_node,
           NEW y, Separated(t, v, p, j, m, y),
           v.node[l] = BNode(t.node[l].leaf, rowl, t.node[l].child, t.node[l].next),
           v.node[r] = BNode(t.node[r].leaf, rowr, t.node[r].child, t.node[r].next),
           \A b \in DOMAIN t.node : b # p /\ b # l /\ b # r => v.node[b] = t.node[b]
    PROVE  Good(v, g2, h, {}, {}) /\ n(v, p) = n(t, p)
<1> DEFINE s == t.node[p].row[j]
<1> USE DEF Separated
<1>1. /\ DOMAIN g \subseteq DOMAIN t.node /\ Tiled(g, h, MaxKey)
      /\ \A b \in DOMAIN g : NodeFits(t, g, b)
      /\ Owned(t, g, {})
  BY DEF Good
<1>0. g[p].lev # 0
  OBVIOUS
<1>2. /\ l \in DOMAIN g /\ r \in DOMAIN g /\ l # r /\ l # p /\ r # p
      /\ g[l].lev = g[r].lev /\ g[l].hi = g[r].lo /\ g[r].lev + 1 = g[p].lev
      /\ n(t, p) = Len(t.node[p].row) /\ n(t, p) \in Nat
      /\ InnerFits(t.string, g, g[p], t.node[p].row, t.node[p].child)
      /\ g[p] \in Place /\ Ordered(g)
  BY ONLY Good(t, g, h, {}, {}), p \in DOMAIN g, <1>0, j \in 1 .. n(t, p), l = LeftOf(t, p, j),
          r = RightOf(t, p, j), Siblings
<1>3. g[l].lev = 0 /\ g[r].lev = 0
  <2>1. g[r].lev \in Nat
    BY <1>2 DEF Ordered, Place
  <2> QED
    BY ONLY <1>2, <2>1, g[p].lev = 1
<1>4. /\ v.node[p].leaf = t.node[p].leaf /\ v.node[p].row = [t.node[p].row EXCEPT ![j] = y]
      /\ v.node[p].child = t.node[p].child /\ v.node[p].next = t.node[p].next
      /\ v.node[l].leaf = t.node[l].leaf /\ v.node[l].row = rowl /\ v.node[l].child = t.node[l].child
      /\ v.node[l].next = t.node[l].next
      /\ v.node[r].leaf = t.node[r].leaf /\ v.node[r].row = rowr /\ v.node[r].child = t.node[r].child
      /\ v.node[r].next = t.node[r].next
  BY DEF BNode
<1>5. /\ DOMAIN g2 = DOMAIN g
      /\ g2[l] = [lev |-> g[l].lev, lo |-> g[l].lo, hi |-> m]
      /\ g2[r] = [lev |-> g[r].lev, lo |-> m, hi |-> g[r].hi]
      /\ \A b \in DOMAIN g : b # l /\ b # r => g2[b] = g[b]
  <2>1. /\ Tiled(g2, h, MaxKey) /\ DOMAIN g2 = DOMAIN g
        /\ g2[l] = [lev |-> g[l].lev, lo |-> g[l].lo, hi |-> m]
        /\ g2[r] = [lev |-> g[r].lev, lo |-> m, hi |-> g[r].hi]
        /\ \A b \in DOMAIN g : b # l /\ b # r => g2[b] = g[b]
    BY ONLY <1>1, <1>2, m \in Nat, g[l].lo < m, m < g[r].hi, g2 = ShiftBound(g, l, r, m), ShiftIs
  <2> QED
    BY ONLY <2>1
<1>6. \A b \in DOMAIN g : g2[b].lev = g[b].lev
  <2>1. g2[l].lev = g[l].lev /\ g2[r].lev = g[r].lev
    BY ONLY <1>5
  <2> QED
    BY ONLY <1>5, <2>1
<1>7. /\ t.node[p].row \in Seq(DOMAIN t.string) /\ IsInjective(t.node[p].row)
  <2>1. g[p].lo < g[p].hi
    BY ONLY <1>2, p \in DOMAIN g DEF Ordered
  <2> QED
    BY ONLY <1>1, <1>2, <2>1, InnerIs
<1> DEFINE W == RowSet(t, p)
           W2 == RowSet(v, p)
<1>8. W2 = (W \ {s}) \cup {y} /\ Len(v.node[p].row) = Len(t.node[p].row)
  <2>1. j \in 1 .. Len(t.node[p].row)
    BY <1>2
  <2> DEFINE row == t.node[p].row
             row2 == v.node[p].row
             S == DOMAIN t.string
  <2>3. row \in Seq(S) /\ IsInjective(row) /\ row2 = [row EXCEPT ![j] = y] /\ j \in 1 .. Len(row)
    BY ONLY <1>4, <1>7, <2>1
  <2> HIDE DEF row, row2, S
  <2>4. /\ Len(row2) = Len(row) /\ DOMAIN row2 = 1 .. Len(row) /\ row2[j] = y
        /\ \A i \in 1 .. Len(row) : i # j => row2[i] = row[i]
    BY ONLY <2>3
  <2>5. ToSet(row2) = (ToSet(row) \ {row[j]}) \cup {row2[j]}
    <3> DEFINE N == Len(row)
    <3>1. N \in Nat /\ DOMAIN row = 1 .. N
      BY ONLY <2>3
    <3>2. /\ DOMAIN row2 = 1 .. N /\ j \in 1 .. N
          /\ \A i \in 1 .. N : i # j => row2[i] = row[i]
      BY ONLY <2>3, <2>4
    <3>3. IsInjective(row)
      BY ONLY <2>3
    <3>4. DOMAIN row2 = 1 .. N /\ DOMAIN row = 1 .. N
      BY ONLY <3>1, <3>2
    <3> HIDE DEF N
    <3> QED
      BY ONLY <3>1, <3>2, <3>3, <3>4, ToSetSet
  <2>2. ToSet(v.node[p].row) = (ToSet(t.node[p].row) \ {t.node[p].row[j]}) \cup {y}
        /\ Len(v.node[p].row) = Len(t.node[p].row)
    BY ONLY <2>4, <2>5 DEF row, row2
  <2> QED
    BY ONLY <2>2, s = t.node[p].row[j] DEF RowSet
<1>9. s \in W /\ W \subseteq DOMAIN t.string
  <2>1. s \in W
    BY <1>2, <1>7, ToSetIs DEF RowSet
  <2>2. W \subseteq DOMAIN t.string
    BY <1>7, ToSetIs DEF RowSet
  <2> QED
    BY <2>1, <2>2
<1>10. \A b \in DOMAIN g : g[b].lev # 0 /\ b # p => RowSet(v, b) = RowSet(t, b)
  BY <1>1, <1>3 DEF RowSet
<1> HIDE DEF W, W2
<1>11. Exchange(t, g, {}, v, g2, {}, {p}, {p}, W, W2)
  <2>1. \A b : IsInner(g, b) <=> IsInner(g2, b)
    BY <1>5, <1>6 DEF IsInner
  <2>2. \A b : IsInner(g, b) /\ b \notin {p} => RowSet(v, b) = RowSet(t, b)
    BY <1>10 DEF IsInner
  <2>3. IsInner(g, p) /\ IsInner(g2, p)
    BY <1>0, <2>1 DEF IsInner
  <2>4. \A z : z \in W <=> z \in {} \/ (\E c \in {p} : z \in RowSet(t, c))
    BY DEF W
  <2>5. DOMAIN v.string = (DOMAIN t.string \ W) \cup W2
    BY <1>8, <1>9
  <2>6. (W2 \ W) \cap DOMAIN t.string = {}
    BY <1>8, <1>9
  <2>7. RowSet(v, p) = W2
    BY DEF W2
  <2> QED
    BY ONLY <2>1, <2>2, <2>3, <2>4, <2>5, <2>6, <2>7 DEF Exchange
<1>12. /\ Owned(v, g2, {})
       /\ \A b : IsInner(g, b) /\ b \notin {p} => RowSet(t, b) \subseteq DOMAIN t.string \ W
  BY ONLY <1>1, <1>11, OwnedStep
<1>13. \A b \in DOMAIN g : g[b].lev # 0 /\ b # l /\ b # r /\ b # p
                             => \A z \in RowSet(t, b) : z \in DOMAIN v.string /\ v.string[z] = t.string[z]
  <2>1. \A b \in DOMAIN g : g[b].lev # 0 /\ b # p => RowSet(t, b) \subseteq DOMAIN t.string \ {s}
    BY <1>9, <1>12 DEF IsInner
  <2> QED
    BY <2>1
<1>14. \A i \in 1 .. n(t, p) : i # j => LET z == t.node[p].row[i] IN
                                          z \in DOMAIN v.string /\ v.string[z] = t.string[z]
  <2>1. \A i \in 1 .. n(t, p) : t.node[p].row[i] \in DOMAIN t.string
    BY <1>2, <1>7
  <2>2. \A i \in 1 .. n(t, p) : i # j => t.node[p].row[i] # s
    BY <1>2, <1>7 DEF IsInjective
  <2> QED
    BY <2>1, <2>2
<1>15. NodeFits(v, g2, l) /\ NodeFits(v, g2, r)
  <2>1. t.node[l].child = <<>> /\ t.node[r].child = <<>>
    BY <1>1, <1>2, <1>3 DEF NodeFits
  <2>2. /\ g2[l] = [lev |-> 0, lo |-> g[l].lo, hi |-> m] /\ g2[r] = [lev |-> 0, lo |-> m, hi |-> g[r].hi]
        /\ g2[l].lev = 0 /\ g2[r].lev = 0
    BY <1>3, <1>5
  <2> QED
    BY <1>4, <2>1, <2>2 DEF NodeFits
<1>16. y \in DOMAIN v.string /\ v.string[y] = m
  OBVIOUS
<1>17. \A b \in DOMAIN g : v.node[b].leaf = t.node[b].leaf /\ v.node[b].next = t.node[b].next
  BY <1>1, <1>4
<1>18. \A b \in DOMAIN g : b # l /\ b # r /\ b # p
                             => v.node[b].row = t.node[b].row /\ v.node[b].child = t.node[b].child
  BY <1>1
<1>20. v.node[p].row = [t.node[p].row EXCEPT ![j] = y] /\ v.node[p].child = t.node[p].child
  BY ONLY <1>4
<1>21. Owned(v, g2, {})
  BY ONLY <1>12
<1>19. Good(v, g2, h, {}, {})
  BY ONLY Good(t, g, h, {}, {}), p \in DOMAIN g, <1>0, j \in 1 .. n(t, p), l = LeftOf(t, p, j),
          r = RightOf(t, p, j), m \in Nat, g[l].lo < m, m < g[r].hi, g2 = ShiftBound(g, l, r, m),
          Typed(v), Spare(v, DOMAIN g), DOMAIN v.node = DOMAIN t.node, v.root_node = t.root_node,
          <1>20, <1>21, <1>13, <1>14, <1>15, <1>16, <1>17, <1>18, ShiftGood
<1> QED
  BY <1>8, <1>19 DEF n

(* The tree when p has dropped what came back from below. *)
Dropped(p, r) == IF r.old = NoString THEN r.tree ELSE DropEntry(r.tree, p, r.old)

(* What a call that mends or deletes below p leaves to p: the tree is good *)
(* once p has dropped the void separator, if there is one, and only p may  *)
(* then be too small.                                                      *)
Mended(t, g, h, p, r, K) ==
    LET v == Dropped(p, r) IN
      \E g2 :
        /\ Good(v, g2, h, {}, {}) /\ Keeps(g, g2, g[p].lev)
        /\ v.root_node = t.root_node /\ KeysIn(v, g2) = K
        /\ r.old = NoString => Sized(v, g2, {})
        /\ r.old # NoString => /\ Sized(v, g2, {p}) /\ n(v, p) + 1 = n(r.tree, p)
                               /\ p # t.root_node => n(v, p) + 1 >= DEGREE
                               /\ v.node[p].child[1] = r.tree.node[p].child[1]

(* The numbers of rows that a node other than the root may have. *)
Sizes == DEGREE .. 2 * DEGREE

(* After a borrow both nodes are large enough. *)
LEMMA SizesShift ==
    ASSUME NEW t, NEW g, NEW c, Sized(t, g, {c}), NEW v, NEW g2, DOMAIN g2 = DOMAIN g,
           \A b \in DOMAIN g : g2[b].lev = g[b].lev, v.root_node = t.root_node,
           NEW l, NEW r, c = l \/ c = r,
           \A b \in DOMAIN g : b # l /\ b # r => n(v, b) = n(t, b),
           n(v, l) \in Sizes, n(v, r) \in Sizes
    PROVE  Sized(v, g2, {})
<1>1. DEGREE >= 1
  BY TreeAssumption
<1>2. ASSUME NEW b \in DOMAIN g
      PROVE  /\ n(v, b) <= 2 * DEGREE
             /\ g[b].lev # 0 => n(v, b) >= 1
             /\ b # t.root_node => n(v, b) >= DEGREE
  <2>1. CASE b # l /\ b # r
    BY <2>1 DEF Sized, n
  <2>2. CASE b = l \/ b = r
    BY <1>1, <2>2, TreeAssumption DEF Sizes
  <2> QED
    BY <2>1, <2>2
<1> QED
  BY ONLY <1>2, DOMAIN g2 = DOMAIN g, \A b \in DOMAIN g : g2[b].lev = g[b].lev, v.root_node = t.root_node
  DEF Sized, n

(* After a merge only the parent may be too small. *)
SizesJoined(t, g, v, g2, l, r, p, c) ==
    /\ Sized(t, g, {c}) /\ DOMAIN g2 = DOMAIN g \ {r} /\ c \in {l, r} /\ v.root_node = t.root_node
    /\ \A b \in DOMAIN g2 : g2[b].lev = g[b].lev
    /\ \A b \in DOMAIN g : b # l /\ b # r /\ b # p => n(v, b) = n(t, b)
    /\ n(v, l) \in DEGREE .. 2 * DEGREE /\ n(v, p) <= 2 * DEGREE

(* After a merge only the parent may have too few rows. *)
LEMMA SizesJoin ==
    ASSUME NEW t, NEW g, NEW v, NEW g2, NEW l, NEW r, NEW p, NEW c, SizesJoined(t, g, v, g2, l, r, p, c)
    PROVE  Sized(v, g2, {p})
<1>0. /\ Sized(t, g, {c}) /\ DOMAIN g2 = DOMAIN g \ {r} /\ (c = l \/ c = r) /\ v.root_node = t.root_node
      /\ \A b \in DOMAIN g2 : g2[b].lev = g[b].lev
      /\ \A b \in DOMAIN g : b # l /\ b # r /\ b # p => n(v, b) = n(t, b)
      /\ n(v, l) \in DEGREE .. 2 * DEGREE /\ n(v, p) <= 2 * DEGREE
  BY DEF SizesJoined
<1> USE <1>0
<1>1. DEGREE >= 1
  BY TreeAssumption
<1>2. ASSUME NEW b \in DOMAIN g2
      PROVE  /\ n(v, b) <= 2 * DEGREE
             /\ b # p => /\ g[b].lev # 0 => n(v, b) >= 1
                         /\ b # t.root_node => n(v, b) >= DEGREE
  <2>1. CASE b # l /\ b # r /\ b # p
    BY <2>1 DEF Sized, n
  <2>2. CASE b = l
    BY <1>1, <2>2, TreeAssumption
  <2>3. CASE b = p
    BY <2>3
  <2>4. b # r
    BY <1>2
  <2> QED
    BY <2>1, <2>2, <2>3, <2>4
<1> QED
  BY ONLY <1>2, \A b \in DOMAIN g2 : g2[b].lev = g[b].lev, v.root_node = t.root_node
  DEF Sized, n

(* Rows moved between l and r only. *)
Redivided(t, g, v, p, l, r, rowl, rowr) ==
    /\ n(v, p) = n(t, p) /\ v.root_node = t.root_node
    /\ v.node[l].row = rowl /\ v.node[r].row = rowr
    /\ \A b \in DOMAIN g : b # p /\ b # l /\ b # r => v.node[b] = t.node[b]

(* Rows move between two leaves of p and the separator is renewed. *)
LEMMA Borrowed ==
    ASSUME NEW t, NEW g, NEW h, Good(t, g, h, {}, {}), NEW p \in DOMAIN g, g[p].lev = 1,
           NEW j \in 1 .. n(t, p), NEW l, l = LeftOf(t, p, j), NEW r, r = RightOf(t, p, j),
           NEW rowl, NEW rowr, NEW m, Divided(g[l].lo, g[r].hi, rowl, rowr, m, Key),
           NEW v, v = Separate(TwoRows(t, l, rowl, r, rowr), p, j), NEW g2, g2 = ShiftBound(g, l, r, m)
    PROVE  Good(v, g2, h, {}, {}) /\ Redivided(t, g, v, p, l, r, rowl, rowr)
<1> DEFINE U == DOMAIN g
           t1 == [t EXCEPT !.node[l].row = rowl]
           u == TwoRows(t, l, rowl, r, rowr)
<1>18. v = Separate(u, p, j)
  OBVIOUS
<1>19. /\ m = rowr[1] /\ m \in Key /\ m \in Nat /\ g[l].lo < m /\ m < g[r].hi
       /\ LeafFits([lev |-> 0, lo |-> g[l].lo, hi |-> m], rowl, Key)
       /\ LeafFits([lev |-> 0, lo |-> m, hi |-> g[r].hi], rowr, Key)
  BY ONLY Divided(g[l].lo, g[r].hi, rowl, rowr, m, Key) DEF Divided
<1>1. /\ Typed(t) /\ Spare(t, U) /\ U \subseteq DOMAIN t.node
  BY DEF Good
<1>0. g[p].lev # 0
  BY ONLY g[p].lev = 1
<1>2. /\ l \in U /\ r \in U /\ l # r /\ l # p /\ r # p
      /\ n(t, p) = Len(t.node[p].row)
      /\ t.node[p].row[j] \in DOMAIN t.string
  <2>1. /\ l \in DOMAIN g /\ r \in DOMAIN g /\ l # r /\ l # p /\ r # p
        /\ n(t, p) = Len(t.node[p].row)
        /\ t.node[p].row[j] \in DOMAIN t.string
    BY ONLY Good(t, g, h, {}, {}), p \in DOMAIN g, <1>0, j \in 1 .. n(t, p), l = LeftOf(t, p, j),
            r = RightOf(t, p, j), Siblings
  <2> QED
    BY ONLY <2>1
<1>3. u = [t1 EXCEPT !.node[r].row = rowr] /\ t1 = [t EXCEPT !.node[l].row = rowl]
  BY DEF TwoRows
<1>4. rowl \in Seq(Nat) /\ rowr \in Seq(Nat)
  <2>1. rowl \in Seq(Key) /\ rowr \in Seq(Key)
    BY <1>19 DEF LeafFits
  <2> QED
    BY ONLY <2>1, KeysAreNat
<1>5. p \in U /\ p \in DOMAIN t.node /\ l \in DOMAIN t.node /\ r \in DOMAIN t.node
  BY <1>1, <1>2
<1> HIDE DEF t1, U, u
<1>6. OnNode(t, t1, U, l, BNode(t.node[l].leaf, rowl, t.node[l].child, t.node[l].next))
  <2>1. t.node[l] = BNode(t.node[l].leaf, t.node[l].row, t.node[l].child, t.node[l].next)
    BY ONLY <1>1, <1>5, NodeIs
  <2> QED
    BY ONLY <1>1, <1>2, <1>3, <1>4, <1>5, <2>1, RowIs
<1>7. /\ Typed(t1) /\ Spare(t1, U) /\ DOMAIN t1.node = DOMAIN t.node /\ t1.root_node = t.root_node
      /\ t1.string = t.string
      /\ t1.node[l] = BNode(t.node[l].leaf, rowl, t.node[l].child, t.node[l].next)
      /\ \A b \in DOMAIN t.node : b # l => t1.node[b] = t.node[b]
  BY ONLY <1>6 DEF OnNode
<1>8. OnNode(t1, u, U, r, BNode(t.node[r].leaf, rowr, t.node[r].child, t.node[r].next))
  <2>1. t.node[r] = BNode(t.node[r].leaf, t.node[r].row, t.node[r].child, t.node[r].next)
    BY ONLY <1>1, <1>5, NodeIs
  <2>2. t1.node[r] = BNode(t.node[r].leaf, t.node[r].row, t.node[r].child, t.node[r].next) /\ r \in DOMAIN t1.node
    BY ONLY <1>2, <1>5, <1>7, <2>1
  <2> QED
    BY ONLY <1>2, <1>3, <1>4, <1>7, <2>2, RowIs
<1>9. /\ Typed(u) /\ Spare(u, U) /\ DOMAIN u.node = DOMAIN t.node /\ u.root_node = t.root_node
      /\ u.string = t.string
      /\ u.node[r] = BNode(t.node[r].leaf, rowr, t.node[r].child, t.node[r].next)
      /\ \A b \in DOMAIN t.node : b # r => u.node[b] = t1.node[b]
  BY ONLY <1>7, <1>8 DEF OnNode
<1>10. /\ u.node[p] = t.node[p] /\ u.node[l] = BNode(t.node[l].leaf, rowl, t.node[l].child, t.node[l].next)
       /\ \A b \in DOMAIN t.node : b # l /\ b # r => u.node[b] = t.node[b]
  BY ONLY <1>2, <1>5, <1>7, <1>9
<1>11. \E y : /\ Typed(v) /\ Spare(v, U) /\ DOMAIN v.node = DOMAIN u.node /\ v.root_node = u.root_node
              /\ Separated(u, v, p, j, m, y)
              /\ \A b \in DOMAIN u.node : b # p => v.node[b] = u.node[b]
  <2>1. p \in DOMAIN u.node /\ j \in 1 .. Len(u.node[p].row)
    BY ONLY <1>2, <1>5, <1>9, <1>10, j \in 1 .. n(t, p)
  <2>3. m \in Key
    BY ONLY <1>19
  <2>2. m = u.node[RightOf(u, p, j)].row[1]
    <3>1. RightOf(u, p, j) = r
      BY ONLY <1>10, r = RightOf(t, p, j) DEF RightOf
    <3>2. u.node[r].row = rowr
      BY ONLY <1>9 DEF BNode
    <3> QED
      BY ONLY <3>1, <3>2, <1>19
  <2> QED
    BY ONLY <1>5, <1>9, <2>1, <2>2, <2>3, <1>18, SeparateIs
<1>12. PICK y : /\ Typed(v) /\ Spare(v, U) /\ DOMAIN v.node = DOMAIN u.node /\ v.root_node = u.root_node
                /\ Separated(u, v, p, j, m, y)
                /\ \A b \in DOMAIN u.node : b # p => v.node[b] = u.node[b]
  BY ONLY <1>11
<1>14. /\ Typed(v) /\ Spare(v, DOMAIN g) /\ DOMAIN v.node = DOMAIN t.node /\ v.root_node = t.root_node
  BY ONLY <1>9, <1>12 DEF U
<1>13. Separated(t, v, p, j, m, y)
  BY ONLY <1>9, <1>10, <1>12 DEF Separated
<1>15. /\ v.node[l] = BNode(t.node[l].leaf, rowl, t.node[l].child, t.node[l].next)
       /\ v.node[r] = BNode(t.node[r].leaf, rowr, t.node[r].child, t.node[r].next)
       /\ \A b \in DOMAIN t.node : b # p /\ b # l /\ b # r => v.node[b] = t.node[b]
  BY ONLY <1>2, <1>5, <1>9, <1>10, <1>12
<1>16. Good(v, g2, h, {}, {}) /\ n(v, p) = n(t, p)
  BY ONLY Good(t, g, h, {}, {}), p \in DOMAIN g, g[p].lev = 1, j \in 1 .. n(t, p), l = LeftOf(t, p, j),
          r = RightOf(t, p, j), g2 = ShiftBound(g, l, r, m), <1>19, <1>13, <1>14, <1>15, BorrowGood
<1>17. v.node[l].row = rowl /\ v.node[r].row = rowr
  BY ONLY <1>15 DEF BNode
<1> QED
  BY ONLY <1>1, <1>14, <1>15, <1>16, <1>17 DEF U, Redivided

-----------------------------------------------------------------------------
(* A node takes a row of its neighbour. *)

(* A result that takes no row from the parent. *)
LEMMA KeptIs ==
    ASSUME NEW t, NEW p, NEW r, r = Kept(t)
    PROVE  Dropped(p, r) = t /\ r.old = NoString /\ r.tree = t
  BY DEF Kept, Dropped

(* The rows of a leaf with DEGREE - 1 rows and of its neighbour are        *)
(* divided anew.                                                           *)
LEMMA BorrowMends ==
    ASSUME NEW t, NEW g, NEW h, Good(t, g, h, {}, {}), NEW p \in DOMAIN g, g[p].lev = 1,
           NEW j \in 1 .. n(t, p), NEW l, l = LeftOf(t, p, j), NEW r, r = RightOf(t, p, j),
           NEW c, c = l \/ c = r, Sized(t, g, {c}),
           NEW rowl, NEW rowr, NEW m, Divided(g[l].lo, g[r].hi, rowl, rowr, m, Key),
           Len(rowl) \in DEGREE .. 2 * DEGREE, Len(rowr) \in DEGREE .. 2 * DEGREE,
           ToSet(rowl) \cup ToSet(rowr) = RowSet(t, l) \cup RowSet(t, r),
           NEW v, v = Separate(TwoRows(t, l, rowl, r, rowr), p, j)
    PROVE  Mended(t, g, h, p, Kept(v), KeysIn(t, g))
<1> DEFINE g2 == ShiftBound(g, l, r, m)
<1>1. /\ Good(v, g2, h, {}, {}) /\ n(v, p) = n(t, p) /\ v.root_node = t.root_node
      /\ v.node[l].row = rowl /\ v.node[r].row = rowr
      /\ \A b \in DOMAIN g : b # p /\ b # l /\ b # r => v.node[b] = t.node[b]
  <2>1. g2 = ShiftBound(g, l, r, m)
    OBVIOUS
  <2> HIDE DEF g2
  <2>2. Good(v, g2, h, {}, {}) /\ Redivided(t, g, v, p, l, r, rowl, rowr)
    BY ONLY Good(t, g, h, {}, {}), p \in DOMAIN g, g[p].lev = 1, j \in 1 .. n(t, p), l = LeftOf(t, p, j),
            r = RightOf(t, p, j), Divided(g[l].lo, g[r].hi, rowl, rowr, m, Key),
            v = Separate(TwoRows(t, l, rowl, r, rowr), p, j), <2>1, Borrowed
  <2> QED
    BY ONLY <2>2 DEF Redivided
<1>2. g[p].lev # 0
  OBVIOUS
<1>0. m \in Nat /\ g[l].lo < m /\ m < g[r].hi
  BY ONLY Divided(g[l].lo, g[r].hi, rowl, rowr, m, Key) DEF Divided
<1>3. /\ l \in DOMAIN g /\ r \in DOMAIN g /\ l # r /\ l # p /\ r # p
      /\ g[l].lev + 1 = g[p].lev /\ g[l].lev = g[r].lev /\ g[l].hi = g[r].lo
      /\ Tiled(g, h, MaxKey)
  <2>1. /\ l \in DOMAIN g /\ r \in DOMAIN g /\ l # r /\ l # p /\ r # p
        /\ g[l].lev + 1 = g[p].lev /\ g[l].lev = g[r].lev /\ g[l].hi = g[r].lo
        /\ Tiled(g, h, MaxKey)
    BY ONLY Good(t, g, h, {}, {}), p \in DOMAIN g, <1>2, j \in 1 .. n(t, p), l = LeftOf(t, p, j),
            r = RightOf(t, p, j), Siblings
  <2> QED
    BY ONLY <2>1
<1>4. g[l].lev = 0 /\ g[r].lev = 0
  <2>1. \A b \in DOMAIN g : g[b].lev \in Nat
    BY ONLY <1>3, TiledIs
  <2> QED
    BY ONLY <1>3, <2>1, g[p].lev = 1
<1>5. g2 = ShiftBound(g, l, r, m)
  OBVIOUS
<1> HIDE DEF g2
<1>6. /\ Tiled(g2, h, MaxKey) /\ DOMAIN g2 = DOMAIN g
      /\ g2[l] = [lev |-> g[l].lev, lo |-> g[l].lo, hi |-> m]
      /\ g2[r] = [lev |-> g[r].lev, lo |-> m, hi |-> g[r].hi]
      /\ \A x \in DOMAIN g : x # l /\ x # r => g2[x] = g[x]
  BY ONLY <1>3, <1>5, <1>0, ShiftIs
<1>7. g2[l].lev = g[l].lev /\ g2[r].lev = g[r].lev
  BY ONLY <1>6
<1>8. \A b \in DOMAIN g : g2[b].lev = g[b].lev
  BY ONLY <1>6, <1>7
<1>9. Keeps(g, g2, g[p].lev)
  <2>1. ~(g[l].lev >= g[p].lev) /\ ~(g[r].lev >= g[p].lev)
    BY ONLY <1>4, g[p].lev = 1
  <2> DEFINE w == g[p].lev
  <2> HIDE DEF w
  <2> QED
    BY ONLY <1>6, <1>7, <2>1, ShiftKeeps DEF w
<1>10. Sized(v, g2, {})
  <2>1. \A b \in DOMAIN g : b # l /\ b # r => n(v, b) = n(t, b)
    BY ONLY <1>1 DEF n
  <2>2. n(v, l) \in Sizes /\ n(v, r) \in Sizes
    BY <1>1 DEF n, Sizes
  <2> QED
    BY ONLY Sized(t, g, {c}), <1>1, <1>6, <1>8, c = l \/ c = r, <2>1, <2>2, SizesShift
<1>11. KeysIn(v, g2) = KeysIn(t, g)
  <2>1. \A b : b # l /\ b # r => (b \in DOMAIN g /\ g[b].lev = 0 <=> b \in DOMAIN g2 /\ g2[b].lev = 0)
    BY ONLY <1>6, <1>8
  <2>2. \A b \in DOMAIN g : g[b].lev = 0 /\ b # l /\ b # r => RowSet(v, b) = RowSet(t, b)
    <3>1. \A b \in DOMAIN g : g[b].lev = 0 => b # p
      BY ONLY <1>2
    <3> QED
      BY ONLY <1>1, <3>1 DEF RowSet
  <2>3. RowSet(v, l) \cup (IF r \in DOMAIN g2 THEN RowSet(v, r) ELSE {}) = RowSet(t, l) \cup RowSet(t, r)
    <3>1. r \in DOMAIN g2
      BY ONLY <1>3, <1>6
    <3> QED
      BY ONLY <1>1, <3>1, ToSet(rowl) \cup ToSet(rowr) = RowSet(t, l) \cup RowSet(t, r) DEF RowSet
  <2>4. l \in DOMAIN g2 /\ g2[l].lev = 0 /\ g2[r].lev = 0
    BY ONLY <1>3, <1>4, <1>6, <1>7
  <2> QED
    BY ONLY <1>3, <1>4, <2>1, <2>2, <2>3, <2>4, KeysMoved
<1>12. Dropped(p, Kept(v)) = v /\ Kept(v).old = NoString
  BY ONLY KeptIs
<1> QED
  BY ONLY <1>1, <1>9, <1>10, <1>11, <1>12 DEF Mended

(* The facts of two neighbouring leaves. *)
LEMMA TwoLeaves ==
    ASSUME NEW t, NEW g, NEW h, Good(t, g, h, {}, {}), NEW p \in DOMAIN g, g[p].lev = 1,
           NEW j \in 1 .. n(t, p), NEW l, l = LeftOf(t, p, j), NEW r, r = RightOf(t, p, j)
    PROVE  /\ l \in DOMAIN g /\ r \in DOMAIN g /\ l # r /\ l # p /\ r # p
           /\ g[l].lev = 0 /\ g[r].lev = 0 /\ g[l].hi = g[r].lo
           /\ g[l] \in Place /\ g[r] \in Place /\ g[l].lo < g[l].hi /\ g[r].lo < g[r].hi
           /\ LeafFits(g[l], t.node[l].row, Key) /\ LeafFits(g[r], t.node[r].row, Key)
           /\ n(t, l) = Len(t.node[l].row) /\ n(t, r) = Len(t.node[r].row)
           /\ n(t, l) \in Nat /\ n(t, r) \in Nat
           /\ t.node[l].child = <<>> /\ t.node[r].child = <<>>
<1>2. g[p].lev # 0
  OBVIOUS
<1>3. /\ l \in DOMAIN g /\ r \in DOMAIN g /\ l # r /\ l # p /\ r # p
      /\ g[l].lev + 1 = g[p].lev /\ g[l].lev = g[r].lev /\ g[l].hi = g[r].lo
      /\ Tiled(g, h, MaxKey)
  <2>1. /\ l \in DOMAIN g /\ r \in DOMAIN g /\ l # r /\ l # p /\ r # p
        /\ g[l].lev + 1 = g[p].lev /\ g[l].lev = g[r].lev /\ g[l].hi = g[r].lo
        /\ Tiled(g, h, MaxKey)
    BY ONLY Good(t, g, h, {}, {}), p \in DOMAIN g, <1>2, j \in 1 .. n(t, p), l = LeftOf(t, p, j),
            r = RightOf(t, p, j), Siblings
  <2> QED
    BY ONLY <2>1
<1>4. \A b \in DOMAIN g : g[b].lev \in Nat /\ g[b] \in Place /\ g[b].lo < g[b].hi
  BY ONLY <1>3, TiledIs
<1>5. g[l].lev = 0 /\ g[r].lev = 0
  BY ONLY <1>3, <1>4, g[p].lev = 1
<1>6. \A b \in DOMAIN g : NodeFits(t, g, b)
  BY DEF Good
<1>7. /\ LeafFits(g[l], t.node[l].row, Key) /\ LeafFits(g[r], t.node[r].row, Key)
      /\ t.node[l].child = <<>> /\ t.node[r].child = <<>>
  BY ONLY <1>3, <1>5, <1>6 DEF NodeFits
<1>8. Len(t.node[l].row) \in Nat /\ Len(t.node[r].row) \in Nat
  <2>1. Len(t.node[l].row) \in Nat
    BY ONLY <1>7, LeafDistinct
  <2>2. Len(t.node[r].row) \in Nat
    BY ONLY <1>7, LeafDistinct
  <2> QED
    BY ONLY <2>1, <2>2
<1> QED
  BY ONLY <1>3, <1>4, <1>5, <1>7, <1>8 DEF n

(* A leaf takes the first row of its right neighbour. *)
LEMMA BorrowFirstMends ==
    ASSUME NEW t, NEW g, NEW h, Good(t, g, h, {}, {}), NEW p \in DOMAIN g, g[p].lev = 1,
           NEW j \in 1 .. n(t, p), NEW l, l = LeftOf(t, p, j), NEW r, r = RightOf(t, p, j),
           Sized(t, g, {l}), n(t, l) = DEGREE - 1, HasSpare(t, r)
    PROVE  Mended(t, g, h, p, Kept(BorrowFirst(t, p, j)), KeysIn(t, g))
<1> DEFINE rowl == Append(t.node[l].row, Head(t.node[r].row))
           rowr == Tail(t.node[r].row)
           m == rowr[1]
           v == Separate(TwoRows(t, l, rowl, r, rowr), p, j)
<1>1. /\ l \in DOMAIN g /\ r \in DOMAIN g /\ l # r /\ l # p /\ r # p
      /\ g[l].lev = 0 /\ g[r].lev = 0 /\ g[l].hi = g[r].lo
      /\ g[l] \in Place /\ g[r] \in Place /\ g[l].lo < g[l].hi /\ g[r].lo < g[r].hi
      /\ LeafFits(g[l], t.node[l].row, Key) /\ LeafFits(g[r], t.node[r].row, Key)
      /\ n(t, l) = Len(t.node[l].row) /\ n(t, r) = Len(t.node[r].row)
      /\ n(t, l) \in Nat /\ n(t, r) \in Nat
      /\ t.node[l].child = <<>> /\ t.node[r].child = <<>>
  BY ONLY Good(t, g, h, {}, {}), p \in DOMAIN g, g[p].lev = 1, j \in 1 .. n(t, p), l = LeftOf(t, p, j),
          r = RightOf(t, p, j), TwoLeaves
<1>2. DEGREE \in Nat /\ DEGREE >= 2
  BY TreeAssumption
<1>3. n(t, r) > DEGREE /\ n(t, r) <= 2 * DEGREE
  BY ONLY <1>1, HasSpare(t, r), Sized(t, g, {l}) DEF HasSpare, Sized, n
<1>4. Len(t.node[r].row) >= 2
  BY ONLY <1>1, <1>2, <1>3
<1>5. rowl = Append(t.node[l].row, Head(t.node[r].row)) /\ rowr = Tail(t.node[r].row) /\ m = rowr[1]
      /\ v = Separate(TwoRows(t, l, rowl, r, rowr), p, j)
  OBVIOUS
<1>6. BorrowFirst(t, p, j) = v
  BY ONLY <1>1, l = LeftOf(t, p, j), r = RightOf(t, p, j) DEF BorrowFirst, TwoRows, v, rowl, rowr
<1> HIDE DEF rowl, rowr, m, v
<1>7. /\ Divided(g[l].lo, g[r].hi, rowl, rowr, m, Key)
      /\ Len(rowl) = Len(t.node[l].row) + 1 /\ Len(rowr) + 1 = Len(t.node[r].row)
      /\ ToSet(rowl) \cup ToSet(rowr) = ToSet(t.node[l].row) \cup ToSet(t.node[r].row)
  <2> DEFINE row == t.node[l].row
             row2 == t.node[r].row
             at == g[l]
             at2 == g[r]
  <2>1. /\ at \in Place /\ at2 \in Place /\ LeafFits(at, row, Key) /\ LeafFits(at2, row2, Key)
        /\ at.lo < at.hi /\ at2.lo < at2.hi /\ at.hi = at2.lo
    BY ONLY <1>1
  <2>2. Len(row2) >= 2 /\ rowl = Append(row, Head(row2)) /\ rowr = Tail(row2) /\ m = rowr[1]
    BY ONLY <1>4, <1>5
  <2> HIDE DEF row, row2, at, at2, Together
  <2>3. Divided(at.lo, at2.hi, rowl, rowr, rowr[1], Key)
    BY ONLY <2>1, <2>2, FirstMoves
  <2>4. Len(rowl) = Len(row) + 1 /\ Len(rowr) + 1 = Len(row2)
    BY ONLY <2>1, <2>2, FirstMoves
  <2>5. Together(rowl, rowr, row, row2)
    BY ONLY <2>1, <2>2, FirstMoves
  <2> QED
    BY ONLY <1>5, <2>3, <2>4, <2>5 DEF row, row2, at, at2, Together
<1>8. Len(rowl) \in DEGREE .. 2 * DEGREE /\ Len(rowr) \in DEGREE .. 2 * DEGREE
  <2>1. rowr \in Seq(Key)
    BY ONLY <1>7 DEF LeafFits, Divided
  <2>2. Len(rowr) \in Nat
    BY ONLY <2>1
  <2> QED
    BY ONLY <1>1, <1>2, <1>3, <1>7, <2>2, n(t, l) = DEGREE - 1
<1>9. ToSet(rowl) \cup ToSet(rowr) = RowSet(t, l) \cup RowSet(t, r)
  BY ONLY <1>7 DEF RowSet
<1>10. Mended(t, g, h, p, Kept(v), KeysIn(t, g))
  <2> DEFINE c == l
  <2>1. (c = l \/ c = r) /\ Sized(t, g, {c})
    BY Sized(t, g, {l})
  <2> HIDE DEF c
  <2> QED
    BY ONLY Good(t, g, h, {}, {}), p \in DOMAIN g, g[p].lev = 1, j \in 1 .. n(t, p), l = LeftOf(t, p, j),
            r = RightOf(t, p, j), <2>1, <1>5, <1>7, <1>8, <1>9, BorrowMends
<1> QED
  BY ONLY <1>6, <1>10

(* A leaf takes the last row of its left neighbour. *)
LEMMA BorrowLastMends ==
    ASSUME NEW t, NEW g, NEW h, Good(t, g, h, {}, {}), NEW p \in DOMAIN g, g[p].lev = 1,
           NEW j \in 1 .. n(t, p), NEW l, l = LeftOf(t, p, j), NEW r, r = RightOf(t, p, j),
           Sized(t, g, {r}), n(t, r) = DEGREE - 1, HasSpare(t, l)
    PROVE  Mended(t, g, h, p, Kept(BorrowLast(t, p, j)), KeysIn(t, g))
<1> DEFINE rowl == Front(t.node[l].row)
           rowr == <<Last(t.node[l].row)>> \o t.node[r].row
           m == rowr[1]
           v == Separate(TwoRows(t, l, rowl, r, rowr), p, j)
<1>1. /\ l \in DOMAIN g /\ r \in DOMAIN g /\ l # r /\ l # p /\ r # p
      /\ g[l].lev = 0 /\ g[r].lev = 0 /\ g[l].hi = g[r].lo
      /\ g[l] \in Place /\ g[r] \in Place /\ g[l].lo < g[l].hi /\ g[r].lo < g[r].hi
      /\ LeafFits(g[l], t.node[l].row, Key) /\ LeafFits(g[r], t.node[r].row, Key)
      /\ n(t, l) = Len(t.node[l].row) /\ n(t, r) = Len(t.node[r].row)
      /\ n(t, l) \in Nat /\ n(t, r) \in Nat
      /\ t.node[l].child = <<>> /\ t.node[r].child = <<>>
  BY ONLY Good(t, g, h, {}, {}), p \in DOMAIN g, g[p].lev = 1, j \in 1 .. n(t, p), l = LeftOf(t, p, j),
          r = RightOf(t, p, j), TwoLeaves
<1>2. DEGREE \in Nat /\ DEGREE >= 2
  BY TreeAssumption
<1>3. n(t, l) > DEGREE /\ n(t, l) <= 2 * DEGREE
  BY ONLY <1>1, HasSpare(t, l), Sized(t, g, {r}) DEF HasSpare, Sized, n
<1>4. Len(t.node[l].row) >= 2
  BY ONLY <1>1, <1>2, <1>3
<1>5. rowl = Front(t.node[l].row) /\ rowr = <<Last(t.node[l].row)>> \o t.node[r].row /\ m = rowr[1]
      /\ v = Separate(TwoRows(t, l, rowl, r, rowr), p, j)
  OBVIOUS
<1>6. BorrowLast(t, p, j) = v
  <2>1. TwoRows(t, l, rowl, r, rowr) = [[t EXCEPT !.node[r].row = rowr] EXCEPT !.node[l].row = rowl]
    BY ONLY <1>1 DEF TwoRows
  <2>2. BorrowLast(t, p, j) = Separate([[t EXCEPT !.node[r].row = rowr] EXCEPT !.node[l].row = rowl], p, j)
    BY ONLY <1>1, l = LeftOf(t, p, j), r = RightOf(t, p, j) DEF BorrowLast
  <2> QED
    BY ONLY <2>1, <2>2 DEF v
<1> HIDE DEF rowl, rowr, m, v
<1>7. /\ Divided(g[l].lo, g[r].hi, rowl, rowr, m, Key)
      /\ Len(rowl) + 1 = Len(t.node[l].row) /\ Len(rowr) = Len(t.node[r].row) + 1
      /\ ToSet(rowl) \cup ToSet(rowr) = ToSet(t.node[l].row) \cup ToSet(t.node[r].row)
  <2> DEFINE row == t.node[l].row
             row2 == t.node[r].row
             at == g[l]
             at2 == g[r]
  <2>1. /\ at \in Place /\ at2 \in Place /\ LeafFits(at, row, Key) /\ LeafFits(at2, row2, Key)
        /\ at.lo < at.hi /\ at2.lo < at2.hi /\ at.hi = at2.lo
    BY ONLY <1>1
  <2>2. Len(row) >= 2 /\ rowl = Front(row) /\ rowr = <<Last(row)>> \o row2 /\ m = rowr[1]
    BY ONLY <1>4, <1>5
  <2> HIDE DEF row, row2, at, at2, Together
  <2>3. Divided(at.lo, at2.hi, rowl, rowr, rowr[1], Key)
    BY ONLY <2>1, <2>2, LastMoves
  <2>4. Len(rowl) + 1 = Len(row) /\ Len(rowr) = Len(row2) + 1
    BY ONLY <2>1, <2>2, LastMoves
  <2>5. Together(rowl, rowr, row, row2)
    BY ONLY <2>1, <2>2, LastMoves
  <2> QED
    BY ONLY <1>5, <2>3, <2>4, <2>5 DEF row, row2, at, at2, Together
<1>8. Len(rowl) \in DEGREE .. 2 * DEGREE /\ Len(rowr) \in DEGREE .. 2 * DEGREE
  <2>1. rowl \in Seq(Key)
    BY ONLY <1>7 DEF LeafFits, Divided
  <2>2. Len(rowl) \in Nat
    BY ONLY <2>1
  <2> QED
    BY ONLY <1>1, <1>2, <1>3, <1>7, <2>2, n(t, r) = DEGREE - 1
<1>9. ToSet(rowl) \cup ToSet(rowr) = RowSet(t, l) \cup RowSet(t, r)
  BY ONLY <1>7 DEF RowSet
<1>10. Mended(t, g, h, p, Kept(v), KeysIn(t, g))
  <2> DEFINE c == r
  <2>1. (c = l \/ c = r) /\ Sized(t, g, {c})
    BY Sized(t, g, {r})
  <2> HIDE DEF c
  <2> QED
    BY ONLY Good(t, g, h, {}, {}), p \in DOMAIN g, g[p].lev = 1, j \in 1 .. n(t, p), l = LeftOf(t, p, j),
            r = RightOf(t, p, j), <2>1, <1>5, <1>7, <1>8, <1>9, BorrowMends
<1> QED
  BY ONLY <1>6, <1>10

(* The rows of leaf b but for k. *)
Without(t, b, k, row) ==
    Len(row) + 1 = n(t, b) /\ ToSet(row) = RowSet(t, b) \ {k} /\ row \in Seq(Key)

(* The rows of a leaf without one of its keys. *)
LEMMA LeafDrop ==
    ASSUME NEW t, NEW at, at \in Place, NEW b, t.node[b].leaf, LeafFits(at, t.node[b].row, Key),
           NEW k, k \in Nat, k \in RowSet(t, b),
           NEW row, row = RemoveAt(t.node[b].row, find_index(t, b, k))
    PROVE  LeafFits(at, row, Key) /\ Without(t, b, k, row)
<1> DEFINE old == t.node[b].row
           i == find_index(t, b, k)
           N == Len(old)
<1>1. /\ old \in Seq(Key) /\ N \in Nat /\ IsInjective(old)
      /\ \A m \in 1 .. N : at.lo <= old[m] /\ old[m] < at.hi
      /\ \A a, c \in 1 .. N : a < c => old[a] < old[c]
  <2>1. old \in Seq(Key) /\ N \in Nat /\ IsInjective(old)
    BY LeafDistinct
  <2> QED
    BY <2>1 DEF LeafFits
<1>0. Key \subseteq Nat
  BY DEF LeafFits
<1>2. i \in 1 .. N /\ old[i] = k
  <2>1. i = find_index(t, b, k)
    OBVIOUS
  <2> HIDE DEF i
  <2>2. FoundRow(t.node[b].row, k, i)
    BY ONLY t.node[b].leaf, LeafFits(at, t.node[b].row, Key), k \in Nat, <2>1, FindRow
  <2> QED
    BY <2>2 DEF RowSet, FoundRow
<1>3. row = RemoveAt(old, i) /\ n(t, b) = N /\ RowSet(t, b) = ToSet(old) /\ N = Len(old)
  BY DEF n, RowSet
<1> HIDE DEF i, old, N
<1>4. i \in 1 .. Len(old)
  BY ONLY <1>2, <1>3
<1>5. /\ row \in Seq(Key) /\ Len(row) = N - 1
      /\ \A m \in 1 .. i - 1 : row[m] = old[m]
      /\ \A m \in i .. N - 1 : row[m] = old[m + 1]
  <2>1. /\ RemoveAt(old, i) \in Seq(Key) /\ Len(RemoveAt(old, i)) = Len(old) - 1
        /\ \A m \in 1 .. i - 1 : RemoveAt(old, i)[m] = old[m]
        /\ \A m \in i .. Len(old) - 1 : RemoveAt(old, i)[m] = old[m + 1]
    BY ONLY <1>1, <1>4, RemoveAtIs
  <2> QED
    BY ONLY <1>3, <2>1
<1>6. ToSet(row) = ToSet(old) \ {k}
  <2>1. ToSet(RemoveAt(old, i)) = ToSet(old) \ {old[i]}
    BY ONLY <1>1, <1>4, ToSetRemoveAt
  <2> QED
    BY ONLY <1>2, <1>3, <2>1
<1> DEFINE from(m) == IF m < i THEN m ELSE m + 1
<1>7. ASSUME NEW m \in 1 .. N - 1 PROVE from(m) \in 1 .. N /\ row[m] = old[from(m)]
  <2>1. CASE m < i
    <3>1. m \in 1 .. i - 1 /\ m \in 1 .. N
      BY ONLY <1>1, <1>2, <2>1, m \in 1 .. N - 1
    <3> QED
      BY <1>5, <2>1, <3>1
  <2>2. CASE ~(m < i)
    <3>1. m \in i .. N - 1 /\ m + 1 \in 1 .. N
      BY ONLY <1>1, <1>2, <2>2, m \in 1 .. N - 1
    <3> QED
      BY <1>5, <2>2, <3>1
  <2> QED
    BY <2>1, <2>2
<1>8. ASSUME NEW a \in 1 .. N - 1, NEW c \in 1 .. N - 1, a < c PROVE from(a) < from(c)
  BY ONLY <1>1, <1>2, <1>8, a \in 1 .. N - 1, c \in 1 .. N - 1
<1> HIDE DEF from
<1>9. /\ \A m \in 1 .. N - 1 : at.lo <= row[m] /\ row[m] < at.hi
      /\ \A a, c \in 1 .. N - 1 : a < c => row[a] < row[c]
  BY ONLY <1>1, <1>7, <1>8
<1> QED
  BY ONLY <1>0, <1>1, <1>3, <1>5, <1>6, <1>9 DEF LeafFits, Without

(* A leaf loses one of its keys, and so does the tree. *)
RowDropped(t, g, h, v, c, k) ==
    /\ Good(v, g, h, {}, {}) /\ n(v, c) + 1 = n(t, c) /\ KeysIn(v, g) = KeysIn(t, g) \ {k}
    /\ \A x \in DOMAIN g : x # c => v.node[x] = t.node[x]
    /\ v.root_node = t.root_node /\ v.string = t.string
    /\ Sized(v, g, {c}) /\ (n(t, c) > DEGREE \/ c = t.root_node => Sized(v, g, {}))

(* A leaf loses one of its keys, and so does the tree. *)
LEMMA DropRowIs ==
    ASSUME NEW t, NEW g, NEW h, Good(t, g, h, {}, {}), Sized(t, g, {}), NEW c, c \in DOMAIN g, g[c].lev = 0,
           NEW k, k \in Nat, k \in RowSet(t, c), NEW v, v = DropRow(t, c, k)
    PROVE  RowDropped(t, g, h, v, c, k)
<1> DEFINE row == RemoveAt(t.node[c].row, find_index(t, c, k))
<1>1. /\ Tiled(g, h, MaxKey) /\ \A b \in DOMAIN g : NodeFits(t, g, b)
      /\ t.node[c].leaf
  BY DEF Good
<1>2. \A b \in DOMAIN g : g[b].lev = 0 => LeafFits(g[b], t.node[b].row, Key)
  BY ONLY <1>1 DEF NodeFits
<1>3. \A b \in DOMAIN g : g[b] \in Place /\ g[b].lo < g[b].hi /\ g[b].lo \in Nat /\ g[b].hi \in Nat
  BY ONLY <1>1, TiledIs
<1>4. row = RemoveAt(t.node[c].row, find_index(t, c, k)) /\ v = WithRow(t, c, row)
  BY DEF DropRow, WithRow
<1> HIDE DEF row
<1>5. /\ LeafFits(g[c], row, Key) /\ Len(row) + 1 = n(t, c) /\ ToSet(row) = RowSet(t, c) \ {k}
      /\ row \in Seq(Key)
  <2> DEFINE at == g[c]
  <2>1. at \in Place /\ LeafFits(at, t.node[c].row, Key)
    BY ONLY <1>2, <1>3, c \in DOMAIN g, g[c].lev = 0
  <2> HIDE DEF at
  <2>2. LeafFits(at, row, Key) /\ Without(t, c, k, row)
    BY ONLY <1>1, <1>4, <2>1, k \in Nat, k \in RowSet(t, c), LeafDrop
  <2> QED
    BY ONLY <2>2 DEF at, Without
<1>6. /\ Good(v, g, h, {}, {})
      /\ v.node[c].row = row /\ \A x \in DOMAIN g : x # c => v.node[x] = t.node[x]
      /\ v.root_node = t.root_node /\ v.string = t.string
  <2>1. Good(v, g, h, {}, {}) /\ OnlyRow(t, g, v, c, row)
    BY ONLY Good(t, g, h, {}, {}), c \in DOMAIN g, g[c].lev = 0, <1>4, <1>5, PutLeafStays
  <2> QED
    BY ONLY <2>1 DEF OnlyRow
<1>7. RowSet(v, c) = RowSet(t, c) \ {k} /\ \A x \in DOMAIN g : x # c => RowSet(v, x) = RowSet(t, x)
  BY ONLY <1>5, <1>6 DEF RowSet
<1>8. ASSUME NEW b \in DOMAIN g, g[b].lev = 0, k \in RowSet(t, b) PROVE b = c
  <2>1. \A x \in DOMAIN g : g[x].lev = 0 /\ k \in RowSet(t, x) => g[x].lo <= k /\ k < g[x].hi
    <3>1. ASSUME NEW x \in DOMAIN g, g[x].lev = 0, k \in RowSet(t, x) PROVE g[x].lo <= k /\ k < g[x].hi
      <4>1. t.node[x].row \in Seq(Key) /\ \A i \in 1 .. Len(t.node[x].row) :
                                          g[x].lo <= t.node[x].row[i] /\ t.node[x].row[i] < g[x].hi
        BY ONLY <1>2, x \in DOMAIN g, g[x].lev = 0 DEF LeafFits
      <4>2. \E i \in 1 .. Len(t.node[x].row) : t.node[x].row[i] = k
        BY ONLY <4>1, k \in RowSet(t, x) DEF RowSet, ToSet
      <4> QED
        BY ONLY <4>1, <4>2
    <3> QED
      BY ONLY <3>1
  <2>2. g[c].lo <= k /\ k < g[c].hi /\ g[b].lo <= k /\ k < g[b].hi
    BY ONLY <1>8, <2>1, c \in DOMAIN g, g[c].lev = 0, k \in RowSet(t, c)
  <2>3. g[b].lev = g[c].lev
    BY ONLY <1>8, g[c].lev = 0
  <2> QED
    BY ONLY <1>1, <1>8, <2>2, <2>3, c \in DOMAIN g, k \in Nat, OnlyOne
<1>9. KeysIn(v, g) = KeysIn(t, g) \ {k}
  <2>1. ASSUME NEW x \in KeysIn(v, g) PROVE x \in KeysIn(t, g) /\ x # k
    <3>1. PICK b \in DOMAIN g : g[b].lev = 0 /\ x \in RowSet(v, b)
      BY ONLY <2>1 DEF KeysIn
    <3>2. x \in RowSet(t, b) /\ x # k
      BY ONLY <1>7, <1>8, <3>1, c \in DOMAIN g
    <3> QED
      BY ONLY <3>1, <3>2 DEF KeysIn
  <2>2. ASSUME NEW x \in KeysIn(t, g), x # k PROVE x \in KeysIn(v, g)
    <3>1. PICK b \in DOMAIN g : g[b].lev = 0 /\ x \in RowSet(t, b)
      BY ONLY <2>2 DEF KeysIn
    <3>2. x \in RowSet(v, b)
      BY ONLY <1>7, <2>2, <3>1, c \in DOMAIN g
    <3> QED
      BY ONLY <3>1, <3>2 DEF KeysIn
  <2> QED
    BY ONLY <2>1, <2>2
<1>10. n(v, c) + 1 = n(t, c) /\ n(v, c) \in Nat /\ \A x \in DOMAIN g : x # c => n(v, x) = n(t, x)
  <2>1. Len(row) \in Nat
    BY ONLY <1>5
  <2> QED
    BY ONLY <1>5, <1>6, <2>1 DEF n
<1>11. /\ Sized(v, g, {c}) /\ (n(t, c) > DEGREE \/ c = t.root_node => Sized(v, g, {}))
  <2>1. DEGREE \in Nat
    BY TreeAssumption
  <2>2. \A b \in DOMAIN g : /\ n(t, b) <= 2 * DEGREE /\ (g[b].lev # 0 => n(t, b) >= 1)
                            /\ (b # t.root_node => n(t, b) >= DEGREE)
    BY ONLY Sized(t, g, {}) DEF Sized, n
  <2>3. n(v, c) <= 2 * DEGREE /\ (n(t, c) > DEGREE => n(v, c) >= DEGREE)
    BY ONLY <1>10, <2>1, <2>2, c \in DOMAIN g
  <2> QED
    BY ONLY <1>6, <1>10, <2>2, <2>3, g[c].lev = 0 DEF Sized, n
<1> QED
  BY ONLY <1>6, <1>9, <1>10, <1>11 DEF RowDropped

-----------------------------------------------------------------------------
(* A node is merged with its neighbour. *)

(* l has the place of r in the chain and r is free; p is as it was. *)
Merging(t, g, w, l, r) ==
    /\ Typed(w) /\ Spare(w, DOMAIN g \ {r}) /\ DOMAIN w.node = DOMAIN t.node /\ w.root_node = t.root_node
    /\ w.node[l].leaf = t.node[l].leaf /\ w.node[l].next = t.node[r].next
    /\ \A b \in DOMAIN g : b # l /\ b # r => w.node[b] = t.node[b]
    /\ \A s \in DOMAIN t.string : s \in DOMAIN w.string /\ w.string[s] = t.string[s]

(* And p has dropped r and the separator before it. *)
Merged(t, g, w, v, p, j, l, r) ==
    /\ Typed(v) /\ Spare(v, DOMAIN g \ {r}) /\ DOMAIN v.node = DOMAIN t.node /\ v.root_node = t.root_node
    /\ v.node[l] = w.node[l]
    /\ v.node[p] = BNode(t.node[p].leaf, RemoveAt(t.node[p].row, j), RemoveAt(t.node[p].child, j + 1),
                         t.node[p].next)
    /\ \A b \in DOMAIN g : b # l /\ b # r /\ b # p => v.node[b] = t.node[b]
    /\ DOMAIN v.string = DOMAIN w.string \ {t.node[p].row[j]}
    /\ \A s \in DOMAIN v.string : v.string[s] = w.string[s]

(* DropEntry finds the separator by its key. *)
LEMMA SeparatorFound ==
    ASSUME NEW w, NEW g, Ordered(g), NEW at, at \in Place, NEW p, ~w.node[p].leaf,
           InnerFits(w.string, g, at, w.node[p].row, w.node[p].child), w.string \in [DOMAIN w.string -> Key],
           NEW j, j \in 1 .. Len(w.node[p].row)
    PROVE  find_index(w, p, w.string[w.node[p].row[j]]) = j
<1> DEFINE row == w.node[p].row
           child == w.node[p].child
           k == w.string[row[j]]
           i == find_index(w, p, k)
<1>1. /\ row \in Seq(DOMAIN w.string) /\ Len(child) = Len(row) + 1 /\ Len(row) \in Nat
      /\ g[child[j + 1]].lo = k
  <2>1. /\ row \in Seq(DOMAIN w.string) /\ Len(child) = Len(row) + 1
        /\ \A m \in 1 .. Len(row) : g[child[m + 1]].lo = w.string[row[m]]
    BY DEF InnerFits
  <2> QED
    BY <2>1
<1>2. k \in Nat
  <2>1. row[j] \in DOMAIN w.string
    BY <1>1
  <2>2. k \in Key
    BY <2>1
  <2> QED
    BY <2>2 DEF Key
<1>3. j + 1 \in 1 .. Len(child)
  BY <1>1
<1>4. /\ at.lo <= g[child[j + 1]].lo /\ g[child[j + 1]].lo < g[child[j + 1]].hi /\ g[child[j + 1]].hi <= at.hi
      /\ g[child[j + 1]] \in Place
  <2>1. \A m \in 1 .. Len(child) : /\ g[child[m]] \in Place
                                   /\ g[child[m]].lo < g[child[m]].hi
                                   /\ at.lo <= g[child[m]].lo /\ g[child[m]].hi <= at.hi
    BY FitsInside
  <2> QED
    BY ONLY <1>3, <2>1
<1>5. at.lo <= k /\ k < at.hi /\ g[child[j + 1]].lo <= k /\ k < g[child[j + 1]].hi
  <2>1. at.hi \in Nat /\ g[child[j + 1]].hi \in Nat
    BY ONLY <1>4, at \in Place DEF Place
  <2> QED
    BY ONLY <1>1, <1>2, <1>4, <2>1
<1>6. /\ i \in 0 .. n(w, p)
      /\ \A m \in 1 .. Len(child) : g[child[m]].lo <= k /\ k < g[child[m]].hi <=> m = i + 1
  <2>1. Routed(w, g, p, k, find_index(w, p, k))
    <3> HIDE DEF i, k
    <3> QED
      BY ONLY <1>2, <1>5, at \in Place, ~w.node[p].leaf, Ordered(g), w.string \in [DOMAIN w.string -> Key],
              InnerFits(w.string, g, at, w.node[p].row, w.node[p].child), FindIndex
  <2> HIDE DEF k
  <2> QED
    BY ONLY <2>1 DEF Routed, i, child
<1>7. n(w, p) = Len(row)
  BY DEF n
<1> HIDE DEF i, child, row
<1>8. j + 1 = i + 1
  BY ONLY <1>3, <1>5, <1>6
<1> QED
  BY <1>1, <1>6, <1>7, <1>8 DEF row, i

(* The parent drops the row between two merged children. *)
LEMMA EntryDropped ==
    ASSUME NEW t, NEW g, NEW h, Good(t, g, h, {}, {}), NEW p \in DOMAIN g, g[p].lev # 0,
           NEW j \in 1 .. n(t, p), NEW l, l = LeftOf(t, p, j), NEW r, r = RightOf(t, p, j),
           NEW w, Merging(t, g, w, l, r), NEW v, v = DropEntry(w, p, t.node[p].row[j])
    PROVE  Merged(t, g, w, v, p, j, l, r)
<1> DEFINE row == t.node[p].row
           child == t.node[p].child
           old == row[j]
           U == DOMAIN g \ {r}
<1>1. /\ Typed(w) /\ Spare(w, U) /\ DOMAIN w.node = DOMAIN t.node /\ w.root_node = t.root_node
      /\ w.node[l].leaf = t.node[l].leaf /\ w.node[l].next = t.node[r].next
      /\ \A b \in DOMAIN g : b # l /\ b # r => w.node[b] = t.node[b]
      /\ \A s \in DOMAIN t.string : s \in DOMAIN w.string /\ w.string[s] = t.string[s]
  BY DEF Merging
<1>2. /\ l \in DOMAIN g /\ r \in DOMAIN g /\ l # r /\ l # p /\ r # p
      /\ n(t, p) = Len(row) /\ InnerFits(t.string, g, g[p], row, child) /\ g[p] \in Place /\ Ordered(g)
  <2>1. /\ l \in DOMAIN g /\ r \in DOMAIN g /\ l # r /\ l # p /\ r # p
        /\ n(t, p) = Len(t.node[p].row) /\ InnerFits(t.string, g, g[p], t.node[p].row, t.node[p].child)
        /\ g[p] \in Place /\ Ordered(g)
    BY ONLY Good(t, g, h, {}, {}), p \in DOMAIN g, g[p].lev # 0, j \in 1 .. n(t, p), l = LeftOf(t, p, j),
            r = RightOf(t, p, j), Siblings
  <2> QED
    BY ONLY <2>1 DEF row, child
<1>3. /\ ~t.node[p].leaf /\ DOMAIN g \subseteq DOMAIN t.node /\ Typed(t)
  BY DEF Good
<1>4. w.node[p] = t.node[p] /\ p \in U /\ p \in DOMAIN w.node
  BY ONLY <1>1, <1>2, <1>3, p \in DOMAIN g
<1>5. w.node[p].row = row /\ w.node[p].child = child
  BY ONLY <1>4 DEF row, child
<1>6. InnerFits(w.string, g, g[p], w.node[p].row, w.node[p].child)
  <2>1. row \in Seq(DOMAIN t.string) /\ child \in Seq(DOMAIN g)
    BY <1>2 DEF InnerFits
  <2>2. \A s \in ToSet(row) : s \in DOMAIN w.string /\ w.string[s] = t.string[s]
    BY ONLY <1>1, <2>1, ToSetIs
  <2>3. \A c \in ToSet(child) : c \in DOMAIN g /\ g[c] = g[c]
    BY ONLY <2>1, ToSetIs
  <2> DEFINE at == g[p]
             str == t.string
             str2 == w.string
  <2>4. InnerFits(str, g, at, row, child) /\ \A s \in ToSet(row) : s \in DOMAIN str2 /\ str2[s] = str[s]
    BY ONLY <1>2, <2>2
  <2> HIDE DEF at, row, child, str, str2
  <2>5. InnerFits(str2, g, at, row, child)
    BY ONLY <2>3, <2>4, InnerStays
  <2> QED
    BY ONLY <1>5, <2>5 DEF at, str2
<1>7. find_index(w, p, w.string[old]) = j
  <2>1. ~w.node[p].leaf /\ j \in 1 .. Len(w.node[p].row)
    BY ONLY <1>2, <1>3, <1>4, <1>5, j \in 1 .. n(t, p)
  <2>2. w.string \in [DOMAIN w.string -> Key]
    BY ONLY <1>1, TypedIs
  <2>3. find_index(w, p, w.string[w.node[p].row[j]]) = j
    <3> DEFINE at == g[p]
    <3>1. at \in Place /\ InnerFits(w.string, g, at, w.node[p].row, w.node[p].child)
      BY ONLY <1>2, <1>6
    <3> HIDE DEF at
    <3> QED
      BY ONLY <1>2, <2>1, <2>2, <3>1, SeparatorFound
  <2> QED
    BY ONLY <1>5, <2>3 DEF old
<1> DEFINE x == delete_handler(w, old)
           row2 == RemoveAt(row, j)
           child2 == RemoveAt(child, j + 1)
           y == [x EXCEPT !.node[p].row = row2]
<1>8. x = delete_handler(w, old)
  OBVIOUS
<1>9. v = [y EXCEPT !.node[p].child = child2] /\ y = [x EXCEPT !.node[p].row = row2]
  <2>1. v = [x EXCEPT !.node[p].row = RemoveAt(@, j), !.node[p].child = RemoveAt(@, j + 1)]
    BY ONLY <1>7, v = DropEntry(w, p, t.node[p].row[j]) DEF DropEntry, old, row, x
  <2>2. x.node = w.node
    BY <1>1, <1>8, DeleteHandlerIs
  <2>3. x.node[p].row = row /\ x.node[p].child = child
    BY ONLY <1>5, <2>2
  <2> HIDE DEF x, row, child, row2, child2
  <2>4. y.node[p].child = x.node[p].child \/ y.node[p].child # x.node[p].child
    OBVIOUS
  <2>5. v = [[x EXCEPT !.node[p].row = RemoveAt(row, j)] EXCEPT !.node[p].child = RemoveAt(child, j + 1)]
    BY ONLY <2>1, <2>3
  <2> QED
    BY ONLY <2>5 DEF row2, child2
<1> HIDE DEF x
<1>10. /\ Typed(x) /\ Spare(x, U) /\ x.node = w.node /\ x.root_node = w.root_node
       /\ DOMAIN x.string = DOMAIN w.string \ {old} /\ \A s \in DOMAIN x.string : x.string[s] = w.string[s]
  <2> HIDE DEF old, U
  <2> QED
    BY ONLY <1>1, <1>8, DeleteHandlerIs
<1>11. row \in Seq(Nat) /\ child \in Seq(Nat) /\ j \in 1 .. Len(row) /\ j + 1 \in 1 .. Len(child)
       /\ t.node[p] = BNode(t.node[p].leaf, row, child, t.node[p].next)
  <2>1. /\ row \in Seq(Nat) /\ child \in Seq(Nat) /\ t.node[p] = BNode(t.node[p].leaf, row, child, t.node[p].next)
    BY ONLY <1>3, p \in DOMAIN g, NodeIs DEF row, child
  <2>2. Len(child) = Len(row) + 1
    BY ONLY <1>2 DEF InnerFits
  <2>3. Len(row) \in Nat /\ j \in 1 .. Len(row)
    BY ONLY <2>1, <1>2, j \in 1 .. n(t, p)
  <2> QED
    BY ONLY <2>1, <2>2, <2>3
<1>12. row2 \in Seq(Nat) /\ child2 \in Seq(Nat)
  <2> HIDE DEF row, child
  <2>1. row2 \in Seq(Nat)
    BY ONLY <1>11, RemoveAtIs DEF row2
  <2> DEFINE jj == j + 1
  <2>2. jj \in 1 .. Len(child)
    BY ONLY <1>11
  <2> HIDE DEF jj
  <2>3. RemoveAt(child, jj) \in Seq(Nat)
    BY ONLY <1>11, <2>2, RemoveAtIs
  <2> QED
    BY ONLY <2>1, <2>3 DEF child2, jj
<1> HIDE DEF row2, child2, y, U
<1>13. OnNode(x, y, U, p, BNode(t.node[p].leaf, row2, child, t.node[p].next))
  <2>1. x.node[p] = BNode(t.node[p].leaf, row, child, t.node[p].next) /\ p \in DOMAIN x.node
    BY ONLY <1>4, <1>10, <1>11
  <2> HIDE DEF row, child
  <2> QED
    BY ONLY <1>4, <1>9, <1>10, <1>12, <2>1, RowIs
<1>14. /\ Typed(y) /\ Spare(y, U) /\ DOMAIN y.node = DOMAIN x.node /\ y.root_node = x.root_node
       /\ y.string = x.string /\ y.node[p] = BNode(t.node[p].leaf, row2, child, t.node[p].next)
       /\ \A b \in DOMAIN x.node : b # p => y.node[b] = x.node[b]
  BY ONLY <1>13 DEF OnNode
<1>15. OnNode(y, v, U, p, BNode(t.node[p].leaf, row2, child2, t.node[p].next))
  <2>1. p \in DOMAIN y.node
    BY ONLY <1>4, <1>10, <1>14
  <2> HIDE DEF row, child
  <2> QED
    BY ONLY <1>4, <1>9, <1>14, <1>12, <2>1, ChildIs
<1>16. /\ Typed(v) /\ Spare(v, U) /\ DOMAIN v.node = DOMAIN t.node /\ v.root_node = t.root_node
       /\ v.string = x.string /\ v.node[p] = BNode(t.node[p].leaf, row2, child2, t.node[p].next)
       /\ \A b \in DOMAIN t.node : b # p => v.node[b] = w.node[b]
  <2>1. /\ Typed(v) /\ Spare(v, U) /\ DOMAIN v.node = DOMAIN y.node /\ v.root_node = y.root_node
        /\ v.string = y.string /\ v.node[p] = BNode(t.node[p].leaf, row2, child2, t.node[p].next)
        /\ \A b \in DOMAIN y.node : b # p => v.node[b] = y.node[b]
    BY ONLY <1>15 DEF OnNode
  <2> QED
    BY ONLY <1>1, <1>10, <1>14, <2>1
<1>17. v.node[l] = w.node[l] /\ \A b \in DOMAIN g : b # l /\ b # r /\ b # p => v.node[b] = t.node[b]
  BY ONLY <1>1, <1>2, <1>3, <1>16
<1> QED
  BY ONLY <1>10, <1>16, <1>17 DEF Merged, U, row2, child2, row, child, old

(* The strings of the nodes p keeps are still there. *)
LEMMA StringsLeft ==
    ASSUME NEW t, NEW g, NEW h, Good(t, g, h, {}, {}), NEW p, p \in DOMAIN g, g[p].lev # 0,
           NEW j, j \in 1 .. n(t, p), NEW l, NEW r, NEW w, Merging(t, g, w, l, r), NEW v, Merged(t, g, w, v, p, j, l, r)
    PROVE  /\ \A b \in DOMAIN g : g[b].lev # 0 /\ b # p
                                    => \A s \in RowSet(t, b) : s \in DOMAIN v.string /\ v.string[s] = t.string[s]
           /\ \A i \in 1 .. n(t, p) : i # j => /\ t.node[p].row[i] \in DOMAIN v.string
                                               /\ v.string[t.node[p].row[i]] = t.string[t.node[p].row[i]]
<1> DEFINE row == t.node[p].row
           old == row[j]
<1>1. /\ DOMAIN v.string = DOMAIN w.string \ {old} /\ \A s \in DOMAIN v.string : v.string[s] = w.string[s]
      /\ \A s \in DOMAIN t.string : s \in DOMAIN w.string /\ w.string[s] = t.string[s]
  BY DEF Merging, Merged
<1>2. Tiled(g, h, MaxKey) /\ NodeFits(t, g, p) /\ Owned(t, g, {})
  BY DEF Good
<1>3. g[p] \in Place /\ g[p].lo < g[p].hi /\ InnerFits(t.string, g, g[p], row, t.node[p].child)
  <2>1. g[p] \in Place /\ g[p].lo < g[p].hi
    BY ONLY <1>2, p \in DOMAIN g, TiledIs
  <2> QED
    BY ONLY <1>2, <2>1, g[p].lev # 0 DEF NodeFits, row
<1>4. /\ row \in Seq(DOMAIN t.string) /\ IsInjective(row) /\ Len(row) = n(t, p)
      /\ \A i \in 1 .. Len(row) : row[i] \in ToSet(row)
  <2>1. /\ row \in Seq(DOMAIN t.string) /\ IsInjective(row) /\ \A i \in 1 .. Len(row) : row[i] \in ToSet(row)
    <3> DEFINE at == g[p]
               child == t.node[p].child
               str == t.string
    <3>1. at \in Place /\ at.lo < at.hi /\ InnerFits(str, g, at, row, child)
      BY ONLY <1>3
    <3> HIDE DEF at, child, str, row
    <3>2. row \in Seq(DOMAIN str) /\ IsInjective(row) /\ \A i \in 1 .. Len(row) : row[i] \in ToSet(row)
      BY ONLY <1>2, <3>1, InnerIs
    <3> QED
      BY ONLY <3>2 DEF str
  <2> QED
    BY ONLY <2>1 DEF n, row
<1>5. old \in RowSet(t, p)
  BY ONLY <1>4, j \in 1 .. n(t, p) DEF RowSet, row
<1>6. \A b \in DOMAIN g : g[b].lev # 0 /\ b # p => old \notin RowSet(t, b) /\ RowSet(t, b) \subseteq DOMAIN t.string
  BY ONLY <1>2, <1>5, p \in DOMAIN g, g[p].lev # 0 DEF Owned
<1>7. \A i \in 1 .. Len(row) : row[i] \in DOMAIN t.string /\ (i # j => row[i] # old)
  <2>1. j \in DOMAIN row /\ DOMAIN row = 1 .. Len(row)
    BY ONLY <1>4, j \in 1 .. n(t, p)
  <2>2. \A i \in 1 .. Len(row) : row[i] \in DOMAIN t.string
    BY ONLY <1>4
  <2> HIDE DEF row
  <2>3. \A a, b \in DOMAIN row : row[a] = row[b] => a = b
    BY ONLY <1>4 DEF IsInjective
  <2> QED
    BY ONLY <2>1, <2>2, <2>3 DEF old
<1> HIDE DEF old
<1>8. \A s \in DOMAIN t.string : s # old => s \in DOMAIN v.string /\ v.string[s] = t.string[s]
  BY ONLY <1>1
<1>9. \A b \in DOMAIN g : g[b].lev # 0 /\ b # p
                            => \A s \in RowSet(t, b) : s \in DOMAIN v.string /\ v.string[s] = t.string[s]
  BY ONLY <1>6, <1>8
<1>10. \A i \in 1 .. n(t, p) : i # j => row[i] \in DOMAIN v.string /\ v.string[row[i]] = t.string[row[i]]
  BY ONLY <1>4, <1>7, <1>8
<1> QED
  BY ONLY <1>9, <1>10 DEF row

(* The tree is good once p has dropped the separator. *)
LEMMA MergeMends ==
    ASSUME NEW t, NEW g, NEW h, Good(t, g, h, {}, {}), NEW p, p \in DOMAIN g, g[p].lev # 0,
           NEW j, j \in 1 .. n(t, p), NEW l, l = LeftOf(t, p, j), NEW r, r = RightOf(t, p, j),
           NEW c, c = l \/ c = r, Sized(t, g, {c}), NEW w, Merging(t, g, w, l, r),
           NEW old, old = t.node[p].row[j], NEW v, v = DropEntry(w, p, old), Merged(t, g, w, v, p, j, l, r),
           NodeFits(v, JoinPlaces(g, l, r), l), Owned(v, JoinPlaces(g, l, r), {}), KeysIn(v, JoinPlaces(g, l, r)) = KeysIn(t, g),
           n(w, l) \in DEGREE .. 2 * DEGREE
    PROVE  Mended(t, g, h, p, [tree |-> w, old |-> old], KeysIn(t, g))
<1> DEFINE g2 == JoinPlaces(g, l, r)
           row == t.node[p].row
           child == t.node[p].child
<1>1. /\ Tiled(g, h, MaxKey) /\ \A b \in DOMAIN g : t.node[b].leaf \in BOOLEAN
      /\ DOMAIN g \subseteq DOMAIN t.node /\ Typed(t)
      /\ \A b \in DOMAIN g : t.node[b].leaf <=> g[b].lev = 0
  <2>1. Tiled(g, h, MaxKey) /\ DOMAIN g \subseteq DOMAIN t.node /\ Typed(t)
        /\ \A b \in DOMAIN g : t.node[b].leaf <=> g[b].lev = 0
    BY DEF Good
  <2>2. \A b \in DOMAIN t.node : t.node[b].leaf \in BOOLEAN
    BY ONLY <2>1, NodeIs
  <2> QED
    BY ONLY <2>1, <2>2
<1>2. /\ l \in DOMAIN g /\ r \in DOMAIN g /\ l # r /\ l # p /\ r # p
      /\ g[l].lev + 1 = g[p].lev /\ g[l].lev = g[r].lev /\ g[l].hi = g[r].lo
      /\ n(t, p) = Len(t.node[p].row) /\ n(t, p) \in Nat
      /\ InnerFits(t.string, g, g[p], t.node[p].row, t.node[p].child)
      /\ t.node[p].row[j] \in DOMAIN t.string
  <2>1. /\ l \in DOMAIN g /\ r \in DOMAIN g /\ l # r /\ l # p /\ r # p
        /\ g[l].lev + 1 = g[p].lev /\ g[l].lev = g[r].lev /\ g[l].hi = g[r].lo
        /\ n(t, p) = Len(t.node[p].row) /\ n(t, p) \in Nat
        /\ InnerFits(t.string, g, g[p], t.node[p].row, t.node[p].child)
        /\ t.node[p].row[j] \in DOMAIN t.string
    BY ONLY Good(t, g, h, {}, {}), p \in DOMAIN g, g[p].lev # 0, j \in 1 .. n(t, p), l = LeftOf(t, p, j),
            r = RightOf(t, p, j), Siblings
  <2> QED
    BY ONLY <2>1
<1>3. /\ \A b \in DOMAIN g : g[b].lev # 0 /\ b # p
                               => \A s \in RowSet(t, b) : s \in DOMAIN v.string /\ v.string[s] = t.string[s]
      /\ \A i \in 1 .. n(t, p) : i # j => /\ t.node[p].row[i] \in DOMAIN v.string
                                          /\ v.string[t.node[p].row[i]] = t.string[t.node[p].row[i]]
  BY ONLY Good(t, g, h, {}, {}), p \in DOMAIN g, g[p].lev # 0, j \in 1 .. n(t, p), Merging(t, g, w, l, r),
          Merged(t, g, w, v, p, j, l, r), StringsLeft
<1>4. /\ Typed(v) /\ Spare(v, DOMAIN g \ {r}) /\ DOMAIN v.node = DOMAIN t.node /\ v.root_node = t.root_node
      /\ v.node[l].leaf = t.node[l].leaf /\ v.node[l].next = t.node[r].next
      /\ v.node[l].row = w.node[l].row
      /\ v.node[p].row = RemoveAt(t.node[p].row, j) /\ v.node[p].child = RemoveAt(t.node[p].child, j + 1)
      /\ v.node[p].leaf = t.node[p].leaf /\ v.node[p].next = t.node[p].next
      /\ \A b \in DOMAIN g : b # l /\ b # r /\ b # p => v.node[b] = t.node[b]
  BY ONLY Merged(t, g, w, v, p, j, l, r), Merging(t, g, w, l, r) DEF Merged, Merging, BNode
<1>5. Good(v, g2, h, {}, {})
  <2>1. \A b \in DOMAIN g : b # r => v.node[b].leaf = t.node[b].leaf
    BY ONLY <1>4
  <2>2. \A b \in DOMAIN g : b # l /\ b # r => v.node[b].next = t.node[b].next
    BY ONLY <1>4
  <2>3. \A b \in DOMAIN g : b # l /\ b # r /\ b # p
                              => v.node[b].row = t.node[b].row /\ v.node[b].child = t.node[b].child
    BY ONLY <1>4
  <2>4. \A b \in DOMAIN g : g[b].lev # 0 /\ b # l /\ b # r /\ b # p
                              => \A s \in RowSet(t, b) : s \in DOMAIN v.string /\ v.string[s] = t.string[s]
    BY ONLY <1>3
  <2>5. \A i \in 1 .. n(t, p) : i # j => LET s == t.node[p].row[i] IN
                                           s \in DOMAIN v.string /\ v.string[s] = t.string[s]
    BY ONLY <1>3
  <2>6. g2 = JoinPlaces(g, l, r) /\ NodeFits(v, g2, l) /\ Owned(v, g2, {})
    BY NodeFits(v, JoinPlaces(g, l, r), l), Owned(v, JoinPlaces(g, l, r), {})
  <2> HIDE DEF g2
  <2> QED
    BY ONLY Good(t, g, h, {}, {}), p \in DOMAIN g, g[p].lev # 0, j \in 1 .. n(t, p), l = LeftOf(t, p, j),
            r = RightOf(t, p, j), <1>4, <2>1, <2>2, <2>3, <2>4, <2>5, <2>6, JoinGood
<1>6. g2 = JoinPlaces(g, l, r) /\ KeysIn(v, g2) = KeysIn(t, g)
  OBVIOUS
<1> HIDE DEF g2
<1>7. /\ DOMAIN g2 = DOMAIN g \ {r}
      /\ g2[l] = [lev |-> g[l].lev, lo |-> g[l].lo, hi |-> g[r].hi]
      /\ \A x \in DOMAIN g : x # l /\ x # r => g2[x] = g[x]
  <2>1. DOMAIN JoinPlaces(g, l, r) = DOMAIN g \ {r}
    BY Zenon DEF JoinPlaces
  <2>2. \A x \in DOMAIN g \ {r} : JoinPlaces(g, l, r)[x] = IF x = l THEN [lev |-> g[l].lev, lo |-> g[l].lo, hi |-> g[r].hi]
                                                     ELSE g[x]
    BY Zenon DEF JoinPlaces
  <2>3. l \in DOMAIN g \ {r}
    BY ONLY <1>2
  <2>4. g2[l] = [lev |-> g[l].lev, lo |-> g[l].lo, hi |-> g[r].hi]
    BY ONLY <1>6, <2>2, <2>3, Zenon
  <2>5. \A x \in DOMAIN g : x # l /\ x # r => g2[x] = g[x]
    BY ONLY <1>6, <2>2, Zenon
  <2> QED
    BY ONLY <1>6, <2>1, <2>4, <2>5
<1>8. g2[l].lev = g[l].lev /\ \A b \in DOMAIN g2 : g2[b].lev = g[b].lev
  <2>1. g2[l].lev = g[l].lev
    BY ONLY <1>7
  <2> QED
    BY ONLY <1>7, <2>1
<1>9. Keeps(g, g2, g[p].lev)
  <2>1. ~(g[l].lev >= g[p].lev) /\ ~(g[r].lev >= g[p].lev)
    <3>1. g[l].lev \in Nat /\ g[p].lev \in Nat
      BY ONLY <1>1, <1>2, p \in DOMAIN g, TiledIs
    <3> QED
      BY ONLY <1>2, <3>1
  <2> DEFINE lev == g[p].lev
  <2> HIDE DEF lev
  <2> QED
    BY ONLY <1>7, <1>8, <2>1, JoinKeeps DEF lev
<1>10. row \in Seq(Nat) /\ child \in Seq(Nat) /\ j \in 1 .. Len(row) /\ j + 1 \in 1 .. Len(child) /\ Len(row) = n(t, p)
  <2>1. row \in Seq(Nat) /\ child \in Seq(Nat)
    BY ONLY <1>1, p \in DOMAIN g, NodeIs DEF row, child
  <2>2. Len(child) = Len(row) + 1
    BY ONLY <1>2 DEF InnerFits, row, child
  <2>3. Len(row) = n(t, p)
    BY ONLY <1>2 DEF row
  <2> QED
    BY ONLY <1>2, <2>1, <2>2, <2>3, j \in 1 .. n(t, p)
<1>11. n(v, p) + 1 = n(t, p) /\ n(v, p) \in Nat
  <2> HIDE DEF row
  <2>1. Len(RemoveAt(row, j)) = Len(row) - 1
    BY ONLY <1>10, RemoveAtIs
  <2>2. n(v, p) = Len(RemoveAt(row, j))
    BY ONLY <1>4 DEF n, row
  <2> QED
    BY ONLY <1>2, <1>10, <2>1, <2>2, j \in 1 .. n(t, p)
<1>12. w.node[p] = t.node[p]
  BY ONLY <1>2, p \in DOMAIN g, Merging(t, g, w, l, r) DEF Merging
<1>13. v.node[p].child[1] = w.node[p].child[1]
  <2> DEFINE i == j + 1
  <2>1. i \in 1 .. Len(child) /\ 1 \in 1 .. i - 1
    BY ONLY <1>2, <1>10, j \in 1 .. n(t, p)
  <2> HIDE DEF i, child
  <2>2. \A x \in 1 .. i - 1 : RemoveAt(child, i)[x] = child[x]
    BY ONLY <1>10, <2>1, RemoveAtIs
  <2>3. RemoveAt(child, i)[1] = child[1]
    BY ONLY <2>1, <2>2
  <2> QED
    BY ONLY <1>4, <1>12, <2>3 DEF i, child
<1>14. /\ n(t, p) <= 2 * DEGREE /\ (p # t.root_node => n(t, p) >= DEGREE)
  BY ONLY <1>2, p \in DOMAIN g, Sized(t, g, {c}), c = l \/ c = r DEF Sized, n
<1>15. Sized(v, g2, {p})
  <2>1. \A b \in DOMAIN g : b # l /\ b # r /\ b # p => n(v, b) = n(t, b)
    BY ONLY <1>4 DEF n
  <2>2. n(v, l) \in DEGREE .. 2 * DEGREE
    BY ONLY <1>4, n(w, l) \in DEGREE .. 2 * DEGREE DEF n
  <2>3. n(v, p) <= 2 * DEGREE
    BY ONLY <1>11, <1>14, TreeAssumption
  <2>4. v.root_node = t.root_node /\ \A b \in DOMAIN g : b # r => b \in DOMAIN g2
    BY ONLY <1>4, <1>7
  <2>5. SizesJoined(t, g, v, g2, l, r, p, c)
    BY ONLY Sized(t, g, {c}), <1>4, <1>7, <1>8, c = l \/ c = r, <2>1, <2>2, <2>3 DEF SizesJoined
  <2> QED
    BY ONLY <2>5, SizesJoin
<1>16. old # NoString
  <2>1. DOMAIN t.string \subseteq Nat
    BY ONLY <1>1, TypedIs
  <2> QED
    BY ONLY <1>2, <2>1, old = t.node[p].row[j] DEF NoString
<1> DEFINE R == [tree |-> w, old |-> old]
<1>17. R.tree = w /\ R.old = old
  OBVIOUS
<1> HIDE DEF R
<1>18. Dropped(p, R) = v
  BY ONLY <1>16, <1>17, v = DropEntry(w, p, old) DEF Dropped
<1>19. n(v, p) + 1 = n(R.tree, p) /\ (p # t.root_node => n(v, p) + 1 >= DEGREE)
  <2>1. n(w, p) = n(t, p)
    BY ONLY <1>12 DEF n
  <2> QED
    BY ONLY <1>11, <1>14, <1>17, <2>1
<1>20. v.node[p].child[1] = R.tree.node[p].child[1] /\ R.old # NoString
  BY ONLY <1>13, <1>16, <1>17
<1>21. Mended(t, g, h, p, R, KeysIn(t, g))
  BY ONLY <1>4, <1>5, <1>6, <1>9, <1>15, <1>18, <1>19, <1>20 DEF Mended
<1> QED
  BY ONLY <1>21 DEF R

(* The rows of p without the separator. *)
LEMMA RowsDropped ==
    ASSUME NEW t, NEW g, NEW h, Good(t, g, h, {}, {}), NEW p, p \in DOMAIN g, g[p].lev # 0,
           NEW j, j \in 1 .. n(t, p)
    PROVE  /\ ToSet(RemoveAt(t.node[p].row, j)) = RowSet(t, p) \ {t.node[p].row[j]}
           /\ t.node[p].row[j] \in RowSet(t, p) /\ RowSet(t, p) \subseteq DOMAIN t.string
<1> DEFINE row == t.node[p].row
           child == t.node[p].child
           at == g[p]
           str == t.string
<1>1. Tiled(g, h, MaxKey) /\ NodeFits(t, g, p) /\ Owned(t, g, {})
  BY DEF Good
<1>2. at \in Place /\ at.lo < at.hi /\ InnerFits(str, g, at, row, child)
  <2>1. g[p] \in Place /\ g[p].lo < g[p].hi
    BY ONLY <1>1, p \in DOMAIN g, TiledIs
  <2> QED
    BY ONLY <1>1, <2>1, g[p].lev # 0 DEF NodeFits
<1>3. j \in 1 .. Len(row)
  BY j \in 1 .. n(t, p) DEF n
<1>4. RowSet(t, p) \subseteq DOMAIN str
  BY ONLY <1>1, p \in DOMAIN g, g[p].lev # 0 DEF Owned
<1>5. RowSet(t, p) = ToSet(row)
  BY DEF RowSet
<1> HIDE DEF row, child, at, str
<1>6. row \in Seq(DOMAIN str) /\ IsInjective(row) /\ \A i \in 1 .. Len(row) : row[i] \in ToSet(row)
  BY ONLY <1>1, <1>2, InnerIs
<1>7. ToSet(RemoveAt(row, j)) = ToSet(row) \ {row[j]}
  BY ONLY <1>3, <1>6, ToSetRemoveAt
<1> QED
  BY ONLY <1>3, <1>4, <1>5, <1>6, <1>7 DEF row, str

(* The leaf r is merged into l. *)
LeavesJoined(t, g, w, l, r) ==
    /\ Merging(t, g, w, l, r) /\ w.node[l].row = t.node[l].row \o t.node[r].row
    /\ w.node[l].child = <<>> /\ w.string = t.string

(* MergeLeaves before p has dropped the separator. *)
LEMMA LeavesMerging ==
    ASSUME NEW t, NEW g, NEW h, Good(t, g, h, {}, {}), NEW p, p \in DOMAIN g, g[p].lev = 1,
           NEW j, j \in 1 .. n(t, p), NEW l, l = LeftOf(t, p, j), NEW r, r = RightOf(t, p, j),
           NEW w, w = MergeLeaves(t, p, j).tree
    PROVE  LeavesJoined(t, g, w, l, r)
<1> DEFINE row == t.node[l].row \o t.node[r].row
           u == [t EXCEPT !.node[l].row = row]
           next == t.node[r].next
           z == [u EXCEPT !.node[l].next = next]
           U == DOMAIN g
<1>1. /\ Typed(t) /\ Spare(t, U) /\ U \subseteq DOMAIN t.node
  BY DEF Good
<1>2. /\ l \in U /\ r \in U /\ l # r
      /\ LeafFits(g[l], t.node[l].row, Key) /\ LeafFits(g[r], t.node[r].row, Key)
      /\ t.node[l].child = <<>> /\ t.node[r].child = <<>>
  <2>1. p \in DOMAIN g /\ j \in 1 .. n(t, p)
    OBVIOUS
  <2> QED
    BY ONLY Good(t, g, h, {}, {}), <2>1, g[p].lev = 1, l = LeftOf(t, p, j), r = RightOf(t, p, j), TwoLeaves
<1>3. w = FreeNode(z, r)
  <2>1. w = FreeNode([t EXCEPT !.node[l].row = @ \o t.node[r].row, !.node[l].next = t.node[r].next], r)
    BY ONLY w = MergeLeaves(t, p, j).tree, l = LeftOf(t, p, j), r = RightOf(t, p, j) DEF MergeLeaves
  <2> QED
    BY ONLY <2>1
<1>4. /\ l \in DOMAIN t.node /\ r \in DOMAIN t.node
      /\ t.node[l] = BNode(t.node[l].leaf, t.node[l].row, t.node[l].child, t.node[l].next)
      /\ t.node[l].row \in Seq(Nat) /\ t.node[r].row \in Seq(Nat) /\ t.node[r].next \in Int
  BY ONLY <1>1, <1>2, NodeIs
<1>5. row \in Seq(Nat) /\ next \in Int /\ u = [t EXCEPT !.node[l].row = row] /\ z = [u EXCEPT !.node[l].next = next]
  BY ONLY <1>4
<1>40. next \in Links(t)
  <2>1. Spare(t, U) /\ r \in DOMAIN t.node
    BY ONLY <1>1, <1>4
  <2> HIDE DEF U
  <2>2. t.node[r].next \in Links(t)
    BY ONLY <2>1, LinkIs
  <2> QED
    BY ONLY <2>2
<1> HIDE DEF u, z, row, next, U
<1>6. OnNode(t, u, U, l, BNode(t.node[l].leaf, row, t.node[l].child, t.node[l].next))
  BY ONLY <1>1, <1>2, <1>4, <1>5, RowIs
<1>7. /\ Typed(u) /\ Spare(u, U) /\ DOMAIN u.node = DOMAIN t.node
      /\ u.root_node = t.root_node /\ u.string = t.string
      /\ u.node[l] = BNode(t.node[l].leaf, row, t.node[l].child, t.node[l].next)
      /\ \A y \in DOMAIN t.node : y # l => u.node[y] = t.node[y]
  BY ONLY <1>6 DEF OnNode
<1>8. OnNode(u, z, U, l, BNode(t.node[l].leaf, row, t.node[l].child, next))
  <2>1. l \in DOMAIN u.node
    BY ONLY <1>4, <1>7
  <2>2. next \in Links(u)
    BY ONLY <1>7, <1>40 DEF Links
  <2> QED
    BY ONLY <1>2, <1>5, <1>7, <2>1, <2>2, NextIs
<1>9. /\ Typed(z) /\ Spare(z, U) /\ DOMAIN z.node = DOMAIN u.node
      /\ z.root_node = u.root_node /\ z.string = u.string
      /\ z.node[l] = BNode(t.node[l].leaf, row, t.node[l].child, next)
      /\ \A y \in DOMAIN u.node : y # l => z.node[y] = u.node[y]
  BY ONLY <1>8 DEF OnNode
<1>10. /\ Typed(w) /\ Spare(w, U \ {r}) /\ DOMAIN w.node = DOMAIN z.node
       /\ \A b \in DOMAIN z.node : b # r => w.node[b] = z.node[b]
       /\ w.string = z.string /\ w.root_node = z.root_node
  BY ONLY <1>2, <1>3, <1>9, GiveIs
<1>11. w.node[l] = BNode(t.node[l].leaf, row, t.node[l].child, next)
  BY ONLY <1>2, <1>4, <1>7, <1>9, <1>10
<1>12. \A b \in DOMAIN g : b # l /\ b # r => w.node[b] = t.node[b]
  BY ONLY <1>1, <1>7, <1>9, <1>10 DEF U
<1>13. w.node[l].leaf = t.node[l].leaf /\ w.node[l].next = t.node[r].next /\ w.node[l].row = row
       /\ w.node[l].child = t.node[l].child
  BY ONLY <1>11 DEF BNode, next
<1>14. Merging(t, g, w, l, r)
  BY ONLY <1>7, <1>9, <1>10, <1>12, <1>13 DEF Merging, U
<1> QED
  BY ONLY <1>2, <1>7, <1>9, <1>10, <1>13, <1>14 DEF row, LeavesJoined

(* A leaf with DEGREE - 1 rows and its neighbour become one. *)
LEMMA MergeLeavesMends ==
    ASSUME NEW t, NEW g, NEW h, Good(t, g, h, {}, {}), NEW p, p \in DOMAIN g, g[p].lev = 1,
           NEW j, j \in 1 .. n(t, p), NEW l, l = LeftOf(t, p, j), NEW r, r = RightOf(t, p, j),
           NEW c, c = l \/ c = r, Sized(t, g, {c}), n(t, c) = DEGREE - 1,
           ~HasSpare(t, l), ~HasSpare(t, r), n(t, l) + n(t, r) >= DEGREE
    PROVE  Mended(t, g, h, p, MergeLeaves(t, p, j), KeysIn(t, g))
<1> DEFINE w == MergeLeaves(t, p, j).tree
           old == t.node[p].row[j]
           v == DropEntry(w, p, old)
           g2 == JoinPlaces(g, l, r)
<1>1. /\ l \in DOMAIN g /\ r \in DOMAIN g /\ l # r /\ l # p /\ r # p
      /\ g[l].lev = 0 /\ g[r].lev = 0 /\ g[l].hi = g[r].lo
      /\ g[l] \in Place /\ g[r] \in Place /\ g[l].lo < g[l].hi /\ g[r].lo < g[r].hi
      /\ LeafFits(g[l], t.node[l].row, Key) /\ LeafFits(g[r], t.node[r].row, Key)
      /\ n(t, l) = Len(t.node[l].row) /\ n(t, r) = Len(t.node[r].row)
      /\ n(t, l) \in Nat /\ n(t, r) \in Nat
  BY ONLY Good(t, g, h, {}, {}), p \in DOMAIN g, g[p].lev = 1, j \in 1 .. n(t, p), l = LeftOf(t, p, j),
          r = RightOf(t, p, j), TwoLeaves
<1>2. g[p].lev # 0
  BY g[p].lev = 1
<1>3. w = MergeLeaves(t, p, j).tree /\ old = t.node[p].row[j] /\ v = DropEntry(w, p, old) /\ g2 = JoinPlaces(g, l, r)
  OBVIOUS
<1>4. MergeLeaves(t, p, j) = [tree |-> w, old |-> old]
  BY DEF MergeLeaves
<1> HIDE DEF w, v, g2
<1>5. /\ Merging(t, g, w, l, r) /\ w.node[l].row = t.node[l].row \o t.node[r].row
      /\ w.node[l].child = <<>> /\ w.string = t.string
  <2>1. LeavesJoined(t, g, w, l, r)
    BY ONLY Good(t, g, h, {}, {}), p \in DOMAIN g, g[p].lev = 1, j \in 1 .. n(t, p), l = LeftOf(t, p, j),
            r = RightOf(t, p, j), <1>3, LeavesMerging
  <2> QED
    BY ONLY <2>1 DEF LeavesJoined
<1>6. Merged(t, g, w, v, p, j, l, r)
  BY ONLY Good(t, g, h, {}, {}), p \in DOMAIN g, <1>2, j \in 1 .. n(t, p), l = LeftOf(t, p, j),
          r = RightOf(t, p, j), <1>3, <1>5, EntryDropped
<1>7. /\ v.node[l] = w.node[l]
      /\ v.node[p].row = RemoveAt(t.node[p].row, j)
      /\ \A b \in DOMAIN g : b # l /\ b # r /\ b # p => v.node[b] = t.node[b]
      /\ DOMAIN v.string = DOMAIN t.string \ {old}
  BY ONLY <1>5, <1>6 DEF Merged, BNode, old
<1>8. /\ DOMAIN g2 = DOMAIN g \ {r}
      /\ g2[l] = [lev |-> g[l].lev, lo |-> g[l].lo, hi |-> g[r].hi]
      /\ \A x \in DOMAIN g : x # l /\ x # r => g2[x] = g[x]
  <2>1. DOMAIN JoinPlaces(g, l, r) = DOMAIN g \ {r}
    BY Zenon DEF JoinPlaces
  <2>2. \A x \in DOMAIN g \ {r} : JoinPlaces(g, l, r)[x] = IF x = l THEN [lev |-> g[l].lev, lo |-> g[l].lo, hi |-> g[r].hi]
                                                     ELSE g[x]
    BY Zenon DEF JoinPlaces
  <2>3. l \in DOMAIN g \ {r}
    BY ONLY <1>1
  <2>4. g2[l] = [lev |-> g[l].lev, lo |-> g[l].lo, hi |-> g[r].hi]
    BY ONLY <1>3, <2>2, <2>3, Zenon
  <2>5. \A x \in DOMAIN g : x # l /\ x # r => g2[x] = g[x]
    BY ONLY <1>3, <2>2, Zenon
  <2> QED
    BY ONLY <1>3, <2>1, <2>4, <2>5
<1>9. g2[l].lev = 0 /\ g2[l].lo = g[l].lo /\ g2[l].hi = g[r].hi
  BY ONLY <1>1, <1>8
<1>10. g[p].lev # g[l].lev /\ \A b : IsInner(g, b) <=> IsInner(g2, b)
  BY ONLY <1>1, <1>2, <1>8, <1>9 DEF IsInner
<1>11. NodeFits(v, g2, l)
  <2> DEFINE at == g[l]
             at2 == g[r]
             row == t.node[l].row
             row2 == t.node[r].row
             lev == 0
  <2>1. /\ LeafFits(at, row, Key) /\ LeafFits(at2, row2, Key)
        /\ at.lo \in Nat /\ at.hi \in Nat /\ at2.lo \in Nat /\ at2.hi \in Nat
        /\ at.hi <= at2.lo /\ at.lo <= at.hi /\ at2.lo <= at2.hi
    <3>1. at.lo \in Nat /\ at.hi \in Nat /\ at2.lo \in Nat /\ at2.hi \in Nat
      BY ONLY <1>1 DEF Place
    <3> QED
      BY ONLY <1>1, <3>1
  <2>2. g2[l] = [lev |-> lev, lo |-> at.lo, hi |-> at2.hi]
    BY ONLY <1>1, <1>8
  <2> HIDE DEF at, at2, row, row2, lev
  <2>3. LeafFits([lev |-> lev, lo |-> at.lo, hi |-> at2.hi], row \o row2, Key)
    BY ONLY <2>1, LeafJoin
  <2>4. LeafFits(g2[l], row \o row2, Key)
    BY ONLY <2>2, <2>3
  <2>5. v.node[l].row = row \o row2 /\ v.node[l].child = <<>>
    BY ONLY <1>5, <1>7 DEF row, row2
  <2> QED
    BY ONLY <1>9, <2>4, <2>5 DEF NodeFits
<1>12. /\ RowSet(v, p) = RowSet(t, p) \ {old}
       /\ old \in RowSet(t, p) /\ RowSet(t, p) \subseteq DOMAIN t.string
  <2>1. /\ ToSet(RemoveAt(t.node[p].row, j)) = RowSet(t, p) \ {t.node[p].row[j]}
        /\ t.node[p].row[j] \in RowSet(t, p) /\ RowSet(t, p) \subseteq DOMAIN t.string
    BY ONLY Good(t, g, h, {}, {}), p \in DOMAIN g, <1>2, j \in 1 .. n(t, p), RowsDropped
  <2>2. RowSet(v, p) = ToSet(RemoveAt(t.node[p].row, j))
    BY ONLY <1>7 DEF RowSet
  <2> QED
    BY ONLY <2>1, <2>2 DEF old
<1>13. Owned(v, g2, {})
  <2> DEFINE C == {p}
             W == RowSet(t, p)
             W2 == RowSet(t, p) \ {old}
             E == {}
  <2>1. \A b : IsInner(g, b) /\ b \notin C <=> IsInner(g2, b) /\ b \notin C
    BY ONLY <1>10
  <2>2. \A b : IsInner(g, b) /\ b \notin C => RowSet(v, b) = RowSet(t, b)
    BY ONLY <1>1, <1>7 DEF IsInner, RowSet
  <2>3. (\A b \in C : IsInner(g, b)) /\ (\A b \in C : IsInner(g2, b))
    BY ONLY <1>2, <1>10, p \in DOMAIN g DEF IsInner
  <2>4. \A s : s \in W <=> s \in E \/ (\E b \in C : s \in RowSet(t, b))
    OBVIOUS
  <2>5. DOMAIN v.string = (DOMAIN t.string \ W) \cup W2 /\ (W2 \ W) \cap DOMAIN t.string = {}
    BY ONLY <1>7, <1>12
  <2>6. /\ E \subseteq W2 /\ (\A b \in C : RowSet(v, b) \subseteq W2 \ E)
        /\ \A b, x \in C : b # x => RowSet(v, b) \cap RowSet(v, x) = {}
        /\ \A s \in W2 \ E : \E b \in C : s \in RowSet(v, b)
    BY ONLY <1>12
  <2>7. Owned(t, g, E)
    BY DEF Good
  <2> HIDE DEF C, W, W2, E
  <2>8. Exchange(t, g, E, v, g2, E, C, C, W, W2)
    BY ONLY <2>1, <2>2, <2>3, <2>4, <2>5, <2>6 DEF Exchange
  <2>9. Owned(v, g2, E)
    BY ONLY <2>7, <2>8, OwnedStep
  <2> QED
    BY ONLY <2>9 DEF E
<1>14. KeysIn(v, g2) = KeysIn(t, g)
  <2>1. /\ l \in DOMAIN g2 /\ g2[l].lev = 0
        /\ \A b : b # l /\ b # r => (b \in DOMAIN g /\ g[b].lev = 0 <=> b \in DOMAIN g2 /\ g2[b].lev = 0)
        /\ r \in DOMAIN g2 => g2[r].lev = 0
    BY ONLY <1>1, <1>8, <1>9
  <2>2. \A b \in DOMAIN g : g[b].lev = 0 /\ b # l /\ b # r => RowSet(v, b) = RowSet(t, b)
    BY ONLY <1>2, <1>7 DEF RowSet
  <2>3. t.node[l].row \in Seq(Key) /\ t.node[r].row \in Seq(Key)
    BY ONLY <1>1 DEF LeafFits
  <2>4. ToSet(t.node[l].row \o t.node[r].row) = ToSet(t.node[l].row) \cup ToSet(t.node[r].row)
    BY ONLY <2>3, ConcatIs
  <2>5. RowSet(v, l) = RowSet(t, l) \cup RowSet(t, r) /\ r \notin DOMAIN g2
    BY ONLY <1>5, <1>7, <1>8, <2>4 DEF RowSet
  <2> QED
    BY ONLY <1>1, <2>1, <2>2, <2>5 DEF KeysIn
<1>15. n(w, l) \in DEGREE .. 2 * DEGREE
  <2>1. n(w, l) = n(t, l) + n(t, r)
    <3>1. t.node[l].row \in Seq(Key) /\ t.node[r].row \in Seq(Key)
      BY ONLY <1>1 DEF LeafFits
    <3>2. Len(t.node[l].row \o t.node[r].row) = Len(t.node[l].row) + Len(t.node[r].row)
      BY ONLY <3>1, ConcatIs
    <3> QED
      BY ONLY <1>5, <3>2 DEF n
  <2>2. n(t, l) <= DEGREE /\ n(t, r) <= DEGREE
    BY ONLY <1>1, TreeAssumption, ~HasSpare(t, l), ~HasSpare(t, r) DEF HasSpare
  <2> DEFINE a == n(t, l)
             b == n(t, r)
             s == n(w, l)
  <2>3. /\ s = a + b /\ a \in Nat /\ b \in Nat /\ a <= DEGREE /\ b <= DEGREE /\ DEGREE \in Nat
        /\ a + b >= DEGREE
    BY ONLY <1>1, <2>1, <2>2, TreeAssumption, n(t, l) + n(t, r) >= DEGREE
  <2> HIDE DEF a, b, s
  <2>4. s \in DEGREE .. 2 * DEGREE
    BY ONLY <2>3
  <2> QED
    BY ONLY <2>4 DEF s
<1>16. NodeFits(v, JoinPlaces(g, l, r), l) /\ Owned(v, JoinPlaces(g, l, r), {}) /\ KeysIn(v, JoinPlaces(g, l, r)) = KeysIn(t, g)
  BY ONLY <1>3, <1>11, <1>13, <1>14
<1> HIDE DEF old
<1>17. Mended(t, g, h, p, [tree |-> w, old |-> old], KeysIn(t, g))
  BY ONLY Good(t, g, h, {}, {}), p \in DOMAIN g, <1>2, j \in 1 .. n(t, p), l = LeftOf(t, p, j),
          r = RightOf(t, p, j), c = l \/ c = r, Sized(t, g, {c}), <1>3, <1>5, <1>6, <1>15, <1>16, MergeMends
<1> QED
  BY ONLY <1>4, <1>17

(* Two inner nodes that are next to each other below p. *)
Neighbours(t, g, p, j, l, r) ==
    /\ l \in DOMAIN g /\ r \in DOMAIN g /\ l # r /\ l # p /\ r # p
    /\ g[l].lev # 0 /\ g[l].lev = g[r].lev /\ g[l].lev + 1 = g[p].lev
    /\ g[l] \in Place /\ g[r] \in Place /\ g[l].lo < g[l].hi /\ g[r].lo < g[r].hi
    /\ g[l].hi = g[r].lo /\ g[l].hi = t.string[t.node[p].row[j]]
    /\ InnerFits(t.string, g, g[l], t.node[l].row, t.node[l].child)
    /\ InnerFits(t.string, g, g[r], t.node[r].row, t.node[r].child)
    /\ t.node[p].row[j] \in RowSet(t, p) /\ t.node[p].row[j] \in DOMAIN t.string
    /\ RowSet(t, l) \cup RowSet(t, r) \cup RowSet(t, p) \subseteq DOMAIN t.string
    /\ RowSet(t, l) \cap RowSet(t, r) = {} /\ RowSet(t, l) \cap RowSet(t, p) = {}
    /\ RowSet(t, r) \cap RowSet(t, p) = {}
    /\ \A c \in ToSet(t.node[l].child) \cup ToSet(t.node[r].child) : c \in DOMAIN g /\ c # l /\ c # r
    /\ n(t, l) \in Nat /\ n(t, r) \in Nat

(* Two neighbours below p that are inner nodes. *)
LEMMA TwoInner ==
    ASSUME NEW t, NEW g, NEW h, Good(t, g, h, {}, {}), NEW p, p \in DOMAIN g, g[p].lev # 0, g[p].lev # 1,
           NEW j, j \in 1 .. n(t, p), NEW l, l = LeftOf(t, p, j), NEW r, r = RightOf(t, p, j)
    PROVE  Neighbours(t, g, p, j, l, r)
<1>1. Tiled(g, h, MaxKey) /\ Owned(t, g, {}) /\ \A b \in DOMAIN g : NodeFits(t, g, b)
  BY DEF Good
<1>2. /\ l \in DOMAIN g /\ r \in DOMAIN g /\ l # r /\ l # p /\ r # p
      /\ g[l].lev + 1 = g[p].lev /\ g[l].lev = g[r].lev
      /\ g[l].hi = t.string[t.node[p].row[j]] /\ g[l].hi = g[r].lo
      /\ t.node[p].row[j] \in RowSet(t, p) /\ t.node[p].row[j] \in DOMAIN t.string
  BY ONLY Good(t, g, h, {}, {}), p \in DOMAIN g, g[p].lev # 0, j \in 1 .. n(t, p), l = LeftOf(t, p, j),
          r = RightOf(t, p, j), Siblings
<1>3. \A b \in DOMAIN g : g[b] \in Place /\ g[b].lo < g[b].hi /\ g[b].lev \in Nat
  BY ONLY <1>1, TiledIs
<1>4. g[l].lev # 0 /\ g[r].lev # 0
  BY ONLY <1>2, <1>3, g[p].lev # 1
<1>5. \A b \in DOMAIN g : g[b].lev # 0 => InnerFits(t.string, g, g[b], t.node[b].row, t.node[b].child)
  BY ONLY <1>1 DEF NodeFits
<1>6. /\ RowSet(t, l) \cup RowSet(t, r) \cup RowSet(t, p) \subseteq DOMAIN t.string
      /\ RowSet(t, l) \cap RowSet(t, r) = {} /\ RowSet(t, l) \cap RowSet(t, p) = {}
      /\ RowSet(t, r) \cap RowSet(t, p) = {}
  BY ONLY <1>1, <1>2, <1>4, p \in DOMAIN g, g[p].lev # 0 DEF Owned
<1>7. ASSUME NEW b, b \in DOMAIN g, g[b].lev # 0
      PROVE  /\ n(t, b) \in Nat
             /\ \A c \in ToSet(t.node[b].child) : c \in DOMAIN g /\ g[c].lev + 1 = g[b].lev
  <2> DEFINE row == t.node[b].row
             child == t.node[b].child
             at == g[b]
             str == t.string
  <2>1. at \in Place /\ at.lo < at.hi /\ InnerFits(str, g, at, row, child)
    BY ONLY <1>3, <1>5, <1>7
  <2>2. n(t, b) = Len(row)
    BY DEF n
  <2> HIDE DEF row, child, at, str
  <2>0. Tiled(g, h, MaxKey)
    BY ONLY <1>1
  <2>3. Len(row) \in Nat
    BY ONLY <2>0, <2>1, InnerIs
  <2>4. \A c \in ToSet(child) : /\ c \in DOMAIN g /\ g[c].lev + 1 = at.lev
                                /\ at.lo <= g[c].lo /\ g[c].lo < g[c].hi /\ g[c].hi <= at.hi
    BY ONLY <2>0, <2>1, InnerIs
  <2> QED
    BY ONLY <2>2, <2>3, <2>4 DEF child, at
<1>8. \A c \in ToSet(t.node[l].child) : c \in DOMAIN g /\ c # l /\ c # r
  BY ONLY <1>2, <1>3, <1>4, <1>7
<1>9. \A c \in ToSet(t.node[r].child) : c \in DOMAIN g /\ c # l /\ c # r
  BY ONLY <1>2, <1>3, <1>4, <1>7
<1>10. n(t, l) \in Nat /\ n(t, r) \in Nat
  BY ONLY <1>2, <1>4, <1>7
<1> QED
  BY ONLY <1>2, <1>3, <1>4, <1>5, <1>6, <1>8, <1>9, <1>10 DEF Neighbours

(* MergeInner before p has dropped the separator. *)
InnersJoined(t, g, w, l, r, x, k) ==
    /\ Merging(t, g, w, l, r)
    /\ w.node[l].row = (t.node[l].row \o <<x>>) \o t.node[r].row
    /\ w.node[l].child = t.node[l].child \o t.node[r].child
    /\ x \in Nat /\ x \notin DOMAIN t.string
    /\ DOMAIN w.string = DOMAIN t.string \cup {x} /\ w.string[x] = k

(* MergeInner moves the rows of r, and the bound, into l. *)
LEMMA InnersMerging ==
    ASSUME NEW t, NEW g, NEW h, Good(t, g, h, {}, {}), NEW p, p \in DOMAIN g, g[p].lev # 0, g[p].lev # 1,
           NEW j, j \in 1 .. n(t, p), NEW l, l = LeftOf(t, p, j), NEW r, r = RightOf(t, p, j),
           NEW w, w = MergeInner(t, p, j).tree
    PROVE  InnersJoined(t, g, w, l, r, NewString(t), t.string[t.node[p].row[j]])
<1> DEFINE x == NewString(t)
           k == t.string[t.node[p].row[j]]
           u == insert_handler(t, k)
           row == (t.node[l].row \o <<x>>) \o t.node[r].row
           child == t.node[l].child \o t.node[r].child
           next == t.node[r].next
           leaf == t.node[l].leaf
           y1 == [u EXCEPT !.node[l].row = row]
           y2 == [y1 EXCEPT !.node[l].child = child]
           y3 == [y2 EXCEPT !.node[l].next = next]
           U == DOMAIN g
<1>1. /\ Typed(t) /\ Spare(t, U) /\ U \subseteq DOMAIN t.node /\ ~t.node[p].leaf
  BY DEF Good
<1>2. l \in U /\ r \in U /\ l # r /\ t.node[p].row[j] \in DOMAIN t.string
  <2>1. Neighbours(t, g, p, j, l, r)
    BY TwoInner
  <2> QED
    BY ONLY <2>1 DEF Neighbours
<1>3. k \in Key
  BY ONLY <1>1, <1>2, TypedIs
<1>4. x = NewString(t) /\ u = insert_handler(t, k)
  OBVIOUS
<1>5. RowKey(t, p, j) = k
  BY ONLY <1>1 DEF RowKey
<1>6. u.node = t.node
  <2> HIDE DEF k, u, x, U
  <2> QED
    BY ONLY <1>1, <1>3, <1>4, InsertHandlerIs
<1>7. w = FreeNode(y3, r)
  <2>1. w = FreeNode([u EXCEPT !.node[l].row = (@ \o <<NewString(t)>>) \o t.node[r].row,
                               !.node[l].child = @ \o t.node[r].child,
                               !.node[l].next = t.node[r].next], r)
    BY ONLY w = MergeInner(t, p, j).tree, l = LeftOf(t, p, j), r = RightOf(t, p, j), <1>5 DEF MergeInner
  <2> HIDE DEF u
  <2>2. w = FreeNode([[[u EXCEPT !.node[l].row = (u.node[l].row \o <<NewString(t)>>) \o t.node[r].row]
                         EXCEPT !.node[l].child = u.node[l].child \o t.node[r].child]
                         EXCEPT !.node[l].next = t.node[r].next], r)
    BY ONLY <2>1
  <2> QED
    BY ONLY <2>2, <1>6
<1>8. /\ l \in DOMAIN t.node /\ r \in DOMAIN t.node
      /\ t.node[l] = BNode(leaf, t.node[l].row, t.node[l].child, t.node[l].next)
      /\ t.node[l].row \in Seq(Nat) /\ t.node[r].row \in Seq(Nat) /\ t.node[r].next \in Int
      /\ t.node[l].child \in Seq(Nat) /\ t.node[r].child \in Seq(Nat)
  BY ONLY <1>1, <1>2, NodeIs
<1> HIDE DEF k, u, x, U
<1>9. /\ Typed(u) /\ Spare(u, U) /\ u.root_node = t.root_node
      /\ x \in Nat /\ x \notin DOMAIN t.string /\ DOMAIN u.string = DOMAIN t.string \cup {x} /\ u.string[x] = k
      /\ \A s \in DOMAIN t.string : u.string[s] = t.string[s]
  BY ONLY <1>1, <1>3, <1>4, InsertHandlerIs
<1>10. row \in Seq(Nat) /\ child \in Seq(Nat) /\ next \in Int
  <2>1. t.node[l].row \o <<x>> \in Seq(Nat)
    BY ONLY <1>8, <1>9
  <2> QED
    BY ONLY <1>8, <2>1
<1>11. y1 = [u EXCEPT !.node[l].row = row] /\ y2 = [y1 EXCEPT !.node[l].child = child]
       /\ y3 = [y2 EXCEPT !.node[l].next = next]
  OBVIOUS
<1>30. next \in Links(t)
  <2>1. Spare(t, U) /\ r \in DOMAIN t.node
    BY ONLY <1>1, <1>8
  <2>2. t.node[r].next \in Links(t)
    BY ONLY <2>1, LinkIs
  <2> QED
    BY ONLY <2>2
<1> HIDE DEF y1, y2, y3, row, child, next, leaf
<1>12. OnNode(u, y1, U, l, BNode(leaf, row, t.node[l].child, t.node[l].next))
  <2>1. l \in DOMAIN u.node /\ u.node[l] = BNode(leaf, t.node[l].row, t.node[l].child, t.node[l].next)
    BY ONLY <1>6, <1>8
  <2> QED
    BY ONLY <1>2, <1>9, <1>10, <1>11, <2>1, RowIs
<1>13. /\ Typed(y1) /\ Spare(y1, U) /\ DOMAIN y1.node = DOMAIN t.node
       /\ y1.root_node = t.root_node /\ y1.string = u.string
       /\ y1.node[l] = BNode(leaf, row, t.node[l].child, t.node[l].next)
       /\ \A y \in DOMAIN t.node : y # l => y1.node[y] = t.node[y]
  BY ONLY <1>6, <1>9, <1>12 DEF OnNode
<1>14. OnNode(y1, y2, U, l, BNode(leaf, row, child, t.node[l].next))
  <2>1. l \in DOMAIN y1.node
    BY ONLY <1>8, <1>13
  <2> QED
    BY ONLY <1>2, <1>10, <1>11, <1>13, <2>1, ChildIs
<1>15. /\ Typed(y2) /\ Spare(y2, U) /\ DOMAIN y2.node = DOMAIN t.node
       /\ y2.root_node = t.root_node /\ y2.string = u.string
       /\ y2.node[l] = BNode(leaf, row, child, t.node[l].next)
       /\ \A y \in DOMAIN t.node : y # l => y2.node[y] = t.node[y]
  BY ONLY <1>13, <1>14 DEF OnNode
<1>16. OnNode(y2, y3, U, l, BNode(leaf, row, child, next))
  <2>1. /\ l \in DOMAIN y2.node /\ Typed(y2) /\ Spare(y2, U)
        /\ y2.node[l] = BNode(leaf, row, child, t.node[l].next)
    BY ONLY <1>8, <1>15
  <2>2. next \in Int /\ y3 = [y2 EXCEPT !.node[l].next = next] /\ l \in U
    BY ONLY <1>2, <1>10, <1>11
  <2>3. next \in Links(y2)
    BY ONLY <1>15, <1>30 DEF Links
  <2> DEFINE z == t.node[l].next
  <2> HIDE DEF z
  <2> QED
    BY ONLY <2>1, <2>2, <2>3, NextIs DEF z
<1>17. /\ Typed(y3) /\ Spare(y3, U) /\ DOMAIN y3.node = DOMAIN t.node
       /\ y3.root_node = t.root_node /\ y3.string = u.string
       /\ y3.node[l] = BNode(leaf, row, child, next)
       /\ \A y \in DOMAIN t.node : y # l => y3.node[y] = t.node[y]
  BY ONLY <1>15, <1>16 DEF OnNode
<1>18. /\ Typed(w) /\ Spare(w, U \ {r}) /\ DOMAIN w.node = DOMAIN y3.node
       /\ \A b \in DOMAIN y3.node : b # r => w.node[b] = y3.node[b]
       /\ w.string = y3.string /\ w.root_node = y3.root_node
  BY ONLY <1>2, <1>7, <1>17, GiveIs
<1>19. w.node[l] = BNode(leaf, row, child, next)
  BY ONLY <1>2, <1>8, <1>17, <1>18
<1>20. \A b \in DOMAIN g : b # l /\ b # r => w.node[b] = t.node[b]
  BY ONLY <1>1, <1>17, <1>18 DEF U
<1>21. w.node[l].leaf = t.node[l].leaf /\ w.node[l].next = t.node[r].next /\ w.node[l].row = row
       /\ w.node[l].child = child
  BY ONLY <1>19 DEF BNode, next, leaf
<1>22. \A s \in DOMAIN t.string : s \in DOMAIN w.string /\ w.string[s] = t.string[s]
  BY ONLY <1>9, <1>17, <1>18
<1>23. Merging(t, g, w, l, r)
  BY ONLY <1>17, <1>18, <1>20, <1>21, <1>22 DEF Merging, U
<1> QED
  BY ONLY <1>9, <1>17, <1>18, <1>21, <1>23 DEF row, child, x, k, InnersJoined

(* A merge of two inner nodes, one of them with too few rows. *)
LEMMA MergeInnerMends ==
    ASSUME NEW t, NEW g, NEW h, Good(t, g, h, {}, {}), NEW p, p \in DOMAIN g, g[p].lev # 0, g[p].lev # 1,
           NEW j, j \in 1 .. n(t, p), NEW l, l = LeftOf(t, p, j), NEW r, r = RightOf(t, p, j),
           NEW c, c = l \/ c = r, Sized(t, g, {c}),
           n(t, l) + n(t, r) >= DEGREE, n(t, l) + n(t, r) < 2 * DEGREE
    PROVE  Mended(t, g, h, p, MergeInner(t, p, j), KeysIn(t, g))
<1> DEFINE w == MergeInner(t, p, j).tree
           old == t.node[p].row[j]
           v == DropEntry(w, p, old)
           g2 == JoinPlaces(g, l, r)
           x == NewString(t)
           k == t.string[old]
<1>1. /\ l \in DOMAIN g /\ r \in DOMAIN g /\ l # r /\ l # p /\ r # p
      /\ g[l].lev # 0 /\ g[l].lev = g[r].lev /\ g[l].lev + 1 = g[p].lev
      /\ g[l] \in Place /\ g[r] \in Place /\ g[l].lo < g[l].hi /\ g[r].lo < g[r].hi
      /\ g[l].hi = g[r].lo /\ g[l].hi = k
      /\ InnerFits(t.string, g, g[l], t.node[l].row, t.node[l].child)
      /\ InnerFits(t.string, g, g[r], t.node[r].row, t.node[r].child)
      /\ old \in RowSet(t, p) /\ old \in DOMAIN t.string
      /\ RowSet(t, l) \cup RowSet(t, r) \cup RowSet(t, p) \subseteq DOMAIN t.string
      /\ RowSet(t, l) \cap RowSet(t, r) = {} /\ RowSet(t, l) \cap RowSet(t, p) = {}
      /\ RowSet(t, r) \cap RowSet(t, p) = {}
      /\ \A b \in ToSet(t.node[l].child) \cup ToSet(t.node[r].child) : b \in DOMAIN g /\ b # l /\ b # r
      /\ n(t, l) \in Nat /\ n(t, r) \in Nat
  <2>1. Neighbours(t, g, p, j, l, r)
    BY TwoInner
  <2> QED
    BY ONLY <2>1 DEF Neighbours
<1>2. /\ w = MergeInner(t, p, j).tree /\ old = t.node[p].row[j] /\ v = DropEntry(w, p, old) /\ g2 = JoinPlaces(g, l, r)
      /\ x = NewString(t)
  OBVIOUS
<1>3. MergeInner(t, p, j) = [tree |-> w, old |-> old]
  BY DEF MergeInner
<1>4. /\ Merging(t, g, w, l, r)
      /\ w.node[l].row = (t.node[l].row \o <<x>>) \o t.node[r].row
      /\ w.node[l].child = t.node[l].child \o t.node[r].child
      /\ x \in Nat /\ x \notin DOMAIN t.string
      /\ DOMAIN w.string = DOMAIN t.string \cup {x} /\ w.string[x] = k
  <2>1. InnersJoined(t, g, w, l, r, x, k)
    BY InnersMerging
  <2> HIDE DEF w, x, k
  <2> QED
    BY ONLY <2>1 DEF InnersJoined
<1> HIDE DEF w, v, g2, x, k
<1>5. Merged(t, g, w, v, p, j, l, r)
  BY ONLY Good(t, g, h, {}, {}), p \in DOMAIN g, g[p].lev # 0, j \in 1 .. n(t, p), l = LeftOf(t, p, j),
          r = RightOf(t, p, j), <1>2, <1>4, EntryDropped
<1>6. /\ v.node[l] = w.node[l]
      /\ v.node[p].row = RemoveAt(t.node[p].row, j)
      /\ \A b \in DOMAIN g : b # l /\ b # r /\ b # p => v.node[b] = t.node[b]
      /\ DOMAIN v.string = (DOMAIN t.string \cup {x}) \ {old}
      /\ \A s \in DOMAIN v.string : v.string[s] = w.string[s]
  BY ONLY <1>4, <1>5 DEF Merged, BNode, old
<1>7. /\ DOMAIN g2 = DOMAIN g \ {r}
      /\ g2[l] = [lev |-> g[l].lev, lo |-> g[l].lo, hi |-> g[r].hi]
      /\ \A y \in DOMAIN g : y # l /\ y # r => g2[y] = g[y]
  <2>1. DOMAIN JoinPlaces(g, l, r) = DOMAIN g \ {r}
    BY Zenon DEF JoinPlaces
  <2>2. \A y \in DOMAIN g \ {r} : JoinPlaces(g, l, r)[y] = IF y = l THEN [lev |-> g[l].lev, lo |-> g[l].lo, hi |-> g[r].hi]
                                                     ELSE g[y]
    BY Zenon DEF JoinPlaces
  <2>3. l \in DOMAIN g \ {r}
    BY ONLY <1>1
  <2>4. g2[l] = [lev |-> g[l].lev, lo |-> g[l].lo, hi |-> g[r].hi]
    BY ONLY <1>2, <2>2, <2>3, Zenon
  <2>5. \A y \in DOMAIN g : y # l /\ y # r => g2[y] = g[y]
    BY ONLY <1>2, <2>2, Zenon
  <2> QED
    BY ONLY <1>2, <2>1, <2>4, <2>5
<1>8. g2[l].lev = g[l].lev
  BY ONLY <1>7
<1>9. \A s \in DOMAIN t.string : s # old => s \in DOMAIN v.string /\ v.string[s] = t.string[s]
  BY ONLY <1>4, <1>6 DEF Merging
<1>10. x \in DOMAIN v.string /\ v.string[x] = k
  BY ONLY <1>1, <1>4, <1>6
<1>11. NodeFits(v, g2, l)
  <2> DEFINE at == g[l]
             at2 == g[r]
             row == t.node[l].row
             row2 == t.node[r].row
             child == t.node[l].child
             child2 == t.node[r].child
             str == t.string
             str2 == v.string
  <2>1. /\ InnerFits(str, g, at, row, child) /\ InnerFits(str, g, at2, row2, child2)
        /\ at.lev = at2.lev /\ at.hi = at2.lo
    BY ONLY <1>1
  <2>2. \A s \in ToSet(row) \cup ToSet(row2) : s \in DOMAIN str2 /\ str2[s] = str[s]
    BY ONLY <1>1, <1>9 DEF RowSet
  <2>3. \A b \in ToSet(child) \cup ToSet(child2) : b \in DOMAIN g2 /\ g2[b] = g[b]
    BY ONLY <1>1, <1>7
  <2>4. x \in DOMAIN str2 /\ str2[x] = at.hi
    BY ONLY <1>1, <1>10
  <2>5. /\ g2[l] = [lev |-> at.lev, lo |-> at.lo, hi |-> at2.hi] /\ g2[l].lev # 0
        /\ v.node[l].row = (row \o <<x>>) \o row2 /\ v.node[l].child = child \o child2
    BY ONLY <1>1, <1>4, <1>6, <1>7, <1>8
  <2> HIDE DEF at, at2, row, row2, child, child2, str, str2
  <2>6. InnerFits(str2, g2, [lev |-> at.lev, lo |-> at.lo, hi |-> at2.hi], (row \o <<x>>) \o row2, child \o child2)
    BY ONLY <2>1, <2>2, <2>3, <2>4, InnersFit
  <2>7. InnerFits(str2, g2, g2[l], v.node[l].row, v.node[l].child)
    BY ONLY <2>5, <2>6
  <2> QED
    BY ONLY <2>5, <2>7 DEF NodeFits, str2
<1>12. RowSet(v, p) = RowSet(t, p) \ {old}
  <2>1. ToSet(RemoveAt(t.node[p].row, j)) = RowSet(t, p) \ {t.node[p].row[j]}
    BY ONLY Good(t, g, h, {}, {}), p \in DOMAIN g, g[p].lev # 0, j \in 1 .. n(t, p), RowsDropped
  <2>2. RowSet(v, p) = ToSet(RemoveAt(t.node[p].row, j))
    BY ONLY <1>6 DEF RowSet
  <2> QED
    BY ONLY <2>1, <2>2 DEF old
<1>13. /\ RowSet(v, l) = (RowSet(t, l) \cup {x}) \cup RowSet(t, r)
       /\ n(v, l) = n(t, l) + 1 + n(t, r)
  <2> DEFINE row == t.node[l].row
             row2 == t.node[r].row
             o == <<x>>
  <2>1. row \in Seq(DOMAIN t.string) /\ row2 \in Seq(DOMAIN t.string)
    BY ONLY <1>1 DEF InnerFits
  <2>2. row \in Seq(DOMAIN v.string \cup DOMAIN t.string) /\ row2 \in Seq(DOMAIN v.string \cup DOMAIN t.string)
        /\ x \in DOMAIN v.string \cup DOMAIN t.string
    <3>1. \A s : s \in Seq(DOMAIN t.string) => s \in Seq(DOMAIN v.string \cup DOMAIN t.string)
      OBVIOUS
    <3> QED
      BY ONLY <1>10, <2>1, <3>1
  <2> DEFINE D == DOMAIN v.string \cup DOMAIN t.string
  <2> HIDE DEF D, row, row2, o
  <2>3. row \in Seq(D) /\ row2 \in Seq(D) /\ x \in D
    BY ONLY <2>2 DEF D
  <2>4. o \in Seq(D) /\ Len(o) = 1 /\ ToSet(o) = {x}
    BY ONLY <2>3, OneIs DEF o
  <2>5. row \o o \in Seq(D) /\ Len(row \o o) = Len(row) + 1 /\ ToSet(row \o o) = ToSet(row) \cup {x}
    <3>1. /\ row \o o \in Seq(D) /\ Len(row \o o) = Len(row) + Len(o)
          /\ ToSet(row \o o) = ToSet(row) \cup ToSet(o)
      BY ONLY <2>3, <2>4, ConcatIs
    <3> QED
      BY ONLY <2>4, <3>1
  <2> DEFINE s == row \o o
  <2>6. s \in Seq(D) /\ Len(s) = Len(row) + 1 /\ ToSet(s) = ToSet(row) \cup {x}
    BY ONLY <2>5
  <2> HIDE DEF s
  <2>7. Len(s \o row2) = Len(s) + Len(row2) /\ ToSet(s \o row2) = ToSet(s) \cup ToSet(row2)
    BY ONLY <2>3, <2>6, ConcatIs
  <2>8. v.node[l].row = s \o row2
    BY ONLY <1>4, <1>6 DEF s, row, row2, o
  <2>9. n(v, l) = Len(row) + 1 + Len(row2) /\ RowSet(v, l) = (ToSet(row) \cup {x}) \cup ToSet(row2)
    BY ONLY <2>6, <2>7, <2>8 DEF n, RowSet
  <2> QED
    BY ONLY <2>9 DEF n, RowSet, row, row2
<1>14. Owned(v, g2, {})
  <2> DEFINE C == {l, r, p}
             C2 == {l, p}
             W == (RowSet(t, l) \cup RowSet(t, r)) \cup RowSet(t, p)
             W2 == (W \cup {x}) \ {old}
             E == {}
  <2>1. \A b : IsInner(g, b) /\ b \notin C <=> IsInner(g2, b) /\ b \notin C2
    BY ONLY <1>1, <1>7 DEF IsInner
  <2>2. \A b : IsInner(g, b) /\ b \notin C => RowSet(v, b) = RowSet(t, b)
    BY ONLY <1>1, <1>6 DEF IsInner, RowSet
  <2>3. (\A b \in C : IsInner(g, b)) /\ (\A b \in C2 : IsInner(g2, b))
    BY ONLY <1>1, <1>7, <1>8, p \in DOMAIN g, g[p].lev # 0 DEF IsInner
  <2>4. \A s : s \in W <=> s \in E \/ (\E b \in C : s \in RowSet(t, b))
    OBVIOUS
  <2>5. DOMAIN v.string = (DOMAIN t.string \ W) \cup W2 /\ (W2 \ W) \cap DOMAIN t.string = {}
    BY ONLY <1>1, <1>4, <1>6
  <2>6. /\ E \subseteq W2 /\ (\A b \in C2 : RowSet(v, b) \subseteq W2 \ E)
        /\ \A s \in W2 \ E : \E b \in C2 : s \in RowSet(v, b)
    BY ONLY <1>1, <1>4, <1>12, <1>13
  <2>7. \A b, y \in C2 : b # y => RowSet(v, b) \cap RowSet(v, y) = {}
    <3>1. RowSet(v, l) = (RowSet(t, l) \cup {x}) \cup RowSet(t, r) /\ RowSet(v, p) = RowSet(t, p) \ {old}
      BY ONLY <1>12, <1>13
    <3>2. /\ RowSet(t, l) \cap RowSet(t, p) = {} /\ RowSet(t, r) \cap RowSet(t, p) = {}
          /\ RowSet(t, p) \subseteq DOMAIN t.string /\ x \notin DOMAIN t.string
      BY ONLY <1>1, <1>4
    <3>3. RowSet(v, l) \cap RowSet(v, p) = {}
      BY ONLY <3>1, <3>2
    <3> QED
      BY ONLY <3>3
  <2>8. Owned(t, g, E)
    BY DEF Good
  <2> HIDE DEF C, C2, W, W2, E
  <2>9. Exchange(t, g, E, v, g2, E, C, C2, W, W2)
    BY ONLY <2>1, <2>2, <2>3, <2>4, <2>5, <2>6, <2>7 DEF Exchange
  <2>10. Owned(v, g2, E)
    BY ONLY <2>8, <2>9, OwnedStep
  <2> QED
    BY ONLY <2>10 DEF E
<1>15. KeysIn(v, g2) = KeysIn(t, g)
  <2>1. \A b : b \in DOMAIN g /\ g[b].lev = 0 <=> b \in DOMAIN g2 /\ g2[b].lev = 0
    BY ONLY <1>1, <1>7, <1>8
  <2>2. \A b \in DOMAIN g : g[b].lev = 0 => RowSet(v, b) = RowSet(t, b)
    BY ONLY <1>1, <1>6, g[p].lev # 0 DEF RowSet
  <2> QED
    BY ONLY <2>1, <2>2 DEF KeysIn
<1>16. n(w, l) \in DEGREE .. 2 * DEGREE
  <2> DEFINE a == n(t, l) + n(t, r)
             s == n(w, l)
  <2>1. /\ s = a + 1 /\ a \in Nat /\ a >= DEGREE /\ a < 2 * DEGREE /\ DEGREE \in Nat
    <3>1. n(w, l) = n(v, l)
      BY ONLY <1>6 DEF n
    <3>2. n(t, l) + 1 + n(t, r) = (n(t, l) + n(t, r)) + 1
      BY ONLY <1>1
    <3> QED
      BY ONLY <1>1, <1>13, <3>1, <3>2, TreeAssumption, n(t, l) + n(t, r) >= DEGREE, n(t, l) + n(t, r) < 2 * DEGREE
  <2> HIDE DEF a, s
  <2>2. s \in DEGREE .. 2 * DEGREE
    BY ONLY <2>1
  <2> QED
    BY ONLY <2>2 DEF s
<1>17. NodeFits(v, JoinPlaces(g, l, r), l) /\ Owned(v, JoinPlaces(g, l, r), {}) /\ KeysIn(v, JoinPlaces(g, l, r)) = KeysIn(t, g)
  BY ONLY <1>2, <1>11, <1>14, <1>15
<1> HIDE DEF old
<1>18. Mended(t, g, h, p, [tree |-> w, old |-> old], KeysIn(t, g))
  BY ONLY Good(t, g, h, {}, {}), p \in DOMAIN g, g[p].lev # 0, j \in 1 .. n(t, p), l = LeftOf(t, p, j),
          r = RightOf(t, p, j), c = l \/ c = r, Sized(t, g, {c}), <1>2, <1>4, <1>5, <1>16, <1>17, MergeMends
<1> QED
  BY ONLY <1>3, <1>18

(* The rows and children of l and r change, and the row of p between them. *)
Turned(t, v, U, p, j, y, l, rowl, childl, r, rowr, childr) ==
    /\ Typed(v) /\ Spare(v, U) /\ DOMAIN v.node = DOMAIN t.node /\ v.root_node = t.root_node
    /\ v.string = t.string
    /\ \A b \in DOMAIN t.node : v.node[b].leaf = t.node[b].leaf /\ v.node[b].next = t.node[b].next
    /\ \A b \in DOMAIN t.node : b # l /\ b # r /\ b # p => v.node[b] = t.node[b]
    /\ v.node[l].row = rowl /\ v.node[l].child = childl
    /\ v.node[r].row = rowr /\ v.node[r].child = childr
    /\ v.node[p].row = [t.node[p].row EXCEPT ![j] = y] /\ v.node[p].child = t.node[p].child

(* The rows of two inner neighbours are divided anew. *)
LEMMA RotateMends ==
    ASSUME NEW t, NEW g, NEW h, Good(t, g, h, {}, {}), NEW p, p \in DOMAIN g, g[p].lev # 0, g[p].lev # 1,
           NEW j, j \in 1 .. n(t, p), NEW l, l = LeftOf(t, p, j), NEW r, r = RightOf(t, p, j),
           NEW c, c = l \/ c = r, Sized(t, g, {c}),
           NEW rowl, NEW childl, NEW rowr, NEW childr, NEW y,
           Shared(t, g, p, j, l, r, rowl, childl, rowr, childr, y),
           Len(rowl) \in DEGREE .. 2 * DEGREE, Len(rowr) \in DEGREE .. 2 * DEGREE,
           NEW v, Turned(t, v, DOMAIN g, p, j, y, l, rowl, childl, r, rowr, childr)
    PROVE  Mended(t, g, h, p, Kept(v), KeysIn(t, g))
<1> DEFINE s == t.node[p].row[j]
           m == t.string[y]
           g2 == ShiftBound(g, l, r, m)
           lev == g[l].lev
           row == t.node[p].row
<1>1. /\ Tiled(g, h, MaxKey) /\ Owned(t, g, {}) /\ Typed(t) /\ DOMAIN g \subseteq DOMAIN t.node
      /\ \A b \in DOMAIN g : NodeFits(t, g, b)
  BY DEF Good
<1>2. /\ l \in DOMAIN g /\ r \in DOMAIN g /\ l # r /\ l # p /\ r # p
      /\ g[l].lev # 0 /\ g[l].lev = g[r].lev /\ g[l].lev + 1 = g[p].lev
      /\ g[l].hi = g[r].lo
      /\ s \in RowSet(t, p) /\ s \in DOMAIN t.string
      /\ RowSet(t, l) \cup RowSet(t, r) \cup RowSet(t, p) \subseteq DOMAIN t.string
      /\ RowSet(t, l) \cap RowSet(t, r) = {} /\ RowSet(t, l) \cap RowSet(t, p) = {}
      /\ RowSet(t, r) \cap RowSet(t, p) = {}
  <2>1. Neighbours(t, g, p, j, l, r)
    BY TwoInner
  <2> QED
    BY ONLY <2>1 DEF Neighbours
<1>3. /\ y \in DOMAIN t.string
      /\ InnerFits(t.string, g, [lev |-> lev, lo |-> g[l].lo, hi |-> m], rowl, childl)
      /\ InnerFits(t.string, g, [lev |-> lev, lo |-> m, hi |-> g[r].hi], rowr, childr)
      /\ (ToSet(rowl) \cup ToSet(rowr)) \cup {y} = (RowSet(t, l) \cup RowSet(t, r)) \cup {s}
      /\ ToSet(rowl) \cap ToSet(rowr) = {} /\ y \notin ToSet(rowl) /\ y \notin ToSet(rowr)
  BY DEF Shared, InnersDivided
<1>4. /\ Typed(v) /\ Spare(v, DOMAIN g) /\ DOMAIN v.node = DOMAIN t.node /\ v.root_node = t.root_node
      /\ v.string = t.string
      /\ \A b \in DOMAIN t.node : v.node[b].leaf = t.node[b].leaf /\ v.node[b].next = t.node[b].next
      /\ \A b \in DOMAIN t.node : b # l /\ b # r /\ b # p => v.node[b] = t.node[b]
      /\ v.node[l].row = rowl /\ v.node[l].child = childl
      /\ v.node[r].row = rowr /\ v.node[r].child = childr
      /\ v.node[p].row = [t.node[p].row EXCEPT ![j] = y] /\ v.node[p].child = t.node[p].child
  BY ONLY Turned(t, v, DOMAIN g, p, j, y, l, rowl, childl, r, rowr, childr) DEF Turned
<1>5. m \in Nat
  <2>1. t.string[y] \in Key
    BY ONLY <1>1, <1>3, TypedIs
  <2> QED
    BY ONLY <2>1 DEF Key, m
<1>6. \A b \in DOMAIN g : g[b] \in Place /\ g[b].lev \in Nat /\ g[b].lo \in Nat /\ g[b].hi \in Nat
  BY ONLY <1>1, TiledIs
<1>7. g2 = ShiftBound(g, l, r, m)
  OBVIOUS
<1> HIDE DEF s, m, g2, lev
<1>8. /\ g[l].lo < m /\ rowl \in Seq(DOMAIN t.string)
      /\ \A b \in ToSet(childl) : b \in DOMAIN g /\ g[b].lev + 1 = lev
  <2> DEFINE at == [lev |-> lev, lo |-> g[l].lo, hi |-> m]
             str == t.string
  <2>1. at \in Place /\ at.lev = lev /\ at.lo = g[l].lo /\ at.hi = m
    BY ONLY <1>2, <1>5, <1>6 DEF lev, Place
  <2>2. InnerFits(str, g, at, rowl, childl) /\ Tiled(g, h, MaxKey)
    BY ONLY <1>1, <1>3 DEF lev
  <2> HIDE DEF at, str
  <2>3. at.lo < at.hi /\ rowl \in Seq(DOMAIN str) /\ \A b \in ToSet(childl) : b \in DOMAIN g /\ g[b].lev + 1 = at.lev
    BY ONLY <2>1, <2>2, FitsBetween
  <2> QED
    BY ONLY <2>1, <2>3 DEF str
<1>9. /\ m < g[r].hi /\ rowr \in Seq(DOMAIN t.string)
      /\ \A b \in ToSet(childr) : b \in DOMAIN g /\ g[b].lev + 1 = lev
  <2> DEFINE at == [lev |-> lev, lo |-> m, hi |-> g[r].hi]
             str == t.string
  <2>1. at \in Place /\ at.lev = lev /\ at.lo = m /\ at.hi = g[r].hi
    BY ONLY <1>2, <1>5, <1>6 DEF lev, Place
  <2>2. InnerFits(str, g, at, rowr, childr) /\ Tiled(g, h, MaxKey)
    BY ONLY <1>1, <1>3 DEF lev
  <2> HIDE DEF at, str
  <2>3. at.lo < at.hi /\ rowr \in Seq(DOMAIN str) /\ \A b \in ToSet(childr) : b \in DOMAIN g /\ g[b].lev + 1 = at.lev
    BY ONLY <2>1, <2>2, FitsBetween
  <2> QED
    BY ONLY <2>1, <2>3 DEF str
<1>10. /\ DOMAIN g2 = DOMAIN g
       /\ g2[l] = [lev |-> g[l].lev, lo |-> g[l].lo, hi |-> m]
       /\ g2[r] = [lev |-> g[r].lev, lo |-> m, hi |-> g[r].hi]
       /\ \A x \in DOMAIN g : x # l /\ x # r => g2[x] = g[x]
  BY ONLY <1>1, <1>2, <1>5, <1>7, <1>8, <1>9, ShiftIs
<1>11. /\ g2[l].lev = g[l].lev /\ g2[r].lev = g[r].lev /\ \A b \in DOMAIN g : g2[b].lev = g[b].lev
       /\ \A b : IsInner(g, b) <=> IsInner(g2, b)
  <2>1. g2[l].lev = g[l].lev /\ g2[r].lev = g[r].lev
    BY ONLY <1>10
  <2>2. \A b \in DOMAIN g : g2[b].lev = g[b].lev
    BY ONLY <1>10, <2>1
  <2> QED
    BY ONLY <1>10, <2>1, <2>2 DEF IsInner
<1>12. /\ \A b \in ToSet(childl) : b \in DOMAIN g2 /\ g2[b] = g[b]
       /\ \A b \in ToSet(childr) : b \in DOMAIN g2 /\ g2[b] = g[b]
  <2>1. \A b \in DOMAIN g : g[b].lev + 1 = lev => b # l /\ b # r
    BY ONLY <1>2, <1>6 DEF lev
  <2> QED
    BY ONLY <1>8, <1>9, <1>10, <2>1
<1>13. NodeFits(v, g2, l) /\ NodeFits(v, g2, r)
  <2> DEFINE str == t.string
             atl == [lev |-> lev, lo |-> g[l].lo, hi |-> m]
             atr == [lev |-> lev, lo |-> m, hi |-> g[r].hi]
  <2>1. InnerFits(str, g, atl, rowl, childl) /\ InnerFits(str, g, atr, rowr, childr)
        /\ (\A x \in ToSet(rowl) : x \in DOMAIN str /\ str[x] = str[x])
        /\ (\A x \in ToSet(rowr) : x \in DOMAIN str /\ str[x] = str[x])
    BY ONLY <1>3, <1>8, <1>9, ToSetIs
  <2>2. g2[l] = atl /\ g2[r] = atr /\ g2[l].lev # 0 /\ g2[r].lev # 0
    BY ONLY <1>2, <1>10, <1>11 DEF lev
  <2>3. v.string = str
    BY ONLY <1>4
  <2> HIDE DEF str, atl, atr
  <2>4. InnerFits(str, g2, atl, rowl, childl)
    BY ONLY <1>12, <2>1, InnerStays
  <2>5. InnerFits(str, g2, atr, rowr, childr)
    BY ONLY <1>12, <2>1, InnerStays
  <2> QED
    BY ONLY <1>4, <2>2, <2>3, <2>4, <2>5 DEF NodeFits
<1>14. /\ IsInjective(row) /\ DOMAIN row = 1 .. n(t, p) /\ n(t, p) \in Nat
       /\ \A i \in 1 .. n(t, p) : row[i] \in DOMAIN t.string
  <2> DEFINE at == g[p]
             child == t.node[p].child
             str == t.string
  <2>1. at \in Place /\ at.lo < at.hi /\ InnerFits(str, g, at, row, child)
    <3>1. g[p].lo < g[p].hi /\ g[p] \in Place
      BY ONLY <1>1, p \in DOMAIN g, TiledIs
    <3> QED
      BY ONLY <1>1, <3>1, p \in DOMAIN g, g[p].lev # 0 DEF NodeFits
  <2>2. n(t, p) = Len(row)
    BY DEF n
  <2> HIDE DEF at, child, str, row
  <2>3. row \in Seq(DOMAIN str) /\ IsInjective(row)
    BY ONLY <1>1, <2>1, InnerIs
  <2>4. DOMAIN row = 1 .. Len(row) /\ Len(row) \in Nat /\ \A i \in 1 .. Len(row) : row[i] \in DOMAIN str
    BY ONLY <2>3
  <2> QED
    BY ONLY <2>2, <2>3, <2>4 DEF str
<1>15. RowSet(v, p) = (RowSet(t, p) \ {s}) \cup {y}
  <2> DEFINE N == n(t, p)
             row2 == v.node[p].row
  <2>1. DOMAIN row = 1 .. N /\ N \in Nat /\ DOMAIN row2 = 1 .. N /\ row2[j] = y /\ j \in 1 .. N
        /\ (\A i \in 1 .. N : i # j => row2[i] = row[i]) /\ IsInjective(row)
    BY ONLY <1>4, <1>14, j \in 1 .. n(t, p)
  <2>2. RowSet(t, p) = ToSet(row) /\ RowSet(v, p) = ToSet(row2) /\ row[j] = s
    BY DEF RowSet, s
  <2> HIDE DEF N, row2, row
  <2>3. ToSet(row2) = (ToSet(row) \ {row[j]}) \cup {row2[j]}
    BY ONLY <2>1, ToSetSet
  <2> QED
    BY ONLY <2>1, <2>2, <2>3
<1>16. RowSet(v, l) = ToSet(rowl) /\ RowSet(v, r) = ToSet(rowr)
  BY ONLY <1>4 DEF RowSet
<1>17. Owned(v, g2, {})
  <2> DEFINE C == {l, r, p}
             W == (RowSet(t, l) \cup RowSet(t, r)) \cup RowSet(t, p)
             E == {}
  <2>1. \A b : IsInner(g, b) /\ b \notin C <=> IsInner(g2, b) /\ b \notin C
    BY ONLY <1>11
  <2>2. \A b : IsInner(g, b) /\ b \notin C => RowSet(v, b) = RowSet(t, b)
    BY ONLY <1>1, <1>4 DEF IsInner, RowSet
  <2>3. (\A b \in C : IsInner(g, b)) /\ (\A b \in C : IsInner(g2, b))
    BY ONLY <1>2, <1>11, p \in DOMAIN g, g[p].lev # 0 DEF IsInner
  <2>4. \A x : x \in W <=> x \in E \/ (\E b \in C : x \in RowSet(t, b))
    OBVIOUS
  <2>5. DOMAIN v.string = (DOMAIN t.string \ W) \cup W /\ (W \ W) \cap DOMAIN t.string = {}
    BY ONLY <1>2, <1>4
  <2>6. /\ E \subseteq W /\ (\A b \in C : RowSet(v, b) \subseteq W \ E)
        /\ \A x \in W \ E : \E b \in C : x \in RowSet(v, b)
    BY ONLY <1>2, <1>3, <1>15, <1>16
  <2>7. \A b, x \in C : b # x => RowSet(v, b) \cap RowSet(v, x) = {}
    BY ONLY <1>2, <1>3, <1>15, <1>16
  <2>8. Owned(t, g, E)
    BY ONLY <1>1
  <2> HIDE DEF C, W, E
  <2>9. Exchange(t, g, E, v, g2, E, C, C, W, W)
    BY ONLY <2>1, <2>2, <2>3, <2>4, <2>5, <2>6, <2>7 DEF Exchange
  <2>10. Owned(v, g2, E)
    BY ONLY <2>8, <2>9, OwnedStep
  <2> QED
    BY ONLY <2>10 DEF E
<1>18. Good(v, g2, h, {}, {})
  <2>1. \A b \in DOMAIN g : v.node[b].leaf = t.node[b].leaf /\ v.node[b].next = t.node[b].next
    BY ONLY <1>1, <1>4
  <2>2. \A b \in DOMAIN g : b # l /\ b # r /\ b # p
                              => v.node[b].row = t.node[b].row /\ v.node[b].child = t.node[b].child
    BY ONLY <1>1, <1>4
  <2>3. \A b \in DOMAIN g : g[b].lev # 0 /\ b # l /\ b # r /\ b # p
                              => \A x \in RowSet(t, b) : x \in DOMAIN v.string /\ v.string[x] = t.string[x]
    BY ONLY <1>1, <1>4 DEF Owned
  <2>4. y \in DOMAIN v.string /\ v.string[y] = m
    BY ONLY <1>3, <1>4 DEF m
  <2>5. \A i \in 1 .. n(t, p) : i # j => LET x == t.node[p].row[i] IN
                                           x \in DOMAIN v.string /\ v.string[x] = t.string[x]
    BY ONLY <1>4, <1>14 DEF row
  <2>6. /\ Typed(v) /\ Spare(v, DOMAIN g) /\ DOMAIN v.node = DOMAIN t.node /\ v.root_node = t.root_node
        /\ v.node[p].row = [t.node[p].row EXCEPT ![j] = y] /\ v.node[p].child = t.node[p].child
    BY ONLY <1>4
  <2>7. g[l].lo < m /\ m < g[r].hi
    BY ONLY <1>8, <1>9
  <2> QED
    BY ONLY Good(t, g, h, {}, {}), p \in DOMAIN g, g[p].lev # 0, j \in 1 .. n(t, p), l = LeftOf(t, p, j),
            r = RightOf(t, p, j), <1>5, <1>7, <1>13, <1>17, <2>1, <2>2, <2>3, <2>4, <2>5, <2>6, <2>7, ShiftGood
<1>19. Keeps(g, g2, g[p].lev)
  <2> DEFINE w == g[p].lev
  <2>1. ~(g[l].lev >= w) /\ ~(g[r].lev >= w)
    BY ONLY <1>2, <1>6
  <2> HIDE DEF w
  <2> QED
    BY ONLY <1>10, <1>11, <2>1, ShiftKeeps DEF w
<1>20. KeysIn(v, g2) = KeysIn(t, g)
  <2>1. \A b : b \in DOMAIN g /\ g[b].lev = 0 <=> b \in DOMAIN g2 /\ g2[b].lev = 0
    BY ONLY <1>10, <1>11
  <2>2. \A b \in DOMAIN g : g[b].lev = 0 => RowSet(v, b) = RowSet(t, b)
    BY ONLY <1>1, <1>2, <1>4, g[p].lev # 0 DEF RowSet
  <2> QED
    BY ONLY <2>1, <2>2 DEF KeysIn
<1>21. Sized(v, g2, {})
  <2>1. /\ \A b \in DOMAIN g : b # l /\ b # r /\ b # p => n(v, b) = n(t, b)
        /\ n(v, l) \in DEGREE .. 2 * DEGREE /\ n(v, r) \in DEGREE .. 2 * DEGREE
    BY ONLY <1>1, <1>4, Len(rowl) \in DEGREE .. 2 * DEGREE, Len(rowr) \in DEGREE .. 2 * DEGREE DEF n
  <2>2. n(v, p) = n(t, p)
    <3>1. v.node[p].row \in Seq(Nat) /\ t.node[p].row \in Seq(Nat)
      BY ONLY <1>1, <1>4, p \in DOMAIN g, NodeIs
    <3>2. DOMAIN v.node[p].row = DOMAIN t.node[p].row
      BY ONLY <1>4
    <3> QED
      BY ONLY <3>1, <3>2 DEF n
  <2>3. \A b \in DOMAIN g : b # l /\ b # r => n(v, b) = n(t, b)
    BY ONLY <2>1, <2>2
  <2>4. /\ DOMAIN g2 = DOMAIN g /\ v.root_node = t.root_node
        /\ \A b \in DOMAIN g : g2[b].lev = g[b].lev
    BY ONLY <1>4, <1>10, <1>11
  <2>5. n(v, l) \in Sizes /\ n(v, r) \in Sizes
    BY ONLY <2>1 DEF Sizes
  <2> HIDE DEF g2
  <2> QED
    BY ONLY Sized(t, g, {c}), c = l \/ c = r, <2>3, <2>4, <2>5, SizesShift
<1> DEFINE R == Kept(v)
<1>22. R = Kept(v)
  OBVIOUS
<1> HIDE DEF R
<1>23. Dropped(p, R) = v /\ R.old = NoString
  BY ONLY <1>22, KeptIs
<1>24. Mended(t, g, h, p, R, KeysIn(t, g))
  BY ONLY <1>4, <1>18, <1>19, <1>20, <1>21, <1>23 DEF Mended
<1> QED
  BY ONLY <1>22, <1>24

(* Field after field. *)
LEMMA AssignedIs ==
    ASSUME NEW t, Typed(t), NEW U, U \subseteq DOMAIN t.node, Spare(t, U),
           NEW a, a \in U, NEW b, b \in U, NEW p, p \in U, a # b, a # p, b # p,
           NEW rowa, rowa \in Seq(Nat), NEW childa, childa \in Seq(Nat),
           NEW rowb, rowb \in Seq(Nat), NEW childb, childb \in Seq(Nat),
           NEW j, NEW y, [t.node[p].row EXCEPT ![j] = y] \in Seq(Nat),
           NEW v, v = Assigned(t, a, rowa, childa, p, j, y, b, rowb, childb)
    PROVE  Turned(t, v, U, p, j, y, a, rowa, childa, b, rowb, childb)
<1> DEFINE rowp == [t.node[p].row EXCEPT ![j] = y]
           y1 == [t EXCEPT !.node[a].row = rowa]
           y2 == [y1 EXCEPT !.node[a].child = childa]
           y3 == [y2 EXCEPT !.node[p].row = rowp]
           y4 == [y3 EXCEPT !.node[b].row = rowb]
           N(x) == t.node[x]
<1>1. \A x \in U : /\ x \in DOMAIN t.node /\ t.node[x] = BNode(N(x).leaf, N(x).row, N(x).child, N(x).next)
  BY NodeIs
<1>2. /\ y1 = [t EXCEPT !.node[a].row = rowa] /\ y2 = [y1 EXCEPT !.node[a].child = childa]
      /\ y3 = [y2 EXCEPT !.node[p].row = rowp] /\ y4 = [y3 EXCEPT !.node[b].row = rowb]
  OBVIOUS
<1>3. rowp \in Seq(Nat) /\ t.node[p].row = N(p).row
  OBVIOUS
<1> HIDE DEF rowp, N
<1>4. OnNode(t, y1, U, a, BNode(N(a).leaf, rowa, N(a).child, N(a).next))
  <2> DEFINE f == N(a).leaf
             w == N(a).row
             c == N(a).child
             z == N(a).next
  <2>1. t.node[a] = BNode(f, w, c, z) /\ a \in DOMAIN t.node
    BY ONLY <1>1, a \in U
  <2> HIDE DEF y1, f, w, c, z
  <2>2. OnNode(t, y1, U, a, BNode(f, rowa, c, z))
    BY ONLY Typed(t), Spare(t, U), a \in U, rowa \in Seq(Nat), <1>2, <2>1, RowIs
  <2> QED
    BY ONLY <2>2 DEF f, c, z
<1> HIDE DEF y1
<1>5. /\ Typed(y1) /\ Spare(y1, U) /\ DOMAIN y1.node = DOMAIN t.node /\ y1.root_node = t.root_node
      /\ y1.string = t.string /\ y1.node[a] = BNode(N(a).leaf, rowa, N(a).child, N(a).next)
      /\ \A x \in DOMAIN t.node : x # a => y1.node[x] = t.node[x]
  BY ONLY <1>4 DEF OnNode
<1>6. OnNode(y1, y2, U, a, BNode(N(a).leaf, rowa, childa, N(a).next))
  <2> DEFINE f == N(a).leaf
             c == N(a).child
             z == N(a).next
  <2>1. /\ y1.node[a] = BNode(f, rowa, c, z) /\ a \in DOMAIN y1.node /\ Typed(y1) /\ Spare(y1, U)
        /\ y2 = [y1 EXCEPT !.node[a].child = childa]
    BY ONLY <1>1, <1>2, <1>5, a \in U
  <2> HIDE DEF y2, f, c, z
  <2>2. OnNode(y1, y2, U, a, BNode(f, rowa, childa, z))
    BY ONLY a \in U, childa \in Seq(Nat), <2>1, ChildIs
  <2> QED
    BY ONLY <2>2 DEF f, z
<1> HIDE DEF y2
<1>7. /\ Typed(y2) /\ Spare(y2, U) /\ DOMAIN y2.node = DOMAIN t.node /\ y2.root_node = t.root_node
      /\ y2.string = t.string /\ y2.node[a] = BNode(N(a).leaf, rowa, childa, N(a).next)
      /\ \A x \in DOMAIN t.node : x # a => y2.node[x] = t.node[x]
  BY ONLY <1>5, <1>6 DEF OnNode
<1>8. OnNode(y2, y3, U, p, BNode(N(p).leaf, rowp, N(p).child, N(p).next))
  <2> DEFINE f == N(p).leaf
             w == N(p).row
             c == N(p).child
             z == N(p).next
  <2>1. /\ y2.node[p] = BNode(f, w, c, z) /\ p \in DOMAIN y2.node /\ Typed(y2) /\ Spare(y2, U)
        /\ y3 = [y2 EXCEPT !.node[p].row = rowp]
    BY ONLY <1>1, <1>2, <1>7, p \in U, a # p
  <2> HIDE DEF y3, f, w, c, z
  <2>2. OnNode(y2, y3, U, p, BNode(f, rowp, c, z))
    BY ONLY p \in U, <1>3, <2>1, RowIs
  <2> QED
    BY ONLY <2>2 DEF f, c, z
<1> HIDE DEF y3
<1>9. /\ Typed(y3) /\ Spare(y3, U) /\ DOMAIN y3.node = DOMAIN t.node /\ y3.root_node = t.root_node
      /\ y3.string = t.string /\ y3.node[a] = BNode(N(a).leaf, rowa, childa, N(a).next)
      /\ y3.node[p] = BNode(N(p).leaf, rowp, N(p).child, N(p).next)
      /\ \A x \in DOMAIN t.node : x # a /\ x # p => y3.node[x] = t.node[x]
  BY ONLY <1>1, <1>7, <1>8, a \in U, a # p DEF OnNode
<1>10. OnNode(y3, y4, U, b, BNode(N(b).leaf, rowb, N(b).child, N(b).next))
  <2> DEFINE f == N(b).leaf
             w == N(b).row
             c == N(b).child
             z == N(b).next
  <2>1. /\ y3.node[b] = BNode(f, w, c, z) /\ b \in DOMAIN y3.node /\ Typed(y3) /\ Spare(y3, U)
        /\ y4 = [y3 EXCEPT !.node[b].row = rowb]
    BY ONLY <1>1, <1>2, <1>9, b \in U, a # b, b # p
  <2> HIDE DEF y4, f, w, c, z
  <2>2. OnNode(y3, y4, U, b, BNode(f, rowb, c, z))
    BY ONLY b \in U, rowb \in Seq(Nat), <2>1, RowIs
  <2> QED
    BY ONLY <2>2 DEF f, c, z
<1>11. v = [y4 EXCEPT !.node[b].child = childb]
  <2>1. y2.node[p].row = t.node[p].row
    BY ONLY <1>1, <1>7, p \in U, a # p
  <2>2. [y2 EXCEPT !.node[p].row[j] = y] = [y2 EXCEPT !.node[p].row = [y2.node[p].row EXCEPT ![j] = y]]
    OBVIOUS
  <2>3. [y2 EXCEPT !.node[p].row[j] = y] = y3
    BY ONLY <1>2, <2>1, <2>2 DEF rowp
  <2>4. v = [[[y2 EXCEPT !.node[p].row[j] = y] EXCEPT !.node[b].row = rowb] EXCEPT !.node[b].child = childb]
    BY ONLY <1>2, v = Assigned(t, a, rowa, childa, p, j, y, b, rowb, childb) DEF Assigned
  <2> QED
    BY ONLY <1>2, <2>3, <2>4
<1> HIDE DEF y4
<1>12. /\ Typed(y4) /\ Spare(y4, U) /\ DOMAIN y4.node = DOMAIN t.node /\ y4.root_node = t.root_node
       /\ y4.string = t.string /\ y4.node[a] = BNode(N(a).leaf, rowa, childa, N(a).next)
       /\ y4.node[p] = BNode(N(p).leaf, rowp, N(p).child, N(p).next)
       /\ y4.node[b] = BNode(N(b).leaf, rowb, N(b).child, N(b).next)
       /\ \A x \in DOMAIN t.node : x # a /\ x # p /\ x # b => y4.node[x] = t.node[x]
  BY ONLY <1>1, <1>9, <1>10, a \in U, p \in U, a # b, b # p DEF OnNode
<1>13. OnNode(y4, v, U, b, BNode(N(b).leaf, rowb, childb, N(b).next))
  <2> DEFINE f == N(b).leaf
             c == N(b).child
             z == N(b).next
  <2>1. /\ y4.node[b] = BNode(f, rowb, c, z) /\ b \in DOMAIN y4.node /\ Typed(y4) /\ Spare(y4, U)
    BY ONLY <1>1, <1>12, b \in U
  <2> HIDE DEF f, c, z
  <2>2. OnNode(y4, v, U, b, BNode(f, rowb, childb, z))
    BY ONLY b \in U, childb \in Seq(Nat), <1>11, <2>1, ChildIs
  <2> QED
    BY ONLY <2>2 DEF f, z
<1>14. /\ Typed(v) /\ Spare(v, U) /\ DOMAIN v.node = DOMAIN t.node /\ v.root_node = t.root_node
       /\ v.string = t.string /\ v.node[a] = BNode(N(a).leaf, rowa, childa, N(a).next)
       /\ v.node[p] = BNode(N(p).leaf, rowp, N(p).child, N(p).next)
       /\ v.node[b] = BNode(N(b).leaf, rowb, childb, N(b).next)
       /\ \A x \in DOMAIN t.node : x # a /\ x # p /\ x # b => v.node[x] = t.node[x]
  BY ONLY <1>1, <1>12, <1>13, a \in U, p \in U, a # b, b # p DEF OnNode
<1>15. /\ v.node[a].leaf = N(a).leaf /\ v.node[a].row = rowa /\ v.node[a].child = childa /\ v.node[a].next = N(a).next
       /\ v.node[p].leaf = N(p).leaf /\ v.node[p].row = rowp /\ v.node[p].child = N(p).child
       /\ v.node[p].next = N(p).next
       /\ v.node[b].leaf = N(b).leaf /\ v.node[b].row = rowb /\ v.node[b].child = childb /\ v.node[b].next = N(b).next
  BY ONLY <1>14 DEF BNode
<1>16. \A x \in DOMAIN t.node : v.node[x].leaf = t.node[x].leaf /\ v.node[x].next = t.node[x].next
  BY ONLY <1>14, <1>15 DEF N
<1> QED
  BY ONLY <1>14, <1>15, <1>16 DEF Turned, rowp, N

(* An inner node with DEGREE - 1 rows takes one through p. *)
LEMMA RotateLeftMends ==
    ASSUME NEW t, NEW g, NEW h, Good(t, g, h, {}, {}), NEW p, p \in DOMAIN g, g[p].lev # 0, g[p].lev # 1,
           NEW j, j \in 1 .. n(t, p), NEW l, l = LeftOf(t, p, j), NEW r, r = RightOf(t, p, j),
           Sized(t, g, {l}), n(t, l) = DEGREE - 1, HasSpare(t, r)
    PROVE  Mended(t, g, h, p, Kept(RotateLeft(t, p, j)), KeysIn(t, g))
<1> DEFINE s == t.node[p].row[j]
           rowl == Append(t.node[l].row, s)
           childl == Append(t.node[l].child, Head(t.node[r].child))
           rowr == Tail(t.node[r].row)
           childr == Tail(t.node[r].child)
           y == Head(t.node[r].row)
           v == RotateLeft(t, p, j)
           U == DOMAIN g
<1>1. /\ l \in U /\ r \in U /\ l # r /\ l # p /\ r # p
      /\ g[l].lev = g[r].lev /\ g[l].hi = g[r].lo /\ g[l].hi = t.string[s]
      /\ InnerFits(t.string, g, g[l], t.node[l].row, t.node[l].child)
      /\ InnerFits(t.string, g, g[r], t.node[r].row, t.node[r].child)
      /\ s \in RowSet(t, p) /\ s \in DOMAIN t.string
      /\ RowSet(t, l) \cap RowSet(t, r) = {} /\ RowSet(t, l) \cap RowSet(t, p) = {}
      /\ RowSet(t, r) \cap RowSet(t, p) = {}
      /\ n(t, l) \in Nat /\ n(t, r) \in Nat
      /\ g[l] \in Place /\ g[l].lo < g[l].hi /\ g[r] \in Place /\ g[r].lo < g[r].hi
  <2>1. Neighbours(t, g, p, j, l, r)
    BY TwoInner
  <2> QED
    BY ONLY <2>1 DEF Neighbours
<1>2. Typed(t) /\ U \subseteq DOMAIN t.node /\ Spare(t, U) /\ Tiled(g, h, MaxKey)
  BY DEF Good
<1>3. n(t, r) > DEGREE /\ n(t, r) <= 2 * DEGREE
  BY ONLY <1>1, HasSpare(t, r), Sized(t, g, {l}) DEF HasSpare, Sized, n
<1>4. n(t, l) = Len(t.node[l].row) /\ n(t, r) = Len(t.node[r].row)
  BY DEF n
<1>5. /\ Shared(t, g, p, j, l, r, rowl, childl, rowr, childr, y)
      /\ Len(rowl) = Len(t.node[l].row) + 1 /\ Len(rowr) + 1 = Len(t.node[r].row)
  <2> DEFINE str == t.string
             at == g[l]
             at2 == g[r]
             row == t.node[l].row
             row2 == t.node[r].row
             child == t.node[l].child
             child2 == t.node[r].child
  <2>1. InnerFits(str, g, at, row, child) /\ InnerFits(str, g, at2, row2, child2)
        /\ at.lev = at2.lev /\ at.hi = at2.lo /\ str[s] = at.hi
        /\ at \in Place /\ at.lo < at.hi /\ at2 \in Place /\ at2.lo < at2.hi
    BY ONLY <1>1
  <2>2. Len(row2) >= 1
    BY ONLY <1>1, <1>3, <1>4, TreeAssumption
  <2>3. /\ s \in DOMAIN str /\ ToSet(row) \cap ToSet(row2) = {} /\ s \notin ToSet(row) /\ s \notin ToSet(row2)
    BY ONLY <1>1 DEF RowSet
  <2> HIDE DEF str, at, at2, row, row2, child, child2, s
  <2>4. IsInjective(row) /\ IsInjective(row2)
    BY ONLY <1>2, <2>1, InnerIs
  <2>5. Different(str, row, row2, s)
    BY ONLY <2>3, <2>4 DEF Different
  <2>6. InnersDivided(str, g, at.lev, at.lo, at2.hi, Append(row, s), Append(child, Head(child2)),
                        Tail(row2), Tail(child2), Head(row2), (ToSet(row) \cup ToSet(row2)) \cup {s})
    BY ONLY <2>1, <2>2, <2>5, FirstTurns
  <2>7. Len(Append(row, s)) = Len(row) + 1
    BY ONLY <2>1, <2>2, <2>5, FirstTurns
  <2>8. Len(Tail(row2)) + 1 = Len(row2)
    BY ONLY <2>1, <2>2, <2>5, FirstTurns
  <2> QED
    BY ONLY <2>6, <2>7, <2>8 DEF Shared, RowSet, str, at, at2, row, row2, child, child2, s
<1>6. v = Assigned(t, l, rowl, childl, p, j, y, r, rowr, childr)
  BY ONLY <1>1, l = LeftOf(t, p, j), r = RightOf(t, p, j) DEF RotateLeft, Assigned
<1>7. /\ rowl \in Seq(Nat) /\ childl \in Seq(Nat) /\ rowr \in Seq(Nat) /\ childr \in Seq(Nat) /\ y \in Nat
  <2> DEFINE lev == g[l].lev
             lo == g[l].lo
             hi == g[r].hi
             str == t.string
             m == str[y]
  <2>1. /\ y \in DOMAIN str
        /\ InnerFits(str, g, [lev |-> lev, lo |-> lo, hi |-> m], rowl, childl)
        /\ InnerFits(str, g, [lev |-> lev, lo |-> m, hi |-> hi], rowr, childr)
    BY ONLY <1>5 DEF Shared, InnersDivided
  <2> HIDE DEF rowl, childl, rowr, childr, y, str
  <2>2. rowl \in Seq(DOMAIN str) /\ rowr \in Seq(DOMAIN str) /\ childl \in Seq(U) /\ childr \in Seq(U)
    BY ONLY <2>1 DEF InnerFits
  <2>3. U \subseteq Nat /\ DOMAIN str \subseteq Nat
    BY ONLY <1>2, TypedIs DEF str
  <2> QED
    BY ONLY <2>1, <2>2, <2>3
<1>8. [t.node[p].row EXCEPT ![j] = y] \in Seq(Nat)
  <2>1. t.node[p].row \in Seq(Nat)
    BY ONLY <1>2, p \in DOMAIN g, NodeIs
  <2>2. j \in 1 .. Len(t.node[p].row) /\ y \in Nat
    BY ONLY <1>7, j \in 1 .. n(t, p) DEF n
  <2> HIDE DEF y
  <2> QED
    BY ONLY <2>1, <2>2
<1> HIDE DEF rowl, childl, rowr, childr, y, v, U, s
<1>9. Turned(t, v, U, p, j, y, l, rowl, childl, r, rowr, childr)
  BY ONLY <1>1, <1>2, <1>6, <1>7, <1>8, p \in DOMAIN g, AssignedIs DEF U
<1>10. Turned(t, v, DOMAIN g, p, j, y, l, rowl, childl, r, rowr, childr)
  BY ONLY <1>9 DEF Turned, U
<1>11. Len(rowl) \in DEGREE .. 2 * DEGREE /\ Len(rowr) \in DEGREE .. 2 * DEGREE
  <2> DEFINE a == Len(rowl)
             b == Len(rowr)
  <2>1. a \in Nat /\ b \in Nat
    BY ONLY <1>7
  <2>3. a = n(t, l) + 1 /\ b + 1 = n(t, r) /\ n(t, l) \in Nat /\ n(t, r) \in Nat
    BY ONLY <1>1, <1>4, <1>5
  <2> HIDE DEF a, b
  <2>2. a \in DEGREE .. 2 * DEGREE /\ b \in DEGREE .. 2 * DEGREE
    BY ONLY <1>3, <2>1, <2>3, n(t, l) = DEGREE - 1, TreeAssumption
  <2> QED
    BY ONLY <2>2 DEF a, b
<1>12. Mended(t, g, h, p, Kept(v), KeysIn(t, g))
  <2> DEFINE c == l
  <2>1. (c = l \/ c = r) /\ Sized(t, g, {c})
    BY Sized(t, g, {l})
  <2> HIDE DEF c
  <2> QED
    BY ONLY Good(t, g, h, {}, {}), p \in DOMAIN g, g[p].lev # 0, g[p].lev # 1, j \in 1 .. n(t, p),
            l = LeftOf(t, p, j), r = RightOf(t, p, j), <2>1, <1>5, <1>10, <1>11, RotateMends
<1> QED
  BY ONLY <1>12 DEF v

(* An inner node takes the last row of its left neighbour. *)
LEMMA RotateRightMends ==
    ASSUME NEW t, NEW g, NEW h, Good(t, g, h, {}, {}), NEW p, p \in DOMAIN g, g[p].lev # 0, g[p].lev # 1,
           NEW j, j \in 1 .. n(t, p), NEW l, l = LeftOf(t, p, j), NEW r, r = RightOf(t, p, j),
           Sized(t, g, {r}), n(t, r) = DEGREE - 1, HasSpare(t, l)
    PROVE  Mended(t, g, h, p, Kept(RotateRight(t, p, j)), KeysIn(t, g))
<1> DEFINE s == t.node[p].row[j]
           rowl == Front(t.node[l].row)
           childl == Front(t.node[l].child)
           rowr == <<s>> \o t.node[r].row
           childr == <<Last(t.node[l].child)>> \o t.node[r].child
           y == Last(t.node[l].row)
           v == RotateRight(t, p, j)
           U == DOMAIN g
<1>1. /\ l \in U /\ r \in U /\ l # r /\ l # p /\ r # p
      /\ g[l].lev = g[r].lev /\ g[l].hi = g[r].lo /\ g[l].hi = t.string[s]
      /\ InnerFits(t.string, g, g[l], t.node[l].row, t.node[l].child)
      /\ InnerFits(t.string, g, g[r], t.node[r].row, t.node[r].child)
      /\ s \in RowSet(t, p) /\ s \in DOMAIN t.string
      /\ RowSet(t, l) \cap RowSet(t, r) = {} /\ RowSet(t, l) \cap RowSet(t, p) = {}
      /\ RowSet(t, r) \cap RowSet(t, p) = {}
      /\ n(t, l) \in Nat /\ n(t, r) \in Nat
      /\ g[l] \in Place /\ g[l].lo < g[l].hi /\ g[r] \in Place /\ g[r].lo < g[r].hi
  <2>1. Neighbours(t, g, p, j, l, r)
    BY TwoInner
  <2> QED
    BY ONLY <2>1 DEF Neighbours
<1>2. Typed(t) /\ U \subseteq DOMAIN t.node /\ Spare(t, U) /\ Tiled(g, h, MaxKey)
  BY DEF Good
<1>3. n(t, l) > DEGREE /\ n(t, l) <= 2 * DEGREE
  BY ONLY <1>1, HasSpare(t, l), Sized(t, g, {r}) DEF HasSpare, Sized, n
<1>4. n(t, l) = Len(t.node[l].row) /\ n(t, r) = Len(t.node[r].row)
  BY DEF n
<1>5. /\ Shared(t, g, p, j, l, r, rowl, childl, rowr, childr, y)
      /\ Len(rowl) + 1 = Len(t.node[l].row) /\ Len(rowr) = Len(t.node[r].row) + 1
  <2> DEFINE str == t.string
             at == g[l]
             at2 == g[r]
             row == t.node[l].row
             row2 == t.node[r].row
             child == t.node[l].child
             child2 == t.node[r].child
  <2>1. InnerFits(str, g, at, row, child) /\ InnerFits(str, g, at2, row2, child2)
        /\ at.lev = at2.lev /\ at.hi = at2.lo /\ str[s] = at.hi
        /\ at \in Place /\ at.lo < at.hi /\ at2 \in Place /\ at2.lo < at2.hi
    BY ONLY <1>1
  <2>2. Len(row) >= 1
    BY ONLY <1>1, <1>3, <1>4, TreeAssumption
  <2>3. /\ s \in DOMAIN str /\ ToSet(row) \cap ToSet(row2) = {} /\ s \notin ToSet(row) /\ s \notin ToSet(row2)
    BY ONLY <1>1 DEF RowSet
  <2> HIDE DEF str, at, at2, row, row2, child, child2, s
  <2>4. IsInjective(row) /\ IsInjective(row2)
    BY ONLY <1>2, <2>1, InnerIs
  <2>5. Different(str, row, row2, s)
    BY ONLY <2>3, <2>4 DEF Different
  <2>6. InnersDivided(str, g, at.lev, at.lo, at2.hi, Front(row), Front(child),
                        <<s>> \o row2, <<Last(child)>> \o child2, Last(row), (ToSet(row) \cup ToSet(row2)) \cup {s})
    BY ONLY <2>1, <2>2, <2>5, LastTurns
  <2>7. Len(Front(row)) + 1 = Len(row)
    <3>1. row \in Seq(DOMAIN str) /\ row # <<>>
      BY ONLY <2>1, <2>2 DEF InnerFits
    <3>2. Front(row) = SubSeq(row, 1, Len(row) - 1)
      BY ONLY <3>1, EndsIs
    <3>3. Len(row) \in Nat
      BY ONLY <3>1
    <3> DEFINE i == 1
               k == Len(row) - 1
    <3>4. i \in 1 .. Len(row) + 1 /\ k \in 0 .. Len(row) /\ i <= k + 1 /\ k - i + 1 = Len(row) - 1
      BY ONLY <2>2, <3>3
    <3> HIDE DEF i, k
    <3>5. Len(SubSeq(row, i, k)) = k - i + 1
      BY ONLY <3>1, <3>4, SubSeqIs
    <3> QED
      BY ONLY <3>2, <3>3, <3>4, <3>5 DEF i, k
  <2>8. Len(<<s>> \o row2) = Len(row2) + 1
    BY ONLY <2>1, <2>2, <2>5, LastTurns
  <2> QED
    BY ONLY <2>6, <2>7, <2>8 DEF Shared, RowSet, str, at, at2, row, row2, child, child2, s
<1>6. v = Assigned(t, r, rowr, childr, p, j, y, l, rowl, childl)
  BY ONLY <1>1, l = LeftOf(t, p, j), r = RightOf(t, p, j) DEF RotateRight, Assigned
<1>7. /\ rowl \in Seq(Nat) /\ childl \in Seq(Nat) /\ rowr \in Seq(Nat) /\ childr \in Seq(Nat) /\ y \in Nat
  <2> DEFINE lev == g[l].lev
             lo == g[l].lo
             hi == g[r].hi
             str == t.string
             m == str[y]
  <2>1. /\ y \in DOMAIN str
        /\ InnerFits(str, g, [lev |-> lev, lo |-> lo, hi |-> m], rowl, childl)
        /\ InnerFits(str, g, [lev |-> lev, lo |-> m, hi |-> hi], rowr, childr)
    BY ONLY <1>5 DEF Shared, InnersDivided
  <2> HIDE DEF rowl, childl, rowr, childr, y, str
  <2>2. rowl \in Seq(DOMAIN str) /\ rowr \in Seq(DOMAIN str) /\ childl \in Seq(U) /\ childr \in Seq(U)
    BY ONLY <2>1 DEF InnerFits
  <2>3. U \subseteq Nat /\ DOMAIN str \subseteq Nat
    BY ONLY <1>2, TypedIs DEF str
  <2> QED
    BY ONLY <2>1, <2>2, <2>3
<1>8. [t.node[p].row EXCEPT ![j] = y] \in Seq(Nat)
  <2>1. t.node[p].row \in Seq(Nat)
    BY ONLY <1>2, p \in DOMAIN g, NodeIs
  <2>2. j \in 1 .. Len(t.node[p].row) /\ y \in Nat
    BY ONLY <1>7, j \in 1 .. n(t, p) DEF n
  <2> HIDE DEF y
  <2> QED
    BY ONLY <2>1, <2>2
<1> HIDE DEF rowl, childl, rowr, childr, y, v, U, s
<1>9. Turned(t, v, U, p, j, y, r, rowr, childr, l, rowl, childl)
  BY ONLY <1>1, <1>2, <1>6, <1>7, <1>8, p \in DOMAIN g, AssignedIs DEF U
<1>10. Turned(t, v, DOMAIN g, p, j, y, l, rowl, childl, r, rowr, childr)
  BY ONLY <1>9 DEF Turned, U
<1>11. Len(rowl) \in DEGREE .. 2 * DEGREE /\ Len(rowr) \in DEGREE .. 2 * DEGREE
  <2> DEFINE a == Len(rowl)
             b == Len(rowr)
  <2>1. a \in Nat /\ b \in Nat
    BY ONLY <1>7
  <2>3. b = n(t, r) + 1 /\ a + 1 = n(t, l) /\ n(t, l) \in Nat /\ n(t, r) \in Nat
    BY ONLY <1>1, <1>4, <1>5
  <2> HIDE DEF a, b
  <2>2. a \in DEGREE .. 2 * DEGREE /\ b \in DEGREE .. 2 * DEGREE
    BY ONLY <1>3, <2>1, <2>3, n(t, r) = DEGREE - 1, TreeAssumption
  <2> QED
    BY ONLY <2>2 DEF a, b
<1>12. Mended(t, g, h, p, Kept(v), KeysIn(t, g))
  <2> DEFINE c == r
  <2>1. (c = l \/ c = r) /\ Sized(t, g, {c})
    BY Sized(t, g, {r})
  <2> HIDE DEF c
  <2> QED
    BY ONLY Good(t, g, h, {}, {}), p \in DOMAIN g, g[p].lev # 0, g[p].lev # 1, j \in 1 .. n(t, p),
            l = LeftOf(t, p, j), r = RightOf(t, p, j), <2>1, <1>5, <1>10, <1>11, RotateMends
<1> QED
  BY ONLY <1>12 DEF v

-----------------------------------------------------------------------------
(* A node with too few rows is mended. *)

(* Going down from p by a key of its child c leads to c. *)
ChildAt(t, p, c, i) == i \in 0 .. n(t, p) /\ n(t, p) \in Nat /\ c = t.node[p].child[i + 1]

(* The search finds the child in whose range k is. *)
LEMMA SideOf ==
    ASSUME NEW t, NEW g, NEW h, Good(t, g, h, {}, {}), NEW p, NEW c, Under(g, p, c),
           NEW k, k \in Nat, g[c].lo <= k, k < g[c].hi
    PROVE  ChildAt(t, p, c, find_index(t, p, k))
<1> DEFINE i == find_index(t, p, k)
           at == g[p]
           child == t.node[p].child
<1>1. /\ Tiled(g, h, MaxKey) /\ Typed(t) /\ p \in DOMAIN g /\ g[p].lev # 0 /\ ~t.node[p].leaf /\ NodeFits(t, g, p)
      /\ c \in DOMAIN g /\ g[c].lev + 1 = g[p].lev /\ g[p].lo <= g[c].lo /\ g[c].hi <= g[p].hi
  BY DEF Good, Under
<1>2. /\ \A b \in DOMAIN g : g[b] \in Place /\ g[b].lev \in Nat /\ g[b].lo \in Nat /\ g[b].hi \in Nat
      /\ Ordered(g)
  BY ONLY <1>1, TiledIs
<1>3. at \in Place /\ InnerFits(t.string, g, at, t.node[p].row, t.node[p].child) /\ at.lo <= k /\ k < at.hi
  BY ONLY <1>1, <1>2, k \in Nat, g[c].lo <= k, k < g[c].hi DEF NodeFits
<1>4. t.string \in [DOMAIN t.string -> Key]
  BY ONLY <1>1, TypedIs
<1> HIDE DEF at
<1>5. Routed(t, g, p, k, find_index(t, p, k))
  <2>1. ~t.node[p].leaf /\ Ordered(g)
    BY ONLY <1>1, <1>2
  <2> QED
    BY ONLY <1>3, <1>4, <2>1, k \in Nat, FindIndex
<1>6. /\ i \in 0 .. n(t, p) /\ i + 1 \in 1 .. Len(child)
      /\ \A j \in 1 .. Len(child) : g[child[j]].lo <= k /\ k < g[child[j]].hi <=> j = i + 1
  BY ONLY <1>5 DEF Routed
<1>7. /\ child \in Seq(DOMAIN g) /\ \A j \in 1 .. Len(child) : g[child[j]].lev + 1 = g[p].lev
      /\ Len(t.node[p].row) \in Nat
  <2> DEFINE row == t.node[p].row
             str == t.string
  <2>1. InnerFits(str, g, at, row, child) /\ at.lev = g[p].lev
    BY ONLY <1>3 DEF at
  <2> HIDE DEF row, str, at, child
  <2>2. child \in Seq(DOMAIN g) /\ row \in Seq(DOMAIN str) /\ \A j \in 1 .. Len(child) : g[child[j]].lev + 1 = at.lev
    BY ONLY <2>1 DEF InnerFits
  <2>3. Len(row) \in Nat
    BY ONLY <2>2
  <2> QED
    BY ONLY <2>1, <2>2, <2>3 DEF row, child
<1>8. child[i + 1] \in DOMAIN g /\ g[child[i + 1]].lo <= k /\ k < g[child[i + 1]].hi
      /\ g[child[i + 1]].lev + 1 = g[p].lev
  BY ONLY <1>6, <1>7
<1>9. g[child[i + 1]].lev = g[c].lev
  BY ONLY <1>1, <1>2, <1>8
<1> DEFINE d == child[i + 1]
<1>10. d \in DOMAIN g /\ g[d].lev = g[c].lev /\ g[d].lo <= k /\ k < g[d].hi
  BY ONLY <1>8, <1>9
<1> HIDE DEF d
<1>11. c = d
  BY ONLY <1>1, <1>10, k \in Nat, g[c].lo <= k, k < g[c].hi, OnlyOne
<1> QED
  BY ONLY <1>6, <1>7, <1>11 DEF ChildAt, d, n

(* b has the rows a node needs. *)
Enough(t, b) == n(t, b) \in Nat /\ n(t, b) >= DEGREE

(* Of l and r only c may have too few rows. *)
OthersEnough(t, l, r, c) == (l # c => Enough(t, l)) /\ (r # c => Enough(t, r))

(* A node that lost a row has neighbours with enough rows. *)
LEMMA EnoughBeside ==
    ASSUME NEW t, NEW g, NEW h, Good(t, g, h, {}, {}), NEW p, p \in DOMAIN g, g[p].lev # 0,
           NEW j, j \in 1 .. n(t, p), NEW l, l = LeftOf(t, p, j), NEW r, r = RightOf(t, p, j),
           NEW c, Sized(t, g, {c})
    PROVE  OthersEnough(t, l, r, c)
<1> SUFFICES ASSUME NEW d, d = l \/ d = r, d # c PROVE Enough(t, d)
  BY DEF OthersEnough
<1>1. /\ l \in DOMAIN g /\ r \in DOMAIN g /\ g[l].lev + 1 = g[p].lev /\ g[r].lev + 1 = g[p].lev
  BY ONLY Good(t, g, h, {}, {}), p \in DOMAIN g, g[p].lev # 0, j \in 1 .. n(t, p), l = LeftOf(t, p, j),
          r = RightOf(t, p, j), Siblings
<1>2. Tiled(g, h, MaxKey) /\ g[t.root_node].lev = h /\ Typed(t) /\ DOMAIN g \subseteq DOMAIN t.node
  BY DEF Good
<1>3. h \in Nat /\ \A b \in DOMAIN g : g[b].lev \in Nat /\ g[b].lev <= h
  <2>1. h \in Nat /\ \A b \in DOMAIN g : g[b].lev \in 0 .. h
    BY ONLY <1>2, TiledIs
  <2> QED
    BY ONLY <2>1
<1>4. d \in DOMAIN g /\ g[d].lev + 1 <= h
  BY ONLY <1>1, <1>3, p \in DOMAIN g, d = l \/ d = r
<1>5. d # t.root_node
  BY ONLY <1>2, <1>3, <1>4
<1>6. n(t, d) \in Nat
  BY ONLY <1>2, <1>4, NodeIs DEF n
<1> QED
  BY ONLY <1>4, <1>5, <1>6, Sized(t, g, {c}), d # c DEF Sized, n, Enough

(* MendLeaf restores the size of a leaf below p. *)
LEMMA MendLeafIs ==
    ASSUME NEW t, NEW g, NEW h, Good(t, g, h, {}, {}), NEW p, p \in DOMAIN g, g[p].lev = 1,
           NEW c, NEW i, ChildAt(t, p, c, i), Sized(t, g, {c}), c # p, n(t, c) = DEGREE - 1
    PROVE  Mended(t, g, h, p, MendLeaf(t, p, i), KeysIn(t, g))
<1>1. g[p].lev # 0 /\ DEGREE \in Nat /\ DEGREE >= 2 /\ ~HasSpare(t, c)
  BY TreeAssumption DEF HasSpare
<1>2. i \in 0 .. n(t, p) /\ n(t, p) \in Nat /\ c = t.node[p].child[i + 1]
  BY ONLY ChildAt(t, p, c, i) DEF ChildAt
<1>3. n(t, p) >= 1
  BY ONLY <1>1, Sized(t, g, {c}), c # p, p \in DOMAIN g DEF Sized, n
<1>4. CASE i # n(t, p)
  <2> DEFINE j == i + 1
             l == LeftOf(t, p, j)
             r == RightOf(t, p, j)
             res == MendLeaf(t, p, i)
  <2>1. j \in 1 .. n(t, p) /\ l = LeftOf(t, p, j) /\ r = RightOf(t, p, j)
    BY ONLY <1>2, <1>4
  <2>6. l = c
    BY ONLY <1>2, <1>4 DEF LeftOf
  <2>2. IF HasSpare(t, r) THEN res = Kept(BorrowFirst(t, p, j)) ELSE res = MergeLeaves(t, p, j)
    BY ONLY <1>4 DEF MendLeaf
  <2> HIDE DEF j, l, r, res
  <2>3. l \in DOMAIN g /\ r \in DOMAIN g /\ l # r /\ l # p /\ r # p
    BY ONLY Good(t, g, h, {}, {}), p \in DOMAIN g, <1>1, <2>1, Siblings
  <2>4. CASE HasSpare(t, r)
    <3>1. Sized(t, g, {l}) /\ n(t, l) = DEGREE - 1
      BY ONLY <2>6, Sized(t, g, {c}), n(t, c) = DEGREE - 1
    <3>2. Mended(t, g, h, p, Kept(BorrowFirst(t, p, j)), KeysIn(t, g))
      BY ONLY Good(t, g, h, {}, {}), p \in DOMAIN g, g[p].lev = 1, <2>1, <2>4, <3>1, BorrowFirstMends
    <3> QED
      BY ONLY <2>2, <2>4, <3>2 DEF res
  <2>5. CASE ~HasSpare(t, r)
    <3>1. OthersEnough(t, l, r, c)
      BY ONLY Good(t, g, h, {}, {}), p \in DOMAIN g, <1>1, <2>1, Sized(t, g, {c}), EnoughBeside
    <3>2. Enough(t, r)
      BY ONLY <2>3, <2>6, <3>1 DEF OthersEnough
    <3>3. n(t, l) + n(t, r) >= DEGREE /\ ~HasSpare(t, l) /\ (c = l \/ c = r)
      <4>1. n(t, r) \in Nat /\ n(t, r) >= DEGREE /\ n(t, l) = DEGREE - 1
        BY ONLY <2>6, <3>2, n(t, c) = DEGREE - 1 DEF Enough
      <4> QED
        BY ONLY <1>1, <2>6, <4>1
    <3>4. Mended(t, g, h, p, MergeLeaves(t, p, j), KeysIn(t, g))
      BY ONLY Good(t, g, h, {}, {}), p \in DOMAIN g, g[p].lev = 1, <2>1, <2>5, <3>3, Sized(t, g, {c}),
              n(t, c) = DEGREE - 1, MergeLeavesMends
    <3> QED
      BY ONLY <2>2, <2>5, <3>4 DEF res
  <2> QED
    BY ONLY <2>4, <2>5
<1>5. CASE i = n(t, p)
  <2> DEFINE l == LeftOf(t, p, i)
             r == RightOf(t, p, i)
             res == MendLeaf(t, p, i)
  <2>1. i \in 1 .. n(t, p) /\ l = LeftOf(t, p, i) /\ r = RightOf(t, p, i)
    BY ONLY <1>2, <1>3, <1>5
  <2>6. r = c
    BY ONLY <1>2, <1>3, <1>5 DEF RightOf
  <2>2. IF HasSpare(t, l) THEN res = Kept(BorrowLast(t, p, i)) ELSE res = MergeLeaves(t, p, i)
    BY ONLY <1>5 DEF MendLeaf
  <2> HIDE DEF l, r, res
  <2>3. l \in DOMAIN g /\ r \in DOMAIN g /\ l # r /\ l # p /\ r # p
    BY ONLY Good(t, g, h, {}, {}), p \in DOMAIN g, <1>1, <2>1, Siblings
  <2>4. CASE HasSpare(t, l)
    <3>1. Sized(t, g, {r}) /\ n(t, r) = DEGREE - 1
      BY ONLY <2>6, Sized(t, g, {c}), n(t, c) = DEGREE - 1
    <3>2. Mended(t, g, h, p, Kept(BorrowLast(t, p, i)), KeysIn(t, g))
      BY ONLY Good(t, g, h, {}, {}), p \in DOMAIN g, g[p].lev = 1, <2>1, <2>4, <3>1, BorrowLastMends
    <3> QED
      BY ONLY <2>2, <2>4, <3>2 DEF res
  <2>5. CASE ~HasSpare(t, l)
    <3>1. OthersEnough(t, l, r, c)
      BY ONLY Good(t, g, h, {}, {}), p \in DOMAIN g, <1>1, <2>1, Sized(t, g, {c}), EnoughBeside
    <3>2. Enough(t, l)
      BY ONLY <2>3, <2>6, <3>1 DEF OthersEnough
    <3>3. n(t, l) + n(t, r) >= DEGREE /\ ~HasSpare(t, r) /\ (c = l \/ c = r)
      <4>1. n(t, l) \in Nat /\ n(t, l) >= DEGREE /\ n(t, r) = DEGREE - 1
        BY ONLY <2>6, <3>2, n(t, c) = DEGREE - 1 DEF Enough
      <4> QED
        BY ONLY <1>1, <2>6, <4>1
    <3>4. Mended(t, g, h, p, MergeLeaves(t, p, i), KeysIn(t, g))
      BY ONLY Good(t, g, h, {}, {}), p \in DOMAIN g, g[p].lev = 1, <2>1, <2>5, <3>3, Sized(t, g, {c}),
              n(t, c) = DEGREE - 1, MergeLeavesMends
    <3> QED
      BY ONLY <2>2, <2>5, <3>4 DEF res
  <2> QED
    BY ONLY <2>4, <2>5
<1> QED
  BY ONLY <1>4, <1>5

(* MendInner restores the size of an inner node below p. *)
LEMMA MendInnerIs ==
    ASSUME NEW t, NEW g, NEW h, Good(t, g, h, {}, {}), NEW p, p \in DOMAIN g, g[p].lev # 0, g[p].lev # 1,
           NEW c, NEW i, ChildAt(t, p, c, i), Sized(t, g, {c}), c # p, n(t, c) = DEGREE - 1
    PROVE  Mended(t, g, h, p, MendInner(t, p, i), KeysIn(t, g))
<1>1. DEGREE \in Nat /\ DEGREE >= 2
  BY TreeAssumption DEF HasSpare
<1>2. i \in 0 .. n(t, p) /\ n(t, p) \in Nat /\ c = t.node[p].child[i + 1]
  BY ONLY ChildAt(t, p, c, i) DEF ChildAt
<1>3. n(t, p) >= 1
  BY ONLY <1>1, Sized(t, g, {c}), c # p, p \in DOMAIN g, g[p].lev # 0 DEF Sized, n
<1>4. CASE i # n(t, p)
  <2> DEFINE j == i + 1
             l == LeftOf(t, p, j)
             r == RightOf(t, p, j)
             res == MendInner(t, p, i)
  <2>1. j \in 1 .. n(t, p) /\ l = LeftOf(t, p, j) /\ r = RightOf(t, p, j)
    BY ONLY <1>2, <1>4
  <2>6. l = c
    BY ONLY <1>2, <1>4 DEF LeftOf
  <2>2. IF HasSpare(t, r) THEN res = Kept(RotateLeft(t, p, j)) ELSE res = MergeInner(t, p, j)
    BY ONLY <1>4 DEF MendInner
  <2> HIDE DEF j, l, r, res
  <2>3. l \in DOMAIN g /\ r \in DOMAIN g /\ l # r /\ l # p /\ r # p
    BY ONLY Good(t, g, h, {}, {}), p \in DOMAIN g, g[p].lev # 0, <2>1, Siblings
  <2>4. CASE HasSpare(t, r)
    <3>1. Sized(t, g, {l}) /\ n(t, l) = DEGREE - 1
      BY ONLY <2>6, Sized(t, g, {c}), n(t, c) = DEGREE - 1
    <3>2. Mended(t, g, h, p, Kept(RotateLeft(t, p, j)), KeysIn(t, g))
      BY ONLY Good(t, g, h, {}, {}), p \in DOMAIN g, g[p].lev # 0, g[p].lev # 1, <2>1, <2>4, <3>1, RotateLeftMends
    <3> QED
      BY ONLY <2>2, <2>4, <3>2 DEF res
  <2>5. CASE ~HasSpare(t, r)
    <3>1. OthersEnough(t, l, r, c)
      BY ONLY Good(t, g, h, {}, {}), p \in DOMAIN g, g[p].lev # 0, <2>1, Sized(t, g, {c}), EnoughBeside
    <3>2. Enough(t, r)
      BY ONLY <2>3, <2>6, <3>1 DEF OthersEnough
    <3>3. n(t, l) + n(t, r) >= DEGREE /\ n(t, l) + n(t, r) < 2 * DEGREE /\ (c = l \/ c = r)
      <4>1. n(t, r) \in Nat /\ n(t, r) >= DEGREE /\ n(t, l) = DEGREE - 1 /\ ~(n(t, r) > DEGREE)
        BY ONLY <2>5, <2>6, <3>2, n(t, c) = DEGREE - 1 DEF HasSpare, Enough
      <4> QED
        BY ONLY <1>1, <2>6, <4>1
    <3>4. Mended(t, g, h, p, MergeInner(t, p, j), KeysIn(t, g))
      BY ONLY Good(t, g, h, {}, {}), p \in DOMAIN g, g[p].lev # 0, g[p].lev # 1, <2>1, <3>3, Sized(t, g, {c}),
              MergeInnerMends
    <3> QED
      BY ONLY <2>2, <2>5, <3>4 DEF res
  <2> QED
    BY ONLY <2>4, <2>5
<1>5. CASE i = n(t, p)
  <2> DEFINE l == LeftOf(t, p, i)
             r == RightOf(t, p, i)
             res == MendInner(t, p, i)
  <2>1. i \in 1 .. n(t, p) /\ l = LeftOf(t, p, i) /\ r = RightOf(t, p, i)
    BY ONLY <1>2, <1>3, <1>5
  <2>6. r = c
    BY ONLY <1>2, <1>3, <1>5 DEF RightOf
  <2>2. IF HasSpare(t, l) THEN res = Kept(RotateRight(t, p, i)) ELSE res = MergeInner(t, p, i)
    BY ONLY <1>5 DEF MendInner
  <2> HIDE DEF l, r, res
  <2>3. l \in DOMAIN g /\ r \in DOMAIN g /\ l # r /\ l # p /\ r # p
    BY ONLY Good(t, g, h, {}, {}), p \in DOMAIN g, g[p].lev # 0, <2>1, Siblings
  <2>4. CASE HasSpare(t, l)
    <3>1. Sized(t, g, {r}) /\ n(t, r) = DEGREE - 1
      BY ONLY <2>6, Sized(t, g, {c}), n(t, c) = DEGREE - 1
    <3>2. Mended(t, g, h, p, Kept(RotateRight(t, p, i)), KeysIn(t, g))
      BY ONLY Good(t, g, h, {}, {}), p \in DOMAIN g, g[p].lev # 0, g[p].lev # 1, <2>1, <2>4, <3>1, RotateRightMends
    <3> QED
      BY ONLY <2>2, <2>4, <3>2 DEF res
  <2>5. CASE ~HasSpare(t, l)
    <3>1. OthersEnough(t, l, r, c)
      BY ONLY Good(t, g, h, {}, {}), p \in DOMAIN g, g[p].lev # 0, <2>1, Sized(t, g, {c}), EnoughBeside
    <3>2. Enough(t, l)
      BY ONLY <2>3, <2>6, <3>1 DEF OthersEnough
    <3>3. n(t, l) + n(t, r) >= DEGREE /\ n(t, l) + n(t, r) < 2 * DEGREE /\ (c = l \/ c = r)
      <4>1. n(t, l) \in Nat /\ n(t, l) >= DEGREE /\ n(t, r) = DEGREE - 1 /\ ~(n(t, l) > DEGREE)
        BY ONLY <2>5, <2>6, <3>2, n(t, c) = DEGREE - 1 DEF HasSpare, Enough
      <4> QED
        BY ONLY <1>1, <2>6, <4>1
    <3>4. Mended(t, g, h, p, MergeInner(t, p, i), KeysIn(t, g))
      BY ONLY Good(t, g, h, {}, {}), p \in DOMAIN g, g[p].lev # 0, g[p].lev # 1, <2>1, <3>3, Sized(t, g, {c}),
              MergeInnerMends
    <3> QED
      BY ONLY <2>2, <2>5, <3>4 DEF res
  <2> QED
    BY ONLY <2>4, <2>5
<1> QED
  BY ONLY <1>4, <1>5

(* What Mended asks of the tree it starts from is only its root. *)
LEMMA MendedOn ==
    ASSUME NEW t, NEW g, NEW h, NEW p, NEW u, NEW g2, NEW r, NEW K, Mended(u, g2, h, p, r, K),
           u.root_node = t.root_node, \A b \in DOMAIN g : g[b].lev \in Nat, p \in DOMAIN g,
           NEW lev, lev \in Nat, Keeps(g, g2, lev), g2[p] = g[p], lev <= g[p].lev
    PROVE  Mended(t, g, h, p, r, K)
<1> DEFINE v == Dropped(p, r)
<1>1. PICK g3 :
        /\ Good(v, g3, h, {}, {}) /\ Keeps(g2, g3, g2[p].lev)
        /\ v.root_node = u.root_node /\ KeysIn(v, g3) = K
        /\ r.old = NoString => Sized(v, g3, {})
        /\ r.old # NoString => /\ Sized(v, g3, {p}) /\ n(v, p) + 1 = n(r.tree, p)
                               /\ p # u.root_node => n(v, p) + 1 >= DEGREE
                               /\ v.node[p].child[1] = r.tree.node[p].child[1]
  BY DEF Mended
<1> HIDE DEF v
<1>2. Keeps(g, g3, g[p].lev)
  <2> DEFINE w2 == g[p].lev
  <2>1. w2 \in Nat /\ Keeps(g2, g3, w2) /\ lev <= w2
    BY ONLY <1>1, g2[p] = g[p], p \in DOMAIN g, \A b \in DOMAIN g : g[b].lev \in Nat, lev <= g[p].lev
  <2> HIDE DEF w2
  <2>2. Keeps(g, g3, w2)
    BY ONLY <2>1, lev \in Nat, Keeps(g, g2, lev), \A b \in DOMAIN g : g[b].lev \in Nat, KeepsOn
  <2> QED
    BY ONLY <2>2 DEF w2
<1> QED
  BY ONLY <1>1, <1>2, u.root_node = t.root_node DEF Mended, v

(* A child is not the root. *)
LEMMA ChildNotRoot ==
    ASSUME NEW t, NEW g, NEW h, Good(t, g, h, {}, {}), NEW p, NEW c, Under(g, p, c)
    PROVE  c # t.root_node /\ c # p /\ g[c].lev < g[p].lev
<1>1. Tiled(g, h, MaxKey) /\ g[t.root_node].lev = h
  BY DEF Good
<1>2. h \in Nat /\ \A b \in DOMAIN g : g[b].lev \in Nat /\ g[b].lev <= h
  <2>1. h \in Nat /\ \A b \in DOMAIN g : g[b].lev \in 0 .. h
    BY ONLY <1>1, TiledIs
  <2> QED
    BY ONLY <2>1
<1>3. p \in DOMAIN g /\ c \in DOMAIN g /\ g[c].lev + 1 = g[p].lev
  BY DEF Under
<1>4. g[c].lev \in Nat /\ g[p].lev \in Nat /\ g[p].lev <= h
  BY ONLY <1>2, <1>3
<1>5. g[c].lev < g[p].lev /\ g[c].lev < h /\ g[c].lev # h /\ g[c].lev # g[p].lev
  BY ONLY <1>2, <1>3, <1>4
<1> QED
  BY ONLY <1>1, <1>5

(* The leaf c of p loses the row of k. *)
LEMMA DropInLeafIs ==
    ASSUME NEW t, NEW g, NEW h, Good(t, g, h, {}, {}), Sized(t, g, {}), NEW p, NEW c, Under(g, p, c), g[c].lev = 0,
           NEW k, k \in Nat, k \in RowSet(t, c)
    PROVE  Mended(t, g, h, p, DropInLeaf(t, p, c, k), KeysIn(t, g) \ {k})
<1> DEFINE v == DropRow(t, c, k)
           K == KeysIn(t, g) \ {k}
           kk == RowKey(t, c, 1)
           i == find_index(t, p, kk)
           R == Kept(v)
<1>1. p \in DOMAIN g /\ g[p].lev # 0 /\ c \in DOMAIN g /\ g[c].lev + 1 = g[p].lev
  BY DEF Under
<1>2. c # t.root_node /\ c # p
  BY ChildNotRoot
<1>3. v = DropRow(t, c, k) /\ R = Kept(v) /\ K = KeysIn(t, g) \ {k}
  OBVIOUS
<1>4. IF HasSpare(t, c) THEN DropInLeaf(t, p, c, k) = R ELSE DropInLeaf(t, p, c, k) = MendLeaf(v, p, i)
  BY DEF DropInLeaf
<1> HIDE DEF v, K, R
<1>5. /\ Good(v, g, h, {}, {}) /\ n(v, c) + 1 = n(t, c) /\ KeysIn(v, g) = K
      /\ \A x \in DOMAIN g : x # c => v.node[x] = t.node[x]
      /\ v.root_node = t.root_node
      /\ Sized(v, g, {c}) /\ (n(t, c) > DEGREE \/ c = t.root_node => Sized(v, g, {}))
  <2>1. c \in DOMAIN g /\ v = DropRow(t, c, k)
    BY ONLY <1>1, <1>3
  <2>2. RowDropped(t, g, h, v, c, k)
    BY ONLY Good(t, g, h, {}, {}), Sized(t, g, {}), g[c].lev = 0, k \in Nat, k \in RowSet(t, c), <2>1, DropRowIs
  <2> QED
    BY ONLY <1>3, <2>2 DEF RowDropped
<1>6. \A b \in DOMAIN g : g[b].lev \in Nat
  <2>1. Tiled(g, h, MaxKey)
    BY DEF Good
  <2> QED
    BY ONLY <2>1, TiledIs
<1>7. Keeps(g, g, g[p].lev)
  BY DEF Keeps
<1>8. CASE HasSpare(t, c)
  <2>1. Dropped(p, R) = v /\ R.old = NoString
    BY ONLY <1>3, KeptIs
  <2>2. Sized(v, g, {})
    BY ONLY <1>5, <1>8 DEF HasSpare
  <2>3. Mended(t, g, h, p, R, K)
    BY ONLY <1>5, <1>7, <2>1, <2>2 DEF Mended
  <2> QED
    BY ONLY <1>3, <1>4, <1>8, <2>3
<1>9. CASE ~HasSpare(t, c)
  <2>1. n(v, c) = DEGREE - 1 /\ n(t, c) \in Nat /\ n(t, c) >= DEGREE
    <3>1. n(v, c) \in Nat /\ n(t, c) \in Nat
      <4>1. Typed(v) /\ Typed(t) /\ c \in DOMAIN v.node /\ c \in DOMAIN t.node
        BY ONLY <1>1, <1>5, Good(t, g, h, {}, {}) DEF Good
      <4> QED
        BY ONLY <4>1, NodeIs DEF n
    <3>2. n(t, c) >= DEGREE /\ ~(n(t, c) > DEGREE)
      BY ONLY <1>1, <1>2, <1>9, Sized(t, g, {}) DEF Sized, HasSpare, n
    <3> QED
      BY ONLY <1>5, <3>1, <3>2, TreeAssumption
  <2>2. kk \in Nat /\ g[c].lo <= kk /\ kk < g[c].hi
    <3>1. LeafFits(g[c], t.node[c].row, Key) /\ t.node[c].leaf
      BY ONLY Good(t, g, h, {}, {}), <1>1, g[c].lev = 0 DEF Good, NodeFits
    <3>2. 1 \in 1 .. Len(t.node[c].row)
      BY ONLY <2>1, TreeAssumption DEF n
    <3>3. kk = t.node[c].row[1]
      BY ONLY <3>1 DEF RowKey
    <3>4. t.node[c].row \in Seq(Key) /\ g[c].lo <= t.node[c].row[1] /\ t.node[c].row[1] < g[c].hi
      BY ONLY <3>1, <3>2 DEF LeafFits
    <3>5. t.node[c].row[1] \in Key
      BY ONLY <3>2, <3>4
    <3> QED
      BY ONLY <3>3, <3>4, <3>5 DEF Key
  <2> HIDE DEF kk
  <2>3. ChildAt(t, p, c, i)
    BY ONLY Good(t, g, h, {}, {}), Under(g, p, c), <2>2, SideOf
  <2> HIDE DEF i
  <2>4. ChildAt(v, p, c, i)
    BY ONLY <1>1, <1>2, <1>5, <2>3 DEF ChildAt, n
  <2>5. g[p].lev = 1
    BY ONLY <1>1, <1>6, g[c].lev = 0
  <2>6. Mended(v, g, h, p, MendLeaf(v, p, i), KeysIn(v, g))
    BY ONLY <1>1, <1>2, <1>5, <2>1, <2>4, <2>5, MendLeafIs
  <2>7. Mended(t, g, h, p, MendLeaf(v, p, i), KeysIn(v, g))
    BY ONLY <1>5, <2>6 DEF Mended
  <2> QED
    BY ONLY <1>3, <1>4, <1>5, <1>9, <2>7 DEF i, kk
<1> QED
  BY ONLY <1>8, <1>9

(* The inner node c of p has mended a child. *)
LEMMA DropAboveIs ==
    ASSUME NEW t, NEW g, NEW h, Good(t, g, h, {}, {}), NEW p, NEW c, Under(g, p, c), g[c].lev # 0,
           NEW r, NEW K, Mended(t, g, h, c, r, K)
    PROVE  Mended(t, g, h, p, DropAbove(p, c, r), K)
<1> DEFINE u == Dropped(c, r)
<1>1. PICK g2 :
        /\ Good(u, g2, h, {}, {}) /\ Keeps(g, g2, g[c].lev)
        /\ u.root_node = t.root_node /\ KeysIn(u, g2) = K
        /\ r.old = NoString => Sized(u, g2, {})
        /\ r.old # NoString => /\ Sized(u, g2, {c}) /\ n(u, c) + 1 = n(r.tree, c)
                               /\ c # t.root_node => n(u, c) + 1 >= DEGREE
                               /\ u.node[c].child[1] = r.tree.node[c].child[1]
  BY DEF Mended
<1>2. /\ r.old = NoString => DropAbove(p, c, r) = r /\ u = r.tree /\ Dropped(p, r) = r.tree
      /\ r.old # NoString => IF n(u, c) >= DEGREE THEN DropAbove(p, c, r) = Kept(u)
                             ELSE DropAbove(p, c, r) = MendInner(u, p, find_index(u, p, RowKey(u, c, 1)))
  BY DEF DropAbove, Dropped
<1> HIDE DEF u
<1>3. p \in DOMAIN g /\ g[p].lev # 0 /\ c \in DOMAIN g /\ g[c].lev + 1 = g[p].lev
      /\ g[p].lo <= g[c].lo /\ g[c].hi <= g[p].hi
  BY DEF Under
<1>4. c # t.root_node /\ c # p /\ g[c].lev < g[p].lev
  BY ChildNotRoot
<1>5. \A b \in DOMAIN g : g[b].lev \in Nat
  <2>1. Tiled(g, h, MaxKey)
    BY DEF Good
  <2> QED
    BY ONLY <2>1, TiledIs
<1>6. c \in DOMAIN g2 /\ g2[c] = g[c] /\ p \in DOMAIN g2 /\ g2[p] = g[p]
  <2>1. g[c].lev >= g[c].lev /\ g[p].lev >= g[c].lev
    BY ONLY <1>3, <1>4, <1>5
  <2> QED
    BY ONLY <1>1, <1>3, <2>1 DEF Keeps
<1>7. Under(g2, p, c)
  BY ONLY <1>3, <1>6 DEF Under
<1>8. \A rr : Mended(u, g2, h, p, rr, K) => Mended(t, g, h, p, rr, K)
  <2> SUFFICES ASSUME NEW rr, Mended(u, g2, h, p, rr, K) PROVE Mended(t, g, h, p, rr, K)
    OBVIOUS
  <2> DEFINE lev == g[c].lev
  <2>1. lev \in Nat /\ lev <= g[p].lev /\ Keeps(g, g2, lev)
    BY ONLY <1>1, <1>3, <1>4, <1>5
  <2> HIDE DEF lev
  <2> QED
    BY ONLY <1>1, <1>3, <1>5, <1>6, <2>1, Mended(u, g2, h, p, rr, K), MendedOn
<1>9. Keeps(g2, g2, g2[p].lev)
  BY DEF Keeps
<1>10. CASE r.old = NoString
  <2>1. Mended(u, g2, h, p, r, K)
    BY ONLY <1>1, <1>2, <1>9, <1>10 DEF Mended
  <2> QED
    BY ONLY <1>2, <1>8, <1>10, <2>1
<1>11. CASE r.old # NoString /\ n(u, c) >= DEGREE
  <2> DEFINE R == Kept(u)
  <2>1. R = Kept(u)
    OBVIOUS
  <2> HIDE DEF R
  <2>2. Dropped(p, R) = u /\ R.old = NoString
    BY ONLY <2>1, KeptIs
  <2>3. Sized(u, g2, {})
    <3>1. Sized(u, g2, {c}) /\ n(u, c) >= DEGREE /\ n(u, c) >= 1
      <4>1. Typed(u) /\ c \in DOMAIN u.node
        BY ONLY <1>1, <1>6 DEF Good
      <4>2. n(u, c) \in Nat
        BY ONLY <4>1, NodeIs DEF n
      <4> QED
        BY ONLY <1>1, <1>11, <4>2, TreeAssumption
    <3> QED
      BY ONLY <3>1 DEF Sized, n
  <2>4. Mended(u, g2, h, p, R, K)
    BY ONLY <1>1, <1>9, <2>2, <2>3 DEF Mended
  <2> QED
    BY ONLY <1>2, <1>8, <1>11, <2>1, <2>4
<1>12. CASE r.old # NoString /\ ~(n(u, c) >= DEGREE)
  <2> DEFINE kk == RowKey(u, c, 1)
             i == find_index(u, p, kk)
  <2>1. Typed(u) /\ c \in DOMAIN u.node /\ Tiled(g2, h, MaxKey) /\ NodeFits(u, g2, c) /\ ~u.node[c].leaf /\ g2[c].lev # 0
    BY ONLY <1>1, <1>6, g[c].lev # 0 DEF Good
  <2>2. n(u, c) = DEGREE - 1 /\ n(u, c) >= 1
    <3>1. n(u, c) \in Nat
      BY ONLY <2>1, NodeIs DEF n
    <3> QED
      BY ONLY <1>1, <1>4, <1>12, <3>1, TreeAssumption
  <2>3. kk \in Nat /\ g2[c].lo <= kk /\ kk < g2[c].hi
    <3> DEFINE str == u.string
               at == g2[c]
               row == u.node[c].row
               child == u.node[c].child
    <3>1. at \in Place /\ at.lo < at.hi /\ InnerFits(str, g2, at, row, child)
      <4>1. g2[c] \in Place /\ g2[c].lo < g2[c].hi
        BY ONLY <1>6, <2>1, TiledIs
      <4> QED
        BY ONLY <2>1, <4>1 DEF NodeFits
    <3>2. 1 \in 1 .. Len(row)
      BY ONLY <2>2, <3>1 DEF n, InnerFits
    <3>3. kk = str[row[1]] /\ str \in [DOMAIN str -> Key]
      BY ONLY <2>1, TypedIs DEF RowKey
    <3> HIDE DEF str, at, row, child, kk
    <3>4. \A x \in 1 .. Len(row) : at.lo < str[row[x]] /\ str[row[x]] < at.hi
      BY ONLY <2>1, <3>1, InnerIs
    <3>5. row[1] \in DOMAIN str
      BY ONLY <3>1, <3>2 DEF InnerFits
    <3>6. kk \in Key
      BY ONLY <3>3, <3>5
    <3>7. at.lo < kk /\ kk < at.hi
      BY ONLY <3>2, <3>3, <3>4
    <3>8. kk \in Nat /\ at.lo \in Nat
      BY ONLY <3>1, <3>6 DEF Key, Place
    <3> QED
      BY ONLY <3>7, <3>8 DEF at
  <2> HIDE DEF kk
  <2>4. ChildAt(u, p, c, i)
    BY ONLY <1>1, <1>7, <2>3, SideOf
  <2> HIDE DEF i
  <2>5. g2[p].lev # 0 /\ g2[p].lev # 1
    BY ONLY <1>3, <1>5, <1>6, g[c].lev # 0
  <2>6. Mended(u, g2, h, p, MendInner(u, p, i), KeysIn(u, g2))
    BY ONLY <1>1, <1>4, <1>6, <1>12, <2>2, <2>4, <2>5, MendInnerIs
  <2> QED
    BY ONLY <1>1, <1>2, <1>8, <1>12, <2>6 DEF i, kk
<1> QED
  BY ONLY <1>10, <1>11, <1>12

-----------------------------------------------------------------------------
(* The recursion by levels. *)

(* What tree_search does on one level, for all nodes. *)
SearchTurn(t, k, m, prev) ==
    [c \in DOMAIN t.node |->
       IF m > 0 /\ ~t.node[c].leaf THEN prev[ChildFor(t, c, k)]
       ELSE IF k \in ToSet(t.node[c].row) THEN k ELSE NoKey]

(* f has the levels of a search, each from the one below. *)
SearchBy(t, k, N, f) == f = [m \in 0 .. N |-> SearchTurn(t, k, m, f[m - 1])]

(* The recursive function of tree_search exists. *)
LEMMA SearchRecurs ==
    ASSUME NEW t, NEW k, NEW N, N \in Nat
    PROVE  \E f : SearchBy(t, k, N, f)
<1> DEFINE Loop(f, M) == f = [m \in 0 .. M |-> SearchTurn(t, k, m, f[m - 1])]
           Exists == {M \in 0 .. N : \E f : Loop(f, M)}
<1>1. 0 \in Exists
  <2> DEFINE g == [m \in 0 .. 0 |-> SearchTurn(t, k, 0, 0)]
  <2>1. \A x : SearchTurn(t, k, 0, x) = SearchTurn(t, k, 0, 0)
    BY DEF SearchTurn
  <2>2. \A m \in 0 .. 0 : g[m] = SearchTurn(t, k, m, g[m - 1])
    <3>1. g[0] = SearchTurn(t, k, 0, g[0 - 1])
      BY ONLY <2>1, 0 \in 0 .. 0
    <3> QED
      BY ONLY <3>1
  <2>3. g = [m \in 0 .. 0 |-> g[m]]
    OBVIOUS
  <2> HIDE DEF g
  <2>4. Loop(g, 0)
    BY ONLY <2>2, <2>3
  <2>5. \E f : Loop(f, 0)
    <3> HIDE DEF Loop
    <3> QED
      BY <2>4
  <2> HIDE DEF Loop
  <2> QED
    BY <2>5
<1>2. ASSUME NEW M \in 0 .. N - 1, M \in Exists PROVE M + 1 \in Exists
  <2>1. PICK g : Loop(g, M)
    BY <1>2
  <2> DEFINE h == [m \in 0 .. M + 1 |-> IF m <= M THEN g[m] ELSE SearchTurn(t, k, M + 1, g[M])]
  <2>2. M \in Nat /\ M + 1 \in 0 .. N
    OBVIOUS
  <2>3. \A m \in 0 .. M : h[m] = g[m]
    BY <2>2
  <2>4. \A m \in 0 .. M : g[m] = SearchTurn(t, k, m, g[m - 1])
    <3> HIDE DEF h
    <3> QED
      BY <2>1
  <2>5. ASSUME NEW x PROVE SearchTurn(t, k, 0, x) = SearchTurn(t, k, 0, 0)
    BY DEF SearchTurn
  <2>6. ASSUME NEW m \in 0 .. M + 1 PROVE h[m] = SearchTurn(t, k, m, h[m - 1])
    <3>1. CASE m = M + 1
      <4>1. h[m] = SearchTurn(t, k, M + 1, g[M]) /\ m - 1 = M /\ M \in 0 .. M
        BY <2>2, <3>1
      <4> QED
        BY ONLY <2>3, <3>1, <4>1
    <3>2. CASE m # M + 1 /\ m # 0
      <4>1. m \in 0 .. M /\ m - 1 \in 0 .. M
        BY <2>2, <3>2
      <4> HIDE DEF h
      <4> QED
        BY ONLY <2>3, <2>4, <4>1
    <3>3. CASE m # M + 1 /\ m = 0
      <4>1. 0 \in 0 .. M
        BY <2>2
      <4> HIDE DEF h
      <4> QED
        BY ONLY <2>3, <2>4, <2>5, <3>3, <4>1
    <3> QED
      BY <3>1, <3>2, <3>3
  <2>7. h = [m \in 0 .. M + 1 |-> h[m]]
    OBVIOUS
  <2> HIDE DEF h
  <2>8. Loop(h, M + 1)
    BY ONLY <2>6, <2>7
  <2>9. \E f : Loop(f, M + 1)
    <3> HIDE DEF Loop
    <3> QED
      BY <2>8
  <2> HIDE DEF Loop
  <2> QED
    BY <2>2, <2>9
<1>3. N \in Exists
  <2> HIDE DEF Exists
  <2>1. \A M \in 0 .. N : M \in Exists
    BY <1>1, <1>2, AllNat
  <2> QED
    BY <2>1
<1> QED
  BY <1>3 DEF SearchBy

(* tree_search is the level it starts at of such an f. *)
LEMMA SearchIs ==
    ASSUME NEW t, t.length \in Nat, NEW k, NEW b
    PROVE  \E f : /\ \A m \in 0 .. t.length : f[m] = SearchTurn(t, k, m, f[m - 1])
                 /\ tree_search(t, b, k) = f[t.length][b]
<1> DEFINE f == CHOOSE f : SearchBy(t, k, t.length, f)
           N == t.length
<1>1. tree_search(t, b, k) = f[t.length][b]
  BY Zenon DEF tree_search, SearchTurn, SearchBy
<1>2. N \in Nat /\ N = t.length
  OBVIOUS
<1> HIDE DEF N
<1>3. \E x : SearchBy(t, k, N, x)
  BY ONLY <1>2, SearchRecurs
<1>4. SearchBy(t, k, N, f)
  BY ONLY <1>2, <1>3
<1> HIDE DEF f
<1>5. \A m \in 0 .. t.length : f[m] = SearchTurn(t, k, m, f[m - 1])
  BY ONLY <1>2, <1>4 DEF SearchBy
<1> QED
  BY <1>1, <1>5

(* What tree_insert does on one level, for all nodes. *)
PutTurn(t, k, m, prev) ==
    [c \in DOMAIN t.node |->
       IF m = 0 \/ t.node[c].leaf THEN PutInLeaf(t, c, k)
       ELSE PutAbove(t, c, k, prev[ChildFor(t, c, k)])]

(* f has the levels of an insertion, each from the one below. *)
PutBy(t, k, N, f) == f = [m \in 0 .. N |-> PutTurn(t, k, m, f[m - 1])]

(* The recursive function of tree_insert exists. *)
LEMMA PutRecurs ==
    ASSUME NEW t, NEW k, NEW N, N \in Nat
    PROVE  \E f : PutBy(t, k, N, f)
<1> DEFINE Loop(f, M) == f = [m \in 0 .. M |-> PutTurn(t, k, m, f[m - 1])]
           Exists == {M \in 0 .. N : \E f : Loop(f, M)}
<1>1. 0 \in Exists
  <2> DEFINE g == [m \in 0 .. 0 |-> PutTurn(t, k, 0, 0)]
  <2>1. \A x : PutTurn(t, k, 0, x) = PutTurn(t, k, 0, 0)
    BY DEF PutTurn
  <2>2. \A m \in 0 .. 0 : g[m] = PutTurn(t, k, m, g[m - 1])
    <3>1. g[0] = PutTurn(t, k, 0, g[0 - 1])
      BY ONLY <2>1, 0 \in 0 .. 0
    <3> QED
      BY ONLY <3>1
  <2>3. g = [m \in 0 .. 0 |-> g[m]]
    OBVIOUS
  <2> HIDE DEF g
  <2>4. Loop(g, 0)
    BY ONLY <2>2, <2>3
  <2>5. \E f : Loop(f, 0)
    <3> HIDE DEF Loop
    <3> QED
      BY <2>4
  <2> HIDE DEF Loop
  <2> QED
    BY <2>5
<1>2. ASSUME NEW M \in 0 .. N - 1, M \in Exists PROVE M + 1 \in Exists
  <2>1. PICK g : Loop(g, M)
    BY <1>2
  <2> DEFINE h == [m \in 0 .. M + 1 |-> IF m <= M THEN g[m] ELSE PutTurn(t, k, M + 1, g[M])]
  <2>2. M \in Nat /\ M + 1 \in 0 .. N
    OBVIOUS
  <2>3. \A m \in 0 .. M : h[m] = g[m]
    BY <2>2
  <2>4. \A m \in 0 .. M : g[m] = PutTurn(t, k, m, g[m - 1])
    <3> HIDE DEF h
    <3> QED
      BY <2>1
  <2>5. ASSUME NEW x PROVE PutTurn(t, k, 0, x) = PutTurn(t, k, 0, 0)
    BY DEF PutTurn
  <2>6. ASSUME NEW m \in 0 .. M + 1 PROVE h[m] = PutTurn(t, k, m, h[m - 1])
    <3>1. CASE m = M + 1
      <4>1. h[m] = PutTurn(t, k, M + 1, g[M]) /\ m - 1 = M /\ M \in 0 .. M
        BY <2>2, <3>1
      <4> QED
        BY ONLY <2>3, <3>1, <4>1
    <3>2. CASE m # M + 1 /\ m # 0
      <4>1. m \in 0 .. M /\ m - 1 \in 0 .. M
        BY <2>2, <3>2
      <4> HIDE DEF h
      <4> QED
        BY ONLY <2>3, <2>4, <4>1
    <3>3. CASE m # M + 1 /\ m = 0
      <4>1. 0 \in 0 .. M
        BY <2>2
      <4> HIDE DEF h
      <4> QED
        BY ONLY <2>3, <2>4, <2>5, <3>3, <4>1
    <3> QED
      BY <3>1, <3>2, <3>3
  <2>7. h = [m \in 0 .. M + 1 |-> h[m]]
    OBVIOUS
  <2> HIDE DEF h
  <2>8. Loop(h, M + 1)
    BY ONLY <2>6, <2>7
  <2>9. \E f : Loop(f, M + 1)
    <3> HIDE DEF Loop
    <3> QED
      BY <2>8
  <2> HIDE DEF Loop
  <2> QED
    BY <2>2, <2>9
<1>3. N \in Exists
  <2> HIDE DEF Exists
  <2>1. \A M \in 0 .. N : M \in Exists
    BY <1>1, <1>2, AllNat
  <2> QED
    BY <2>1
<1> QED
  BY <1>3 DEF PutBy

(* tree_insert is the level it starts at of such an f. *)
LEMMA PutIs ==
    ASSUME NEW t, t.length \in Nat, NEW k, NEW b
    PROVE  \E f : /\ \A m \in 0 .. t.length : f[m] = PutTurn(t, k, m, f[m - 1])
                 /\ tree_insert(t, b, k) = f[t.length][b]
<1> DEFINE f == CHOOSE f : PutBy(t, k, t.length, f)
           N == t.length
<1>1. tree_insert(t, b, k) = f[t.length][b]
  BY Zenon DEF tree_insert, PutTurn, PutBy
<1>2. N \in Nat /\ N = t.length
  OBVIOUS
<1> HIDE DEF N
<1>3. \E x : PutBy(t, k, N, x)
  BY ONLY <1>2, PutRecurs
<1>4. PutBy(t, k, N, f)
  BY ONLY <1>2, <1>3
<1> HIDE DEF f
<1>5. \A m \in 0 .. t.length : f[m] = PutTurn(t, k, m, f[m - 1])
  BY ONLY <1>2, <1>4 DEF PutBy
<1> QED
  BY <1>1, <1>5

(* What tree_delete does on one level, for all nodes and parents. *)
DropTurn(t, k, m, prev) ==
    [q \in DOMAIN t.node |-> [c \in DOMAIN t.node |->
       IF m = 0 \/ t.node[c].leaf THEN DropInLeaf(t, q, c, k)
       ELSE DropAbove(q, c, prev[c][ChildFor(t, c, k)])]]

(* f has the levels of a deletion, each from the one below. *)
DropBy(t, k, N, f) == f = [m \in 0 .. N |-> DropTurn(t, k, m, f[m - 1])]

(* The recursive function of tree_delete exists. *)
LEMMA DropRecurs ==
    ASSUME NEW t, NEW k, NEW N, N \in Nat
    PROVE  \E f : DropBy(t, k, N, f)
<1> DEFINE Loop(f, M) == f = [m \in 0 .. M |-> DropTurn(t, k, m, f[m - 1])]
           Exists == {M \in 0 .. N : \E f : Loop(f, M)}
<1>1. 0 \in Exists
  <2> DEFINE g == [m \in 0 .. 0 |-> DropTurn(t, k, 0, 0)]
  <2>1. \A x : DropTurn(t, k, 0, x) = DropTurn(t, k, 0, 0)
    BY DEF DropTurn
  <2>2. \A m \in 0 .. 0 : g[m] = DropTurn(t, k, m, g[m - 1])
    <3>1. g[0] = DropTurn(t, k, 0, g[0 - 1])
      BY ONLY <2>1, 0 \in 0 .. 0
    <3> QED
      BY ONLY <3>1
  <2>3. g = [m \in 0 .. 0 |-> g[m]]
    OBVIOUS
  <2> HIDE DEF g
  <2>4. Loop(g, 0)
    BY ONLY <2>2, <2>3
  <2>5. \E f : Loop(f, 0)
    <3> HIDE DEF Loop
    <3> QED
      BY <2>4
  <2> HIDE DEF Loop
  <2> QED
    BY <2>5
<1>2. ASSUME NEW M \in 0 .. N - 1, M \in Exists PROVE M + 1 \in Exists
  <2>1. PICK g : Loop(g, M)
    BY <1>2
  <2> DEFINE h == [m \in 0 .. M + 1 |-> IF m <= M THEN g[m] ELSE DropTurn(t, k, M + 1, g[M])]
  <2>2. M \in Nat /\ M + 1 \in 0 .. N
    OBVIOUS
  <2>3. \A m \in 0 .. M : h[m] = g[m]
    BY <2>2
  <2>4. \A m \in 0 .. M : g[m] = DropTurn(t, k, m, g[m - 1])
    <3> HIDE DEF h
    <3> QED
      BY <2>1
  <2>5. ASSUME NEW x PROVE DropTurn(t, k, 0, x) = DropTurn(t, k, 0, 0)
    BY DEF DropTurn
  <2>6. ASSUME NEW m \in 0 .. M + 1 PROVE h[m] = DropTurn(t, k, m, h[m - 1])
    <3>1. CASE m = M + 1
      <4>1. h[m] = DropTurn(t, k, M + 1, g[M]) /\ m - 1 = M /\ M \in 0 .. M
        BY <2>2, <3>1
      <4> QED
        BY ONLY <2>3, <3>1, <4>1
    <3>2. CASE m # M + 1 /\ m # 0
      <4>1. m \in 0 .. M /\ m - 1 \in 0 .. M
        BY <2>2, <3>2
      <4> HIDE DEF h
      <4> QED
        BY ONLY <2>3, <2>4, <4>1
    <3>3. CASE m # M + 1 /\ m = 0
      <4>1. 0 \in 0 .. M
        BY <2>2
      <4> HIDE DEF h
      <4> QED
        BY ONLY <2>3, <2>4, <2>5, <3>3, <4>1
    <3> QED
      BY <3>1, <3>2, <3>3
  <2>7. h = [m \in 0 .. M + 1 |-> h[m]]
    OBVIOUS
  <2> HIDE DEF h
  <2>8. Loop(h, M + 1)
    BY ONLY <2>6, <2>7
  <2>9. \E f : Loop(f, M + 1)
    <3> HIDE DEF Loop
    <3> QED
      BY <2>8
  <2> HIDE DEF Loop
  <2> QED
    BY <2>2, <2>9
<1>3. N \in Exists
  <2> HIDE DEF Exists
  <2>1. \A M \in 0 .. N : M \in Exists
    BY <1>1, <1>2, AllNat
  <2> QED
    BY <2>1
<1> QED
  BY <1>3 DEF DropBy

(* tree_delete is the level it starts at of such an f. *)
LEMMA DropIs ==
    ASSUME NEW t, t.length \in Nat, NEW k, NEW p, NEW b
    PROVE  \E f : /\ \A m \in 0 .. t.length : f[m] = DropTurn(t, k, m, f[m - 1])
                 /\ tree_delete(t, p, b, k) = f[t.length][p][b]
<1> DEFINE f == CHOOSE f : DropBy(t, k, t.length, f)
           N == t.length
<1>1. tree_delete(t, p, b, k) = f[t.length][p][b]
  BY Zenon DEF tree_delete, DropTurn, DropBy
<1>2. N \in Nat /\ N = t.length
  OBVIOUS
<1> HIDE DEF N
<1>3. \E x : DropBy(t, k, N, x)
  BY ONLY <1>2, DropRecurs
<1>4. DropBy(t, k, N, f)
  BY ONLY <1>2, <1>3
<1> HIDE DEF f
<1>5. \A m \in 0 .. t.length : f[m] = DropTurn(t, k, m, f[m - 1])
  BY ONLY <1>2, <1>4 DEF DropBy
<1> QED
  BY <1>1, <1>5

-----------------------------------------------------------------------------
(* Searches. *)

(* There are fewer levels than nodes in the file. *)
LEMMA HeightFits ==
    ASSUME NEW t, NEW g, NEW h, Good(t, g, h, {}, {})
    PROVE  h \in Nat /\ t.length \in Nat /\ h < t.length
<1> DEFINE N == t.length
<1>1. Tiled(g, h, MaxKey) /\ Typed(t) /\ DOMAIN g \subseteq DOMAIN t.node
  BY DEF Good
<1>2. N \in Nat /\ DOMAIN g \subseteq 0 .. N - 1
  BY ONLY <1>1, TypedIs
<1> HIDE DEF N
<1>3. h \in Nat /\ h < N
  BY ONLY <1>1, <1>2, LevelsFit
<1> QED
  BY ONLY <1>2, <1>3 DEF N

(* A key that is stored is a row of the leaf in whose range it is. *)
LEMMA KeyLeaf ==
    ASSUME NEW t, NEW g, NEW h, Good(t, g, h, {}, {}), NEW b, b \in DOMAIN g, g[b].lev = 0,
           NEW k, k \in Nat, g[b].lo <= k, k < g[b].hi
    PROVE  k \in KeysIn(t, g) <=> k \in RowSet(t, b)
<1>1. Tiled(g, h, MaxKey) /\ \A x \in DOMAIN g : NodeFits(t, g, x)
  BY DEF Good
<1>2. ASSUME NEW x, x \in DOMAIN g, g[x].lev = 0, k \in RowSet(t, x) PROVE x = b
  <2>1. t.node[x].row \in Seq(Key) /\ \A i \in 1 .. Len(t.node[x].row) :
                                        g[x].lo <= t.node[x].row[i] /\ t.node[x].row[i] < g[x].hi
    BY ONLY <1>1, <1>2 DEF LeafFits, NodeFits
  <2>2. \E i \in 1 .. Len(t.node[x].row) : t.node[x].row[i] = k
    BY ONLY <2>1, k \in RowSet(t, x) DEF RowSet, ToSet
  <2>3. g[x].lo <= k /\ k < g[x].hi
    BY ONLY <2>1, <2>2
  <2>4. g[x].lev = g[b].lev
    BY ONLY <1>2, g[b].lev = 0
  <2> QED
    BY ONLY <1>1, <2>3, <2>4, x \in DOMAIN g, b \in DOMAIN g, k \in Nat, g[b].lo <= k, k < g[b].hi, OnlyOne
<1> QED
  BY ONLY <1>2, b \in DOMAIN g, g[b].lev = 0 DEF KeysIn

(* The child the descent takes has k in its range. *)
LEMMA ChildCovers ==
    ASSUME NEW t, NEW g, NEW h, Good(t, g, h, {}, {}), NEW b, b \in DOMAIN g, g[b].lev # 0,
           NEW k, k \in Nat, g[b].lo <= k, k < g[b].hi, NEW c, c = ChildFor(t, b, k)
    PROVE  Descends(g, b, c, k)
<1> DEFINE i == find_index(t, b, k)
           at == g[b]
           str == t.string
           row == t.node[b].row
           child == t.node[b].child
<1>1. Tiled(g, h, MaxKey) /\ Typed(t) /\ ~t.node[b].leaf /\ NodeFits(t, g, b)
  BY DEF Good
<1>2. Ordered(g) /\ g[b] \in Place /\ g[b].lo < g[b].hi
  BY ONLY <1>1, b \in DOMAIN g, TiledIs
<1>3. at \in Place /\ InnerFits(t.string, g, at, t.node[b].row, t.node[b].child) /\ at.lo <= k /\ k < at.hi
      /\ at.lo < at.hi
  BY ONLY <1>1, <1>2, g[b].lev # 0, g[b].lo <= k, k < g[b].hi DEF NodeFits
<1>4. t.string \in [DOMAIN t.string -> Key]
  BY ONLY <1>1, TypedIs
<1>5. at = g[b] /\ str = t.string /\ row = t.node[b].row /\ child = t.node[b].child /\ i = find_index(t, b, k)
  OBVIOUS
<1> HIDE DEF at
<1>6. Routed(t, g, b, k, find_index(t, b, k))
  BY ONLY <1>1, <1>2, <1>3, <1>4, k \in Nat, FindIndex
<1>7. /\ i + 1 \in 1 .. Len(child) /\ c = child[i + 1]
      /\ \A j \in 1 .. Len(child) : g[child[j]].lo <= k /\ k < g[child[j]].hi <=> j = i + 1
  BY ONLY <1>6, c = ChildFor(t, b, k) DEF Routed
<1> HIDE DEF i, str, row, child
<1>8. InnerFits(str, g, at, row, child)
  BY ONLY <1>3, <1>5
<1>9. /\ \A j \in 1 .. Len(child) : child[j] \in ToSet(child)
      /\ \A x \in ToSet(child) : /\ x \in DOMAIN g /\ g[x].lev + 1 = at.lev
                                 /\ at.lo <= g[x].lo /\ g[x].lo < g[x].hi /\ g[x].hi <= at.hi
  BY ONLY <1>1, <1>3, <1>8, InnerIs
<1>10. /\ c \in DOMAIN g /\ g[c].lev + 1 = at.lev /\ at.lo <= g[c].lo /\ g[c].hi <= at.hi
       /\ g[c].lo <= k /\ k < g[c].hi
  BY ONLY <1>7, <1>9
<1> QED
  BY ONLY <1>5, <1>10, b \in DOMAIN g, g[b].lev # 0 DEF Descends, Under

(* A search from a node in whose range the key is finds it, if it is       *)
(* stored.                                                                 *)
LEMMA SearchFinds ==
    ASSUME NEW t, NEW g, NEW h, Good(t, g, h, {}, {}), NEW k, k \in Nat,
           NEW b, b \in DOMAIN g, g[b].lo <= k, k < g[b].hi
    PROVE  tree_search(t, b, k) = IF k \in KeysIn(t, g) THEN k ELSE NoKey
<1> DEFINE N == t.length
           answer == IF k \in KeysIn(t, g) THEN k ELSE NoKey
<1>1. h \in Nat /\ N \in Nat /\ h < N
  BY ONLY Good(t, g, h, {}, {}), HeightFits
<1>2. PICK f : (\A m \in 0 .. t.length : f[m] = SearchTurn(t, k, m, f[m - 1])) /\ tree_search(t, b, k) = f[t.length][b]
  BY ONLY <1>1, SearchIs
<1>3. /\ Tiled(g, h, MaxKey) /\ DOMAIN g \subseteq DOMAIN t.node
      /\ \A x \in DOMAIN g : t.node[x].leaf <=> g[x].lev = 0
  BY DEF Good
<1>4. \A x \in DOMAIN g : g[x].lev \in Nat /\ g[x].lev <= h
  <2>1. h \in Nat /\ \A x \in DOMAIN g : g[x].lev \in 0 .. h
    BY ONLY <1>3, TiledIs
  <2> QED
    BY ONLY <2>1
<1>5. answer = IF k \in KeysIn(t, g) THEN k ELSE NoKey
  OBVIOUS
<1> HIDE DEF answer
<1> DEFINE Done == {m \in 0 .. N : \A x \in DOMAIN g : g[x].lev <= m /\ g[x].lo <= k /\ k < g[x].hi => f[m][x] = answer}
<1>6. ASSUME NEW m, m \in 0 .. N, NEW x, x \in DOMAIN g, g[x].lev = 0, g[x].lo <= k, k < g[x].hi
      PROVE  f[m][x] = answer
  <2>1. k \in KeysIn(t, g) <=> k \in RowSet(t, x)
    BY ONLY Good(t, g, h, {}, {}), <1>6, k \in Nat, KeyLeaf
  <2>2. f[m][x] = IF k \in ToSet(t.node[x].row) THEN k ELSE NoKey
    <3>1. f[m] = SearchTurn(t, k, m, f[m - 1])
      BY ONLY <1>2, m \in 0 .. N
    <3>2. x \in DOMAIN t.node /\ t.node[x].leaf
      BY ONLY <1>3, <1>6
    <3> QED
      BY ONLY <3>1, <3>2 DEF SearchTurn
  <2> QED
    BY ONLY <1>5, <2>1, <2>2 DEF RowSet
<1>7. 0 \in Done
  <2>1. 0 \in 0 .. N
    BY ONLY <1>1
  <2>2. ASSUME NEW x, x \in DOMAIN g, g[x].lev <= 0, g[x].lo <= k, k < g[x].hi PROVE f[0][x] = answer
    <3>1. g[x].lev = 0
      BY ONLY <1>4, <2>2
    <3> QED
      BY ONLY <1>6, <2>1, <2>2, <3>1
  <2> QED
    BY ONLY <2>1, <2>2
<1>8. ASSUME NEW m \in 0 .. N - 1, m \in Done PROVE m + 1 \in Done
  <2>1. m \in Nat /\ m + 1 \in 0 .. N /\ (m + 1) - 1 = m /\ m + 1 > 0
    BY ONLY <1>1, m \in 0 .. N - 1
  <2>2. ASSUME NEW x, x \in DOMAIN g, g[x].lev <= m + 1, g[x].lo <= k, k < g[x].hi, g[x].lev # 0
        PROVE  f[m + 1][x] = answer
    <3> DEFINE c == ChildFor(t, x, k)
    <3>1. Descends(g, x, c, k)
      BY ONLY Good(t, g, h, {}, {}), <2>2, k \in Nat, ChildCovers
    <3>2. f[m + 1] = SearchTurn(t, k, m + 1, f[m])
      BY ONLY <1>2, <2>1
    <3>3. f[m + 1][x] = f[m][c]
      BY ONLY <1>3, <2>1, <2>2, <3>2 DEF SearchTurn
    <3> HIDE DEF c
    <3>4. c \in DOMAIN g /\ g[c].lev <= m /\ g[c].lo <= k /\ k < g[c].hi
      BY ONLY <1>4, <2>1, <2>2, <3>1 DEF Descends, Under
    <3>5. f[m][c] = answer
      BY ONLY <1>8, <3>4
    <3> QED
      BY ONLY <3>3, <3>5
  <2>3. ASSUME NEW x, x \in DOMAIN g, g[x].lev <= m + 1, g[x].lo <= k, k < g[x].hi PROVE f[m + 1][x] = answer
    BY ONLY <1>6, <2>1, <2>2, <2>3
  <2> QED
    BY ONLY <2>1, <2>3
<1>9. N \in Done
  <2> HIDE DEF Done
  <2>1. \A m \in 0 .. N : m \in Done
    BY ONLY <1>1, <1>7, <1>8, AllNat
  <2> QED
    BY ONLY <1>1, <2>1
<1>10. g[b].lev <= N
  BY ONLY <1>1, <1>4, b \in DOMAIN g
<1>11. f[N][b] = answer
  BY ONLY <1>9, <1>10, b \in DOMAIN g, g[b].lo <= k, k < g[b].hi
<1> QED
  BY ONLY <1>2, <1>5, <1>11 DEF N

-----------------------------------------------------------------------------
(* Insertions. *)

(* A node that is split off has the number and the separator PutInLeaf and *)
(* PutInInner return.                                                      *)
Parted(t, g, h, c, k, u, g2, e) ==
    LET m == u.string[e.rid] IN
      /\ e.addr \in DOMAIN g2 /\ e.addr \notin DOMAIN g /\ Len(u.node[c].row) >= DEGREE
      /\ g2[c] = [lev |-> g[c].lev, lo |-> g[c].lo, hi |-> m]
      /\ g2[e.addr] = [lev |-> g[c].lev, lo |-> m, hi |-> g[c].hi]
      /\ Good(u, g2, h, {y \in DOMAIN g : Covers(g, y, g[c].lev + 1, k)}, {e.rid})

(* What a call that inserts below c, or in it, leaves to the level above. *)
Inserted(t, g, h, c, k, r) ==
    LET u == r.tree IN
      \E g2 : /\ Sized(u, g2, {}) /\ KeysIn(u, g2) = KeysIn(t, g) \cup {k}
              /\ UpStays(t, g, c, u, g2)
              /\ r.entry = NoEntry => Good(u, g2, h, {}, {}) /\ g2[c] = g[c]
              /\ r.entry # NoEntry => Parted(t, g, h, c, k, u, g2, r.entry)

(* A leaf with room takes the key. *)
LeafTakes(t, g, h, b, k, row, v) ==
    /\ Good(v, g, h, {}, {}) /\ OnlyRow(t, g, v, b, row)
    /\ Sized(v, g, {}) /\ KeysIn(v, g) = KeysIn(t, g) \cup {k}

(* A leaf with room takes a key. *)
LEMMA LeafTakesIs ==
    ASSUME NEW t, NEW g, NEW h, Good(t, g, h, {}, {}), Sized(t, g, {}), NEW b, b \in DOMAIN g, g[b].lev = 0,
           NEW k, NEW row, row \in Seq(Key), LeafFits(g[b], row, Key), Len(row) = n(t, b) + 1, Len(row) <= 2 * DEGREE,
           ToSet(row) = RowSet(t, b) \cup {k}, NEW v, v = WithRow(t, b, row)
    PROVE  LeafTakes(t, g, h, b, k, row, v)
<1>1. Good(v, g, h, {}, {}) /\ OnlyRow(t, g, v, b, row)
  BY ONLY Good(t, g, h, {}, {}), b \in DOMAIN g, g[b].lev = 0, row \in Seq(Key), LeafFits(g[b], row, Key),
          v = WithRow(t, b, row), PutLeafStays
<1>2. v.node[b].row = row /\ (\A x \in DOMAIN g : x # b => v.node[x] = t.node[x]) /\ v.root_node = t.root_node
  BY ONLY <1>1 DEF OnlyRow
<1>3. Sized(v, g, {})
  <2>1. n(t, b) \in Nat
    <3>1. Typed(t) /\ b \in DOMAIN t.node
      BY ONLY Good(t, g, h, {}, {}), b \in DOMAIN g DEF Good
    <3> QED
      BY ONLY <3>1, NodeIs DEF n
  <2>2. n(v, b) = n(t, b) + 1 /\ n(v, b) <= 2 * DEGREE
    BY ONLY <1>2, Len(row) = n(t, b) + 1, Len(row) <= 2 * DEGREE DEF n
  <2>3. b # t.root_node => n(v, b) >= DEGREE
    <3>1. b # t.root_node => n(t, b) >= DEGREE
      BY ONLY Sized(t, g, {}), b \in DOMAIN g DEF Sized, n
    <3> QED
      BY ONLY <2>1, <2>2, <3>1, TreeAssumption
  <2> QED
    BY ONLY <1>2, <2>2, <2>3, Sized(t, g, {}), g[b].lev = 0 DEF Sized, n
<1>4. KeysIn(v, g) = KeysIn(t, g) \cup {k}
  <2>1. RowSet(v, b) = RowSet(t, b) \cup {k} /\ \A x \in DOMAIN g : x # b => RowSet(v, x) = RowSet(t, x)
    BY ONLY <1>2, ToSet(row) = RowSet(t, b) \cup {k} DEF RowSet
  <2>2. ASSUME NEW z PROVE z \in KeysIn(v, g) <=> z \in KeysIn(t, g) \cup {k}
    BY ONLY <2>1, b \in DOMAIN g, g[b].lev = 0 DEF KeysIn
  <2> QED
    BY ONLY <2>2
<1> QED
  BY ONLY <1>1, <1>3, <1>4 DEF LeafTakes

(* A full leaf is split. *)
LeafParts(t, g, h, b, k, v, g2, a, x, m) ==
    /\ Good(v, g2, h, {y \in DOMAIN g : Covers(g, y, 1, k)}, {x})
    /\ Sized(v, g2, {}) /\ KeysIn(v, g2) = KeysIn(t, g) \cup {k}
    /\ a \notin DOMAIN g /\ v.string[x] = m /\ v.root_node = t.root_node /\ Len(v.node[b].row) >= DEGREE
    /\ \A s \in DOMAIN t.string : s \in DOMAIN v.string /\ v.string[s] = t.string[s]
    /\ \A y \in DOMAIN g : y # b => v.node[y] = t.node[y]

(* A full leaf takes a key and is split. *)
LEMMA LeafPartsIs ==
    ASSUME NEW t, NEW g, NEW h, Good(t, g, h, {}, {}), Sized(t, g, {}), NEW b, b \in DOMAIN g, g[b].lev = 0,
           NEW k, k \in Nat, g[b].lo <= k, k < g[b].hi,
           NEW row, LeafFits(g[b], row, Key), Len(row) = 2 * DEGREE + 1, ToSet(row) = RowSet(t, b) \cup {k},
           NEW a, a = NewNode(t), NEW x, x = NewString(t),
           NEW left, left = SubSeq(row, 1, DEGREE),
           NEW right, right = SubSeq(row, DEGREE + 1, 2 * DEGREE + 1), NEW m, m = right[1],
           NEW v, v = SplitLeaf(t, b, a, left, right, m),
           NEW g2, g2 = SplitPlace(g, b, a, m)
    PROVE  LeafParts(t, g, h, b, k, v, g2, a, x, m)
<1> DEFINE U == DOMAIN g
           at == g[b]
<1>1. Typed(t) /\ Spare(t, U) /\ b \in U /\ b \in DOMAIN t.node /\ Tiled(g, h, MaxKey) /\ U \subseteq DOMAIN t.node
  BY DEF Good
<1>2. at \in Place /\ LeafFits(at, row, Key)
  BY ONLY <1>1, b \in DOMAIN g, LeafFits(g[b], row, Key), TiledIs
<1>3. U = DOMAIN g /\ at = g[b]
  OBVIOUS
<1> HIDE DEF U, at
<1>4. LeafHalved(at, row, left, right, m)
  BY ONLY <1>2, Len(row) = 2 * DEGREE + 1, left = SubSeq(row, 1, DEGREE),
          right = SubSeq(row, DEGREE + 1, 2 * DEGREE + 1), m = right[1], LeafHalves
<1>5. /\ left \in Seq(Key) /\ right \in Seq(Key) /\ m \in Key
      /\ Len(left) = DEGREE /\ Len(right) = DEGREE + 1 /\ ToSet(left) \cup ToSet(right) = ToSet(row)
  BY ONLY <1>4 DEF LeafHalved
<1>6. LeafIsSplit(t, U, v, b, a, x, left, right, m)
  BY ONLY <1>1, <1>5, a = NewNode(t), x = NewString(t), v = SplitLeaf(t, b, a, left, right, m), LeafSplitsIs
<1>7. Good(v, g2, h, {y \in DOMAIN g : Covers(g, y, 1, k)}, {x})
  <2>1. LeafHalved(g[b], row, left, right, m) /\ LeafIsSplit(t, DOMAIN g, v, b, a, x, left, right, m)
    BY ONLY <1>3, <1>4, <1>6
  <2> QED
    BY ONLY Good(t, g, h, {}, {}), b \in DOMAIN g, g[b].lev = 0, k \in Nat, g[b].lo <= k, k < g[b].hi,
            <2>1, g2 = SplitPlace(g, b, a, m), LeafSplitsGood
<1>8. /\ a \notin DOMAIN g /\ v.root_node = t.root_node /\ v.string[x] = m
      /\ \A s \in DOMAIN t.string : s \in DOMAIN v.string /\ v.string[s] = t.string[s]
      /\ v.node[a].row = right /\ v.node[b].row = left
      /\ \A y \in DOMAIN g : y # b => v.node[y] = t.node[y]
  BY ONLY <1>1, <1>3, <1>6 DEF LeafIsSplit
<1>9. DOMAIN g2 = DOMAIN g \cup {a} /\ a # b /\ g2[a].lev = 0 /\ g2[b].lev = 0
      /\ \A y \in DOMAIN g : y # b => g2[y] = g[y]
  <2>1. /\ DOMAIN g2 = DOMAIN g \cup {a} /\ a # b
        /\ g2[a] = [lev |-> g[b].lev, lo |-> m, hi |-> g[b].hi]
        /\ g2[b] = [lev |-> g[b].lev, lo |-> g[b].lo, hi |-> m]
        /\ \A y \in DOMAIN g : y # b => g2[y] = g[y]
    <3>1. a \notin DOMAIN g
      BY ONLY <1>8
    <3> QED
      BY ONLY <3>1, b \in DOMAIN g, g2 = SplitPlace(g, b, a, m), Zenon DEF SplitPlace
  <2> QED
    BY ONLY <2>1, g[b].lev = 0
<1>10. Sized(v, g2, {})
  <2>1. /\ Len(v.node[a].row) <= 2 * DEGREE /\ Len(v.node[a].row) >= DEGREE
        /\ Len(v.node[b].row) <= 2 * DEGREE /\ Len(v.node[b].row) >= DEGREE
    BY ONLY <1>5, <1>8, TreeAssumption
  <2> QED
    BY ONLY <1>8, <1>9, <2>1, Sized(t, g, {}) DEF Sized
<1>11. KeysIn(v, g2) = KeysIn(t, g) \cup {k}
  <2>1. /\ RowSet(v, a) \cup RowSet(v, b) = RowSet(t, b) \cup {k}
        /\ \A y \in DOMAIN g : y # b => RowSet(v, y) = RowSet(t, y)
    BY ONLY <1>5, <1>8, ToSet(row) = RowSet(t, b) \cup {k} DEF RowSet
  <2>2. ASSUME NEW z, z \in KeysIn(v, g2) PROVE z \in KeysIn(t, g) \cup {k}
    <3>1. PICK y \in DOMAIN g2 : g2[y].lev = 0 /\ z \in RowSet(v, y)
      BY ONLY <2>2 DEF KeysIn
    <3>2. CASE y = a \/ y = b
      BY ONLY <2>1, <3>1, <3>2, b \in DOMAIN g, g[b].lev = 0 DEF KeysIn
    <3>3. CASE y # a /\ y # b
      BY ONLY <1>9, <2>1, <3>1, <3>3 DEF KeysIn
    <3> QED
      BY ONLY <3>2, <3>3
  <2>3. ASSUME NEW z, z \in KeysIn(t, g) \cup {k} PROVE z \in KeysIn(v, g2)
    <3>1. z \in RowSet(t, b) \cup {k} \/ \E y \in DOMAIN g : y # b /\ g[y].lev = 0 /\ z \in RowSet(t, y)
      BY ONLY <2>3 DEF KeysIn
    <3>2. CASE z \in RowSet(t, b) \cup {k}
      <4>1. z \in RowSet(v, a) \/ z \in RowSet(v, b)
        BY ONLY <2>1, <3>2
      <4> QED
        BY ONLY <1>9, <4>1, b \in DOMAIN g DEF KeysIn
    <3>3. ASSUME NEW y \in DOMAIN g, y # b, g[y].lev = 0, z \in RowSet(t, y) PROVE z \in KeysIn(v, g2)
      <4>1. z \in RowSet(v, y) /\ y \in DOMAIN g2 /\ g2[y].lev = 0
        BY ONLY <1>9, <2>1, <3>3
      <4> QED
        BY ONLY <4>1 DEF KeysIn
    <3> QED
      BY ONLY <3>1, <3>2, <3>3
  <2> QED
    BY ONLY <2>2, <2>3
<1>12. Len(v.node[b].row) >= DEGREE
  BY ONLY <1>5, <1>8, TreeAssumption
<1> QED
  BY ONLY <1>7, <1>8, <1>10, <1>11, <1>12 DEF LeafParts

(* A key is put into the leaf in whose range it is. *)
LEMMA PutInLeafIs ==
    ASSUME NEW t, NEW g, NEW h, Good(t, g, h, {}, {}), Sized(t, g, {}), NEW b, b \in DOMAIN g, g[b].lev = 0,
           NEW k, k \in Key, g[b].lo <= k, k < g[b].hi, k \notin RowSet(t, b), NEW r, r = PutInLeaf(t, b, k)
    PROVE  Inserted(t, g, h, b, k, r)
<1> DEFINE row == InsertAt(t.node[b].row, find_index(t, b, k) + 1, k)
           a == NewNode(t)
           x == NewString(t)
           left == SubSeq(row, 1, DEGREE)
           right == SubSeq(row, DEGREE + 1, 2 * DEGREE + 1)
           m == right[1]
           u == r.tree
           at == g[b]
<1>1. /\ Len(row) <= 2 * DEGREE => r.entry = NoEntry /\ u = WithRow(t, b, row)
      /\ ~(Len(row) <= 2 * DEGREE) => r.entry = [addr |-> a, rid |-> x] /\ u = SplitLeaf(t, b, a, left, right, m)
  <2>0. Overfull(row) <=> Len(row) > 2 * DEGREE
    BY DEF Overfull
  <2>1. CASE ~Overfull(row)
    <3>1. r = [tree |-> [t EXCEPT !.node[b].row = row], entry |-> NoEntry]
      BY <2>1 DEF PutInLeaf
    <3>2. u = [t EXCEPT !.node[b].row = row] /\ r.entry = NoEntry
      BY ONLY <3>1
    <3>3. Len(row) > 2 * DEGREE <=> ~(Len(row) <= 2 * DEGREE)
      <4>1. Len(row) \in Nat /\ 2 * DEGREE \in Nat
        <5>2. Len(row) \in Nat
          OBVIOUS
        <5> QED
          BY ONLY <5>2, TreeAssumption
      <4> QED
        BY ONLY <4>1
    <3> QED
      BY ONLY <2>0, <2>1, <3>2, <3>3 DEF WithRow
  <2>2. CASE Overfull(row)
    <3>1. r = [tree |-> [insert_handler(TakeNode(t), right[1]) EXCEPT
                           !.node[a] = BNode(TRUE, right, <<>>, t.node[b].next),
                           !.node[b].row = SubSeq(row, 1, DEGREE),
                           !.node[b].next = a],
               entry |-> [addr |-> a, rid |-> NewString(t)]]
      BY <2>2 DEF PutInLeaf
    <3>2. u = SplitLeaf(t, b, a, left, right, m) /\ r.entry = [addr |-> a, rid |-> x]
      <4> HIDE DEF a, right
      <4> QED
        BY ONLY <3>1 DEF SplitLeaf, m, x, left, u
    <3>3. Len(row) > 2 * DEGREE <=> ~(Len(row) <= 2 * DEGREE)
      <4>1. Len(row) \in Nat /\ 2 * DEGREE \in Nat
        <5>2. Len(row) \in Nat
          OBVIOUS
        <5> QED
          BY ONLY <5>2, TreeAssumption
      <4> QED
        BY ONLY <4>1
    <3> QED
      BY ONLY <2>0, <2>2, <3>2, <3>3
  <2> QED
    BY ONLY <2>1, <2>2
<1>2. /\ row = InsertAt(t.node[b].row, find_index(t, b, k) + 1, k) /\ a = NewNode(t) /\ x = NewString(t)
      /\ left = SubSeq(row, 1, DEGREE) /\ right = SubSeq(row, DEGREE + 1, 2 * DEGREE + 1) /\ m = right[1]
      /\ at = g[b]
  OBVIOUS
<1> HIDE DEF row, a, x, left, right, m, u, at
<1>3. /\ Typed(t) /\ b \in DOMAIN t.node /\ t.node[b].leaf /\ Tiled(g, h, MaxKey) /\ NodeFits(t, g, b)
      /\ DOMAIN g \subseteq DOMAIN t.node
  BY DEF Good
<1>4. at \in Place /\ LeafFits(at, t.node[b].row, Key)
  <2>1. g[b] \in Place
    BY ONLY <1>3, b \in DOMAIN g, TiledIs
  <2> QED
    BY ONLY <1>2, <1>3, <2>1, g[b].lev = 0 DEF NodeFits
<1>5. at.lo <= k /\ k < at.hi /\ t.node[b].leaf
  BY ONLY <1>2, <1>3, g[b].lo <= k, k < g[b].hi
<1>6. LeafFits(at, row, Key) /\ Len(row) = n(t, b) + 1 /\ ToSet(row) = RowSet(t, b) \cup {k} /\ row \in Seq(Key)
  <2>1. row = InsertAt(t.node[b].row, find_index(t, b, k) + 1, k)
    BY ONLY <1>2
  <2> QED
    BY ONLY <1>4, <1>5, <2>1, k \in Key, k \notin RowSet(t, b), LeafPut
<1>7. LeafFits(g[b], row, Key)
  BY ONLY <1>2, <1>6
<1>8. k \in Nat
  BY ONLY k \in Key DEF Key
<1>9. n(t, b) \in Nat /\ n(t, b) <= 2 * DEGREE
  <2>1. n(t, b) \in Nat
    BY ONLY <1>3, NodeIs DEF n
  <2> QED
    BY ONLY <2>1, Sized(t, g, {}), b \in DOMAIN g DEF Sized, n
<1>10. CASE Len(row) <= 2 * DEGREE
  <2>1. u = WithRow(t, b, row) /\ r.entry = NoEntry
    BY ONLY <1>1, <1>10
  <2>2. LeafTakes(t, g, h, b, k, row, u)
    BY ONLY Good(t, g, h, {}, {}), Sized(t, g, {}), b \in DOMAIN g, g[b].lev = 0, <1>6, <1>7, <1>10, <2>1, LeafTakesIs
  <2>3. /\ Good(u, g, h, {}, {}) /\ Sized(u, g, {}) /\ KeysIn(u, g) = KeysIn(t, g) \cup {k}
        /\ \A y \in DOMAIN g : y # b => u.node[y] = t.node[y]
        /\ u.root_node = t.root_node /\ u.string = t.string
    BY ONLY <2>2 DEF LeafTakes, OnlyRow
  <2>4. UpStays(t, g, b, u, g)
    BY ONLY <2>3 DEF UpStays
  <2> QED
    BY ONLY <2>1, <2>3, <2>4 DEF Inserted, u
<1>11. CASE ~(Len(row) <= 2 * DEGREE)
  <2> DEFINE g2 == SplitPlace(g, b, a, m)
             e == r.entry
  <2>1. u = SplitLeaf(t, b, a, left, right, m) /\ r.entry = [addr |-> a, rid |-> x]
    BY ONLY <1>1, <1>11
  <2>2. Len(row) = 2 * DEGREE + 1
    BY ONLY <1>6, <1>9, <1>11, TreeAssumption
  <2>3. g2 = SplitPlace(g, b, a, m)
    OBVIOUS
  <2>4. u = SplitLeaf(t, b, a, left, right, m)
    BY ONLY <2>1
  <2>12. a = NewNode(t) /\ x = NewString(t) /\ left = SubSeq(row, 1, DEGREE)
         /\ right = SubSeq(row, DEGREE + 1, 2 * DEGREE + 1) /\ m = right[1]
    BY ONLY <1>2
  <2>13. LeafFits(g[b], row, Key) /\ ToSet(row) = RowSet(t, b) \cup {k}
    BY ONLY <1>6, <1>7
  <2> HIDE DEF g2, e
  <2>5. LeafParts(t, g, h, b, k, u, g2, a, x, m)
    BY ONLY Good(t, g, h, {}, {}), Sized(t, g, {}), b \in DOMAIN g, g[b].lev = 0, <1>8, g[b].lo <= k, k < g[b].hi,
            <2>2, <2>3, <2>4, <2>12, <2>13, LeafPartsIs
  <2>6. /\ Good(u, g2, h, {y \in DOMAIN g : Covers(g, y, 1, k)}, {x})
        /\ Sized(u, g2, {}) /\ KeysIn(u, g2) = KeysIn(t, g) \cup {k}
        /\ a \notin DOMAIN g /\ u.string[x] = m /\ u.root_node = t.root_node /\ Len(u.node[b].row) >= DEGREE
        /\ \A s \in DOMAIN t.string : s \in DOMAIN u.string /\ u.string[s] = t.string[s]
        /\ \A y \in DOMAIN g : y # b => u.node[y] = t.node[y]
    BY ONLY <2>5 DEF LeafParts
  <2>7. /\ DOMAIN g2 = DOMAIN g \cup {a} /\ a # b
        /\ g2[a] = [lev |-> g[b].lev, lo |-> m, hi |-> g[b].hi]
        /\ g2[b] = [lev |-> g[b].lev, lo |-> g[b].lo, hi |-> m]
        /\ \A y \in DOMAIN g : y # b => g2[y] = g[y]
    <3>1. a \notin DOMAIN g
      BY ONLY <2>6
    <3> QED
      BY ONLY <2>3, <3>1, b \in DOMAIN g, Zenon DEF SplitPlace
  <2>8. UpStays(t, g, b, u, g2)
    <3>1. g2[a].lev <= g[b].lev /\ \A y \in DOMAIN g : g2[y].lev = g[y].lev
      <4>1. g2[a].lev = 0 /\ g2[b].lev = 0
        BY ONLY <2>7, g[b].lev = 0
      <4> QED
        BY ONLY <2>7, <4>1, g[b].lev = 0
    <3> QED
      BY ONLY <2>6, <2>7, <3>1 DEF UpStays
  <2>9. Parted(t, g, h, b, k, u, g2, e)
    <3>1. e.addr = a /\ e.rid = x
      BY ONLY <2>1 DEF e
    <3>2. g[b].lev + 1 = 1
      BY ONLY g[b].lev = 0
    <3> QED
      BY ONLY <2>6, <2>7, <3>1, <3>2 DEF Parted
  <2>10. r.entry # NoEntry
    <3>1. a \in Nat
      <4>2. a \in DOMAIN g2 /\ Good(u, g2, h, {y \in DOMAIN g : Covers(g, y, 1, k)}, {x})
        BY ONLY <2>6, <2>7
      <4>3. Typed(u) /\ a \in DOMAIN u.node
        BY ONLY <4>2 DEF Good
      <4> QED
        BY ONLY <4>3, TypedIs
    <3> QED
      BY ONLY <2>1, <3>1 DEF NoEntry, NoNode
  <2> QED
    BY ONLY <2>6, <2>8, <2>9, <2>10 DEF Inserted, u, e
<1> QED
  BY ONLY <1>10, <1>11

(* An inner node with room takes the entry of the level below. *)
InnerTakes(t, g, h, p, row, child, v) ==
    /\ Good(v, g, h, {}, {}) /\ OnlyInner(t, DOMAIN g, v, p, row, child)
    /\ Sized(v, g, {}) /\ KeysIn(v, g) = KeysIn(t, g)

(* An inner node with room takes the pending row. *)
LEMMA InnerTakesIs ==
    ASSUME NEW t, NEW g, NEW h, NEW p, p \in DOMAIN g, NEW s, Good(t, g, h, {p}, {s}), Sized(t, g, {}), g[p].lev # 0,
           NEW row, NEW child, InnerFits(t.string, g, g[p], row, child), ToSet(row) = RowSet(t, p) \cup {s},
           Len(row) = n(t, p) + 1, Len(row) <= 2 * DEGREE, row \in Seq(Nat), child \in Seq(Nat),
           NEW v, v = WithInner(t, p, row, child)
    PROVE  InnerTakes(t, g, h, p, row, child, v)
<1> DEFINE U == DOMAIN g
<1>1. Typed(t) /\ Spare(t, U) /\ p \in U /\ p \in DOMAIN t.node /\ U \subseteq DOMAIN t.node
  BY DEF Good
<1>2. U = DOMAIN g
  OBVIOUS
<1> HIDE DEF U
<1>3. OnlyInner(t, U, v, p, row, child)
  BY ONLY <1>1, row \in Seq(Nat), child \in Seq(Nat), v = WithInner(t, p, row, child), InnerPutIs
<1>4. OnlyInner(t, DOMAIN g, v, p, row, child)
  BY ONLY <1>2, <1>3
<1>5. Good(v, g, h, {}, {})
  BY ONLY p \in DOMAIN g, Good(t, g, h, {p}, {s}), g[p].lev # 0, InnerFits(t.string, g, g[p], row, child),
          ToSet(row) = RowSet(t, p) \cup {s}, <1>4, InnerPutGood
<1>6. v.node[p].row = row /\ v.root_node = t.root_node /\ \A x \in DOMAIN g : x # p => v.node[x] = t.node[x]
  BY ONLY <1>1, <1>2, <1>3 DEF OnlyInner
<1>7. Sized(v, g, {})
  <2>1. n(t, p) \in Nat
    BY ONLY <1>1, NodeIs DEF n
  <2>2. n(v, p) = n(t, p) + 1 /\ n(v, p) <= 2 * DEGREE /\ n(v, p) >= 1
    BY ONLY <1>6, <2>1, Len(row) = n(t, p) + 1, Len(row) <= 2 * DEGREE DEF n
  <2>3. p # t.root_node => n(v, p) >= DEGREE
    <3>1. p # t.root_node => n(t, p) >= DEGREE
      BY ONLY Sized(t, g, {}), p \in DOMAIN g DEF Sized, n
    <3> QED
      BY ONLY <2>1, <2>2, <3>1, TreeAssumption
  <2> QED
    BY ONLY <1>6, <2>2, <2>3, Sized(t, g, {}) DEF Sized, n
<1>8. KeysIn(v, g) = KeysIn(t, g)
  BY ONLY <1>6, g[p].lev # 0 DEF KeysIn, RowSet
<1> QED
  BY ONLY <1>4, <1>5, <1>7, <1>8 DEF InnerTakes

(* A full inner node is split. *)
InnerParts(t, g, h, p, k, v, g2, a, w, m) ==
    /\ Good(v, g2, h, {y \in DOMAIN g : Covers(g, y, g[p].lev + 1, k)}, {w})
    /\ Sized(v, g2, {}) /\ KeysIn(v, g2) = KeysIn(t, g)
    /\ a \notin DOMAIN g /\ v.string = t.string /\ v.root_node = t.root_node /\ Len(v.node[p].row) >= DEGREE
    /\ \A y \in DOMAIN g : y # p => v.node[y] = t.node[y]

(* A full inner node takes the pending row and is split. *)
LEMMA InnerPartsIs ==
    ASSUME NEW t, NEW g, NEW h, NEW p, p \in DOMAIN g, NEW s, Good(t, g, h, {p}, {s}), Sized(t, g, {}), g[p].lev # 0,
           NEW k, k \in Nat, g[p].lo <= k, k < g[p].hi,
           NEW row, NEW child, InnerFits(t.string, g, g[p], row, child), ToSet(row) = RowSet(t, p) \cup {s},
           Len(row) = 2 * DEGREE + 1, row \in Seq(Nat), child \in Seq(Nat),
           NEW a, a = NewNode(t),
           NEW left, left = SubSeq(row, 1, DEGREE), NEW lefts, lefts = SubSeq(child, 1, DEGREE + 1),
           NEW right, right = SubSeq(row, DEGREE + 2, 2 * DEGREE + 1),
           NEW rights, rights = SubSeq(child, DEGREE + 2, 2 * DEGREE + 2),
           NEW w, w = row[DEGREE + 1], NEW m, m = t.string[w],
           NEW v, v = SplitInner(t, p, a, left, lefts, right, rights),
           NEW g2, g2 = SplitPlace(g, p, a, m)
    PROVE  InnerParts(t, g, h, p, k, v, g2, a, w, m)
<1> DEFINE U == DOMAIN g
           at == g[p]
           str == t.string
<1>1. Typed(t) /\ Spare(t, U) /\ p \in U /\ p \in DOMAIN t.node /\ Tiled(g, h, MaxKey) /\ U \subseteq DOMAIN t.node
  BY DEF Good
<1>2. at \in Place /\ at.lo < at.hi /\ str \in [DOMAIN str -> Key] /\ InnerFits(str, g, at, row, child) /\ m = str[w]
  <2>1. at \in Place /\ at.lo < at.hi
    BY ONLY <1>1, p \in DOMAIN g, TiledIs
  <2>2. str \in [DOMAIN str -> Key]
    BY ONLY <1>1, TypedIs
  <2> QED
    BY ONLY <2>1, <2>2, InnerFits(t.string, g, g[p], row, child), m = t.string[w]
<1>3. U = DOMAIN g /\ at = g[p] /\ str = t.string
  OBVIOUS
<1> HIDE DEF U, at, str
<1>4. InnerHalved(str, g, at, row, left, lefts, right, rights, w, m)
  BY ONLY <1>1, <1>2, Len(row) = 2 * DEGREE + 1, left = SubSeq(row, 1, DEGREE), lefts = SubSeq(child, 1, DEGREE + 1),
          right = SubSeq(row, DEGREE + 2, 2 * DEGREE + 1), rights = SubSeq(child, DEGREE + 2, 2 * DEGREE + 2),
          w = row[DEGREE + 1], InnerHalves
<1>5. Len(left) = DEGREE /\ Len(right) = DEGREE
  BY ONLY <1>4 DEF InnerHalved
<1>6. left \in Seq(Nat) /\ lefts \in Seq(Nat) /\ right \in Seq(Nat) /\ rights \in Seq(Nat)
  <2>1. Len(child) = 2 * DEGREE + 2
    <3>1. Len(child) = Len(row) + 1
      BY ONLY <1>2 DEF InnerFits
    <3> QED
      BY ONLY <3>1, Len(row) = 2 * DEGREE + 1, TreeAssumption
  <2>2. ASSUME NEW z, z \in Seq(Nat), NEW i, NEW j, i \in 1 .. Len(z) + 1, j \in 0 .. Len(z), i <= j + 1
        PROVE  SubSeq(z, i, j) \in Seq(Nat)
    BY ONLY <2>2, SubSeqIs
  <2>3. /\ 1 \in 1 .. Len(row) + 1 /\ DEGREE \in 0 .. Len(row) /\ 1 <= DEGREE + 1
        /\ 1 \in 1 .. Len(child) + 1 /\ DEGREE + 1 \in 0 .. Len(child) /\ 1 <= (DEGREE + 1) + 1
        /\ DEGREE + 2 \in 1 .. Len(row) + 1 /\ 2 * DEGREE + 1 \in 0 .. Len(row) /\ DEGREE + 2 <= (2 * DEGREE + 1) + 1
        /\ DEGREE + 2 \in 1 .. Len(child) + 1 /\ 2 * DEGREE + 2 \in 0 .. Len(child) /\ DEGREE + 2 <= (2 * DEGREE + 2) + 1
    BY ONLY <2>1, Len(row) = 2 * DEGREE + 1, TreeAssumption
  <2>4. left \in Seq(Nat)
    BY ONLY <2>2, <2>3, row \in Seq(Nat), left = SubSeq(row, 1, DEGREE)
  <2>5. lefts \in Seq(Nat)
    BY ONLY <2>2, <2>3, child \in Seq(Nat), lefts = SubSeq(child, 1, DEGREE + 1)
  <2>6. right \in Seq(Nat)
    BY ONLY <2>2, <2>3, row \in Seq(Nat), right = SubSeq(row, DEGREE + 2, 2 * DEGREE + 1)
  <2>7. rights \in Seq(Nat)
    BY ONLY <2>2, <2>3, child \in Seq(Nat), rights = SubSeq(child, DEGREE + 2, 2 * DEGREE + 2)
  <2> QED
    BY ONLY <2>4, <2>5, <2>6, <2>7
<1>7. InnerIsSplit(t, U, v, p, a, left, lefts, right, rights)
  BY ONLY <1>1, <1>6, a = NewNode(t), v = SplitInner(t, p, a, left, lefts, right, rights), InnerSplitsIs
<1>8. Good(v, g2, h, {y \in DOMAIN g : Covers(g, y, g[p].lev + 1, k)}, {w})
  <2>1. InnerHalved(t.string, g, g[p], row, left, lefts, right, rights, w, m)
    BY ONLY <1>3, <1>4
  <2>2. InnerIsSplit(t, DOMAIN g, v, p, a, left, lefts, right, rights)
    BY ONLY <1>3, <1>7
  <2> QED
    BY ONLY p \in DOMAIN g, Good(t, g, h, {p}, {s}), g[p].lev # 0, k \in Nat, g[p].lo <= k, k < g[p].hi,
            InnerFits(t.string, g, g[p], row, child), ToSet(row) = RowSet(t, p) \cup {s},
            <2>1, <2>2, g2 = SplitPlace(g, p, a, m), InnerSplitsGood
<1>9. /\ a \notin DOMAIN g /\ v.root_node = t.root_node /\ v.string = t.string
      /\ v.node[a].row = right /\ v.node[p].row = left
      /\ \A y \in DOMAIN g : y # p => v.node[y] = t.node[y]
  BY ONLY <1>1, <1>3, <1>7 DEF InnerIsSplit
<1>10. DOMAIN g2 = DOMAIN g \cup {a} /\ a # p /\ g2[a].lev = g[p].lev /\ g2[p].lev = g[p].lev
       /\ \A y \in DOMAIN g : y # p => g2[y] = g[y]
  <2>0. a \notin DOMAIN g
    BY ONLY <1>9
  <2>1. /\ DOMAIN g2 = DOMAIN g \cup {a} /\ a # p
        /\ g2[a] = [lev |-> g[p].lev, lo |-> m, hi |-> g[p].hi]
        /\ g2[p] = [lev |-> g[p].lev, lo |-> g[p].lo, hi |-> m]
        /\ \A y \in DOMAIN g : y # p => g2[y] = g[y]
    BY ONLY <2>0, p \in DOMAIN g, g2 = SplitPlace(g, p, a, m), Zenon DEF SplitPlace
  <2> QED
    BY ONLY <2>1
<1>11. Sized(v, g2, {})
  <2>1. /\ Len(v.node[a].row) <= 2 * DEGREE /\ Len(v.node[a].row) >= DEGREE /\ Len(v.node[a].row) >= 1
        /\ Len(v.node[p].row) <= 2 * DEGREE /\ Len(v.node[p].row) >= DEGREE /\ Len(v.node[p].row) >= 1
    BY ONLY <1>5, <1>9, TreeAssumption
  <2> QED
    BY ONLY <1>9, <1>10, <2>1, Sized(t, g, {}) DEF Sized
<1>12. KeysIn(v, g2) = KeysIn(t, g)
  <2>1. \A y : y \in DOMAIN g /\ g[y].lev = 0 <=> y \in DOMAIN g2 /\ g2[y].lev = 0
    BY ONLY <1>9, <1>10, p \in DOMAIN g, g[p].lev # 0
  <2>2. \A y \in DOMAIN g : g[y].lev = 0 => RowSet(v, y) = RowSet(t, y)
    BY ONLY <1>9, g[p].lev # 0 DEF RowSet
  <2> QED
    BY ONLY <2>1, <2>2, KeysSame
<1>13. Len(v.node[p].row) >= DEGREE
  BY ONLY <1>5, <1>9, TreeAssumption
<1> QED
  BY ONLY <1>8, <1>9, <1>11, <1>12, <1>13 DEF InnerParts

(* The separator that comes up from child c of b fits into b. *)
Enters(u, g2, b, e, row, child) ==
    /\ InnerFits(u.string, g2, g2[b], row, child)
    /\ ToSet(row) = RowSet(u, b) \cup {e.rid} /\ Len(row) = n(u, b) + 1
    /\ row \in Seq(Nat) /\ child \in Seq(Nat)

(* The row a split child hands up fits next to its row. *)
LEMMA EntersIs ==
    ASSUME NEW t, NEW g, NEW h, Good(t, g, h, {}, {}), NEW b, b \in DOMAIN g, g[b].lev # 0,
           NEW k, k \in Nat, g[b].lo <= k, k < g[b].hi, NEW c, c = ChildFor(t, b, k), Descends(g, b, c, k),
           NEW u, NEW g2, NEW e, UpStays(t, g, c, u, g2), Parted(t, g, h, c, k, u, g2, e),
           NEW row, row = InsertAt(t.node[b].row, find_index(t, b, k) + 1, e.rid),
           NEW child, child = InsertAt(t.node[b].child, find_index(t, b, k) + 2, e.addr)
    PROVE  Enters(u, g2, b, e, row, child)
<1> DEFINE at == g[b]
           str == t.string
           str2 == u.string
           old == t.node[b].row
           kids == t.node[b].child
           i == find_index(t, b, k)
           j == i + 1
           a == e.addr
           x == e.rid
<1>1. /\ Tiled(g, h, MaxKey) /\ Typed(t) /\ ~t.node[b].leaf /\ NodeFits(t, g, b) /\ b \in DOMAIN t.node
  BY DEF Good
<1>2. /\ Ordered(g) /\ at \in Place /\ at.lo < at.hi /\ InnerFits(str, g, at, old, kids)
      /\ \A y \in DOMAIN g : g[y].lev \in Nat
  <2>1. Ordered(g) /\ g[b] \in Place /\ g[b].lo < g[b].hi /\ \A y \in DOMAIN g : g[y].lev \in Nat
    BY ONLY <1>1, b \in DOMAIN g, TiledIs
  <2> QED
    BY ONLY <1>1, <2>1, g[b].lev # 0 DEF NodeFits
<1>3. at = g[b] /\ str = t.string /\ str2 = u.string /\ old = t.node[b].row /\ kids = t.node[b].child
      /\ i = find_index(t, b, k) /\ j = i + 1 /\ a = e.addr /\ x = e.rid
  OBVIOUS
<1>4. str \in [DOMAIN str -> Key]
  BY ONLY <1>1, TypedIs
<1> HIDE DEF at, str, str2, old, kids, i, j, a, x
<1>5. c \in DOMAIN g /\ g[c].lev + 1 = g[b].lev /\ b # c /\ g[b].lev >= g[c].lev
  <2>1. c \in DOMAIN g /\ g[c].lev + 1 = g[b].lev
    BY ONLY Descends(g, b, c, k) DEF Descends, Under
  <2>2. g[c].lev \in Nat /\ g[b].lev \in Nat
    BY ONLY <1>2, <2>1, b \in DOMAIN g
  <2> QED
    BY ONLY <2>1, <2>2
<1>6. /\ DOMAIN g \subseteq DOMAIN g2 /\ g2[b] = g[b] /\ u.node[b] = t.node[b]
      /\ \A s \in DOMAIN str : s \in DOMAIN str2 /\ str2[s] = str[s]
      /\ \A y \in DOMAIN g : y # c /\ g[y].lev >= g[c].lev => g2[y] = g[y]
  BY ONLY <1>3, <1>5, b \in DOMAIN g, UpStays(t, g, c, u, g2) DEF UpStays
<1>7. /\ a \in DOMAIN g2 /\ a \notin DOMAIN g /\ x \in DOMAIN str2 /\ x \in Nat /\ a \in Nat
      /\ g2[c] = [lev |-> g[c].lev, lo |-> g[c].lo, hi |-> str2[x]]
      /\ g2[a] = [lev |-> g[c].lev, lo |-> str2[x], hi |-> g[c].hi]
  <2> DEFINE X == {y \in DOMAIN g : Covers(g, y, g[c].lev + 1, k)}
  <2>1. /\ a \in DOMAIN g2 /\ a \notin DOMAIN g
        /\ g2[c] = [lev |-> g[c].lev, lo |-> g[c].lo, hi |-> str2[x]]
        /\ g2[a] = [lev |-> g[c].lev, lo |-> str2[x], hi |-> g[c].hi]
        /\ Good(u, g2, h, X, {x})
    BY ONLY <1>3, Parted(t, g, h, c, k, u, g2, e) DEF Parted
  <2> HIDE DEF X
  <2>2. Typed(u) /\ Owned(u, g2, {x}) /\ DOMAIN g2 \subseteq DOMAIN u.node
    BY ONLY <2>1 DEF Good
  <2>3. x \in DOMAIN str2
    BY ONLY <1>3, <2>2 DEF Owned
  <2>4. DOMAIN u.string \subseteq Nat /\ DOMAIN u.node \subseteq Nat
    BY ONLY <2>2, TypedIs
  <2> QED
    BY ONLY <1>3, <2>1, <2>2, <2>3, <2>4
<1>8. /\ i \in 0 .. n(t, b) /\ j \in 1 .. Len(kids) /\ c = kids[j]
  <2>1. ~t.node[b].leaf /\ Ordered(g) /\ at \in Place
        /\ InnerFits(t.string, g, at, t.node[b].row, t.node[b].child)
        /\ t.string \in [DOMAIN t.string -> Key] /\ at.lo <= k /\ k < at.hi
    BY ONLY <1>1, <1>2, <1>3, <1>4, g[b].lo <= k, k < g[b].hi
  <2>2. Routed(t, g, b, k, find_index(t, b, k))
    BY ONLY <2>1, k \in Nat, FindIndex
  <2> QED
    BY ONLY <1>3, <2>2, c = ChildFor(t, b, k) DEF Routed
<1>9. /\ old \in Seq(DOMAIN str) /\ kids \in Seq(DOMAIN g) /\ Len(kids) = Len(old) + 1 /\ Len(old) \in Nat
      /\ \A m \in 1 .. Len(kids) : g[kids[m]].lev + 1 = at.lev
  BY ONLY <1>2 DEF InnerFits
<1>10. /\ \A s \in ToSet(old) : s \in DOMAIN str2 /\ str2[s] = str[s]
       /\ \A y \in ToSet(kids) : y \in DOMAIN g2 /\ (y # kids[j] => g2[y] = g[y])
  <2>1. \A s \in ToSet(old) : s \in DOMAIN str
    BY ONLY <1>9, ToSetIs
  <2>2. \A y \in ToSet(kids) : y \in DOMAIN g /\ g[y].lev + 1 = at.lev
    BY ONLY <1>9, ToSetIs
  <2>3. ASSUME NEW y, y \in ToSet(kids) PROVE g[y].lev >= g[c].lev
    <3>1. g[y].lev + 1 = g[c].lev + 1 /\ g[y].lev \in Nat /\ g[c].lev \in Nat
      BY ONLY <1>2, <1>3, <1>5, <2>2, <2>3
    <3> QED
      BY ONLY <3>1
  <2> QED
    BY ONLY <1>6, <1>8, <2>1, <2>2, <2>3
<1>11. PutsAt(str, g, old, kids, str2, g2, j, a, x)
  BY ONLY <1>7, <1>8, <1>10 DEF PutsAt
<1>12. row = InsertAt(old, j, x) /\ child = InsertAt(kids, j + 1, a)
  <2>1. find_index(t, b, k) + 2 = j + 1
    <3>1. i \in Int
      BY ONLY <1>8, <1>9, <1>3 DEF n
    <3> QED
      BY ONLY <1>3, <3>1
  <2> QED
    BY ONLY <1>3, <2>1, row = InsertAt(t.node[b].row, find_index(t, b, k) + 1, e.rid),
            child = InsertAt(t.node[b].child, find_index(t, b, k) + 2, e.addr)
<1>13. InnerFits(str2, g2, at, row, child)
  BY ONLY <1>2, <1>11, <1>12, FitsPut
<1>14. old \in Seq(Nat) /\ kids \in Seq(Nat)
  BY ONLY <1>1, <1>3, NodeIs
<1>15. row \in Seq(Nat) /\ Len(row) = Len(old) + 1 /\ ToSet(row) = ToSet(old) \cup {x}
  <2>1. j \in 1 .. Len(old) + 1 /\ x \in Nat
    BY ONLY <1>7, <1>8, <1>9
  <2> QED
    BY ONLY <1>12, <1>14, <2>1, InsertAtIs
<1>16. child \in Seq(Nat)
  <2> DEFINE jj == j + 1
  <2>1. jj \in 1 .. Len(kids) + 1 /\ a \in Nat
    BY ONLY <1>7, <1>8, <1>9
  <2>2. child = InsertAt(kids, jj, a)
    BY ONLY <1>12
  <2> HIDE DEF jj
  <2> QED
    BY ONLY <1>14, <2>1, <2>2, InsertAtIs
<1> QED
  BY ONLY <1>3, <1>6, <1>13, <1>15, <1>16 DEF Enters, RowSet, n

-----------------------------------------------------------------------------
(* Deletions. *)

(* One level up. *)
LEMMA PutAboveIs ==
    ASSUME NEW t, NEW g, NEW h, Good(t, g, h, {}, {}), NEW b, b \in DOMAIN g, g[b].lev # 0,
           NEW k, k \in Nat, g[b].lo <= k, k < g[b].hi, NEW c, c = ChildFor(t, b, k), NEW r, Inserted(t, g, h, c, k, r),
           NEW q, q = PutAbove(t, b, k, r)
    PROVE  Inserted(t, g, h, b, k, q)
<1> DEFINE u == r.tree
           e == r.entry
           v == q.tree
           K == KeysIn(t, g) \cup {k}
<1>1. PICK g2 : /\ Sized(u, g2, {}) /\ KeysIn(u, g2) = K
                /\ UpStays(t, g, c, u, g2)
                /\ e = NoEntry => Good(u, g2, h, {}, {}) /\ g2[c] = g[c]
                /\ e # NoEntry => Parted(t, g, h, c, k, u, g2, e)
  BY DEF Inserted
<1>2. Descends(g, b, c, k)
  BY ONLY Good(t, g, h, {}, {}), b \in DOMAIN g, g[b].lev # 0, k \in Nat, g[b].lo <= k, k < g[b].hi,
          c = ChildFor(t, b, k), ChildCovers
<1>3. Tiled(g, h, MaxKey) /\ h \in Nat /\ \A y \in DOMAIN g : g[y].lev \in Nat
  <2>1. Tiled(g, h, MaxKey)
    BY DEF Good
  <2> QED
    BY ONLY <2>1, TiledIs
<1>4. /\ c \in DOMAIN g /\ g[c].lev + 1 = g[b].lev /\ g[c].lev \in Nat /\ g[b].lev \in Nat
      /\ g[c].lev < g[b].lev /\ b # c /\ g[b].lev >= g[c].lev
  <2>1. c \in DOMAIN g /\ g[c].lev + 1 = g[b].lev
    BY ONLY <1>2 DEF Descends, Under
  <2>2. g[c].lev \in Nat /\ g[b].lev \in Nat
    BY ONLY <1>3, <2>1, b \in DOMAIN g
  <2> QED
    BY ONLY <2>1, <2>2
<1>5. /\ DOMAIN g \subseteq DOMAIN g2 /\ g2[b] = g[b] /\ u.node[b] = t.node[b] /\ b \in DOMAIN g2
      /\ \A y \in DOMAIN g2 : y \notin DOMAIN g => g2[y].lev <= g[c].lev
      /\ \A y \in DOMAIN g : y # c /\ g[y].lev >= g[c].lev => g2[y] = g[y]
      /\ \A y \in DOMAIN g : g2[y].lev = g[y].lev
  BY ONLY <1>1, <1>4, b \in DOMAIN g DEF UpStays
<1>6. u = r.tree /\ e = r.entry /\ v = q.tree
  OBVIOUS
<1> HIDE DEF u, e, v, K
<1>7. CASE e = NoEntry
  <2>1. q = r
    BY ONLY <1>6, <1>7, q = PutAbove(t, b, k, r) DEF PutAbove
  <2>2. Good(u, g2, h, {}, {})
    BY ONLY <1>1, <1>7
  <2>3. \A y \in DOMAIN g2 : g2[y].lev \in Nat
    <3>1. Tiled(g2, h, MaxKey)
      BY ONLY <2>2 DEF Good
    <3> QED
      BY ONLY <3>1, TiledIs
  <2>4. UpStays(u, g2, b, u, g2)
    BY ONLY DEF UpStays
  <2>5. UpStays(t, g, b, u, g2)
    BY ONLY <1>1, <1>3, <1>4, <1>5, <2>3, <2>4, b \in DOMAIN g, UpStaysOn
  <2>6. r.entry = NoEntry
    BY ONLY <1>6, <1>7
  <2> QED
    BY ONLY <1>1, <1>5, <1>6, <2>1, <2>2, <2>5, <2>6 DEF Inserted, K
<1>8. CASE e # NoEntry
  <2> DEFINE row == InsertAt(t.node[b].row, find_index(t, b, k) + 1, e.rid)
             child == InsertAt(t.node[b].child, find_index(t, b, k) + 2, e.addr)
             s == e.rid
  <2>1. Parted(t, g, h, c, k, u, g2, e)
    BY ONLY <1>1, <1>8
  <2>2. Enters(u, g2, b, e, row, child)
    <3>1. UpStays(t, g, c, u, g2)
      BY ONLY <1>1
    <3>2. row = InsertAt(t.node[b].row, find_index(t, b, k) + 1, e.rid)
      OBVIOUS
    <3>3. child = InsertAt(t.node[b].child, find_index(t, b, k) + 2, e.addr)
      OBVIOUS
    <3> HIDE DEF row, child, s
    <3> QED
      BY ONLY Good(t, g, h, {}, {}), b \in DOMAIN g, g[b].lev # 0, k \in Nat, g[b].lo <= k, k < g[b].hi,
              c = ChildFor(t, b, k), <1>2, <2>1, <3>1, <3>2, <3>3, EntersIs
  <2>3. Good(u, g2, h, {b}, {s})
    <3>1. {y \in DOMAIN g : Covers(g, y, g[c].lev + 1, k)} = {b}
      <4>1. Covers(g, b, g[c].lev + 1, k)
        BY ONLY <1>4, g[b].lo <= k, k < g[b].hi DEF Covers
      <4>2. ASSUME NEW y, y \in DOMAIN g, Covers(g, y, g[c].lev + 1, k) PROVE y = b
        <5>1. g[y].lev = g[b].lev /\ g[y].lo <= k /\ k < g[y].hi
          BY ONLY <1>4, <4>2 DEF Covers
        <5> QED
          BY ONLY <1>3, <5>1, y \in DOMAIN g, b \in DOMAIN g, k \in Nat, g[b].lo <= k, k < g[b].hi, OnlyOne
      <4> QED
        BY ONLY <4>1, <4>2, b \in DOMAIN g
    <3> QED
      BY ONLY <2>1, <3>1 DEF Parted
  <2>4. \A y \in DOMAIN g2 : g2[y].lev \in Nat
    <3>1. Tiled(g2, h, MaxKey)
      BY ONLY <2>3 DEF Good
    <3> QED
      BY ONLY <3>1, TiledIs
  <2>5. /\ InnerFits(u.string, g2, g2[b], row, child) /\ ToSet(row) = RowSet(u, b) \cup {s}
        /\ Len(row) = n(u, b) + 1 /\ row \in Seq(Nat) /\ child \in Seq(Nat)
    BY ONLY <2>2 DEF Enters
  <2> DEFINE i == find_index(t, b, k)
             a == NewNode(u)
             left == SubSeq(row, 1, DEGREE)
             lefts == SubSeq(child, 1, DEGREE + 1)
             right == SubSeq(row, DEGREE + 2, 2 * DEGREE + 1)
             rights == SubSeq(child, DEGREE + 2, 2 * DEGREE + 2)
             w == row[DEGREE + 1]
             m == u.string[w]
  <2>6. q = PutInInner(u, b, i, e)
    BY ONLY <1>6, <1>8, q = PutAbove(t, b, k, r) DEF PutAbove
  <2>7. row = InsertAt(u.node[b].row, i + 1, e.rid) /\ child = InsertAt(u.node[b].child, i + 2, e.addr)
    BY ONLY <1>5
  <2> HIDE DEF row, child, s, i
  <2>8. /\ Len(row) <= 2 * DEGREE => v = WithInner(u, b, row, child) /\ q.entry = NoEntry
        /\ ~(Len(row) <= 2 * DEGREE) => /\ v = SplitInner(u, b, a, left, lefts, right, rights)
                                        /\ q.entry = [addr |-> a, rid |-> w]
    <3>1. Overfull(row) <=> ~(Len(row) <= 2 * DEGREE)
      <4>1. Len(row) \in Nat /\ 2 * DEGREE \in Nat
        BY ONLY <2>5, TreeAssumption
      <4> QED
        BY ONLY <4>1 DEF Overfull
    <3>2. CASE ~Overfull(row)
      <4>1. q = [tree |-> [u EXCEPT !.node[b].row = row, !.node[b].child = child], entry |-> NoEntry]
        BY ONLY <2>6, <2>7, <3>2 DEF PutInInner
      <4> QED
        BY ONLY <1>6, <3>1, <3>2, <4>1 DEF WithInner
    <3>3. CASE Overfull(row)
      <4>1. q = [tree |-> [TakeNode(u) EXCEPT
                             !.node[a] = BNode(FALSE, right, rights, NoNode),
                             !.node[b].row = left,
                             !.node[b].child = lefts],
                 entry |-> [addr |-> a, rid |-> w]]
        BY ONLY <2>6, <2>7, <3>3 DEF PutInInner
      <4> HIDE DEF a, left, lefts, right, rights, w
      <4> QED
        BY ONLY <1>6, <3>1, <3>3, <4>1 DEF SplitInner
    <3> QED
      BY ONLY <3>2, <3>3
  <2>9. g2[b].lev # 0 /\ k \in Nat /\ g2[b].lo <= k /\ k < g2[b].hi /\ b \in DOMAIN g2
    BY ONLY <1>5, g[b].lev # 0, k \in Nat, g[b].lo <= k, k < g[b].hi
  <2>10. Sized(u, g2, {})
    BY ONLY <1>1
  <2>11. a = NewNode(u) /\ left = SubSeq(row, 1, DEGREE) /\ lefts = SubSeq(child, 1, DEGREE + 1)
         /\ right = SubSeq(row, DEGREE + 2, 2 * DEGREE + 1) /\ rights = SubSeq(child, DEGREE + 2, 2 * DEGREE + 2)
         /\ w = row[DEGREE + 1] /\ m = u.string[w]
    OBVIOUS
  <2> HIDE DEF a, left, lefts, right, rights, w, m
  <2>12. CASE Len(row) <= 2 * DEGREE
    <3>1. v = WithInner(u, b, row, child) /\ q.entry = NoEntry
      BY ONLY <2>8, <2>12
    <3>2. InnerTakes(u, g2, h, b, row, child, v)
      BY ONLY <2>3, <2>5, <2>9, <2>10, <2>12, <3>1, InnerTakesIs
    <3>3. /\ Good(v, g2, h, {}, {}) /\ Sized(v, g2, {}) /\ KeysIn(v, g2) = K
      BY ONLY <1>1, <3>2 DEF InnerTakes
    <3>4. UpStays(u, g2, b, v, g2)
      <4>1. DOMAIN g2 \subseteq DOMAIN u.node
        BY ONLY <2>3 DEF Good
      <4> QED
        BY ONLY <3>2, <4>1 DEF InnerTakes, OnlyInner, UpStays
    <3>5. UpStays(t, g, b, v, g2)
      BY ONLY <1>1, <1>3, <1>4, <1>5, <2>4, <3>4, b \in DOMAIN g, UpStaysOn
    <3> QED
      BY ONLY <1>5, <1>6, <3>1, <3>3, <3>5 DEF Inserted, K
  <2>13. CASE ~(Len(row) <= 2 * DEGREE)
    <3> DEFINE g3 == SplitPlace(g2, b, a, m)
               d == q.entry
    <3>1. v = SplitInner(u, b, a, left, lefts, right, rights) /\ q.entry = [addr |-> a, rid |-> w]
      BY ONLY <2>8, <2>13
    <3>2. Len(row) = 2 * DEGREE + 1
      <4>1. n(u, b) <= 2 * DEGREE
        BY ONLY <2>9, <2>10 DEF Sized, n
      <4>2. Typed(u) /\ b \in DOMAIN u.node
        BY ONLY <2>3, <2>9 DEF Good
      <4>3. n(u, b) \in Nat
        BY ONLY <4>2, NodeIs DEF n
      <4>4. Len(row) = n(u, b) + 1 /\ ~(Len(row) <= 2 * DEGREE)
        BY ONLY <2>5, <2>13
      <4> DEFINE L == Len(row)
                 N == n(u, b)
                 D == 2 * DEGREE
      <4>5. D \in Nat
        BY ONLY TreeAssumption
      <4>6. N \in Nat /\ N <= D /\ L = N + 1 /\ ~(L <= D)
        BY ONLY <4>1, <4>3, <4>4
      <4> HIDE DEF L, N, D
      <4>7. L = D + 1
        BY ONLY <4>5, <4>6
      <4> QED
        BY ONLY <4>7 DEF L, D
    <3>3. g3 = SplitPlace(g2, b, a, m)
      OBVIOUS
    <3>4. v = SplitInner(u, b, a, left, lefts, right, rights)
      BY ONLY <3>1
    <3> HIDE DEF g3, d
    <3>5. InnerParts(u, g2, h, b, k, v, g3, a, w, m)
      BY ONLY <2>3, <2>5, <2>9, <2>10, <2>11, <3>2, <3>3, <3>4, InnerPartsIs
    <3>6. /\ Good(v, g3, h, {y \in DOMAIN g2 : Covers(g2, y, g2[b].lev + 1, k)}, {w})
          /\ Sized(v, g3, {}) /\ KeysIn(v, g3) = K
          /\ a \notin DOMAIN g2 /\ v.string = u.string /\ v.root_node = u.root_node /\ Len(v.node[b].row) >= DEGREE
          /\ \A y \in DOMAIN g2 : y # b => v.node[y] = u.node[y]
      BY ONLY <1>1, <3>5 DEF InnerParts
    <3>7. /\ DOMAIN g3 = DOMAIN g2 \cup {a} /\ a # b
          /\ g3[a] = [lev |-> g2[b].lev, lo |-> m, hi |-> g2[b].hi]
          /\ g3[b] = [lev |-> g2[b].lev, lo |-> g2[b].lo, hi |-> m]
          /\ \A y \in DOMAIN g2 : y # b => g3[y] = g2[y]
      <4>1. a \notin DOMAIN g2
        BY ONLY <3>6
      <4> QED
        BY ONLY <3>3, <4>1, <2>9, Zenon DEF SplitPlace
    <3>8. UpStays(u, g2, b, v, g3)
      <4>1. g3[a].lev <= g2[b].lev /\ \A y \in DOMAIN g2 : g3[y].lev = g2[y].lev
        <5>1. g3[a].lev = g2[b].lev /\ g3[b].lev = g2[b].lev
          BY ONLY <3>7
        <5>2. g2[b].lev \in Nat
          BY ONLY <2>4, <2>9
        <5> QED
          BY ONLY <3>7, <5>1, <5>2
      <4> QED
        BY ONLY <3>6, <3>7, <4>1 DEF UpStays
    <3>9. UpStays(t, g, b, v, g3)
      BY ONLY <1>1, <1>3, <1>4, <1>5, <2>4, <3>8, b \in DOMAIN g, UpStaysOn
    <3>10. {y \in DOMAIN g2 : Covers(g2, y, g2[b].lev + 1, k)} = {y \in DOMAIN g : Covers(g, y, g[b].lev + 1, k)}
      <4>1. ASSUME NEW y, y \in DOMAIN g2, g2[y].lev = g[b].lev + 1 PROVE y \in DOMAIN g
        <5>1. ~(g[b].lev + 1 <= g[c].lev)
          BY ONLY <1>4
        <5> QED
          BY ONLY <1>5, <4>1, <5>1
      <4>2. ASSUME NEW y, y \in DOMAIN g, g[y].lev = g[b].lev + 1 PROVE y \in DOMAIN g2 /\ g2[y] = g[y]
        <5>1. y # c /\ g[y].lev >= g[c].lev
          BY ONLY <1>4, <4>2
        <5> QED
          BY ONLY <1>5, <4>2, <5>1
      <4> QED
        BY ONLY <1>5, <4>1, <4>2 DEF Covers
    <3>11. d.addr = a /\ d.rid = w /\ d # NoEntry
      <4>1. d.addr = a /\ d.rid = w
        BY ONLY <3>1 DEF d
      <4>2. a \in Nat
        <5>2. Typed(v) /\ a \in DOMAIN v.node
          BY ONLY <3>6, <3>7 DEF Good
        <5> QED
          BY ONLY <5>2, TypedIs
      <4> QED
        BY ONLY <4>1, <4>2 DEF NoEntry, NoNode
    <3>12. Parted(t, g, h, b, k, v, g3, d)
      <4>1. v.string[d.rid] = m /\ a \notin DOMAIN g
        BY ONLY <1>5, <2>11, <3>6, <3>11
      <4>2. Good(v, g3, h, {y \in DOMAIN g : Covers(g, y, g[b].lev + 1, k)}, {d.rid})
        BY ONLY <3>6, <3>10, <3>11
      <4> QED
        BY ONLY <1>5, <3>6, <3>7, <3>11, <4>1, <4>2 DEF Parted
    <3> QED
      BY ONLY <1>6, <3>6, <3>9, <3>11, <3>12 DEF Inserted, K, d
  <2> QED
    BY ONLY <2>12, <2>13
<1> QED
  BY ONLY <1>7, <1>8

(* tree_insert, called with a node in whose range the key is, inserts it   *)
(* below that node.                                                        *)
LEMMA TreeInsertIs ==
    ASSUME NEW t, NEW g, NEW h, Good(t, g, h, {}, {}), Sized(t, g, {}), NEW k, k \in Key, k \notin KeysIn(t, g),
           NEW b, b \in DOMAIN g, g[b].lo <= k, k < g[b].hi, NEW r, r = tree_insert(t, b, k)
    PROVE  Inserted(t, g, h, b, k, r)
<1> DEFINE N == t.length
<1>1. h \in Nat /\ N \in Nat /\ h < N
  BY ONLY Good(t, g, h, {}, {}), HeightFits
<1>2. PICK f : (\A m \in 0 .. t.length : f[m] = PutTurn(t, k, m, f[m - 1])) /\ tree_insert(t, b, k) = f[t.length][b]
  BY ONLY <1>1, PutIs
<1>3. /\ Tiled(g, h, MaxKey) /\ DOMAIN g \subseteq DOMAIN t.node
      /\ \A x \in DOMAIN g : t.node[x].leaf <=> g[x].lev = 0
  BY DEF Good
<1>4. \A x \in DOMAIN g : g[x].lev \in Nat /\ g[x].lev <= h
  <2>1. h \in Nat /\ \A x \in DOMAIN g : g[x].lev \in 0 .. h
    BY ONLY <1>3, TiledIs
  <2> QED
    BY ONLY <2>1
<1>5. k \in Nat
  BY ONLY k \in Key DEF Key
<1> DEFINE Done == {m \in 0 .. N : \A x \in DOMAIN g : g[x].lev <= m /\ g[x].lo <= k /\ k < g[x].hi
                                                         => Inserted(t, g, h, x, k, f[m][x])}
<1>6. ASSUME NEW m, m \in 0 .. N, NEW x, x \in DOMAIN g, g[x].lev = 0, g[x].lo <= k, k < g[x].hi
      PROVE  Inserted(t, g, h, x, k, f[m][x])
  <2> DEFINE q == f[m][x]
  <2>1. k \notin RowSet(t, x)
    BY ONLY <1>6, k \notin KeysIn(t, g) DEF KeysIn
  <2>2. q = PutInLeaf(t, x, k)
    <3>1. f[m] = PutTurn(t, k, m, f[m - 1])
      BY ONLY <1>2, m \in 0 .. N
    <3>2. x \in DOMAIN t.node /\ t.node[x].leaf
      BY ONLY <1>3, <1>6
    <3> QED
      BY ONLY <3>1, <3>2 DEF PutTurn
  <2> HIDE DEF q
  <2>3. Inserted(t, g, h, x, k, q)
    BY ONLY Good(t, g, h, {}, {}), Sized(t, g, {}), <1>6, k \in Key, <2>1, <2>2, PutInLeafIs
  <2> QED
    BY ONLY <2>3 DEF q
<1>7. 0 \in Done
  <2>1. 0 \in 0 .. N
    BY ONLY <1>1
  <2>2. ASSUME NEW x, x \in DOMAIN g, g[x].lev <= 0, g[x].lo <= k, k < g[x].hi PROVE Inserted(t, g, h, x, k, f[0][x])
    <3>1. g[x].lev = 0
      BY ONLY <1>4, <2>2
    <3> QED
      BY ONLY <1>6, <2>1, <2>2, <3>1
  <2> QED
    BY ONLY <2>1, <2>2
<1>8. ASSUME NEW m \in 0 .. N - 1, m \in Done PROVE m + 1 \in Done
  <2>1. m \in Nat /\ m + 1 \in 0 .. N /\ (m + 1) - 1 = m /\ m + 1 # 0
    BY ONLY <1>1, m \in 0 .. N - 1
  <2>2. ASSUME NEW x, x \in DOMAIN g, g[x].lev <= m + 1, g[x].lo <= k, k < g[x].hi, g[x].lev # 0
        PROVE  Inserted(t, g, h, x, k, f[m + 1][x])
    <3> DEFINE c == ChildFor(t, x, k)
               q == f[m + 1][x]
               below == f[m][c]
    <3>1. Descends(g, x, c, k)
      BY ONLY Good(t, g, h, {}, {}), <2>2, <1>5, ChildCovers
    <3>2. f[m + 1] = PutTurn(t, k, m + 1, f[m])
      BY ONLY <1>2, <2>1
    <3>3. q = PutAbove(t, x, k, below)
      BY ONLY <1>3, <2>1, <2>2, <3>2 DEF PutTurn
    <3>4. c = ChildFor(t, x, k)
      OBVIOUS
    <3> HIDE DEF c, q
    <3>5. c \in DOMAIN g /\ g[c].lev <= m /\ g[c].lo <= k /\ k < g[c].hi
      BY ONLY <1>4, <2>1, <2>2, <3>1 DEF Descends, Under
    <3>6. Inserted(t, g, h, c, k, below)
      BY ONLY <1>8, <3>5
    <3> HIDE DEF below
    <3>7. Inserted(t, g, h, x, k, q)
      BY ONLY Good(t, g, h, {}, {}), <2>2, <1>5, <3>3, <3>4, <3>6, PutAboveIs
    <3> QED
      BY ONLY <3>7 DEF q
  <2>3. ASSUME NEW x, x \in DOMAIN g, g[x].lev <= m + 1, g[x].lo <= k, k < g[x].hi
        PROVE  Inserted(t, g, h, x, k, f[m + 1][x])
    BY ONLY <1>6, <2>1, <2>2, <2>3
  <2> QED
    BY ONLY <2>1, <2>3
<1>9. N \in Done
  <2> HIDE DEF Done
  <2>1. \A m \in 0 .. N : m \in Done
    BY ONLY <1>1, <1>7, <1>8, AllNat
  <2> QED
    BY ONLY <1>1, <2>1
<1>10. g[b].lev <= N
  BY ONLY <1>1, <1>4, b \in DOMAIN g
<1>11. Inserted(t, g, h, b, k, f[N][b])
  BY ONLY <1>9, <1>10, b \in DOMAIN g, g[b].lo <= k, k < g[b].hi
<1> QED
  BY ONLY <1>2, <1>11, r = tree_insert(t, b, k)

(* The whole tree: the root stands for all keys. *)
Whole(t, g, h) ==
    /\ Good(t, g, h, {}, {}) /\ Sized(t, g, {})
    /\ g[t.root_node] = [lev |-> h, lo |-> 0, hi |-> MaxKey + 1]

(* The places of the tree v, in which the keys are K. *)
Becomes(v, K) == \E g, h : Whole(v, g, h) /\ KeysIn(v, g) = K

(* The root of a tree is in it, and every key is in its range. *)
LEMMA RootIs ==
    ASSUME NEW t, NEW g, NEW h, Whole(t, g, h)
    PROVE  /\ t.root_node \in DOMAIN g /\ h \in Nat /\ g[t.root_node].lev = h
           /\ \A k \in Key : k \in Nat /\ g[t.root_node].lo <= k /\ k < g[t.root_node].hi
<1>1. t.root_node \in DOMAIN g /\ Tiled(g, h, MaxKey) /\ g[t.root_node] = [lev |-> h, lo |-> 0, hi |-> MaxKey + 1]
  BY DEF Whole, Good
<1>2. h \in Nat
  BY ONLY <1>1, TiledIs
<1>3. g[t.root_node].lev = h /\ g[t.root_node].lo = 0 /\ g[t.root_node].hi = MaxKey + 1
  BY ONLY <1>1
<1>4. \A k \in Key : k \in Nat /\ 0 <= k /\ k < MaxKey + 1
  BY ONLY TreeAssumption DEF Key
<1> QED
  BY ONLY <1>1, <1>2, <1>3, <1>4

(* The new root above the halves of the old one. *)
LEMMA RootGrows ==
    ASSUME NEW t, NEW g, NEW h, Whole(t, g, h), NEW k, NEW u, NEW g2, NEW e,
           UpStays(t, g, t.root_node, u, g2), Parted(t, g, h, t.root_node, k, u, g2, e), Sized(u, g2, {}),
           NEW v, v = NewRoot(u, e)
    PROVE  Becomes(v, KeysIn(u, g2))
<1> DEFINE r == t.root_node
           s == e.rid
           d == e.addr
           m == u.string[s]
           a == NewNode(u)
           U == DOMAIN g2
           g3 == Above(g2, h, a, MaxKey)
           h2 == h + 1
<1>1. r \in DOMAIN g /\ h \in Nat /\ Tiled(g, h, MaxKey) /\ g[r].lev = h /\ g[r].lo = 0 /\ g[r].hi = MaxKey + 1
  <2>1. r \in DOMAIN g /\ Tiled(g, h, MaxKey) /\ g[r] = [lev |-> h, lo |-> 0, hi |-> MaxKey + 1]
    BY ONLY Whole(t, g, h) DEF Whole, Good
  <2>2. h \in Nat
    BY ONLY <2>1, TiledIs
  <2> QED
    BY ONLY <2>1, <2>2
<1>2. u.root_node = r
  BY ONLY UpStays(t, g, t.root_node, u, g2) DEF UpStays
<1>3. /\ d \in DOMAIN g2 /\ d \notin DOMAIN g /\ Len(u.node[r].row) >= DEGREE
      /\ g2[r] = [lev |-> g[r].lev, lo |-> g[r].lo, hi |-> m]
      /\ g2[d] = [lev |-> g[r].lev, lo |-> m, hi |-> g[r].hi]
      /\ Good(u, g2, h, {y \in DOMAIN g : Covers(g, y, g[r].lev + 1, k)}, {s})
  BY ONLY Parted(t, g, h, t.root_node, k, u, g2, e) DEF Parted
<1>4. {y \in DOMAIN g : Covers(g, y, g[r].lev + 1, k)} = {}
  <2>1. ASSUME NEW y, y \in DOMAIN g, g[y].lev = h + 1 PROVE FALSE
    <3>1. g[y].lev \in 0 .. h
      BY ONLY <1>1, <2>1, TiledIs
    <3> QED
      BY ONLY <1>1, <2>1, <3>1
  <2> QED
    BY ONLY <1>1, <2>1 DEF Covers
<1>5. Good(u, g2, h, {}, {s})
  BY ONLY <1>3, <1>4
<1>6. g2[r] = [lev |-> h, lo |-> 0, hi |-> m] /\ g2[d] = [lev |-> h, lo |-> m, hi |-> MaxKey + 1]
  BY ONLY <1>1, <1>3
<1>7. Typed(u) /\ Spare(u, U) /\ d \in Nat /\ s \in Nat /\ r \in U /\ DOMAIN g2 \subseteq DOMAIN u.node
  <2>1. Typed(u) /\ Spare(u, DOMAIN g2) /\ DOMAIN g2 \subseteq DOMAIN u.node /\ s \in DOMAIN u.string
        /\ u.root_node \in DOMAIN g2
    BY ONLY <1>5 DEF Good, Owned
  <2>2. DOMAIN u.node \subseteq Nat /\ DOMAIN u.string \subseteq Nat
    BY ONLY <2>1, TypedIs
  <2> QED
    BY ONLY <1>2, <1>3, <2>1, <2>2
<1>8. a = NewNode(u) /\ g3 = Above(g2, h, a, MaxKey) /\ h2 = h + 1 /\ r = t.root_node /\ m = u.string[s] /\ U = DOMAIN g2
  OBVIOUS
<1>9. d = e.addr /\ s = e.rid
  OBVIOUS
<1> HIDE DEF r, s, d, m, a, U, g3, h2
<1>10. e.addr \in Nat /\ e.rid \in Nat
  BY ONLY <1>7, <1>9
<1>11. RootIsNew(u, v, U, a, e.addr, e.rid)
  <2>1. a = NewNode(u)
    BY ONLY <1>8
  <2>2. Typed(u) /\ Spare(u, U)
    BY ONLY <1>7
  <2> QED
    BY ONLY <1>10, <2>1, <2>2, v = NewRoot(u, e), NewRootIs
<1>12. /\ Typed(v) /\ Spare(v, DOMAIN g2 \cup {a}) /\ a \notin DOMAIN g2
       /\ DOMAIN v.node = DOMAIN u.node \cup {a} /\ v.root_node = a /\ v.string = u.string
       /\ v.node[a].leaf = FALSE /\ v.node[a].row = <<s>> /\ v.node[a].child = <<r, d>>
       /\ \A y \in DOMAIN u.node : y # a => v.node[y] = u.node[y]
  BY ONLY <1>2, <1>8, <1>9, <1>11 DEF RootIsNew
<1>13. Good(v, g3, h2, {}, {})
  <2>1. r = u.root_node /\ d \in DOMAIN g2
    BY ONLY <1>2, <1>3
  <2>2. m = u.string[s]
    BY ONLY <1>8
  <2>4. RootIsNew(u, v, DOMAIN g2, a, d, s)
    BY ONLY <1>8, <1>9, <1>11
  <2>3. g3 = Above(g2, h, a, MaxKey) /\ h2 = h + 1
    BY ONLY <1>8
  <2> QED
    BY ONLY <1>5, <1>6, <2>1, <2>2, <2>3, <2>4, NewRootGood
<1>14. /\ DOMAIN g3 = DOMAIN g2 \cup {a} /\ g3[a] = [lev |-> h + 1, lo |-> 0, hi |-> MaxKey + 1]
       /\ \A b \in DOMAIN g2 : b # a /\ g3[b] = g2[b]
  <2>1. g3 = Above(g2, h, a, MaxKey) /\ a \notin DOMAIN g2
    BY ONLY <1>8, <1>12
  <2> QED
    BY ONLY <2>1, Zenon DEF Above
<1>15. Sized(v, g3, {})
  <2>1. Len(v.node[a].row) = 1
    BY ONLY <1>12
  <2>2. 1 <= 2 * DEGREE /\ 1 >= 1
    BY ONLY TreeAssumption
  <2>3. \A b \in DOMAIN g2 : v.node[b] = u.node[b] /\ g3[b].lev = g2[b].lev
    BY ONLY <1>7, <1>12, <1>14
  <2>4. \A b \in DOMAIN g2 : Len(u.node[b].row) >= DEGREE
    BY ONLY <1>2, <1>3, Sized(u, g2, {}) DEF Sized
  <2> QED
    BY ONLY <1>12, <1>14, <2>1, <2>2, <2>3, <2>4, Sized(u, g2, {}) DEF Sized
<1>16. KeysIn(v, g3) = KeysIn(u, g2)
  <2>1. g3[a].lev # 0
    <3>1. g3[a].lev = h + 1
      BY ONLY <1>14
    <3> QED
      BY ONLY <1>1, <3>1
  <2>2. \A b : b \in DOMAIN g2 /\ g2[b].lev = 0 <=> b \in DOMAIN g3 /\ g3[b].lev = 0
    BY ONLY <1>14, <2>1
  <2>3. \A b \in DOMAIN g2 : g2[b].lev = 0 => RowSet(v, b) = RowSet(u, b)
    BY ONLY <1>7, <1>12 DEF RowSet
  <2> QED
    BY ONLY <2>2, <2>3, KeysSame
<1>17. Whole(v, g3, h2)
  BY ONLY <1>8, <1>12, <1>13, <1>14, <1>15 DEF Whole
<1> QED
  BY ONLY <1>16, <1>17 DEF Becomes

(* A key is inserted. *)
LEMMA InsertIsWhole ==
    ASSUME NEW t, NEW g, NEW h, Whole(t, g, h), NEW k, k \in Key, k \notin KeysIn(t, g),
           NEW r, r = tree_insert(t, t.root_node, k)
    PROVE  Becomes(IF r.entry = NoEntry THEN r.tree ELSE NewRoot(r.tree, r.entry), KeysIn(t, g) \cup {k})
<1> DEFINE b == t.root_node
           u == r.tree
           e == r.entry
           K == KeysIn(t, g) \cup {k}
<1>1. b \in DOMAIN g /\ g[b].lo <= k /\ k < g[b].hi
  BY ONLY Whole(t, g, h), k \in Key, RootIs
<1>2. Good(t, g, h, {}, {}) /\ Sized(t, g, {})
  BY ONLY Whole(t, g, h) DEF Whole
<1>3. r = tree_insert(t, b, k) /\ b = t.root_node
  OBVIOUS
<1> HIDE DEF b
<1>4. Inserted(t, g, h, b, k, r)
  <2>1. r = tree_insert(t, b, k)
    BY ONLY <1>3
  <2> QED
    BY ONLY <1>1, <1>2, <2>1, k \in Key, k \notin KeysIn(t, g), TreeInsertIs
<1>5. PICK g2 : /\ Sized(u, g2, {}) /\ KeysIn(u, g2) = K
                /\ UpStays(t, g, b, u, g2)
                /\ e = NoEntry => Good(u, g2, h, {}, {}) /\ g2[b] = g[b]
                /\ e # NoEntry => Parted(t, g, h, b, k, u, g2, e)
  BY ONLY <1>4 DEF Inserted
<1> HIDE DEF u, e, K
<1>6. CASE e = NoEntry
  <2>1. u.root_node = b
    BY ONLY <1>3, <1>5 DEF UpStays
  <2>2. Whole(u, g2, h)
    BY ONLY <1>3, <1>5, <1>6, <2>1, Whole(t, g, h) DEF Whole
  <2>3. Becomes(u, K)
    BY ONLY <1>5, <2>2 DEF Becomes
  <2> QED
    BY ONLY <1>6, <2>3 DEF u, e, K
<1>7. CASE e # NoEntry
  <2> DEFINE v == NewRoot(u, e)
  <2>1. v = NewRoot(u, e)
    OBVIOUS
  <2>2. UpStays(t, g, t.root_node, u, g2) /\ Parted(t, g, h, t.root_node, k, u, g2, e) /\ Sized(u, g2, {})
    BY ONLY <1>3, <1>5, <1>7
  <2> HIDE DEF v
  <2>3. Becomes(v, KeysIn(u, g2))
    BY ONLY Whole(t, g, h), <2>1, <2>2, RootGrows
  <2>4. Becomes(v, K)
    BY ONLY <1>5, <2>3
  <2> QED
    BY ONLY <1>7, <2>4 DEF u, e, K, v
<1> QED
  BY ONLY <1>6, <1>7

(* tree_delete, called with a child of p in whose range the key is, deletes *)
(* it below that child.                                                     *)
LEMMA TreeDeleteIs ==
    ASSUME NEW t, NEW g, NEW h, Good(t, g, h, {}, {}), Sized(t, g, {}), NEW k, k \in KeysIn(t, g), k \in Nat,
           NEW p, NEW b, Descends(g, p, b, k), NEW r, r = tree_delete(t, p, b, k)
    PROVE  Mended(t, g, h, p, r, KeysIn(t, g) \ {k})
<1> DEFINE N == t.length
           K == KeysIn(t, g) \ {k}
<1>1. h \in Nat /\ N \in Nat /\ h < N
  BY ONLY Good(t, g, h, {}, {}), HeightFits
<1>2. PICK f : (\A m \in 0 .. t.length : f[m] = DropTurn(t, k, m, f[m - 1])) /\ tree_delete(t, p, b, k) = f[t.length][p][b]
  BY ONLY <1>1, DropIs
<1>3. /\ Tiled(g, h, MaxKey) /\ DOMAIN g \subseteq DOMAIN t.node
      /\ \A x \in DOMAIN g : t.node[x].leaf <=> g[x].lev = 0
  BY DEF Good
<1>4. \A x \in DOMAIN g : g[x].lev \in Nat /\ g[x].lev <= h
  <2>1. h \in Nat /\ \A x \in DOMAIN g : g[x].lev \in 0 .. h
    BY ONLY <1>3, TiledIs
  <2> QED
    BY ONLY <2>1
<1> DEFINE Done == {m \in 0 .. N : \A q, x \in DOMAIN g : g[x].lev <= m /\ Descends(g, q, x, k)
                                                            => Mended(t, g, h, q, f[m][q][x], K)}
<1>6. ASSUME NEW m, m \in 0 .. N, NEW q, q \in DOMAIN g, NEW x, x \in DOMAIN g, g[x].lev = 0, Descends(g, q, x, k)
      PROVE  Mended(t, g, h, q, f[m][q][x], K)
  <2>1. Under(g, q, x) /\ g[x].lo <= k /\ k < g[x].hi
    BY ONLY <1>6 DEF Descends
  <2>2. f[m][q][x] = DropInLeaf(t, q, x, k)
    <3>1. f[m] = DropTurn(t, k, m, f[m - 1])
      BY ONLY <1>2, m \in 0 .. N
    <3>2. x \in DOMAIN t.node /\ q \in DOMAIN t.node /\ t.node[x].leaf
      BY ONLY <1>3, <1>6
    <3> QED
      BY ONLY <3>1, <3>2 DEF DropTurn
  <2>3. k \in RowSet(t, x)
    <3>1. k \in KeysIn(t, g) <=> k \in RowSet(t, x)
      BY ONLY Good(t, g, h, {}, {}), <1>6, <2>1, k \in Nat, KeyLeaf
    <3> QED
      BY ONLY <3>1, k \in KeysIn(t, g)
  <2>4. Mended(t, g, h, q, DropInLeaf(t, q, x, k), KeysIn(t, g) \ {k})
    BY ONLY Good(t, g, h, {}, {}), Sized(t, g, {}), <1>6, <2>1, <2>3, k \in Nat, DropInLeafIs
  <2> QED
    BY ONLY <2>2, <2>4
<1> HIDE DEF K
<1>7. 0 \in Done
  <2>1. 0 \in 0 .. N
    BY ONLY <1>1
  <2>2. ASSUME NEW q, q \in DOMAIN g, NEW x, x \in DOMAIN g, g[x].lev <= 0, Descends(g, q, x, k)
        PROVE  Mended(t, g, h, q, f[0][q][x], K)
    <3>1. g[x].lev = 0
      BY ONLY <1>4, <2>2
    <3> QED
      BY ONLY <1>6, <2>1, <2>2, <3>1
  <2> QED
    BY ONLY <2>1, <2>2
<1>8. ASSUME NEW m \in 0 .. N - 1, m \in Done PROVE m + 1 \in Done
  <2>1. m \in Nat /\ m + 1 \in 0 .. N /\ (m + 1) - 1 = m /\ m + 1 # 0
    BY ONLY <1>1, m \in 0 .. N - 1
  <2>2. ASSUME NEW q, q \in DOMAIN g, NEW x, x \in DOMAIN g, g[x].lev <= m + 1, Descends(g, q, x, k), g[x].lev # 0
        PROVE  Mended(t, g, h, q, f[m + 1][q][x], K)
    <3> DEFINE c == ChildFor(t, x, k)
               below == f[m][x][c]
    <3>0. Under(g, q, x) /\ g[x].lo <= k /\ k < g[x].hi
      BY ONLY <2>2 DEF Descends
    <3>1. Descends(g, x, c, k)
      BY ONLY Good(t, g, h, {}, {}), <2>2, <3>0, k \in Nat, ChildCovers
    <3>2. f[m + 1] = DropTurn(t, k, m + 1, f[m])
      BY ONLY <1>2, <2>1
    <3>3. f[m + 1][q][x] = DropAbove(q, x, below)
      <4>1. x \in DOMAIN t.node /\ q \in DOMAIN t.node /\ ~t.node[x].leaf
        BY ONLY <1>3, <2>2
      <4> QED
        BY ONLY <2>1, <3>2, <4>1 DEF DropTurn
    <3> HIDE DEF c
    <3>5. c \in DOMAIN g /\ g[c].lev <= m
      BY ONLY <1>4, <2>1, <2>2, <3>1 DEF Descends, Under
    <3>6. Mended(t, g, h, x, below, K)
      BY ONLY <1>8, <2>2, <3>1, <3>5
    <3> HIDE DEF below
    <3>7. Mended(t, g, h, q, DropAbove(q, x, below), K)
      BY ONLY Good(t, g, h, {}, {}), <2>2, <3>0, <3>6, DropAboveIs
    <3> QED
      BY ONLY <3>3, <3>7
  <2>3. ASSUME NEW q, q \in DOMAIN g, NEW x, x \in DOMAIN g, g[x].lev <= m + 1, Descends(g, q, x, k)
        PROVE  Mended(t, g, h, q, f[m + 1][q][x], K)
    BY ONLY <1>6, <2>1, <2>2, <2>3
  <2> QED
    BY ONLY <2>1, <2>3
<1>9. N \in Done
  <2> HIDE DEF Done
  <2>1. \A m \in 0 .. N : m \in Done
    BY ONLY <1>1, <1>7, <1>8, AllNat
  <2> QED
    BY ONLY <1>1, <2>1
<1>10. p \in DOMAIN g /\ b \in DOMAIN g /\ g[b].lev <= N
  <2>1. p \in DOMAIN g /\ b \in DOMAIN g
    BY ONLY Descends(g, p, b, k) DEF Descends, Under
  <2> QED
    BY ONLY <1>1, <1>4, <2>1
<1>11. Mended(t, g, h, p, f[N][p][b], K)
  BY ONLY <1>9, <1>10, Descends(g, p, b, k)
<1> QED
  BY ONLY <1>2, <1>11, r = tree_delete(t, p, b, k) DEF K

(* The tree with the child of its old, now empty root r as root. *)
RootIsGone(t, w, U, r, c) ==
    /\ Typed(w) /\ Spare(w, U \ {r}) /\ DOMAIN w.node = DOMAIN t.node
    /\ w.root_node = c /\ w.string = t.string
    /\ \A y \in DOMAIN t.node : y # r => w.node[y] = t.node[y]

(* The fields after the root is freed. *)
LEMMA RootGoneIs ==
    ASSUME NEW t, Typed(t), NEW U, Spare(t, U), NEW r, r \in U, NEW c, c \in Nat,
           NEW w, w = FreeNode([t EXCEPT !.root_node = c], r)
    PROVE  RootIsGone(t, w, U, r, c)
<1> DEFINE u == [t EXCEPT !.root_node = c]
<1>1. t = [root_node |-> t.root_node, free_node_head |-> t.free_node_head, length |-> t.length,
           node |-> t.node, string |-> t.string]
  BY ONLY Typed(t), TypedIs
<1>2. u = [root_node |-> c, free_node_head |-> t.free_node_head, length |-> t.length,
           node |-> t.node, string |-> t.string]
  BY ONLY <1>1
<1>3. w = FreeNode(u, r)
  OBVIOUS
<1> HIDE DEF u
<1>4. /\ u.root_node = c /\ u.node = t.node /\ u.string = t.string /\ u.length = t.length
      /\ u.free_node_head = t.free_node_head
  BY ONLY <1>2
<1>5. Typed(u)
  BY ONLY <1>2, <1>4, Typed(t), c \in Nat DEF Typed
<1>6. Spare(u, U)
  BY ONLY <1>4, Spare(t, U) DEF Spare, Listed, Links, NextIn
<1>7. /\ Typed(w) /\ Spare(w, U \ {r}) /\ DOMAIN w.node = DOMAIN u.node
      /\ \A b \in DOMAIN u.node : b # r => w.node[b] = u.node[b]
      /\ w.string = u.string /\ w.root_node = u.root_node
  BY ONLY <1>3, <1>5, <1>6, r \in U, GiveIs
<1> QED
  BY ONLY <1>4, <1>7 DEF RootIsGone

(* A tree whose root has no row left is good with that root's only child   *)
(* as root.                                                                *)
LEMMA RootShrinks ==
    ASSUME NEW t, NEW g, NEW h, Good(t, g, h, {}, {}), NEW r, r = t.root_node, Sized(t, g, {r}),
           g[r] = [lev |-> h, lo |-> 0, hi |-> MaxKey + 1], h # 0, n(t, r) = 0,
           NEW c, c = t.node[r].child[1], NEW w, w = FreeNode([t EXCEPT !.root_node = c], r)
    PROVE  Becomes(w, KeysIn(t, g))
<1> DEFINE g2 == BelowRoot(g, r)
           h2 == h - 1
           U == DOMAIN g
<1>1. /\ Typed(t) /\ U \subseteq DOMAIN t.node /\ Tiled(g, h, MaxKey) /\ r \in U
      /\ \A y \in U : t.node[y].leaf <=> g[y].lev = 0
      /\ \A y \in U : NodeFits(t, g, y)
      /\ Owned(t, g, {}) /\ Spare(t, U) /\ Chained(t, g, MaxKey, NoNode)
  BY DEF Good
<1>2. g2 = BelowRoot(g, r) /\ h2 = h - 1 /\ U = DOMAIN g
  OBVIOUS
<1> HIDE DEF g2, h2
<1>4. g[r].lev = h /\ g[r].lo = 0 /\ g[r].hi = MaxKey + 1
  BY ONLY g[r] = [lev |-> h, lo |-> 0, hi |-> MaxKey + 1]
<1>3. /\ Tiled(g2, h2, MaxKey) /\ h2 \in Nat /\ DOMAIN g2 = U \ {r}
      /\ \A b \in U : b # r => g2[b] = g[b] /\ g[b].lev < h
      /\ \A b \in U : g[b].lev < h => b # r
  <2>1. RootAlone(g, h, MaxKey, r, g2, h2) /\ Tiled(g, h, MaxKey)
    BY ONLY <1>1, <1>2, <1>4, h # 0 DEF RootAlone
  <2>2. RootIsCut(g, h, MaxKey, r, g2, h2)
    BY ONLY <2>1, TileBelow
  <2> QED
    BY ONLY <1>2, <2>2 DEF RootIsCut
<1>5. t.node[r].row = <<>> /\ Len(t.node[r].child) = 1 /\ c \in U /\ g[c].lev + 1 = h /\ g[c].lo = 0 /\ g[c].hi = MaxKey + 1
  <2> DEFINE row == t.node[r].row
             child == t.node[r].child
             str == t.string
             at == g[r]
  <2>1. row \in Seq(Nat) /\ Len(row) = 0
    <3>1. Typed(t) /\ r \in DOMAIN t.node
      BY ONLY <1>1
    <3>2. row \in Seq(Nat)
      BY ONLY <3>1, NodeIs
    <3> QED
      BY ONLY <3>2, n(t, r) = 0 DEF n
  <2>2. InnerFits(str, g, at, row, child)
    BY ONLY <1>1, <1>4, h # 0 DEF NodeFits
  <2>3. c = child[1] /\ at.lev = h /\ at.lo = 0 /\ at.hi = MaxKey + 1 /\ U = DOMAIN g
    BY ONLY <1>2, <1>4, c = t.node[r].child[1]
  <2> HIDE DEF row, child, str, at
  <2>4. row = <<>>
    BY ONLY <2>1
  <2>5. Len(child) = 1 /\ child \in Seq(U)
    BY ONLY <2>1, <2>2, <2>3 DEF InnerFits
  <2>6. child[1] \in U /\ 1 \in 1 .. Len(child)
    BY ONLY <2>5
  <2>7. g[child[1]].lev + 1 = at.lev /\ g[child[1]].lo = at.lo /\ g[child[1]].hi = at.hi
    BY ONLY <2>2, <2>5, <2>6 DEF InnerFits
  <2> QED
    BY ONLY <2>3, <2>4, <2>5, <2>6, <2>7 DEF row, child
<1>6. RootIsGone(t, w, U, r, c)
  <2>1. c \in Nat
    <3>1. DOMAIN t.node \subseteq Nat
      BY ONLY <1>1, TypedIs
    <3> QED
      BY ONLY <1>1, <1>5, <3>1
  <2>2. Typed(t) /\ Spare(t, U) /\ r \in U
    BY ONLY <1>1
  <2>3. w = FreeNode([t EXCEPT !.root_node = c], r)
    OBVIOUS
  <2> QED
    BY ONLY <2>1, <2>2, <2>3, RootGoneIs
<1>7. /\ Typed(w) /\ Spare(w, DOMAIN g2) /\ DOMAIN w.node = DOMAIN t.node
      /\ w.root_node = c /\ w.string = t.string
      /\ \A y \in DOMAIN g2 : y \in U /\ y # r /\ w.node[y] = t.node[y] /\ g2[y] = g[y] /\ g[y].lev < h
  BY ONLY <1>1, <1>3, <1>6 DEF RootIsGone
<1>8. c \in DOMAIN g2 /\ g2[c] = [lev |-> h2, lo |-> 0, hi |-> MaxKey + 1] /\ g2[c].lev = h2
  <2>1. g[c].lev \in Nat /\ g[c] = [lev |-> g[c].lev, lo |-> g[c].lo, hi |-> g[c].hi] /\ h \in Nat
    BY ONLY <1>1, <1>5, TiledIs
  <2>2. g[c].lev = h2 /\ g[c].lev < h
    BY ONLY <1>2, <1>5, <2>1
  <2>3. c \in DOMAIN g2 /\ g2[c] = g[c]
    BY ONLY <1>3, <1>5, <2>2
  <2> QED
    BY ONLY <1>5, <2>1, <2>2, <2>3
<1>9. ASSUME NEW y \in DOMAIN g2 PROVE NodeFits(w, g2, y)
  <2>1. /\ y \in U /\ NodeFits(t, g, y) /\ w.node[y].row = t.node[y].row /\ w.node[y].child = t.node[y].child
        /\ g2[y] = g[y]
    BY ONLY <1>1, <1>7, y \in DOMAIN g2
  <2>2. g[y].lev # 0 => /\ \A s \in RowSet(t, y) : s \in DOMAIN w.string /\ w.string[s] = t.string[s]
                        /\ \A x \in ToSet(t.node[y].child) : x \in DOMAIN g2 /\ g2[x] = g[x]
    <3>1. SUFFICES ASSUME g[y].lev # 0
                   PROVE  /\ \A s \in RowSet(t, y) : s \in DOMAIN w.string /\ w.string[s] = t.string[s]
                          /\ \A x \in ToSet(t.node[y].child) : x \in DOMAIN g2 /\ g2[x] = g[x]
      OBVIOUS
    <3>2. RowSet(t, y) \subseteq DOMAIN t.string
      BY ONLY <1>1, <2>1, <3>1 DEF Owned
    <3>3. ASSUME NEW x, x \in ToSet(t.node[y].child) PROVE x \in U /\ g[x].lev + 1 = g[y].lev
      <4> DEFINE child == t.node[y].child
                 at == g[y]
      <4>1. child \in Seq(U) /\ \A i \in 1 .. Len(child) : g[child[i]].lev + 1 = at.lev
        BY ONLY <2>1, <3>1, <1>2 DEF NodeFits, InnerFits
      <4>2. x \in ToSet(child)
        BY ONLY <3>3
      <4> HIDE DEF child, at
      <4>3. PICK i \in 1 .. Len(child) : x = child[i]
        BY ONLY <4>1, <4>2, ToSetIs
      <4> QED
        BY ONLY <4>1, <4>3 DEF at
    <3>4. ASSUME NEW x, x \in ToSet(t.node[y].child) PROVE x \in DOMAIN g2 /\ g2[x] = g[x]
      <4>1. x \in U /\ g[x].lev + 1 = g[y].lev
        BY ONLY <3>3, <3>4
      <4>2. g[x].lev \in Nat /\ g[y].lev \in Nat /\ h \in Nat
        BY ONLY <1>1, <2>1, <4>1, TiledIs
      <4>3. g[y].lev < h
        BY ONLY <1>7, y \in DOMAIN g2
      <4>4. g[x].lev < h
        BY ONLY <4>1, <4>2, <4>3
      <4> QED
        BY ONLY <1>3, <4>1, <4>4
    <3> QED
      BY ONLY <1>7, <3>2, <3>4
  <2> QED
    BY ONLY <2>1, <2>2, NodeStays
<1>10. Owned(w, g2, {})
  <2>1. RowSet(t, r) = {}
    BY ONLY <1>5 DEF RowSet, ToSet
  <2>2. \A b \in DOMAIN g2 : b \in U /\ g2[b].lev = g[b].lev /\ RowSet(w, b) = RowSet(t, b)
    BY ONLY <1>7 DEF RowSet
  <2>3. /\ \A b \in U : g[b].lev # 0 => RowSet(t, b) \subseteq DOMAIN t.string
        /\ \A b, x \in U : g[b].lev # 0 /\ g[x].lev # 0 /\ b # x => RowSet(t, b) \cap RowSet(t, x) = {}
        /\ \A s \in DOMAIN t.string : \E b \in U : g[b].lev # 0 /\ s \in RowSet(t, b)
    BY ONLY <1>1 DEF Owned
  <2>4. ASSUME NEW s \in DOMAIN w.string PROVE \E b \in DOMAIN g2 : g2[b].lev # 0 /\ s \in RowSet(w, b)
    <3>1. PICK b \in U : g[b].lev # 0 /\ s \in RowSet(t, b)
      BY ONLY <1>7, <2>3, s \in DOMAIN w.string
    <3>2. b # r
      BY ONLY <2>1, <3>1
    <3>3. b \in DOMAIN g2
      BY ONLY <1>3, <3>2, b \in U
    <3> QED
      BY ONLY <2>2, <3>1, <3>3
  <2>5. \A b \in DOMAIN g2 : g2[b].lev # 0 => RowSet(w, b) \subseteq DOMAIN w.string
    BY ONLY <1>7, <2>2, <2>3
  <2>6. \A b, x \in DOMAIN g2 : g2[b].lev # 0 /\ g2[x].lev # 0 /\ b # x => RowSet(w, b) \cap RowSet(w, x) = {}
    BY ONLY <2>2, <2>3
  <2> QED
    BY ONLY <2>4, <2>5, <2>6 DEF Owned
<1>11. Chained(w, g2, MaxKey, NoNode)
  <2>1. \A y \in U : g[y].lev = 0 => /\ y \in DOMAIN g2 /\ g2[y] = g[y]
                                     /\ w.node[y].next = t.node[y].next
    <3>1. \A y \in U : g[y].lev = 0 => y \in DOMAIN g2
      BY ONLY <1>3, <1>4, h # 0
    <3> QED
      BY ONLY <1>7, <3>1
  <2>2. \A y \in DOMAIN g2 : g2[y].lev = 0 => y \in U /\ g[y].lev = 0
    BY ONLY <1>7
  <2> QED
    BY ONLY <1>1, <2>1, <2>2, ChainStays
<1>12. Good(w, g2, h2, {}, {})
  <2>1. DOMAIN g2 \subseteq DOMAIN w.node /\ \A b \in DOMAIN g2 : w.node[b].leaf <=> g2[b].lev = 0
    BY ONLY <1>1, <1>7
  <2> QED
    BY ONLY <1>3, <1>7, <1>8, <1>9, <1>10, <1>11, <2>1 DEF Good
<1>13. Sized(w, g2, {})
  <2>1. \A b \in DOMAIN g2 : /\ Len(w.node[b].row) = Len(t.node[b].row) /\ b \in U /\ b # r /\ g2[b].lev = g[b].lev
    BY ONLY <1>7
  <2> QED
    BY ONLY <2>1, r = t.root_node, Sized(t, g, {r}) DEF Sized
<1>14. KeysIn(w, g2) = KeysIn(t, g)
  <2>1. \A b : b \in U /\ g[b].lev = 0 <=> b \in DOMAIN g2 /\ g2[b].lev = 0
    BY ONLY <1>3, <1>4, <1>7, h # 0
  <2>2. \A b \in U : g[b].lev = 0 => RowSet(w, b) = RowSet(t, b)
    BY ONLY <1>7, <2>1 DEF RowSet
  <2> QED
    BY ONLY <2>1, <2>2, KeysSame
<1>15. Whole(w, g2, h2)
  BY ONLY <1>7, <1>8, <1>12, <1>13 DEF Whole
<1> QED
  BY ONLY <1>14, <1>15 DEF Becomes

-----------------------------------------------------------------------------
(* The free nodes and the parts of the tree. *)

(* The root r of d is given up and c made the root. *)
GiveRoot(d, r, c) == FreeNode([d EXCEPT !.root_node = c], r)

(* A tree file in which node r was freed. *)
Given(c, r, f, m, node, str) ==
    [root_node |-> c, free_node_head |-> r, length |-> m,
     node |-> [node EXCEPT ![r] = BNode(TRUE, <<>>, <<>>, f)], string |-> str]

(* What giving the root up makes of the fields. *)
LEMMA GiveRootIs ==
    ASSUME NEW d, NEW q, NEW f, NEW m, NEW node, NEW str, Fields(d, q, f, m, node, str), NEW r, NEW c
    PROVE  GiveRoot(d, r, c) = Given(c, r, f, m, node, str)
<1> DEFINE e == [d EXCEPT !.root_node = c]
           y == BNode(TRUE, <<>>, <<>>, f)
           M == [node EXCEPT ![r] = y]
<1>1. e = [root_node |-> c, free_node_head |-> f, length |-> m, node |-> node, string |-> str]
  BY DEF Fields
<1>2. GiveRoot(d, r, c) = FreeNode(e, r)
  BY DEF GiveRoot
<1> HIDE DEF e
<1>3. FreeNode(e, r) = [e EXCEPT !.node[r] = BNode(TRUE, <<>>, <<>>, e.free_node_head), !.free_node_head = r]
  BY DEF FreeNode
<1>4. e.free_node_head = f /\ e.node = node
  BY ONLY <1>1
<1>5. FreeNode(e, r) = [e EXCEPT !.node[r] = y, !.free_node_head = r]
  BY ONLY <1>3, <1>4
<1> HIDE DEF y
<1>6. FreeNode(e, r) = [[e EXCEPT !.node = M] EXCEPT !.free_node_head = r]
  BY ONLY <1>4, <1>5
<1> HIDE DEF M
<1>7. FreeNode(e, r) = [root_node |-> c, free_node_head |-> r, length |-> m, node |-> M, string |-> str]
  BY ONLY <1>1, <1>6
<1> QED
  BY ONLY <1>2, <1>7 DEF M, y, Given

(* The root that is given up is overwritten: giving up the root of d is    *)
(* giving it up after its last entry is dropped.                           *)
LEMMA RootRowsVoid ==
    ASSUME NEW x, NEW old, NEW r, NEW rowd, NEW childd,
           NEW d, d = delete_handler(x, old),
           NEW v, v = WithInner(d, r, rowd, childd), Typed(v), NEW c
    PROVE  /\ x.root_node = v.root_node
           /\ GiveRoot(d, r, c) = GiveRoot(v, r, c)
<1> DEFINE nn == [d.node EXCEPT ![r].row = rowd, ![r].child = childd]
<1>1. v = [root_node |-> v.root_node, free_node_head |-> v.free_node_head, length |-> v.length,
           node |-> v.node, string |-> v.string]
  BY ONLY Typed(v), TypedIs
<1>2. DOMAIN v = {"root_node", "free_node_head", "length", "node", "string"}
  BY ONLY <1>1
<1>3. v = [d EXCEPT !.node = nn]
  BY DEF WithInner
<1> HIDE DEF nn
<1>4. DOMAIN d = {"root_node", "free_node_head", "length", "node", "string"}
  BY ONLY <1>2, <1>3
<1>5. d = [x EXCEPT !.string = Restrict(@, DOMAIN @ \ {old})]
  BY ONLY d = delete_handler(x, old) DEF delete_handler
<1> DEFINE ss == Restrict(x.string, DOMAIN x.string \ {old})
<1>6. d = [x EXCEPT !.string = ss]
  BY ONLY <1>5
<1> HIDE DEF ss
<1>7. DOMAIN x = {"root_node", "free_node_head", "length", "node", "string"} /\ d = [i \in DOMAIN d |-> d[i]]
  BY ONLY <1>4, <1>6
<1>8. x.root_node = d.root_node
  BY ONLY <1>6, <1>7
<1>9. /\ v.root_node = d.root_node /\ v.free_node_head = d.free_node_head /\ v.length = d.length
      /\ v.string = d.string /\ v.node = nn
  BY ONLY <1>3, <1>4
<1>10. d = [root_node |-> d.root_node, free_node_head |-> d.free_node_head, length |-> d.length,
            node |-> d.node, string |-> d.string]
  BY ONLY <1>4, <1>7
<1>11. ASSUME NEW y PROVE [nn EXCEPT ![r] = y] = [d.node EXCEPT ![r] = y]
  BY ONLY DEF nn
<1> DEFINE q == d.root_node
           f == d.free_node_head
           m == d.length
           node == d.node
           str == d.string
<1>12. Fields(d, q, f, m, node, str)
  BY ONLY <1>10 DEF Fields
<1>13. Fields(v, q, f, m, nn, str)
  BY ONLY <1>1, <1>9 DEF Fields
<1>14. [nn EXCEPT ![r] = BNode(TRUE, <<>>, <<>>, f)] = [node EXCEPT ![r] = BNode(TRUE, <<>>, <<>>, f)]
  BY ONLY <1>11
<1> HIDE DEF q, f, m, node, str
<1>15. GiveRoot(d, r, c) = Given(c, r, f, m, node, str)
  BY ONLY <1>12, GiveRootIs
<1>16. GiveRoot(v, r, c) = Given(c, r, f, m, nn, str)
  BY ONLY <1>13, GiveRootIs
<1>17. Given(c, r, f, m, nn, str) = Given(c, r, f, m, node, str)
  BY ONLY <1>14 DEF Given
<1>18. x.root_node = v.root_node
  BY ONLY <1>8, <1>9
<1> QED
  BY ONLY <1>15, <1>16, <1>17, <1>18

(* A key is deleted below a root that is an inner node. *)
LEMMA DeleteMends ==
    ASSUME NEW t, NEW g, NEW h, Whole(t, g, h), NEW r, r = t.root_node, g[r].lev # 0,
           NEW done, NEW K, Mended(t, g, h, r, done, K),
           NEW w, w = IF done.old = NoString THEN done.tree
                      ELSE IF n(done.tree, r) > 1 THEN DropEntry(done.tree, r, done.old)
                      ELSE DropRoot(done.tree, done.old)
    PROVE  Becomes(w, K)
<1> DEFINE v == Dropped(r, done)
<1>1. /\ r \in DOMAIN g /\ g[r] = [lev |-> h, lo |-> 0, hi |-> MaxKey + 1] /\ g[r].lev = h /\ h \in Nat
  <2>1. r \in DOMAIN g /\ g[r] = [lev |-> h, lo |-> 0, hi |-> MaxKey + 1] /\ Tiled(g, h, MaxKey)
    BY ONLY Whole(t, g, h), r = t.root_node DEF Whole, Good
  <2>2. h \in Nat
    BY ONLY <2>1, TiledIs
  <2> QED
    BY ONLY <2>1, <2>2
<1>2. PICK g2 :
        /\ Good(v, g2, h, {}, {}) /\ Keeps(g, g2, g[r].lev)
        /\ v.root_node = t.root_node /\ KeysIn(v, g2) = K
        /\ done.old = NoString => Sized(v, g2, {})
        /\ done.old # NoString => /\ Sized(v, g2, {r}) /\ n(v, r) + 1 = n(done.tree, r)
                                  /\ v.node[r].child[1] = done.tree.node[r].child[1]
  BY ONLY Mended(t, g, h, r, done, K) DEF Mended
<1>3. /\ done.old = NoString => v = done.tree
      /\ done.old # NoString => v = DropEntry(done.tree, r, done.old)
  BY DEF Dropped
<1> HIDE DEF v
<1>4. g2[r] = [lev |-> h, lo |-> 0, hi |-> MaxKey + 1] /\ r \in DOMAIN g2 /\ v.root_node = r /\ g2[r].lev = h
  <2>1. g[r].lev >= g[r].lev
    BY ONLY <1>1
  <2> QED
    BY ONLY <1>1, <1>2, <2>1, r = t.root_node DEF Keeps
<1>5. Typed(v) /\ r \in DOMAIN v.node
  BY ONLY <1>2, <1>4 DEF Good
<1>6. n(v, r) \in Nat
  BY ONLY <1>5, NodeIs DEF n
<1>7. CASE done.old = NoString
  <2>1. Whole(v, g2, h)
    BY ONLY <1>2, <1>4, <1>7 DEF Whole
  <2>2. w = v
    BY ONLY <1>3, <1>7, w = IF done.old = NoString THEN done.tree
                            ELSE IF n(done.tree, r) > 1 THEN DropEntry(done.tree, r, done.old)
                            ELSE DropRoot(done.tree, done.old)
  <2> QED
    BY ONLY <1>2, <2>1, <2>2 DEF Becomes
<1>8. CASE done.old # NoString /\ n(done.tree, r) > 1
  <2>1. n(v, r) >= 1
    <3> DEFINE nv == n(v, r)
               nt == n(done.tree, r)
    <3>1. nv \in Nat /\ nv + 1 = nt /\ nt > 1
      BY ONLY <1>2, <1>6, <1>8
    <3> HIDE DEF nv, nt
    <3>2. nv >= 1
      BY ONLY <3>1
    <3> QED
      BY ONLY <3>2 DEF nv
  <2>2. Sized(v, g2, {})
    BY ONLY <1>2, <1>4, <1>8, <2>1 DEF Sized, n
  <2>3. Whole(v, g2, h)
    BY ONLY <1>2, <1>4, <2>2 DEF Whole
  <2>4. w = v
    BY ONLY <1>3, <1>8, w = IF done.old = NoString THEN done.tree
                            ELSE IF n(done.tree, r) > 1 THEN DropEntry(done.tree, r, done.old)
                            ELSE DropRoot(done.tree, done.old)
  <2> QED
    BY ONLY <1>2, <2>3, <2>4 DEF Becomes
<1>9. CASE done.old # NoString /\ ~(n(done.tree, r) > 1)
  <2> DEFINE T == done.tree
             old == done.old
             c == v.node[r].child[1]
             d == delete_handler(T, old)
             i == find_index(T, r, T.string[old])
             rowd == RemoveAt(d.node[r].row, i)
             childd == RemoveAt(d.node[r].child, i + 1)
  <2>1. n(v, r) = 0
    <3> DEFINE nv == n(v, r)
               nt == n(done.tree, r)
    <3>1. nv \in Nat /\ nv + 1 = nt /\ ~(nt > 1)
      BY ONLY <1>2, <1>6, <1>9
    <3> HIDE DEF nv, nt
    <3>2. nv = 0
      BY ONLY <3>1
    <3> QED
      BY ONLY <3>2 DEF nv
  <2>2. v = WithInner(d, r, rowd, childd)
    BY ONLY <1>3, <1>9 DEF DropEntry, WithInner
  <2>3. d = delete_handler(T, old)
    OBVIOUS
  <2>4. w = DropRoot(T, old)
    BY ONLY <1>9, w = IF done.old = NoString THEN done.tree
                      ELSE IF n(done.tree, r) > 1 THEN DropEntry(done.tree, r, done.old)
                      ELSE DropRoot(done.tree, done.old)
  <2>5. c = T.node[r].child[1] /\ c = v.node[r].child[1]
    BY ONLY <1>2, <1>9
  <2> HIDE DEF T, old, c, d, rowd, childd
  <2>6. /\ T.root_node = v.root_node
        /\ GiveRoot(d, r, c) = GiveRoot(v, r, c)
    BY ONLY <1>5, <2>2, <2>3, RootRowsVoid
  <2>7. w = FreeNode([v EXCEPT !.root_node = c], r)
    <3>1. w = FreeNode([d EXCEPT !.root_node = c], r)
      BY ONLY <1>4, <2>3, <2>4, <2>5, <2>6 DEF DropRoot
    <3> QED
      BY ONLY <2>6, <3>1 DEF GiveRoot
  <2>8. Sized(v, g2, {r}) /\ r = v.root_node /\ Good(v, g2, h, {}, {}) /\ h # 0 /\ c = v.node[r].child[1]
    BY ONLY <1>1, <1>2, <1>4, <1>9, <2>5, g[r].lev # 0
  <2>9. Becomes(w, KeysIn(v, g2))
    BY ONLY <1>4, <2>1, <2>7, <2>8, RootShrinks
  <2> QED
    BY ONLY <1>2, <2>9
<1> QED
  BY ONLY <1>7, <1>8, <1>9

(* A key is deleted. *)
LEMMA DeleteIsWhole ==
    ASSUME NEW t, NEW g, NEW h, Whole(t, g, h), NEW k, k \in Key, k \in KeysIn(t, g),
           NEW r, r = t.root_node, NEW done, done = tree_delete(t, r, ChildFor(t, r, k), k),
           NEW w, w = IF t.node[r].leaf THEN DropRow(t, r, k)
                      ELSE IF done.old = NoString THEN done.tree
                      ELSE IF n(done.tree, r) > 1 THEN DropEntry(done.tree, r, done.old)
                      ELSE DropRoot(done.tree, done.old)
    PROVE  Becomes(w, KeysIn(t, g) \ {k})
<1>1. r \in DOMAIN g /\ g[r].lev = h /\ k \in Nat /\ g[r].lo <= k /\ k < g[r].hi
  BY ONLY Whole(t, g, h), k \in Key, r = t.root_node, RootIs
<1>2. Good(t, g, h, {}, {}) /\ Sized(t, g, {}) /\ g[r] = [lev |-> h, lo |-> 0, hi |-> MaxKey + 1]
  BY ONLY Whole(t, g, h), r = t.root_node DEF Whole
<1>3. t.node[r].leaf <=> g[r].lev = 0
  BY ONLY <1>1, <1>2 DEF Good
<1>4. CASE g[r].lev = 0
  <2>1. k \in RowSet(t, r)
    <3>1. k \in KeysIn(t, g) <=> k \in RowSet(t, r)
      BY ONLY <1>1, <1>2, <1>4, KeyLeaf
    <3> QED
      BY ONLY <3>1, k \in KeysIn(t, g)
  <2>2. w = DropRow(t, r, k)
    BY ONLY <1>3, <1>4, w = IF t.node[r].leaf THEN DropRow(t, r, k)
                            ELSE IF done.old = NoString THEN done.tree
                            ELSE IF n(done.tree, r) > 1 THEN DropEntry(done.tree, r, done.old)
                            ELSE DropRoot(done.tree, done.old)
  <2>3. RowDropped(t, g, h, w, r, k)
    BY ONLY <1>1, <1>2, <1>4, <2>1, <2>2, DropRowIs
  <2>4. /\ Good(w, g, h, {}, {}) /\ KeysIn(w, g) = KeysIn(t, g) \ {k} /\ w.root_node = r /\ Sized(w, g, {})
    BY ONLY <2>3, r = t.root_node DEF RowDropped
  <2>5. Whole(w, g, h)
    BY ONLY <1>2, <2>4 DEF Whole
  <2> QED
    BY ONLY <2>4, <2>5 DEF Becomes
<1>5. CASE g[r].lev # 0
  <2> DEFINE c == ChildFor(t, r, k)
             K == KeysIn(t, g) \ {k}
  <2>1. done = tree_delete(t, r, c, k) /\ c = ChildFor(t, r, k)
    OBVIOUS
  <2>2. w = IF done.old = NoString THEN done.tree
            ELSE IF n(done.tree, r) > 1 THEN DropEntry(done.tree, r, done.old)
            ELSE DropRoot(done.tree, done.old)
    BY ONLY <1>3, <1>5, w = IF t.node[r].leaf THEN DropRow(t, r, k)
                            ELSE IF done.old = NoString THEN done.tree
                            ELSE IF n(done.tree, r) > 1 THEN DropEntry(done.tree, r, done.old)
                            ELSE DropRoot(done.tree, done.old)
  <2> HIDE DEF c
  <2>3. Descends(g, r, c, k)
    BY ONLY <1>1, <1>2, <1>5, <2>1, ChildCovers
  <2>4. done = tree_delete(t, r, c, k)
    BY ONLY <2>1
  <2>5. k \in Nat
    BY ONLY <1>1
  <2>6. Mended(t, g, h, r, done, KeysIn(t, g) \ {k})
    BY ONLY <1>2, <2>3, <2>4, <2>5, k \in KeysIn(t, g), TreeDeleteIs
  <2>7. Mended(t, g, h, r, done, K)
    BY ONLY <2>6
  <2> HIDE DEF K
  <2>8. Becomes(w, K)
    BY ONLY Whole(t, g, h), r = t.root_node, <1>5, <2>2, <2>7, DeleteMends
  <2> QED
    BY ONLY <2>8 DEF K
<1> QED
  BY ONLY <1>4, <1>5

(* Level is that function. *)
LEMMA LevelIs ==
    ASSUME NEW t, t.length \in Nat
    PROVE  /\ DOMAIN Level(t) = 0 .. t.length
           /\ \A d \in 0 .. t.length : Level(t)[d] = LevelTurn(t, d, Level(t)[d - 1])
<1> DEFINE N == t.length
           L == Level(t)
<1>1. L = CHOOSE f : LevelBy(t, N, f)
  BY Zenon DEF Level, LevelTurn, LevelBy
<1>2. N \in Nat
  OBVIOUS
<1> HIDE DEF N, L
<1>3. \E x : LevelBy(t, N, x)
  BY ONLY <1>2, LevelRecurs
<1>4. LevelBy(t, N, L)
  BY ONLY <1>1, <1>3
<1>5. DOMAIN L = 0 .. N /\ \A d \in 0 .. N : L[d] = LevelTurn(t, d, L[d - 1])
  BY ONLY <1>2, <1>4 DEF LevelBy
<1> QED
  BY ONLY <1>5 DEF N, L

(* Every node above the leaves is one. *)
LEMMA ParentIs ==
    ASSUME NEW t, NEW g, NEW h, Good(t, g, h, {}, {}), NEW b, b \in DOMAIN g, g[b].lev # 0
    PROVE  Parent(t, g, b)
<1> DEFINE str == t.string
           at == g[b]
           row == t.node[b].row
           child == t.node[b].child
<1>1. Tiled(g, h, MaxKey) /\ InnerFits(str, g, at, row, child)
  BY DEF Good, NodeFits
<1>2. at \in Place /\ at.lo < at.hi
  BY ONLY <1>1, b \in DOMAIN g, TiledIs
<1> HIDE DEF str, at, row, child
<1>3. /\ row \in Seq(DOMAIN str) /\ child \in Seq(DOMAIN g) /\ IsInjective(row)
      /\ Len(row) \in Nat /\ Len(child) = Len(row) + 1
      /\ \A i \in 1 .. Len(child) : child[i] \in ToSet(child)
      /\ \A c \in ToSet(child) : c \in DOMAIN g /\ g[c].lev + 1 = at.lev
  BY ONLY <1>1, <1>2, InnerIs
<1> QED
  BY ONLY <1>3 DEF Parent, str, at, row, child

(* Every node but the root is a child of one on the level above it. *)
LEMMA ParentOf ==
    ASSUME NEW t, NEW g, NEW h, Good(t, g, h, {}, {}), NEW c, c \in DOMAIN g, g[c].lev # h
    PROVE  \E p \in DOMAIN g : g[p].lev = g[c].lev + 1 /\ c \in ToSet(t.node[p].child)
<1> DEFINE k == g[c].lo
           v == g[c].lev + 1
<1>1. Tiled(g, h, MaxKey) /\ h \in Nat
  <2>1. Tiled(g, h, MaxKey)
    BY DEF Good
  <2> QED
    BY ONLY <2>1, TiledIs
<1>2. g[c].lev \in 0 .. h /\ k \in 0 .. MaxKey /\ k < g[c].hi
  BY ONLY <1>1, c \in DOMAIN g, TiledIs
<1>3. v \in 0 .. h /\ k \in Nat /\ v # 0 /\ g[c].lo <= k /\ v = g[c].lev + 1
  BY ONLY <1>1, <1>2, TreeAssumption, g[c].lev # h
<1>4. k < g[c].hi /\ k \in 0 .. MaxKey
  BY ONLY <1>2
<1> HIDE DEF k, v
<1>5. PICK p \in DOMAIN g : Covers(g, p, v, k)
  BY ONLY <1>1, <1>3, <1>4 DEF Tiled
<1>6. p \in DOMAIN g /\ g[p].lev = v /\ g[p].lo <= k /\ k < g[p].hi
  BY ONLY <1>5 DEF Covers
<1>7. g[p].lev # 0
  BY ONLY <1>3, <1>6
<1> DEFINE d == ChildFor(t, p, k)
<1>8. d = ChildFor(t, p, k)
  OBVIOUS
<1> HIDE DEF d
<1>9. p \in DOMAIN g /\ g[p].lo <= k /\ k < g[p].hi
  BY ONLY <1>6
<1>10. Descends(g, p, d, k)
  BY ONLY Good(t, g, h, {}, {}), <1>3, <1>7, <1>8, <1>9, ChildCovers
<1>11. Under(g, p, d) /\ d \in DOMAIN g /\ g[d].lev + 1 = v /\ g[d].lo <= k /\ k < g[d].hi
  BY ONLY <1>6, <1>10 DEF Descends, Under
<1>12. g[d].lev \in Nat /\ g[c].lev \in Nat
  BY ONLY <1>1, <1>11, c \in DOMAIN g, TiledIs
<1>13. g[d].lev = g[c].lev
  BY ONLY <1>3, <1>11, <1>12
<1>14. d = c
  <2>1. g[c].lo <= k /\ k < g[c].hi /\ g[d].lo <= k /\ k < g[d].hi /\ k \in Nat /\ d \in DOMAIN g
    BY ONLY <1>3, <1>4, <1>11
  <2> QED
    BY ONLY <1>1, <1>13, <2>1, c \in DOMAIN g, OnlyOne
<1>15. ChildAt(t, p, c, find_index(t, p, k))
  <2>1. Under(g, p, c) /\ g[c].lo <= k /\ k < g[c].hi
    BY ONLY <1>11, <1>14
  <2>2. k \in Nat
    BY ONLY <1>3
  <2> QED
    BY ONLY Good(t, g, h, {}, {}), <2>1, <2>2, SideOf
<1>16. Parent(t, g, p)
  BY ONLY Good(t, g, h, {}, {}), <1>6, <1>7, ParentIs
<1>17. c \in ToSet(t.node[p].child)
  <2> DEFINE i == find_index(t, p, k)
  <2> HIDE DEF i
  <2>1. i \in 0 .. n(t, p) /\ n(t, p) \in Nat /\ c = t.node[p].child[i + 1]
    BY ONLY <1>15 DEF ChildAt, i
  <2>2. i + 1 \in 1 .. Len(t.node[p].child)
    BY ONLY <1>16, <2>1 DEF Parent, n
  <2> QED
    BY ONLY <1>16, <2>1, <2>2 DEF Parent
<1> QED
  BY ONLY <1>3, <1>6, <1>17

(* The children of all nodes of a level are the next one. *)
LEMMA ChildrenAre ==
    ASSUME NEW t, NEW g, NEW h, Good(t, g, h, {}, {}), NEW d, d \in Nat
    PROVE  UNION {ToSet(t.node[b].child) : b \in AtDepth(g, h, d)} = AtDepth(g, h, d + 1)
<1>1. Tiled(g, h, MaxKey) /\ h \in Nat /\ \A b \in DOMAIN g : g[b].lev \in Nat
  <2>1. Tiled(g, h, MaxKey)
    BY DEF Good
  <2> QED
    BY ONLY <2>1, TiledIs
<1>2. ASSUME NEW b, b \in AtDepth(g, h, d), NEW c, c \in ToSet(t.node[b].child)
      PROVE  c \in AtDepth(g, h, d + 1)
  <2>1. b \in DOMAIN g /\ g[b].lev + d = h
    BY ONLY <1>2 DEF AtDepth
  <2>2. CASE g[b].lev = 0
    <3>1. t.node[b].child = <<>>
      BY ONLY Good(t, g, h, {}, {}), <2>1, <2>2 DEF Good, NodeFits
    <3> QED
      BY ONLY <1>2, <3>1 DEF ToSet
  <2>3. CASE g[b].lev # 0
    <3>1. Parent(t, g, b)
      BY ONLY Good(t, g, h, {}, {}), <2>1, <2>3, ParentIs
    <3>2. c \in DOMAIN g /\ g[c].lev + 1 = g[b].lev
      BY ONLY <1>2, <3>1 DEF Parent
    <3>3. g[c].lev + (d + 1) = h
      BY ONLY <1>1, <2>1, <3>2, d \in Nat
    <3> QED
      BY ONLY <3>2, <3>3 DEF AtDepth
  <2> QED
    BY ONLY <2>2, <2>3
<1>3. ASSUME NEW c, c \in AtDepth(g, h, d + 1)
      PROVE  \E b \in AtDepth(g, h, d) : c \in ToSet(t.node[b].child)
  <2>1. c \in DOMAIN g /\ g[c].lev + (d + 1) = h
    BY ONLY <1>3 DEF AtDepth
  <2>2. g[c].lev # h
    BY ONLY <1>1, <2>1, d \in Nat
  <2>3. PICK p \in DOMAIN g : g[p].lev = g[c].lev + 1 /\ c \in ToSet(t.node[p].child)
    BY ONLY Good(t, g, h, {}, {}), <2>1, <2>2, ParentOf
  <2>4. g[p].lev + d = h
    BY ONLY <1>1, <2>1, <2>3, d \in Nat
  <2> QED
    BY ONLY <2>3, <2>4 DEF AtDepth
<1> QED
  BY ONLY <1>2, <1>3

(* Level gives the nodes by their distance from the root. *)
LEMMA LevelsAre ==
    ASSUME NEW t, NEW g, NEW h, Whole(t, g, h)
    PROVE  \A d \in 0 .. t.length : Level(t)[d] = AtDepth(g, h, d)
<1> DEFINE N == t.length
           S == {d \in 0 .. N : Level(t)[d] = AtDepth(g, h, d)}
<1>1. Good(t, g, h, {}, {}) /\ Tiled(g, h, MaxKey) /\ t.root_node \in DOMAIN g
      /\ g[t.root_node] = [lev |-> h, lo |-> 0, hi |-> MaxKey + 1]
  BY DEF Whole, Good
<1>2. N \in Nat
  BY ONLY <1>1, HeightFits
<1>3. \A d \in 0 .. N : Level(t)[d] = LevelTurn(t, d, Level(t)[d - 1])
  <2>1. t.length \in Nat
    BY ONLY <1>2
  <2> QED
    BY ONLY <2>1, LevelIs
<1>4. 0 \in S
  <2>1. Level(t)[0] = {t.root_node}
    <3>1. 0 \in 0 .. N
      BY ONLY <1>2
    <3>2. Level(t)[0] = LevelTurn(t, 0, Level(t)[0 - 1])
      BY ONLY <1>3, <3>1
    <3> QED
      BY ONLY <3>2 DEF LevelTurn
  <2>2. ASSUME NEW b, b \in DOMAIN g, g[b].lev + 0 = h PROVE b = t.root_node
    <3>1. h \in Nat /\ g[b].lev \in Nat /\ g[b].lo \in 0 .. MaxKey /\ g[b].lo < g[b].hi /\ g[b].lo \in Nat
      BY ONLY <1>1, <2>2, TiledIs
    <3> DEFINE k == g[b].lo
               r == t.root_node
    <3>2. g[b].lev = g[r].lev /\ g[b].lo <= k /\ k < g[b].hi /\ g[r].lo <= k /\ k < g[r].hi /\ k \in Nat
      BY ONLY <1>1, <2>2, <3>1, TreeAssumption
    <3> HIDE DEF k
    <3> QED
      BY ONLY <1>1, <2>2, <3>2, OnlyOne
  <2>3. t.root_node \in AtDepth(g, h, 0)
    <3>1. h \in Nat
      BY ONLY <1>1, TiledIs
    <3> QED
      BY ONLY <1>1, <3>1 DEF AtDepth
  <2> QED
    BY ONLY <1>2, <2>1, <2>2, <2>3 DEF AtDepth
<1>5. ASSUME NEW d, d \in 0 .. N - 1, d \in S PROVE d + 1 \in S
  <2>1. d \in Nat /\ d + 1 \in 0 .. N /\ d + 1 # 0 /\ d + 1 - 1 = d
    BY ONLY <1>2, <1>5
  <2>2. Level(t)[d] = AtDepth(g, h, d)
    BY ONLY <1>5
  <2>3. Level(t)[d + 1] = UNION {ToSet(t.node[b].child) : b \in Level(t)[d]}
    <3> DEFINE e == d + 1
    <3>1. e - 1 = d /\ e \in 0 .. N /\ e # 0
      BY ONLY <2>1
    <3> HIDE DEF e
    <3>2. Level(t)[e] = UNION {ToSet(t.node[b].child) : b \in Level(t)[d]}
      BY ONLY <1>3, <3>1 DEF LevelTurn
    <3> QED
      BY ONLY <3>2 DEF e
  <2>4. UNION {ToSet(t.node[b].child) : b \in AtDepth(g, h, d)} = AtDepth(g, h, d + 1)
    BY ONLY <1>1, <2>1, ChildrenAre
  <2> QED
    BY ONLY <2>1, <2>2, <2>3, <2>4
<1> HIDE DEF S
<1>6. \A d \in 0 .. N - 1 : d \in S => d + 1 \in S
  BY ONLY <1>5
<1>7. \A d \in 0 .. N : d \in S
  BY ONLY <1>2, <1>4, <1>6, AllNat
<1> QED
  BY ONLY <1>7 DEF S, N

-----------------------------------------------------------------------------
(* The theorems. *)

(* The nodes of all levels are those of g. *)
LEMMA UsedIs ==
    ASSUME NEW t, NEW g, NEW h, Whole(t, g, h)
    PROVE  UNION {Level(t)[d] : d \in 0 .. t.length} = DOMAIN g
<1>1. Good(t, g, h, {}, {}) /\ Tiled(g, h, MaxKey)
  BY DEF Whole, Good
<1>2. h \in Nat /\ t.length \in Nat /\ h < t.length
  BY ONLY <1>1, HeightFits
<1>3. \A d \in 0 .. t.length : Level(t)[d] = AtDepth(g, h, d)
  BY LevelsAre
<1>4. ASSUME NEW b, b \in DOMAIN g PROVE \E d \in 0 .. t.length : b \in AtDepth(g, h, d)
  <2>1. g[b].lev \in 0 .. h
    BY ONLY <1>1, <1>4, TiledIs
  <2> DEFINE d == h - g[b].lev
  <2>2. d \in 0 .. t.length /\ g[b].lev + d = h
    BY ONLY <1>2, <2>1
  <2> HIDE DEF d
  <2> QED
    BY ONLY <1>4, <2>2 DEF AtDepth
<1>5. \A d : AtDepth(g, h, d) \subseteq DOMAIN g
  BY ONLY TRUE DEF AtDepth
<1> QED
  BY ONLY <1>3, <1>4, <1>5

(* The leaves, the inner nodes and the stored keys of the tree. *)
LEMMA PartsAre ==
    ASSUME NEW g, NEW h, Whole(tree, g, h)
    PROVE  /\ Used = DOMAIN g
           /\ Leaves = {b \in DOMAIN g : g[b].lev = 0}
           /\ Inner = {b \in DOMAIN g : g[b].lev # 0}
           /\ Stored = KeysIn(tree, g)
<1>1. Used = DOMAIN g
  BY UsedIs DEF Used
<1>2. \A b \in DOMAIN g : tree.node[b].leaf <=> g[b].lev = 0
  BY DEF Whole, Good
<1>3. Leaves = {b \in DOMAIN g : g[b].lev = 0}
  BY ONLY <1>1, <1>2 DEF Leaves
<1>4. Inner = {b \in DOMAIN g : g[b].lev # 0}
  BY ONLY <1>1, <1>3 DEF Inner
<1>5. Stored = KeysIn(tree, g)
  BY ONLY <1>3 DEF Stored, KeysIn, Rows, RowSet
<1> QED
  BY ONLY <1>1, <1>3, <1>4, <1>5

(* The nodes of the tree have places. *)
TreeInv == \E g, h : Whole(tree, g, h)

(* The empty leaf of a new file. *)
LEMMA InitIsWhole ==
    ASSUME Init
    PROVE  \E g, h : Whole(tree, g, h) /\ KeysIn(tree, g) = {}
<1> DEFINE at == [lev |-> 0, lo |-> 0, hi |-> MaxKey + 1]
           g == [b \in {0} |-> at]
           leaf == BNode(TRUE, <<>>, <<>>, NoNode)
<1>1. /\ tree.root_node = 0 /\ tree.free_node_head = NoNode /\ tree.length = 1
      /\ tree.node = [b \in {0} |-> leaf] /\ tree.string = [s \in {} |-> NoKey]
      /\ tree = [root_node |-> tree.root_node, free_node_head |-> tree.free_node_head, length |-> tree.length,
                 node |-> tree.node, string |-> tree.string]
  BY DEF Init
<1>2. /\ DOMAIN tree.node = {0} /\ tree.node[0] = leaf /\ DOMAIN tree.string = {}
      /\ DOMAIN g = {0} /\ g[0] = at
  BY ONLY <1>1
<1>3. /\ leaf.leaf = TRUE /\ leaf.row = <<>> /\ leaf.child = <<>> /\ leaf.next = NoNode
      /\ leaf \in Nodes /\ tree.node[0] = leaf
  BY ONLY <1>2 DEF BNode, Nodes, NoNode
<1>4. at \in Place /\ at.lev = 0 /\ at.lo = 0 /\ at.hi = MaxKey + 1 /\ MaxKey \in Nat
  BY ONLY TreeAssumption DEF Place
<1> HIDE DEF at, g, leaf
<1>5. Typed(tree)
  <2>1. 0 .. tree.length - 1 = {0}
    BY ONLY <1>1
  <2>2. tree.node \in [0 .. tree.length - 1 -> Nodes]
    BY ONLY <1>1, <1>3, <2>1
  <2>3. tree.string \in [DOMAIN tree.string -> Key] /\ DOMAIN tree.string \subseteq Nat
    BY ONLY <1>1, <1>2
  <2>4. IsFiniteSet(DOMAIN tree.string)
    BY ONLY <1>2, FS_EmptySet
  <2>5. tree.root_node \in Nat /\ tree.free_node_head \in Int /\ tree.length \in Nat
    BY ONLY <1>1 DEF NoNode
  <2> DEFINE node == tree.node
             string == tree.string
             root == tree.root_node
             free == tree.free_node_head
             len == tree.length
  <2>6. [root_node |-> root, free_node_head |-> free, length |-> len, node |-> node, string |-> string]
          \in [root_node : Nat, free_node_head : Int, length : Nat,
               node : [0 .. len - 1 -> Nodes], string : [DOMAIN string -> Key]]
    <3> HIDE DEF node, string, root, free, len
    <3>1. /\ root \in Nat /\ free \in Int /\ len \in Nat
          /\ node \in [0 .. len - 1 -> Nodes] /\ string \in [DOMAIN string -> Key]
      BY ONLY <2>2, <2>3, <2>5 DEF node, string, root, free, len
    <3> QED
      BY ONLY <3>1
  <2>7. tree \in [root_node : Nat, free_node_head : Int, length : Nat,
                  node : [0 .. tree.length - 1 -> Nodes], string : [DOMAIN tree.string -> Key]]
    BY ONLY <1>1, <2>6
  <2> QED
    BY ONLY <2>3, <2>4, <2>7 DEF Typed
<1>6. Tiled(g, 0, MaxKey)
  <2>1. ASSUME NEW k, k \in 0 .. MaxKey PROVE Covers(g, 0, 0, k)
    BY ONLY <1>2, <1>4, <2>1 DEF Covers
  <2> QED
    BY ONLY <1>2, <1>4, <2>1 DEF Tiled
<1>7. NodeFits(tree, g, 0)
  <2>2. Key \subseteq Nat
    BY DEF Key
  <2>1. LeafFits(g[0], <<>>, Key)
    BY ONLY <2>2 DEF LeafFits
  <2> QED
    BY ONLY <1>2, <1>3, <1>4, <2>1 DEF NodeFits
<1>8. Owned(tree, g, {})
  BY ONLY <1>2, <1>4 DEF Owned
<1>9. Spare(tree, DOMAIN g)
  <2>1. Listed(tree, DOMAIN g)
    <3>1. IsList(NextIn(tree), tree.free_node_head, NoNode, <<>>)
      BY ONLY <1>1 DEF IsList
    <3>2. IsInjective(<<>>)
      BY DEF IsInjective
    <3>3. ToSet(<<>>) = {}
      BY DEF ToSet
    <3> QED
      BY ONLY <1>2, <3>1, <3>2, <3>3 DEF Listed
  <2> QED
    BY ONLY <1>2, <1>3, <2>1 DEF Spare, Links
<1>10. Chained(tree, g, MaxKey, NoNode)
  BY ONLY <1>2, <1>3, <1>4 DEF Chained
<1>11. Good(tree, g, 0, {}, {})
  <2>1. \A b \in DOMAIN g : tree.node[b].leaf <=> g[b].lev = 0
    BY ONLY <1>2, <1>3, <1>4
  <2>2. DOMAIN g \subseteq DOMAIN tree.node /\ tree.root_node \in DOMAIN g /\ g[tree.root_node].lev = 0
    BY ONLY <1>1, <1>2, <1>4
  <2>3. \A b \in DOMAIN g \ {} : NodeFits(tree, g, b)
    BY ONLY <1>2, <1>7
  <2> QED
    BY ONLY <1>5, <1>6, <1>8, <1>9, <1>10, <2>1, <2>2, <2>3 DEF Good
<1>12. Sized(tree, g, {})
  <2>1. Len(tree.node[0].row) = 0
    BY ONLY <1>3
  <2> QED
    BY ONLY <1>1, <1>2, <1>4, <2>1, TreeAssumption DEF Sized
<1>13. Whole(tree, g, 0)
  <2>1. g[tree.root_node] = [lev |-> 0, lo |-> 0, hi |-> MaxKey + 1]
    BY ONLY <1>1, <1>2 DEF at
  <2> QED
    BY ONLY <1>11, <1>12, <2>1 DEF Whole
<1>14. KeysIn(tree, g) = {}
  <2>1. RowSet(tree, 0) = {}
    BY ONLY <1>3 DEF RowSet, ToSet
  <2> QED
    BY ONLY <1>2, <2>1 DEF KeysIn
<1> QED
  BY ONLY <1>13, <1>14

(* A search from the root finds the keys of the tree. *)
LEMMA RootFinds ==
    ASSUME NEW t, NEW g, NEW h, Whole(t, g, h), NEW k, k \in Key
    PROVE  b_tree_search(t, k) = IF k \in KeysIn(t, g) THEN k ELSE NoKey
<1> DEFINE r == t.root_node
<1>1. /\ r \in DOMAIN g /\ k \in Nat /\ g[r].lo <= k /\ k < g[r].hi
  BY RootIs
<1>2. Good(t, g, h, {}, {})
  BY DEF Whole
<1> HIDE DEF r
<1>3. tree_search(t, r, k) = IF k \in KeysIn(t, g) THEN k ELSE NoKey
  BY ONLY <1>1, <1>2, SearchFinds
<1> QED
  BY ONLY <1>3 DEF b_tree_search, r

(* NoKey is no key. *)
LEMMA NoKeyIs == NoKey \notin Key
  BY TreeAssumption DEF NoKey, Key

(* The tree after a call: the key is in or out, all others stay. *)
LEMMA InsertStep ==
    ASSUME NEW g, NEW h, Whole(tree, g, h), NEW k, k \in Key, b_tree_insert(k)
    PROVE  k \notin KeysIn(tree, g) /\ Becomes(tree', KeysIn(tree, g) \cup {k})
<1>1. b_tree_search(tree, k) = IF k \in KeysIn(tree, g) THEN k ELSE NoKey
  BY RootFinds
<1>2. k \notin KeysIn(tree, g)
  <2>1. b_tree_search(tree, k) = NoKey
    BY DEF b_tree_insert
  <2>2. k # NoKey
    BY NoKeyIs
  <2> QED
    BY ONLY <1>1, <2>1, <2>2
<1> DEFINE r == tree_insert(tree, tree.root_node, k)
<1>3. r = tree_insert(tree, tree.root_node, k)
  OBVIOUS
<1>4. tree' = IF r.entry = NoEntry THEN r.tree ELSE NewRoot(r.tree, r.entry)
  BY DEF b_tree_insert
<1> HIDE DEF r
<1>5. Becomes(IF r.entry = NoEntry THEN r.tree ELSE NewRoot(r.tree, r.entry), KeysIn(tree, g) \cup {k})
  BY ONLY Whole(tree, g, h), k \in Key, <1>2, <1>3, InsertIsWhole
<1> QED
  BY ONLY <1>2, <1>4, <1>5

(* The same for a delete. *)
LEMMA DeleteStep ==
    ASSUME NEW g, NEW h, Whole(tree, g, h), NEW k, k \in Key, b_tree_delete(k)
    PROVE  k \in KeysIn(tree, g) /\ Becomes(tree', KeysIn(tree, g) \ {k})
<1>1. b_tree_search(tree, k) = IF k \in KeysIn(tree, g) THEN k ELSE NoKey
  BY RootFinds
<1>2. k \in KeysIn(tree, g)
  <2>1. b_tree_search(tree, k) # NoKey
    BY DEF b_tree_delete
  <2> QED
    BY ONLY <1>1, <2>1
<1> DEFINE r == tree.root_node
           done == tree_delete(tree, r, ChildFor(tree, r, k), k)
<1>3. r = tree.root_node /\ done = tree_delete(tree, r, ChildFor(tree, r, k), k)
  OBVIOUS
<1>4. tree' = IF tree.node[r].leaf THEN DropRow(tree, r, k)
              ELSE IF done.old = NoString THEN done.tree
              ELSE IF n(done.tree, r) > 1 THEN DropEntry(done.tree, r, done.old)
              ELSE DropRoot(done.tree, done.old)
  BY DEF b_tree_delete
<1> DEFINE w == tree'
<1>5. w = IF tree.node[r].leaf THEN DropRow(tree, r, k)
          ELSE IF done.old = NoString THEN done.tree
          ELSE IF n(done.tree, r) > 1 THEN DropEntry(done.tree, r, done.old)
          ELSE DropRoot(done.tree, done.old)
  BY ONLY <1>4
<1> HIDE DEF r, done, w
<1>6. Becomes(w, KeysIn(tree, g) \ {k})
  BY ONLY Whole(tree, g, h), k \in Key, <1>2, <1>3, <1>5, DeleteIsWhole
<1> QED
  BY ONLY <1>2, <1>6 DEF w

(* At rest, between two calls of b_tree_insert or b_tree_delete, the tree  *)
(* is whole: the ranges of its nodes tile the keys on every level, rows    *)
(* and children fit them, every node but the root is at least half full,   *)
(* every node is in the tree or on the free list and every string is the   *)
(* row of one inner node.                                                  *)
THEOREM TreeIsWhole == Spec => []TreeInv
<1>1. Init => TreeInv
  BY InitIsWhole DEF TreeInv
<1>2. ASSUME TreeInv, [Next]_tree PROVE TreeInv'
  <2>1. PICK g, h : Whole(tree, g, h)
    BY <1>2 DEF TreeInv
  <2>2. CASE UNCHANGED tree
    BY ONLY <2>1, <2>2 DEF TreeInv
  <2>3. ASSUME NEW k \in Key, b_tree_insert(k) PROVE TreeInv'
    <3>1. Becomes(tree', KeysIn(tree, g) \cup {k})
      BY <2>1, <2>3, InsertStep
    <3> QED
      BY ONLY <3>1 DEF Becomes, TreeInv
  <2>4. ASSUME NEW k \in Key, b_tree_delete(k) PROVE TreeInv'
    <3>1. Becomes(tree', KeysIn(tree, g) \ {k})
      BY <2>1, <2>4, DeleteStep
    <3> QED
      BY ONLY <3>1 DEF Becomes, TreeInv
  <2> QED
    BY <1>2, <2>2, <2>3, <2>4 DEF Next
<1> QED
  BY <1>1, <1>2, PTL DEF Spec

(* What the invariant says of searches. *)
LEMMA SearchIsExactNow == TreeInv => SearchExact
<1> SUFFICES ASSUME TreeInv PROVE SearchExact
  OBVIOUS
<1>1. PICK g, h : Whole(tree, g, h)
  BY DEF TreeInv
<1>2. Stored = KeysIn(tree, g)
  BY <1>1, PartsAre
<1>3. ASSUME NEW k, k \in Key PROVE b_tree_search(tree, k) = IF k \in Stored THEN k ELSE NoKey
  <2>1. b_tree_search(tree, k) = IF k \in KeysIn(tree, g) THEN k ELSE NoKey
    BY ONLY <1>1, <1>3, RootFinds
  <2> QED
    BY ONLY <1>2, <2>1
<1> QED
  BY ONLY <1>3 DEF SearchExact

(* b_tree_search finds a key if and only if one of the leaves holds it,    *)
(* after any sequence of calls.                                            *)
THEOREM SearchIsExact == Spec => []SearchExact
  BY TreeIsWhole, SearchIsExactNow, PTL

(* What the invariant says of the height and the sizes. *)
LEMMA BalancedNow == TreeInv => Balanced
<1> SUFFICES ASSUME TreeInv PROVE Balanced
  OBVIOUS
<1>1. PICK g, h : Whole(tree, g, h)
  BY DEF TreeInv
<1>2. Good(tree, g, h, {}, {}) /\ Sized(tree, g, {}) /\ Typed(tree) /\ DOMAIN g \subseteq DOMAIN tree.node
  BY ONLY <1>1 DEF Whole, Good
<1>3. Used = DOMAIN g
  BY ONLY <1>1, PartsAre
<1>4. \A b \in DOMAIN g : (tree.node[b].leaf <=> g[b].lev = 0) /\ tree.node[b].leaf \in BOOLEAN
  <2>1. \A b \in DOMAIN g : tree.node[b].leaf \in BOOLEAN
    BY ONLY <1>2, NodeIs
  <2> QED
    BY ONLY <1>2, <2>1 DEF Good
<1>5. ASSUME NEW d, d \in 0 .. tree.length, NEW b, b \in Level(tree)[d], NEW c, c \in Level(tree)[d]
      PROVE  tree.node[b].leaf = tree.node[c].leaf
  <2>1. Level(tree)[d] = AtDepth(g, h, d)
    BY ONLY <1>1, <1>5, LevelsAre
  <2>2. b \in DOMAIN g /\ c \in DOMAIN g /\ g[b].lev + d = h /\ g[c].lev + d = h
    BY ONLY <1>5, <2>1 DEF AtDepth
  <2>3. Tiled(g, h, MaxKey) /\ tree.length \in Nat
    BY ONLY <1>2, HeightFits DEF Good
  <2>4. h \in Nat /\ g[b].lev \in Nat /\ g[c].lev \in Nat /\ d \in Nat
    BY ONLY <1>5, <2>2, <2>3, TiledIs
  <2>5. g[b].lev = g[c].lev
    BY ONLY <2>2, <2>4
  <2> QED
    BY ONLY <1>4, <2>2, <2>5
<1>6. ASSUME NEW b, b \in Used
      PROVE  /\ b # tree.root_node => Len(tree.node[b].row) >= DEGREE
             /\ ~tree.node[b].leaf => tree.node[b].row # <<>> /\ Len(tree.node[b].child) = Len(tree.node[b].row) + 1
  <2>1. b \in DOMAIN g
    BY ONLY <1>3, <1>6
  <2>2. b # tree.root_node => Len(tree.node[b].row) >= DEGREE
    BY ONLY <1>2, <2>1 DEF Sized
  <2>3. ASSUME ~tree.node[b].leaf
        PROVE  tree.node[b].row # <<>> /\ Len(tree.node[b].child) = Len(tree.node[b].row) + 1
    <3>1. g[b].lev # 0
      BY ONLY <1>4, <2>1, <2>3
    <3>2. Len(tree.node[b].row) >= 1
      BY ONLY <1>2, <2>1, <3>1 DEF Sized
    <3>3. Parent(tree, g, b)
      BY ONLY <1>2, <2>1, <3>1, ParentIs
    <3>4. Len(<<>>) = 0
      OBVIOUS
    <3>5. tree.node[b].row # <<>>
      BY ONLY <3>2, <3>4
    <3> QED
      BY ONLY <3>3, <3>5 DEF Parent
  <2> QED
    BY ONLY <2>2, <2>3
<1> QED
  BY ONLY <1>5, <1>6 DEF Balanced

(* After any splits, borrowings and merges all leaves are equally deep,    *)
(* and no node but the root is less than half full or over full.           *)
THEOREM StaysBalanced == Spec => []Balanced
  BY TreeIsWhole, BalancedNow, PTL

(* What the invariant says of the strings. *)
LEMMA StringsOwnedNow == TreeInv => StringsOwnedOnce
<1> SUFFICES ASSUME TreeInv PROVE StringsOwnedOnce
  OBVIOUS
<1>1. PICK g, h : Whole(tree, g, h)
  BY DEF TreeInv
<1>2. Good(tree, g, h, {}, {}) /\ Owned(tree, g, {})
  BY ONLY <1>1 DEF Whole, Good
<1>3. Inner = {b \in DOMAIN g : g[b].lev # 0}
  BY ONLY <1>1, PartsAre
<1>4. ASSUME NEW b, b \in Inner, NEW c, c \in Inner,
             NEW i, i \in DOMAIN tree.node[b].row, NEW j, j \in DOMAIN tree.node[c].row,
             tree.node[b].row[i] = tree.node[c].row[j]
      PROVE  b = c /\ i = j
  <2>1. b \in DOMAIN g /\ g[b].lev # 0 /\ c \in DOMAIN g /\ g[c].lev # 0
    BY ONLY <1>3, <1>4
  <2>2. tree.node[b].row[i] \in RowSet(tree, b) /\ tree.node[c].row[j] \in RowSet(tree, c)
    BY ONLY <1>4 DEF RowSet, ToSet
  <2>3. b = c
    BY ONLY <1>2, <1>4, <2>1, <2>2 DEF Owned
  <2>4. Parent(tree, g, b)
    BY ONLY <1>2, <2>1, ParentIs
  <2>5. IsInjective(tree.node[b].row)
    BY ONLY <2>4 DEF Parent
  <2> QED
    BY ONLY <1>4, <2>3, <2>5 DEF IsInjective
<1>5. UNION {Rows(b) : b \in Inner} = DOMAIN tree.string
  <2>1. \A b \in Inner : Rows(b) \subseteq DOMAIN tree.string
    BY ONLY <1>2, <1>3 DEF Owned, Rows, RowSet
  <2>2. \A s \in DOMAIN tree.string : \E b \in Inner : s \in Rows(b)
    BY ONLY <1>2, <1>3 DEF Owned, Rows, RowSet
  <2> QED
    BY ONLY <2>1, <2>2
<1> QED
  BY ONLY <1>4, <1>5 DEF StringsOwnedOnce

(* The strings insert_handler stored and delete_handler did not drop are   *)
(* the rows of the inner nodes, each of one: no call leaks a string, or    *)
(* leaves a row whose string is gone.                                      *)
THEOREM StringsStayOwned == Spec => []StringsOwnedOnce
  BY TreeIsWhole, StringsOwnedNow, PTL

(* The keys of a leaf are before those of one whose range is behind. *)
LEMMA LeafBefore ==
    ASSUME NEW g, NEW h, Whole(tree, g, h), NEW b, b \in Leaves, NEW c, c \in Leaves, g[b].hi <= g[c].lo
    PROVE  Below(b, c)
<1>1. Good(tree, g, h, {}, {}) /\ Tiled(g, h, MaxKey)
  BY DEF Whole, Good
<1>2. b \in DOMAIN g /\ g[b].lev = 0 /\ c \in DOMAIN g /\ g[c].lev = 0
  BY PartsAre
<1>3. ASSUME NEW d, d \in DOMAIN g, g[d].lev = 0, NEW x, x \in Rows(d)
      PROVE  x \in Nat /\ g[d].lo <= x /\ x < g[d].hi
  <2>1. LeafFits(g[d], tree.node[d].row, Key)
    BY ONLY <1>1, <1>3 DEF Good, NodeFits
  <2>2. tree.node[d].row \in Seq(Key)
    BY ONLY <2>1 DEF LeafFits
  <2>3. PICK i \in 1 .. Len(tree.node[d].row) : tree.node[d].row[i] = x
    BY ONLY <1>3, <2>2 DEF Rows, ToSet
  <2>4. x \in Key
    BY ONLY <2>2, <2>3
  <2> QED
    BY ONLY <2>1, <2>3, <2>4 DEF LeafFits, Key
<1>4. ASSUME NEW x, x \in Rows(b), NEW y, y \in Rows(c) PROVE x < y
  <2>1. x \in Nat /\ x < g[b].hi /\ y \in Nat /\ g[c].lo <= y
    BY ONLY <1>2, <1>3, <1>4
  <2>2. g[b].hi \in Nat /\ g[c].lo \in Nat
    BY ONLY <1>1, <1>2, TiledIs
  <2> QED
    BY ONLY <2>1, <2>2, g[b].hi <= g[c].lo
<1> QED
  BY ONLY <1>4 DEF Below

(* What the invariant says of the chain. *)
LEMMA LeavesChainedNow == TreeInv => LeavesChained
<1> SUFFICES ASSUME TreeInv PROVE LeavesChained
  OBVIOUS
<1>1. PICK g, h : Whole(tree, g, h)
  BY DEF TreeInv
<1>2. Good(tree, g, h, {}, {}) /\ Tiled(g, h, MaxKey) /\ Chained(tree, g, MaxKey, NoNode) /\ DOMAIN g \subseteq Nat
  <2>1. Good(tree, g, h, {}, {}) /\ Tiled(g, h, MaxKey) /\ Chained(tree, g, MaxKey, NoNode) /\ Typed(tree)
        /\ DOMAIN g \subseteq DOMAIN tree.node
    BY ONLY <1>1 DEF Whole, Good
  <2> QED
    BY ONLY <2>1, TypedIs
<1>3. \A b : b \in Leaves <=> b \in DOMAIN g /\ g[b].lev = 0
  BY ONLY <1>1, PartsAre
<1>4. \A b \in Leaves : /\ g[b].lo \in Nat /\ g[b].hi \in Nat /\ g[b].lo < g[b].hi
                        /\ g[b].lo <= MaxKey /\ b # NoNode
  <2>1. \A b \in Leaves : g[b].lo \in 0 .. MaxKey /\ g[b].lo < g[b].hi /\ g[b].hi \in Nat
    BY ONLY <1>2, <1>3, TiledIs
  <2>2. NoNode \notin Nat
    BY DEF NoNode
  <2> QED
    BY ONLY <1>2, <1>3, <2>1, <2>2, TreeAssumption
<1>5. ASSUME NEW b, b \in Leaves, NEW c, c \in Leaves, b # c
      PROVE  g[b].hi <= g[c].lo \/ g[c].hi <= g[b].lo
  <2>1. b \in DOMAIN g /\ c \in DOMAIN g /\ g[b].lev = g[c].lev
    BY ONLY <1>3, <1>5
  <2> QED
    BY ONLY <1>2, <1>5, <2>1, Apart
<1>6. ASSUME NEW b, b \in Leaves, NEW c, c \in Leaves, g[b].hi <= g[c].lo PROVE Below(b, c)
  BY ONLY <1>1, <1>6, LeafBefore
<1>7. ASSUME NEW b, b \in Leaves
      PROVE  LET row == tree.node[b].row
                 c == tree.node[b].next
             IN  /\ \A i \in 1 .. Len(row) - 1 : row[i] < row[i + 1]
                 /\ c = NoNode => \A d \in Leaves \ {b} : Below(d, b)
                 /\ c # NoNode => /\ c \in Leaves \ {b} /\ Below(b, c)
                                  /\ \A d \in Leaves \ {b, c} : Below(d, b) \/ Below(c, d)
  <2> DEFINE row == tree.node[b].row
             c == tree.node[b].next
  <2>1. \A i \in 1 .. Len(row) - 1 : row[i] < row[i + 1]
    <3>1. LeafFits(g[b], row, Key)
      BY ONLY <1>2, <1>3, <1>7 DEF Good, NodeFits
    <3> HIDE DEF row
    <3>2. Len(row) \in Nat
      BY ONLY <3>1 DEF LeafFits
    <3>3. ASSUME NEW i, i \in 1 .. Len(row) - 1 PROVE i \in 1 .. Len(row) /\ i + 1 \in 1 .. Len(row) /\ i < i + 1
      BY ONLY <3>2, <3>3
    <3>4. \A i, j \in 1 .. Len(row) : i < j => row[i] < row[j]
      BY ONLY <3>1 DEF LeafFits
    <3> QED
      BY ONLY <3>3, <3>4
  <2>2. \/ c = NoNode /\ g[b].hi = MaxKey + 1
        \/ c \in Leaves /\ g[c].lo = g[b].hi
    BY ONLY <1>2, <1>3, <1>7 DEF Chained
  <2> HIDE DEF row, c
  <2>3. ASSUME c = NoNode, NEW d, d \in Leaves \ {b} PROVE Below(d, b)
    <3>1. g[b].hi = MaxKey + 1
      BY ONLY <1>4, <2>2, <2>3
    <3>2. d \in Leaves /\ (g[b].hi <= g[d].lo \/ g[d].hi <= g[b].lo)
      BY ONLY <1>5, <1>7, <2>3
    <3>3. ~(g[b].hi <= g[d].lo)
      BY ONLY <1>4, <3>1, <3>2, TreeAssumption
    <3> QED
      BY ONLY <1>6, <1>7, <3>2, <3>3
  <2>4. ASSUME c # NoNode
        PROVE  /\ c \in Leaves \ {b} /\ Below(b, c)
               /\ \A d \in Leaves \ {b, c} : Below(d, b) \/ Below(c, d)
    <3>1. c \in Leaves /\ g[c].lo = g[b].hi
      BY ONLY <2>2, <2>4
    <3>2. c # b
      BY ONLY <1>4, <1>7, <3>1
    <3>3. g[b].hi <= g[c].lo
      BY ONLY <1>4, <1>7, <3>1
    <3>4. Below(b, c)
      BY ONLY <1>6, <1>7, <3>1, <3>3
    <3>5. ASSUME NEW d, d \in Leaves \ {b, c} PROVE Below(d, b) \/ Below(c, d)
      <4>1. d \in Leaves /\ d # b /\ d # c
        BY ONLY <3>5
      <4>2. (g[d].hi <= g[b].lo \/ g[b].hi <= g[d].lo) /\ (g[d].hi <= g[c].lo \/ g[c].hi <= g[d].lo)
        BY ONLY <1>5, <1>7, <3>1, <4>1
      <4>3. g[d].hi <= g[b].lo \/ g[c].hi <= g[d].lo
        BY ONLY <1>4, <1>7, <3>1, <4>1, <4>2
      <4> QED
        BY ONLY <1>6, <1>7, <3>1, <4>1, <4>3
    <3> QED
      BY ONLY <3>1, <3>2, <3>4, <3>5
  <2>5. c # NoNode => /\ c \in Leaves \ {b} /\ Below(b, c)
                      /\ \A d \in Leaves \ {b, c} : Below(d, b) \/ Below(c, d)
    BY ONLY <2>4
  <2> QED
    BY ONLY <2>1, <2>3, <2>5 DEF row, c
<1> QED
  BY ONLY <1>7 DEF LeavesChained

(* The next pointers lead through all leaves in the order of their keys,   *)
(* whichever leaves were split, merged or freed.                           *)
THEOREM LeavesStayChained == Spec => []LeavesChained
  BY TreeIsWhole, LeavesChainedNow, PTL

(* The free list, as following it from its head gives it. *)
LEMMA FreeNodesAre ==
    ASSUME NEW U, Spare(tree, U), Typed(tree)
    PROVE  /\ IsInjective(FreeNodes) /\ U \cap ToSet(FreeNodes) = {}
           /\ U \cup ToSet(FreeNodes) = DOMAIN tree.node
<1> DEFINE next == NextIn(tree)
           max == tree.length + 1
           first == tree.free_node_head
<1>1. PICK s : /\ IsList(next, first, NoNode, s) /\ IsInjective(s)
               /\ U \cap ToSet(s) = {} /\ U \cup ToSet(s) = DOMAIN tree.node
  BY DEF Spare, Listed
<1>2. tree.length \in Nat /\ DOMAIN tree.node = 0 .. tree.length - 1
  BY TypedIs
<1>3. max \in Nat /\ NoNode \notin DOMAIN next
  BY ONLY <1>2 DEF NextIn, NoNode
<1>4. s \in Seq(DOMAIN tree.node) /\ Len(s) \in Nat
  BY ONLY <1>1 DEF IsList, NextIn
<1>5. Len(s) <= max
  <2>1. IsFiniteSet(DOMAIN tree.node) /\ Cardinality(DOMAIN tree.node) = tree.length
    <3> DEFINE N == tree.length
               a == 0
               b == N - 1
    <3>1. N \in Nat /\ DOMAIN tree.node = a .. b /\ a \in Int /\ b \in Int /\ a = 0 /\ b = N - 1
      BY ONLY <1>2
    <3> HIDE DEF N, a, b
    <3>2. IsFiniteSet(a .. b) /\ Cardinality(a .. b) = IF a > b THEN 0 ELSE b - a + 1
      BY ONLY <3>1, FS_Interval
    <3>3. (IF a > b THEN 0 ELSE b - a + 1) = N
      BY ONLY <3>1
    <3> QED
      BY ONLY <3>1, <3>2, <3>3 DEF N
  <2>2. Len(s) <= Cardinality(DOMAIN tree.node)
    BY ONLY <1>1, <1>4, <2>1, DistinctFits
  <2> QED
    BY ONLY <1>2, <1>4, <2>1, <2>2
<1>6. FreeNodes = ListFrom(next, first, NoNode, max)
  BY ONLY TRUE DEF FreeNodes, NextIn
<1> HIDE DEF next, first, max
<1>7. FreeNodes = s
  BY ONLY <1>1, <1>3, <1>5, <1>6, ListFromIs
<1> QED
  BY ONLY <1>1, <1>7

(* What the invariant says of the parents. *)
LEMMA NodesOwnedNow == TreeInv => NodesOwnedOnce
<1> SUFFICES ASSUME TreeInv PROVE NodesOwnedOnce
  OBVIOUS
<1>1. PICK g, h : Whole(tree, g, h)
  BY DEF TreeInv
<1>2. /\ Good(tree, g, h, {}, {}) /\ Tiled(g, h, MaxKey) /\ Typed(tree) /\ Spare(tree, DOMAIN g)
      /\ g[tree.root_node].lev = h
  BY ONLY <1>1 DEF Whole, Good
<1>3. Used = DOMAIN g
  BY ONLY <1>1, PartsAre
<1>4. ASSUME NEW b, b \in DOMAIN g, NEW i, i \in DOMAIN tree.node[b].child
      PROVE  g[b].lev # 0 /\ tree.node[b].child[i] \in ToSet(tree.node[b].child)
  <2>1. g[b].lev # 0
    <3>1. ASSUME g[b].lev = 0 PROVE FALSE
      <4>1. tree.node[b].child = <<>>
        BY ONLY <1>2, <1>4, <3>1 DEF Good, NodeFits
      <4> QED
        BY ONLY <1>4, <4>1
    <3> QED
      BY ONLY <3>1
  <2> QED
    BY ONLY <1>4, <2>1 DEF ToSet
<1>5. ASSUME NEW b, b \in DOMAIN g, NEW i, i \in DOMAIN tree.node[b].child
      PROVE  tree.node[b].child[i] # tree.root_node
  <2>1. Parent(tree, g, b)
    BY ONLY <1>2, <1>4, <1>5, ParentIs
  <2> DEFINE c == tree.node[b].child[i]
  <2>2. c \in DOMAIN g /\ g[c].lev + 1 = g[b].lev
    BY ONLY <1>4, <1>5, <2>1 DEF Parent
  <2> HIDE DEF c
  <2>3. g[c].lev \in Nat /\ g[b].lev \in 0 .. h /\ h \in Nat
    BY ONLY <1>2, <1>5, <2>2, TiledIs
  <2>4. g[c].lev # h
    BY ONLY <2>2, <2>3
  <2> QED
    BY ONLY <1>2, <2>4 DEF c
<1>6. ASSUME NEW b, b \in DOMAIN g, NEW i, i \in DOMAIN tree.node[b].child,
             NEW c, c \in DOMAIN g, NEW j, j \in DOMAIN tree.node[c].child,
             tree.node[b].child[i] = tree.node[c].child[j]
      PROVE  b = c /\ i = j
  <2> DEFINE d == tree.node[b].child[i]
  <2>1. g[b].lev # 0 /\ g[c].lev # 0 /\ d \in ToSet(tree.node[b].child) /\ d \in ToSet(tree.node[c].child)
    BY ONLY <1>4, <1>6
  <2>2. NodeFits(tree, g, b) /\ NodeFits(tree, g, c)
    BY ONLY <1>2, <1>6 DEF Good
  <2> HIDE DEF d
  <2>3. b = c
    <3> DEFINE s == tree.string
               row1 == tree.node[b].row
               child1 == tree.node[b].child
               row2 == tree.node[c].row
               child2 == tree.node[c].child
    <3>1. Tiled(g, h, MaxKey) /\ InnerFits(s, g, g[b], row1, child1) /\ InnerFits(s, g, g[c], row2, child2)
      BY ONLY <1>2, <2>1, <2>2 DEF NodeFits, Good
    <3>2. d \in ToSet(child1) /\ d \in ToSet(child2)
      BY ONLY <2>1
    <3> HIDE DEF s, row1, child1, row2, child2
    <3> QED
      BY ONLY <1>6, <3>1, <3>2, OneParent
  <2> DEFINE str == tree.string
             row == tree.node[b].row
             child == tree.node[b].child
             at == g[b]
  <2>4. InnerFits(str, g, at, row, child)
    BY ONLY <2>1, <2>2 DEF NodeFits
  <2>5. at \in Place /\ Ordered(g)
    BY ONLY <1>2, <1>6, TiledIs
  <2>6. child[i] = child[j] /\ i \in DOMAIN child /\ j \in DOMAIN child
    BY ONLY <1>6, <2>3
  <2> HIDE DEF str, row, child, at
  <2>7. i \in 1 .. Len(child) /\ j \in 1 .. Len(child)
    BY ONLY <2>4, <2>6 DEF InnerFits
  <2>8. child[i] = child[j]
    BY ONLY <2>6
  <2>9. i = j
    BY ONLY <2>4, <2>5, <2>7, <2>8, FitsOnce
  <2> QED
    BY ONLY <2>3, <2>9
<1>7. /\ IsInjective(FreeNodes) /\ DOMAIN g \cap ToSet(FreeNodes) = {}
      /\ DOMAIN g \cup ToSet(FreeNodes) = 0 .. tree.length - 1
  BY ONLY <1>2, FreeNodesAre, TypedIs
<1> QED
  BY ONLY <1>3, <1>5, <1>6, <1>7 DEF NodesOwnedOnce

(* Every node of the file is in the tree once, as the child of one node,   *)
(* or on the free list once.                                               *)
THEOREM NodesStayOwned == Spec => []NodesOwnedOnce
  BY TreeIsWhole, NodesOwnedNow, PTL

(* What the invariant says of the types. *)
LEMMA TypeNow == TreeInv => TypeOK
<1> SUFFICES ASSUME TreeInv PROVE TypeOK
  OBVIOUS
<1>1. PICK g, h : Whole(tree, g, h)
  BY DEF TreeInv
<1>2. /\ Good(tree, g, h, {}, {}) /\ Tiled(g, h, MaxKey) /\ Typed(tree) /\ Spare(tree, DOMAIN g)
      /\ DOMAIN g \subseteq DOMAIN tree.node /\ tree.root_node \in DOMAIN g /\ Sized(tree, g, {})
  BY ONLY <1>1 DEF Whole, Good
<1>3. /\ tree.length \in Nat /\ DOMAIN tree.node = 0 .. tree.length - 1
      /\ DOMAIN tree.string \subseteq Nat /\ tree.string \in [DOMAIN tree.string -> Key]
  BY ONLY <1>2, TypedIs
<1>4. tree.free_node_head \in DOMAIN tree.node \cup {NoNode}
  <2>1. PICK s : IsList(NextIn(tree), tree.free_node_head, NoNode, s)
    BY ONLY <1>2 DEF Spare, Listed
  <2>2. s \in Seq(DOMAIN tree.node)
    BY ONLY <2>1 DEF IsList, NextIn
  <2>3. CASE s = <<>>
    BY ONLY <2>1, <2>3 DEF IsList
  <2>4. CASE s # <<>>
    <3>1. 1 \in 1 .. Len(s)
      BY ONLY <2>2, <2>4
    <3>2. s[1] \in DOMAIN tree.node
      BY ONLY <2>2, <3>1
    <3> QED
      BY ONLY <2>1, <2>4, <3>2 DEF IsList
  <2> QED
    BY ONLY <2>3, <2>4
<1>5. ASSUME NEW b, b \in DOMAIN tree.node
      PROVE  /\ tree.node[b].leaf \in BOOLEAN
             /\ tree.node[b].row \in Seq(IF tree.node[b].leaf THEN Key ELSE DOMAIN tree.string)
             /\ Len(tree.node[b].row) <= 2 * DEGREE
             /\ tree.node[b].child \in Seq(DOMAIN tree.node)
             /\ tree.node[b].next \in DOMAIN tree.node \cup {NoNode}
  <2>1. tree.node[b].leaf \in BOOLEAN
    BY ONLY <1>2, <1>5, NodeIs
  <2>2. tree.node[b].next \in DOMAIN tree.node \cup {NoNode}
    BY ONLY <1>2, <1>5 DEF Spare, Links
  <2>3. \A S : <<>> \in Seq(S) /\ Len(<<>>) = 0
    OBVIOUS
  <2>4. CASE b \notin DOMAIN g
    <3>1. tree.node[b].row = <<>> /\ tree.node[b].child = <<>>
      BY ONLY <1>2, <1>5, <2>4 DEF Spare
    <3>2. 0 <= 2 * DEGREE
      BY ONLY TreeAssumption
    <3> QED
      BY ONLY <2>1, <2>2, <2>3, <3>1, <3>2
  <2>5. CASE b \in DOMAIN g /\ g[b].lev = 0
    <3>1. tree.node[b].leaf /\ tree.node[b].child = <<>> /\ tree.node[b].row \in Seq(Key)
      BY ONLY <1>2, <2>5 DEF Good, NodeFits, LeafFits
    <3>2. Len(tree.node[b].row) <= 2 * DEGREE
      BY ONLY <1>2, <2>5 DEF Sized
    <3> QED
      BY ONLY <2>1, <2>2, <2>3, <3>1, <3>2
  <2>6. CASE b \in DOMAIN g /\ g[b].lev # 0
    <3>1. ~tree.node[b].leaf
      BY ONLY <1>2, <2>6 DEF Good
    <3>2. Len(tree.node[b].row) <= 2 * DEGREE
      BY ONLY <1>2, <2>6 DEF Sized
    <3>3. Parent(tree, g, b)
      BY ONLY <1>2, <2>6, ParentIs
    <3> DEFINE child == tree.node[b].child
    <3>4. tree.node[b].row \in Seq(DOMAIN tree.string) /\ child \in Seq(DOMAIN g)
      BY ONLY <3>3 DEF Parent
    <3> HIDE DEF child
    <3>5. child \in Seq(DOMAIN tree.node)
      BY ONLY <1>2, <3>4
    <3> QED
      BY ONLY <2>1, <2>2, <3>1, <3>2, <3>4, <3>5 DEF child
  <2> QED
    BY ONLY <2>4, <2>5, <2>6
<1>6. tree.root_node \in DOMAIN tree.node /\ \A s \in DOMAIN tree.string : tree.string[s] \in Key
  BY ONLY <1>2, <1>3
<1> QED
  BY ONLY <1>3, <1>4, <1>5, <1>6 DEF TypeOK

(* The root is a node of the file, links are nodes or none, and rows and   *)
(* children have the lengths that fit a node.                              *)
THEOREM TypeCorrect == Spec => []TypeOK
  BY TreeIsWhole, TypeNow, PTL

(* The stored keys are those in the leaves. *)
LEMMA StoredIs == \A g, h : Whole(tree, g, h) => Stored = KeysIn(tree, g)
  BY PartsAre

(* A call changes the keys as the abstract index does. *)
LEMMA StepIsIndexStep ==
    ASSUME TreeInv, (\A g, h : Whole(tree, g, h) => Stored = KeysIn(tree, g))', NEW k, k \in Key
    PROVE  /\ b_tree_insert(k) => Index!Add(k)
           /\ b_tree_delete(k) => Index!Drop(k)
<1>1. PICK g, h : Whole(tree, g, h)
  BY DEF TreeInv
<1>2. Stored = KeysIn(tree, g)
  BY ONLY <1>1, StoredIs
<1>3. ASSUME NEW K, Becomes(tree', K) PROVE Stored' = K
  <2>1. PICK g2, h2 : Whole(tree', g2, h2) /\ KeysIn(tree', g2) = K
    BY <1>3 DEF Becomes
  <2> QED
    BY <2>1
<1>4. ASSUME b_tree_insert(k) PROVE Index!Add(k)
  <2>1. k \notin KeysIn(tree, g) /\ Becomes(tree', KeysIn(tree, g) \cup {k})
    BY <1>1, <1>4, InsertStep
  <2>2. Stored' = Stored \cup {k} /\ k \notin Stored
    BY ONLY <1>2, <1>3, <2>1
  <2> QED
    BY ONLY <2>2 DEF Index!Add
<1>5. ASSUME b_tree_delete(k) PROVE Index!Drop(k)
  <2>1. k \in KeysIn(tree, g) /\ Becomes(tree', KeysIn(tree, g) \ {k})
    BY <1>1, <1>5, DeleteStep
  <2>2. Stored' = Stored \ {k} /\ k \in Stored
    BY ONLY <1>2, <1>3, <2>1
  <2> QED
    BY ONLY <2>2 DEF Index!Drop
<1> QED
  BY <1>4, <1>5

(* The tree implements the set of keys KeyIndex describes: b_tree_insert   *)
(* adds a key, b_tree_delete removes one, and nothing else changes the     *)
(* keys, whatever happens to the nodes.                                    *)
THEOREM TreeIsKeyIndex == Spec => ImplementsKeyIndex
<1> DEFINE Same == \A g, h : Whole(tree, g, h) => Stored = KeysIn(tree, g)
           Step == \A k \in Key : /\ b_tree_insert(k) => Index!Add(k)
                                  /\ b_tree_delete(k) => Index!Drop(k)
<1>1. Same
  BY StoredIs
<1>2. Init => Index!Init
  <2> SUFFICES ASSUME Init PROVE Stored = {}
    BY DEF Index!Init
  <2> QED
    BY InitIsWhole, StoredIs
<1>3. TreeInv /\ Same' => Step
  BY StepIsIndexStep
<1>4. [Next]_tree /\ Step => [Index!Next]_Stored
  <2>1. ASSUME NEW k \in Key, Step, b_tree_insert(k) PROVE Index!Next
    BY <2>1 DEF Index!Next
  <2>2. ASSUME NEW k \in Key, Step, b_tree_delete(k) PROVE Index!Next
    BY <2>2 DEF Index!Next
  <2>3. ASSUME UNCHANGED tree PROVE Stored' = Stored
    BY <2>3 DEF Stored, Leaves, Used, Rows
  <2> HIDE DEF Step
  <2> QED
    BY <2>1, <2>2, <2>3 DEF Next
<1> HIDE DEF Same, Step
<1>5. Spec => Index!Init /\ [][Index!Next]_Stored /\ [][Step]_tree
  BY <1>1, <1>2, <1>3, <1>4, TreeIsWhole, PTL DEF Spec
<1> QED
  BY <1>5, PTL DEF ImplementsKeyIndex, Index!Spec, Step
=============================================================================
