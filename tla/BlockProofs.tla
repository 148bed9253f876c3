---------------------------- MODULE BlockProofs ----------------------------
(***************************************************************************)
(* Proofs about Block for every page size, id size and set of items: the   *)
(* layout of the page and that it implements ItemStore.                    *)
(***************************************************************************)
EXTENDS Block, TLAPS

(* An id that is moved up keeps its size and stays as used as it was.      *)
LEMMA MoveUpFields ==
    ASSUME NEW id \in ItemId, NEW o \in Int, NEW s \in Int
    PROVE  /\ MoveUp(id, o, s).available = id.available
           /\ MoveUp(id, o, s).size = id.size
           /\ MoveUp(id, o, s).offset =
                IF id.offset < o /\ id.available = 0 THEN id.offset + s ELSE id.offset
           /\ MoveUp(id, o, s) = [available |-> MoveUp(id, o, s).available,
                                  offset |-> MoveUp(id, o, s).offset,
                                  size |-> MoveUp(id, o, s).size]
  BY DEF MoveUp, Below, ItemId

LEMMA NatProduct == \A m, n \in Nat : m * n \in Nat
  OBVIOUS

LEMMA NatFactor == \A m \in Nat \ {0}, n \in Nat : n <= m * n
  OBVIOUS

LEMMA ItemFacts ==
    ASSUME NEW item \in Items
    PROVE  /\ Len(item) \in Nat \ {0}
           /\ \A k \in 1 .. Len(item) : item[k] \in Byte
  BY BlockAssumption

(* What is used of the layout, with the arithmetic made explicit.          *)
LEMMA LayoutFacts ==
    ASSUME IInv
    PROVE  /\ n_items \in Nat /\ head_ptr \in Nat /\ tail_ptr \in Nat
           /\ tail_ptr <= PAGE_SIZE /\ head_ptr <= tail_ptr
           /\ \A i \in InUse :
                /\ i \in 0 .. n_items - 1 /\ ids[i] \in ItemId /\ ids[i].available = 0
                /\ Start(i) \in Nat /\ ids[i].size \in Nat \ {0}
                /\ End(i) = Start(i) + ids[i].size
                /\ tail_ptr <= Start(i) /\ End(i) <= PAGE_SIZE
           /\ \A i, j \in InUse : i # j => End(i) <= Start(j) \/ End(j) <= Start(i)
  <1>1. /\ n_items \in Nat /\ head_ptr \in Nat /\ tail_ptr \in Nat
        /\ tail_ptr <= PAGE_SIZE /\ head_ptr <= tail_ptr
    BY BlockAssumption DEF IInv, TypeOK, ItemsApart
  <1>2. ASSUME NEW i \in InUse
        PROVE  /\ i \in 0 .. n_items - 1 /\ ids[i] \in ItemId /\ ids[i].available = 0
               /\ ids[i].offset \in 0 .. PAGE_SIZE /\ ids[i].size \in 0 .. PAGE_SIZE
    BY DEF InUse, IInv, TypeOK, ItemId
  <1>3. ASSUME NEW i \in InUse
        PROVE  /\ Start(i) \in Nat /\ ids[i].size \in Nat \ {0}
               /\ End(i) = Start(i) + ids[i].size
               /\ tail_ptr <= Start(i) /\ End(i) <= PAGE_SIZE
    BY <1>2, BlockAssumption DEF IInv, ItemsApart, Start, End
  <1>4. \A i, j \in InUse : i # j => End(i) <= Start(j) \/ End(j) <= Start(i)
    BY DEF IInv, ItemsApart
  <1> QED
    BY <1>1, <1>2, <1>3, <1>4

LEMMA InitIInv == Init => IInv
  <1> SUFFICES ASSUME Init PROVE IInv
    OBVIOUS
  <1>1. InUse = {} /\ ids \in [0 .. n_items - 1 -> ItemId]
    BY DEF Init, InUse
  <1>2. TypeOK
    BY <1>1, BlockAssumption DEF Init, TypeOK
  <1>3. ItemsApart /\ NoHoles
    BY <1>1, BlockAssumption DEF Init, ItemsApart, NoHoles
  <1> QED
    BY <1>2, <1>3 DEF IInv

-----------------------------------------------------------------------------
(* An item put right below the others, under an id i that was not in use,  *)
(* overlaps nothing and leaves no hole.                                    *)
LEMMA PutApart ==
    ASSUME IInv, NEW item \in Items, NEW i \in Int, i \notin InUse,
           InUse' = InUse \cup {i},
           ids'[i] = compose_item_id(0, tail_ptr - Len(item), Len(item)),
           \A k \in InUse : ids'[k] = ids[k],
           tail_ptr' = tail_ptr - Len(item), tail_ptr' >= 0,
           head_ptr' = HeaderSize + IdSize * n_items',
           head_ptr' <= tail_ptr'
    PROVE  ItemsApart' /\ NoHoles'
  <1>1. Len(item) \in Nat \ {0}
    BY ItemFacts
  <1>2. ids'[i].offset = tail_ptr - Len(item) /\ ids'[i].size = Len(item)
    BY DEF compose_item_id
  <1>3. tail_ptr \in Nat /\ tail_ptr <= PAGE_SIZE /\ PAGE_SIZE \in Nat
    BY LayoutFacts, BlockAssumption
  <1>4. Start(i)' = tail_ptr' /\ End(i)' = tail_ptr
    BY <1>1, <1>2, <1>3 DEF Start, End
  <1>5. \A k \in InUse : Start(k)' = Start(k) /\ End(k)' = End(k) /\ k # i
    BY DEF Start, End
  <1>6. \A k \in InUse : /\ Start(k) \in Nat /\ End(k) \in Nat
                         /\ tail_ptr <= Start(k) /\ Start(k) < End(k) /\ End(k) <= PAGE_SIZE
    BY LayoutFacts, SMTT(30)
  <1>7. \A k \in InUse' : /\ tail_ptr' <= Start(k)' /\ Start(k)' < End(k)'
                          /\ End(k)' <= PAGE_SIZE
    BY <1>1, <1>3, <1>4, <1>5, <1>6
  <1>8. \A k, j \in InUse' : k # j => End(k)' <= Start(j)' \/ End(j)' <= Start(k)'
    BY <1>4, <1>5, <1>6, LayoutFacts
  <1>9. ItemsApart'
    BY <1>7, <1>8 DEF ItemsApart
  <1>10. NoHoles'
    <2> SUFFICES ASSUME NEW p \in tail_ptr' .. PAGE_SIZE - 1
                 PROVE  \E k \in InUse' : Start(k)' <= p /\ p < End(k)'
      BY DEF NoHoles
    <2>1. CASE p < tail_ptr
      BY <1>1, <1>3, <1>4, <2>1
    <2>2. CASE p >= tail_ptr
      <3>1. p \in tail_ptr .. PAGE_SIZE - 1
        BY <1>1, <1>3, <2>2
      <3>2. PICK k \in InUse : Start(k) <= p /\ p < End(k)
        BY <3>1 DEF IInv, NoHoles
      <3> QED
        BY <1>5, <3>2
    <2> QED
      BY <1>1, <1>3, <2>1, <2>2
  <1> QED
    BY <1>9, <1>10

(* new_item keeps the bytes of the page bytes.                             *)
LEMMA PutBytesType ==
    ASSUME IInv, NEW item \in Items, PutBytes(item)
    PROVE  bytes' \in [Pos -> Byte]
  <1>1. Len(item) \in Nat \ {0} /\ tail_ptr \in Nat
    BY ItemFacts, LayoutFacts
  <1>2. \A p \in Pos : tail_ptr - Len(item) <= p /\ p < tail_ptr
           => p - (tail_ptr - Len(item)) + 1 \in 1 .. Len(item)
    BY <1>1, BlockAssumption DEF Pos
  <1>3. \A p \in Pos : bytes[p] \in Byte
    BY DEF IInv, TypeOK
  <1> QED
    BY <1>2, <1>3, ItemFacts DEF PutBytes

(* The item is under an id that was not in use, the other items keep       *)
(* theirs.                                                                 *)
Puts(i, item) ==
    /\ i \notin InUse
    /\ InUse' = InUse \cup {i}
    /\ ids'[i] = compose_item_id(0, tail_ptr - Len(item), Len(item))
    /\ \A k \in InUse : ids'[k] = ids[k]
    /\ PutBytes(item)

LEMMA IndexBound ==
    ASSUME IInv
    PROVE  n_items <= PAGE_SIZE /\ 0 .. n_items - 1 \subseteq Slots
  <1>1. n_items \in Nat /\ head_ptr \in Nat /\ head_ptr <= PAGE_SIZE
    BY LayoutFacts, BlockAssumption DEF IInv, TypeOK
  <1>2. head_ptr = HeaderSize + IdSize * n_items /\ n_items <= IdSize * n_items
        /\ IdSize * n_items \in Nat
    BY <1>1, NatFactor, NatProduct, BlockAssumption DEF IInv, ItemsApart
  <1> QED
    BY <1>1, <1>2, BlockAssumption DEF Slots

LEMMA NewInFreeIdStep ==
    ASSUME IInv, NEW item \in Items, NewInFreeId(item)
    PROVE  IInv' /\ \E i \in Slots : Puts(i, item)
  <1>1. PICK i \in 0 .. n_items - 1 :
          /\ ids[i].available = 1
          /\ ids' = [ids EXCEPT ![i] = compose_item_id(0, tail_ptr - Len(item), Len(item))]
    BY DEF NewInFreeId
  <1>2. /\ Len(item) <= free_space /\ tail_ptr' = tail_ptr - Len(item)
        /\ UNCHANGED <<n_items, head_ptr>>
    BY DEF NewInFreeId, PutBytes
  <1>3. Len(item) \in Nat \ {0} /\ tail_ptr \in Nat /\ head_ptr \in Nat /\ tail_ptr <= PAGE_SIZE
    BY ItemFacts, LayoutFacts
  <1>4. head_ptr' <= tail_ptr' /\ tail_ptr' >= 0
    BY <1>1, <1>2, <1>3 DEF free_space, HasFreeId
  <1>5. ids \in [0 .. n_items - 1 -> ItemId]
    BY DEF IInv, TypeOK
  <1>6. compose_item_id(0, tail_ptr - Len(item), Len(item)) \in ItemId
    BY <1>2, <1>3, <1>4, BlockAssumption DEF compose_item_id, ItemId
  <1>7. TypeOK'
    BY <1>1, <1>2, <1>3, <1>4, <1>5, <1>6, PutBytesType, BlockAssumption
    DEF IInv, TypeOK, NewInFreeId
  <1>8. i \notin InUse /\ InUse' = InUse \cup {i}
    <2>1. \A k \in 0 .. n_items - 1 : k # i => ids'[k] = ids[k]
      BY <1>1, <1>5
    <2>2. ids'[i].available = 0
      BY <1>1, <1>5 DEF compose_item_id
    <2> QED
      BY <1>1, <1>2, <2>1, <2>2 DEF InUse
  <1>9. ids'[i] = compose_item_id(0, tail_ptr - Len(item), Len(item))
        /\ \A k \in InUse : ids'[k] = ids[k]
    BY <1>1, <1>5, <1>8 DEF InUse
  <1>10. head_ptr' = HeaderSize + IdSize * n_items'
    BY <1>2 DEF IInv, ItemsApart
  <1>11. IInv'
    BY <1>2, <1>4, <1>7, <1>8, <1>9, <1>10, PutApart DEF IInv
  <1>12. i \in Slots /\ PutBytes(item)
    BY IndexBound DEF NewInFreeId
  <1> QED
    BY <1>8, <1>9, <1>11, <1>12 DEF Puts

LEMMA NewInNewIdStep ==
    ASSUME IInv, NEW item \in Items, NewInNewId(item)
    PROVE  IInv' /\ \E i \in Slots : Puts(i, item)
  <1> DEFINE i == n_items
  <1>1. /\ Len(item) <= free_space /\ ~HasFreeId
        /\ tail_ptr' = tail_ptr - Len(item)
        /\ head_ptr' = head_ptr + IdSize
        /\ n_items' = n_items + 1
        /\ ids' = [k \in 0 .. n_items |->
                     IF k = n_items THEN compose_item_id(0, tail_ptr - Len(item), Len(item))
                     ELSE ids[k]]
    BY DEF NewInNewId, PutBytes
  <1>2. /\ Len(item) \in Nat \ {0} /\ tail_ptr \in Nat /\ head_ptr \in Nat
        /\ tail_ptr <= PAGE_SIZE /\ n_items \in Nat
    BY ItemFacts, LayoutFacts
  <1>3. head_ptr' <= tail_ptr' /\ tail_ptr' >= 0
    BY <1>1, <1>2, BlockAssumption DEF free_space
  <1>4. ids \in [0 .. n_items - 1 -> ItemId]
    BY DEF IInv, TypeOK
  <1>5. compose_item_id(0, tail_ptr - Len(item), Len(item)) \in ItemId
    BY <1>1, <1>2, <1>3, BlockAssumption DEF compose_item_id, ItemId
  <1>6. 0 .. n_items' - 1 = 0 .. n_items
    BY <1>1, <1>2
  <1>7. TypeOK'
    <2>1. ids' \in [0 .. n_items' - 1 -> ItemId]
      BY <1>1, <1>2, <1>4, <1>5, <1>6
    <2>2. n_items' \in Nat /\ head_ptr' \in 0 .. PAGE_SIZE /\ tail_ptr' \in 0 .. PAGE_SIZE
      BY <1>1, <1>2, <1>3, BlockAssumption
    <2> QED
      BY <2>1, <2>2, PutBytesType DEF TypeOK, NewInNewId
  <1>8. i \notin InUse /\ InUse' = InUse \cup {i}
    <2>1. \A k \in 0 .. n_items - 1 : ids'[k] = ids[k]
      BY <1>1, <1>2
    <2>2. ids'[i].available = 0
      BY <1>1, <1>2 DEF compose_item_id
    <2>3. 0 .. n_items = (0 .. n_items - 1) \cup {n_items} /\ n_items \notin 0 .. n_items - 1
      BY <1>2
    <2> QED
      BY <1>6, <2>1, <2>2, <2>3 DEF InUse
  <1>9. ids'[i] = compose_item_id(0, tail_ptr - Len(item), Len(item))
        /\ \A k \in InUse : ids'[k] = ids[k]
    BY <1>1, <1>2, <1>8 DEF InUse
  <1>10. head_ptr' = HeaderSize + IdSize * n_items'
    BY <1>1, <1>2, BlockAssumption DEF IInv, ItemsApart
  <1>11. i \in Int
    BY <1>2
  <1>12. IInv'
    BY <1>1, <1>3, <1>7, <1>8, <1>9, <1>10, <1>11, PutApart DEF IInv
  <1>13. i \in Slots /\ PutBytes(item)
    BY <1>2, IndexBound, BlockAssumption DEF Slots, NewInNewId
  <1> QED
    BY <1>8, <1>9, <1>12, <1>13 DEF Puts

-----------------------------------------------------------------------------
(* Where the items are once the gap of the deleted item d is closed: those *)
(* below it have moved up by its size.                                     *)
LEMMA MovedItems ==
    ASSUME IInv, NEW d \in InUse,
           \A k \in InUse \ {d} : ids'[k] = MoveUp(ids[k], ids[d].offset, ids[d].size)
    PROVE  \A k \in InUse \ {d} :
             /\ ids'[k].available = 0 /\ ids'[k].size = ids[k].size /\ ids'[k].offset \in Int
             /\ End(k) <= Start(d) => Start(k)' = Start(k) + ids[d].size
                                      /\ End(k)' = End(k) + ids[d].size
             /\ Start(k) >= End(d) => Start(k)' = Start(k) /\ End(k)' = End(k)
  <1> TAKE k \in InUse \ {d}
  <1>1. /\ ids[k] \in ItemId /\ ids[k].available = 0
        /\ Start(k) \in Nat /\ ids[k].size \in Nat \ {0} /\ End(k) = Start(k) + ids[k].size
        /\ Start(d) \in Nat /\ ids[d].size \in Nat \ {0} /\ End(d) = Start(d) + ids[d].size
    BY LayoutFacts
  <1>2. ids[d].offset = Start(d) /\ ids[k].offset = Start(k)
    BY DEF Start
  <1>3. /\ ids'[k].available = ids[k].available
        /\ ids'[k].size = ids[k].size
        /\ ids'[k].offset =
             IF ids[k].offset < ids[d].offset /\ ids[k].available = 0
             THEN ids[k].offset + ids[d].size ELSE ids[k].offset
    BY <1>1, <1>2, MoveUpFields
  <1>4. Start(k)' = ids'[k].offset /\ End(k)' = ids'[k].offset + ids'[k].size
    BY DEF Start, End
  <1> QED
    BY <1>1, <1>2, <1>3, <1>4

LEMMA GapClosed ==
    ASSUME IInv, NEW d \in InUse, InUse' = InUse \ {d},
           \A k \in InUse \ {d} : ids'[k] = MoveUp(ids[k], ids[d].offset, ids[d].size),
           tail_ptr' = tail_ptr + ids[d].size,
           head_ptr' = HeaderSize + IdSize * n_items', head_ptr' <= head_ptr
    PROVE  ItemsApart' /\ NoHoles' /\ tail_ptr' \in 0 .. PAGE_SIZE
  <1> DEFINE s == ids[d].size
  <1>1. /\ head_ptr \in Nat /\ tail_ptr \in Nat /\ head_ptr <= tail_ptr
        /\ Start(d) \in Nat /\ s \in Nat \ {0} /\ End(d) = Start(d) + s
        /\ tail_ptr <= Start(d) /\ End(d) <= PAGE_SIZE /\ PAGE_SIZE \in Nat
    BY LayoutFacts, BlockAssumption
  <1>2. \A k \in InUse \ {d} :
          /\ Start(k) \in Nat /\ ids[k].size \in Nat \ {0} /\ End(k) = Start(k) + ids[k].size
          /\ tail_ptr <= Start(k) /\ End(k) <= PAGE_SIZE
          /\ End(k) <= Start(d) \/ Start(k) >= End(d)
    BY LayoutFacts
  <1>3. \A k \in InUse \ {d} :
          /\ End(k) <= Start(d) => Start(k)' = Start(k) + s /\ End(k)' = End(k) + s
          /\ Start(k) >= End(d) => Start(k)' = Start(k) /\ End(k)' = End(k)
    BY MovedItems
  <1> HIDE DEF s
  <1>4. \A k \in InUse' : /\ tail_ptr' <= Start(k)' /\ Start(k)' < End(k)'
                          /\ End(k)' <= PAGE_SIZE
    BY <1>1, <1>2, <1>3 DEF s
  <1>5. \A k, j \in InUse' : k # j => End(k)' <= Start(j)' \/ End(j)' <= Start(k)'
    <2> SUFFICES ASSUME NEW k \in InUse \ {d}, NEW j \in InUse \ {d}, k # j
                 PROVE  End(k)' <= Start(j)' \/ End(j)' <= Start(k)'
      OBVIOUS
    <2>1. End(k) <= Start(j) \/ End(j) <= Start(k)
      BY LayoutFacts
    <2> QED
      BY <1>1, <1>2, <1>3, <2>1
  <1>6. ItemsApart'
    BY <1>1, <1>4, <1>5 DEF ItemsApart, s
  <1>7. NoHoles'
    <2> SUFFICES ASSUME NEW p \in tail_ptr' .. PAGE_SIZE - 1
                 PROVE  \E k \in InUse' : Start(k)' <= p /\ p < End(k)'
      BY DEF NoHoles
    <2>0. p \in Int /\ p >= tail_ptr + s /\ p < PAGE_SIZE
      BY <1>1 DEF s
    <2>1. CASE p < End(d)
      <3>1. p - s \in tail_ptr .. PAGE_SIZE - 1 /\ p - s < Start(d)
        BY <1>1, <2>0, <2>1
      <3>2. PICK k \in InUse : Start(k) <= p - s /\ p - s < End(k)
        BY <3>1 DEF IInv, NoHoles
      <3>3. k # d /\ End(k) <= Start(d)
        BY <1>1, <1>2, <2>0, <3>1, <3>2
      <3> QED
        BY <1>1, <1>2, <1>3, <2>0, <3>2, <3>3
    <2>2. CASE p >= End(d)
      <3>1. p \in tail_ptr .. PAGE_SIZE - 1
        BY <1>1, <2>0
      <3>2. PICK k \in InUse : Start(k) <= p /\ p < End(k)
        BY <3>1 DEF IInv, NoHoles
      <3>3. k # d /\ Start(k) >= End(d)
        BY <1>1, <1>2, <2>0, <2>2, <3>2
      <3> QED
        BY <1>3, <3>2, <3>3
    <2> QED
      BY <1>1, <2>0, <2>1, <2>2
  <1>8. tail_ptr' \in 0 .. PAGE_SIZE
    BY <1>1 DEF s
  <1> QED
    BY <1>6, <1>7, <1>8

(* The ids and the bytes keep their types.                                 *)
LEMMA CloseGapType ==
    ASSUME IInv, NEW d \in InUse, CloseGap(ids[d].offset, ids[d].size)
    PROVE  /\ bytes' \in [Pos -> Byte]
           /\ \A k \in 0 .. n_items - 1 : MoveUp(ids[k], ids[d].offset, ids[d].size) \in ItemId
  <1>1. /\ tail_ptr \in Nat /\ Start(d) \in Nat /\ ids[d].size \in Nat \ {0}
        /\ End(d) = Start(d) + ids[d].size /\ tail_ptr <= Start(d) /\ End(d) <= PAGE_SIZE
        /\ PAGE_SIZE \in Nat /\ ids[d].offset = Start(d)
    BY LayoutFacts, BlockAssumption DEF Start
  <1>2. bytes' \in [Pos -> Byte]
    <2>1. \A p \in Pos : tail_ptr + ids[d].size <= p /\ p < ids[d].offset + ids[d].size
             => p - ids[d].size \in Pos
      BY <1>1 DEF Pos
    <2>2. \A p \in Pos : bytes[p] \in Byte
      BY DEF IInv, TypeOK
    <2> QED
      BY <2>1, <2>2 DEF CloseGap
  <1>3. ASSUME NEW k \in 0 .. n_items - 1
        PROVE  MoveUp(ids[k], ids[d].offset, ids[d].size) \in ItemId
    <2>1. ids[k] \in ItemId
      BY DEF IInv, TypeOK
    <2>2. ids[k].offset \in 0 .. PAGE_SIZE /\ ids[k].size \in 0 .. PAGE_SIZE
          /\ ids[k].available \in {0, 1}
      BY <2>1 DEF ItemId
    <2>3. ids[k].available = 0 /\ ids[k].offset < ids[d].offset
             => ids[k].offset + ids[d].size \in 0 .. PAGE_SIZE
      BY <1>1, <2>2
    <2> DEFINE m == MoveUp(ids[k], ids[d].offset, ids[d].size)
    <2>4. /\ m.available = ids[k].available
          /\ m.size = ids[k].size
          /\ m.offset = (IF ids[k].offset < ids[d].offset /\ ids[k].available = 0
                         THEN ids[k].offset + ids[d].size ELSE ids[k].offset)
          /\ m = [available |-> m.available, offset |-> m.offset, size |-> m.size]
      BY <1>1, <2>1, MoveUpFields
    <2> HIDE DEF m
    <2>5. m \in ItemId
      BY <2>2, <2>3, <2>4 DEF ItemId
    <2> QED
      BY <2>5 DEF m
  <1> QED
    BY <1>2, <1>3

LEMMA DeleteLastStep ==
    ASSUME IInv, DeleteLast
    PROVE  LET d == n_items - 1 IN
             /\ d \in InUse /\ InUse' = InUse \ {d}
             /\ \A k \in InUse \ {d} : ids'[k] = MoveUp(ids[k], ids[d].offset, ids[d].size)
             /\ CloseGap(ids[d].offset, ids[d].size)
             /\ IInv'
  <1> DEFINE d == n_items - 1
  <1>1. /\ d \in InUse
        /\ n_items' = n_items - 1
        /\ head_ptr' = head_ptr - IdSize
        /\ ids' = [k \in 0 .. n_items - 2 |-> MoveUp(ids[k], ids[d].offset, ids[d].size)]
        /\ CloseGap(ids[d].offset, ids[d].size)
    BY DEF DeleteLast
  <1>2. n_items \in Nat /\ d \in 0 .. n_items - 1 /\ n_items' - 1 = n_items - 2
    BY <1>1 DEF IInv, TypeOK, InUse
  <1>3. \A k \in 0 .. n_items - 2 :
          /\ k \in 0 .. n_items - 1 /\ k # d
          /\ ids'[k] = MoveUp(ids[k], ids[d].offset, ids[d].size)
          /\ ids'[k].available = ids[k].available
    <2> TAKE k \in 0 .. n_items - 2
    <2>1. k \in 0 .. n_items - 1 /\ k # d
      BY <1>2
    <2>2. ids'[k] = MoveUp(ids[k], ids[d].offset, ids[d].size)
      BY <1>1
    <2>3. ids[k] \in ItemId /\ ids[d].offset \in Int /\ ids[d].size \in Int
      BY <1>2, <2>1 DEF IInv, TypeOK, ItemId
    <2> QED
      BY <2>1, <2>2, <2>3, MoveUpFields
  <1>4. InUse' = InUse \ {d}
    <2>1. 0 .. n_items - 1 = (0 .. n_items - 2) \cup {d} /\ d \notin 0 .. n_items - 2
      BY <1>2
    <2>2. InUse' = {k \in 0 .. n_items - 2 : ids'[k].available = 0}
      BY <1>2 DEF InUse
    <2> QED
      BY <1>3, <2>1, <2>2 DEF InUse
  <1>5. \A k \in InUse \ {d} : ids'[k] = MoveUp(ids[k], ids[d].offset, ids[d].size)
    <2>1. \A k \in InUse \ {d} : k \in 0 .. n_items - 2
      BY <1>2 DEF InUse
    <2> QED
      BY <1>3, <2>1
  <1>6. head_ptr' = HeaderSize + IdSize * n_items' /\ head_ptr' <= head_ptr
    BY <1>1, <1>2, BlockAssumption DEF IInv, ItemsApart
  <1>7. tail_ptr' = tail_ptr + ids[d].size
    BY <1>1 DEF CloseGap
  <1>8. ItemsApart' /\ NoHoles' /\ tail_ptr' \in 0 .. PAGE_SIZE
    BY <1>1, <1>4, <1>5, <1>6, <1>7, GapClosed
  <1>9. TypeOK'
    <2>1. n_items' \in Nat
      BY <1>1, <1>2
    <2>2. IdSize * n_items' \in Nat
      BY <2>1, NatProduct, BlockAssumption
    <2>3. head_ptr' \in 0 .. PAGE_SIZE
      BY <1>6, <2>2, LayoutFacts, BlockAssumption
    <2>4. ids' \in [0 .. n_items' - 1 -> ItemId] /\ bytes' \in [Pos -> Byte]
      BY <1>1, <1>2, <1>3, CloseGapType
    <2> QED
      BY <1>8, <2>1, <2>3, <2>4 DEF TypeOK
  <1> QED
    BY <1>1, <1>4, <1>5, <1>8, <1>9 DEF IInv

LEMMA DeleteInnerStep ==
    ASSUME IInv, NEW d \in 0 .. n_items - 1, DeleteInner(d)
    PROVE  /\ d \in InUse /\ InUse' = InUse \ {d}
           /\ \A k \in InUse \ {d} : ids'[k] = MoveUp(ids[k], ids[d].offset, ids[d].size)
           /\ CloseGap(ids[d].offset, ids[d].size)
           /\ IInv'
  <1>1. /\ d \in InUse
        /\ ids' = [k \in 0 .. n_items - 1 |->
                     IF k = d THEN compose_item_id(1, 0, 0)
                     ELSE MoveUp(ids[k], ids[d].offset, ids[d].size)]
        /\ CloseGap(ids[d].offset, ids[d].size)
        /\ UNCHANGED <<n_items, head_ptr>>
    BY DEF DeleteInner
  <1>2. ids'[d].available = 1 /\ compose_item_id(1, 0, 0) \in ItemId
    BY <1>1, BlockAssumption DEF compose_item_id, ItemId
  <1>3. \A k \in (0 .. n_items - 1) \ {d} :
          /\ ids'[k] = MoveUp(ids[k], ids[d].offset, ids[d].size)
          /\ ids'[k].available = ids[k].available
    <2> TAKE k \in (0 .. n_items - 1) \ {d}
    <2>1. ids'[k] = MoveUp(ids[k], ids[d].offset, ids[d].size)
      BY <1>1
    <2>2. ids[k] \in ItemId /\ ids[d].offset \in Int /\ ids[d].size \in Int
      BY DEF IInv, TypeOK, ItemId
    <2> QED
      BY <2>1, <2>2, MoveUpFields
  <1>4. InUse' = InUse \ {d}
    BY <1>1, <1>2, <1>3 DEF InUse
  <1>5. \A k \in InUse \ {d} : ids'[k] = MoveUp(ids[k], ids[d].offset, ids[d].size)
    BY <1>3 DEF InUse
  <1>6. head_ptr' = HeaderSize + IdSize * n_items' /\ head_ptr' <= head_ptr
    BY <1>1, LayoutFacts DEF IInv, ItemsApart
  <1>7. tail_ptr' = tail_ptr + ids[d].size
    BY <1>1 DEF CloseGap
  <1>8. ItemsApart' /\ NoHoles' /\ tail_ptr' \in 0 .. PAGE_SIZE
    BY <1>1, <1>4, <1>5, <1>6, <1>7, GapClosed
  <1>9. TypeOK'
    <2>1. ids' \in [0 .. n_items' - 1 -> ItemId] /\ bytes' \in [Pos -> Byte]
      BY <1>1, <1>2, CloseGapType
    <2> QED
      BY <1>1, <1>8, <2>1 DEF IInv, TypeOK
  <1> QED
    BY <1>1, <1>4, <1>5, <1>8, <1>9 DEF IInv

LEMMA NextIInv == IInv /\ [Next]_vars => IInv'
  <1> SUFFICES ASSUME IInv, [Next]_vars PROVE IInv'
    OBVIOUS
  <1>1. ASSUME NEW item \in Items, new_item(item) PROVE IInv'
    BY <1>1, NewInFreeIdStep, NewInNewIdStep DEF new_item
  <1>2. ASSUME NEW i \in 0 .. n_items - 1, delete_item(i) PROVE IInv'
    BY <1>2, DeleteLastStep, DeleteInnerStep DEF delete_item
  <1>3. CASE UNCHANGED vars
    <2>1. InUse' = InUse
      BY <1>3 DEF vars, InUse
    <2> QED
      BY <1>3, <2>1 DEF vars, IInv, TypeOK, ItemsApart, NoHoles, Start, End
  <1> QED
    BY <1>1, <1>2, <1>3 DEF Next

LEMMA InductiveInvariant == Spec => []IInv
  <1> QED
    BY InitIInv, NextIInv, PTL DEF Spec

-----------------------------------------------------------------------------
(* The ids never run into the items, and no two items share a byte.        *)
THEOREM ItemsStayApart == Spec => []ItemsApart
  BY InductiveInvariant, PTL DEF IInv

(* Every deletion gives all of its space back.                             *)
THEOREM NothingLost == Spec => []NoHoles
  BY InductiveInvariant, PTL DEF IInv

-----------------------------------------------------------------------------
(* What get_item finds after a step: the same bytes for every other item.  *)
LEMMA PutKeepsItems ==
    ASSUME IInv, IInv', NEW item \in Items, NEW i, Puts(i, item)
    PROVE  /\ get_item(i)' = item
           /\ \A k \in InUse : get_item(k)' = get_item(k)
  <1>1. /\ tail_ptr \in Nat /\ tail_ptr <= PAGE_SIZE /\ PAGE_SIZE \in Nat
        /\ Len(item) \in Nat \ {0} /\ item \in [1 .. Len(item) -> Byte]
        /\ tail_ptr - Len(item) = tail_ptr'
    BY LayoutFacts, BlockAssumption DEF Puts, PutBytes
  <1>2. bytes' = [p \in Pos |-> IF tail_ptr - Len(item) <= p /\ p < tail_ptr
                               THEN item[p - (tail_ptr - Len(item)) + 1]
                               ELSE bytes[p]]
    BY DEF Puts, PutBytes
  <1>3. get_item(i)' = item
    <2>1. ids'[i].size = Len(item) /\ ids'[i].offset = tail_ptr - Len(item)
      BY DEF Puts, compose_item_id
    <2>2. tail_ptr - Len(item) >= 0
      BY <1>1, BlockAssumption DEF IInv, TypeOK
    <2>3. \A k \in 1 .. Len(item) : bytes'[tail_ptr - Len(item) + k - 1] = item[k]
      <3> TAKE k \in 1 .. Len(item)
      <3>1. tail_ptr - Len(item) + k - 1 \in Pos
        BY <1>1, <2>2 DEF Pos
      <3>2. (tail_ptr - Len(item) + k - 1) - (tail_ptr - Len(item)) + 1 = k
        BY <1>1
      <3> QED
        BY <1>1, <1>2, <3>1, <3>2
    <2> QED
      BY <1>1, <2>1, <2>3 DEF get_item
  <1>4. ASSUME NEW k \in InUse PROVE get_item(k)' = get_item(k)
    <2>1. /\ Start(k) \in Nat /\ ids[k].size \in Nat /\ End(k) = Start(k) + ids[k].size
          /\ tail_ptr <= Start(k) /\ End(k) <= PAGE_SIZE /\ Start(k) = ids[k].offset
      BY LayoutFacts DEF Start
    <2>2. ids'[k] = ids[k]
      BY DEF Puts
    <2>3. \A n \in 1 .. ids[k].size :
            bytes'[ids[k].offset + n - 1] = bytes[ids[k].offset + n - 1]
      <3> TAKE n \in 1 .. ids[k].size
      <3>1. ids[k].offset + n - 1 \in Pos /\ ~(ids[k].offset + n - 1 < tail_ptr)
        BY <1>1, <2>1, SMTT(30) DEF Pos
      <3> QED
        BY <1>2, <3>1
    <2> QED
      BY <2>2, <2>3 DEF get_item
  <1> QED
    BY <1>3, <1>4

LEMMA DeleteKeepsItems ==
    ASSUME IInv, NEW d \in InUse, CloseGap(ids[d].offset, ids[d].size),
           \A k \in InUse \ {d} : ids'[k] = MoveUp(ids[k], ids[d].offset, ids[d].size)
    PROVE  \A k \in InUse \ {d} : get_item(k)' = get_item(k)
  <1> DEFINE s == ids[d].size
  <1>1. /\ tail_ptr \in Nat /\ PAGE_SIZE \in Nat
        /\ Start(d) \in Nat /\ s \in Nat \ {0} /\ End(d) = Start(d) + s
        /\ tail_ptr <= Start(d) /\ End(d) <= PAGE_SIZE /\ ids[d].offset = Start(d)
    BY LayoutFacts, BlockAssumption DEF Start
  <1>2. bytes' = [p \in Pos |-> IF tail_ptr + s <= p /\ p < Start(d) + s
                               THEN bytes[p - s] ELSE bytes[p]]
    BY <1>1 DEF CloseGap
  <1> HIDE DEF s
  <1> TAKE k \in InUse \ {d}
  <1>3. /\ Start(k) \in Nat /\ ids[k].size \in Nat /\ End(k) = Start(k) + ids[k].size
        /\ tail_ptr <= Start(k) /\ End(k) <= PAGE_SIZE /\ Start(k) = ids[k].offset
        /\ End(k) <= Start(d) \/ Start(k) >= End(d)
    BY LayoutFacts DEF Start
  <1>4. /\ ids'[k].size = ids[k].size
        /\ End(k) <= Start(d) => Start(k)' = Start(k) + s
        /\ Start(k) >= End(d) => Start(k)' = Start(k)
    BY MovedItems DEF s
  <1>5. Start(k)' = ids'[k].offset
    BY DEF Start
  <1>6. \A n \in 1 .. ids[k].size :
          bytes'[ids'[k].offset + n - 1] = bytes[ids[k].offset + n - 1]
    <2> TAKE n \in 1 .. ids[k].size
    <2>1. CASE End(k) <= Start(d)
      <3>1. ids'[k].offset = Start(k) + s
        BY <1>4, <1>5, <2>1
      <3> DEFINE p == Start(k) + s + n - 1
      <3>2. p \in Pos /\ p - s = Start(k) + n - 1
        BY <1>1, <1>3, <2>1 DEF Pos
      <3>3. tail_ptr + s <= p /\ p < Start(d) + s
        BY <1>1, <1>3, <2>1
      <3> HIDE DEF p
      <3>4. bytes'[p] = bytes[p - s]
        BY <1>2, <3>2, <3>3
      <3> QED
        BY <1>3, <3>1, <3>2, <3>4 DEF p
    <2>2. CASE Start(k) >= End(d)
      <3>1. ids'[k].offset = Start(k)
        BY <1>4, <1>5, <2>2
      <3>2. Start(k) + n - 1 \in Pos /\ ~(Start(k) + n - 1 < Start(d) + s)
        BY <1>1, <1>3, <2>2 DEF Pos
      <3>3. bytes'[Start(k) + n - 1] = bytes[Start(k) + n - 1]
        BY <1>2, <3>2
      <3> QED
        BY <1>3, <3>1, <3>3
    <2> QED
      BY <1>3, <2>1, <2>2
  <1> QED
    BY <1>4, <1>6 DEF get_item

LEMMA PutImplements ==
    ASSUME IInv, IInv', NEW item \in Items, NEW i \in Slots, Puts(i, item)
    PROVE  Store!Put(i, item)
  <1>1. i \notin InUse /\ InUse' = InUse \cup {i}
    BY DEF Puts
  <1>2. get_item(i)' = item /\ \A k \in InUse : get_item(k)' = get_item(k)
    BY PutKeepsItems
  <1>3. [k \in InUse |-> get_item(k)]' =
          [j \in InUse \cup {i} |-> IF j = i THEN item ELSE [k \in InUse |-> get_item(k)][j]]
    <2>1. [k \in InUse |-> get_item(k)]' = [j \in InUse' |-> get_item(j)']
      OBVIOUS
    <2>2. \A j \in InUse \cup {i} :
            get_item(j)' = IF j = i THEN item ELSE [k \in InUse |-> get_item(k)][j]
      BY <1>1, <1>2
    <2> QED
      BY <1>1, <2>1, <2>2
  <1> QED
    BY <1>1, <1>3 DEF Store!Put

LEMMA RemoveImplements ==
    ASSUME IInv, NEW d \in InUse, InUse' = InUse \ {d},
           CloseGap(ids[d].offset, ids[d].size),
           \A k \in InUse \ {d} : ids'[k] = MoveUp(ids[k], ids[d].offset, ids[d].size)
    PROVE  Store!Remove(d)
  <1>1. \A k \in InUse \ {d} : get_item(k)' = get_item(k)
    BY DeleteKeepsItems
  <1>2. [k \in InUse |-> get_item(k)]' =
          [j \in InUse \ {d} |-> [k \in InUse |-> get_item(k)][j]]
    <2>1. [k \in InUse |-> get_item(k)]' = [j \in InUse' |-> get_item(j)']
      OBVIOUS
    <2>2. \A j \in InUse \ {d} : get_item(j)' = [k \in InUse |-> get_item(k)][j]
      BY <1>1
    <2> QED
      BY <2>1, <2>2
  <1> QED
    BY <1>2 DEF Store!Remove

(* A block is a store of items: putting or deleting an item changes no     *)
(* other item's index or bytes, through any number of moved gaps and       *)
(* reused ids.                                                             *)
THEOREM BlockImplementsItemStore == Spec => ImplementsItemStore
  <1>1. Init => Store!Init
    <2> SUFFICES ASSUME Init PROVE Store!Init
      OBVIOUS
    <2>1. InUse = {}
      BY DEF Init, InUse
    <2> QED
      BY <2>1 DEF Store!Init
  <1>2. IInv /\ IInv' /\ [Next]_vars => [Store!Next]_[i \in InUse |-> get_item(i)]
    <2> SUFFICES ASSUME IInv, IInv', [Next]_vars
                 PROVE  [Store!Next]_[i \in InUse |-> get_item(i)]
      OBVIOUS
    <2>1. ASSUME NEW item \in Items, new_item(item) PROVE Store!Next
      <3>1. PICK i \in Slots : Puts(i, item)
        BY <2>1, NewInFreeIdStep, NewInNewIdStep DEF new_item
      <3> QED
        BY <3>1, PutImplements DEF Store!Next
    <2>2. ASSUME NEW i \in 0 .. n_items - 1, delete_item(i) PROVE Store!Next
      <3>1. /\ i \in InUse /\ InUse' = InUse \ {i}
            /\ \A k \in InUse \ {i} : ids'[k] = MoveUp(ids[k], ids[i].offset, ids[i].size)
            /\ CloseGap(ids[i].offset, ids[i].size)
        BY <2>2, DeleteLastStep, DeleteInnerStep DEF delete_item
      <3>2. i \in Slots
        BY IndexBound
      <3> QED
        BY <3>1, <3>2, RemoveImplements DEF Store!Next
    <2>3. CASE UNCHANGED vars
      <3>1. InUse' = InUse
        BY <2>3 DEF vars, InUse
      <3>2. \A i \in InUse : get_item(i)' = get_item(i)
        BY <2>3 DEF vars, get_item
      <3>3. [i \in InUse |-> get_item(i)]' = [i \in InUse' |-> get_item(i)']
        OBVIOUS
      <3>4. [i \in InUse |-> get_item(i)]' = [i \in InUse |-> get_item(i)]
        BY ONLY <3>1, <3>2, <3>3
      <3> QED
        BY <3>4
    <2> QED
      BY <2>1, <2>2, <2>3 DEF Next
  <1> QED
    BY <1>1, <1>2, InductiveInvariant, PTL DEF Spec, ImplementsItemStore, Store!Spec
=============================================================================
