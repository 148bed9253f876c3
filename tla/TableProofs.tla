---------------------------- MODULE TableProofs ----------------------------
(***************************************************************************)
(* Proofs about Table, for blocks and items of any size and any number of  *)
(* blocks: the free-space map always knows the true space of every block,  *)
(* what it hands out has room, no byte is lost, and rids keep their items. *)
(***************************************************************************)
EXTENDS Table, StructureProofs

-----------------------------------------------------------------------------
(* One block.                                                              *)

(* The space a well filled block is registered under is a number.          *)
LEMMA FreeSpaceNat ==
    ASSUME NEW b, IsBlock(b), Gap(b) >= 0
    PROVE  free_space(b) \in Nat
<1>1. Gap(b) \in Int
  BY TableAssumption DEF IsBlock, Gap
<1> QED
  BY <1>1, TableAssumption DEF free_space

(* An item that fits leaves a well filled block, has an index that was not *)
(* in use, and changes no other index (block.c:25-44).                     *)
LEMMA NewItemKeeps ==
    ASSUME NEW b, IsBlock(b), Gap(b) >= 0,
           NEW item \in Item, SizeOf[item] <= free_space(b),
           NEW idx \in 0 .. b.n_items, NewIdx(b, idx)
    PROVE  LET c == new_item(b, idx, item) IN
             /\ IsBlock(c)
             /\ Gap(c) >= 0
             /\ idx \notin Live(b)
             /\ Live(c) = Live(b) \cup {idx}
             /\ c.item[idx] = item
             /\ \A i \in Live(b) : c.item[i] = b.item[i]
<1> DEFINE n == IF idx = b.n_items THEN idx + 1 ELSE b.n_items
           c == new_item(b, idx, item)
<1>1. /\ b.n_items \in Nat
      /\ b.tail_ptr \in Int
      /\ b.item \in [0 .. b.n_items - 1 -> Item \cup {None}]
      /\ SizeOf[item] \in Nat \ {0}
      /\ HeaderSize \in Nat /\ IdSize \in Nat \ {0}
      /\ item # None
  BY TableAssumption DEF IsBlock
<1>2. /\ c.n_items = n
      /\ c.tail_ptr = b.tail_ptr - SizeOf[item]
      /\ c.item = [i \in 0 .. n - 1 |-> IF i = idx THEN item ELSE b.item[i]]
      /\ c = [n_items |-> c.n_items, tail_ptr |-> c.tail_ptr, item |-> c.item]
  BY DEF new_item
<1>3. n \in Nat /\ idx \in 0 .. n - 1 /\ b.n_items <= n
  BY <1>1
<1>4. \A i \in 0 .. n - 1 : i = idx \/ i \in 0 .. b.n_items - 1
  BY <1>1
<1>5. IsBlock(c)
  <2>1. c.item \in [0 .. n - 1 -> Item \cup {None}]
    BY <1>1, <1>2, <1>4
  <2> QED
    BY <2>1, <1>1, <1>2, <1>3 DEF IsBlock
<1>6. Gap(c) >= 0
  <2>1. CASE FreeIds(b) = {}
    <3>1. n = b.n_items + 1
      BY <2>1, <1>1 DEF NewIdx
    <3>2. SizeOf[item] <= Gap(b) - IdSize
      BY <2>1, <1>1 DEF free_space, Gap
    <3>3. IdSize * (b.n_items + 1) = IdSize * b.n_items + IdSize
      BY <1>1
    <3> QED
      BY <3>1, <3>2, <3>3, <1>1, <1>2, SMTT(30) DEF Gap
  <2>2. CASE FreeIds(b) # {}
    <3>1. n = b.n_items
      BY <2>2, <1>1 DEF NewIdx, FreeIds
    <3>2. SizeOf[item] <= Gap(b)
      BY <2>2 DEF free_space
    <3> QED
      BY <3>1, <3>2, <1>1, <1>2 DEF Gap
  <2> QED
    BY <2>1, <2>2
<1>7. idx \notin Live(b)
  BY <1>1 DEF NewIdx, Live
<1>8. /\ \A i \in Live(b) : i \in 0 .. n - 1 /\ i # idx /\ c.item[i] = b.item[i]
      /\ c.item[idx] = item
  BY <1>1, <1>2, <1>3, <1>7 DEF Live
<1>9. Live(c) = Live(b) \cup {idx}
  <2>1. ASSUME NEW i PROVE i \in Live(c) <=> i \in 0 .. n - 1 /\ c.item[i] # None
    BY <1>2 DEF Live, FreeIds
  <2>2. ASSUME NEW i PROVE i \in Live(b) <=> i \in 0 .. b.n_items - 1 /\ b.item[i] # None
    BY DEF Live, FreeIds
  <2>3. ASSUME NEW i \in 0 .. n - 1, i # idx PROVE c.item[i] = b.item[i] /\ i \in 0 .. b.n_items - 1
    BY <1>2, <1>4, <2>3
  <2>4. ASSUME NEW i \in Live(c) PROVE i \in Live(b) \cup {idx}
    BY <2>1, <2>2, <2>3
  <2>5. ASSUME NEW i \in Live(b) \cup {idx} PROVE i \in Live(c)
    BY <2>1, <2>2, <1>8, <1>3, <1>1
  <2> QED
    BY <2>4, <2>5
<1> QED
  BY <1>5, <1>6, <1>7, <1>8, <1>9

(* An empty block takes any item under index 0.                            *)
LEMMA FirstItem ==
    ASSUME NEW item \in Item
    PROVE  LET c == new_item(EmptyBlock, 0, item) IN
             /\ IsBlock(c)
             /\ Gap(c) >= 0
             /\ Live(c) = {0}
             /\ c.item[0] = item
<1>1. IsBlock(EmptyBlock) /\ EmptyBlock.n_items = 0 /\ EmptyBlock.tail_ptr = PAGE_SIZE
  BY TableAssumption DEF IsBlock, EmptyBlock
<1>2. FreeIds(EmptyBlock) = {} /\ Live(EmptyBlock) = {}
  BY <1>1 DEF FreeIds, Live
<1>3. Gap(EmptyBlock) = PAGE_SIZE - HeaderSize
  BY <1>1, TableAssumption DEF Gap
<1>4. SizeOf[item] <= free_space(EmptyBlock)
  BY <1>2, <1>3, TableAssumption DEF free_space
<1>5. NewIdx(EmptyBlock, 0)
  BY <1>1, <1>2 DEF NewIdx
<1>6. Gap(EmptyBlock) >= 0
  BY <1>3, TableAssumption
<1> HIDE DEF EmptyBlock
<1> QED
  BY <1>1, <1>2, <1>4, <1>5, <1>6, NewItemKeeps

(* More bytes and no more ids leave a greater gap.                         *)
LEMMA GapGrows ==
    ASSUME NEW d \in Nat, NEW h \in Int, NEW t \in Int, NEW s \in Nat,
           NEW m \in Nat, NEW k \in Nat, k <= m, t - (h + d * m) >= 0
    PROVE  (t + s) - (h + d * k) >= 0
<1>1. d * m = d * k + d * (m - k) /\ d * (m - k) \in Nat /\ d * k \in Nat
  OBVIOUS
<1> QED
  BY <1>1

(* A deleted item leaves every other index as it was (block.c:46-75).      *)
LEMMA DeleteItemKeeps ==
    ASSUME NEW b, IsBlock(b), Gap(b) >= 0, NEW idx \in Live(b)
    PROVE  LET c == delete_item(b, idx) IN
             /\ IsBlock(c)
             /\ Gap(c) >= 0
             /\ Live(c) = Live(b) \ {idx}
             /\ \A i \in Live(c) : c.item[i] = b.item[i]
<1> DEFINE n == IF idx = b.n_items - 1 THEN idx ELSE b.n_items
           c == delete_item(b, idx)
<1>1. /\ b.n_items \in Nat
      /\ b.tail_ptr \in Int
      /\ b.item \in [0 .. b.n_items - 1 -> Item \cup {None}]
      /\ idx \in 0 .. b.n_items - 1
      /\ b.item[idx] \in Item
      /\ SizeOf[b.item[idx]] \in Nat
      /\ HeaderSize \in Nat /\ IdSize \in Nat \ {0}
  BY TableAssumption DEF IsBlock, Live, FreeIds
<1>2. /\ c.n_items = n
      /\ c.tail_ptr = b.tail_ptr + SizeOf[b.item[idx]]
      /\ c.item = [i \in 0 .. n - 1 |-> IF i = idx THEN None ELSE b.item[i]]
      /\ c = [n_items |-> c.n_items, tail_ptr |-> c.tail_ptr, item |-> c.item]
  BY DEF delete_item
<1>3. /\ n \in Nat /\ n <= b.n_items
      /\ \A i \in 0 .. n - 1 : i \in 0 .. b.n_items - 1
      /\ \A i \in 0 .. b.n_items - 1 : i \in 0 .. n - 1 \/ i = idx
  BY <1>1
<1>4. IsBlock(c)
  <2>1. c.item \in [0 .. n - 1 -> Item \cup {None}]
    BY <1>1, <1>2, <1>3
  <2> QED
    BY <2>1, <1>1, <1>2, <1>3 DEF IsBlock
<1>5. Gap(c) >= 0
  <2>1. c.n_items \in Nat /\ c.n_items <= b.n_items
    BY <1>2, <1>3
  <2>2. c.tail_ptr = b.tail_ptr + SizeOf[b.item[idx]]
    BY <1>2
  <2>3. b.tail_ptr - (HeaderSize + IdSize * b.n_items) >= 0
    BY DEF Gap
  <2> HIDE DEF c, n
  <2>4. (b.tail_ptr + SizeOf[b.item[idx]]) - (HeaderSize + IdSize * c.n_items) >= 0
    <3>1. /\ IdSize \in Nat /\ HeaderSize \in Int /\ b.tail_ptr \in Int
          /\ SizeOf[b.item[idx]] \in Nat /\ b.n_items \in Nat
      BY <1>1
    <3> QED
      BY <3>1, <2>1, <2>3, GapGrows, Zenon
  <2> QED
    BY <2>2, <2>4 DEF Gap
<1>6. ASSUME NEW i PROVE i \in Live(c) <=> i \in 0 .. n - 1 /\ c.item[i] # None
  BY <1>2 DEF Live, FreeIds
<1>7. ASSUME NEW i PROVE i \in Live(b) <=> i \in 0 .. b.n_items - 1 /\ b.item[i] # None
  BY DEF Live, FreeIds
<1>8. \A i \in 0 .. n - 1 : c.item[i] = IF i = idx THEN None ELSE b.item[i]
  BY <1>2
<1>9. Live(c) = Live(b) \ {idx}
  BY <1>3, <1>6, <1>7, <1>8
<1> QED
  BY <1>4, <1>5, <1>6, <1>8, <1>9

-----------------------------------------------------------------------------
(* The invariant.                                                          *)

LEMMA CallFacts ==
    ASSUME TypeOK
    PROVE  /\ call = Idle \/ At("put") \/ At("append") \/ At("register") \/ At("delete")
           /\ At("put") => call.item \in Item
           /\ At("append") => call.item \in Item /\ IsBlock(call.page)
  BY DEF TypeOK, At, Idle

LEMMA InitIInv == Init => IInv
<1> SUFFICES ASSUME Init PROVE IInv
  OBVIOUS
<1>1. /\ length = 0 /\ call = Idle /\ ret = None
      /\ space = [a \in Addr |-> None]
      /\ blocks = [a \in 0 .. -1 |-> EmptyBlock]
  BY DEF Init, FSM!Init
<1>2. ~At("put") /\ ~At("append") /\ ~At("register") /\ ~At("delete")
  BY <1>1 DEF At, Idle
<1>3. TypeOK
  BY <1>1, TableAssumption DEF TypeOK
<1>4. RegisteredTruly
  BY <1>1, <1>2 DEF RegisteredTruly, InHand
<1>5. RoomForItem /\ NeverOverfull /\ CallOK
  BY <1>1, <1>2 DEF RoomForItem, NeverOverfull, CallOK
<1> QED
  BY <1>3, <1>4, <1>5 DEF IInv

LEMMA InsertKeeps ==
    ASSUME IInv, NEW item \in Item, table_insert(item)
    PROVE  IInv'
<1> USE DEF IInv
<1>1. /\ ~At("put") /\ ~At("append") /\ ~At("register") /\ ~At("delete")
      /\ blocks' = blocks /\ length' = length
      /\ call' = [at |-> "put", item |-> item]
      /\ SizeOf[item] \in Nat
      /\ DOMAIN blocks = 0 .. length - 1
      /\ space \in [Addr -> Nat \cup {None}]
  BY TableAssumption DEF table_insert, At, TypeOK
<1>2. /\ call'.at = "put" /\ call'.item = item
      /\ At("put")' /\ ~At("append")' /\ ~At("register")' /\ ~At("delete")'
  BY <1>1 DEF At
<1>3. \A a \in Addr : space[a] = IF a \in DOMAIN blocks THEN free_space(blocks[a]) ELSE None
  BY <1>1 DEF RegisteredTruly, InHand
<1>4. \A a \in DOMAIN blocks : a \in Addr /\ free_space(blocks[a]) \in Nat /\ space[a] = free_space(blocks[a])
  BY <1>1, <1>3, FreeSpaceNat, TableAssumption DEF TypeOK, NeverOverfull, Addr
<1>5. CASE \E a \in Addr : /\ FSM!Fits(a, SizeOf[item])
                           /\ space' = [space EXCEPT ![a] = None]
                           /\ ret' = a
  <2>1. PICK a \in Addr : /\ FSM!Fits(a, SizeOf[item])
                         /\ space' = [space EXCEPT ![a] = None]
                         /\ ret' = a
    BY <1>5
  <2>2. a \in DOMAIN blocks /\ SizeOf[item] <= free_space(blocks[a]) /\ a # None
    BY <2>1, <1>3, <1>4, <1>1, TableAssumption DEF FSM!Fits, Addr
  <2>3. TypeOK'
    BY <1>1, <1>2, <2>1 DEF TypeOK, At
  <2>4. RegisteredTruly'
    BY <1>1, <1>2, <1>3, <2>1, <2>2 DEF RegisteredTruly, InHand
  <2>5. RoomForItem' /\ NeverOverfull'
    BY <1>1, <1>2, <2>1, <2>2 DEF RoomForItem, NeverOverfull
  <2>6. CallOK'
    BY <1>1, <1>2, <2>1, <2>2 DEF CallOK
  <2> QED
    BY <2>3, <2>4, <2>5, <2>6
<1>6. CASE /\ ~\E a \in Addr : FSM!Fits(a, SizeOf[item])
           /\ ret' = None
           /\ space' = space
           /\ length < MaxBlocks
  <2>1. TypeOK'
    BY <1>1, <1>2, <1>6 DEF TypeOK, At
  <2>2. RegisteredTruly'
    BY <1>1, <1>2, <1>3, <1>6 DEF RegisteredTruly, InHand
  <2>3. RoomForItem' /\ NeverOverfull'
    BY <1>1, <1>2, <1>6 DEF RoomForItem, NeverOverfull
  <2>4. \A a \in 0 .. length - 1 : free_space(blocks[a]) < SizeOf[item]
    BY <1>1, <1>4, <1>6, TableAssumption DEF FSM!Fits
  <2>5. CallOK'
    BY <1>1, <1>2, <1>6, <2>4 DEF CallOK, NoneFits
  <2> QED
    BY <2>1, <2>2, <2>3, <2>5
<1> QED
  BY <1>5, <1>6 DEF table_insert, FSM!PopLowerBound, Asked

LEMMA PutInBlockKeeps ==
    ASSUME IInv, PutInBlock
    PROVE  IInv'
<1> USE DEF IInv
<1> DEFINE b == blocks[ret]
<1>1. /\ At("put") /\ ~At("append") /\ ~At("register") /\ ~At("delete")
      /\ ret # None /\ length' = length /\ space' = space /\ ret' = ret
      /\ call' = [at |-> "register", block_addr |-> ret]
      /\ DOMAIN blocks = 0 .. length - 1
      /\ call.item \in Item
  BY CallFacts DEF PutInBlock, At, TypeOK
<1>2. /\ call'.at = "register" /\ call'.block_addr = ret
      /\ At("register")' /\ ~At("put")' /\ ~At("append")' /\ ~At("delete")'
  BY <1>1 DEF At
<1>3. ret \in DOMAIN blocks /\ SizeOf[call.item] <= free_space(b) /\ IsBlock(b) /\ Gap(b) >= 0
  BY <1>1 DEF RoomForItem, TypeOK, NeverOverfull
<1>4. PICK idx \in 0 .. b.n_items :
        NewIdx(b, idx) /\ blocks' = [blocks EXCEPT ![ret] = new_item(b, idx, call.item)]
  BY DEF PutInBlock
<1>5. IsBlock(blocks'[ret]) /\ Gap(blocks'[ret]) >= 0
  BY <1>1, <1>3, <1>4, NewItemKeeps
<1>6. DOMAIN blocks' = DOMAIN blocks /\ \A a \in DOMAIN blocks : a # ret => blocks'[a] = blocks[a]
  BY <1>4
<1>7. TypeOK'
  BY <1>1, <1>2, <1>3, <1>5, <1>6 DEF TypeOK, At
<1>8. RegisteredTruly'
  BY <1>1, <1>2, <1>6 DEF RegisteredTruly, InHand
<1>9. RoomForItem' /\ NeverOverfull' /\ CallOK'
  BY <1>1, <1>2, <1>3, <1>5, <1>6 DEF RoomForItem, NeverOverfull, CallOK
<1> QED
  BY <1>7, <1>8, <1>9

LEMMA PutInNewBlockKeeps ==
    ASSUME IInv, PutInNewBlock
    PROVE  IInv'
<1> USE DEF IInv
<1> DEFINE page == new_item(EmptyBlock, 0, call.item)
<1>1. /\ At("put") /\ ~At("append") /\ ~At("register") /\ ~At("delete")
      /\ ret = None /\ length' = length /\ blocks' = blocks /\ ret' = ret
      /\ space' = [space EXCEPT ![length] = free_space(page)]
      /\ call' = [at |-> "append", page |-> page, item |-> call.item]
      /\ DOMAIN blocks = 0 .. length - 1
      /\ call.item \in Item
  BY CallFacts DEF PutInNewBlock, FSM!Insert, At, TypeOK
<1>2. /\ call'.at = "append" /\ call'.page = page /\ call'.item = call.item
      /\ At("append")' /\ ~At("put")' /\ ~At("register")' /\ ~At("delete")'
  BY <1>1 DEF At
<1>3. IsBlock(page) /\ Gap(page) >= 0 /\ free_space(page) \in Nat
  BY <1>1, FirstItem, FreeSpaceNat
<1>4. length \in Addr /\ length \notin DOMAIN blocks /\ length < MaxBlocks /\ NoneFits
  BY <1>1, TableAssumption DEF CallOK, TypeOK, Addr
<1> HIDE DEF page
<1>5. TypeOK'
  BY <1>1, <1>2, <1>3, <1>4 DEF TypeOK, At
<1>6. RegisteredTruly'
  BY <1>1, <1>2, <1>4 DEF RegisteredTruly, InHand, TypeOK
<1>7. RoomForItem' /\ NeverOverfull'
  BY <1>1, <1>2 DEF RoomForItem, NeverOverfull
<1>8. CallOK'
  BY <1>1, <1>2, <1>4 DEF CallOK, NoneFits, page
<1> QED
  BY <1>5, <1>6, <1>7, <1>8

LEMMA AppendBlockKeeps ==
    ASSUME IInv, AppendBlock
    PROVE  IInv'
<1> USE DEF IInv
<1>1. /\ At("append") /\ ~At("put") /\ ~At("register") /\ ~At("delete")
      /\ length' = length + 1 /\ space' = space /\ ret' = ret /\ call' = Idle
      /\ blocks' = [a \in 0 .. length |-> IF a = length THEN call.page ELSE blocks[a]]
      /\ DOMAIN blocks = 0 .. length - 1 /\ length \in Nat
      /\ call.item \in Item /\ length < MaxBlocks
  BY CallFacts, TableAssumption DEF AppendBlock, At, TypeOK, CallOK
<1>2. ~At("put")' /\ ~At("append")' /\ ~At("register")' /\ ~At("delete")'
  BY <1>1 DEF At, Idle
<1>3. IsBlock(call.page) /\ Gap(call.page) >= 0
  BY <1>1, FirstItem DEF CallOK
<1>4. /\ DOMAIN blocks' = 0 .. length' - 1
      /\ \A a \in DOMAIN blocks' :
           \/ a = length /\ blocks'[a] = call.page
           \/ a \in DOMAIN blocks /\ blocks'[a] = blocks[a]
  BY <1>1
<1>5. TypeOK'
  BY <1>1, <1>3, <1>4, TableAssumption DEF TypeOK
<1>6. RegisteredTruly'
  BY <1>1, <1>2, <1>4 DEF RegisteredTruly, InHand
<1>7. RoomForItem' /\ NeverOverfull' /\ CallOK'
  BY <1>2, <1>3, <1>4 DEF RoomForItem, NeverOverfull, CallOK
<1> QED
  BY <1>5, <1>6, <1>7

LEMMA DeleteKeeps ==
    ASSUME IInv, NEW a \in DOMAIN blocks, NEW idx \in 0 .. PAGE_SIZE, table_delete(a, idx)
    PROVE  IInv'
<1> USE DEF IInv
<1>1. /\ ~At("put") /\ ~At("append") /\ ~At("register") /\ ~At("delete")
      /\ blocks' = blocks /\ length' = length /\ ret' = ret
      /\ space' = [space EXCEPT ![a] = None]
      /\ call' = [at |-> "delete", block_addr |-> a, idx |-> idx]
      /\ idx \in Live(blocks[a]) /\ idx \in Nat
      /\ DOMAIN blocks = 0 .. length - 1 /\ a \in Addr
  BY TableAssumption DEF table_delete, FSM!Pop, At, TypeOK, Addr
<1>2. /\ call'.at = "delete" /\ call'.block_addr = a /\ call'.idx = idx
      /\ At("delete")' /\ ~At("put")' /\ ~At("append")' /\ ~At("register")'
  BY <1>1 DEF At
<1>3. TypeOK'
  BY <1>1, <1>2 DEF TypeOK, At
<1>4. RegisteredTruly'
  BY <1>1, <1>2 DEF RegisteredTruly, InHand, TypeOK
<1>5. RoomForItem' /\ NeverOverfull' /\ CallOK'
  BY <1>1, <1>2 DEF RoomForItem, NeverOverfull, CallOK
<1> QED
  BY <1>3, <1>4, <1>5

LEMMA TakeItemKeeps ==
    ASSUME IInv, TakeItem
    PROVE  IInv'
<1> USE DEF IInv
<1> DEFINE a == call.block_addr
<1>1. /\ At("delete") /\ ~At("put") /\ ~At("append") /\ ~At("register")
      /\ length' = length /\ space' = space /\ ret' = ret
      /\ blocks' = [blocks EXCEPT ![a] = delete_item(blocks[a], call.idx)]
      /\ call' = [at |-> "register", block_addr |-> a]
      /\ DOMAIN blocks = 0 .. length - 1
      /\ a \in DOMAIN blocks /\ a \in Addr /\ call.idx \in Live(blocks[a])
  BY TableAssumption DEF TakeItem, At, TypeOK, CallOK, Addr
<1>2. /\ call'.at = "register" /\ call'.block_addr = a
      /\ At("register")' /\ ~At("put")' /\ ~At("append")' /\ ~At("delete")'
  BY <1>1 DEF At
<1>3. IsBlock(blocks'[a]) /\ Gap(blocks'[a]) >= 0
  BY <1>1, DeleteItemKeeps DEF TypeOK, NeverOverfull
<1>4. DOMAIN blocks' = DOMAIN blocks /\ \A c \in DOMAIN blocks : c # a => blocks'[c] = blocks[c]
  BY <1>1
<1>5. TypeOK'
  BY <1>1, <1>2, <1>3, <1>4 DEF TypeOK, At
<1>6. RegisteredTruly'
  BY <1>1, <1>2, <1>4 DEF RegisteredTruly, InHand
<1>7. RoomForItem' /\ NeverOverfull' /\ CallOK'
  BY <1>1, <1>2, <1>3, <1>4 DEF RoomForItem, NeverOverfull, CallOK
<1> QED
  BY <1>5, <1>6, <1>7

LEMMA RegisterKeeps ==
    ASSUME IInv, Register
    PROVE  IInv'
<1> USE DEF IInv
<1> DEFINE a == call.block_addr
<1>1. /\ At("register") /\ ~At("put") /\ ~At("append") /\ ~At("delete")
      /\ blocks' = blocks /\ length' = length /\ ret' = ret /\ call' = Idle
      /\ space' = [space EXCEPT ![a] = free_space(blocks[a])]
      /\ DOMAIN blocks = 0 .. length - 1
      /\ a \in DOMAIN blocks /\ a \in Addr
  BY TableAssumption DEF Register, FSM!Insert, At, TypeOK, CallOK, Addr
<1>2. ~At("put")' /\ ~At("append")' /\ ~At("register")' /\ ~At("delete")'
  BY <1>1 DEF At, Idle
<1>3. free_space(blocks[a]) \in Nat
  BY <1>1, FreeSpaceNat DEF TypeOK, NeverOverfull
<1>4. TypeOK'
  BY <1>1, <1>3 DEF TypeOK
<1>5. RegisteredTruly'
  BY <1>1, <1>2 DEF RegisteredTruly, InHand, TypeOK
<1>6. RoomForItem' /\ NeverOverfull' /\ CallOK'
  BY <1>1, <1>2 DEF RoomForItem, NeverOverfull, CallOK
<1> QED
  BY <1>4, <1>5, <1>6

LEMMA NextIInv == IInv /\ [Next]_vars => IInv'
<1> SUFFICES ASSUME IInv, [Next]_vars PROVE IInv'
  OBVIOUS
<1>1. CASE UNCHANGED vars
  BY <1>1 DEF vars, IInv, TypeOK, RegisteredTruly, RoomForItem, NeverOverfull, CallOK, NoneFits,
              InHand, At
<1>2. CASE \E item \in Item : table_insert(item)
  BY <1>2, InsertKeeps
<1>3. CASE PutInBlock \/ PutInNewBlock \/ AppendBlock \/ TakeItem \/ Register
  BY <1>3, PutInBlockKeeps, PutInNewBlockKeeps, AppendBlockKeeps, TakeItemKeeps, RegisterKeeps
<1>4. CASE \E a \in DOMAIN blocks : \E idx \in 0 .. PAGE_SIZE : table_delete(a, idx)
  BY <1>4, DeleteKeeps
<1> QED
  BY <1>1, <1>2, <1>3, <1>4 DEF Next

LEMMA SpecIInv == Spec => []IInv
  BY InitIInv, NextIInv, PTL DEF Spec

-----------------------------------------------------------------------------
(* The results.                                                            *)

(* Between the calls and within them the free-space map holds the true     *)
(* space of every block that no call has in hand, so hash_table_pop finds  *)
(* what table_delete asks it for (table.c:79).                             *)
THEOREM MapIsTrue == Spec => []RegisteredTruly
<1>1. IInv => RegisteredTruly
  BY DEF IInv
<1> QED
  BY <1>1, SpecIInv, PTL

(* A block that the map hands to table_insert has room for the item and    *)
(* for its id, which new_item does not check (table.c:62).                 *)
THEOREM BlockHasRoom == Spec => []RoomForItem
<1>1. IInv => RoomForItem
  BY DEF IInv
<1> QED
  BY <1>1, SpecIInv, PTL

(* In no block of a table do ids and items meet.                           *)
THEOREM NoBlockOverfull == Spec => []NeverOverfull
<1>1. IInv => NeverOverfull
  BY DEF IInv
<1> QED
  BY <1>1, SpecIInv, PTL

(* table_insert appends a block only when none of the file has room.       *)
THEOREM FileGrowsOnlyWhenFull == Spec => GrowsOnlyWhenFull
<1> DEFINE Grow == length' > length =>
                     \A a \in 0 .. length - 1 : free_space(blocks[a]) < SizeOf[call.item]
<1>1. IInv /\ [Next]_vars => [Grow]_vars
  <2> SUFFICES ASSUME IInv, Next PROVE Grow
    OBVIOUS
  <2>1. AppendBlock \/ length' = length
    BY DEF Next, table_insert, PutInBlock, PutInNewBlock, table_delete, TakeItem, Register
  <2>2. length \in Nat
    BY TableAssumption DEF IInv, TypeOK
  <2>3. AppendBlock => NoneFits
    BY DEF AppendBlock, IInv, CallOK
  <2> QED
    BY <2>1, <2>2, <2>3 DEF NoneFits
<1> QED
  BY <1>1, SpecIInv, PTL DEF Spec, GrowsOnlyWhenFull

-----------------------------------------------------------------------------
(* The bytes of the items of a block.  s[n] are the bytes under the first  *)
(* n indexes; the recursive function of Bytes is such an s, and the only   *)
(* one, by induction on n.                                                 *)
Adds(s, b) ==
    /\ s \in [0 .. b.n_items -> Nat]
    /\ s[0] = 0
    /\ \A i \in 0 .. b.n_items - 1 : s[i + 1] = s[i] + Takes(b, i)

LEMMA TakesNat == ASSUME NEW b, IsBlock(b), NEW i \in 0 .. b.n_items - 1 PROVE Takes(b, i) \in Nat
<1>1. b.item[i] \in Item \cup {None}
  BY DEF IsBlock
<1>2. i \in Live(b) => b.item[i] \in Item
  BY <1>1 DEF Live, FreeIds
<1> QED
  BY <1>2, TableAssumption DEF Takes

LEMMA AddsIsBytes ==
    ASSUME NEW b, IsBlock(b), NEW s, Adds(s, b)
    PROVE  Bytes(b) = s[b.n_items]
<1> DEFINE N == b.n_items
           Sums(f) == f = [n \in 0 .. N |-> IF n = 0 THEN 0 ELSE f[n - 1] + Takes(b, n - 1)]
           f == CHOOSE f : Sums(f)
<1>1. N \in Nat
  BY DEF IsBlock
<1>2. Sums(s)
  <2>1. s = [n \in 0 .. N |-> s[n]]
    BY DEF Adds
  <2>2. ASSUME NEW n \in 0 .. N PROVE s[n] = IF n = 0 THEN 0 ELSE s[n - 1] + Takes(b, n - 1)
    <3>1. CASE n = 0
      BY <3>1 DEF Adds
    <3>2. CASE n # 0
      <4>1. n - 1 \in 0 .. N - 1 /\ (n - 1) + 1 = n
        BY <1>1, <3>2
      <4> QED
        BY <4>1, <3>2 DEF Adds
    <3> QED
      BY <3>1, <3>2
  <2> QED
    BY <2>1, <2>2
<1>3. Sums(f)
  BY <1>2
<1>4. Bytes(b) = f[N]
  BY DEF Bytes
<1> HIDE DEF f
<1>5. f[0] = 0 /\ \A n \in 0 .. N - 1 : f[n + 1] = f[n] + Takes(b, n)
  <2>1. f[0] = 0
    BY <1>1, <1>3
  <2>2. ASSUME NEW n \in 0 .. N - 1 PROVE f[n + 1] = f[n] + Takes(b, n)
    <3>1. n + 1 \in 0 .. N /\ n + 1 # 0 /\ (n + 1) - 1 = n
      BY <1>1
    <3> QED
      BY <1>3, <3>1
  <2> QED
    BY <2>1, <2>2
<1>6. \A n \in 0 .. N : n \in {m \in 0 .. N : f[m] = s[m]}
  <2> DEFINE Same == {m \in 0 .. N : f[m] = s[m]}
  <2>1. 0 \in Same
    BY <1>1, <1>5 DEF Adds
  <2>2. \A n \in 0 .. N - 1 : n \in Same => n + 1 \in Same
    BY <1>1, <1>5 DEF Adds
  <2> HIDE DEF Same
  <2>3. \A n \in 0 .. N : n \in Same
    BY <1>1, <2>1, <2>2, AllNat
  <2> QED
    BY <2>3 DEF Same
<1> QED
  BY <1>1, <1>4, <1>6

LEMMA AddsExists == ASSUME NEW b, IsBlock(b) PROVE \E s : Adds(s, b)
<1> DEFINE N == b.n_items
           Upto(s, m) == /\ s \in [0 .. m -> Nat]
                         /\ s[0] = 0
                         /\ \A i \in 0 .. m - 1 : s[i + 1] = s[i] + Takes(b, i)
           Exists == {m \in 0 .. N : \E s : Upto(s, m)}
<1>1. N \in Nat
  BY DEF IsBlock
<1>2. 0 \in Exists
  <2>1. Upto([i \in 0 .. 0 |-> 0], 0)
    OBVIOUS
  <2>2. \E s : Upto(s, 0)
    <3> HIDE DEF Upto
    <3> QED
      BY <2>1
  <2> HIDE DEF Upto
  <2> QED
    BY <1>1, <2>2
<1>3. ASSUME NEW m \in 0 .. N - 1, m \in Exists PROVE m + 1 \in Exists
  <2>1. PICK s : Upto(s, m)
    BY <1>3
  <2>2. m \in Nat /\ Takes(b, m) \in Nat /\ s[m] \in Nat /\ m + 1 \in 0 .. N
    BY <1>1, <2>1, TakesNat
  <2> DEFINE t == [i \in 0 .. m + 1 |-> IF i <= m THEN s[i] ELSE s[m] + Takes(b, m)]
  <2>3. t \in [0 .. m + 1 -> Nat] /\ t[0] = 0
    BY <2>1, <2>2
  <2>4. ASSUME NEW i \in 0 .. m PROVE t[i + 1] = t[i] + Takes(b, i)
    <3>1. CASE i = m
      BY <2>1, <2>2, <3>1
    <3>2. CASE i # m
      <4>1. i \in 0 .. m - 1 /\ i + 1 <= m /\ i <= m
        BY <2>2, <3>2
      <4> QED
        BY <4>1, <2>1, <2>2
    <3> QED
      BY <3>1, <3>2
  <2>5. Upto(t, m + 1)
    <3> HIDE DEF t
    <3>1. (m + 1) - 1 = m
      BY <2>2
    <3> QED
      BY <2>3, <2>4, <3>1
  <2> QED
    BY <2>2, <2>5
<1> HIDE DEF Exists
<1>4. N \in Exists
  BY <1>1, <1>2, <1>3, AllNat
<1> QED
  BY <1>4 DEF Exists, Adds

LEMMA BytesNat == ASSUME NEW b, IsBlock(b) PROVE Bytes(b) \in Nat
<1>1. PICK s : Adds(s, b)
  BY AddsExists
<1>2. s[b.n_items] \in Nat
  BY <1>1 DEF Adds, IsBlock
<1> QED
  BY <1>1, <1>2, AddsIsBytes

(* The bytes of a block when one index takes d more, or less, than before. *)
LEMMA BytesChange ==
    ASSUME NEW b, NEW c, IsBlock(b), IsBlock(c), c.n_items = b.n_items,
           NEW idx \in 0 .. b.n_items - 1,
           \A i \in 0 .. b.n_items - 1 : i # idx => Takes(c, i) = Takes(b, i)
    PROVE  Bytes(c) = Bytes(b) + (Takes(c, idx) - Takes(b, idx))
<1> DEFINE N == b.n_items
           d == Takes(c, idx) - Takes(b, idx)
<1>1. N \in Nat /\ Takes(b, idx) \in Nat /\ Takes(c, idx) \in Nat /\ c.n_items = N
      /\ \A i \in 0 .. N - 1 : Takes(b, i) \in Nat
  BY TakesNat DEF IsBlock
<1>2. PICK s : Adds(s, b)
  BY AddsExists
<1>3. /\ s \in [0 .. N -> Nat] /\ s[0] = 0
      /\ \A i \in 0 .. N - 1 : s[i + 1] = s[i] + Takes(b, i)
  BY <1>2 DEF Adds
<1>4. PICK t : Adds(t, c)
  BY AddsExists
<1>5. /\ t \in [0 .. N -> Nat] /\ t[0] = 0
      /\ \A i \in 0 .. N - 1 : t[i + 1] = t[i] + Takes(c, i)
  BY <1>1, <1>4 DEF Adds
<1> DEFINE Same == {n \in 0 .. N : t[n] = IF n <= idx THEN s[n] ELSE s[n] + d}
<1>6. 0 \in Same
  BY <1>1, <1>3, <1>5
<1>7. ASSUME NEW n \in 0 .. N - 1, n \in Same PROVE n + 1 \in Same
  <2>1. /\ t[n + 1] = t[n] + Takes(c, n) /\ s[n + 1] = s[n] + Takes(b, n)
        /\ t[n] \in Nat /\ s[n] \in Nat /\ n + 1 \in 0 .. N
    <3>1. n \in 0 .. N /\ n + 1 \in 0 .. N
      BY <1>1
    <3>2. t[n] \in Nat /\ s[n] \in Nat
      BY <3>1, <1>3, <1>5
    <3>3. t[n + 1] = t[n] + Takes(c, n)
      BY <1>5
    <3>4. s[n + 1] = s[n] + Takes(b, n)
      BY <1>3
    <3> QED
      BY <3>1, <3>2, <3>3, <3>4
  <2>2. t[n] = IF n <= idx THEN s[n] ELSE s[n] + d
    BY <1>7
  <2>3. CASE n < idx
    <3>1. Takes(c, n) = Takes(b, n) /\ n + 1 <= idx
      BY <1>1, <2>3
    <3> QED
      BY <2>1, <2>2, <2>3, <3>1
  <2>4. CASE n = idx
    BY <1>1, <2>1, <2>2, <2>4
  <2>5. CASE n > idx
    <3>1. Takes(c, n) = Takes(b, n) /\ Takes(b, n) \in Nat /\ ~(n <= idx) /\ ~(n + 1 <= idx)
      BY <1>1, <2>5
    <3> QED
      BY <1>1, <2>1, <2>2, <3>1
  <2> QED
    BY <2>3, <2>4, <2>5
<1> HIDE DEF Same
<1>8. N \in Same
  BY <1>1, <1>6, <1>7, AllNat
<1>9. t[N] = s[N] + d
  BY <1>1, <1>8 DEF Same
<1> QED
  BY <1>1, <1>2, <1>4, <1>9, AddsIsBytes

(* The bytes of a block with one more index.                               *)
LEMMA BytesMore ==
    ASSUME NEW b, NEW c, IsBlock(b), IsBlock(c), c.n_items = b.n_items + 1,
           \A i \in 0 .. b.n_items - 1 : Takes(c, i) = Takes(b, i)
    PROVE  Bytes(c) = Bytes(b) + Takes(c, b.n_items)
<1> DEFINE N == b.n_items
<1>1. N \in Nat /\ c.n_items = N + 1
  BY DEF IsBlock
<1>2. PICK s : Adds(s, b)
  BY AddsExists
<1>3. PICK t : Adds(t, c)
  BY AddsExists
<1>4. /\ t \in [0 .. N + 1 -> Nat] /\ t[0] = 0
      /\ \A i \in 0 .. N : t[i + 1] = t[i] + Takes(c, i)
  <2>1. (N + 1) - 1 = N
    BY <1>1
  <2> QED
    BY <1>1, <1>3, <2>1 DEF Adds
<1> DEFINE r == [n \in 0 .. N |-> t[n]]
<1>5. Adds(r, b)
  <2>1. r \in [0 .. N -> Nat] /\ r[0] = 0
    BY <1>1, <1>4
  <2>2. ASSUME NEW i \in 0 .. N - 1 PROVE r[i + 1] = r[i] + Takes(b, i)
    BY <1>1, <1>4
  <2> QED
    BY <2>1, <2>2 DEF Adds
<1>6. Bytes(b) = t[N]
  <2>1. r[N] = t[N]
    BY <1>1
  <2> HIDE DEF r
  <2> QED
    BY <1>5, <2>1, AddsIsBytes
<1>7. Bytes(c) = t[N + 1]
  BY <1>1, <1>3, AddsIsBytes
<1> QED
  BY <1>1, <1>4, <1>6, <1>7

(* new_item adds the size of the item, under a free index or a new one.    *)
LEMMA NewItemAdds ==
    ASSUME NEW b, IsBlock(b), Gap(b) >= 0,
           NEW item \in Item, SizeOf[item] <= free_space(b),
           NEW idx \in 0 .. b.n_items, NewIdx(b, idx)
    PROVE  Bytes(new_item(b, idx, item)) = Bytes(b) + SizeOf[item]
<1> DEFINE c == new_item(b, idx, item)
<1> SUFFICES Bytes(c) = Bytes(b) + SizeOf[item]
  OBVIOUS
<1>1. /\ IsBlock(c) /\ idx \notin Live(b) /\ Live(c) = Live(b) \cup {idx}
      /\ c.item[idx] = item /\ \A i \in Live(b) : c.item[i] = b.item[i]
  BY NewItemKeeps
<1>2. c.n_items = IF idx = b.n_items THEN idx + 1 ELSE b.n_items
  BY DEF new_item
<1>3. SizeOf[item] \in Nat /\ b.n_items \in Nat
  BY TableAssumption DEF IsBlock
<1> HIDE DEF c
<1>4. Takes(b, idx) = 0 /\ Takes(c, idx) = SizeOf[item]
  BY <1>1 DEF Takes
<1>5. \A i : i # idx => Takes(c, i) = Takes(b, i)
  BY <1>1 DEF Takes
<1>6. Bytes(b) \in Nat
  BY BytesNat
<1>7. CASE idx = b.n_items
  <2>1. \A i \in 0 .. b.n_items - 1 : i # idx
    BY <1>3, <1>7
  <2>2. Bytes(c) = Bytes(b) + Takes(c, b.n_items)
    BY <1>1, <1>2, <1>5, <1>7, <2>1, BytesMore
  <2> QED
    BY <2>2, <1>4, <1>7
<1>8. CASE idx # b.n_items
  <2>1. idx \in 0 .. b.n_items - 1 /\ c.n_items = b.n_items
    BY <1>2, <1>3, <1>8
  <2>2. Bytes(c) = Bytes(b) + (Takes(c, idx) - Takes(b, idx))
    BY <1>1, <1>5, <2>1, BytesChange
  <2> QED
    BY <2>2, <1>3, <1>4, <1>6
<1> QED
  BY <1>7, <1>8

LEMMA FirstItemAdds ==
    ASSUME NEW item \in Item
    PROVE  Bytes(new_item(EmptyBlock, 0, item)) = SizeOf[item]
<1> DEFINE s == [n \in 0 .. 0 |-> 0]
<1>1. IsBlock(EmptyBlock) /\ EmptyBlock.n_items = 0 /\ EmptyBlock.tail_ptr = PAGE_SIZE
  BY TableAssumption DEF IsBlock, EmptyBlock
<1>2. FreeIds(EmptyBlock) = {}
  BY <1>1 DEF FreeIds
<1>3. Gap(EmptyBlock) = PAGE_SIZE - HeaderSize
  BY <1>1, TableAssumption DEF Gap
<1>4. SizeOf[item] <= free_space(EmptyBlock) /\ NewIdx(EmptyBlock, 0) /\ Gap(EmptyBlock) >= 0
  BY <1>1, <1>2, <1>3, TableAssumption DEF free_space, NewIdx
<1> HIDE DEF EmptyBlock
<1>5. Bytes(EmptyBlock) = 0
  <2>1. Adds(s, EmptyBlock) /\ s[0] = 0
    BY <1>1 DEF Adds
  <2> HIDE DEF s
  <2> QED
    BY <1>1, <2>1, AddsIsBytes
<1>6. 0 \in 0 .. EmptyBlock.n_items
  BY <1>1
<1>7. Bytes(new_item(EmptyBlock, 0, item)) = Bytes(EmptyBlock) + SizeOf[item]
  BY <1>1, <1>4, <1>6, NewItemAdds
<1> QED
  BY <1>5, <1>7, TableAssumption

(* delete_item gives back the size of the item, whether the index stays,   *)
(* free, or is the last one and goes with it.                              *)
LEMMA DeleteItemSubtracts ==
    ASSUME NEW b, IsBlock(b), Gap(b) >= 0, NEW idx \in Live(b)
    PROVE  Bytes(delete_item(b, idx)) = Bytes(b) - SizeOf[b.item[idx]]
<1> DEFINE c == delete_item(b, idx)
<1> SUFFICES Bytes(c) = Bytes(b) - SizeOf[b.item[idx]]
  OBVIOUS
<1>1. /\ IsBlock(c) /\ Live(c) = Live(b) \ {idx}
      /\ \A i \in Live(c) : c.item[i] = b.item[i]
  BY DeleteItemKeeps
<1>2. c.n_items = IF idx = b.n_items - 1 THEN idx ELSE b.n_items
  BY DEF delete_item
<1>3. /\ idx \in 0 .. b.n_items - 1 /\ b.n_items \in Nat
      /\ SizeOf[b.item[idx]] \in Nat
  BY TableAssumption DEF IsBlock, Live, FreeIds
<1> HIDE DEF c
<1>4. Takes(b, idx) = SizeOf[b.item[idx]] /\ Takes(c, idx) = 0
  BY <1>1 DEF Takes
<1>5. \A i : i # idx => Takes(c, i) = Takes(b, i)
  BY <1>1 DEF Takes
<1>6. Bytes(b) \in Nat /\ Bytes(c) \in Nat
  BY <1>1, BytesNat
<1>7. CASE idx = b.n_items - 1
  <2>1. b.n_items = c.n_items + 1 /\ c.n_items = idx
    BY <1>2, <1>3, <1>7
  <2>2. \A i \in 0 .. c.n_items - 1 : Takes(b, i) = Takes(c, i)
    BY <1>3, <1>5, <2>1
  <2>3. Bytes(b) = Bytes(c) + Takes(b, c.n_items)
    BY <1>1, <2>1, <2>2, BytesMore
  <2> QED
    BY <1>3, <1>4, <1>6, <2>1, <2>3
<1>8. CASE idx # b.n_items - 1
  <2>1. c.n_items = b.n_items
    BY <1>2, <1>8
  <2>2. Bytes(c) = Bytes(b) + (Takes(c, idx) - Takes(b, idx))
    BY <1>1, <1>3, <1>5, <2>1, BytesChange
  <2> QED
    BY <2>2, <1>3, <1>4, <1>6
<1> QED
  BY <1>7, <1>8

LEMMA NextAccounted == IInv /\ ItemsAccounted /\ [Next]_vars => ItemsAccounted'
<1> SUFFICES ASSUME IInv, ItemsAccounted, [Next]_vars PROVE ItemsAccounted'
  OBVIOUS
<1>1. CASE blocks' = blocks
  BY <1>1 DEF ItemsAccounted
<1>2. CASE PutInBlock
  <2> DEFINE b == blocks[ret]
  <2>1. At("put") /\ ret # None /\ call.item \in Item
    BY <1>2, CallFacts DEF PutInBlock, IInv
  <2>2. ret \in DOMAIN blocks /\ SizeOf[call.item] <= free_space(b) /\ IsBlock(b) /\ Gap(b) >= 0
    BY <2>1 DEF RoomForItem, TypeOK, NeverOverfull, IInv
  <2>3. PICK i \in 0 .. b.n_items :
          NewIdx(b, i) /\ blocks' = [blocks EXCEPT ![ret] = new_item(b, i, call.item)]
    BY <1>2 DEF PutInBlock
  <2>4. Bytes(blocks'[ret]) = Bytes(b) + SizeOf[call.item]
    BY <2>1, <2>2, <2>3, NewItemAdds
  <2>5. blocks'[ret].tail_ptr = b.tail_ptr - SizeOf[call.item]
    BY <2>2, <2>3 DEF new_item
  <2>6. DOMAIN blocks' = DOMAIN blocks /\ \A c \in DOMAIN blocks : c # ret => blocks'[c] = blocks[c]
    BY <2>3
  <2>7. blocks'[ret].tail_ptr = PAGE_SIZE - Bytes(blocks'[ret])
    BY <2>1, <2>2, <2>4, <2>5, BytesNat, TableAssumption DEF ItemsAccounted
  <2> QED
    BY <2>6, <2>7 DEF ItemsAccounted
<1>3. CASE AppendBlock
  <2>1. /\ At("append") /\ call.item \in Item
        /\ call.page = new_item(EmptyBlock, 0, call.item)
        /\ DOMAIN blocks = 0 .. length - 1 /\ length \in Nat
        /\ blocks' = [a \in 0 .. length |-> IF a = length THEN call.page ELSE blocks[a]]
    BY <1>3, CallFacts, TableAssumption DEF AppendBlock, IInv, TypeOK, CallOK
  <2>2. call.page.tail_ptr = PAGE_SIZE - SizeOf[call.item]
    BY <2>1 DEF new_item, EmptyBlock
  <2>3. Bytes(call.page) = SizeOf[call.item]
    BY <2>1, FirstItemAdds
  <2>4. \A a \in DOMAIN blocks' :
          IF a = length THEN blocks'[a] = call.page ELSE a \in DOMAIN blocks /\ blocks'[a] = blocks[a]
    BY <2>1
  <2> QED
    BY <2>2, <2>3, <2>4 DEF ItemsAccounted
<1>4. CASE TakeItem
  <2> DEFINE a == call.block_addr
             b == blocks[a]
  <2>1. /\ a \in DOMAIN blocks /\ call.idx \in Live(b) /\ IsBlock(b) /\ Gap(b) >= 0
        /\ blocks' = [blocks EXCEPT ![a] = delete_item(b, call.idx)]
    BY <1>4 DEF TakeItem, IInv, CallOK, TypeOK, NeverOverfull
  <2>2. Bytes(blocks'[a]) = Bytes(b) - SizeOf[b.item[call.idx]]
    BY <2>1, DeleteItemSubtracts
  <2>3. blocks'[a].tail_ptr = b.tail_ptr + SizeOf[b.item[call.idx]]
    BY <2>1 DEF delete_item
  <2>4. SizeOf[b.item[call.idx]] \in Nat
    BY <2>1, TableAssumption DEF IsBlock, Live, FreeIds
  <2>5. blocks'[a].tail_ptr = PAGE_SIZE - Bytes(blocks'[a])
    BY <2>1, <2>2, <2>3, <2>4, BytesNat, TableAssumption DEF ItemsAccounted
  <2>6. DOMAIN blocks' = DOMAIN blocks /\ \A c \in DOMAIN blocks : c # a => blocks'[c] = blocks[c]
    BY <2>1
  <2> QED
    BY <2>5, <2>6 DEF ItemsAccounted
<1> QED
  BY <1>1, <1>2, <1>3, <1>4
     DEF Next, vars, table_insert, PutInNewBlock, table_delete, Register

(* A block accounts for its items, so its free space is less than a page.  *)
LEMMA FreeSpaceIsSize ==
    ASSUME NEW b, IsBlock(b), Gap(b) >= 0, b.tail_ptr = PAGE_SIZE - Bytes(b)
    PROVE  free_space(b) \in FSM!Size
<1>1. /\ Bytes(b) \in Nat /\ b.n_items \in Nat /\ HeaderSize \in Nat \ {0}
      /\ IdSize \in Nat /\ PAGE_SIZE \in Nat
  BY BytesNat, TableAssumption DEF IsBlock
<1>2. IdSize * b.n_items \in Nat
  BY <1>1
<1>3. Gap(b) < PAGE_SIZE /\ Gap(b) \in Nat
  BY <1>1, <1>2 DEF Gap
<1>4. free_space(b) <= Gap(b) /\ free_space(b) \in Nat
  BY <1>1, <1>3, FreeSpaceNat DEF free_space
<1> QED
  BY <1>1, <1>3, <1>4 DEF FSM!Size

(* No byte of a block is lost or counted twice by any sequence of inserts  *)
(* and deletes (block.c:25-75), so a block is only ever registered under a *)
(* size that the directory of the map has (table.c:9).                     *)
THEOREM NoByteLost == Spec => []BytesKept
<1>1. Init => ItemsAccounted
  BY DEF Init, ItemsAccounted
<1>2. IInv /\ ItemsAccounted => BytesKept
  <2> SUFFICES ASSUME IInv, ItemsAccounted, NEW a \in Addr
               PROVE  space[a] \in FSM!Size \cup {None}
    BY DEF BytesKept
  <2>1. CASE a \in DOMAIN blocks \ InHand
    <3>1. IsBlock(blocks[a]) /\ Gap(blocks[a]) >= 0 /\ space[a] = free_space(blocks[a])
      BY <2>1 DEF IInv, TypeOK, NeverOverfull, RegisteredTruly
    <3> QED
      BY <2>1, <3>1, FreeSpaceIsSize DEF ItemsAccounted
  <2>2. CASE a \notin DOMAIN blocks \ InHand /\ At("append") /\ a = length
    <3>1. /\ call.item \in Item /\ call.page = new_item(EmptyBlock, 0, call.item)
          /\ space[a] = free_space(call.page)
      BY <2>2, CallFacts DEF IInv, CallOK, RegisteredTruly
    <3>2. IsBlock(call.page) /\ Gap(call.page) >= 0 /\ Bytes(call.page) = SizeOf[call.item]
      BY <3>1, FirstItem, FirstItemAdds
    <3>3. call.page.tail_ptr = PAGE_SIZE - SizeOf[call.item]
      BY <3>1 DEF new_item, EmptyBlock
    <3> QED
      BY <3>1, <3>2, <3>3, FreeSpaceIsSize
  <2>3. CASE a \notin DOMAIN blocks \ InHand /\ ~(At("append") /\ a = length)
    BY <2>3 DEF IInv, RegisteredTruly
  <2> QED
    BY <2>1, <2>2, <2>3
<1> QED
  BY <1>1, <1>2, NextAccounted, SpecIInv, PTL DEF Spec

-----------------------------------------------------------------------------
(* The refinement: what the rids name.                                     *)

LEMMA RidsOf ==
    ASSUME NEW a, NEW i
    PROVE  <<a, i>> \in Rids <=> a \in DOMAIN blocks /\ i \in Live(blocks[a])
<1>1. ASSUME <<a, i>> \in Rids PROVE a \in DOMAIN blocks /\ i \in Live(blocks[a])
  <2>1. PICK c \in DOMAIN blocks : <<a, i>> \in {<<c, k>> : k \in Live(blocks[c])}
    BY <1>1 DEF Rids
  <2>2. PICK k \in Live(blocks[c]) : <<a, i>> = <<c, k>>
    BY <2>1
  <2> QED
    BY <2>2
<1>2. ASSUME a \in DOMAIN blocks, i \in Live(blocks[a]) PROVE <<a, i>> \in Rids
  <2>1. <<a, i>> \in {<<a, k>> : k \in Live(blocks[a])}
    BY <1>2
  <2> QED
    BY <2>1, <1>2 DEF Rids
<1> QED
  BY <1>1, <1>2

LEMMA RidIsPair ==
    ASSUME NEW rid \in Rids
    PROVE  /\ rid = <<rid[1], rid[2]>>
           /\ rid[1] \in DOMAIN blocks
           /\ rid[2] \in Live(blocks[rid[1]])
<1>1. PICK c \in DOMAIN blocks : rid \in {<<c, k>> : k \in Live(blocks[c])}
  BY DEF Rids
<1>2. PICK k \in Live(blocks[c]) : rid = <<c, k>>
  BY <1>1
<1> QED
  BY <1>2

(* Rids after a step, by their block.                                      *)
LEMMA RidsAfter ==
    ASSUME NEW a, NEW i
    PROVE  <<a, i>> \in Rids' <=> a \in DOMAIN blocks' /\ i \in Live(blocks'[a])
<1>1. ASSUME <<a, i>> \in Rids' PROVE a \in DOMAIN blocks' /\ i \in Live(blocks'[a])
  <2>1. PICK c \in DOMAIN blocks' : <<a, i>> \in {<<c, k>> : k \in Live(blocks'[c])}
    BY <1>1 DEF Rids
  <2>2. PICK k \in Live(blocks'[c]) : <<a, i>> = <<c, k>>
    BY <2>1
  <2> QED
    BY <2>2
<1>2. ASSUME a \in DOMAIN blocks', i \in Live(blocks'[a]) PROVE <<a, i>> \in Rids'
  <2>1. <<a, i>> \in {<<a, k>> : k \in Live(blocks'[a])}
    BY <1>2
  <2> QED
    BY <2>1, <1>2 DEF Rids
<1> QED
  BY <1>1, <1>2

LEMMA RidIsPairAfter ==
    ASSUME NEW rid \in Rids'
    PROVE  /\ rid = <<rid[1], rid[2]>>
           /\ rid[1] \in DOMAIN blocks'
           /\ rid[2] \in Live(blocks'[rid[1]])
<1>1. PICK c \in DOMAIN blocks' : rid \in {<<c, k>> : k \in Live(blocks'[c])}
  BY DEF Rids
<1>2. PICK k \in Live(blocks'[c]) : rid = <<c, k>>
  BY <1>1
<1> QED
  BY <1>2

(* A step that changes only block a, from the indexes in use before to     *)
(* those and idx, puts an item.                                            *)
LEMMA PutMaps ==
    ASSUME NEW a, NEW idx, NEW item,
           a \in DOMAIN blocks',
           \A c \in DOMAIN blocks' : c # a => c \in DOMAIN blocks /\ blocks'[c] = blocks[c],
           \A c \in DOMAIN blocks : c \in DOMAIN blocks',
           a \in DOMAIN blocks =>
             /\ idx \notin Live(blocks[a])
             /\ Live(blocks'[a]) = Live(blocks[a]) \cup {idx}
             /\ \A i \in Live(blocks[a]) : blocks'[a].item[i] = blocks[a].item[i],
           a \notin DOMAIN blocks => Live(blocks'[a]) = {idx},
           blocks'[a].item[idx] = item
    PROVE  Store!Put(<<a, idx>>, item)
<1> DEFINE rid == <<a, idx>>
<1>1. rid \notin Rids
  BY RidsOf
<1>2. ASSUME NEW r \in Rids' PROVE r \in Rids \cup {rid}
  <2>1. r = <<r[1], r[2]>> /\ r[1] \in DOMAIN blocks' /\ r[2] \in Live(blocks'[r[1]])
    BY RidIsPairAfter
  <2>2. CASE r[1] = a
    BY <2>1, <2>2, RidsOf
  <2>3. CASE r[1] # a
    BY <2>1, <2>3, RidsOf
  <2> QED
    BY <2>2, <2>3
<1>3. ASSUME NEW r \in Rids
      PROVE  r \in Rids' /\ r # rid /\ blocks'[r[1]].item[r[2]] = blocks[r[1]].item[r[2]]
  <2>1. r = <<r[1], r[2]>> /\ r[1] \in DOMAIN blocks /\ r[2] \in Live(blocks[r[1]])
    BY RidIsPair
  <2>2. r[1] \in DOMAIN blocks' /\ r[2] \in Live(blocks'[r[1]])
    BY <2>1
  <2>3. r \in Rids'
    BY <2>1, <2>2, RidsAfter
  <2>4. blocks'[r[1]].item[r[2]] = blocks[r[1]].item[r[2]]
    BY <2>1, <2>2
  <2> QED
    BY <2>3, <2>4, <1>1
<1>4. rid \in Rids' /\ blocks'[rid[1]].item[rid[2]] = item
  BY RidsAfter
<1>5. Rids' = Rids \cup {rid}
  BY <1>2, <1>3, <1>4
<1>6. [r \in Rids' |-> blocks'[r[1]].item[r[2]]] =
        [r \in Rids \cup {rid} |-> IF r = rid THEN item ELSE [q \in Rids |-> blocks[q[1]].item[q[2]]][r]]
  <2>1. ASSUME NEW r \in Rids \cup {rid}
        PROVE  blocks'[r[1]].item[r[2]] =
                 IF r = rid THEN item ELSE [q \in Rids |-> blocks[q[1]].item[q[2]]][r]
    BY <1>3, <1>4
  <2> QED
    BY <1>5, <2>1
<1> QED
  BY <1>1, <1>6 DEF Store!Put, table_read

(* A step that changes only block a, where idx is in use no more, removes  *)
(* an item.                                                                *)
LEMMA RemoveMaps ==
    ASSUME NEW a \in DOMAIN blocks, NEW idx \in Live(blocks[a]),
           DOMAIN blocks' = DOMAIN blocks,
           \A c \in DOMAIN blocks : c # a => blocks'[c] = blocks[c],
           Live(blocks'[a]) = Live(blocks[a]) \ {idx},
           \A i \in Live(blocks'[a]) : blocks'[a].item[i] = blocks[a].item[i]
    PROVE  Store!Remove(<<a, idx>>)
<1> DEFINE rid == <<a, idx>>
<1>1. rid \in Rids
  BY RidsOf
<1>2. ASSUME NEW r \in Rids'
      PROVE  /\ r \in Rids /\ r # rid
             /\ blocks'[r[1]].item[r[2]] = blocks[r[1]].item[r[2]]
  <2>1. r = <<r[1], r[2]>> /\ r[1] \in DOMAIN blocks' /\ r[2] \in Live(blocks'[r[1]])
    BY RidIsPairAfter
  <2>2. r[2] \in Live(blocks[r[1]]) /\ (r[1] = a => r[2] # idx)
    BY <2>1
  <2>3. r \in Rids /\ r # rid
    BY <2>1, <2>2, RidsOf
  <2>4. blocks'[r[1]].item[r[2]] = blocks[r[1]].item[r[2]]
    BY <2>1
  <2> QED
    BY <2>3, <2>4
<1>3. ASSUME NEW r \in Rids, r # rid PROVE r \in Rids'
  <2>1. r = <<r[1], r[2]>> /\ r[1] \in DOMAIN blocks /\ r[2] \in Live(blocks[r[1]])
    BY RidIsPair
  <2>2. r[1] = a => r[2] # idx
    BY <2>1, <1>3
  <2>3. r[2] \in Live(blocks'[r[1]])
    BY <2>1, <2>2
  <2> QED
    BY <2>1, <2>3, RidsAfter
<1>4. Rids' = Rids \ {rid}
  BY <1>2, <1>3
<1>5. [r \in Rids' |-> blocks'[r[1]].item[r[2]]] =
        [r \in Rids \ {rid} |-> [q \in Rids |-> blocks[q[1]].item[q[2]]][r]]
  <2>1. ASSUME NEW r \in Rids \ {rid}
        PROVE  blocks'[r[1]].item[r[2]] = [q \in Rids |-> blocks[q[1]].item[q[2]]][r]
    BY <1>2, <1>4
  <2> QED
    BY <1>4, <2>1
<1> QED
  BY <1>1, <1>5 DEF Store!Remove, table_read

LEMMA InitMaps == Init => Store!Init
<1> SUFFICES ASSUME Init PROVE Store!Init
  OBVIOUS
<1>1. blocks = [a \in 0 .. -1 |-> EmptyBlock]
  BY DEF Init
<1>2. Rids = {}
  BY <1>1, RidIsPair
<1>3. [rid \in Rids |-> table_read(rid)] = [i \in {} |-> {}]
  BY <1>2
<1> QED
  BY <1>3 DEF Store!Init

LEMMA PutInBlockMaps ==
    ASSUME IInv, PutInBlock
    PROVE  \E i \in 0 .. blocks[ret].n_items : Store!Put(<<ret, i>>, call.item)
<1> DEFINE b == blocks[ret]
<1>1. At("put") /\ ret # None /\ call.item \in Item
  BY CallFacts DEF PutInBlock, IInv
<1>2. ret \in DOMAIN blocks /\ SizeOf[call.item] <= free_space(b) /\ IsBlock(b) /\ Gap(b) >= 0
  BY <1>1 DEF RoomForItem, TypeOK, NeverOverfull, IInv
<1>3. PICK i \in 0 .. b.n_items :
        NewIdx(b, i) /\ blocks' = [blocks EXCEPT ![ret] = new_item(b, i, call.item)]
  BY DEF PutInBlock
<1>4. /\ i \notin Live(b)
      /\ Live(blocks'[ret]) = Live(b) \cup {i}
      /\ blocks'[ret].item[i] = call.item
      /\ \A k \in Live(b) : blocks'[ret].item[k] = b.item[k]
  BY <1>1, <1>2, <1>3, NewItemKeeps
<1>5. DOMAIN blocks' = DOMAIN blocks /\ \A c \in DOMAIN blocks : c # ret => blocks'[c] = blocks[c]
  BY <1>3
<1>6. Store!Put(<<ret, i>>, call.item)
  BY <1>2, <1>4, <1>5, PutMaps
<1> QED
  BY <1>6

LEMMA AppendBlockMaps ==
    ASSUME IInv, AppendBlock
    PROVE  Store!Put(<<length, 0>>, call.item)
<1>1. /\ At("append") /\ call.item \in Item /\ length \in Nat
      /\ DOMAIN blocks = 0 .. length - 1
      /\ call.page = new_item(EmptyBlock, 0, call.item)
      /\ blocks' = [a \in 0 .. length |-> IF a = length THEN call.page ELSE blocks[a]]
  BY CallFacts, TableAssumption DEF AppendBlock, IInv, TypeOK, CallOK
<1>2. /\ length \in DOMAIN blocks' /\ length \notin DOMAIN blocks
      /\ \A c \in DOMAIN blocks : c \in DOMAIN blocks'
      /\ \A c \in DOMAIN blocks' : c # length => c \in DOMAIN blocks /\ blocks'[c] = blocks[c]
      /\ blocks'[length] = call.page
  BY <1>1
<1>3. Live(blocks'[length]) = {0} /\ blocks'[length].item[0] = call.item
  BY <1>1, <1>2, FirstItem
<1> QED
  BY <1>2, <1>3, PutMaps

LEMMA TakeItemMaps ==
    ASSUME IInv, TakeItem
    PROVE  Store!Remove(<<call.block_addr, call.idx>>)
<1> DEFINE a == call.block_addr
<1>1. /\ a \in DOMAIN blocks /\ call.idx \in Live(blocks[a])
      /\ IsBlock(blocks[a]) /\ Gap(blocks[a]) >= 0
      /\ blocks' = [blocks EXCEPT ![a] = delete_item(blocks[a], call.idx)]
  BY DEF TakeItem, IInv, CallOK, TypeOK, NeverOverfull
<1>2. /\ Live(blocks'[a]) = Live(blocks[a]) \ {call.idx}
      /\ \A i \in Live(blocks'[a]) : blocks'[a].item[i] = blocks[a].item[i]
  BY <1>1, DeleteItemKeeps
<1>3. DOMAIN blocks' = DOMAIN blocks /\ \A c \in DOMAIN blocks : c # a => blocks'[c] = blocks[c]
  BY <1>1
<1> QED
  BY <1>1, <1>2, <1>3, RemoveMaps

(* The table is a store of items under rids that never change: putting or  *)
(* deleting one item, in whatever block, touches no other rid.             *)
THEOREM TableImplementsItemStore == Spec => ImplementsItemStore
<1> DEFINE Step == \/ PutInBlock /\ \E i \in 0 .. blocks[ret].n_items : Store!Put(<<ret, i>>, call.item)
                   \/ AppendBlock /\ Store!Put(<<length, 0>>, call.item)
                   \/ TakeItem /\ Store!Remove(<<call.block_addr, call.idx>>)
                   \/ UNCHANGED [rid \in Rids |-> table_read(rid)]
<1>1. IInv /\ [Next]_vars => [Step]_vars
  <2> SUFFICES ASSUME IInv, Next PROVE Step
    OBVIOUS
  <2>1. CASE PutInBlock
    BY <2>1, PutInBlockMaps
  <2>2. CASE AppendBlock
    BY <2>2, AppendBlockMaps
  <2>3. CASE TakeItem
    BY <2>3, TakeItemMaps
  <2>4. CASE blocks' = blocks
    BY <2>4 DEF Rids, table_read
  <2> QED
    BY <2>1, <2>2, <2>3, <2>4 DEF Next, table_insert, PutInNewBlock, table_delete, Register
<1> QED
  BY <1>1, InitMaps, SpecIInv, PTL DEF Spec, ImplementsItemStore
=============================================================================
