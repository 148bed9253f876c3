------------------------------- MODULE Table -------------------------------
(***************************************************************************)
(* A table (table.c): a file of blocks, and a free-space map that says     *)
(* which of them have room.  The map is FreeSpaceMap, which HashMap        *)
(* implements; a block is what Block shows it to be, its head_ptr given by *)
(* its number of item ids and its bytes by the items.                      *)
(*                                                                         *)
(* Calls of a table do not overlap, since the server runs them under its   *)
(* mutex; what is split here are the steps of one call, so that a block    *)
(* and what the map says of it can differ in between.                      *)
(***************************************************************************)
EXTENDS Integers

CONSTANTS
    PAGE_SIZE,   \* bytes of a block
    HeaderSize,  \* bytes before the first item id
    IdSize,      \* sizeof(ItemID)
    Item,        \* the records and string chunks
    SizeOf,      \* the size of every item
    MaxBlocks,   \* bound on the blocks of the file
    None         \* no item, no block

Addr == 0 .. MaxBlocks - 1

ASSUME TableAssumption ==
    /\ PAGE_SIZE \in Nat \ {0}
    /\ HeaderSize \in 1 .. PAGE_SIZE
    /\ IdSize \in Nat \ {0}
    /\ SizeOf \in [Item -> 1 .. PAGE_SIZE - HeaderSize - IdSize]  \* an item fits an empty block
    /\ MaxBlocks \in Nat
    /\ None \notin Item \cup Nat

VARIABLES
    blocks,  \* the blocks of the file
    length,  \* table->data_pool.file.length, in blocks
    space,   \* what the free-space map knows
    ret,     \* what hash_table_pop_lower_bound returned last
    call     \* the call that is running, and how far it is

vars == <<blocks, length, space, ret, call>>

FSM == INSTANCE FreeSpaceMap WITH MaxSize <- PAGE_SIZE

-----------------------------------------------------------------------------
(* A block: its ids, None when the id may be used again, and its tail_ptr. *)
EmptyBlock == [n_items |-> 0, tail_ptr |-> PAGE_SIZE, item |-> [i \in 0 .. -1 |-> None]]

FreeIds(b) == {i \in 0 .. b.n_items - 1 : b.item[i] = None}

Live(b) == (0 .. b.n_items - 1) \ FreeIds(b)

Gap(b) == b.tail_ptr - (HeaderSize + IdSize * b.n_items)

(* Faulty variant: the room for a new item id is forgotten.                *)
free_space_NoId(b) == Gap(b)

free_space(b) ==
    IF FreeIds(b) # {} THEN Gap(b)
    ELSE IF Gap(b) < IdSize THEN 0
    ELSE Gap(b) - IdSize

(* The index new_item takes: the first free id, else a new one.            *)
NewIdx(b, idx) ==
    IF FreeIds(b) = {} THEN idx = b.n_items
    ELSE idx \in FreeIds(b) /\ \A k \in FreeIds(b) : idx <= k

new_item(b, idx, item) ==
    LET n == IF idx = b.n_items THEN idx + 1 ELSE b.n_items IN
      [n_items |-> n,
       tail_ptr |-> b.tail_ptr - SizeOf[item],
       item |-> [i \in 0 .. n - 1 |-> IF i = idx THEN item ELSE b.item[i]]]

(* Faulty variant: the space of the item id is given back, too.            *)
delete_item_AddsId(b, idx) ==
    LET n == IF idx = b.n_items - 1 THEN idx ELSE b.n_items IN
      [n_items |-> n,
       tail_ptr |-> b.tail_ptr + SizeOf[b.item[idx]] + IdSize,
       item |-> [i \in 0 .. n - 1 |-> IF i = idx THEN None ELSE b.item[i]]]

(* Faulty variant: the ids behind a deleted one move down.                 *)
delete_item_Renumbers(b, idx) ==
    [n_items |-> b.n_items - 1,
     tail_ptr |-> b.tail_ptr + SizeOf[b.item[idx]],
     item |-> [i \in 0 .. b.n_items - 2 |-> IF i < idx THEN b.item[i] ELSE b.item[i + 1]]]

delete_item(b, idx) ==
    LET n == IF idx = b.n_items - 1 THEN idx ELSE b.n_items IN
      [n_items |-> n,
       tail_ptr |-> b.tail_ptr + SizeOf[b.item[idx]],
       item |-> [i \in 0 .. n - 1 |-> IF i = idx THEN None ELSE b.item[i]]]

-----------------------------------------------------------------------------
(* call.at is where the call is; block_addr, item and idx are its locals.  *)
Idle == [at |-> "idle"]
At(l) == call.at = l

Init ==
    /\ length = 0
    /\ blocks = [a \in 0 .. -1 |-> EmptyBlock]
    /\ FSM!Init
    /\ call = Idle

(* Faulty variants: less than the item takes up is asked for, or more.     *)
Asked_Short(item) == SizeOf[item] - 1
Asked_WithId(item) == SizeOf[item] + IdSize

(* The size table_insert asks the map for.                                 *)
Asked(item) == SizeOf[item]

(* table_insert asks the map for a block ...                               *)
table_insert(item) ==
    /\ At("idle")
    /\ FSM!PopLowerBound(Asked(item))
    /\ ret' # None \/ length < MaxBlocks
    /\ call' = [at |-> "put", item |-> item]
    /\ UNCHANGED <<blocks, length>>

(* ... puts the item into the one it got ...                               *)
PutInBlock ==
    /\ At("put")
    /\ ret # None
    /\ \E idx \in 0 .. blocks[ret].n_items :
         /\ NewIdx(blocks[ret], idx)
         /\ blocks' = [blocks EXCEPT ![ret] = new_item(@, idx, call.item)]
    /\ call' = [at |-> "register", block_addr |-> ret]
    /\ UNCHANGED <<length, space, ret>>

(* ... or into an empty one, which it registers under the address it will  *)
(* have and then appends.                                                  *)
PutInNewBlock ==
    /\ At("put")
    /\ ret = None
    /\ LET page == new_item(EmptyBlock, 0, call.item) IN
         /\ FSM!Insert(free_space(page), length)
         /\ call' = [at |-> "append", page |-> page, item |-> call.item]
    /\ UNCHANGED <<blocks, length>>

AppendBlock ==
    /\ At("append")
    /\ blocks' = [a \in 0 .. length |-> IF a = length THEN call.page ELSE blocks[a]]
    /\ length' = length + 1
    /\ call' = Idle
    /\ UNCHANGED <<space, ret>>

(* table_delete takes the block out of the map under the space it has ...  *)
table_delete(block_addr, idx) ==
    /\ At("idle")
    /\ idx \in Live(blocks[block_addr])
    /\ FSM!Pop(free_space(blocks[block_addr]), block_addr)
    /\ call' = [at |-> "delete", block_addr |-> block_addr, idx |-> idx]
    /\ UNCHANGED <<blocks, length>>

(* ... and deletes the item.                                               *)
TakeItem ==
    /\ At("delete")
    /\ blocks' = [blocks EXCEPT ![call.block_addr] = delete_item(@, call.idx)]
    /\ call' = [at |-> "register", block_addr |-> call.block_addr]
    /\ UNCHANGED <<length, space, ret>>

(* Faulty variant: the block is registered as if an id were always free.   *)
Register_Gap ==
    /\ At("register")
    /\ FSM!Insert(Gap(blocks[call.block_addr]), call.block_addr)
    /\ call' = Idle
    /\ UNCHANGED <<blocks, length>>

(* Both calls end by registering the block under the space it has now.     *)
Register ==
    /\ At("register")
    /\ FSM!Insert(free_space(blocks[call.block_addr]), call.block_addr)
    /\ call' = Idle
    /\ UNCHANGED <<blocks, length>>

Next ==
    \/ \E item \in Item : table_insert(item)
    \/ PutInBlock
    \/ PutInNewBlock
    \/ AppendBlock
    \/ \E a \in DOMAIN blocks : \E idx \in 0 .. PAGE_SIZE : table_delete(a, idx)
    \/ TakeItem
    \/ Register

Spec == Init /\ [][Next]_vars

-----------------------------------------------------------------------------
IsBlock(b) ==
    /\ b = [n_items |-> b.n_items, tail_ptr |-> b.tail_ptr, item |-> b.item]
    /\ b.n_items \in Nat
    /\ b.tail_ptr \in Int
    /\ b.item \in [0 .. b.n_items - 1 -> Item \cup {None}]

TypeOK ==
    /\ length \in 0 .. MaxBlocks
    /\ DOMAIN blocks = 0 .. length - 1
    /\ \A a \in 0 .. length - 1 : IsBlock(blocks[a])
    /\ space \in [Addr -> Nat \cup {None}]
    /\ ret \in Addr \cup {None}
    /\ \/ call = Idle
       \/ /\ At("put") /\ call.item \in Item
          /\ call = [at |-> "put", item |-> call.item]
       \/ /\ At("append") /\ call.item \in Item /\ IsBlock(call.page)
          /\ call = [at |-> "append", page |-> call.page, item |-> call.item]
       \/ /\ At("register") /\ call.block_addr \in Addr
          /\ call = [at |-> "register", block_addr |-> call.block_addr]
       \/ /\ At("delete") /\ call.block_addr \in Addr /\ call.idx \in Nat
          /\ call = [at |-> "delete", block_addr |-> call.block_addr, idx |-> call.idx]

(* The block the running call has taken out of the map.                    *)
InHand ==
    IF At("put") THEN {ret} \ {None}
    ELSE IF At("delete") \/ At("register") THEN {call.block_addr}
    ELSE {}

(* The map holds every block of the file that no call has in hand, once    *)
(* and under the space the block has now.  table_delete relies on it: it   *)
(* looks the block up under the space it computes (table.c:79), and        *)
(* hash_table_pop asks the pool for page -1 if that is not where it is.    *)
RegisteredTruly ==
    \A a \in Addr :
      space[a] = IF a \in DOMAIN blocks \ InHand THEN free_space(blocks[a])
                 ELSE IF At("append") /\ a = length THEN free_space(call.page)
                 ELSE None

(* "There should be enough space" (block.h): the block table_insert gets   *)
(* from the map has room for the item, and for a new id if it takes one.   *)
RoomForItem ==
    At("put") /\ ret # None =>
      /\ ret \in DOMAIN blocks
      /\ SizeOf[call.item] <= free_space(blocks[ret])

(* Items and ids never meet in any block, however it is filled.            *)
NeverOverfull == \A a \in DOMAIN blocks : Gap(blocks[a]) >= 0

(* The bytes of the items of a block, one index after the other.           *)
Takes(b, i) == IF i \in Live(b) THEN SizeOf[b.item[i]] ELSE 0

Bytes(b) ==
    LET before[n \in 0 .. b.n_items] ==
          IF n = 0 THEN 0 ELSE before[n - 1] + Takes(b, n - 1)
    IN  before[b.n_items]

(* No byte is lost or counted twice over any sequence of calls, so what a  *)
(* block is registered under is a size the directory of the map has        *)
(* (table.c:9): a greater one would lie behind the last directory block.   *)
ItemsAccounted == \A a \in DOMAIN blocks : blocks[a].tail_ptr = PAGE_SIZE - Bytes(blocks[a])

BytesKept == ItemsAccounted /\ \A a \in Addr : space[a] \in FSM!Size \cup {None}

(* What the running call knows: the block and the item it was asked to     *)
(* delete are there, the page it is about to append is well filled, and    *)
(* no block of the file had room when it was told so.                      *)
NoneFits == \A a \in 0 .. length - 1 : free_space(blocks[a]) < SizeOf[call.item]

CallOK ==
    /\ At("put") /\ ret = None => length < MaxBlocks /\ NoneFits
    /\ At("append") =>
         /\ length < MaxBlocks
         /\ NoneFits
         /\ call.page = new_item(EmptyBlock, 0, call.item)
    /\ At("register") => call.block_addr \in DOMAIN blocks
    /\ At("delete") =>
         call.block_addr \in DOMAIN blocks /\ call.idx \in Live(blocks[call.block_addr])

IInv == TypeOK /\ RegisteredTruly /\ RoomForItem /\ NeverOverfull /\ CallOK

(* The file grows only when no block has room for the item.                *)
GrowsOnlyWhenFull ==
    [][length' > length =>
         \A a \in 0 .. length - 1 : free_space(blocks[a]) < SizeOf[call.item]]_vars

(* A rid names its item until it is deleted: table_insert and table_delete *)
(* put and remove just the item they are asked to, at the step that        *)
(* changes the block, and no step changes what another rid names.          *)
Rids == UNION {{<<a, i>> : i \in Live(blocks[a])} : a \in DOMAIN blocks}

table_read(rid) == blocks[rid[1]].item[rid[2]]

Store == INSTANCE ItemStore WITH
           Slots <- Addr \X Nat, Items <- Item, items <- [rid \in Rids |-> table_read(rid)]

ImplementsItemStore ==
    /\ Store!Init
    /\ [][\/ PutInBlock /\ \E i \in 0 .. blocks[ret].n_items : Store!Put(<<ret, i>>, call.item)
          \/ AppendBlock /\ Store!Put(<<length, 0>>, call.item)
          \/ TakeItem /\ Store!Remove(<<call.block_addr, call.idx>>)
          \/ UNCHANGED [rid \in Rids |-> table_read(rid)]]_vars
=============================================================================
