------------------------------- MODULE Block -------------------------------
(***************************************************************************)
(* A slotted page (block.c): item ids grow up from the header, items grow  *)
(* down from the end of the page, and a deletion closes the gap it leaves. *)
(*                                                                         *)
(* The ids of the page are the function ids, which keeps only the n_items  *)
(* ids in use by the header; the bytes of the page are the function bytes. *)
(* In memory the ids lie at HeaderSize .. head_ptr - 1 of the same bytes:  *)
(* that the two never meet is the invariant ItemsApart.  Offsets and sizes *)
(* are below PAGE_SIZE = 128 and fit the 15 bits compose_item_id gives     *)
(* them, so an id is a record.                                             *)
(***************************************************************************)
EXTENDS Integers, Sequences

CONSTANTS
    PAGE_SIZE,   \* bytes of a page
    HeaderSize,  \* bytes before the first item id
    IdSize,      \* sizeof(ItemID)
    Byte,        \* what a byte can be
    Blank,       \* the byte of an empty page
    Items        \* the items callers put into blocks

ASSUME BlockAssumption ==
    /\ PAGE_SIZE \in Nat
    /\ HeaderSize \in 0 .. PAGE_SIZE
    /\ IdSize \in Nat \ {0}
    /\ Blank \in Byte
    /\ Items \subseteq Seq(Byte) \ {<<>>}

VARIABLES
    n_items,   \* number of item ids
    head_ptr,  \* where the free space begins
    tail_ptr,  \* where it ends
    ids,       \* the item ids, from 0
    bytes      \* the page

vars == <<n_items, head_ptr, tail_ptr, ids, bytes>>

Pos == 0 .. PAGE_SIZE - 1
Slots == 0 .. PAGE_SIZE

(* compose_item_id: available is 1 for an id that may be used again.       *)
ItemId == [available : {0, 1}, offset : 0 .. PAGE_SIZE, size : 0 .. PAGE_SIZE]

compose_item_id(a, o, s) == [available |-> a, offset |-> o, size |-> s]

TypeOK ==
    /\ n_items \in Nat
    /\ head_ptr \in 0 .. PAGE_SIZE
    /\ tail_ptr \in 0 .. PAGE_SIZE
    /\ ids \in [0 .. n_items - 1 -> ItemId]
    /\ bytes \in [Pos -> Byte]

InUse == {i \in 0 .. n_items - 1 : ids[i].available = 0}

(* get_item, read to the size in the id.                                   *)
get_item(i) == [k \in 1 .. ids[i].size |-> bytes[ids[i].offset + k - 1]]

-----------------------------------------------------------------------------
(* init_block on an empty page.                                            *)
Init ==
    /\ n_items = 0
    /\ head_ptr = HeaderSize
    /\ tail_ptr = PAGE_SIZE
    /\ ids = [i \in 0 .. -1 |-> compose_item_id(0, 0, 0)]
    /\ bytes = [p \in Pos |-> Blank]

HasFreeId == \E i \in 0 .. n_items - 1 : ids[i].available = 1

(* Faulty variant: the room for a new item id is forgotten.                *)
free_space_NoId == tail_ptr - head_ptr

(* What table.c registers as the room left in the block.                   *)
free_space ==
    IF HasFreeId THEN tail_ptr - head_ptr
    ELSE IF tail_ptr - head_ptr - IdSize < 0 THEN 0
    ELSE tail_ptr - head_ptr - IdSize

(* The item goes right below the other items.                              *)
PutBytes(item) ==
    /\ tail_ptr' = tail_ptr - Len(item)
    /\ bytes' = [p \in Pos |-> IF tail_ptr - Len(item) <= p /\ p < tail_ptr
                               THEN item[p - (tail_ptr - Len(item)) + 1]
                               ELSE bytes[p]]

(* new_item gives the item the first id that is free ...                   *)
NewInFreeId(item) ==
    /\ Len(item) <= free_space
    /\ \E i \in 0 .. n_items - 1 :
         /\ ids[i].available = 1
         /\ \A k \in 0 .. i - 1 : ids[k].available = 0
         /\ ids' = [ids EXCEPT ![i] = compose_item_id(0, tail_ptr - Len(item), Len(item))]
    /\ PutBytes(item)
    /\ UNCHANGED <<n_items, head_ptr>>

(* ... and a new one if there is none.  "There should be enough space" is  *)
(* the callers' part: table_insert asks the free-space map for a block     *)
(* whose free_space is at least the size of the item.                      *)
NewInNewId(item) ==
    /\ Len(item) <= free_space
    /\ ~HasFreeId
    /\ head_ptr' = head_ptr + IdSize
    /\ ids' = [k \in 0 .. n_items |->
                 IF k = n_items THEN compose_item_id(0, tail_ptr - Len(item), Len(item))
                 ELSE ids[k]]
    /\ n_items' = n_items + 1
    /\ PutBytes(item)

new_item(item) == NewInFreeId(item) \/ NewInNewId(item)

(* delete_item moves the bytes below the deleted item up by its size, from *)
(* the highest down, and the offsets of the items they belong to with      *)
(* them.                                                                   *)
Below(id, offset) == id.offset < offset /\ id.available = 0

(* Faulty variant: items move but their ids still point at the old place.  *)
MoveUp_Forgotten(id, offset, size) == id

MoveUp(id, offset, size) ==
    IF Below(id, offset) THEN [id EXCEPT !.offset = @ + size] ELSE id

(* Faulty variant: the free space does not grow.                           *)
CloseGap_KeepsTail(offset, size) ==
    /\ bytes' = [p \in Pos |-> IF tail_ptr + size <= p /\ p < offset + size
                               THEN bytes[p - size]
                               ELSE bytes[p]]
    /\ UNCHANGED tail_ptr

CloseGap(offset, size) ==
    /\ bytes' = [p \in Pos |-> IF tail_ptr + size <= p /\ p < offset + size
                               THEN bytes[p - size]
                               ELSE bytes[p]]
    /\ tail_ptr' = tail_ptr + size

(* The last id is given up.  Free ids before it stay.                      *)
DeleteLast ==
    /\ n_items - 1 \in InUse
    /\ n_items' = n_items - 1
    /\ head_ptr' = head_ptr - IdSize
    /\ LET id == ids[n_items - 1] IN
         /\ ids' = [k \in 0 .. n_items - 2 |-> MoveUp(ids[k], id.offset, id.size)]
         /\ CloseGap(id.offset, id.size)

(* Any other id becomes free, with offset and size 0.                      *)
DeleteInner(i) ==
    /\ i \in InUse
    /\ i # n_items - 1
    /\ ids' = [k \in 0 .. n_items - 1 |->
                 IF k = i THEN compose_item_id(1, 0, 0)
                 ELSE MoveUp(ids[k], ids[i].offset, ids[i].size)]
    /\ CloseGap(ids[i].offset, ids[i].size)
    /\ UNCHANGED <<n_items, head_ptr>>

(* Callers delete only indexes that are in use.                            *)
delete_item(i) == DeleteInner(i) \/ (i = n_items - 1 /\ DeleteLast)

Next ==
    \/ \E item \in Items : new_item(item)
    \/ \E i \in 0 .. n_items - 1 : delete_item(i)

Spec == Init /\ [][Next]_vars

-----------------------------------------------------------------------------
(* Ids and items keep to their sides of the free space, every item lies    *)
(* between tail_ptr and the end of the page, and no two items share a      *)
(* byte.  new_item checks none of this; it holds because free_space tells  *)
(* the truth (block.c:77-89) and delete_item moves the right items.        *)
Start(i) == ids[i].offset
End(i) == ids[i].offset + ids[i].size

ItemsApart ==
    /\ head_ptr = HeaderSize + IdSize * n_items
    /\ head_ptr <= tail_ptr
    /\ \A i \in InUse : tail_ptr <= Start(i) /\ Start(i) < End(i) /\ End(i) <= PAGE_SIZE
    /\ \A i, j \in InUse : i # j => End(i) <= Start(j) \/ End(j) <= Start(i)

(* No byte is lost: all of the page from tail_ptr on belongs to items, so  *)
(* the space of deleted items is free again at once, in whatever order     *)
(* they were put and deleted.                                              *)
NoHoles ==
    \A p \in tail_ptr .. PAGE_SIZE - 1 : \E i \in InUse : Start(i) <= p /\ p < End(i)

IInv == TypeOK /\ ItemsApart /\ NoHoles

(* Deleting an item or putting one leaves every other item's index and     *)
(* bytes as they were.                                                     *)
Store == INSTANCE ItemStore WITH items <- [i \in InUse |-> get_item(i)]

ImplementsItemStore == Store!Spec
=============================================================================
