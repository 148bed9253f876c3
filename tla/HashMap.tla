------------------------------ MODULE HashMap ------------------------------
(***************************************************************************)
(* The free-space map of a table (hash_map.c): a directory of chains of    *)
(* hash blocks, one chain per size, and a list of free hash blocks that    *)
(* starts in the control block.                                            *)
(*                                                                         *)
(* Page 0 of the file is the control block, the next NDir pages are the    *)
(* directory and the pages after them the hash blocks, here numbered from  *)
(* 0.  The pool under the map is what PageStore says, so its pages are     *)
(* variables of their own.                                                 *)
(***************************************************************************)
EXTENDS Integers, Sequences, FiniteSets, SequencesExt, LinkedLists

CONSTANTS
    NDir,                     \* n_directory_blocks
    HASH_MAP_DIR_BLOCK_SIZE,  \* sizes per directory block
    HASH_MAP_BLOCK_SIZE,      \* addresses per hash block
    Addr,                     \* the table blocks the map can hold
    None,                     \* no address
    MaxBlocks                 \* bound on the number of hash blocks

ASSUME MapAssumption ==
    /\ NDir \in Nat
    /\ HASH_MAP_DIR_BLOCK_SIZE \in Nat \ {0}
    /\ HASH_MAP_BLOCK_SIZE \in Nat \ {0}
    /\ MaxBlocks \in Nat
    /\ None \notin Addr \cup Nat

VARIABLES
    free_block_head,  \* ctrl->free_block_head
    directory,        \* the first block of the chain of every size
    next,             \* block->next
    table,            \* block->table, its first n_items entries
    length,           \* number of hash blocks in the file
    ret               \* what hash_table_pop_lower_bound returned last

vars == <<free_block_head, directory, next, table, length, ret>>

MaxSize == NDir * HASH_MAP_DIR_BLOCK_SIZE
Size == 0 .. MaxSize - 1
Block == 0 .. MaxBlocks - 1
NoBlock == -1
BlockOrNone == Block \cup {NoBlock}

DirPage(size) == size \div HASH_MAP_DIR_BLOCK_SIZE
DirSlot(size) == size % HASH_MAP_DIR_BLOCK_SIZE

TypeOK ==
    /\ free_block_head \in BlockOrNone
    /\ directory \in [0 .. NDir - 1 -> [0 .. HASH_MAP_DIR_BLOCK_SIZE - 1 -> BlockOrNone]]
    /\ next \in [Block -> BlockOrNone]
    /\ table \in [Block -> Seq(Addr)]
    /\ \A b \in Block : Len(table[b]) <= HASH_MAP_BLOCK_SIZE
    /\ length \in 0 .. MaxBlocks
    /\ ret \in Addr \cup {None}

First(size) == directory[DirPage(size)][DirSlot(size)]

(* The blocks from b on.  No list is longer than MaxBlocks; one that ran   *)
(* into itself would show as one of MaxBlocks + 1 blocks.                  *)
List(b) == ListFrom(next, b, NoBlock, MaxBlocks + 1)

Chain(size) == List(First(size))

IsFull(b) == Len(table[b]) = HASH_MAP_BLOCK_SIZE

Registered(size, addr) == LET c == Chain(size) IN \E k \in DOMAIN c : addr \in ToSet(table[c[k]])

-----------------------------------------------------------------------------
(* hash_table_init on a file it creates.  Hash blocks that are not in the  *)
(* file yet have no entries.                                               *)
Init ==
    /\ free_block_head = NoBlock
    /\ directory = [p \in 0 .. NDir - 1 |->
                      [s \in 0 .. HASH_MAP_DIR_BLOCK_SIZE - 1 |-> NoBlock]]
    /\ next = [b \in Block |-> NoBlock]
    /\ table = [b \in Block |-> <<>>]
    /\ length = 0
    /\ ret = None

(* Faulty variant: the free block stays on the free list.                  *)
TakeBlock_StaysFree(b) ==
    \/ /\ free_block_head # NoBlock
       /\ b = free_block_head
       /\ UNCHANGED <<free_block_head, length>>
    \/ /\ free_block_head = NoBlock
       /\ b = length
       /\ length' = length + 1
       /\ UNCHANGED free_block_head

(* Block b for a new entry: the first free one, else a page appended to    *)
(* the file.                                                               *)
TakeBlock(b) ==
    \/ /\ free_block_head # NoBlock
       /\ b = free_block_head
       /\ free_block_head' = next[b]
       /\ UNCHANGED length
    \/ /\ free_block_head = NoBlock
       /\ b = length
       /\ length' = length + 1
       /\ UNCHANGED free_block_head

(* hash_table_insert when the size has no chain yet, ...                   *)
InsertFirst(size, addr) ==
    /\ First(size) = NoBlock
    /\ \E b \in Block :
         /\ TakeBlock(b)
         /\ directory' = [directory EXCEPT ![DirPage(size)][DirSlot(size)] = b]
         /\ next' = [next EXCEPT ![b] = NoBlock]
         /\ table' = [table EXCEPT ![b] = <<addr>>]

(* ... when the k-th block of the chain is the first with room ...         *)
InsertInRoom(size, addr) ==
    /\ LET c == Chain(size) IN
         \E k \in DOMAIN c :
           /\ ~IsFull(c[k])
           /\ \A m \in 1 .. k - 1 : IsFull(c[m])
           /\ table' = [table EXCEPT ![c[k]] = Append(@, addr)]
    /\ UNCHANGED <<free_block_head, directory, next, length>>

(* ... and when all are full: a block is linked behind the last one.       *)
InsertBehind(size, addr) ==
    LET c == Chain(size) IN
      /\ c # <<>>
      /\ \A m \in DOMAIN c : IsFull(c[m])
      /\ \E b \in Block :
           /\ TakeBlock(b)
           /\ next' = [next EXCEPT ![c[Len(c)]] = b, ![b] = NoBlock]
           /\ table' = [table EXCEPT ![b] = <<addr>>]
      /\ UNCHANGED directory

(* A table registers a block only when it is not registered.               *)
hash_table_insert(size, addr) ==
    /\ \A s \in Size : ~Registered(s, addr)
    /\ \/ InsertFirst(size, addr)
       \/ InsertInRoom(size, addr)
       \/ InsertBehind(size, addr)
    /\ UNCHANGED ret

(* Faulty variant: the blocks behind the emptied one are forgotten.        *)
Unlink_LosesRest(size, c, k) ==
    /\ free_block_head' = c[k]
    /\ IF k = 1
       THEN /\ directory' = [directory EXCEPT ![DirPage(size)][DirSlot(size)] = NoBlock]
            /\ next' = [next EXCEPT ![c[k]] = free_block_head]
       ELSE /\ next' = [next EXCEPT ![c[k - 1]] = NoBlock, ![c[k]] = free_block_head]
            /\ UNCHANGED directory

(* The i-th entry of the k-th block of a chain goes and the entries behind *)
(* it move down; a block that becomes empty is unlinked and becomes the    *)
(* first free block.                                                       *)
Unlink(size, c, k) ==
    /\ free_block_head' = c[k]
    /\ IF k = 1
       THEN /\ directory' = [directory EXCEPT ![DirPage(size)][DirSlot(size)] = next[c[k]]]
            /\ next' = [next EXCEPT ![c[k]] = free_block_head]
       ELSE /\ next' = [next EXCEPT ![c[k - 1]] = next[c[k]], ![c[k]] = free_block_head]
            /\ UNCHANGED directory

(* Faulty variant: nobody notices that the block is empty.                 *)
BecomesEmpty_Never(b) == Len(table[b]) = 0

BecomesEmpty(b) == Len(table[b]) = 1

TakeOut(size, c, k, i) ==
    /\ table' = [table EXCEPT ![c[k]] = RemoveAt(@, i)]
    /\ IF BecomesEmpty(c[k])
       THEN Unlink(size, c, k)
       ELSE UNCHANGED <<free_block_head, directory, next>>
    /\ UNCHANGED length

(* hash_table_pop finds addr in the first block of the chain, or walks on. *)
hash_table_pop(size, addr) ==
    /\ LET c == Chain(size) IN
         \E k \in DOMAIN c : \E i \in DOMAIN table[c[k]] :
           /\ table[c[k]][i] = addr
           /\ TakeOut(size, c, k, i)
    /\ UNCHANGED ret

(* Faulty variant: every directory block is scanned from the slot of size. *)
Scanned_EverySlot(size) ==
    {d \in (0 .. NDir - 1) \X (0 .. HASH_MAP_DIR_BLOCK_SIZE - 1) :
       /\ d[1] >= DirPage(size)
       /\ d[2] >= DirSlot(size)}

(* hash_table_pop_lower_bound looks at the directory block of size from    *)
(* the slot of size on, and at all slots of the later directory blocks.    *)
Scanned(size) ==
    {d \in (0 .. NDir - 1) \X (0 .. HASH_MAP_DIR_BLOCK_SIZE - 1) :
       /\ d[1] >= DirPage(size)
       /\ d[1] = DirPage(size) => d[2] >= DirSlot(size)}

Earlier(d, e) == d[1] < e[1] \/ (d[1] = e[1] /\ d[2] < e[2])

(* It takes the last entry of the first block it meets.                    *)
PopFound(size) ==
    \E d \in Scanned(size) :
      LET b == directory[d[1]][d[2]]
          found == d[1] * HASH_MAP_DIR_BLOCK_SIZE + d[2]
      IN  /\ b # NoBlock
          /\ \A e \in Scanned(size) : Earlier(e, d) => directory[e[1]][e[2]] = NoBlock
          /\ ret' = table[b][Len(table[b])]
          /\ TakeOut(found, <<b>>, 1, Len(table[b]))

PopNone(size) ==
    /\ \A d \in Scanned(size) : directory[d[1]][d[2]] = NoBlock
    /\ ret' = None
    /\ UNCHANGED <<free_block_head, directory, next, table, length>>

hash_table_pop_lower_bound(size) == PopFound(size) \/ PopNone(size)

Next ==
    \E size \in Size :
      \/ hash_table_pop_lower_bound(size)
      \/ \E addr \in Addr : hash_table_insert(size, addr) \/ hash_table_pop(size, addr)

Spec == Init /\ [][Next]_vars

-----------------------------------------------------------------------------
(* The lists: the chain of every size and, under the name MaxSize, the     *)
(* free list.                                                              *)
ListName == Size \cup {MaxSize}

HeadOf(l) == IF l = MaxSize THEN free_block_head ELSE First(l)

Lists == [l \in ListName |-> List(HeadOf(l))]

(* Every hash block of the file is in exactly one place of exactly one     *)
(* list: the chain of a size or the free list.  So no list runs into       *)
(* another or into itself, and no block is lost to the map for good, which *)
(* the unlinking of emptied blocks (hash_map.c:120-124, 174-178, 194-198)  *)
(* and the reuse of free ones (48-57, 79-88) could break in a long run.    *)
BlocksOwnedOnce ==
    LET lists == Lists IN
      /\ \A l \in ListName :
           /\ IsInjective(lists[l])
           /\ \A m \in ListName \ {l} : ToSet(lists[l]) \cap ToSet(lists[m]) = {}
      /\ UNION {ToSet(lists[l]) : l \in ListName} = 0 .. length - 1

(* The blocks of a chain hold something and the free ones nothing:         *)
(* hash_table_pop_lower_bound takes the last entry of the first block it   *)
(* meets without looking whether there is one (hash_map.c:117, 139).       *)
EmptyIffFree ==
    /\ \A s \in Size : \A b \in ToSet(Chain(s)) : table[b] # <<>>
    /\ \A b \in ToSet(List(free_block_head)) : table[b] = <<>>

(* No address is held twice, in whatever blocks ("there should not be no   *)
(* duplicate addr", hash_map.h:39), for hash_table_pop takes out only one  *)
(* and a table would later be given a block that is registered no more.    *)
RegisteredOnce ==
    \A b, c \in Block : \A i \in DOMAIN table[b] : \A j \in DOMAIN table[c] :
      table[b][i] = table[c][j] => b = c /\ i = j

(* Why: the lists end where the file says they end, and a block that is    *)
(* not in the file yet is as Init left it.                                 *)
Linked == \A l \in ListName : IsList(next, HeadOf(l), NoBlock, Lists[l])

NothingBehind == \A b \in Block : b >= length => table[b] = <<>>

IInv ==
    /\ TypeOK
    /\ Linked
    /\ BlocksOwnedOnce
    /\ EmptyIffFree
    /\ RegisteredOnce
    /\ NothingBehind

(* The map answers as FreeSpaceMap does, call by call: it forgets no       *)
(* registered block, and what hash_table_pop_lower_bound (hash_map.c:      *)
(* 105-142) hands out has the least space that is enough for its argument. *)
SpaceOf(addr) ==
    IF \A b \in Block : addr \notin ToSet(table[b]) THEN None
    ELSE CHOOSE s \in Size : Registered(s, addr)

FSM == INSTANCE FreeSpaceMap WITH space <- [a \in Addr |-> SpaceOf(a)]

ImplementsFreeSpaceMap ==
    /\ FSM!Spec
    /\ [][\A s \in Size :
            /\ hash_table_pop_lower_bound(s) => FSM!PopLowerBound(s)
            /\ \A a \in Addr :
                 /\ hash_table_insert(s, a) => FSM!Insert(s, a)
                 /\ hash_table_pop(s, a) => FSM!Pop(s, a)]_vars
=============================================================================
