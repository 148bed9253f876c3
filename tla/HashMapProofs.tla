--------------------------- MODULE HashMapProofs ---------------------------
(***************************************************************************)
(* Proofs about HashMap, for any number of sizes, blocks and addresses: no *)
(* block is ever lost or in two lists, no empty block is in a chain, and   *)
(* every call does what FreeSpaceMap says.                                 *)
(***************************************************************************)
EXTENDS HashMap, StructureProofs

-----------------------------------------------------------------------------
(* Sizes and the slots of the directory.                                   *)

LEMMA Lex ==
    ASSUME NEW H \in Nat \ {0}, NEW p \in Int, NEW r \in Int, p < r,
           NEW q \in 0 .. H - 1, NEW u \in 0 .. H - 1
    PROVE  p * H + q < r * H + u
OBVIOUS

LEMMA DivMod ==
    ASSUME NEW N \in Nat, NEW H \in Nat \ {0}, NEW s \in 0 .. N * H - 1
    PROVE  /\ s \div H \in 0 .. N - 1
           /\ s % H \in 0 .. H - 1
           /\ s = (s \div H) * H + (s % H)
<1>1. s \div H \in Int /\ s % H \in 0 .. H - 1 /\ s = (s \div H) * H + (s % H)
  OBVIOUS
<1>2. N * H \in Int
  OBVIOUS
<1>3. s \div H >= 0
  BY <1>1, <1>2
<1>4. s \div H < N
  BY <1>1, <1>2
<1> QED
  BY <1>1, <1>3, <1>4

LEMMA DivModOf ==
    ASSUME NEW N \in Nat, NEW H \in Nat \ {0}, NEW p \in 0 .. N - 1, NEW q \in 0 .. H - 1
    PROVE  /\ p * H + q \in 0 .. N * H - 1
           /\ (p * H + q) \div H = p
           /\ (p * H + q) % H = q
<1> DEFINE s == p * H + q
<1>1. s \in 0 .. N * H - 1
  <2>1. s >= 0 /\ s \in Int
    OBVIOUS
  <2>2. s < N * H + 0
    BY Lex
  <2> QED
    BY <2>1, <2>2
<1> HIDE DEF s
<1> DEFINE a == s \div H
           b == s % H
<1>2. a \in 0 .. N - 1 /\ b \in 0 .. H - 1 /\ s = a * H + b
  BY <1>1, DivMod
<1> HIDE DEF a, b
<1>3. a = p
  BY <1>2, Lex DEF s
<1>4. b = q
  BY <1>2, <1>3 DEF s
<1> QED
  BY <1>1, <1>3, <1>4 DEF s, a, b

(* Every size has a slot of its own, every slot a size.                    *)
LEMMA Slots ==
    /\ MaxSize \in Nat /\ MaxSize \notin Size /\ Size \subseteq Nat
    /\ \A s \in Size : /\ DirPage(s) \in 0 .. NDir - 1
                       /\ DirSlot(s) \in 0 .. HASH_MAP_DIR_BLOCK_SIZE - 1
                       /\ s = DirPage(s) * HASH_MAP_DIR_BLOCK_SIZE + DirSlot(s)
    /\ \A p \in 0 .. NDir - 1, q \in 0 .. HASH_MAP_DIR_BLOCK_SIZE - 1 :
         /\ p * HASH_MAP_DIR_BLOCK_SIZE + q \in Size
         /\ DirPage(p * HASH_MAP_DIR_BLOCK_SIZE + q) = p
         /\ DirSlot(p * HASH_MAP_DIR_BLOCK_SIZE + q) = q
<1>1. MaxSize \in Nat
  BY MapAssumption DEF MaxSize
<1>2. ASSUME NEW s \in Size
      PROVE  /\ DirPage(s) \in 0 .. NDir - 1
             /\ DirSlot(s) \in 0 .. HASH_MAP_DIR_BLOCK_SIZE - 1
             /\ s = DirPage(s) * HASH_MAP_DIR_BLOCK_SIZE + DirSlot(s)
  BY MapAssumption, DivMod DEF Size, MaxSize, DirPage, DirSlot
<1>3. ASSUME NEW p \in 0 .. NDir - 1, NEW q \in 0 .. HASH_MAP_DIR_BLOCK_SIZE - 1
      PROVE  /\ p * HASH_MAP_DIR_BLOCK_SIZE + q \in Size
             /\ DirPage(p * HASH_MAP_DIR_BLOCK_SIZE + q) = p
             /\ DirSlot(p * HASH_MAP_DIR_BLOCK_SIZE + q) = q
  BY MapAssumption, DivModOf DEF Size, MaxSize, DirPage, DirSlot
<1> QED
  BY <1>1, <1>2, <1>3 DEF Size

(* A slot is scanned when its size is large enough, and earlier when its   *)
(* size is smaller.                                                        *)
LEMMA ScannedInOrder ==
    ASSUME NEW s \in Size, NEW t \in Size
    PROVE  /\ <<DirPage(t), DirSlot(t)>> \in Scanned(s) <=> t >= s
           /\ Earlier(<<DirPage(t), DirSlot(t)>>, <<DirPage(s), DirSlot(s)>>) <=> t < s
<1> DEFINE H == HASH_MAP_DIR_BLOCK_SIZE
<1>1. /\ DirPage(s) \in 0 .. NDir - 1 /\ DirSlot(s) \in 0 .. H - 1 /\ s = DirPage(s) * H + DirSlot(s)
      /\ DirPage(t) \in 0 .. NDir - 1 /\ DirSlot(t) \in 0 .. H - 1 /\ t = DirPage(t) * H + DirSlot(t)
      /\ H \in Nat \ {0} /\ NDir \in Nat /\ s \in Int /\ t \in Int
  BY Slots, MapAssumption
<1>2. DirPage(t) < DirPage(s) => t < s
  BY <1>1, Lex
<1>3. DirPage(s) < DirPage(t) => s < t
  BY <1>1, Lex
<1>4. DirPage(s) = DirPage(t) => (t < s <=> DirSlot(t) < DirSlot(s))
  BY <1>1
<1>5. <<DirPage(t), DirSlot(t)>> \in Scanned(s)
        <=> /\ DirPage(t) >= DirPage(s)
            /\ DirPage(t) = DirPage(s) => DirSlot(t) >= DirSlot(s)
  BY <1>1 DEF Scanned
<1> QED
  BY <1>1, <1>2, <1>3, <1>4, <1>5 DEF Earlier

-----------------------------------------------------------------------------
(* The lists.                                                              *)

(* A list that follows next and meets no block twice is what List sees.    *)
LEMMA SeenAsIs ==
    ASSUME NEW nx \in [Block -> BlockOrNone], NEW b, NEW s,
           IsList(nx, b, NoBlock, s), IsInjective(s)
    PROVE  ListFrom(nx, b, NoBlock, MaxBlocks + 1) = s
<1>1. DOMAIN nx = Block /\ s \in Seq(Block) /\ NoBlock \notin Block
  BY MapAssumption DEF IsList, Block, NoBlock
<1>2. IsFiniteSet(Block) /\ Cardinality(Block) = MaxBlocks
  <2>1. 0 \in Int /\ MaxBlocks - 1 \in Int /\ MaxBlocks \in Nat
    BY MapAssumption
  <2>2. /\ IsFiniteSet(Block)
        /\ Cardinality(Block) = IF 0 > MaxBlocks - 1 THEN 0 ELSE MaxBlocks - 1 - 0 + 1
    BY <2>1, FS_Interval, Zenon DEF Block
  <2> QED
    BY <2>1, <2>2
<1>3. Len(s) <= MaxBlocks
  BY <1>1, <1>2, DistinctFits
<1>4. Len(s) <= MaxBlocks + 1 /\ MaxBlocks + 1 \in Nat
  BY <1>1, <1>3, MapAssumption
<1> QED
  BY <1>1, <1>4, ListFromIs

(* What the lists are, one by one.                                         *)
LEMMA ListIs ==
    ASSUME TypeOK, Linked, BlocksOwnedOnce, NEW l \in ListName
    PROVE  /\ Lists[l] \in Seq(Block)
           /\ IsList(next, HeadOf(l), NoBlock, Lists[l])
           /\ IsInjective(Lists[l])
           /\ ToSet(Lists[l]) \subseteq 0 .. length - 1
           /\ ToSet(Lists[l]) \subseteq Block
           /\ \A m \in ListName : m # l => ToSet(Lists[l]) \cap ToSet(Lists[m]) = {}
<1>1. IsList(next, HeadOf(l), NoBlock, Lists[l])
  BY DEF Linked
<1>2. Lists[l] \in Seq(Block)
  BY <1>1 DEF IsList, TypeOK
<1>3. /\ IsInjective(Lists[l])
      /\ \A m \in ListName : m # l => ToSet(Lists[l]) \cap ToSet(Lists[m]) = {}
  BY Zenon DEF BlocksOwnedOnce
<1>4. ToSet(Lists[l]) \subseteq 0 .. length - 1
  BY DEF BlocksOwnedOnce
<1>5. ToSet(Lists[l]) \subseteq Block
  BY <1>2, ToSetIs
<1> QED
  BY <1>1, <1>2, <1>3, <1>4, <1>5

LEMMA Names ==
    /\ Size \subseteq ListName /\ MaxSize \in ListName /\ MaxSize \notin Size
    /\ \A l \in ListName : l = MaxSize \/ l \in Size
    /\ HeadOf(MaxSize) = free_block_head
    /\ Lists[MaxSize] = List(free_block_head)
    /\ \A s \in Size : HeadOf(s) = First(s) /\ Lists[s] = Chain(s)
BY Slots DEF ListName, HeadOf, Lists, Chain

(* Every step that moves a block makes a new free list f and a new chain c *)
(* of one size out of the blocks of the old ones and of those behind the   *)
(* end of the file, and leaves the other chains alone.                     *)
LEMMA Rebuilt ==
    ASSUME TypeOK, Linked, BlocksOwnedOnce,
           NEW size \in Size, NEW f, NEW c,
           next' \in [Block -> BlockOrNone], length' \in Nat, length' >= length,
           IsList(next', free_block_head', NoBlock, f), IsInjective(f),
           IsList(next', First(size)', NoBlock, c), IsInjective(c),
           ToSet(f) \cap ToSet(c) = {},
           ToSet(f) \cup ToSet(c)
             = ToSet(Lists[MaxSize]) \cup ToSet(Lists[size]) \cup (length .. length' - 1),
           \A s \in Size \ {size} :
             /\ First(s)' = First(s)
             /\ \A b \in ToSet(Lists[s]) : next'[b] = next[b]
    PROVE  /\ Lists' = [Lists EXCEPT ![MaxSize] = f, ![size] = c]
           /\ Linked'
           /\ BlocksOwnedOnce'
<1> DEFINE new == [Lists EXCEPT ![MaxSize] = f, ![size] = c]
<1>1. /\ Lists = [l \in ListName |-> Lists[l]]
      /\ new = [l \in ListName |-> new[l]]
      /\ new[MaxSize] = f /\ new[size] = c
      /\ \A s \in Size \ {size} : new[s] = Lists[s]
      /\ size \in ListName /\ MaxSize \in ListName /\ MaxSize # size
      /\ \A l \in ListName : l = MaxSize \/ l = size \/ l \in Size \ {size}
  <2>1. DOMAIN Lists = ListName
    BY DEF Lists
  <2> QED
    BY <2>1, Names DEF Lists
<1> HIDE DEF new
<1>2. /\ HeadOf(MaxSize)' = free_block_head'
      /\ \A s \in Size : HeadOf(s)' = First(s)' /\ HeadOf(s) = First(s)
  BY Names DEF HeadOf
<1>3. ASSUME NEW l \in ListName
      PROVE  IsList(next', HeadOf(l)', NoBlock, new[l]) /\ IsInjective(new[l])
  <2>1. CASE l = MaxSize
    BY <1>1, <1>2, <2>1
  <2>2. CASE l = size
    BY <1>1, <1>2, <2>2
  <2>3. CASE l \in Size \ {size}
    <3>1. /\ Lists[l] \in Seq(Block)
          /\ IsList(next, HeadOf(l), NoBlock, Lists[l])
          /\ IsInjective(Lists[l])
      BY ListIs
    <3>2. HeadOf(l)' = HeadOf(l) /\ new[l] = Lists[l]
      BY <1>1, <1>2, <2>3
    <3>3. \A k \in 1 .. Len(Lists[l]) : next'[Lists[l][k]] = next[Lists[l][k]]
      <4>1. \A k \in 1 .. Len(Lists[l]) : Lists[l][k] \in ToSet(Lists[l])
        BY <3>1, ToSetIs
      <4> QED
        BY <2>3, <4>1
    <3>4. DOMAIN next' = DOMAIN next
      BY DEF TypeOK
    <3>5. IsList(next', HeadOf(l), NoBlock, Lists[l])
      BY <3>1, <3>3, <3>4, ListStays
    <3> QED
      BY <3>1, <3>2, <3>5
  <2> QED
    BY <1>1, <2>1, <2>2, <2>3
<1>4. Lists' = new
  <2>1. \A l \in ListName : ListFrom(next', HeadOf(l)', NoBlock, MaxBlocks + 1) = new[l]
    BY <1>3, SeenAsIs
  <2>2. Lists' = [l \in ListName |-> ListFrom(next', HeadOf(l)', NoBlock, MaxBlocks + 1)]
    BY DEF Lists, List
  <2> QED
    BY <1>1, <2>1, <2>2
<1>5. Linked'
  BY <1>3, <1>4 DEF Linked
<1>6. ASSUME NEW l \in ListName, NEW m \in ListName \ {l}
      PROVE  ToSet(new[l]) \cap ToSet(new[m]) = {}
  <2>1. ASSUME NEW s \in Size \ {size}
        PROVE  /\ ToSet(new[s]) \cap ToSet(f) = {}
               /\ ToSet(new[s]) \cap ToSet(c) = {}
    <3>1. /\ ToSet(Lists[s]) \subseteq 0 .. length - 1
          /\ ToSet(Lists[s]) \cap ToSet(Lists[MaxSize]) = {}
          /\ ToSet(Lists[s]) \cap ToSet(Lists[size]) = {}
      BY <1>1, ListIs, Names
    <3>2. (0 .. length - 1) \cap (length .. length' - 1) = {}
      <4>1. length \in Int
        BY MapAssumption DEF TypeOK
      <4>2. ASSUME NEW b PROVE ~(b \in 0 .. length - 1 /\ b \in length .. length' - 1)
        BY <4>1
      <4> QED
        BY <4>2
    <3>3. new[s] = Lists[s]
      BY <1>1
    <3> QED
      BY <3>1, <3>2, <3>3
  <2>2. CASE l \in Size \ {size} /\ m \in Size \ {size}
    <3>1. ToSet(Lists[l]) \cap ToSet(Lists[m]) = {}
      BY ListIs
    <3> QED
      BY <1>1, <2>2, <3>1
  <2>3. CASE l \notin Size \ {size} \/ m \notin Size \ {size}
    BY <1>1, <2>1, <2>3
  <2> QED
    BY <2>2, <2>3
<1>7. UNION {ToSet(new[l]) : l \in ListName} = 0 .. length' - 1
  <2>1. UNION {ToSet(Lists[l]) : l \in ListName} = 0 .. length - 1
    BY DEF BlocksOwnedOnce
  <2>2. 0 .. length' - 1 = (0 .. length - 1) \cup (length .. length' - 1)
    BY DEF TypeOK
  <2>3. ASSUME NEW b PROVE (\E l \in ListName : b \in ToSet(new[l])) <=> b \in 0 .. length' - 1
    <3>1. b \in 0 .. length - 1 <=> \E l \in ListName : b \in ToSet(Lists[l])
      BY <2>1
    <3>2. (\E l \in ListName : b \in ToSet(new[l]))
             <=> b \in ToSet(f) \cup ToSet(c) \/ \E s \in Size \ {size} : b \in ToSet(new[s])
      BY <1>1, Names
    <3>3. (\E l \in ListName : b \in ToSet(Lists[l]))
             <=> \/ b \in ToSet(Lists[MaxSize]) \cup ToSet(Lists[size])
                 \/ \E s \in Size \ {size} : b \in ToSet(Lists[s])
      BY <1>1, Names
    <3>4. (\E s \in Size \ {size} : b \in ToSet(new[s]))
             <=> \E s \in Size \ {size} : b \in ToSet(Lists[s])
      BY <1>1
    <3> QED
      BY <2>2, <3>1, <3>2, <3>3, <3>4
  <2> QED
    BY <2>3
<1>8. BlocksOwnedOnce'
  BY <1>3, <1>4, <1>6, <1>7 DEF BlocksOwnedOnce
<1> QED
  BY <1>4, <1>5, <1>8 DEF new

-----------------------------------------------------------------------------
(* What a step takes for granted, and what it does to the lists.           *)

Sound == TypeOK /\ Linked /\ BlocksOwnedOnce /\ EmptyIffFree /\ NothingBehind

(* Block x of the chain of size, or a block that was free or behind the    *)
(* end of the file, gets addr.                                             *)
Adds(size, addr, x) ==
    /\ x \in Block
    /\ Len(table[x]) < HASH_MAP_BLOCK_SIZE
    /\ table' = [table EXCEPT ![x] = Append(@, addr)]
    /\ ToSet(Lists'[size]) = ToSet(Lists[size]) \cup {x}
    /\ ToSet(Lists'[MaxSize]) = ToSet(Lists[MaxSize]) \ {x}
    /\ \A s \in Size \ {size} : ToSet(Lists'[s]) = ToSet(Lists[s])
    /\ ret' = ret

(* Block x of the chain of size loses its i-th entry, and is free when it  *)
(* was the only one.                                                       *)
Loses(size, x, i) ==
    /\ x \in ToSet(Lists[size])
    /\ i \in DOMAIN table[x]
    /\ table' = [table EXCEPT ![x] = RemoveAt(@, i)]
    /\ IF Len(table[x]) = 1
       THEN /\ ToSet(Lists'[size]) = ToSet(Lists[size]) \ {x}
            /\ ToSet(Lists'[MaxSize]) = ToSet(Lists[MaxSize]) \cup {x}
       ELSE /\ ToSet(Lists'[size]) = ToSet(Lists[size])
            /\ ToSet(Lists'[MaxSize]) = ToSet(Lists[MaxSize])
    /\ \A s \in Size \ {size} : ToSet(Lists'[s]) = ToSet(Lists[s])

LEMMA NewFirst ==
    ASSUME TypeOK, NEW size \in Size, NEW b \in BlockOrNone,
           directory' = [directory EXCEPT ![DirPage(size)][DirSlot(size)] = b]
    PROVE  /\ First(size)' = b
           /\ \A s \in Size \ {size} : First(s)' = First(s)
           /\ directory' \in [0 .. NDir - 1 -> [0 .. HASH_MAP_DIR_BLOCK_SIZE - 1 -> BlockOrNone]]
<1> DEFINE P == 0 .. NDir - 1
           Q == 0 .. HASH_MAP_DIR_BLOCK_SIZE - 1
<1>1. directory \in [P -> [Q -> BlockOrNone]]
  BY DEF TypeOK
<1>2. \A s \in Size : DirPage(s) \in P /\ DirSlot(s) \in Q
  BY Slots
<1>3. \A s \in Size \ {size} : DirPage(s) # DirPage(size) \/ DirSlot(s) # DirSlot(size)
  BY Slots, Zenon
<1> HIDE DEF P, Q
<1>4. First(size)' = b /\ \A s \in Size \ {size} : First(s)' = First(s)
  BY <1>1, <1>2, <1>3 DEF First
<1>5. directory' \in [P -> [Q -> BlockOrNone]]
  BY <1>1, <1>2
<1> QED
  BY <1>4, <1>5 DEF P, Q

(* The block for a new entry is in no chain, empty, and the free list      *)
(* without it is a list still.                                             *)
LEMMA Taken ==
    ASSUME Sound, NEW b \in Block, TakeBlock(b)
    PROVE  /\ \E f \in Seq(Block) :
                /\ IsInjective(f)
                /\ IsList(next, free_block_head', NoBlock, f)
                /\ b \notin ToSet(f)
                /\ ToSet(f) = ToSet(Lists[MaxSize]) \ {b}
                /\ ToSet(f) \cup {b} = ToSet(Lists[MaxSize]) \cup (length .. length' - 1)
           /\ \A s \in Size : b \notin ToSet(Lists[s])
           /\ length' \in 0 .. MaxBlocks /\ length' >= length
           /\ free_block_head' \in BlockOrNone
           /\ table[b] = <<>>
<1> DEFINE F == Lists[MaxSize]
<1>1. /\ F \in Seq(Block)
      /\ IsList(next, free_block_head, NoBlock, F)
      /\ IsInjective(F)
      /\ ToSet(F) \subseteq 0 .. length - 1
      /\ \A s \in Size : ToSet(F) \cap ToSet(Lists[s]) = {}
  BY ListIs, Names DEF Sound
<1>2. /\ length \in 0 .. MaxBlocks /\ length \in Int /\ MaxBlocks \in Nat
      /\ next \in [Block -> BlockOrNone]
      /\ free_block_head \in BlockOrNone
      /\ NoBlock \notin Block
  BY MapAssumption DEF Sound, TypeOK, Block, NoBlock
<1>3. CASE free_block_head # NoBlock
  <2>1. b = free_block_head /\ free_block_head' = next[b] /\ length' = length
    BY <1>3 DEF TakeBlock
  <2>2. F # <<>> /\ b = F[1]
    BY <1>1, <1>3, <2>1 DEF IsList
  <2>3. /\ Tail(F) \in Seq(Block) /\ b \in ToSet(F)
        /\ ToSet(Tail(F)) = ToSet(F) \ {b}
        /\ IsInjective(Tail(F))
    BY <1>1, <2>2, ToSetTail
  <2>4. IsList(next, free_block_head', NoBlock, Tail(F))
    BY <1>1, <2>1, <2>2, ListPop
  <2>5. length .. length' - 1 = {}
    BY <1>2, <2>1
  <2>6. table[b] = <<>>
    BY <2>3, Names DEF Sound, EmptyIffFree
  <2>7. \A s \in Size : b \notin ToSet(Lists[s])
    BY <1>1, <2>3
  <2>8. ToSet(Tail(F)) \cup {b} = ToSet(F) \cup (length .. length' - 1)
    BY <2>3, <2>5
  <2>9. b \notin ToSet(Tail(F))
    BY <2>3
  <2>10. next[b] \in BlockOrNone /\ length' >= length /\ length' \in 0 .. MaxBlocks
    BY <1>2, <2>1
  <2> HIDE DEF F
  <2> QED
    BY <2>1, <2>3, <2>4, <2>6, <2>7, <2>8, <2>9, <2>10 DEF F
<1>4. CASE free_block_head = NoBlock
  <2>1. b = length /\ length' = length + 1 /\ free_block_head' = free_block_head
    BY <1>4 DEF TakeBlock
  <2>2. F = <<>>
    <3>1. F # <<>> => 1 \in 1 .. Len(F) /\ F[1] \in Block
      BY <1>1
    <3> QED
      BY <1>1, <1>2, <1>4, <3>1 DEF IsList
  <2>3. ToSet(F) = {}
    BY <1>1, <2>2, ToSetIs
  <2>4. length .. length' - 1 = {b}
    BY <1>2, <2>1
  <2>5. table[b] = <<>>
    BY <1>2, <2>1 DEF Sound, NothingBehind
  <2>6. \A s \in Size : b \notin ToSet(Lists[s])
    <3>1. \A s \in Size : ToSet(Lists[s]) \subseteq 0 .. length - 1
      BY ListIs, Names DEF Sound
    <3> QED
      BY <1>2, <2>1, <3>1
  <2>7. length' \in 0 .. MaxBlocks /\ length' >= length
    BY <1>2, <2>1 DEF Block
  <2> HIDE DEF F
  <2> QED
    BY <1>1, <1>2, <2>1, <2>3, <2>4, <2>5, <2>6, <2>7 DEF F
<1> QED
  BY <1>3, <1>4

-----------------------------------------------------------------------------
(* hash_table_insert.                                                      *)

(* What the entries of one block make of the type invariant.               *)
LEMMA AddsType ==
    ASSUME TypeOK, NEW x \in Block, NEW addr \in Addr, Len(table[x]) < HASH_MAP_BLOCK_SIZE,
           table' = [table EXCEPT ![x] = Append(@, addr)]
    PROVE  /\ table' \in [Block -> Seq(Addr)]
           /\ \A b \in Block : Len(table'[b]) <= HASH_MAP_BLOCK_SIZE
<1>1. /\ table \in [Block -> Seq(Addr)]
      /\ \A b \in Block : Len(table[b]) <= HASH_MAP_BLOCK_SIZE
      /\ HASH_MAP_BLOCK_SIZE \in Nat
  BY MapAssumption DEF TypeOK
<1>2. /\ table[x] \in Seq(Addr)
      /\ Append(table[x], addr) \in Seq(Addr)
      /\ Len(Append(table[x], addr)) = Len(table[x]) + 1
      /\ Len(table[x]) \in Nat
  BY <1>1
<1>3. \A b \in Block : table'[b] = IF b = x THEN Append(table[x], addr) ELSE table[b]
  BY <1>1
<1>4. table' = [b \in Block |-> table'[b]]
  BY <1>1
<1>5. \A b \in Block : table'[b] \in Seq(Addr) /\ Len(table'[b]) <= HASH_MAP_BLOCK_SIZE
  BY <1>1, <1>2, <1>3
<1> QED
  BY <1>4, <1>5

LEMMA FirstAdds ==
    ASSUME Sound, NEW size \in Size, NEW addr \in Addr, InsertFirst(size, addr), ret' = ret
    PROVE  TypeOK' /\ Linked' /\ BlocksOwnedOnce' /\ \E x \in Block : Adds(size, addr, x)
<1>1. PICK b \in Block :
        /\ TakeBlock(b)
        /\ directory' = [directory EXCEPT ![DirPage(size)][DirSlot(size)] = b]
        /\ next' = [next EXCEPT ![b] = NoBlock]
        /\ table' = [table EXCEPT ![b] = <<addr>>]
  BY DEF InsertFirst
<1>2. TypeOK /\ Linked /\ BlocksOwnedOnce
  BY DEF Sound
<1>3. /\ next \in [Block -> BlockOrNone] /\ table \in [Block -> Seq(Addr)]
      /\ length \in Nat /\ HASH_MAP_BLOCK_SIZE \in Nat \ {0}
      /\ ret \in Addr \cup {None}
      /\ NoBlock \notin Block /\ Block \subseteq BlockOrNone /\ NoBlock \in BlockOrNone
  BY <1>2, MapAssumption DEF TypeOK, Block, BlockOrNone, NoBlock
<1>4. PICK f \in Seq(Block) :
           /\ IsInjective(f)
           /\ IsList(next, free_block_head', NoBlock, f)
           /\ b \notin ToSet(f)
           /\ ToSet(f) = ToSet(Lists[MaxSize]) \ {b}
           /\ ToSet(f) \cup {b} = ToSet(Lists[MaxSize]) \cup (length .. length' - 1)
  BY <1>1, Taken
<1>5. /\ \A s \in Size : b \notin ToSet(Lists[s])
      /\ length' \in 0 .. MaxBlocks /\ length' >= length
      /\ free_block_head' \in BlockOrNone
      /\ table[b] = <<>>
  BY <1>1, Taken
<1>6. next' \in [Block -> BlockOrNone] /\ DOMAIN next' = DOMAIN next /\ DOMAIN next = Block
  BY <1>1, <1>3
<1>7. IsList(next', free_block_head', NoBlock, f)
  <2>1. \A k \in 1 .. Len(f) : f[k] \in ToSet(f) /\ f[k] \in Block
    BY <1>4, ToSetIs
  <2>2. \A k \in 1 .. Len(f) : next'[f[k]] = next[f[k]]
    BY <1>1, <1>3, <1>4, <2>1
  <2> QED
    BY <1>4, <1>6, <2>2, ListStays
<1>8. /\ First(size)' = b
      /\ \A s \in Size \ {size} : First(s)' = First(s)
      /\ directory' \in [0 .. NDir - 1 -> [0 .. HASH_MAP_DIR_BLOCK_SIZE - 1 -> BlockOrNone]]
  BY <1>1, <1>2, <1>3, NewFirst
<1>9. /\ IsList(next', First(size)', NoBlock, <<b>>)
      /\ IsInjective(<<b>>)
      /\ ToSet(<<b>>) = {b}
  <2>1. /\ <<b>> \in Seq(Block) /\ Len(<<b>>) = 1 /\ <<b>>[1] = b /\ <<b>> # <<>>
        /\ next'[b] = NoBlock
    BY <1>1, <1>3
  <2>2. IsList(next', b, NoBlock, <<b>>)
    BY <1>6, <2>1 DEF IsList
  <2>3. ToSet(<<b>>) = {b} /\ IsInjective(<<b>>)
    BY ToSetOne
  <2> QED
    BY <1>8, <2>2, <2>3
<1>10. ToSet(Lists[size]) = {}
  <2>1. /\ Lists[size] \in Seq(Block)
        /\ IsList(next, First(size), NoBlock, Lists[size])
    BY <1>2, ListIs, Names
  <2>2. Lists[size] = <<>>
    <3>1. Lists[size] # <<>> => 1 \in 1 .. Len(Lists[size]) /\ Lists[size][1] \in Block
      BY <2>1
    <3> QED
      BY <1>3, <2>1, <3>1 DEF IsList, InsertFirst
  <2> QED
    BY <2>1, <2>2, ToSetIs
<1>11. /\ Lists' = [Lists EXCEPT ![MaxSize] = f, ![size] = <<b>>]
       /\ Linked'
       /\ BlocksOwnedOnce'
  <2>1. length' \in Nat
    BY <1>5, MapAssumption
  <2>2. ToSet(f) \cup ToSet(<<b>>)
          = ToSet(Lists[MaxSize]) \cup ToSet(Lists[size]) \cup (length .. length' - 1)
    BY <1>4, <1>9, <1>10
  <2>3. \A s \in Size : \A e \in ToSet(Lists[s]) : next'[e] = next[e]
    <3>1. \A s \in Size : ToSet(Lists[s]) \subseteq Block
      BY <1>2, ListIs, Names
    <3> QED
      BY <1>1, <1>3, <1>5, <3>1
  <2> QED
    BY <1>2, <1>4, <1>5, <1>6, <1>7, <1>8, <1>9, <2>1, <2>2, <2>3, Rebuilt
<1>12. Adds(size, addr, b)
  <2>1. /\ Lists'[size] = <<b>> /\ Lists'[MaxSize] = f
        /\ \A s \in Size \ {size} : Lists'[s] = Lists[s]
    <3>1. DOMAIN Lists = ListName
      BY DEF Lists
    <3> QED
      BY <1>11, <3>1, Names
  <2>2. Append(table[b], addr) = <<addr>> /\ Len(table[b]) = 0
    BY <1>5
  <2>3. table' = [table EXCEPT ![b] = Append(@, addr)]
    BY <1>1, <2>2
  <2>4. /\ ToSet(Lists'[size]) = ToSet(Lists[size]) \cup {b}
        /\ ToSet(Lists'[MaxSize]) = ToSet(Lists[MaxSize]) \ {b}
        /\ \A s \in Size \ {size} : ToSet(Lists'[s]) = ToSet(Lists[s])
    BY <1>4, <1>9, <1>10, <2>1, Zenon
  <2>5. Len(table[b]) < HASH_MAP_BLOCK_SIZE
    BY <1>3, <2>2
  <2> QED
    BY <2>3, <2>4, <2>5 DEF Adds
<1>13. TypeOK'
  <2>1. /\ table' \in [Block -> Seq(Addr)]
        /\ \A e \in Block : Len(table'[e]) <= HASH_MAP_BLOCK_SIZE
    BY <1>2, <1>12, AddsType DEF Adds
  <2> QED
    BY <1>3, <1>5, <1>6, <1>8, <2>1 DEF TypeOK
<1> QED
  BY <1>11, <1>12, <1>13

LEMMA BehindAdds ==
    ASSUME Sound, NEW size \in Size, NEW addr \in Addr, InsertBehind(size, addr), ret' = ret
    PROVE  TypeOK' /\ Linked' /\ BlocksOwnedOnce' /\ \E x \in Block : Adds(size, addr, x)
<1> DEFINE c == Lists[size]
           z == c[Len(c)]
<1>1. PICK b \in Block :
        /\ TakeBlock(b)
        /\ next' = [next EXCEPT ![z] = b, ![b] = NoBlock]
        /\ table' = [table EXCEPT ![b] = <<addr>>]
  BY Names DEF InsertBehind
<1>2. TypeOK /\ Linked /\ BlocksOwnedOnce /\ directory' = directory /\ c # <<>>
  BY Names DEF Sound, InsertBehind
<1>3. /\ next \in [Block -> BlockOrNone] /\ table \in [Block -> Seq(Addr)]
      /\ length \in Nat /\ HASH_MAP_BLOCK_SIZE \in Nat \ {0}
      /\ ret \in Addr \cup {None}
      /\ directory \in [0 .. NDir - 1 -> [0 .. HASH_MAP_DIR_BLOCK_SIZE - 1 -> BlockOrNone]]
      /\ NoBlock \notin Block /\ Block \subseteq BlockOrNone /\ NoBlock \in BlockOrNone
  BY <1>2, MapAssumption DEF TypeOK, Block, BlockOrNone, NoBlock
<1>4. PICK f \in Seq(Block) :
           /\ IsInjective(f)
           /\ IsList(next, free_block_head', NoBlock, f)
           /\ b \notin ToSet(f)
           /\ ToSet(f) = ToSet(Lists[MaxSize]) \ {b}
           /\ ToSet(f) \cup {b} = ToSet(Lists[MaxSize]) \cup (length .. length' - 1)
  BY <1>1, Taken
<1>5. /\ \A s \in Size : b \notin ToSet(Lists[s])
      /\ length' \in 0 .. MaxBlocks /\ length' >= length
      /\ free_block_head' \in BlockOrNone
      /\ table[b] = <<>>
  BY <1>1, Taken
<1>6. /\ c \in Seq(Block) /\ IsList(next, First(size), NoBlock, c) /\ IsInjective(c)
      /\ ToSet(c) \cap ToSet(Lists[MaxSize]) = {}
      /\ \A s \in Size \ {size} : ToSet(c) \cap ToSet(Lists[s]) = {}
  BY <1>2, ListIs, Names
<1>7. /\ Len(c) \in 1 .. Len(c) /\ z \in ToSet(c) /\ z \in Block /\ z # b /\ b \notin ToSet(c)
      /\ \A k \in 1 .. Len(c) : c[k] \in ToSet(c) /\ c[k] \in Block
  <2>1. Len(c) \in Nat /\ Len(c) # 0
    BY <1>2, <1>6
  <2>2. Len(c) \in 1 .. Len(c)
    BY <2>1
  <2>3. \A k \in 1 .. Len(c) : c[k] \in ToSet(c) /\ c[k] \in Block
    BY <1>6, ToSetIs
  <2> HIDE DEF c
  <2> QED
    BY <1>5, <2>2, <2>3 DEF c
<1> HIDE DEF c, z
<1>8. /\ next' \in [Block -> BlockOrNone] /\ DOMAIN next' = DOMAIN next /\ DOMAIN next = Block
      /\ next'[z] = b /\ next'[b] = NoBlock
      /\ \A e \in Block \ {z, b} : next'[e] = next[e]
  BY <1>1, <1>3, <1>7
<1>9. IsList(next', free_block_head', NoBlock, f)
  <2>1. \A k \in 1 .. Len(f) : f[k] \in ToSet(f) /\ f[k] \in Block
    BY <1>4, ToSetIs
  <2>2. z \notin ToSet(f)
    BY <1>4, <1>6, <1>7
  <2>3. \A k \in 1 .. Len(f) : next'[f[k]] = next[f[k]]
    BY <1>4, <1>8, <2>1, <2>2
  <2> QED
    BY <1>4, <1>8, <2>3, ListStays
<1>10. \A s \in Size : First(s)' = First(s)
  BY <1>2 DEF First
<1>11. /\ Append(c, b) \in Seq(Block)
       /\ ToSet(Append(c, b)) = ToSet(c) \cup {b}
       /\ IsInjective(Append(c, b))
  BY <1>6, <1>7, ToSetAppend
<1>12. IsList(next', First(size)', NoBlock, Append(c, b))
  <2>1. \A k \in 1 .. Len(c) - 1 : c[k] # z
    <3>1. \A k \in 1 .. Len(c) - 1 : k \in DOMAIN c /\ k # Len(c) /\ Len(c) \in DOMAIN c
      BY <1>6, <1>7
    <3> QED
      BY <1>6, <3>1 DEF IsInjective, z
  <2>2. \A k \in 1 .. Len(c) - 1 : next'[c[k]] = next[c[k]]
    <3>1. \A k \in 1 .. Len(c) - 1 : k \in 1 .. Len(c)
      BY <1>6
    <3> QED
      BY <1>7, <1>8, <2>1, <3>1
  <2>3. next'[c[Len(c)]] = b
    BY <1>8 DEF z
  <2>4. IsList(next', First(size), NoBlock, Append(c, b))
    BY <1>2, <1>6, <1>8, <2>2, <2>3, ListAppend
  <2> QED
    BY <1>10, <2>4
<1>13. /\ Lists' = [Lists EXCEPT ![MaxSize] = f, ![size] = Append(c, b)]
       /\ Linked'
       /\ BlocksOwnedOnce'
  <2>1. length' \in Nat
    BY <1>5, MapAssumption
  <2>2. ToSet(f) \cup ToSet(Append(c, b))
          = ToSet(Lists[MaxSize]) \cup ToSet(Lists[size]) \cup (length .. length' - 1)
    BY <1>4, <1>11 DEF c
  <2>3. ToSet(f) \cap ToSet(Append(c, b)) = {}
    BY <1>4, <1>6, <1>11
  <2>4. \A s \in Size \ {size} : \A e \in ToSet(Lists[s]) : next'[e] = next[e]
    <3>1. \A s \in Size : ToSet(Lists[s]) \subseteq Block
      BY <1>2, ListIs, Names
    <3> QED
      BY <1>5, <1>6, <1>7, <1>8, <3>1
  <2>5. \A s \in Size \ {size} :
          /\ First(s)' = First(s)
          /\ \A e \in ToSet(Lists[s]) : next'[e] = next[e]
    BY <1>10, <2>4
  <2>6. /\ TypeOK /\ Linked /\ BlocksOwnedOnce
        /\ next' \in [Block -> BlockOrNone] /\ length' >= length
        /\ IsList(next', free_block_head', NoBlock, f) /\ IsInjective(f)
        /\ IsList(next', First(size)', NoBlock, Append(c, b)) /\ IsInjective(Append(c, b))
    BY <1>2, <1>4, <1>5, <1>8, <1>9, <1>11, <1>12
  <2> QED
    BY <2>1, <2>2, <2>3, <2>5, <2>6, Rebuilt
<1>14. Adds(size, addr, b)
  <2>1. /\ Lists'[size] = Append(c, b) /\ Lists'[MaxSize] = f
        /\ \A s \in Size \ {size} : Lists'[s] = Lists[s]
    <3>1. DOMAIN Lists = ListName
      BY DEF Lists
    <3> QED
      BY <1>13, <3>1, Names
  <2>2. Append(table[b], addr) = <<addr>> /\ Len(table[b]) = 0
    BY <1>5
  <2>3. table' = [table EXCEPT ![b] = Append(@, addr)]
    BY <1>1, <2>2
  <2>4. /\ ToSet(Lists'[size]) = ToSet(Lists[size]) \cup {b}
        /\ ToSet(Lists'[MaxSize]) = ToSet(Lists[MaxSize]) \ {b}
        /\ \A s \in Size \ {size} : ToSet(Lists'[s]) = ToSet(Lists[s])
    BY <1>4, <1>11, <2>1, Zenon DEF c
  <2>5. Len(table[b]) < HASH_MAP_BLOCK_SIZE
    BY <1>3, <2>2
  <2> QED
    BY <2>3, <2>4, <2>5 DEF Adds
<1>15. TypeOK'
  <2>1. /\ table' \in [Block -> Seq(Addr)]
        /\ \A e \in Block : Len(table'[e]) <= HASH_MAP_BLOCK_SIZE
    BY <1>2, <1>14, AddsType DEF Adds
  <2> QED
    BY <1>2, <1>3, <1>5, <1>8, <2>1 DEF TypeOK
<1> QED
  BY <1>13, <1>14, <1>15

(* Where the lists are not touched they are the same.                      *)
LEMMA SameLists ==
    ASSUME UNCHANGED <<free_block_head, directory, next, length>>
    PROVE  Lists' = Lists /\ (Linked => Linked') /\ (BlocksOwnedOnce => BlocksOwnedOnce')
<1>1. \A l \in ListName : HeadOf(l)' = HeadOf(l)
  BY DEF HeadOf, First
<1>2. Lists' = Lists
  BY <1>1 DEF Lists, List
<1> QED
  BY <1>1, <1>2 DEF Linked, BlocksOwnedOnce

LEMMA RoomAdds ==
    ASSUME Sound, NEW size \in Size, NEW addr \in Addr, InsertInRoom(size, addr), ret' = ret
    PROVE  TypeOK' /\ Linked' /\ BlocksOwnedOnce' /\ \E x \in Block : Adds(size, addr, x)
<1> DEFINE c == Lists[size]
<1>1. PICK k \in DOMAIN c : ~IsFull(c[k]) /\ table' = [table EXCEPT ![c[k]] = Append(@, addr)]
  BY Names DEF InsertInRoom
<1>2. /\ TypeOK /\ Linked /\ BlocksOwnedOnce
      /\ UNCHANGED <<free_block_head, directory, next, length>>
  BY DEF Sound, InsertInRoom
<1>3. /\ c \in Seq(Block) /\ c[k] \in ToSet(c) /\ c[k] \in Block
      /\ ToSet(c) \cap ToSet(Lists[MaxSize]) = {}
  <2>1. c \in Seq(Block) /\ ToSet(c) \cap ToSet(Lists[MaxSize]) = {}
    BY <1>2, ListIs, Names
  <2> QED
    BY <2>1, ToSetIs
<1>4. Len(table[c[k]]) < HASH_MAP_BLOCK_SIZE
  <2>1. Len(table[c[k]]) <= HASH_MAP_BLOCK_SIZE /\ Len(table[c[k]]) \in Nat
    BY <1>2, <1>3 DEF TypeOK
  <2> QED
    BY <1>1, <2>1, MapAssumption DEF IsFull
<1>5. Lists' = Lists /\ Linked' /\ BlocksOwnedOnce'
  BY <1>2, SameLists
<1>6. Adds(size, addr, c[k])
  <2>1. /\ ToSet(Lists[size]) = ToSet(Lists[size]) \cup {c[k]}
        /\ ToSet(Lists[MaxSize]) = ToSet(Lists[MaxSize]) \ {c[k]}
    BY <1>3
  <2> QED
    BY <1>1, <1>3, <1>4, <1>5, <2>1 DEF Adds
<1>7. TypeOK'
  <2>1. /\ table' \in [Block -> Seq(Addr)]
        /\ \A b \in Block : Len(table'[b]) <= HASH_MAP_BLOCK_SIZE
    BY <1>1, <1>2, <1>3, <1>4, AddsType
  <2> QED
    BY <1>2, <2>1 DEF TypeOK
<1> QED
  BY <1>3, <1>5, <1>6, <1>7

-----------------------------------------------------------------------------
(* hash_table_pop and hash_table_pop_lower_bound.                          *)

LEMMA LosesType ==
    ASSUME TypeOK, NEW x \in Block, NEW i \in DOMAIN table[x],
           table' = [table EXCEPT ![x] = RemoveAt(@, i)]
    PROVE  /\ table' \in [Block -> Seq(Addr)]
           /\ \A b \in Block : Len(table'[b]) <= HASH_MAP_BLOCK_SIZE
<1>1. /\ table \in [Block -> Seq(Addr)]
      /\ \A b \in Block : Len(table[b]) <= HASH_MAP_BLOCK_SIZE
      /\ HASH_MAP_BLOCK_SIZE \in Nat
  BY MapAssumption DEF TypeOK
<1>2. table[x] \in Seq(Addr) /\ i \in 1 .. Len(table[x]) /\ Len(table[x]) \in Nat
  BY <1>1
<1>3. /\ RemoveAt(table[x], i) \in Seq(Addr)
      /\ Len(RemoveAt(table[x], i)) = Len(table[x]) - 1
  BY <1>2, RemoveAtIs
<1>4. \A b \in Block : table'[b] = IF b = x THEN RemoveAt(table[x], i) ELSE table[b]
  BY <1>1
<1>5. table' = [b \in Block |-> table'[b]]
  BY <1>1
<1>6. Len(RemoveAt(table[x], i)) <= HASH_MAP_BLOCK_SIZE
  BY <1>1, <1>2, <1>3
<1>7. \A b \in Block : table'[b] \in Seq(Addr) /\ Len(table'[b]) <= HASH_MAP_BLOCK_SIZE
  BY <1>1, <1>3, <1>4, <1>6
<1> QED
  BY <1>5, <1>7

(* An emptied block goes from its chain to the front of the free list.     *)
LEMMA Unlinked ==
    ASSUME Sound, NEW size \in Size, NEW k \in DOMAIN Lists[size],
           Unlink(size, Lists[size], k), length' = length
    PROVE  /\ Lists' = [Lists EXCEPT ![MaxSize] = <<Lists[size][k]>> \o Lists[MaxSize],
                                    ![size] = RemoveAt(Lists[size], k)]
           /\ ToSet(Lists'[size]) = ToSet(Lists[size]) \ {Lists[size][k]}
           /\ ToSet(Lists'[MaxSize]) = ToSet(Lists[MaxSize]) \cup {Lists[size][k]}
           /\ Linked' /\ BlocksOwnedOnce'
           /\ next' \in [Block -> BlockOrNone] /\ free_block_head' \in BlockOrNone
           /\ directory' \in [0 .. NDir - 1 -> [0 .. HASH_MAP_DIR_BLOCK_SIZE - 1 -> BlockOrNone]]
<1> DEFINE c == Lists[size]
           F == Lists[MaxSize]
           x == c[k]
           f == <<x>> \o F
           d == RemoveAt(c, k)
<1>1. /\ TypeOK /\ Linked /\ BlocksOwnedOnce
      /\ free_block_head' = x
      /\ k = 1 => /\ directory' = [directory EXCEPT ![DirPage(size)][DirSlot(size)] = next[x]]
                  /\ next' = [next EXCEPT ![x] = free_block_head]
      /\ k # 1 => /\ directory' = directory
                  /\ next' = [next EXCEPT ![c[k - 1]] = next[x], ![x] = free_block_head]
  BY DEF Sound, Unlink
<1>2. /\ next \in [Block -> BlockOrNone] /\ free_block_head \in BlockOrNone
      /\ directory \in [0 .. NDir - 1 -> [0 .. HASH_MAP_DIR_BLOCK_SIZE - 1 -> BlockOrNone]]
      /\ length \in Nat /\ Block \subseteq BlockOrNone
  BY <1>1, MapAssumption DEF TypeOK, BlockOrNone
<1>3. /\ c \in Seq(Block) /\ IsList(next, First(size), NoBlock, c) /\ IsInjective(c)
      /\ F \in Seq(Block) /\ IsList(next, free_block_head, NoBlock, F) /\ IsInjective(F)
      /\ ToSet(c) \cap ToSet(F) = {}
      /\ \A s \in Size \ {size} : ToSet(c) \cap ToSet(Lists[s]) = {}
  BY <1>1, ListIs, Names
<1>4. /\ \A i \in 1 .. Len(c) : c[i] \in ToSet(c) /\ c[i] \in Block /\ c[i] \notin ToSet(F)
      /\ \A i \in 1 .. Len(F) : F[i] \in ToSet(F) /\ F[i] \in Block
      /\ k \in 1 .. Len(c) /\ Len(c) \in Nat /\ DOMAIN c = 1 .. Len(c)
      /\ \A i, j \in 1 .. Len(c) : c[i] = c[j] => i = j
  <2>1. /\ \A i \in 1 .. Len(c) : c[i] \in ToSet(c) /\ c[i] \in Block
        /\ \A i \in 1 .. Len(F) : F[i] \in ToSet(F) /\ F[i] \in Block
    BY <1>3, ToSetIs
  <2>2. k \in 1 .. Len(c) /\ Len(c) \in Nat /\ DOMAIN c = 1 .. Len(c)
    BY <1>3
  <2> HIDE DEF c, F
  <2> QED
    BY <1>3, <2>1, <2>2 DEF IsInjective
<1> HIDE DEF c, F
<1>5. /\ f \in Seq(Block) /\ ToSet(f) = ToSet(F) \cup {x} /\ IsInjective(f)
      /\ d \in Seq(Block) /\ ToSet(d) = ToSet(c) \ {x} /\ IsInjective(d)
  BY <1>3, <1>4, ToSetPush, ToSetRemoveAt
<1>6. /\ next' \in [Block -> BlockOrNone] /\ DOMAIN next' = DOMAIN next /\ DOMAIN next = Block
      /\ next'[x] = free_block_head
      /\ k # 1 => c[k - 1] \in ToSet(c) /\ next'[c[k - 1]] = next[x]
      /\ \A e \in Block \ {x} : (k # 1 => e # c[k - 1]) => next'[e] = next[e]
  <2>1. CASE k = 1
    BY <1>1, <1>2, <1>4, <2>1
  <2>2. CASE k # 1
    <3>1. k - 1 \in 1 .. Len(c) /\ c[k - 1] # x /\ c[k - 1] \in Block
      BY <1>4, <2>2
    <3> HIDE DEF x
    <3> QED
      BY <1>1, <1>2, <1>4, <2>2, <3>1 DEF x
  <2> QED
    BY <2>1, <2>2
<1>7. /\ IsList(next', First(size)', NoBlock, d)
      /\ \A s \in Size \ {size} : First(s)' = First(s)
      /\ directory' \in [0 .. NDir - 1 -> [0 .. HASH_MAP_DIR_BLOCK_SIZE - 1 -> BlockOrNone]]
  <2>1. CASE k = 1
    <3>1. next[x] \in BlockOrNone
      BY <1>2, <1>4
    <3>2. /\ First(size)' = next[x]
          /\ \A s \in Size \ {size} : First(s)' = First(s)
          /\ directory' \in [0 .. NDir - 1 -> [0 .. HASH_MAP_DIR_BLOCK_SIZE - 1 -> BlockOrNone]]
      BY <1>1, <2>1, <3>1, NewFirst
    <3>3. c # <<>> /\ First(size) = x
      BY <1>3, <1>4, <2>1 DEF IsList
    <3>4. d = Tail(c)
      BY <1>3, <2>1, <3>3, TailIsRemoveAt
    <3>5. \A i \in 2 .. Len(c) : next'[c[i]] = next[c[i]]
      BY <1>4, <1>6, <2>1
    <3>6. IsList(next', next[First(size)], NoBlock, Tail(c))
      BY <1>3, <1>6, <3>3, <3>5, ListPop
    <3> QED
      BY <3>2, <3>3, <3>4, <3>6
  <2>2. CASE k # 1
    <3>1. \A s \in Size : First(s)' = First(s)
      BY <1>1, <2>2 DEF First
    <3>2. k \in 2 .. Len(c) /\ k - 1 \in 1 .. Len(c)
      BY <1>4, <2>2
    <3>3. \A i \in (1 .. Len(c)) \ {k - 1, k} : next'[c[i]] = next[c[i]]
      BY <1>4, <1>6, <3>2
    <3>4. IsList(next', First(size), NoBlock, d)
      BY <1>3, <1>6, <2>2, <3>2, <3>3, ListBypass
    <3> QED
      BY <1>1, <1>2, <2>2, <3>1, <3>4
  <2> QED
    BY <2>1, <2>2
<1>8. IsList(next', free_block_head', NoBlock, f)
  <2>1. \A i \in 1 .. Len(F) : next'[F[i]] = next[F[i]]
    BY <1>3, <1>4, <1>6
  <2> QED
    BY <1>1, <1>3, <1>4, <1>6, <2>1, ListPush
<1>9. /\ Lists' = [Lists EXCEPT ![MaxSize] = f, ![size] = d]
      /\ Linked'
      /\ BlocksOwnedOnce'
  <2>1. ToSet(f) \cup ToSet(d)
          = ToSet(Lists[MaxSize]) \cup ToSet(Lists[size]) \cup (length .. length' - 1)
    <3>1. length .. length' - 1 = {}
      BY <1>2
    <3> QED
      BY <1>4, <1>5, <3>1 DEF c, F
  <2>2. ToSet(f) \cap ToSet(d) = {}
    BY <1>3, <1>5
  <2>3. \A s \in Size \ {size} : \A e \in ToSet(Lists[s]) : next'[e] = next[e]
    <3>1. \A s \in Size : ToSet(Lists[s]) \subseteq Block
      BY <1>1, ListIs, Names
    <3> QED
      BY <1>3, <1>4, <1>6, <3>1
  <2>4. length' \in Nat /\ length' >= length
    BY <1>2
  <2> HIDE DEF f, d
  <2> QED
    BY <1>1, <1>5, <1>6, <1>7, <1>8, <2>1, <2>2, <2>3, <2>4, Rebuilt
<1>10. Lists'[size] = d /\ Lists'[MaxSize] = f
  <2>1. DOMAIN Lists = ListName
    BY DEF Lists
  <2> QED
    BY <1>9, <2>1, Names
<1>11. free_block_head' \in BlockOrNone
  BY <1>1, <1>2, <1>4
<1> QED
  BY <1>5, <1>6, <1>7, <1>9, <1>10, <1>11 DEF c, F

LEMMA OutLoses ==
    ASSUME Sound, NEW size \in Size, NEW k \in DOMAIN Lists[size],
           NEW i \in DOMAIN table[Lists[size][k]],
           TakeOut(size, Lists[size], k, i), ret' \in Addr \cup {None}
    PROVE  TypeOK' /\ Linked' /\ BlocksOwnedOnce' /\ Loses(size, Lists[size][k], i)
<1> DEFINE x == Lists[size][k]
<1>1. /\ TypeOK /\ Linked /\ BlocksOwnedOnce
      /\ table' = [table EXCEPT ![x] = RemoveAt(@, i)] /\ length' = length
      /\ IF Len(table[x]) = 1 THEN Unlink(size, Lists[size], k)
         ELSE UNCHANGED <<free_block_head, directory, next>>
  BY DEF Sound, TakeOut, BecomesEmpty
<1>2. x \in ToSet(Lists[size]) /\ x \in Block
  <2>1. Lists[size] \in Seq(Block)
    BY <1>1, ListIs, Names
  <2> QED
    BY <2>1, ToSetIs
<1>3. /\ table' \in [Block -> Seq(Addr)]
      /\ \A b \in Block : Len(table'[b]) <= HASH_MAP_BLOCK_SIZE
  BY <1>1, <1>2, LosesType
<1>4. CASE Len(table[x]) = 1
  <2>1. /\ Lists' = [Lists EXCEPT ![MaxSize] = <<x>> \o Lists[MaxSize],
                                ![size] = RemoveAt(Lists[size], k)]
        /\ ToSet(Lists'[size]) = ToSet(Lists[size]) \ {x}
        /\ ToSet(Lists'[MaxSize]) = ToSet(Lists[MaxSize]) \cup {x}
        /\ Linked' /\ BlocksOwnedOnce'
        /\ next' \in [Block -> BlockOrNone] /\ free_block_head' \in BlockOrNone
        /\ directory' \in [0 .. NDir - 1 -> [0 .. HASH_MAP_DIR_BLOCK_SIZE - 1 -> BlockOrNone]]
    BY <1>1, <1>4, Unlinked
  <2>2. \A s \in Size \ {size} : Lists'[s] = Lists[s]
    <3>1. DOMAIN Lists = ListName
      BY DEF Lists
    <3> QED
      BY <2>1, <3>1, Names
  <2>3. Loses(size, x, i)
    BY <1>1, <1>2, <1>4, <2>1, <2>2 DEF Loses
  <2>4. TypeOK'
    BY <1>1, <1>3, <2>1 DEF TypeOK
  <2> QED
    BY <2>1, <2>3, <2>4
<1>5. CASE Len(table[x]) # 1
  <2>1. Lists' = Lists /\ Linked' /\ BlocksOwnedOnce'
    BY <1>1, <1>5, SameLists
  <2>2. Loses(size, x, i)
    BY <1>1, <1>2, <1>5, <2>1 DEF Loses
  <2>3. TypeOK'
    BY <1>1, <1>3, <1>5 DEF TypeOK
  <2> QED
    BY <2>1, <2>2, <2>3
<1> QED
  BY <1>4, <1>5

-----------------------------------------------------------------------------
(* What is registered.                                                     *)

LEMMA RegisteredIs ==
    ASSUME NEW s \in Size, NEW a
    PROVE  /\ Registered(s, a) <=> \E b \in ToSet(Lists[s]) : a \in ToSet(table[b])
           /\ Registered(s, a)' <=> \E b \in ToSet(Lists'[s]) : a \in ToSet(table'[b])
<1>1. Lists[s] = Chain(s) /\ Lists'[s] = Chain(s)'
  BY Names DEF Lists, HeadOf, Chain
<1>2. Registered(s, a) <=> \E k \in DOMAIN Lists[s] : a \in ToSet(table[Lists[s][k]])
  BY <1>1 DEF Registered
<1>3. Registered(s, a)' <=> \E k \in DOMAIN Lists'[s] : a \in ToSet(table'[Lists'[s][k]])
  BY <1>1 DEF Registered
<1> QED
  BY <1>2, <1>3 DEF ToSet

LEMMA OnceIs ==
    ASSUME NEW t
    PROVE  (\A b, c \in Block : \A i \in DOMAIN t[b] : \A j \in DOMAIN t[c] :
              t[b][i] = t[c][j] => b = c /\ i = j)
           <=> /\ \A b \in Block : IsInjective(t[b])
               /\ \A b, c \in Block : b # c => ToSet(t[b]) \cap ToSet(t[c]) = {}
BY DEF IsInjective, ToSet

(* A block that holds something is in a chain.                             *)
LEMMA HeldIsRegistered ==
    ASSUME Sound, NEW b \in Block, NEW a \in ToSet(table[b])
    PROVE  \E s \in Size : b \in ToSet(Lists[s]) /\ Registered(s, a)
<1>1. table[b] # <<>>
  BY DEF ToSet
<1>2. b \in 0 .. length - 1
  BY <1>1, MapAssumption DEF Sound, NothingBehind, Block, TypeOK
<1>3. PICK l \in ListName : b \in ToSet(Lists[l])
  BY <1>2 DEF Sound, BlocksOwnedOnce
<1>4. l # MaxSize
  BY <1>1, <1>3, Names DEF Sound, EmptyIffFree
<1> QED
  BY <1>3, <1>4, Names, RegisteredIs

LEMMA AddsKeeps ==
    ASSUME IInv, TypeOK', Linked', BlocksOwnedOnce', length' >= length,
           NEW size \in Size, NEW addr \in Addr, NEW x \in Block, Adds(size, addr, x),
           \A s \in Size : ~Registered(s, addr)
    PROVE  /\ IInv'
           /\ \A s \in Size, a \in Addr :
                Registered(s, a)' <=> Registered(s, a) \/ (s = size /\ a = addr)
<1>1. /\ Sound /\ RegisteredOnce
      /\ table \in [Block -> Seq(Addr)]
      /\ \A b \in Block : table'[b] = IF b = x THEN Append(table[x], addr) ELSE table[b]
  BY DEF IInv, Sound, TypeOK, Adds
<1>2. \A b \in Block : addr \notin ToSet(table[b])
  BY <1>1, HeldIsRegistered
<1>3. /\ \A b \in Block : IsInjective(table[b])
      /\ \A b, c \in Block : b # c => ToSet(table[b]) \cap ToSet(table[c]) = {}
  BY <1>1, OnceIs DEF RegisteredOnce
<1>4. ToSet(table'[x]) = ToSet(table[x]) \cup {addr} /\ IsInjective(table'[x]) /\ table'[x] # <<>>
  <2> DEFINE e == table[x]
  <2>1. e \in Seq(Addr) /\ addr \notin ToSet(e) /\ IsInjective(e) /\ table'[x] = Append(e, addr)
    BY <1>1, <1>2, <1>3
  <2> HIDE DEF e
  <2>2. ToSet(Append(e, addr)) = ToSet(e) \cup {addr} /\ IsInjective(Append(e, addr))
    BY <2>1, ToSetAppend
  <2>3. Append(e, addr) # <<>>
    BY <2>1
  <2> QED
    BY <2>1, <2>2, <2>3 DEF e
<1>5. RegisteredOnce'
  <2>1. \A b \in Block : IsInjective(table'[b])
    BY <1>1, <1>3, <1>4
  <2>2. \A b \in Block : b # x => table'[b] = table[b]
    BY <1>1
  <2>3. \A b, c \in Block : b # c => ToSet(table'[b]) \cap ToSet(table'[c]) = {}
    BY <1>2, <1>3, <1>4, <2>2
  <2> QED
    BY <2>1, <2>3, OnceIs DEF RegisteredOnce
<1>6. /\ x \in ToSet(Lists'[size])
      /\ \A s \in Size : ToSet(Lists[s]) \subseteq ToSet(Lists'[s])
      /\ \A s \in Size : \A b \in ToSet(Lists'[s]) :
           b \in Block /\ (b \in ToSet(Lists[s]) \/ (s = size /\ b = x))
      /\ \A s \in Size : x \in ToSet(Lists'[s]) => s = size
      /\ \A b \in ToSet(Lists'[MaxSize]) : b \in Block /\ b # x /\ b \in ToSet(Lists[MaxSize])
  <2>1. \A l \in ListName : ToSet(Lists[l]) \subseteq Block
    BY <1>1, ListIs DEF Sound
  <2>2. \A s, t \in Size : s # t => ToSet(Lists'[s]) \cap ToSet(Lists'[t]) = {}
    BY Names DEF BlocksOwnedOnce
  <2>3. /\ ToSet(Lists'[size]) = ToSet(Lists[size]) \cup {x}
        /\ ToSet(Lists'[MaxSize]) = ToSet(Lists[MaxSize]) \ {x}
        /\ \A s \in Size \ {size} : ToSet(Lists'[s]) = ToSet(Lists[s])
    BY DEF Adds
  <2> QED
    BY <2>1, <2>2, <2>3, Names
<1>7. EmptyIffFree'
  <2>1. /\ \A s \in Size : Chain(s)' = Lists'[s] /\ Chain(s) = Lists[s]
        /\ List(free_block_head)' = Lists'[MaxSize] /\ List(free_block_head) = Lists[MaxSize]
    BY Names DEF Lists, HeadOf, Chain
  <2>2. ASSUME NEW s \in Size, NEW b \in ToSet(Lists'[s]) PROVE table'[b] # <<>>
    BY <1>1, <1>4, <1>6, <2>1 DEF Sound, EmptyIffFree
  <2>3. ASSUME NEW b \in ToSet(Lists'[MaxSize]) PROVE table'[b] = <<>>
    BY <1>1, <1>6, <2>1 DEF Sound, EmptyIffFree
  <2> QED
    BY <2>1, <2>2, <2>3 DEF EmptyIffFree
<1>8. NothingBehind'
  <2>1. ToSet(Lists'[size]) \subseteq 0 .. length' - 1
    BY Names DEF BlocksOwnedOnce
  <2>2. x \in 0 .. length' - 1
    BY <1>6, <2>1
  <2>3. length \in Int /\ length' \in Int /\ length' >= length
    BY MapAssumption DEF IInv, TypeOK
  <2>4. ASSUME NEW b \in Block, b >= length' PROVE table'[b] = <<>>
    <3>1. b # x /\ b >= length
      <4>1. b \in Int
        BY DEF Block
      <4>2. b # x
        <5> DEFINE n == length'
        <5>1. x \in 0 .. n - 1 /\ n \in Int /\ b >= n
          BY <2>2, <2>3, <2>4
        <5> HIDE DEF n
        <5> QED
          BY <5>1, <4>1
      <4>3. b >= length
        BY <2>3, <2>4, <4>1
      <4> QED
        BY <4>2, <4>3
    <3> QED
      BY <1>1, <3>1 DEF Sound, NothingBehind
  <2> QED
    BY <2>4 DEF NothingBehind
<1>9. ASSUME NEW s \in Size, NEW a \in Addr
      PROVE  Registered(s, a)' <=> Registered(s, a) \/ (s = size /\ a = addr)
  <2>1. ASSUME NEW b \in ToSet(Lists'[s]), a \in ToSet(table'[b])
        PROVE  (b \in ToSet(Lists[s]) /\ a \in ToSet(table[b])) \/ (s = size /\ a = addr)
    <3>1. CASE b = x
      <4>1. s = size /\ (a = addr \/ a \in ToSet(table[x]))
        BY <1>4, <1>6, <2>1, <3>1
      <4>2. CASE a \in ToSet(table[x])
        <5>1. PICK t \in Size : x \in ToSet(Lists[t])
          BY <1>1, <4>2, HeldIsRegistered
        <5>2. t = size
          BY <1>6, <5>1
        <5> QED
          BY <3>1, <4>1, <4>2, <5>1, <5>2
      <4> QED
        BY <4>1, <4>2
    <3>2. CASE b # x
      BY <1>1, <1>6, <2>1, <3>2
    <3> QED
      BY <3>1, <3>2
  <2>2. ASSUME NEW b \in ToSet(Lists[s]), a \in ToSet(table[b])
        PROVE  b \in ToSet(Lists'[s]) /\ a \in ToSet(table'[b])
    BY <1>1, <1>4, <1>6, <2>2
  <2> QED
    BY <1>4, <1>6, <2>1, <2>2, RegisteredIs
<1> QED
  BY <1>1, <1>5, <1>7, <1>8, <1>9 DEF IInv

LEMMA LosesKeeps ==
    ASSUME IInv, TypeOK', Linked', BlocksOwnedOnce', length' = length,
           NEW size \in Size, NEW x \in Block, NEW i \in DOMAIN table[x], Loses(size, x, i)
    PROVE  /\ IInv'
           /\ Registered(size, table[x][i]) /\ table[x][i] \in Addr
           /\ \A s \in Size, a \in Addr :
                Registered(s, a)' <=> Registered(s, a) /\ a # table[x][i]
<1> DEFINE addr == table[x][i]
<1>1. /\ Sound /\ RegisteredOnce
      /\ table \in [Block -> Seq(Addr)]
      /\ \A b \in Block : table'[b] = IF b = x THEN RemoveAt(table[x], i) ELSE table[b]
      /\ x \in ToSet(Lists[size])
  BY DEF IInv, Sound, TypeOK, Loses
<1>2. addr \in ToSet(table[x]) /\ addr \in Addr /\ table[x] \in Seq(Addr)
  <2>1. table[x] \in Seq(Addr)
    BY <1>1
  <2> QED
    BY <2>1 DEF ToSet
<1>3. /\ \A b \in Block : IsInjective(table[b])
      /\ \A b, c \in Block : b # c => ToSet(table[b]) \cap ToSet(table[c]) = {}
  BY <1>1, OnceIs DEF RegisteredOnce
<1>4. /\ ToSet(table'[x]) = ToSet(table[x]) \ {addr}
      /\ IsInjective(table'[x])
      /\ table'[x] = <<>> <=> Len(table[x]) = 1
      /\ Len(table[x]) = 1 => ToSet(table[x]) = {addr}
  <2>1. i \in 1 .. Len(table[x]) /\ Len(table[x]) \in Nat
    BY <1>2
  <2>2. /\ ToSet(table'[x]) = ToSet(table[x]) \ {addr} /\ IsInjective(table'[x])
        /\ table'[x] \in Seq(Addr) /\ Len(table'[x]) = Len(table[x]) - 1
    <3> DEFINE e == table[x]
    <3>1. e \in Seq(Addr) /\ i \in 1 .. Len(e) /\ IsInjective(e) /\ table'[x] = RemoveAt(e, i)
      BY <1>1, <1>2, <1>3, <2>1
    <3> HIDE DEF e
    <3>2. /\ RemoveAt(e, i) \in Seq(Addr)
          /\ ToSet(RemoveAt(e, i)) = ToSet(e) \ {e[i]}
          /\ IsInjective(RemoveAt(e, i))
          /\ Len(RemoveAt(e, i)) = Len(e) - 1
      BY <3>1, ToSetRemoveAt, RemoveAtIs
    <3> QED
      BY <3>1, <3>2 DEF e
  <2>3. table'[x] = <<>> <=> Len(table'[x]) = 0
    <3> DEFINE e == table'[x]
    <3>1. e \in Seq(Addr)
      BY <2>2
    <3> HIDE DEF e
    <3>2. e = <<>> <=> Len(e) = 0
      BY <3>1
    <3> QED
      BY <3>2 DEF e
  <2>4. Len(table[x]) = 1 => ToSet(table'[x]) = {}
    BY <2>1, <2>2, <2>3, ToSetIs
  <2> HIDE DEF addr
  <2> QED
    BY <1>2, <2>1, <2>2, <2>3, <2>4
<1> HIDE DEF addr
<1>5. RegisteredOnce'
  <2>1. \A b \in Block : IsInjective(table'[b])
    BY <1>1, <1>3, <1>4
  <2>2. \A b \in Block : b # x => table'[b] = table[b]
    BY <1>1
  <2>3. \A b, c \in Block : b # c => ToSet(table'[b]) \cap ToSet(table'[c]) = {}
    BY <1>3, <1>4, <2>2
  <2> QED
    BY <2>1, <2>3, OnceIs DEF RegisteredOnce
<1>6. /\ \A l \in ListName : ToSet(Lists[l]) \subseteq Block
      /\ \A s \in Size : x \in ToSet(Lists[s]) => s = size
      /\ \A s \in Size : ToSet(Lists'[s]) = IF s = size /\ Len(table[x]) = 1
                                            THEN ToSet(Lists[s]) \ {x} ELSE ToSet(Lists[s])
      /\ ToSet(Lists'[MaxSize]) = IF Len(table[x]) = 1 THEN ToSet(Lists[MaxSize]) \cup {x}
                                 ELSE ToSet(Lists[MaxSize])
      /\ x \notin ToSet(Lists[MaxSize])
  <2>1. /\ \A l \in ListName : ToSet(Lists[l]) \subseteq Block
        /\ \A l, m \in ListName : m # l => ToSet(Lists[l]) \cap ToSet(Lists[m]) = {}
    BY <1>1, ListIs DEF Sound
  <2>2. CASE Len(table[x]) = 1
    BY <1>1, <2>1, <2>2, Names DEF Loses
  <2>3. CASE Len(table[x]) # 1
    BY <1>1, <2>1, <2>3, Names DEF Loses
  <2> QED
    BY <2>2, <2>3
<1>7. EmptyIffFree'
  <2>1. /\ \A s \in Size : Chain(s)' = Lists'[s] /\ Chain(s) = Lists[s]
        /\ List(free_block_head)' = Lists'[MaxSize] /\ List(free_block_head) = Lists[MaxSize]
    BY Names DEF Lists, HeadOf, Chain
  <2>2. ASSUME NEW s \in Size, NEW b \in ToSet(Lists'[s]) PROVE table'[b] # <<>>
    <3>1. b \in ToSet(Lists[s]) /\ b \in Block
      BY <1>6, Names
    <3>2. b = x => Len(table[x]) # 1
      BY <1>6, <3>1
    <3> QED
      BY <1>1, <1>4, <2>1, <3>1, <3>2 DEF Sound, EmptyIffFree
  <2>3. ASSUME NEW b \in ToSet(Lists'[MaxSize]) PROVE table'[b] = <<>>
    <3>1. CASE b = x
      <4>1. Len(table[x]) = 1
        BY <1>6, <3>1
      <4> QED
        BY <1>4, <3>1, <4>1
    <3>2. CASE b # x
      <4>1. b \in ToSet(Lists[MaxSize]) /\ b \in Block
        BY <1>6, <3>2, Names
      <4> QED
        BY <1>1, <2>1, <3>2, <4>1 DEF Sound, EmptyIffFree
    <3> QED
      BY <3>1, <3>2
  <2> QED
    BY <2>1, <2>2, <2>3 DEF EmptyIffFree
<1>8. NothingBehind'
  <2>1. x \in 0 .. length - 1
    BY <1>1, Names, ListIs DEF Sound
  <2>2. length \in Int
    BY MapAssumption DEF IInv, TypeOK
  <2>3. ASSUME NEW b \in Block, b >= length PROVE table'[b] = <<>>
    <3>1. b # x
      BY <2>1, <2>2, <2>3
    <3> QED
      BY <1>1, <2>3, <3>1 DEF Sound, NothingBehind
  <2> QED
    BY <2>3 DEF NothingBehind
<1>9. ASSUME NEW s \in Size, NEW a \in Addr
      PROVE  Registered(s, a)' <=> Registered(s, a) /\ a # addr
  <2>1. ASSUME NEW b \in ToSet(Lists'[s]), a \in ToSet(table'[b])
        PROVE  b \in ToSet(Lists[s]) /\ a \in ToSet(table[b]) /\ a # addr
    <3>1. b \in ToSet(Lists[s]) /\ b \in Block
      BY <1>6, Names
    <3>2. CASE b = x
      BY <1>4, <2>1, <3>1, <3>2
    <3>3. CASE b # x
      BY <1>1, <1>2, <1>3, <2>1, <3>1, <3>3
    <3> QED
      BY <3>2, <3>3
  <2>2. ASSUME NEW b \in ToSet(Lists[s]), a \in ToSet(table[b]), a # addr
        PROVE  b \in ToSet(Lists'[s]) /\ a \in ToSet(table'[b])
    <3>1. b \in Block
      BY <1>6, Names
    <3>2. CASE b = x
      BY <1>4, <1>6, <2>2, <3>2
    <3>3. CASE b # x
      BY <1>1, <1>6, <2>2, <3>1, <3>3
    <3> QED
      BY <3>2, <3>3
  <2> QED
    BY <2>1, <2>2, RegisteredIs
<1>10. Registered(size, addr)
  BY <1>1, <1>2, RegisteredIs
<1> QED
  BY <1>1, <1>2, <1>5, <1>7, <1>8, <1>9, <1>10 DEF IInv, addr

(* No address is under two sizes.                                          *)
LEMMA UnderOneSize ==
    ASSUME Sound, RegisteredOnce, NEW a, NEW s \in Size, NEW t \in Size,
           Registered(s, a), Registered(t, a)
    PROVE  s = t
<1>1. PICK b \in ToSet(Lists[s]) : a \in ToSet(table[b])
  BY RegisteredIs
<1>2. PICK c \in ToSet(Lists[t]) : a \in ToSet(table[c])
  BY RegisteredIs
<1>3. b \in Block /\ c \in Block /\ (s # t => ToSet(Lists[s]) \cap ToSet(Lists[t]) = {})
  BY Names, ListIs DEF Sound
<1>4. b = c
  BY <1>1, <1>2, <1>3, OnceIs DEF RegisteredOnce
<1> QED
  BY <1>3, <1>4

SpaceTold ==
    \A a \in Addr : \/ SpaceOf(a) = None /\ \A s \in Size : ~Registered(s, a)
                   \/ /\ SpaceOf(a) \in Size
                      /\ \A s \in Size : Registered(s, a) <=> s = SpaceOf(a)

LEMMA SpaceIs == IInv => SpaceTold
<1>1. SUFFICES ASSUME IInv, NEW a \in Addr
               PROVE  \/ SpaceOf(a) = None /\ \A s \in Size : ~Registered(s, a)
                      \/ /\ SpaceOf(a) \in Size
                         /\ \A s \in Size : Registered(s, a) <=> s = SpaceOf(a)
  BY DEF SpaceTold
<1>2. Sound /\ RegisteredOnce
  BY <1>1 DEF Sound, IInv
<1>3. CASE \A b \in Block : a \notin ToSet(table[b])
  <2>1. \A s \in Size : ToSet(Lists[s]) \subseteq Block
    BY <1>2, Names, ListIs DEF Sound
  <2>2. \A s \in Size : ~Registered(s, a)
    BY <1>3, <2>1, RegisteredIs
  <2> QED
    BY <1>3, <2>2 DEF SpaceOf
<1>4. CASE \E b \in Block : a \in ToSet(table[b])
  <2>1. \E s \in Size : Registered(s, a)
    BY <1>2, <1>4, HeldIsRegistered
  <2>2. SpaceOf(a) = CHOOSE s \in Size : Registered(s, a)
    BY <1>4 DEF SpaceOf
  <2>3. SpaceOf(a) \in Size /\ Registered(SpaceOf(a), a)
    BY <2>1, <2>2
  <2> QED
    BY <1>2, <2>3, UnderOneSize
<1> QED
  BY <1>3, <1>4

LEMMA SpaceIsNext == IInv' => SpaceTold'
BY SpaceIs, PTL

-----------------------------------------------------------------------------
(* Every call keeps the invariant and does to the registered addresses     *)
(* what it is for.                                                         *)

LEMMA Inserts ==
    ASSUME IInv, NEW size \in Size, NEW addr \in Addr, hash_table_insert(size, addr)
    PROVE  /\ IInv' /\ ret' = ret
           /\ \A s \in Size : ~Registered(s, addr)
           /\ \A s \in Size, a \in Addr :
                Registered(s, a)' <=> Registered(s, a) \/ (s = size /\ a = addr)
<1>1. Sound /\ ret' = ret /\ \A s \in Size : ~Registered(s, addr)
  BY DEF IInv, Sound, hash_table_insert
<1>2. TypeOK' /\ Linked' /\ BlocksOwnedOnce' /\ \E x \in Block : Adds(size, addr, x)
  <2>1. InsertFirst(size, addr) \/ InsertInRoom(size, addr) \/ InsertBehind(size, addr)
    BY DEF hash_table_insert
  <2> QED
    BY <1>1, <2>1, FirstAdds, RoomAdds, BehindAdds
<1>3. length' >= length
  <2>1. length \in Int
    BY MapAssumption DEF IInv, TypeOK
  <2> QED
    BY <2>1 DEF hash_table_insert, InsertFirst, InsertInRoom, InsertBehind, TakeBlock
<1> QED
  BY <1>1, <1>2, <1>3, AddsKeeps

LEMMA Pops ==
    ASSUME IInv, NEW size \in Size, NEW addr \in Addr, hash_table_pop(size, addr)
    PROVE  /\ IInv' /\ ret' = ret
           /\ Registered(size, addr)
           /\ \A s \in Size, a \in Addr : Registered(s, a)' <=> Registered(s, a) /\ a # addr
<1>1. Sound /\ ret' = ret /\ ret' \in Addr \cup {None}
  BY DEF IInv, Sound, TypeOK, hash_table_pop
<1>2. PICK k \in DOMAIN Lists[size] : \E i \in DOMAIN table[Lists[size][k]] :
        table[Lists[size][k]][i] = addr /\ TakeOut(size, Lists[size], k, i)
  BY Names DEF hash_table_pop
<1> DEFINE x == Lists[size][k]
<1>3. PICK i \in DOMAIN table[x] : table[x][i] = addr /\ TakeOut(size, Lists[size], k, i)
  BY <1>2
<1>4. x \in Block /\ length' = length
  <2>1. Lists[size] \in Seq(Block)
    BY <1>1, Names, ListIs DEF Sound
  <2> QED
    BY <1>3, <2>1 DEF TakeOut
<1>5. TypeOK' /\ Linked' /\ BlocksOwnedOnce' /\ Loses(size, x, i)
  BY <1>1, <1>3, OutLoses
<1> HIDE DEF x
<1>6. IInv' /\ Registered(size, table[x][i])
  BY <1>4, <1>5, LosesKeeps
<1>7. \A s \in Size, a \in Addr : Registered(s, a)' <=> Registered(s, a) /\ a # table[x][i]
  BY <1>4, <1>5, LosesKeeps
<1> QED
  BY <1>1, <1>3, <1>6, <1>7

(* A size has registered blocks exactly when its slot names a hash block,  *)
(* whose last entry is then there to be taken.                             *)
LEMMA SlotTells ==
    ASSUME Sound, NEW s \in Size
    PROVE  /\ First(s) # NoBlock
                => /\ Lists[s] # <<>> /\ Lists[s][1] = First(s) /\ First(s) \in Block
                   /\ Len(table[First(s)]) \in DOMAIN table[First(s)]
                   /\ table[First(s)] \in Seq(Addr)
           /\ First(s) = NoBlock => \A a : ~Registered(s, a)
<1>1. /\ Lists[s] \in Seq(Block) /\ IsList(next, First(s), NoBlock, Lists[s])
      /\ NoBlock \notin Block
  BY Names, ListIs, MapAssumption DEF Sound, Block, NoBlock
<1>2. Lists[s] # <<>> => 1 \in DOMAIN Lists[s] /\ Lists[s][1] \in Block
  BY <1>1
<1>3. CASE First(s) # NoBlock
  <2>1. Lists[s] # <<>> /\ Lists[s][1] = First(s) /\ First(s) \in Block
    BY <1>1, <1>2, <1>3 DEF IsList
  <2>2. First(s) \in ToSet(Lists[s])
    BY <1>2, <2>1 DEF ToSet
  <2>3. table[First(s)] # <<>> /\ table[First(s)] \in Seq(Addr)
    BY <2>1, <2>2, Names DEF Sound, EmptyIffFree, TypeOK
  <2>4. Len(table[First(s)]) \in DOMAIN table[First(s)]
    <3> DEFINE e == table[First(s)]
    <3>1. e # <<>> /\ e \in Seq(Addr)
      BY <2>3
    <3> HIDE DEF e
    <3>2. Len(e) \in Nat /\ Len(e) # 0 /\ DOMAIN e = 1 .. Len(e)
      BY <3>1
    <3>3. Len(e) \in DOMAIN e
      BY <3>2
    <3> QED
      BY <3>3 DEF e
  <2> QED
    BY <1>3, <2>1, <2>3, <2>4
<1>4. CASE First(s) = NoBlock
  <2>1. Lists[s] = <<>>
    BY <1>1, <1>2, <1>4 DEF IsList
  <2>2. ToSet(Lists[s]) = {}
    BY <1>1, <2>1, ToSetIs
  <2> QED
    BY <1>4, <2>2, RegisteredIs
<1> QED
  BY <1>3, <1>4

LEMMA PopsFound ==
    ASSUME IInv, NEW size \in Size, PopFound(size)
    PROVE  /\ IInv' /\ ret' \in Addr
           /\ \E s \in Size : /\ s >= size /\ Registered(s, ret')
                              /\ \A t \in Size, a \in Addr : Registered(t, a) /\ t >= size => t >= s
           /\ \A s \in Size, a \in Addr : Registered(s, a)' <=> Registered(s, a) /\ a # ret'
<1>1. Sound
  BY DEF IInv, Sound
<1>2. PICK d \in Scanned(size) :
        /\ directory[d[1]][d[2]] # NoBlock
        /\ \A e \in Scanned(size) : Earlier(e, d) => directory[e[1]][e[2]] = NoBlock
        /\ ret' = table[directory[d[1]][d[2]]][Len(table[directory[d[1]][d[2]]])]
        /\ TakeOut(d[1] * HASH_MAP_DIR_BLOCK_SIZE + d[2], <<directory[d[1]][d[2]]>>, 1,
                    Len(table[directory[d[1]][d[2]]]))
  BY DEF PopFound
<1> DEFINE s == d[1] * HASH_MAP_DIR_BLOCK_SIZE + d[2]
           b == First(s)
<1>3. s \in Size /\ d = <<DirPage(s), DirSlot(s)>> /\ First(s) = directory[d[1]][d[2]]
  <2>1. d[1] \in 0 .. NDir - 1 /\ d[2] \in 0 .. HASH_MAP_DIR_BLOCK_SIZE - 1 /\ d = <<d[1], d[2]>>
    BY DEF Scanned
  <2> QED
    BY <2>1, Slots DEF First
<1>4. /\ b # NoBlock
      /\ ret' = table[b][Len(table[b])]
      /\ TakeOut(s, <<b>>, 1, Len(table[b]))
  BY <1>2, <1>3
<1> HIDE DEF s
<1>5. s >= size
  BY <1>3, ScannedInOrder
<1>6. ASSUME NEW t \in Size, NEW a \in Addr, Registered(t, a), t >= size PROVE t >= s
  <2>1. First(t) # NoBlock
    BY <1>1, <1>6, SlotTells
  <2>2. <<DirPage(t), DirSlot(t)>> \in Scanned(size)
    BY <1>6, ScannedInOrder
  <2>3. ~Earlier(<<DirPage(t), DirSlot(t)>>, d)
    BY <1>2, <2>1, <2>2 DEF First
  <2>4. ~(t < s)
    BY <1>3, <2>3, ScannedInOrder
  <2> QED
    BY <1>3, <2>4 DEF Size
<1>7. /\ Lists[s] # <<>> /\ Lists[s][1] = b /\ b \in Block
      /\ Len(table[b]) \in DOMAIN table[b] /\ table[b] \in Seq(Addr)
  BY <1>1, <1>3, <1>4, SlotTells
<1>8. 1 \in DOMAIN Lists[s]
  <2>1. Lists[s] \in Seq(Block)
    BY <1>1, <1>3, Names, ListIs DEF Sound
  <2> QED
    BY <1>7, <2>1
<1> HIDE DEF b
<1>9. TakeOut(s, Lists[s], 1, Len(table[b])) /\ length' = length
  BY <1>4, <1>7 DEF TakeOut, Unlink
<1>10. ret' \in Addr
  BY <1>4, <1>7
<1>11. TypeOK' /\ Linked' /\ BlocksOwnedOnce' /\ Loses(s, b, Len(table[b]))
  BY <1>1, <1>3, <1>7, <1>8, <1>9, <1>10, OutLoses
<1>12. IInv' /\ Registered(s, ret')
  BY <1>3, <1>4, <1>7, <1>9, <1>11, LosesKeeps
<1>13. \A t \in Size, a \in Addr : Registered(t, a)' <=> Registered(t, a) /\ a # ret'
  BY <1>3, <1>4, <1>7, <1>9, <1>11, LosesKeeps
<1> QED
  BY <1>3, <1>5, <1>6, <1>10, <1>12, <1>13

LEMMA PopsNone ==
    ASSUME IInv, NEW size \in Size, PopNone(size)
    PROVE  /\ IInv' /\ ret' = None
           /\ \A s \in Size, a \in Addr : s >= size => ~Registered(s, a)
           /\ \A s \in Size, a \in Addr : Registered(s, a)' <=> Registered(s, a)
<1>1. /\ Sound /\ ret' = None /\ UNCHANGED <<free_block_head, directory, next, table, length>>
      /\ \A d \in Scanned(size) : directory[d[1]][d[2]] = NoBlock
  BY DEF IInv, Sound, PopNone
<1>2. Lists' = Lists /\ Linked' /\ BlocksOwnedOnce'
  BY <1>1, SameLists DEF Sound
<1>3. \A s \in Size, a \in Addr : Registered(s, a)' <=> Registered(s, a)
  BY <1>1, <1>2, RegisteredIs
<1>4. ASSUME NEW s \in Size, s >= size PROVE \A a \in Addr : ~Registered(s, a)
  <2>1. <<DirPage(s), DirSlot(s)>> \in Scanned(size)
    BY <1>4, ScannedInOrder
  <2>2. First(s) = NoBlock
    BY <1>1, <2>1 DEF First
  <2> QED
    BY <1>1, <2>2, SlotTells
<1>5. TypeOK'
  BY <1>1 DEF IInv, TypeOK
<1>6. EmptyIffFree'
  <2>1. /\ \A s \in Size : Chain(s)' = Lists'[s] /\ Chain(s) = Lists[s]
        /\ List(free_block_head)' = Lists'[MaxSize] /\ List(free_block_head) = Lists[MaxSize]
    BY Names DEF Lists, HeadOf, Chain
  <2> QED
    BY <1>1, <1>2, <2>1 DEF IInv, EmptyIffFree
<1>7. RegisteredOnce' /\ NothingBehind'
  BY <1>1 DEF IInv, RegisteredOnce, NothingBehind
<1> QED
  BY <1>1, <1>2, <1>3, <1>4, <1>5, <1>6, <1>7 DEF IInv

-----------------------------------------------------------------------------
(* The invariant.                                                          *)

LEMMA InitInv ==
    ASSUME Init
    PROVE  IInv
<1>1. /\ free_block_head = NoBlock
      /\ directory = [p \in 0 .. NDir - 1 |-> [s \in 0 .. HASH_MAP_DIR_BLOCK_SIZE - 1 |-> NoBlock]]
      /\ next = [b \in Block |-> NoBlock]
      /\ table = [b \in Block |-> <<>>]
      /\ length = 0 /\ ret = None
      /\ HASH_MAP_BLOCK_SIZE \in Nat /\ MaxBlocks \in Nat
      /\ NoBlock \in BlockOrNone /\ next \in [Block -> BlockOrNone]
  BY MapAssumption DEF Init, BlockOrNone
<1>2. TypeOK
  <2>1. table \in [Block -> Seq(Addr)] /\ \A b \in Block : Len(table[b]) <= HASH_MAP_BLOCK_SIZE
    BY <1>1
  <2>2. directory \in [0 .. NDir - 1 -> [0 .. HASH_MAP_DIR_BLOCK_SIZE - 1 -> BlockOrNone]]
    BY <1>1
  <2> QED
    BY <1>1, <2>1, <2>2 DEF TypeOK
<1>3. ASSUME NEW l \in ListName
      PROVE  /\ HeadOf(l) = NoBlock /\ Lists[l] = <<>>
             /\ IsList(next, HeadOf(l), NoBlock, Lists[l])
             /\ IsInjective(Lists[l]) /\ ToSet(Lists[l]) = {}
  <2>1. HeadOf(l) = NoBlock
    BY <1>1, Names, Slots DEF HeadOf, First
  <2>2. IsList(next, NoBlock, NoBlock, <<>>)
    BY <1>1 DEF IsList
  <2>3. IsInjective(<<>>) /\ ToSet(<<>>) = {}
    BY DEF IsInjective, ToSet
  <2>4. List(NoBlock) = <<>>
    BY <1>1, <2>2, <2>3, SeenAsIs DEF List
  <2> QED
    BY <2>1, <2>2, <2>3, <2>4 DEF Lists
<1>4. Linked
  BY <1>3 DEF Linked
<1>5. BlocksOwnedOnce
  <2>1. UNION {ToSet(Lists[l]) : l \in ListName} = {}
    BY <1>3
  <2>2. 0 .. length - 1 = {}
    BY <1>1
  <2> QED
    BY <1>3, <2>1, <2>2 DEF BlocksOwnedOnce
<1>6. EmptyIffFree
  BY <1>3, Names DEF EmptyIffFree
<1>7. RegisteredOnce /\ NothingBehind
  BY <1>1 DEF RegisteredOnce, NothingBehind
<1> QED
  BY <1>2, <1>4, <1>5, <1>6, <1>7 DEF IInv

LEMMA StutterInv ==
    ASSUME IInv, UNCHANGED vars
    PROVE  IInv'
<1>1. Lists' = Lists /\ Linked' /\ BlocksOwnedOnce'
  BY SameLists DEF vars, IInv
<1>2. TypeOK' /\ RegisteredOnce' /\ NothingBehind'
  BY DEF vars, IInv, TypeOK, RegisteredOnce, NothingBehind
<1>3. EmptyIffFree'
  <2>1. /\ \A s \in Size : Chain(s)' = Lists'[s] /\ Chain(s) = Lists[s]
        /\ List(free_block_head)' = Lists'[MaxSize] /\ List(free_block_head) = Lists[MaxSize]
    BY Names DEF Lists, HeadOf, Chain
  <2> QED
    BY <1>1, <2>1 DEF vars, IInv, EmptyIffFree
<1> QED
  BY <1>1, <1>2, <1>3 DEF IInv

LEMMA NextInv ==
    ASSUME IInv, [Next]_vars
    PROVE  IInv'
<1>1. ASSUME NEW size \in Size, hash_table_pop_lower_bound(size) PROVE IInv'
  BY <1>1, PopsFound, PopsNone DEF hash_table_pop_lower_bound
<1>2. ASSUME NEW size \in Size, NEW addr \in Addr, hash_table_insert(size, addr) PROVE IInv'
  BY <1>2, Inserts
<1>3. ASSUME NEW size \in Size, NEW addr \in Addr, hash_table_pop(size, addr) PROVE IInv'
  BY <1>3, Pops
<1>4. CASE UNCHANGED vars
  BY <1>4, StutterInv
<1> QED
  BY <1>1, <1>2, <1>3, <1>4 DEF Next

(* Whatever is inserted and popped, the lists of the file are as described *)
(* by IInv.                                                                *)
THEOREM MapSound == Spec => []IInv
<1>1. Init => IInv
  BY InitInv
<1>2. IInv /\ [Next]_vars => IInv'
  BY NextInv
<1> QED
  BY <1>1, <1>2, PTL DEF Spec

(* Every hash block of the file is in exactly one place of one chain or of *)
(* the free list, however many were unlinked and reused.                   *)
THEOREM EveryBlockOwnedOnce == Spec => []BlocksOwnedOnce
<1>1. IInv => BlocksOwnedOnce
  BY DEF IInv
<1> QED
  BY <1>1, MapSound, PTL

(* hash_table_pop_lower_bound never takes the last entry of an empty block.*)
THEOREM NoEmptyBlockInChain == Spec => []EmptyIffFree
<1>1. IInv => EmptyIffFree
  BY DEF IInv
<1> QED
  BY <1>1, MapSound, PTL

(* No address is held twice.                                               *)
THEOREM NoDuplicateAddr == Spec => []RegisteredOnce
<1>1. IInv => RegisteredOnce
  BY DEF IInv
<1> QED
  BY <1>1, MapSound, PTL

-----------------------------------------------------------------------------
(* The map implements FreeSpaceMap.                                        *)

LEMMA InitAbstract ==
    ASSUME Init
    PROVE  FSM!Init
<1>1. \A b \in Block : table[b] = <<>>
  BY DEF Init
<1>2. \A a : a \notin ToSet(<<>>)
  BY DEF ToSet
<1>3. \A a \in Addr : SpaceOf(a) = None
  BY <1>1, <1>2 DEF SpaceOf
<1> QED
  BY <1>3 DEF Init, FSM!Init

(* What the registered addresses become, space becomes.                    *)
LEMMA InsertsAbstract ==
    ASSUME IInv, NEW size \in Size, NEW addr \in Addr, hash_table_insert(size, addr)
    PROVE  FSM!Insert(size, addr)
<1>1. SpaceTold /\ SpaceTold'
  BY Inserts, SpaceIs, SpaceIsNext
<1>2. SpaceOf(addr) = None
  BY <1>1, Inserts DEF SpaceTold
<1>3. ASSUME NEW a \in Addr PROVE SpaceOf(a)' = IF a = addr THEN size ELSE SpaceOf(a)
  <2>1. \A s \in Size : Registered(s, a)' <=> Registered(s, a) \/ (s = size /\ a = addr)
    BY Inserts
  <2>2. CASE a = addr
    <3>1. Registered(size, a)'
      BY <2>1, <2>2
    <3> QED
      BY <1>1, <2>2, <3>1 DEF SpaceTold
  <2>3. CASE a # addr
    BY <1>1, <2>1, <2>3 DEF SpaceTold
  <2> QED
    BY <2>2, <2>3
<1>4. [a \in Addr |-> SpaceOf(a)]' = [[a \in Addr |-> SpaceOf(a)] EXCEPT ![addr] = size]
  BY <1>3
<1> QED
  BY <1>2, <1>4, Inserts DEF FSM!Insert

LEMMA LessAbstract ==
    ASSUME SpaceTold, SpaceTold', NEW addr \in Addr,
           \A s \in Size, a \in Addr : Registered(s, a)' <=> Registered(s, a) /\ a # addr
    PROVE  [a \in Addr |-> SpaceOf(a)]' = [[a \in Addr |-> SpaceOf(a)] EXCEPT ![addr] = None]
<1>1. ASSUME NEW a \in Addr PROVE SpaceOf(a)' = IF a = addr THEN None ELSE SpaceOf(a)
  BY DEF SpaceTold
<1> QED
  BY <1>1

LEMMA PopsAbstract ==
    ASSUME IInv, NEW size \in Size, NEW addr \in Addr, hash_table_pop(size, addr)
    PROVE  FSM!Pop(size, addr)
<1>1. SpaceTold /\ SpaceTold'
  BY Pops, SpaceIs, SpaceIsNext
<1>2. SpaceOf(addr) = size
  BY <1>1, Pops DEF SpaceTold
<1>3. [a \in Addr |-> SpaceOf(a)]' = [[a \in Addr |-> SpaceOf(a)] EXCEPT ![addr] = None]
  BY <1>1, Pops, LessAbstract
<1> QED
  BY <1>2, <1>3, Pops DEF FSM!Pop

LEMMA LowerBoundAbstract ==
    ASSUME IInv, NEW size \in Size, hash_table_pop_lower_bound(size)
    PROVE  FSM!PopLowerBound(size)
<1>1. SpaceTold /\ None \notin Size
  BY SpaceIs, Slots, MapAssumption
<1>2. ASSUME NEW a \in Addr
      PROVE  /\ FSM!Fits(a, size) <=> SpaceOf(a) # None /\ SpaceOf(a) >= size
             /\ SpaceOf(a) # None <=> \E s \in Size : Registered(s, a)
             /\ \A s \in Size : Registered(s, a) <=> s = SpaceOf(a)
  BY <1>1 DEF SpaceTold, FSM!Fits
<1>3. CASE PopFound(size)
  <2>1. PICK s \in Size : /\ s >= size /\ Registered(s, ret')
                         /\ \A t \in Size, a \in Addr : Registered(t, a) /\ t >= size => t >= s
    BY <1>3, PopsFound
  <2>2. ret' \in Addr /\ SpaceOf(ret') = s /\ FSM!Fits(ret', size)
    BY <1>1, <1>2, <1>3, <2>1, PopsFound
  <2>3. \A a \in Addr : FSM!Fits(a, size) => SpaceOf(a) >= SpaceOf(ret')
    BY <1>2, <2>1, <2>2
  <2>4. SpaceTold'
    BY <1>3, PopsFound, SpaceIsNext
  <2>5. [a \in Addr |-> SpaceOf(a)]' = [[a \in Addr |-> SpaceOf(a)] EXCEPT ![ret'] = None]
    BY <1>1, <1>3, <2>2, <2>4, PopsFound, LessAbstract
  <2> QED
    BY <2>2, <2>3, <2>5 DEF FSM!PopLowerBound
<1>4. CASE PopNone(size)
  <2>1. ~\E a \in Addr : FSM!Fits(a, size)
    BY <1>2, <1>4, PopsNone
  <2>2. SpaceTold'
    BY <1>4, PopsNone, SpaceIsNext
  <2>3. ASSUME NEW a \in Addr PROVE SpaceOf(a)' = SpaceOf(a)
    <3>1. \A s \in Size : Registered(s, a)' <=> Registered(s, a)
      BY <1>4, PopsNone
    <3> QED
      BY <1>1, <2>2, <3>1 DEF SpaceTold
  <2>4. [a \in Addr |-> SpaceOf(a)]' = [a \in Addr |-> SpaceOf(a)]
    BY <2>3
  <2> QED
    BY <1>4, <2>1, <2>4, PopsNone DEF FSM!PopLowerBound
<1> QED
  BY <1>3, <1>4 DEF hash_table_pop_lower_bound

(* Call by call, hash_map.c does what FreeSpaceMap says: it forgets no     *)
(* block, and the block it hands out has the least space that is enough.   *)
THEOREM MapImplements == Spec => ImplementsFreeSpaceMap
<1> DEFINE Calls == \A s \in Size :
                      /\ hash_table_pop_lower_bound(s) => FSM!PopLowerBound(s)
                      /\ \A a \in Addr :
                           /\ hash_table_insert(s, a) => FSM!Insert(s, a)
                           /\ hash_table_pop(s, a) => FSM!Pop(s, a)
<1>1. Init => FSM!Init
  BY InitAbstract
<1>2. IInv => Calls
  BY InsertsAbstract, PopsAbstract, LowerBoundAbstract
<1>3. IInv /\ [Next]_vars => [FSM!Next]_FSM!vars
  <2>1. SUFFICES ASSUME IInv, [Next]_vars PROVE [FSM!Next]_FSM!vars
    OBVIOUS
  <2>2. CASE UNCHANGED vars
    <3>1. Lists' = Lists
      BY <2>2, SameLists DEF vars
    <3>2. \A a \in Addr : \A s \in Size : Registered(s, a)' <=> Registered(s, a)
      BY <2>2, <3>1, RegisteredIs DEF vars
    <3>3. SpaceTold /\ SpaceTold'
      BY <2>1, <2>2, StutterInv, SpaceIs, SpaceIsNext
    <3>4. \A a \in Addr : SpaceOf(a)' = SpaceOf(a)
      BY <3>2, <3>3 DEF SpaceTold
    <3>5. [a \in Addr |-> SpaceOf(a)]' = [a \in Addr |-> SpaceOf(a)] /\ ret' = ret
      BY <2>2, <3>4 DEF vars
    <3> QED
      BY <3>5 DEF FSM!vars
  <2>3. CASE Next
    <3>1. Calls
      BY <1>2, <2>1
    <3> QED
      BY <2>3, <3>1 DEF Next, Size, FSM!Next, FSM!Size
  <2> QED
    BY <2>1, <2>2, <2>3
<1> HIDE DEF Calls
<1>4. Spec => FSM!Spec
  BY <1>1, <1>3, MapSound, PTL DEF Spec, FSM!Spec
<1>5. Spec => [][Calls]_vars
  BY <1>2, MapSound, PTL DEF Spec
<1> QED
  BY <1>4, <1>5 DEF ImplementsFreeSpaceMap, Calls
=============================================================================
