# A TLA+ development of Simple-Redis-Database (MyJQL)

MyJQL is a small key-value server in C. A server process keeps five paged files
(an index and two tables, each table with a free-space map) and answers `get`,
`set` and `del` of any number of clients, one thread per client, one mutex around
the database. This directory models its parts in TLA+, checks them with TLC on
small instances, and proves some of the results with TLAPS for every value of the
constants. The repository has no tests and its README is a title, so the code
itself, with its comments, is the only reference.

## 1. Inventory

| component | code | state it keeps | operations |
|---|---|---|---|
| page file | `src/file_io.c` | a file of 128-byte pages and its length | `open_file`, `close_file`, `read_page`, `write_page` |
| buffer pool | `src/buffer_pool.c` | 16 frames: `addrs`, `lru`, `ref`, `pages` | `get_page`, `release`, `init_/close_buffer_pool` |
| block | `src/block.c` | a slotted page: `n_items`, `head_ptr`, `tail_ptr`, item ids, bytes | `new_item`, `delete_item`, `get_item`, `free_space`, `init_block` |
| free-space map | `src/hash_map.c` | directory, chains of hash blocks per size, free list | `hash_table_insert`, `_pop`, `_pop_lower_bound`, `_init`, `_close` |
| B-tree index | `src/b_tree.c` | root, nodes, leaf chain, free list | `b_tree_search`, `_insert`, `_delete`, `_init`, `_close` |
| table | `src/table.c` | a pool of blocks and a free-space map | `table_insert`, `table_delete`, `table_read` |
| string | `src/str.c` | chains of chunks in a table | `write_string`, `delete_string`, `load_string`, `compare_string_record` |
| store | `src/myjql.c` | index, record table, string table | `myjql_get`, `_set`, `_del`, `_init`, `_close`, the two handlers |
| server | `main/myjqlserver.c` | threads, mutex, sockets | `InstanceThread`, `exit_nicely`, `main` |
| client | `driver/myjqlclient.cpp` | a connection | `get`, `set`, `del`, destructor |
| shell | `main/myjqlshell.cpp` | one client | reads lines, calls the client |

How they interact. The store calls the index and the tables, which call pools;
the index calls back into the store (`cmp`, `insert_handler`, `delete_handler`),
which reads and writes the string table in the middle of an index operation. A
table asks its free-space map for a block, changes the block and registers it
again. All these calls run in the thread of a client under one mutex. The server
threads share nothing else; the signal handler takes the same mutex to close the
store.

What makes each part correct, and what is hard about it:

* **Buffer pool.** Pages behave as if there were no pool. Hard: pointers into
  frames stay in use while other pages are got (and, in `hash_table_pop`, after
  they were released); the recency list and the frames are two arrays that must
  agree; there is no dirty bit; appends go past the frames.
* **Block.** Items keep their index and bytes. Hard: `new_item` checks nothing and
  relies on what `free_space` said earlier; deletions move other items.
* **Free-space map.** It forgets no block and hands out the best fit. Hard: long
  runs of chains growing, shrinking and giving blocks to each other through the
  free list.
* **B-tree.** It holds the keys that were put and not deleted, searches find them,
  it stays balanced, and neither nodes nor separator strings leak. Hard: eight
  cases of borrowing and merging, separators that outlive the keys they were
  copied from, and the ownership of the copies across recursion levels.
* **Table.** A rid names its item until it is deleted; every block is registered
  under its current free space.
* **String.** A string reads and compares as it was written. Hard: strings that are
  empty or end where a chunk ends, comparisons that go from chunk to chunk on both
  sides, and a search that writes and deletes in the table it searches through.
* **Store.** A map from keys to values, with no record or string left over. Hard: the
  index compares through records and strings, so every deletion is right only in its
  place; a set of an existing key is a deletion and an insertion.
* **Server, client, shell.** Each request is answered by what it asked for, and a
  closed connection ends a thread. Hard: closed connections and partial receives,
  shutdown while other threads are running, a signal that interrupts a thread
  holding the mutex or, inside `printf`, the lock of stdout.

`PROJECT.json` lists the hazards line by line, with the properties that cover
them and, for those not covered yet, why.

## 2. Modules

| module | what it is | checked by | proved in |
|---|---|---|---|
| `PageStore` | what a file with its pool promises: an array of pages that are pinned, written and appended | (abstract) | |
| `BufferPool` | `buffer_pool.c` over `file_io.c` | `MCBufferPool` | `BufferPoolProofs` |
| `ItemStore` | what a block promises: items with stable indexes | (abstract) | |
| `Block` | `block.c` | `MCBlock` | `BlockProofs` |
| `FreeSpaceMap` | what the map promises: the free space of every block, best fit | (abstract) | |
| `LinkedLists` | linked lists of a file, as `hash_map.c` and `str.c` keep them | (part of the others) | `StructureProofs` |
| `HashMap` | `hash_map.c` | `MCHashMap` | `HashMapProofs` |
| `PoolCalls` | how a caller has to use a pool | (part of the next two) | |
| `HashMapCalls` | what the calls of `hash_map.c` get, use and release | `MCHashMap` | |
| `KeyIndex` | what the index promises: a set of keys | (abstract) | |
| `BTree` | `b_tree.c` with the handlers of `myjql.c` | `MCBTree` | `BTreeProofs` |
| `BTreeCalls` | what the calls of `b_tree.c` get, use and release | `MCBTree` | |
| `Table` | `table.c` over blocks and a `FreeSpaceMap`, implements `ItemStore` | `MCTable` | `TableProofs` |
| `KeyValue` | what the store promises to the server: a map from keys to values | (abstract) | |
| `Store` | `myjql.c` over tables and the contents of an index, implements `KeyValue` | (part of `Strings`) | `StoreProofs` |
| `Strings` | `str.c`: `Store` with its strings in chunks | `MCStrings` | `StoreProofs` |
| `Wire` | connections as the socket calls of Linux provide them; no source file | (part of `System`) | |
| `Server` | `myjqlserver.c` | (part of `System`) | |
| `Clients` | `myjqlclient.cpp` and how the shell uses it | (part of `System`) | |
| `Service` | what the server promises: requests that take effect in one step | (abstract) | |
| `System` | server and clients together, with their properties | `MCSystem` (six configurations) | `SystemProofs` |

**Granularity.** The server runs every database call under one mutex, so in the
components below it a call is one step, except in `Table` and `Store`, where the steps
of a call are what the properties are about. What interleaves there is the order of calls of
different callers: a page pinned by one walk while another page is got, a block
changed between two uses of the map. In `Server` every `recv`, `send`, lock and unlock
is a step of its own.

**BufferPool.** A variable per field of `BufferPool`, the file and its length; an
address is a page number and `NoPage` is -1. `get_page` is `GetHit`, `GetFree` or
`GetEvict`, in the order of its three loops. The callers are the environment:
they pin pages that exist, store through pointers they hold, release what they
pinned and append pages past the frames (`AppendPage`). When every frame is pinned
`get_page` returns nothing at all, so no action describes that case. `Close`
writes every frame back and keeps `addrs`, `Open` empties the frames and keeps
their bytes, both as the code does. Results of the file calls are ignored by the
pool, and so is their failure here.

**Block.** The ids are a function, the bytes of the page another; that they do not
overlap in memory is the invariant `ItemsApart`. `new_item` takes the first free
id or a new one, `delete_item` gives up the last id or frees an inner one and
moves the bytes below the gap up. The precondition "there should be enough space"
(`block.h`) is that the item is no larger than `free_space`, because that is how
`table.c` picks a block.

**HashMap.** The pool under it is assumed to be what `PageStore` says, so its
pages are variables: the head of the free list, the directory, and `next` and
`table` of every hash block. `ListFrom` of `LinkedLists` walks a chain as the code does. An insertion
is one of three actions (no chain, room in a block, all full); removing an entry
(`TakeOut`) unlinks a block that becomes empty, for both ways of popping. Inserts
of registered addresses and pops of unregistered ones are excluded as the comments
of `hash_map.h` say.

**PoolCalls, HashMapCalls, BTreeCalls.** A call of the map or the index is one step in
`HashMap` and `BTree`; what it does to its pool on the way is a sequence of events, got, used,
released, that these modules write down in the order of the code, branch by branch.
`Obeys` plays such a sequence against a pool of which nothing is known but what
`BufferPoolProofs` proves: pinned pages stay (`PinnedStays`), the page got last stays unless
all other frames are pinned (`LatestSurvives`), and whatever else is in the frames is
somebody else's and may go at once. The sequences of the index use the results of
`tree_insert` and `tree_delete` for what the recursion came back with.

**BTree.** The variable `tree` holds control block, nodes and the separator
strings. `tree_search`, `tree_insert` and `tree_delete` are recursive functions of the number of
levels there may still be below a node, which starts as the number of nodes of the file and
so never ends the recursion before a leaf does; they return the new tree and what the C function
passes up by pointer (`newchildentry`, `oldchildentry`), with `PutInLeaf`, `PutAbove`, `DropInLeaf` and
`DropAbove` as what a leaf and a level above the leaves do. A row of a leaf stands for the key of its record; a row of an
inner node is the id of a string that `insert_handler` made. The copy loops of a
split are `SubSeq` of the row with the new entry in it: all branches of the code
on where the entry goes cut the same sequence at the same place. Slots the code
sets to -1, and the contents of free nodes, which are overwritten before they are
read, are left out. `myjql.c` inserts a key only if the search does not find it and
deletes it only if it does; these are the guards.

**Table.** `blocks` and `length` are the data file, `space` and `ret` the state of
`FreeSpaceMap`, `call` the local variables of the running call and the line it is at.
A block is reduced to its number of ids, its `tail_ptr` and the item of each id, with
`new_item`, `delete_item` and `free_space` as functions on it; `Block` shows what they
do to the bytes. `table_insert` is `table_insert`, then `PutInBlock` and `Register`, or
`PutInNewBlock` and `AppendBlock`, in the code's order: a new block is registered under
the address it will have before it is written. `table_delete` is `table_delete`,
`TakeItem`, `Register`. The assumption that every item fits an empty block is what
`str.c` and `myjql.c` guarantee (chunks of 20 bytes and records in pages of 128).

**Store.** `records` and `text` are the two tables, by rid; `leaves` and `separators` are
what the index holds, without its shape: which rows move up as separators, and which
separators are replaced or dropped, is any choice (`SplitLeaf`, `CopyRow`,
`CopySeparator`, `delete_handler`), of which `BTree` makes one. `call` is the running call, the place it is at and its local
variables; a call is a step for every change of a table or of the index, in the code's
order. `myjql_set` reads the record before it takes the key out of the index and `myjql_del`
after that, as in the code. A search is `Found`, through the records and strings that
are there at that moment.

**Strings.** `chunks` is the string table as items; every step of `Store` that changes
`text` is joined with what `str.c` does to the chunks (`write_string`, from the last chunk
to the first, and `delete_string`). A `StringRecord` is a chunk and an index;
`load_string` and `compare_string_record` walk through `next_char` and `has_next_char` as
the code does. `rid_ptr_row_cmp` writes the searched key into the table and deletes it.
A new chunk gets the least free rid: nothing looks at a rid but to compare it with the
null rid. `Store` alone is free in this choice, and so are its proofs. The loops of `str.c`
are functions from the number of rounds to the values of the locals (`put`, `after`), with
one operator for a round (`PutChunk`, `DeleteChunk`, `LoadNext`, `CompareNext`). `RoomFor` is
the bound on the file: there are rids for all chunks of a string before it is written.

**Wire.** A connection has two ends; each has the words it has not received yet and
what it knows of its peer. What `recv` and `send` do after the other end closed is that
of Linux: `recv` returns 0 after a close and -1 once after a reset, the first `send` to
a closed peer succeeds, a later one raises SIGPIPE; a connection that was not accepted
when the server ends is reset. A word is what one `send` sends and
one `recv` takes: a number or a string. Strings that arrive in parts are not modelled.

**Server.** `pc[c]` is the line the thread of client `c` is at and `local[c]` its
variables. `code` is one variable for commands, lengths and answers, as in the code,
and when `recv` returns 0 it keeps its value (`StaleCode`) or, for a fresh string,
anything of the right length (`Garbage`): this is how a closed connection turns into
commands. `owner` is the mutex. `handler[t]` is where the SIGINT handler of thread `t`
is; while it runs, `t` does nothing else. `line[t]` says that `t` has a line to print
before it goes on: every `printf` is a step of its own (`Prints`) after the step it belongs to,
since it locks stdout. `stdout` is the thread that was interrupted inside `printf` and keeps
that lock, because the handler never returns; the handler on that thread may print, no other
thread may (`MayPrint`). Once no signal can come and nobody keeps stdout, lines are printed in the step
they belong to (`PrintsAtOnce`), which only saves states. `state` follows the process: serving, pools
closed, listening socket closed and mutex destroyed, dead. After `myjql_close` a call
either works on the frames, as the code of the pool has it, or crashes; a second
`myjql_close` changes nothing or crashes; locking a destroyed mutex fails without
anybody noticing. The database is a map; `myjql_set` of an existing key is two steps
(`TakeOutOld`, `Set`), since that is where the mutex matters.

**Clients.** `user[c]` holds where a client is, its last request, its variable `code`
and what it told its caller. `Dies` is the end of the process without the destructor,
with any part of a request sent: a kill, or the shell at the end of its input.

Every property has a *faulty variant* of one definition beside it in the module
(`WritePage_Dropped`, `FreeNode_CutsList`, ...): a plausible mistake in the code that
the property notices. `PROJECT.json` pairs them under `mutants`. They are used by
no specification.

## 3. Runs

| run | instance | what it shows |
|---|---|---|
| `pool` | 3 frames, 4 pages, 2 pins per frame, 2 page values | `LruExact`, `LatestSurvives`, `ImplementsPageStore` |
| `block` | page of 16 bytes, header 1, ids of 2 bytes, items of 1 to 3 bytes | `ItemsApart`, `NoHoles`, `ImplementsItemStore` |
| `map` | 4 sizes in 2 directory blocks, 5 addresses, 2 entries per block, 5 frames | `RegisteredOnce`, `BlocksOwnedOnce`, `EmptyIffFree`, `ImplementsFreeSpaceMap`, `PagesHeld` |
| `tree` | `DEGREE` 2; 8 keys in any order, and 19 keys and three levels in three building orders, deletions at both ends, built twice | `TypeOK`, `SearchExact`, `Balanced`, `NodesOwnedOnce`, `StringsOwnedOnce`, `LeavesChained`, `ImplementsKeyIndex`, `FramesFit` |
| `table` | blocks of 8 bytes, header 1, ids of 1 byte, items of 1, 2 and 4 bytes, 3 blocks | `RegisteredTruly`, `RoomForItem`, `NeverOverfull`, `BytesKept`, `GrowsOnlyWhenFull`, `ImplementsItemStore` |
| `store` | chunks of 2 characters; keys of 2 and of 4 characters, values of 0 and 1; one separator at a time, two while the last key goes | `NothingDangles`, `StringsHeldOnce`, `OneRowPerKey`, `ImplementsKeyValue` of `Store`; `ChunksHeldOnce`, `ReadAsWritten`, `ComparesExactly` of `Strings` |
| `system` | 2 clients, 2 requests each out of six, with fairness | `CallsAreAsked`, `ImplementsService`, `Answered`, `LeftThreadsEnd` |
| `system_dying` | 2 clients, 1 request each out of three, each may end at any point | `ConnectedAreServed` |
| `system_stops` | 1 client, 2 requests out of three, a signal on each of the two threads, with fairness | `MutualExclusion`, `SavesFinishedCalls`, `StopsUnlessCircle` |

Why the bounds are enough. *pool*: with three frames there is a first, a middle and
a last position of the recency list, and a fourth page forces evictions while up
to two frames are pinned; a page pinned twice and released once is included. The
proofs remove the bounds. *block*: up to five items fit, so ids run out before
bytes and the other way round; items of different sizes are deleted at both ends
and in the middle. The proofs remove the bounds here too. *map*: a chain of three
blocks has a first, an inner and a last block, and each can become empty;
the instance is used in two
ways, three addresses under any of the four sizes, and five under the two middle
sizes, one in each directory block; addresses are interchangeable (nothing compares
them), which is the symmetry used.
`MaxBlocks` equals the number of addresses and never stops an insertion, since
every block outside the free list holds an address and a block is appended only
when the free list is empty. *tree*: `DEGREE` is 2 in the program itself (128-byte
pages), so nodes have their real size. Eight keys give every case of leaf splits,
borrows, merges and of a root that is split and dropped; three levels need 13
keys, and 19 keys leave inner nodes rows to borrow, so the schedule of 19 keys reaches both
rotations and both merges of inner nodes and inner splits at the left, the middle
and the right; it bounds the orders (three for building; for deleting, one of the two least
keys or the greatest one) rather than the tree: the file may grow by as many nodes and strings as
it needs. The proofs remove the bounds. *table*: seven bytes behind the header hold four
items of one byte or one of each kind, so a block can be too full for an id while it
has room for bytes, and three blocks give the map a choice. *map* and *tree*, frames: `PagesHeld` is
checked with five frames, the fewest with which it holds (with four, the block that
`hash_table_pop` has just released may go when the next one is got), and the program has 16;
`FramesFit` takes the levels of the tree and two, the fewest again, so that 16 frames last for
trees of 14 levels, whose least number of keys is above two million. *store*: the keys are of one chunk and of two, and
start alike, so comparisons end where one string ends with its chunk and the other goes
on; the values are the empty string and part of a chunk; with probes of up to
three characters every way of ending a comparison occurs. Two records and one
separator are enough for a string to have each kind of holder while another call runs
through all its steps. A second separator is allowed while the last key is
deleted, so that one is also copied from another (`CopySeparator`); the proofs have no such bounds. Ten rids are more than the
chunks there can be, so `NewRid` always finds one, and deadlock checking
shows that no call gets stuck. *system*: six requests
are the three kinds, and sets that are refused for a long key and for a long value; strings of
lengths 0 to 3 stand for the lengths that are codes (0, 1, 2, 3), and `MAX_STR_LEN` is
2, so that 3 is too long. The two values of one key have different lengths, which
tells answers apart. *system_dying* has three threads and leaves calls for
nothing behind, several of one thread and of both; *system_stops* has two threads, so that two
signals give both of them a handler, as many as there can be: a handler on the thread whose call is
running, on the other one, and one on each. These are enough for each circle of `StopsUnlessCircle`: the
thread that keeps stdout and the owner of the mutex, which is a call, a call that was interrupted
or a handler. Dying clients are not in *system_stops*, as a fair run would need more than the code
has: a thread whose client has gone may call for nothing again and again, and nothing says that a
handler ever gets the mutex before it. The proofs of `MutualExclusion` and `SavesFinishedCalls`
have no such bounds. Deadlock checking is off where the system may really stop: in
`tree`, whose schedule of 19 keys ends, and in the runs of `System`, where clients leave and
the server waits in `accept`, or is dead. The runs with `SYMMETRY`
(*map* and *system_dying*) check no liveness.

Fairness is assumed in `FairSpec` of `System` only: weak fairness of each thread, of
each handler, of accepting a client and of what a client does until it has its
answer. It says that the operating system schedules every thread that does not wait
and delivers what was sent. A thread waiting for the mutex gets it under weak
fairness because a client makes boundedly many requests (`MaxAsks`), so the mutex
stays free at last; nothing is assumed of callers, signals or the ends of processes. `Answered`
is about strings that are not empty, the only ones in `Request`. `recv` of no bytes waits
until something arrives, and after the last string of a request nothing does, so a request that
ends in an empty string may hang; the shell cannot produce one.

### Where the code does not do what it says

Three runs end in a violation. Each checks one property that a comment or message of
the code states.

| run | property | what TLC shows |
|---|---|---|
| `phantom_call` | `CallsAreAsked` | a client that ends without its destructor leaves a thread that takes the last code for a command: after an answered set it sets a key of one byte that was never sent (`myjqlserver.c:123`; the answer to it then ends the server by SIGPIPE) |
| `signal_on_owner` | `SignalStops` | SIGINT on the thread that owns the mutex: the handler waits for its own thread (`myjqlserver.c:407`) |
| `ok_not_received` | `OkIsReceived` | the server is gone, `recv` returns 0, and the length 1 of the value is read as the answer 1 (`myjqlclient.cpp:235`) |

`system_dying` is the counterpart of the first one (clients that are connected are not
affected in what their threads call for, though the garbage key is in the database),
and `StopsUnlessCircle` that of the second. `WaitsForItself` is the list of all ways in which a signal
fails to stop the server, among the locks that the model has. There is one more than the run shows:
SIGINT inside the `printf` of a thread that does not own the mutex. Its handler waits for the mutex
at `myjqlserver.c:407`, and the owner waits for stdout in the `printf` before it unlocks
(`myjqlserver.c:171, 298, 356`).

## 4. Proofs

TLAPS checks these for all values of the constants that satisfy the named
assumptions (`PoolAssumption`, `BlockAssumption`, `MapAssumption`, `TreeAssumption`, `TableAssumption`,
`StoreAssumption`, `StringsAssumption`, `ServerAssumption`, `ClientsAssumption`); TLC checks the
same properties on the instances above, except `PinnedStays`, `StringsImplementStore` and the type
invariants of the proved modules, which are only proved.

* `BufferPoolProofs`: `TypeCorrect`, `LruIsExact`, `PinnedPagesStay`,
  `LatestPageSurvives` and `PoolImplementsPageStore`. The invariant is `IInv`.
  `LruExact` alone is not inductive: taking an empty frame drops the last entry of
  the list, which is harmless only because the empty frames are the last ones and
  as many entries at the end of the list are empty (`EmptyFramesLast`). The
  refinement needs that resident pages exist in the file (`ResidentInFile`) and
  that a closed pool agrees with its file (`ClosedIsClean`), because `Open` forgets
  the frames.
* `BlockProofs`: `ItemsStayApart`, `NothingLost` and `BlockImplementsItemStore`. The
  invariant is `TypeOK /\ ItemsApart /\ NoHoles`; that items are apart from each
  other is what makes "every item that starts below the gap" the same as "every
  item that ends at or below the gap" in `delete_item`.
* `StructureProofs`: lemmas only. `ListFrom` follows a list for a number of rounds; that
  it meets all of it (`ListFromIs`), and what happens to a list when a block is put in front,
  unlinked, or the links of other blocks change, is proved here once for the chains of
  `HashMap`, the strings of `Strings` and the free nodes of `BTree`. Its second part is about the
  *places* of the nodes of a tree: a place is a level and a range of keys, and `Tiled` says that
  on every level every key is in the range of exactly one node. Splitting a place, joining two
  neighbours, moving the bound between them, and adding or removing a root keep that
  (`TileSplit`, `TileJoin`, `ShiftIs`, `TileAbove`, `TileBelow`), and keep the chain of leaves
  (`ChainSplit`, `ChainJoin`, `ChainShift`).
* `HashMapProofs`: `MapSound`, `EveryBlockOwnedOnce`, `NoEmptyBlockInChain`, `NoDuplicateAddr` and
  `MapImplements`. The invariant `IInv` says how the file is cut into lists: each list ends where
  the file says (`Linked`), the lists share no block and leave none out, exactly the free blocks
  are empty, and blocks behind the end are as `Init` left them. That a search of a chain misses
  nothing, and with it the refinement of `FreeSpaceMap`, follows from `Linked`; that unlinking
  a block touches only one list follows from `BlocksOwnedOnce`.
* `BTreeProofs`: `TreeIsWhole`, `SearchIsExact`, `StaysBalanced`, `StringsStayOwned`,
  `LeavesStayChained`, `NodesStayOwned`, `TypeCorrect` and `TreeIsKeyIndex`, for any `DEGREE` of at
  least 2, any number of keys and trees of any height. None of the properties is inductive. The
  invariant, `TreeInv`, is that there are places `g` for the nodes of the tree with which it is
  `Whole`: they tile the keys; the rows of a leaf are in order and within its range; the rows of an
  inner node are strings equal to the bounds between its children (`NodeFits`); each string is a row
  of one inner node (`Owned`); the next pointer of a leaf leads to the one whose range begins where
  its own ends (`Chained`); all other nodes are empty and on the free list (`Spare`); and every node
  but the root has at least `DEGREE` rows (`Sized`). The places are not in the program. They are what
  its comments call the range of a subtree, and with them a call can be followed without
  a word about paths: a split, a loan or a merge replaces one or two places.

  In the middle of a call the tree is not whole, so `Good` and `Sized` have parameters for what is
  pending. After a split below, the tree is `Good` but for the parent of the two halves and the one
  string that is in no row yet (`Parted`, `UpStays`). After a deletion all nodes but one have enough
  rows, and `Mended` says that what the parent does about it, by any of the eight branches of
  `MendLeaf` and `MendInner`, leaves, once the row that a merge has made void is dropped, a good tree
  in which only the parent may lack a row. The three recursions are then one induction each, over the level of the node
  (`AllNat`): with `SearchIs`, `PutIs` and `DropIs` a call is the last element of a sequence of
  functions, each defined from the one before. That the number of nodes is enough
  levels is `HeightFits`: on every level there is a node, so there are fewer levels than nodes.
  Last, `PartsAre` says that the walk from the root (`Level`), in which the
  properties are stated, meets exactly the nodes that have places.
* `TableProofs`: `MapIsTrue`, `BlockHasRoom`, `NoBlockOverfull`, `FileGrowsOnlyWhenFull`, `NoByteLost`
  and `TableImplementsItemStore`. The invariant joins the properties with what the
  running call knows (`CallOK`): the block a deletion took out of the map still has the
  item, no block had room when a new one is filled. Each property needs the others: a
  block handed out has room because it is registered truly, and it is registered truly
  because a full block is never filled further. `NoByteLost` is by induction over the ids of a
  block (`Bytes`): an insertion or deletion changes one summand.
* `StoreProofs`, first part: `TypeCorrect`, `NothingEverDangles`, `EveryStringHeldOnce`,
  `KeysAreUnique` and `StoreImplementsKeyValue`, for any keys, values and rids and whatever
  the index does with its separators. The invariant joins the properties with what the
  running call knows: what its locals are at each place (`CallOK`), that the key it is about to
  write is in no row (`KeyGone`), and that the strings it holds are those it was asked
  for (`Meant`). None of the properties is inductive alone: that a deletion
  leaves nothing dangling is that the string had one holder, and that is
  kept because what a call writes goes where nothing is. `OthersKept` and `HandedOver`
  say once what every step does to the strings of the records it does not touch.
* `StoreProofs`, second part, about `Strings`: `StringsImplementStore`, `ChunksAreHeldOnce`,
  `StringsReadAsWritten` and `StringsCompareExactly`, for chunks and strings of any length over
  signed characters, up to the `MAX_STR_LEN` that the server checks. `Split` says how a string
  is cut, `Carries(t, s, c, x)` that string `x` is in table `t` from rid `s` on, in the chunks of
  the list `c`. The four loops are proved against it: `WriteIs`, `LoadIs`, `CompareIs` and
  `DeleteIs`, the reading ones by `Stands`, where a `StringRecord` is after so many characters.
  The invariant adds to that of `Store` that every string is in chunks of its own and every
  chunk is of a string (`InChunks`). It needs `Store`'s, since a deletion or a copy must meet a
  string that is there; in return every theorem about `Store` holds with strings in chunks.
* `SystemProofs`: `OneThreadInside` and `ShutdownSavesFinishedCalls`, for any number of
  clients and signals and with clients that end anywhere. Mutual exclusion is not
  inductive: the owner of the mutex must be the one inside (`OwnerInside`), no handler
  may be past the closing while the state is "serving" (`NotPastClosing`), and a handler
  and the call it interrupted have the same thread, so the owner does not tell them
  apart: that a thread whose handler closes was not calling (`NotBoth`) is a conjunct of
  its own, and the one that `ShutdownSavesFinishedCalls` rests on.

  `CallsForWhatIsAsked` (for `Dying = {}`) and `ServesTheConnected` (for any clients) rest on
  `InStep`: as long as the process lives, each client and its thread are in one of the stages
  `Related` lists, from not connected to gone, and in each of them what is on the wire is
  exactly the rest of the request or of the answer. This is what the protocol relies on without
  saying so: lengths, commands and answers are numbers in one variable, and only the stage
  tells them apart. `SystemServes`, for `Dying = {}` and `MaxSignals = 0`, adds that a value on its way
  has the length that was sent before it (`Measured`), and shows that every step is one of
  `Service` or none. With signals the refinement does not hold (a call may find the pools closed),
  and with dying clients the run `phantom_call` refutes `CallsAreAsked`; both hypotheses are the
  configuration of run `system`.

Loops are proved by induction over the number of rounds, with the well-ordering of the natural
numbers (`LeastNat`, `AllNat` in `StructureProofs`), since the induction rules of the library take an
operator.

Only model-checked: `PagesHeld` and `FramesFit`. What the calls do to their pool is written down
and played with RECURSIVE operators, for which TLAPS has no SMT backend. Of `System`, liveness
(`Answered`, `LeftThreadsEnd`, `StopsUnlessCircle`), which needs fairness and so ENABLED.

## 5. Not modelled

Not promised by the code, hence not modelled: recovery from a crash (no log, pages
written in no particular order), failing system calls (their results are ignored),
files whose length is not a multiple of the page size.

Left out of the modules above: `print_*` and commented-out code; the width of
`short` and `off_t`, since offsets are below 128 and file sizes far below 2^63.

Also left out: the Windows build, failures to create sockets or threads, and memory (the key
that is not freed at `myjqlserver.c:254`). Of the locks inside the C library only stdout's is
modelled, with an owner that may lock it again, as on Linux: a signal inside `malloc` or `free`,
and what the handler's `printf` or `free` does to data that the interrupted call was changing, are
not. `exit` is taken not to wait for stdout; `StopsUnlessCircle` does not rest on this, since a
handler on the thread that keeps stdout reaches `exit` itself when no thread waits for itself.

What the code does and the modules do not say: keys and values that arrive in
parts (`myjqlserver.c:142`, `myjqlclient.cpp:188`). What the receiver takes next for a length
or a command is then four bytes out of the middle of a string, so a model would have to be
one of bytes, or say no more than that anything may follow. Strings are at most a few
bytes long in the requests of the shell, and neither side tries to handle the case.
