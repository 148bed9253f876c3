------------------------------ MODULE Strings ------------------------------
(***************************************************************************)
(* The strings of the database in the string table (str.c): chains of      *)
(* chunks, each an item of the table, named by the rid of the first one.   *)
(* The module is Store with every string in its chunks: chunks is tbl_str  *)
(* as it really is, text what Store makes of it.                           *)
(*                                                                         *)
(* Rids are only compared with the null rid, here None, so it makes no     *)
(* difference which free rid a table gives out; it is the least one, which *)
(* a deletion makes available again at once.                               *)
(***************************************************************************)
EXTENDS Store, LinkedLists, SequencesExt

CONSTANTS
    STR_CHUNK_MAX_LEN,  \* characters of a chunk
    MAX_STR_LEN,        \* the longest string the handlers and the server load
    MaxRecords,         \* bound on the keys at a time
    MaxSeparators,      \* bound on the rows of inner nodes at a time
    Probe               \* the strings that are searched for

Char == -128 .. 127

(* An item of the string table: the rid of the next chunk, and characters. *)
Chunk == [rid : Rid \cup {None}, data : Seq(Char)]

ASSUME StringsAssumption ==
    /\ STR_CHUNK_MAX_LEN \in Nat \ {0}
    /\ MAX_STR_LEN \in Nat
    /\ Rid \subseteq Nat /\ IsFiniteSet(Rid)
    /\ None \notin Chunk
    /\ Key \cup Value \cup Probe \subseteq Seq(Char)
    /\ \A x \in Key \cup Value : Len(x) <= MAX_STR_LEN

VARIABLE chunks  \* the chunks of the string table

-----------------------------------------------------------------------------
(* table_insert: the rid of a new item.                                    *)
FreeRids(t) == {r \in Rid : t[r] = None}

NewRid(t) == LET free == FreeRids(t) IN CHOOSE r \in free : \A q \in free : r <= q

(* Faulty variant: a size that is a multiple ends with an empty chunk.     *)
LastLen_Empty(size) == size % STR_CHUNK_MAX_LEN

(* How much of a string goes into its last chunk.                          *)
LastLen(size) ==
    IF size # 0 /\ size % STR_CHUNK_MAX_LEN = 0 THEN STR_CHUNK_MAX_LEN
    ELSE size % STR_CHUNK_MAX_LEN

(* A string from its last chunk to its first.                              *)
Pieces(x) ==
    LET rest == Len(x) - LastLen(Len(x)) IN
      <<SubSeq(x, rest + 1, Len(x))>>
        \o [i \in 1 .. rest \div STR_CHUNK_MAX_LEN |->
              SubSeq(x, rest - i * STR_CHUNK_MAX_LEN + 1, rest - (i - 1) * STR_CHUNK_MAX_LEN)]

PutChunk(w, data) ==
    LET r == NewRid(w.table) IN
      [table |-> [w.table EXCEPT ![r] = [rid |-> w.rid, data |-> data]], rid |-> r]

write_string(t, x) ==
    LET put[n \in 0 .. Len(Pieces(x))] ==
          IF n = 0 THEN [table |-> t, rid |-> None] ELSE PutChunk(put[n - 1], Pieces(x)[n])
    IN  put[Len(Pieces(x))]

(* Faulty variant: only the first chunk is deleted.                        *)
delete_string_First(t, s) == [t EXCEPT ![s] = None]

DeleteChunk(w) ==
    IF w.rid = None THEN w
    ELSE [table |-> [w.table EXCEPT ![w.rid] = None], rid |-> w.table[w.rid].rid]

(* A loop is the state of its locals after every round; delete_string goes *)
(* round at most once for every chunk there is.                            *)
delete_string(t, s) ==
    LET after[n \in 0 .. Cardinality(Rid)] ==
          IF n = 0 THEN [table |-> t, rid |-> s] ELSE DeleteChunk(after[n - 1])
    IN  after[Cardinality(Rid)].table

-----------------------------------------------------------------------------
(* StringRecord: a chunk and how much of it has been read.                 *)
read_string(t, s) == [chunk |-> t[s], idx |-> 0]

has_next_char(a) == a.idx # Len(a.chunk.data) \/ a.chunk.rid # None

(* Behind the end of a chunk is whatever the record held before.           *)
CharAt(a) == IF a.idx < Len(a.chunk.data) THEN a.chunk.data[a.idx + 1] ELSE 0

(* The record next_char reads from, and the record after it.               *)
Ready(t, a) == IF a.idx # Len(a.chunk.data) THEN a ELSE read_string(t, a.chunk.rid)

next_char(t, a) == CharAt(Ready(t, a))

Advance(t, a) == [Ready(t, a) EXCEPT !.idx = @ + 1]

LoadNext(t, w) ==
    IF has_next_char(w.record)
    THEN [record |-> Advance(t, w.record), dest |-> Append(w.dest, next_char(t, w.record))]
    ELSE w

load_string(t, a, max_size) ==
    LET after[n \in 0 .. max_size] ==
          IF n = 0 THEN [record |-> a, dest |-> <<>>] ELSE LoadNext(t, after[n - 1])
    IN  after[max_size].dest

(* Faulty variant: a string is equal to every longer one it starts.        *)
AtAnEnd_Equal(a, b) == 0

(* One of the strings is at its end.                                       *)
AtAnEnd(a, b) == IF has_next_char(a) THEN 1 ELSE IF has_next_char(b) THEN -1 ELSE 0

(* A round of the comparison: ans is set in the last one.                  *)
CompareNext(t, w) ==
    LET x == next_char(t, w.aa)
        y == next_char(t, w.bb)
    IN  IF w.done THEN w
        ELSE IF ~has_next_char(w.aa) \/ ~has_next_char(w.bb)
        THEN [w EXCEPT !.ans = AtAnEnd(w.aa, w.bb), !.done = TRUE]
        ELSE IF x = y
        THEN [w EXCEPT !.aa = Advance(t, w.aa), !.bb = Advance(t, w.bb)]
        ELSE [w EXCEPT !.ans = IF x < y THEN -1 ELSE 1, !.done = TRUE]

(* One of the two is in the database, so the rounds are no more than that. *)
compare_string_record(t, a, b) ==
    LET after[n \in 0 .. MAX_STR_LEN + 1] ==
          IF n = 0 THEN [aa |-> a, bb |-> b, ans |-> 0, done |-> FALSE]
          ELSE CompareNext(t, after[n - 1])
    IN  after[MAX_STR_LEN + 1].ans

-----------------------------------------------------------------------------
(* myjql.c.  The comparison of two rows, given by their strings, and of a  *)
(* key with a row, for which the key is written into the table and deleted *)
(* again.                                                                  *)
rid_row_row_cmp(t, s, q) == compare_string_record(t, read_string(t, s), read_string(t, q))

rid_ptr_row_cmp(t, x, q) ==
    LET w == write_string(t, x) IN
      [ans |-> rid_row_row_cmp(w.table, w.rid, q), table |-> delete_string(w.table, w.rid)]

Written(x) == write_string(chunks, x)

Loaded(q) == load_string(chunks, read_string(chunks, q), MAX_STR_LEN)

(* Named bounds: the rids, and the rows of inner nodes.                    *)
RoomFor(x) == Len(Pieces(x)) <= Cardinality(FreeRids(chunks))

RoomForSeparator == Cardinality(separators) < MaxSeparators

Deletes(s) == chunks' = delete_string(chunks, s)

StringsInit == Init /\ chunks = [r \in Rid |-> None]

WriteStep ==
    \/ /\ At("write_key") /\ RoomFor(call.key)
       /\ LET w == Written(call.key) IN WriteKey(w.rid) /\ chunks' = w.table
    \/ /\ At("write_value") /\ RoomFor(call.value)
       /\ LET w == Written(call.value) IN WriteValue(w.rid) /\ chunks' = w.table

(* insert_handler writes a copy of the string of q.                        *)
Copied(q) == Written(Loaded(q))

CanCopy(q) == RoomForSeparator /\ RoomFor(Loaded(q))

CopyStep ==
    \/ /\ At("index")
       /\ \E r \in leaves \cup {call.rid} :
            LET w == Copied(records[r].key) IN
              CanCopy(records[r].key) /\ SplitLeaf(r, w.rid) /\ chunks' = w.table
    \/ /\ At("rebalance")
       /\ \/ \E r \in leaves :
               LET w == Copied(records[r].key) IN
                 CanCopy(records[r].key) /\ CopyRow(r, w.rid) /\ chunks' = w.table
          \/ \E q \in separators :
               LET w == Copied(q) IN
                 CanCopy(q) /\ CopySeparator(q, w.rid) /\ chunks' = w.table

DeleteStep ==
    \/ \E q \in separators : delete_handler(q) /\ Deletes(q)
    \/ DeleteKey /\ Deletes(call.record.key)
    \/ DeleteValue /\ Deletes(call.record.value)

OtherStep ==
    /\ \/ \E k \in Key :
            \/ myjql_get(k)
            \/ myjql_del(k)
            \/ /\ Cardinality(leaves) < MaxRecords \/ Found(k) # {}
               /\ \E v \in Value : myjql_set(k, v)
       \/ FreeRids(records) # {} /\ write_record(NewRid(records))
       \/ b_tree_insert \/ RemoveRow \/ Balanced \/ read_record \/ delete_record
    /\ UNCHANGED chunks

StringsNext == WriteStep \/ CopyStep \/ DeleteStep \/ OtherStep

StringsSpec == StringsInit /\ [][StringsNext]_<<vars, chunks>>

-----------------------------------------------------------------------------
Texts == {s \in Rid : text[s] # None}

(* The chunks of a string, as delete_string meets them.                    *)
NextOf(t) == [r \in Rid |-> IF t[r] = None THEN None ELSE t[r].rid]

Chain(s) == ListFrom(NextOf(chunks), s, None, Cardinality(Rid))

(* The chunks in the table are those of the strings in the table, each of  *)
(* one string and once: no chunk is lost when a string is deleted, also    *)
(* one whose length is a multiple of the size of a chunk (str.c:84-101),   *)
(* and no string runs into another.                                        *)
ChunksHeldOnce ==
    /\ \A s \in Texts : IsInjective(Chain(s))
    /\ \A s, q \in Texts : s # q => ToSet(Chain(s)) \cap ToSet(Chain(q)) = {}
    /\ UNION {ToSet(Chain(s)) : s \in Texts} = {r \in Rid : chunks[r] # None}

(* A string reads as it was written, however many chunks it has and        *)
(* whatever was deleted before, and load_string stops at its limit.        *)
ReadAsWritten ==
    \A s \in Texts : \A m \in 0 .. MAX_STR_LEN :
      load_string(chunks, read_string(chunks, s), m)
        = SubSeq(text[s], 1, IF m < Len(text[s]) THEN m ELSE Len(text[s]))

(* The index compares in lexicographic order, also strings of which one    *)
(* ends where a chunk of the other does (str.c:31-53), and a search leaves *)
(* the string table as it found it (myjql.c:48-64).                        *)
Less(x, y) ==
    \E i \in 1 .. Len(y) :
      /\ \A j \in 1 .. i - 1 : j <= Len(x) /\ x[j] = y[j]
      /\ i > Len(x) \/ x[i] < y[i]

Order(x, y) == IF x = y THEN 0 ELSE IF Less(x, y) THEN -1 ELSE 1

ComparesExactly ==
  At("idle") \/ At("index") \/ At("unindex") =>
    \A s \in Texts :
      /\ \A q \in Texts : rid_row_row_cmp(chunks, s, q) = Order(text[s], text[q])
      /\ \A x \in Probe : RoomFor(x) =>
           rid_ptr_row_cmp(chunks, x, s) = [ans |-> Order(x, text[s]), table |-> chunks]
=============================================================================
