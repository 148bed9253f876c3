------------------------------- MODULE Store -------------------------------
(***************************************************************************)
(* The database (myjql.c): a record per key in one table, keys and values  *)
(* as strings in another, and an index over the records.  The tables are   *)
(* what ItemStore promises, something under a rid that nothing else has    *)
(* until it is deleted; the index is a B-tree, of which this module keeps  *)
(* what it holds: rids of records in its leaves, and in its inner nodes    *)
(* rids of strings that insert_handler wrote.  Strings are whole here;     *)
(* Strings cuts them into chunks.                                          *)
(*                                                                         *)
(* The server makes one call at a time.  A call is split into the steps    *)
(* that change a table or the index, because each of them is right only in *)
(* its place: the index compares through the rids it holds, so a record    *)
(* or a string that is deleted early is read after it is gone.             *)
(***************************************************************************)
CONSTANTS
    Key,
    Value,
    Rid,   \* the rids a table can give out
    None   \* no string, no record, no rid

Record == [key : Rid, value : Rid]

ASSUME StoreAssumption ==
    /\ None \notin Key \cup Value
    /\ None \notin Rid
    /\ None \notin Record

VARIABLES
    records,     \* tbl_rec
    text,        \* tbl_str
    leaves,      \* the rows of the leaves of the index
    separators,  \* the rows of its inner nodes
    call,        \* the running call: what it is, where it is, and its locals
    answer       \* what myjql_get returned, until the index changes

vars == <<records, text, leaves, separators, call, answer>>

NoRecord == [key |-> None, value |-> None]

Idle == [op |-> "none", at |-> "idle", key |-> None, value |-> None,
         rid |-> None, record |-> NoRecord]

(* myjql_init on files it creates.                                         *)
Init ==
    /\ records = [r \in Rid |-> None]
    /\ text = [s \in Rid |-> None]
    /\ leaves = {}
    /\ separators = {}
    /\ call = Idle
    /\ answer = None

At(l) == call.at = l

GoesTo(l) == call' = [call EXCEPT !.at = l]

(* The key of a row of a leaf.                                             *)
KeyOf(r) == text[records[r].key]

(* Faulty variant: a search that never finds anything.                     *)
Found_Nothing(k) == {}

(* What b_tree_search finds: the row whose key is k.                       *)
Found(k) == {r \in leaves : KeyOf(r) = k}

-----------------------------------------------------------------------------
(* write_string and delete_string on tbl_str.                              *)
WriteString(s, x) == text[s] = None /\ text' = [text EXCEPT ![s] = x]

DeleteString(s) == text' = [text EXCEPT ![s] = None]

-----------------------------------------------------------------------------
(* A call starts with a search.                                            *)
myjql_get(k) ==
    /\ At("idle")
    /\ \/ Found(k) = {} /\ answer' = None
       \/ \E r \in Found(k) : answer' = text[records[r].value]
    /\ UNCHANGED <<records, text, leaves, separators, call>>

(* A new key.                                                              *)
SetNew(k, v) ==
    /\ At("idle")
    /\ Found(k) = {}
    /\ call' = [Idle EXCEPT !.op = "set", !.at = "write_key", !.key = k, !.value = v]
    /\ UNCHANGED <<records, text, leaves, separators, answer>>

(* A key that has a value: its record is read before it leaves the index.  *)
SetFound(k, v) ==
    /\ At("idle")
    /\ \E r \in Found(k) :
         call' = [op |-> "set", at |-> "unindex", key |-> k, value |-> v,
                  rid |-> r, record |-> records[r]]
    /\ UNCHANGED <<records, text, leaves, separators, answer>>

myjql_set(k, v) == SetNew(k, v) \/ SetFound(k, v)

myjql_del(k) ==
    /\ At("idle")
    /\ \E r \in Found(k) :
         call' = [op |-> "del", at |-> "unindex", key |-> k, value |-> None,
                  rid |-> r, record |-> NoRecord]
    /\ UNCHANGED <<records, text, leaves, separators, answer>>

-----------------------------------------------------------------------------
(* A record is made and put into the index.                                *)
WriteKey(s) ==
    /\ At("write_key")
    /\ WriteString(s, call.key)
    /\ call' = [call EXCEPT !.at = "write_value", !.record.key = s]
    /\ UNCHANGED <<records, leaves, separators, answer>>

WriteValue(s) ==
    /\ At("write_value")
    /\ WriteString(s, call.value)
    /\ call' = [call EXCEPT !.at = "write_record", !.record.value = s]
    /\ UNCHANGED <<records, leaves, separators, answer>>

write_record(r) ==
    /\ At("write_record")
    /\ records[r] = None
    /\ records' = [records EXCEPT ![r] = call.record]
    /\ call' = [call EXCEPT !.at = "index", !.rid = r]
    /\ UNCHANGED <<text, leaves, separators, answer>>

b_tree_insert ==
    /\ At("index")
    /\ leaves' = leaves \cup {call.rid}
    /\ call' = Idle
    /\ answer' = None
    /\ UNCHANGED <<records, text, separators>>

(* insert_handler writes a copy of the key of a row for an inner node.     *)
insert_handler(x, s) ==
    /\ WriteString(s, x)
    /\ separators' = separators \cup {s}

(* b_tree_insert splits a leaf; the key of one of its rows moves up.       *)
SplitLeaf(r, s) ==
    /\ At("index")
    /\ r \in leaves \cup {call.rid}
    /\ insert_handler(KeyOf(r), s)
    /\ leaves' = leaves \cup {call.rid}
    /\ call' = Idle
    /\ answer' = None
    /\ UNCHANGED records

-----------------------------------------------------------------------------
(* Faulty variant: the record keeps its row until it is written again.     *)
RemoveRow_OnlyDel ==
    /\ At("unindex")
    /\ leaves' = IF call.op = "del" THEN leaves \ {call.rid} ELSE leaves
    /\ GoesTo("rebalance")
    /\ answer' = None
    /\ UNCHANGED <<records, text, separators>>

(* A record is taken out of the index: b_tree_delete removes its row and   *)
(* may then replace and drop separators, by copies of keys of rows or of   *)
(* other separators.                                                       *)
RemoveRow ==
    /\ At("unindex")
    /\ leaves' = leaves \ {call.rid}
    /\ GoesTo("rebalance")
    /\ answer' = None
    /\ UNCHANGED <<records, text, separators>>

CopyRow(r, s) ==
    /\ At("rebalance")
    /\ r \in leaves
    /\ insert_handler(KeyOf(r), s)
    /\ UNCHANGED <<records, leaves, call, answer>>

CopySeparator(q, s) ==
    /\ At("rebalance")
    /\ q \in separators
    /\ insert_handler(text[q], s)
    /\ UNCHANGED <<records, leaves, call, answer>>

delete_handler(q) ==
    /\ At("rebalance")
    /\ q \in separators
    /\ DeleteString(q)
    /\ separators' = separators \ {q}
    /\ UNCHANGED <<records, leaves, call, answer>>

(* myjql_del reads the record now, myjql_set has.                          *)
Balanced ==
    /\ At("rebalance")
    /\ GoesTo(IF call.op = "del" THEN "read_record" ELSE "delete_record")
    /\ UNCHANGED <<records, text, leaves, separators, answer>>

read_record ==
    /\ At("read_record")
    /\ call' = [call EXCEPT !.at = "delete_record", !.record = records[call.rid]]
    /\ UNCHANGED <<records, text, leaves, separators, answer>>

(* Faulty variant: the old value is forgotten.                             *)
delete_record_KeepsValue ==
    /\ At("delete_record")
    /\ records' = [records EXCEPT ![call.rid] = None]
    /\ GoesTo(IF call.op = "del" THEN "delete_key" ELSE "write_value")
    /\ UNCHANGED <<text, leaves, separators, answer>>

delete_record ==
    /\ At("delete_record")
    /\ records' = [records EXCEPT ![call.rid] = None]
    /\ GoesTo(IF call.op = "del" THEN "delete_key" ELSE "delete_value")
    /\ UNCHANGED <<text, leaves, separators, answer>>

DeleteKey ==
    /\ At("delete_key")
    /\ DeleteString(call.record.key)
    /\ GoesTo("delete_value")
    /\ UNCHANGED <<records, leaves, separators, answer>>

(* myjql_set keeps the key and goes on with the new value.                 *)
DeleteValue ==
    /\ At("delete_value")
    /\ DeleteString(call.record.value)
    /\ IF call.op = "del" THEN call' = Idle ELSE GoesTo("write_value")
    /\ UNCHANGED <<records, leaves, separators, answer>>

Next ==
    \/ \E k \in Key : myjql_get(k) \/ myjql_del(k) \/ \E v \in Value : myjql_set(k, v)
    \/ \E s \in Rid : WriteKey(s) \/ WriteValue(s)
    \/ \E r \in Rid : write_record(r) \/ \E s \in Rid : SplitLeaf(r, s)
    \/ b_tree_insert
    \/ RemoveRow
    \/ \E q, s \in Rid : CopyRow(q, s) \/ CopySeparator(q, s)
    \/ \E q \in Rid : delete_handler(q)
    \/ Balanced \/ read_record \/ delete_record \/ DeleteKey \/ DeleteValue

Spec == Init /\ [][Next]_vars

-----------------------------------------------------------------------------
Locations ==
    {"idle", "write_key", "write_value", "write_record", "index", "unindex", "rebalance",
     "read_record", "delete_record", "delete_key", "delete_value"}

TypeOK ==
    /\ records \in [Rid -> Record \cup {None}]
    /\ text \in [Rid -> Key \cup Value \cup {None}]
    /\ leaves \subseteq Rid
    /\ separators \subseteq Rid
    /\ call \in [op : {"none", "set", "del"}, at : Locations,
                 key : Key \cup {None}, value : Value \cup {None}, rid : Rid \cup {None},
                 record : [key : Rid \cup {None}, value : Rid \cup {None}]]
    /\ answer \in Value \cup {None}

(* Strings are held by a field of a record, of the tables or, under None,  *)
(* of the running call as long as it has strings that no record has.       *)
Field == {"key", "value"}

CallHolds(f) ==
    \/ At("write_value") /\ f = "key"
    \/ At("write_record")
    \/ At("delete_key")
    \/ At("delete_value") /\ (f = "value" \/ call.op = "set")

Held(r, f) ==
    IF r = None THEN IF CallHolds(f) THEN call.record[f] ELSE None
    ELSE IF records[r] = None THEN None
    ELSE records[r][f]

(* The record the running call has in the tables but not in the index.     *)
CallRecord == IF At("index") \/ At("rebalance") \/ At("read_record") \/ At("delete_record")
              THEN {call.rid} ELSE {}

(* Whatever the index, a record or the running call refers to is there: no *)
(* comparison and no handler reads a record or a string that has been      *)
(* deleted, in whatever order keys are set, replaced and deleted           *)
(* (myjql.c:124-147).                                                      *)
NothingDangles ==
    /\ leaves \cup CallRecord = {r \in Rid : records[r] # None}
    /\ \A r \in Rid \cup {None}, f \in Field : Held(r, f) # None => text[Held(r, f)] # None
    /\ \A q \in separators : text[q] # None

(* Every string in the table has one holder, a field or the inner nodes of *)
(* the index: nothing is left behind by any sequence of calls, and nothing *)
(* that is deleted on one path is still needed on another.                 *)
StringsHeldOnce ==
    /\ \A r, q \in Rid \cup {None}, f, g \in Field :
         Held(r, f) # None /\ Held(r, f) = Held(q, g) => r = q /\ f = g
    /\ \A r \in Rid \cup {None}, f \in Field : Held(r, f) \notin separators
    /\ \A s \in Rid :
         text[s] # None =>
           s \in separators \/ \E r \in Rid \cup {None}, f \in Field : Held(r, f) = s

(* No two rows of the index have the same key, also while a key gets a new *)
(* value; b_tree_delete takes away the first row it meets with the key.    *)
OneRowPerKey == \A r, q \in leaves : KeyOf(r) = KeyOf(q) => r = q

(* The value of every key, as it is found through the index.               *)
Stored == [k \in Key |->
             IF Found(k) = {} THEN None
             ELSE text[records[CHOOSE r \in Found(k) : TRUE].value]]

(* Seen through the index, records and strings are the map that KeyValue   *)
(* promises: it changes only at the steps that change the leaves, each     *)
(* time as the call asks, and a get returns what was set last.             *)
Map == INSTANCE KeyValue WITH store <- Stored

ImplementsKeyValue ==
    /\ Map!Spec
    /\ [][/\ leaves' \ leaves # {} => Map!Put(call.key, call.value)
          /\ RemoveRow => Map!Remove(call.key)]_vars
=============================================================================
