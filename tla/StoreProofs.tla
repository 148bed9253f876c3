---------------------------- MODULE StoreProofs ----------------------------
(***************************************************************************)
(* Proofs about Store, for any keys, values and rids, and about Strings,   *)
(* for strings and chunks of any length.                                   *)
(***************************************************************************)
EXTENDS Strings, StructureProofs

(* What the locals of the running call are worth at each of its steps.     *)
NewRecord(r) ==
    /\ r \in Record
    /\ text[r.key] = call.key
    /\ text[r.value] = call.value

Asked ==
    /\ call.key \in Key
    /\ call.op = "set" => call.value \in Value
    /\ call.op \in {"set", "del"}
    /\ At("write_key") \/ At("write_value") \/ At("write_record") \/ At("index") => call.op = "set"
    /\ At("read_record") \/ At("delete_key") => call.op = "del"

OldRecord(r) ==
    /\ call.rid \in Rid
    /\ r \in Record
    /\ records[call.rid] = r
    /\ text[r.key] = call.key

CallOK ==
    /\ ~At("idle") => Asked
    /\ At("write_value") \/ (At("delete_value") /\ call.op = "set") =>
         call.record.key \in Rid /\ text[call.record.key] = call.key
    /\ At("write_record") => NewRecord(call.record)
    /\ At("index") => call.rid \in Rid \ leaves /\ NewRecord(records[call.rid])
    /\ At("unindex") => call.rid \in leaves
    /\ At("unindex") \/ At("rebalance") \/ At("read_record") \/ At("delete_record") =>
         OldRecord(records[call.rid])
    /\ At("rebalance") \/ At("read_record") \/ At("delete_record") => call.rid \notin leaves
    /\ ((At("unindex") \/ At("rebalance")) /\ call.op = "set") \/ At("delete_record") =>
         call.record = records[call.rid]
    /\ At("delete_key") \/ At("delete_value") => call.record \in Record

(* The key of a call has no row, but while its old row is taken out.       *)
KeyGone == At("idle") \/ At("unindex") \/ \A r \in leaves : KeyOf(r) # call.key

(* Records have keys and values.                                           *)
Meant ==
    \A r \in Rid : records[r] # None =>
      records[r] \in Record /\ text[records[r].key] \in Key /\ text[records[r].value] \in Value

IInv ==
    /\ TypeOK
    /\ NothingDangles
    /\ StringsHeldOnce
    /\ OneRowPerKey
    /\ CallOK
    /\ KeyGone
    /\ Meant

Owner == Rid \cup {None}

-----------------------------------------------------------------------------
LEMMA InitHolds == Init => IInv
<1> SUFFICES ASSUME Init PROVE IInv
  OBVIOUS
<1> USE StoreAssumption DEF Init, Idle, NoRecord, At
<1>1. TypeOK
  BY DEF TypeOK, Locations
<1>2. \A r \in Owner, f \in Field : Held(r, f) = None
  BY DEF Owner, Field, Held, CallHolds
<1>3. NothingDangles
  BY <1>2 DEF NothingDangles, CallRecord, Owner
<1>4. StringsHeldOnce
  BY <1>2 DEF StringsHeldOnce, Owner
<1> QED
  BY <1>1, <1>3, <1>4 DEF IInv, OneRowPerKey, CallOK, KeyGone, Meant

-----------------------------------------------------------------------------
(* Types.                                                                  *)
LEMMA TypeKept == ASSUME IInv, Next PROVE TypeOK'
<1> USE StoreAssumption DEF IInv, TypeOK, Locations, At, Idle, NoRecord, GoesTo
<1>1. ASSUME NEW k \in Key, myjql_get(k) PROVE TypeOK'
  BY <1>1 DEF myjql_get, Found, Meant, NothingDangles
<1>2. ASSUME NEW k \in Key, myjql_del(k) PROVE TypeOK'
  BY <1>2 DEF myjql_del, Found
<1>3. ASSUME NEW k \in Key, NEW v \in Value, SetNew(k, v) PROVE TypeOK'
  BY <1>3 DEF SetNew
<1>4. ASSUME NEW k \in Key, NEW v \in Value, SetFound(k, v) PROVE TypeOK'
  BY <1>4 DEF SetFound, Found, Meant, NothingDangles, Record
<1>5. ASSUME NEW s \in Rid, WriteKey(s) PROVE TypeOK'
  <2>1. text' \in [Rid -> Key \cup Value \cup {None}]
    BY <1>5 DEF WriteKey, WriteString, CallOK, Asked
  <2>2. call' = [call EXCEPT !.at = "write_value", !.record.key = s]
        /\ UNCHANGED <<records, leaves, separators, answer>>
    BY <1>5 DEF WriteKey
  <2> QED
    BY <2>1, <2>2
<1>6. ASSUME NEW s \in Rid, WriteValue(s) PROVE TypeOK'
  <2>1. text' \in [Rid -> Key \cup Value \cup {None}]
    BY <1>6 DEF WriteValue, WriteString, CallOK, Asked
  <2>2. call' = [call EXCEPT !.at = "write_record", !.record.value = s]
        /\ UNCHANGED <<records, leaves, separators, answer>>
    BY <1>6 DEF WriteValue
  <2> QED
    BY <2>1, <2>2
<1>7. ASSUME NEW r \in Rid, write_record(r) PROVE TypeOK'
  BY <1>7 DEF write_record, CallOK, NewRecord
<1>8. ASSUME b_tree_insert PROVE TypeOK'
  BY <1>8 DEF b_tree_insert, CallOK
<1>9. ASSUME NEW r \in Rid, NEW s \in Rid, SplitLeaf(r, s) PROVE TypeOK'
  BY <1>9 DEF SplitLeaf, insert_handler, WriteString, KeyOf, CallOK, NewRecord, Asked, Meant, NothingDangles
<1>10. ASSUME RemoveRow PROVE TypeOK'
  BY <1>10 DEF RemoveRow
<1>11. ASSUME NEW r \in Rid, NEW s \in Rid, CopyRow(r, s) PROVE TypeOK'
  BY <1>11 DEF CopyRow, insert_handler, WriteString, KeyOf, Meant, NothingDangles, Record
<1>12. ASSUME NEW q \in Rid, NEW s \in Rid, CopySeparator(q, s) PROVE TypeOK'
  BY <1>12 DEF CopySeparator, insert_handler, WriteString
<1>13. ASSUME NEW q \in Rid, delete_handler(q) PROVE TypeOK'
  BY <1>13 DEF delete_handler, DeleteString
<1>14. ASSUME Balanced PROVE TypeOK'
  BY <1>14 DEF Balanced
<1>15. ASSUME read_record PROVE TypeOK'
  BY <1>15 DEF read_record, CallOK, OldRecord, Record
<1>16. ASSUME delete_record PROVE TypeOK'
  BY <1>16 DEF delete_record
<1>17. ASSUME DeleteKey PROVE TypeOK'
  BY <1>17 DEF DeleteKey, DeleteString
<1>18. ASSUME DeleteValue PROVE TypeOK'
  <2>1. CASE call.op = "del"
    <3>1. text' \in [Rid -> Key \cup Value \cup {None}]
      BY <1>18 DEF DeleteValue, DeleteString
    <3> QED
      BY <1>18, <2>1, <3>1 DEF DeleteValue
  <2>2. CASE call.op # "del"
    BY <1>18, <2>2 DEF DeleteValue, DeleteString
  <2> QED
    BY <2>1, <2>2
<1> HIDE DEF IInv, TypeOK, Locations, At, Idle, NoRecord, GoesTo
<1> QED
  BY <1>1, <1>2, <1>3, <1>4, <1>5, <1>6, <1>7, <1>8, <1>9, <1>10, <1>11, <1>12, <1>13,
     <1>14, <1>15, <1>16, <1>17, <1>18 DEF Next, myjql_set

-----------------------------------------------------------------------------
(* What StringsHeldOnce says of the strings of records and of the call.    *)
LEMMA RecordsApart ==
  ASSUME IInv, NEW r \in Rid, records[r] # None
  PROVE  /\ records[r] \in Record
         /\ records[r].key \notin separators
         /\ records[r].value \notin separators
         /\ records[r].key # records[r].value
         /\ \A f \in Field : CallHolds(f) =>
              call.record[f] # records[r].key /\ call.record[f] # records[r].value
         /\ \A q \in Rid : records[q] # None =>
              /\ records[q].key # records[r].value
              /\ q # r => records[q].key # records[r].key /\ records[q].value # records[r].value
<1> USE StoreAssumption DEF Owner, Field
<1>1. /\ records[r] \in Record
      /\ Held(r, "key") = records[r].key
      /\ Held(r, "value") = records[r].value
  BY DEF IInv, Meant, Held
<1>2. records[r].key # None /\ records[r].value # None
  BY <1>1 DEF Record
<1>3. Held(r, "key") \notin separators /\ Held(r, "value") \notin separators
  BY DEF IInv, StringsHeldOnce
<1>4. Held(r, "key") # Held(r, "value")
  BY <1>1, <1>2 DEF IInv, StringsHeldOnce
<1>5. ASSUME NEW f \in Field, CallHolds(f)
      PROVE  call.record[f] # records[r].key /\ call.record[f] # records[r].value
  <2>1. Held(None, f) = call.record[f]
    BY <1>5 DEF Held
  <2> QED
    BY <2>1, <1>1, <1>2 DEF IInv, StringsHeldOnce
<1>6. ASSUME NEW q \in Rid, records[q] # None
      PROVE  /\ records[q].key # records[r].value
             /\ q # r => records[q].key # records[r].key /\ records[q].value # records[r].value
  <2>1. Held(q, "key") = records[q].key /\ Held(q, "value") = records[q].value
    BY <1>6 DEF Held
  <2> QED
    BY <2>1, <1>1, <1>2 DEF IInv, StringsHeldOnce
<1> QED
  BY <1>1, <1>3, <1>4, <1>5, <1>6

LEMMA CallApart ==
  ASSUME IInv, NEW f \in Field, CallHolds(f)
  PROVE  /\ call.record[f] \in Rid
         /\ text[call.record[f]] # None
         /\ call.record[f] \notin separators
         /\ \A g \in Field : g # f /\ CallHolds(g) => call.record[g] # call.record[f]
<1> USE StoreAssumption DEF Owner, Field
<1>1. Held(None, f) = call.record[f]
  BY DEF Held
<1>2. call.record[f] \in Rid
  <2>1. CASE call.record \in Record
    BY <2>1 DEF Record
  <2>2. CASE At("write_value") /\ f = "key"
    BY <2>2 DEF IInv, CallOK
  <2> QED
    BY <2>1, <2>2 DEF IInv, CallOK, CallHolds, NewRecord
<1>3. text[call.record[f]] # None /\ call.record[f] \notin separators
  BY <1>1, <1>2 DEF IInv, NothingDangles, StringsHeldOnce
<1>4. ASSUME NEW g \in Field, g # f, CallHolds(g) PROVE call.record[g] # call.record[f]
  <2>1. Held(None, g) = call.record[g]
    BY <1>4 DEF Held
  <2> QED
    BY <1>1, <1>2, <1>4, <2>1 DEF IInv, StringsHeldOnce
<1> QED
  BY <1>2, <1>3, <1>4
-----------------------------------------------------------------------------
(* The locals of the call.                                                 *)
LEMMA CallKept == ASSUME IInv, Next PROVE CallOK'
<1> USE StoreAssumption
    DEF CallOK, Asked, NewRecord, OldRecord, At, GoesTo
<1>1. ASSUME NEW k \in Key, myjql_get(k) PROVE CallOK'
  BY <1>1 DEF myjql_get, IInv
<1>2. ASSUME NEW k \in Key, myjql_del(k) PROVE CallOK'
  BY <1>2 DEF myjql_del, Found, KeyOf, IInv, TypeOK, Meant, NothingDangles, NoRecord
<1>3. ASSUME NEW k \in Key, NEW v \in Value, SetNew(k, v) PROVE CallOK'
  BY <1>3 DEF SetNew, Idle, NoRecord
<1>4. ASSUME NEW k \in Key, NEW v \in Value, SetFound(k, v) PROVE CallOK'
  BY <1>4 DEF SetFound, Found, KeyOf, IInv, TypeOK, Meant, NothingDangles
<1>5. ASSUME NEW s \in Rid, WriteKey(s) PROVE CallOK'
  BY <1>5 DEF WriteKey, WriteString, IInv, TypeOK
<1>6. ASSUME NEW s \in Rid, WriteValue(s) PROVE CallOK'
  BY <1>6 DEF WriteValue, WriteString, IInv, TypeOK, Record
<1>7. ASSUME NEW r \in Rid, write_record(r) PROVE CallOK'
  BY <1>7 DEF write_record, IInv, TypeOK, NothingDangles
<1>8. ASSUME b_tree_insert PROVE CallOK'
  BY <1>8 DEF b_tree_insert, Idle
<1>9. ASSUME NEW r \in Rid, NEW s \in Rid, SplitLeaf(r, s) PROVE CallOK'
  BY <1>9 DEF SplitLeaf, Idle
<1>10. ASSUME RemoveRow PROVE CallOK'
  BY <1>10 DEF RemoveRow, IInv, TypeOK
<1>11. ASSUME NEW r \in Rid, NEW s \in Rid, CopyRow(r, s) PROVE CallOK'
  BY <1>11 DEF CopyRow, insert_handler, WriteString, IInv, TypeOK, Record
<1>12. ASSUME NEW q \in Rid, NEW s \in Rid, CopySeparator(q, s) PROVE CallOK'
  BY <1>12 DEF CopySeparator, insert_handler, WriteString, IInv, TypeOK, Record
<1>13. ASSUME NEW q \in Rid, delete_handler(q) PROVE CallOK'
  BY <1>13, RecordsApart DEF delete_handler, DeleteString, IInv, TypeOK, Record
<1>14. ASSUME Balanced PROVE CallOK'
  BY <1>14 DEF Balanced, IInv, TypeOK
<1>15. ASSUME read_record PROVE CallOK'
  BY <1>15 DEF read_record, IInv, TypeOK
<1>16. ASSUME delete_record PROVE CallOK'
  BY <1>16 DEF delete_record, IInv, TypeOK, Record
<1>17. ASSUME DeleteKey PROVE CallOK'
  BY <1>17 DEF DeleteKey, DeleteString, IInv, TypeOK, Record
<1>18. ASSUME DeleteValue PROVE CallOK'
  <2>1. CASE call.op = "del"
    BY <1>18, <2>1 DEF DeleteValue, Idle
  <2>2. CASE call.op = "set"
    <3>1. CallHolds("key") /\ CallHolds("value")
      BY <1>18, <2>2 DEF DeleteValue, CallHolds
    <3>2. call.record.key # call.record.value
      BY <3>1, CallApart DEF Field
    <3> QED
      BY <1>18, <2>2, <3>2 DEF DeleteValue, DeleteString, IInv, TypeOK, Record
  <2> QED
    BY <1>18, <2>1, <2>2 DEF DeleteValue, IInv
<1> HIDE DEF CallOK, Asked, NewRecord, OldRecord, At, GoesTo
<1> QED
  BY <1>1, <1>2, <1>3, <1>4, <1>5, <1>6, <1>7, <1>8, <1>9, <1>10, <1>11, <1>12, <1>13,
     <1>14, <1>15, <1>16, <1>17, <1>18 DEF Next, myjql_set
-----------------------------------------------------------------------------
(* A string that is written is new, and the one that is deleted is none of *)
(* a record's: records and their strings stay as they are.                 *)
LEMMA OthersKept ==
  ASSUME IInv, Next, NEW r \in Rid, records[r] # None, records'[r] # None
  PROVE  /\ records'[r] = records[r]
         /\ text'[records[r].key] = text[records[r].key]
         /\ text'[records[r].value] = text[records[r].value]
<1> DEFINE P == /\ records'[r] = records[r]
                /\ text'[records[r].key] = text[records[r].key]
                /\ text'[records[r].value] = text[records[r].value]
<1> USE StoreAssumption
<1>1. /\ records[r].key \in Rid /\ records[r].value \in Rid
      /\ text[records[r].key] # None /\ text[records[r].value] # None
  BY DEF IInv, Meant, Record
<1>2. ASSUME UNCHANGED <<records, text>> PROVE P
  BY <1>2
<1>3. ASSUME NEW s \in Rid, NEW x, WriteString(s, x), UNCHANGED records PROVE P
  BY <1>1, <1>3 DEF WriteString, IInv, TypeOK
<1>4. ASSUME NEW s, DeleteString(s), UNCHANGED records,
             s # records[r].key, s # records[r].value
      PROVE  P
  BY <1>1, <1>4 DEF DeleteString, IInv, TypeOK
<1>5. ASSUME NEW q \in Rid, UNCHANGED text, NEW x, records' = [records EXCEPT ![q] = x],
             x = None \/ records[q] = None
      PROVE  P
  BY <1>5 DEF IInv, TypeOK
<1>6. ASSUME NEW s \in Rid, WriteKey(s) \/ WriteValue(s) PROVE P
  BY <1>3, <1>6 DEF WriteKey, WriteValue
<1>7. ASSUME NEW q \in Rid, write_record(q) PROVE P
  BY <1>5, <1>7 DEF write_record
<1>8. ASSUME NEW q \in Rid, NEW s \in Rid, SplitLeaf(q, s) \/ CopyRow(q, s) \/ CopySeparator(q, s)
      PROVE  P
  BY <1>3, <1>8 DEF SplitLeaf, CopyRow, CopySeparator, insert_handler
<1>9. ASSUME NEW q \in Rid, delete_handler(q) PROVE P
  BY <1>4, <1>9, RecordsApart DEF delete_handler
<1>10. ASSUME delete_record PROVE P
  <2>1. call.rid \in Rid
    BY <1>10 DEF delete_record, IInv, CallOK, OldRecord
  <2> QED
    BY <1>5, <1>10, <2>1 DEF delete_record
<1>11. ASSUME DeleteKey PROVE P
  <2>1. CallHolds("key")
    BY <1>11 DEF DeleteKey, CallHolds
  <2> QED
    BY <1>4, <1>11, <2>1, RecordsApart DEF DeleteKey, Field
<1>12. ASSUME DeleteValue PROVE P
  <2>1. CallHolds("value")
    BY <1>12 DEF DeleteValue, CallHolds
  <2> QED
    BY <1>4, <1>12, <2>1, RecordsApart DEF DeleteValue, Field
<1> QED
  BY <1>2, <1>6, <1>7, <1>8, <1>9, <1>10, <1>11, <1>12
  DEF Next, myjql_get, myjql_del, myjql_set, SetNew, SetFound, b_tree_insert, RemoveRow,
      Balanced, read_record

(* What a step does to the leaves.                                         *)
LEMMA LeavesStep ==
  ASSUME IInv, Next
  PROVE  \/ leaves' = leaves /\ (At("idle") \/ At("unindex"))'
         \/ /\ leaves' = leaves /\ call'.key = call.key
            /\ ~At("idle") /\ ~At("unindex")
         \/ \E k \in Key : leaves' = leaves /\ call'.key = k /\ Found(k) = {}
         \/ RemoveRow
         \/ At("index") /\ leaves' = leaves \cup {call.rid} /\ At("idle")'
<1> USE DEF At, GoesTo
<1>1. call = [call EXCEPT !.at = call.at] /\ DOMAIN call = {"op", "at", "key", "value", "rid", "record"}
  BY DEF IInv, TypeOK
<1>2. ASSUME NEW k \in Key, myjql_get(k) \/ myjql_del(k)
      PROVE  leaves' = leaves /\ (At("idle") \/ At("unindex"))'
  BY <1>2 DEF myjql_get, myjql_del
<1>3. ASSUME NEW k \in Key, NEW v \in Value, SetFound(k, v)
      PROVE  leaves' = leaves /\ At("unindex")'
  BY <1>3 DEF SetFound
<1>4. ASSUME NEW k \in Key, NEW v \in Value, SetNew(k, v)
      PROVE  leaves' = leaves /\ call'.key = k /\ Found(k) = {}
  BY <1>4 DEF SetNew, Idle
<1>5. ASSUME NEW s \in Rid, WriteKey(s) \/ WriteValue(s) \/ write_record(s) \/ delete_handler(s)
      PROVE  leaves' = leaves /\ call'.key = call.key /\ ~At("idle") /\ ~At("unindex")
  BY <1>1, <1>5 DEF WriteKey, WriteValue, write_record, delete_handler
<1>6. ASSUME NEW q \in Rid, NEW s \in Rid, CopyRow(q, s) \/ CopySeparator(q, s)
      PROVE  leaves' = leaves /\ call'.key = call.key /\ ~At("idle") /\ ~At("unindex")
  BY <1>1, <1>6 DEF CopyRow, CopySeparator
<1>7. ASSUME Balanced \/ read_record \/ delete_record \/ DeleteKey
      PROVE  leaves' = leaves /\ call'.key = call.key /\ ~At("idle") /\ ~At("unindex")
  BY <1>1, <1>7 DEF Balanced, read_record, delete_record, DeleteKey
<1>8. ASSUME DeleteValue
      PROVE  \/ leaves' = leaves /\ At("idle")'
             \/ leaves' = leaves /\ call'.key = call.key /\ ~At("idle") /\ ~At("unindex")
  BY <1>1, <1>8 DEF DeleteValue, Idle
<1>9. ASSUME b_tree_insert
      PROVE  At("index") /\ leaves' = leaves \cup {call.rid} /\ At("idle")'
  BY <1>9 DEF b_tree_insert, Idle
<1>10. ASSUME NEW r \in Rid, NEW s \in Rid, SplitLeaf(r, s)
       PROVE  At("index") /\ leaves' = leaves \cup {call.rid} /\ At("idle")'
  BY <1>10 DEF SplitLeaf, Idle
<1> HIDE DEF At, GoesTo
<1> QED
  BY <1>2, <1>3, <1>4, <1>5, <1>6, <1>7, <1>8, <1>9, <1>10 DEF Next, myjql_set

-----------------------------------------------------------------------------
(* Rows keep their keys.                                                   *)
LEMMA KeysKept ==
  ASSUME IInv, Next, NEW r \in leaves, records'[r] # None
  PROVE  KeyOf(r)' = KeyOf(r)
<1>1. r \in Rid /\ records[r] # None
  BY DEF IInv, TypeOK, NothingDangles
<1> QED
  BY <1>1, OthersKept DEF KeyOf

(* A row in the index has a record, before and after.                      *)
LEMMA RowsStay ==
  ASSUME IInv, Next, NEW r \in leaves'
  PROVE  /\ r \in Rid /\ records[r] # None /\ records'[r] # None
         /\ r \notin leaves => r = call.rid /\ At("index")
<1>1. \A q \in leaves \cup CallRecord : q \in Rid /\ records[q] # None
  BY DEF IInv, NothingDangles
<1>2. r \in leaves \/ (r = call.rid /\ At("index"))
  BY LeavesStep DEF RemoveRow
<1>3. r \in Rid /\ records[r] # None
  BY <1>1, <1>2 DEF CallRecord
<1>4. CASE delete_record
  <2>1. r \in leaves /\ call.rid \in Rid \ leaves
    BY <1>4, LeavesStep DEF delete_record, IInv, CallOK, OldRecord, At
  <2> QED
    BY <1>3, <1>4, <2>1, <1>2 DEF delete_record, IInv, TypeOK, At
<1>5. ASSUME NEW q \in Rid, write_record(q) PROVE records'[r] # None
  BY <1>3, <1>5 DEF write_record, IInv, TypeOK
<1>6. CASE UNCHANGED records
  BY <1>2, <1>3, <1>6
<1> QED
  BY <1>2, <1>3, <1>4, <1>5, <1>6
  DEF Next, myjql_get, myjql_del, myjql_set, SetNew, SetFound, WriteKey, WriteValue,
      b_tree_insert, SplitLeaf, RemoveRow, CopyRow, CopySeparator, delete_handler, Balanced,
      read_record, DeleteKey, DeleteValue
-----------------------------------------------------------------------------
LEMMA MeantKept == ASSUME IInv, Next PROVE Meant'
<1> SUFFICES ASSUME NEW r \in Rid, records'[r] # None
             PROVE  /\ records'[r] \in Record
                    /\ text'[records'[r].key] \in Key
                    /\ text'[records'[r].value] \in Value
  BY DEF Meant
<1>1. CASE records[r] # None
  BY <1>1, OthersKept DEF IInv, Meant
<1>2. CASE records[r] = None
  <2>1. write_record(r)
    <3>1. ASSUME UNCHANGED records PROVE FALSE
      BY <1>2, <3>1
    <3>2. ASSUME delete_record PROVE FALSE
      BY <1>2, <3>2 DEF delete_record, IInv, TypeOK
    <3>3. ASSUME NEW q \in Rid, write_record(q) PROVE q = r
      BY <1>2, <3>3 DEF write_record, IInv, TypeOK
    <3> QED
      BY <3>1, <3>2, <3>3
      DEF Next, myjql_get, myjql_del, myjql_set, SetNew, SetFound, WriteKey, WriteValue,
          b_tree_insert, SplitLeaf, RemoveRow, CopyRow, CopySeparator, delete_handler, Balanced,
          read_record, DeleteKey, DeleteValue
  <2> QED
    BY <2>1 DEF write_record, IInv, TypeOK, CallOK, NewRecord, Asked, At
<1> QED
  BY <1>1, <1>2

LEMMA KeyGoneKept == ASSUME IInv, Next PROVE KeyGone'
<1> SUFFICES ASSUME ~(At("idle") \/ At("unindex"))', NEW r \in leaves'
             PROVE  KeyOf(r)' # call'.key
  BY DEF KeyGone
<1>1. records'[r] # None
  BY RowsStay
<1>2. ASSUME r \in leaves PROVE KeyOf(r)' = KeyOf(r)
  BY <1>1, <1>2, KeysKept
<1>3. CASE leaves' = leaves /\ call'.key = call.key /\ ~At("idle") /\ ~At("unindex")
  BY <1>2, <1>3 DEF IInv, KeyGone
<1>4. CASE \E k \in Key : leaves' = leaves /\ call'.key = k /\ Found(k) = {}
  BY <1>2, <1>4 DEF Found
<1>5. CASE RemoveRow
  <2>1. call.rid \in leaves /\ KeyOf(call.rid) = call.key
    BY <1>5 DEF RemoveRow, IInv, CallOK, OldRecord, KeyOf
  <2>2. r \in leaves /\ r # call.rid
    BY <1>5 DEF RemoveRow
  <2>3. KeyOf(r) # call.key
    BY <2>1, <2>2 DEF IInv, OneRowPerKey
  <2>4. call'.key = call.key
    BY <1>5 DEF RemoveRow, GoesTo, IInv, TypeOK
  <2> QED
    BY <1>2, <2>2, <2>3, <2>4
<1> QED
  BY <1>3, <1>4, <1>5, LeavesStep

LEMMA OneRowKept == ASSUME IInv, Next PROVE OneRowPerKey'
<1> SUFFICES ASSUME NEW r \in leaves', NEW q \in leaves', KeyOf(r)' = KeyOf(q)' PROVE r = q
  BY DEF OneRowPerKey
<1>1. \A p \in leaves' : p \in leaves => KeyOf(p)' = KeyOf(p)
  BY RowsStay, KeysKept
<1>2. CASE r \in leaves /\ q \in leaves
  BY <1>1, <1>2 DEF IInv, OneRowPerKey
<1>3. ASSUME NEW p \in leaves', NEW o \in leaves', p \notin leaves, KeyOf(p)' = KeyOf(o)'
      PROVE  p = o
  <2>1. p = call.rid /\ At("index")
    BY <1>3, RowsStay
  <2>2. KeyOf(p) = call.key
    BY <2>1 DEF IInv, CallOK, NewRecord, KeyOf
  <2>3. KeyOf(p)' = KeyOf(p)
    BY <1>3, RowsStay, OthersKept DEF KeyOf
  <2>4. ASSUME o \in leaves PROVE FALSE
    BY <1>1, <1>3, <2>1, <2>2, <2>3, <2>4 DEF IInv, KeyGone, At
  <2> QED
    BY <2>1, <2>4, RowsStay
<1> QED
  BY <1>2, <1>3
-----------------------------------------------------------------------------
(* Strings and who holds them.                                             *)
StringsOK ==
    /\ \A r \in Owner, f \in Field : Held(r, f) # None => text[Held(r, f)] # None
    /\ \A q \in separators : text[q] # None
    /\ StringsHeldOnce

LEMMA HeldTyped == ASSUME IInv, NEW r \in Owner, NEW f \in Field PROVE Held(r, f) \in Owner
<1>1. CASE r = None
  BY <1>1, CallApart DEF Owner, Held
<1>2. CASE r # None
  <2>1. CASE records[r] # None
    BY <1>2, <2>1 DEF IInv, Meant, Record, Held, Owner, Field
  <2>2. CASE records[r] = None
    BY <1>2, <2>2 DEF Held, Owner
  <2> QED
    BY <2>1, <2>2
<1> QED
  BY <1>1, <1>2

LEMMA StringsAreOK == IInv => StringsOK
<1> QED
  BY DEF IInv, NothingDangles, StringsOK, Owner

(* Who holds what stays the same, but for the separators.                  *)
LEMMA SeparatorStep ==
  ASSUME IInv, \A r \in Owner, f \in Field : Held(r, f)' = Held(r, f),
         \/ UNCHANGED <<text, separators>>
         \/ \E s \in Rid : \E x : WriteString(s, x) /\ x # None /\ separators' = separators \cup {s}
         \/ \E s \in separators : DeleteString(s) /\ separators' = separators \ {s}
  PROVE  StringsOK'
<1> USE StoreAssumption
<1>1. StringsOK /\ text \in [Rid -> Key \cup Value \cup {None}] /\ separators \subseteq Rid
  BY StringsAreOK DEF IInv, TypeOK
<1>2. \A r \in Owner, f \in Field : Held(r, f) \in Owner
  BY HeldTyped
<1>3. CASE UNCHANGED <<text, separators>>
  BY <1>1, <1>3 DEF StringsOK, StringsHeldOnce, Owner
<1>4. ASSUME NEW s \in Rid, NEW x, WriteString(s, x), x # None, separators' = separators \cup {s}
      PROVE  StringsOK'
  BY <1>1, <1>2, <1>4 DEF StringsOK, StringsHeldOnce, Owner, WriteString
<1>5. ASSUME NEW s \in separators, DeleteString(s), separators' = separators \ {s}
      PROVE  StringsOK'
  BY <1>1, <1>2, <1>5 DEF StringsOK, StringsHeldOnce, Owner, DeleteString
<1> QED
  BY <1>3, <1>4, <1>5

(* The call gets hold of a new string.                                     *)
LEMMA CallWrites ==
  ASSUME IInv, NEW s \in Rid, NEW x, x # None, WriteString(s, x), separators' = separators,
         NEW g \in Field, Held(None, g) = None, Held(None, g)' = s,
         \A r \in Owner, f \in Field : r # None \/ f # g => Held(r, f)' = Held(r, f)
  PROVE  StringsOK'
<1> USE StoreAssumption
<1>1. StringsOK /\ text \in [Rid -> Key \cup Value \cup {None}] /\ separators \subseteq Rid
  BY StringsAreOK DEF IInv, TypeOK
<1>2. \A r \in Owner, f \in Field : Held(r, f) \in Owner
  BY HeldTyped
<1>3. \A r \in Owner, f \in Field : Held(r, f)' # None => text'[Held(r, f)'] # None
  BY <1>1, <1>2 DEF StringsOK, Owner, WriteString
<1>4. \A q \in separators' : text'[q] # None
  BY <1>1 DEF StringsOK, WriteString
<1>5. s \notin separators /\ \A r \in Owner, f \in Field : Held(r, f) # s
  BY <1>1 DEF StringsOK, WriteString, Owner
<1> QED
  BY <1>1, <1>2, <1>3, <1>4, <1>5 DEF StringsOK, StringsHeldOnce, Owner, WriteString

(* The call gives a string up.                                             *)
LEMMA CallDeletes ==
  ASSUME IInv, NEW g \in Field, Held(None, g) # None, Held(None, g)' = None,
         DeleteString(Held(None, g)), separators' = separators,
         \A r \in Owner, f \in Field : r # None \/ f # g => Held(r, f)' = Held(r, f)
  PROVE  StringsOK'
<1> USE StoreAssumption
<1>1. StringsOK /\ text \in [Rid -> Key \cup Value \cup {None}] /\ separators \subseteq Rid
  BY StringsAreOK DEF IInv, TypeOK
<1>2. \A r \in Owner, f \in Field : Held(r, f) \in Owner
  BY HeldTyped
<1> QED
  BY <1>1, <1>2 DEF StringsOK, StringsHeldOnce, Owner, DeleteString

(* All that one owner holds goes to another one, who held nothing.         *)
LEMMA HandedOver ==
  ASSUME IInv, UNCHANGED <<text, separators>>, NEW a \in Owner, NEW b \in Owner, a # b,
         \A f \in Field : Held(b, f) = None /\ Held(a, f)' = None,
         \A f \in Field : Held(b, f)' = Held(a, f),
         \A r \in Owner \ {a, b}, f \in Field : Held(r, f)' = Held(r, f)
  PROVE  StringsOK'
<1> USE StoreAssumption
<1>1. StringsOK
  BY StringsAreOK
<1>2. \A r \in Owner, f \in Field : Held(r, f) \in Owner
  BY HeldTyped
<1> DEFINE Was(r) == IF r = b THEN a ELSE IF r = a THEN b ELSE r
<1>3. \A r \in Owner : Was(r) \in Owner /\ Was(Was(r)) = r
  OBVIOUS
<1>4. \A r \in Owner, f \in Field : Held(r, f)' = Held(Was(r), f)
  OBVIOUS
<1> HIDE DEF Was
<1>5. \A r \in Owner, f \in Field :
        /\ Held(r, f)' # None => text'[Held(r, f)'] # None
        /\ Held(r, f)' \notin separators'
  BY <1>1, <1>3, <1>4 DEF StringsOK, StringsHeldOnce, Owner
<1>6. ASSUME NEW r \in Owner, NEW q \in Owner, NEW f \in Field, NEW g \in Field,
             Held(r, f)' # None, Held(r, f)' = Held(q, g)'
      PROVE  r = q /\ f = g
  <2>1. Was(r) = Was(q) /\ f = g
    BY <1>1, <1>3, <1>4, <1>6 DEF StringsOK, StringsHeldOnce, Owner
  <2> QED
    BY <2>1, <1>3
<1>7. ASSUME NEW s \in Rid, text'[s] # None, s \notin separators'
      PROVE  \E r \in Owner, f \in Field : Held(r, f)' = s
  <2>1. PICK r \in Owner, f \in Field : Held(r, f) = s
    BY <1>1, <1>7 DEF StringsOK, StringsHeldOnce, Owner
  <2>2. Was(r) \in Owner /\ Held(Was(r), f)' = s
    BY <2>1, <1>3, <1>4
  <2> QED
    BY <2>2
<1> QED
  BY <1>1, <1>5, <1>6, <1>7 DEF StringsOK, StringsHeldOnce, Owner
LEMMA StringsKept == ASSUME IInv, Next PROVE StringsOK'
<1> USE StoreAssumption DEF At, GoesTo
<1>1. /\ \A r \in Owner \ {None} : UNCHANGED records => \A f \in Field : Held(r, f)' = Held(r, f)
      /\ \A f \in Field : Held(None, f) = IF CallHolds(f) THEN call.record[f] ELSE None
      /\ \A f \in Field : Held(None, f)' = (IF CallHolds(f) THEN call.record[f] ELSE None)'
  BY DEF Held
<1>2. ASSUME UNCHANGED records, \A f \in Field : ~CallHolds(f) /\ ~CallHolds(f)'
      PROVE  \A r \in Owner, f \in Field : Held(r, f)' = Held(r, f)
  BY <1>1, <1>2
<1>3. ASSUME NEW k \in Key, myjql_get(k) \/ myjql_del(k) PROVE StringsOK'
  BY <1>2, <1>3, SeparatorStep DEF myjql_get, myjql_del, CallHolds
<1>4. ASSUME NEW k \in Key, NEW v \in Value, myjql_set(k, v) PROVE StringsOK'
  <2>1. \A f \in Field : ~CallHolds(f) /\ ~CallHolds(f)'
    <3>1. At("idle") /\ call'.at \in {"write_key", "unindex"}
      <4>1. CASE SetNew(k, v)
        BY <4>1 DEF SetNew, Idle
      <4>2. CASE SetFound(k, v)
        BY <4>2 DEF SetFound
      <4> QED
        BY <1>4, <4>1, <4>2 DEF myjql_set
    <3> QED
      BY <3>1 DEF CallHolds
  <2> QED
    BY <1>2, <1>4, <2>1, SeparatorStep DEF myjql_set, SetNew, SetFound
<1>5. ASSUME RemoveRow \/ Balanced \/ read_record \/ b_tree_insert PROVE StringsOK'
  <2>1. \A f \in Field : ~CallHolds(f) /\ ~CallHolds(f)'
    <3>1. call.at \in {"unindex", "rebalance", "read_record", "index"}
      BY <1>5 DEF RemoveRow, Balanced, read_record, b_tree_insert
    <3>2. call'.at \in {"rebalance", "read_record", "delete_record", "idle"}
      <4>1. ASSUME NEW l, GoesTo(l) PROVE call'.at = l
        BY <4>1 DEF IInv, TypeOK
      <4> HIDE DEF GoesTo
      <4>2. CASE RemoveRow
        BY <4>1, <4>2 DEF RemoveRow
      <4>3. CASE Balanced
        BY <4>1, <4>3 DEF Balanced
      <4>4. CASE read_record
        BY <4>4 DEF read_record, IInv, TypeOK
      <4>5. CASE b_tree_insert
        BY <4>5 DEF b_tree_insert, Idle
      <4> QED
        BY <1>5, <4>2, <4>3, <4>4, <4>5
    <3> QED
      BY <3>1, <3>2 DEF CallHolds
  <2> QED
    BY <1>2, <1>5, <2>1, SeparatorStep DEF RemoveRow, Balanced, read_record, b_tree_insert
<1>6. ASSUME NEW r \in Rid, NEW s \in Rid, SplitLeaf(r, s) \/ CopyRow(r, s) \/ CopySeparator(r, s)
      PROVE  StringsOK'
  <2>1. \A p \in Owner, f \in Field : Held(p, f)' = Held(p, f)
    BY <1>2, <1>6 DEF SplitLeaf, CopyRow, CopySeparator, CallHolds, Idle
  <2>2. PICK x : insert_handler(x, s) /\ x # None
    <3>1. ASSUME NEW q \in Rid, records[q] # None PROVE KeyOf(q) # None
      BY <3>1 DEF IInv, Meant, KeyOf
    <3>2. CASE SplitLeaf(r, s)
      BY <1>6, <3>1, <3>2 DEF SplitLeaf, IInv, NothingDangles, CallRecord
    <3>3. CASE CopyRow(r, s)
      BY <1>6, <3>1, <3>3 DEF CopyRow, IInv, NothingDangles
    <3>4. CASE CopySeparator(r, s)
      BY <3>4 DEF CopySeparator, IInv, NothingDangles
    <3> QED
      BY <1>6, <3>2, <3>3, <3>4
  <2> QED
    BY <2>1, <2>2, SeparatorStep DEF insert_handler
<1>7. ASSUME NEW q \in Rid, delete_handler(q) PROVE StringsOK'
  BY <1>2, <1>7, SeparatorStep DEF delete_handler, CallHolds
<1>8. ASSUME NEW s \in Rid, WriteKey(s) PROVE StringsOK'
  <2>1. /\ ~CallHolds("key") /\ ~CallHolds("value") /\ CallHolds("key")' /\ ~CallHolds("value")'
        /\ call'.record.key = s /\ call.key # None
    BY <1>8 DEF WriteKey, CallHolds, IInv, TypeOK, CallOK, Asked
  <2> QED
    BY <1>1, <1>8, <2>1, CallWrites DEF WriteKey, Field, Owner
<1>9. ASSUME NEW s \in Rid, WriteValue(s) PROVE StringsOK'
  <2>1. /\ CallHolds("key") /\ ~CallHolds("value") /\ CallHolds("key")' /\ CallHolds("value")'
        /\ call'.record.key = call.record.key /\ call'.record.value = s /\ call.value # None
    BY <1>9 DEF WriteValue, CallHolds, IInv, TypeOK, CallOK, Asked
  <2> QED
    BY <1>1, <1>9, <2>1, CallWrites DEF WriteValue, Field, Owner
<1>10. ASSUME NEW r \in Rid, write_record(r) PROVE StringsOK'
  <2>1. \A f \in Field : CallHolds(f) /\ ~CallHolds(f)'
    BY <1>10 DEF write_record, CallHolds
  <2>2. records'[r] = call.record /\ records'[r] # None /\ records[r] = None
        /\ \A q \in Rid \ {r} : records'[q] = records[q]
    BY <1>10 DEF write_record, IInv, TypeOK, CallOK, NewRecord
  <2>3. /\ \A f \in Field : Held(r, f) = None /\ Held(r, f)' = Held(None, f) /\ Held(None, f)' = None
        /\ \A q \in Owner \ {r, None}, f \in Field : Held(q, f)' = Held(q, f)
    BY <1>1, <2>1, <2>2 DEF Held, Owner
  <2> QED
    BY <1>10, <2>3, HandedOver DEF write_record, Owner
<1>11. ASSUME delete_record PROVE StringsOK'
  <2>1. \A f \in Field : ~CallHolds(f) /\ CallHolds(f)' /\ call'.record = call.record
    BY <1>11 DEF delete_record, CallHolds, Field, IInv, TypeOK, CallOK, Asked
  <2>2. /\ call.rid \in Rid /\ call.record = records[call.rid] /\ records[call.rid] # None
        /\ records'[call.rid] = None
        /\ \A q \in Rid \ {call.rid} : records'[q] = records[q]
    BY <1>11 DEF delete_record, IInv, TypeOK, CallOK, OldRecord
  <2>3. \A f \in Field : Held(None, f)' = call.record[f] /\ Held(None, f) = None
    BY <1>1, <2>1
  <2>4. PICK a \in Rid : a = call.rid
    BY <2>2
  <2>5. /\ records[a] = call.record /\ records[a] # None /\ records'[a] = None
        /\ \A q \in Rid \ {a} : records'[q] = records[q]
    BY <2>2, <2>4
  <2>6. \A q \in Rid, f \in Field :
          /\ Held(q, f) = IF records[q] = None THEN None ELSE records[q][f]
          /\ Held(q, f)' = IF records'[q] = None THEN None ELSE records'[q][f]
    BY DEF Held
  <2>7. \A f \in Field : Held(a, f) = call.record[f] /\ Held(a, f)' = None
    BY <2>5, <2>6
  <2>8. \A q \in Rid \ {a}, f \in Field : Held(q, f)' = Held(q, f)
    BY <2>5, <2>6
  <2> QED
    BY <1>11, <2>3, <2>7, <2>8, HandedOver DEF delete_record, Owner
<1>12. ASSUME DeleteKey PROVE StringsOK'
  <2>1. /\ CallHolds("key") /\ CallHolds("value") /\ ~CallHolds("key")' /\ CallHolds("value")'
        /\ call'.record = call.record
    BY <1>12 DEF DeleteKey, CallHolds, IInv, TypeOK, CallOK, Asked
  <2> QED
    BY <1>1, <1>12, <2>1, CallApart, CallDeletes DEF DeleteKey, Field, Owner
<1>13. ASSUME DeleteValue PROVE StringsOK'
  <2>1. /\ CallHolds("value") /\ ~CallHolds("value")'
        /\ CallHolds("key") <=> CallHolds("key")'
        /\ CallHolds("key") => call'.record = call.record
    BY <1>13 DEF DeleteValue, CallHolds, IInv, TypeOK, CallOK, Asked, Idle
  <2> QED
    BY <1>1, <1>13, <2>1, CallApart, CallDeletes DEF DeleteValue, Field, Owner
<1> HIDE DEF At, GoesTo
<1> QED
  BY <1>3, <1>4, <1>5, <1>6, <1>7, <1>8, <1>9, <1>10, <1>11, <1>12, <1>13 DEF Next
-----------------------------------------------------------------------------
(* Records and the rows of the index.                                      *)
Live == {r \in Rid : records[r] # None}

Rows == leaves \cup CallRecord

LEMMA RowsKept == ASSUME IInv, Next PROVE Rows' = Live'
<1> USE StoreAssumption
<1>1. Rows = Live /\ CallRecord \subseteq {call.rid}
  BY DEF IInv, NothingDangles, Rows, Live, CallRecord
<1>2. ASSUME UNCHANGED <<records, leaves>>, CallRecord' = CallRecord PROVE Rows' = Live'
  BY <1>1, <1>2 DEF Rows, Live
<1>3. ASSUME \/ \E k \in Key : myjql_get(k) \/ myjql_del(k) \/ \E v \in Value : SetFound(k, v)
             \/ \E s \in Rid : WriteKey(s) \/ WriteValue(s)
             \/ DeleteKey
      PROVE  Rows' = Live'
  <2>1. CallRecord = {} /\ CallRecord' = {}
    <3>1. call.at \in {"idle", "write_key", "write_value", "delete_key"}
      BY <1>3 DEF myjql_get, myjql_del, SetFound, WriteKey, WriteValue, DeleteKey, At
    <3>2. ASSUME NEW k \in Key, myjql_get(k) \/ myjql_del(k) PROVE call'.at \in {"idle", "unindex"}
      BY <3>2 DEF myjql_get, myjql_del, At
    <3>3. ASSUME NEW k \in Key, NEW v \in Value, SetFound(k, v) PROVE call'.at = "unindex"
      BY <3>3 DEF SetFound
    <3>4. ASSUME NEW s \in Rid, WriteKey(s) \/ WriteValue(s)
          PROVE  call'.at \in {"write_value", "write_record"}
      BY <3>4 DEF WriteKey, WriteValue, IInv, TypeOK
    <3>5. ASSUME DeleteKey PROVE call'.at = "delete_value"
      BY <3>5 DEF DeleteKey, GoesTo, IInv, TypeOK
    <3>6. call'.at \in {"idle", "unindex", "write_value", "write_record", "delete_value"}
      BY <1>3, <3>2, <3>3, <3>4, <3>5
    <3> QED
      BY <3>1, <3>6 DEF CallRecord, At
  <2> QED
    BY <1>2, <1>3, <2>1 DEF myjql_get, myjql_del, SetFound, WriteKey, WriteValue, DeleteKey
<1>4. ASSUME NEW k \in Key, NEW v \in Value, SetNew(k, v) PROVE Rows' = Live'
  BY <1>2, <1>4 DEF SetNew, CallRecord, At, Idle
<1>5. ASSUME DeleteValue PROVE Rows' = Live'
  <2>1. CallRecord = {} /\ CallRecord' = {}
    BY <1>5 DEF DeleteValue, CallRecord, At, GoesTo, Idle, IInv, TypeOK
  <2> QED
    BY <1>2, <1>5, <2>1 DEF DeleteValue
<1>6. ASSUME NEW r \in Rid, write_record(r) PROVE Rows' = Live'
  BY <1>1, <1>6 DEF write_record, CallRecord, At, Rows, Live, IInv, TypeOK, CallOK, NewRecord
<1>7. ASSUME b_tree_insert PROVE Rows' = Live'
  BY <1>1, <1>7 DEF b_tree_insert, CallRecord, At, Rows, Live, Idle
<1>8. ASSUME NEW r \in Rid, NEW s \in Rid, SplitLeaf(r, s) PROVE Rows' = Live'
  BY <1>1, <1>8 DEF SplitLeaf, CallRecord, At, Rows, Live, Idle
<1>9. ASSUME RemoveRow PROVE Rows' = Live'
  BY <1>1, <1>9 DEF RemoveRow, CallRecord, At, GoesTo, Rows, Live, IInv, TypeOK, CallOK
<1>10. ASSUME NEW q \in Rid, NEW s \in Rid, CopyRow(q, s) \/ CopySeparator(q, s) PROVE Rows' = Live'
  BY <1>2, <1>10 DEF CopyRow, CopySeparator, CallRecord, At
<1>11. ASSUME NEW q \in Rid, delete_handler(q) PROVE Rows' = Live'
  BY <1>2, <1>11 DEF delete_handler, CallRecord, At
<1>12. ASSUME Balanced \/ read_record PROVE Rows' = Live'
  <2>1. CallRecord = {call.rid}
    BY <1>12 DEF Balanced, read_record, CallRecord, At
  <2>2. CallRecord' = {call.rid}
    BY <1>12 DEF Balanced, read_record, CallRecord, At, GoesTo, IInv, TypeOK
  <2> QED
    BY <1>2, <1>12, <2>1, <2>2 DEF Balanced, read_record
<1>13. ASSUME delete_record PROVE Rows' = Live'
  <2>1. CallRecord = {call.rid} /\ CallRecord' = {} /\ call.rid \in Rid \ leaves
    BY <1>13 DEF delete_record, CallRecord, At, GoesTo, IInv, TypeOK, CallOK, OldRecord
  <2>2. Live' = Live \ {call.rid}
    BY <1>13, <2>1 DEF delete_record, Live, IInv, TypeOK
  <2> QED
    BY <1>1, <1>13, <2>1, <2>2 DEF delete_record, Rows
<1> QED
  BY <1>3, <1>4, <1>5, <1>6, <1>7, <1>8, <1>9, <1>10, <1>11, <1>12, <1>13 DEF Next, myjql_set

-----------------------------------------------------------------------------
LEMMA IInvKept == ASSUME IInv, [Next]_vars PROVE IInv'
<1>1. CASE Next
  <2>1. StringsOK' /\ Rows' = Live'
    BY <1>1, StringsKept, RowsKept
  <2>2. NothingDangles' /\ StringsHeldOnce'
    BY <2>1 DEF StringsOK, Rows, Live, NothingDangles, Owner
  <2> QED
    BY <1>1, <2>2, TypeKept, CallKept, MeantKept, KeyGoneKept, OneRowKept DEF IInv
<1>2. CASE UNCHANGED vars
  BY <1>2
  DEF vars, IInv, TypeOK, NothingDangles, StringsHeldOnce, OneRowPerKey, CallOK, KeyGone, Meant,
      CallRecord, Held, CallHolds, KeyOf, Asked, NewRecord, OldRecord, At
<1> QED
  BY <1>1, <1>2

THEOREM Invariant == Spec => []IInv
<1>1. Init => IInv
  BY InitHolds
<1>2. IInv /\ [Next]_vars => IInv'
  BY IInvKept
<1> QED
  BY <1>1, <1>2, PTL DEF Spec

(* Every variable of the store keeps its type.                             *)
THEOREM TypeCorrect == Spec => []TypeOK
<1>1. IInv => TypeOK
  BY DEF IInv
<1> QED
  BY <1>1, Invariant, PTL

(* Nothing that the index, a record or the running call refers to has been *)
(* deleted (myjql.c:124-147).                                              *)
THEOREM NothingEverDangles == Spec => []NothingDangles
<1>1. IInv => NothingDangles
  BY DEF IInv
<1> QED
  BY <1>1, Invariant, PTL

(* Every string has exactly one holder: none is lost, none is deleted for  *)
(* one holder and needed by another.                                       *)
THEOREM EveryStringHeldOnce == Spec => []StringsHeldOnce
<1>1. IInv => StringsHeldOnce
  BY DEF IInv
<1> QED
  BY <1>1, Invariant, PTL

(* No two rows of the index have the same key.                             *)
THEOREM KeysAreUnique == Spec => []OneRowPerKey
<1>1. IInv => OneRowPerKey
  BY DEF IInv
<1> QED
  BY <1>1, Invariant, PTL
-----------------------------------------------------------------------------
(* What the store holds, seen through the index.                           *)
LEMMA StoredValue ==
  ASSUME OneRowPerKey, NEW k \in Key
  PROVE  /\ Found(k) = {} => Stored[k] = None
         /\ \A r \in Found(k) : Found(k) = {r} /\ Stored[k] = text[records[r].value]
<1>1. Found(k) = {} => Stored[k] = None
  BY DEF Stored
<1>2. ASSUME NEW r \in Found(k) PROVE Found(k) = {r} /\ Stored[k] = text[records[r].value]
  <2>1. \A q \in Found(k) : q = r
    BY <1>2 DEF OneRowPerKey, Found
  <2>2. (CHOOSE q \in Found(k) : TRUE) = r
    BY <1>2, <2>1
  <2> QED
    BY <1>2, <2>1, <2>2 DEF Stored
<1> QED
  BY <1>1, <1>2

LEMMA StoredValueNext ==
  ASSUME OneRowPerKey', NEW k \in Key
  PROVE  /\ Found(k)' = {} => Stored'[k] = None
         /\ \A r \in Found(k)' : Stored'[k] = text'[records'[r].value]
<1>1. Found(k)' = {} => Stored'[k] = None
  BY DEF Stored
<1>2. ASSUME NEW r \in Found(k)' PROVE Stored'[k] = text'[records'[r].value]
  <2>1. \A q \in Found(k)' : q = r
    BY <1>2 DEF OneRowPerKey, Found
  <2>2. (CHOOSE q \in Found(k)' : TRUE) = r
    BY <1>2, <2>1
  <2> QED
    BY <1>2, <2>1, <2>2 DEF Stored
<1> QED
  BY <1>1, <1>2

LEMMA StoredKept ==
  ASSUME IInv, Next, NEW k \in Key, Found(k)' = Found(k)
  PROVE  Stored'[k] = Stored[k]
<1>1. OneRowPerKey /\ OneRowPerKey'
  BY OneRowKept DEF IInv
<1>2. CASE Found(k) = {}
  BY <1>1, <1>2, StoredValue, StoredValueNext
<1>3. ASSUME NEW r \in Found(k) PROVE Stored'[k] = Stored[k]
  <2>1. r \in leaves'
    BY <1>3 DEF Found
  <2>2. r \in Rid /\ records[r] # None /\ records'[r] # None
    BY <2>1, RowsStay
  <2>3. text'[records'[r].value] = text[records[r].value]
    BY <2>2, OthersKept
  <2> QED
    BY <1>1, <1>3, <2>3, StoredValue, StoredValueNext
<1> QED
  BY <1>2, <1>3

LEMMA SameLeaves == ASSUME IInv, Next, leaves' = leaves PROVE Stored' = Stored
<1>1. \A r \in leaves : KeyOf(r)' = KeyOf(r)
  BY RowsStay, KeysKept
<1>2. \A k \in Key : Found(k)' = Found(k)
  BY <1>1 DEF Found
<1>3. \A k \in Key : Stored'[k] = Stored[k]
  BY <1>2, StoredKept
<1> QED
  BY <1>3 DEF Stored

LEMMA StoredIsFunction ==
  Stored = [k \in Key |-> Stored[k]] /\ Stored' = [k \in Key |-> Stored'[k]]
<1> QED
  BY DEF Stored

LEMMA RemoveRowRemoves == ASSUME IInv, Next, RemoveRow PROVE Map!Remove(call.key)
<1>1. PICK x \in Key : x = call.key
  BY DEF RemoveRow, IInv, CallOK, Asked, At
<1>2. call.rid \in Found(x) /\ leaves' = leaves \ {call.rid} /\ answer' = None
  BY <1>1 DEF RemoveRow, IInv, CallOK, OldRecord, Found, KeyOf
<1>3. Found(x) = {call.rid} /\ Stored[x] = text[records[call.rid].value]
  BY <1>2, StoredValue DEF IInv
<1>4. Stored[x] # None
  BY <1>2, <1>3, StoreAssumption DEF Found, IInv, NothingDangles, Meant, TypeOK
<1>5. \A r \in leaves' : KeyOf(r)' = KeyOf(r)
  BY <1>2, RowsStay, KeysKept
<1>6. Stored'[x] = None
  <2>1. Found(x)' = {}
    BY <1>2, <1>3, <1>5 DEF Found
  <2> QED
    BY <2>1, OneRowKept, StoredValueNext
<1>7. ASSUME NEW k \in Key, k # x PROVE Stored'[k] = Stored[k]
  <2>1. KeyOf(call.rid) # k
    BY <1>2, <1>7 DEF Found
  <2>2. Found(k)' = Found(k)
    BY <1>2, <1>5, <2>1 DEF Found
  <2> QED
    BY <2>2, StoredKept
<1>8. Stored' = [Stored EXCEPT ![x] = None]
  BY <1>6, <1>7, StoredIsFunction
<1> QED
  BY <1>1, <1>2, <1>4, <1>8 DEF Map!Remove

LEMMA InsertPuts ==
  ASSUME IInv, Next, b_tree_insert \/ \E r, s \in Rid : SplitLeaf(r, s)
  PROVE  Map!Put(call.key, call.value)
<1>1. At("index") /\ leaves' = leaves \cup {call.rid} /\ answer' = None
  BY DEF b_tree_insert, SplitLeaf
<1>2. PICK x \in Key : x = call.key
  BY <1>1 DEF IInv, CallOK, Asked, At
<1>3. /\ call.rid \notin leaves /\ call.rid \in Rid /\ KeyOf(call.rid) = x
      /\ records[call.rid] # None /\ text[records[call.rid].value] = call.value
  BY <1>1, <1>2, StoreAssumption DEF IInv, CallOK, NewRecord, KeyOf
<1>4. PICK a \in Rid : a = call.rid
  BY <1>3
<1>5. records'[a] = records[a] /\ text'[records'[a].value] = call.value /\ KeyOf(a)' = x
  BY <1>1, <1>3, <1>4, RowsStay, OthersKept DEF KeyOf
<1>6. \A r \in leaves : KeyOf(r)' = KeyOf(r)
  BY <1>1, RowsStay, KeysKept
<1>7. Found(x) = {} /\ Stored[x] = None
  <2>1. Found(x) = {}
    BY <1>1, <1>2 DEF IInv, KeyGone, Found, At
  <2> QED
    BY <2>1, StoredValue DEF IInv
<1>8. Stored'[x] = call.value
  <2>1. a \in Found(x)'
    BY <1>1, <1>4, <1>5 DEF Found
  <2> QED
    BY <2>1, <1>5, OneRowKept, StoredValueNext
<1>9. ASSUME NEW k \in Key, k # x PROVE Stored'[k] = Stored[k]
  <2>1. Found(k)' = Found(k)
    BY <1>1, <1>4, <1>5, <1>6, <1>9 DEF Found
  <2> QED
    BY <2>1, StoredKept
<1>10. Stored' = [Stored EXCEPT ![x] = call.value]
  BY <1>8, <1>9, StoredIsFunction
<1> QED
  BY <1>1, <1>2, <1>7, <1>10 DEF Map!Put

LEMMA GetGets == ASSUME IInv, Next, NEW k \in Key, myjql_get(k) PROVE Map!Get(k)
<1>1. Stored' = Stored
  BY SameLeaves DEF myjql_get
<1>2. answer' = Stored[k]
  BY StoredValue DEF IInv, myjql_get
<1> QED
  BY <1>1, <1>2 DEF Map!Get

(* A step of the store is a step of the map or nothing.                    *)
LEMMA StepsMap ==
  ASSUME IInv, [Next]_vars
  PROVE  /\ [Map!Next]_<<Stored, answer>>
         /\ leaves' \ leaves # {} => Map!Put(call.key, call.value)
         /\ RemoveRow => Map!Remove(call.key)
<1>1. CASE UNCHANGED vars
  <2>1. Stored' = Stored /\ answer' = answer /\ leaves' = leaves
    BY <1>1 DEF vars, Stored, Found, KeyOf
  <2>2. ~RemoveRow
    BY <1>1 DEF vars, RemoveRow, IInv, CallOK
  <2> QED
    BY <2>1, <2>2
<1>2. CASE Next
  <2>1. ASSUME NEW k \in Key, myjql_get(k) PROVE Map!Get(k) /\ leaves' = leaves
    BY <1>2, <2>1, GetGets DEF myjql_get
  <2>2. ASSUME b_tree_insert \/ \E r, s \in Rid : SplitLeaf(r, s)
        PROVE  Map!Put(call.key, call.value) /\ call.key \in Key /\ call.value \in Value
    BY <1>2, <2>2, InsertPuts DEF b_tree_insert, SplitLeaf, IInv, CallOK, Asked, At
  <2>3. ASSUME RemoveRow PROVE Map!Remove(call.key) /\ call.key \in Key /\ leaves' \subseteq leaves
    BY <1>2, <2>3, RemoveRowRemoves DEF RemoveRow, IInv, CallOK, Asked, At
  <2>4. ASSUME leaves' = leaves, answer' = answer PROVE UNCHANGED <<Stored, answer>>
    BY <1>2, <2>4, SameLeaves
  <2>5. \/ \E k \in Key : myjql_get(k)
        \/ b_tree_insert \/ \E r, s \in Rid : SplitLeaf(r, s)
        \/ RemoveRow
        \/ leaves' = leaves /\ answer' = answer
    BY <1>2
    DEF Next, myjql_del, myjql_set, SetNew, SetFound, WriteKey, WriteValue, write_record, CopyRow,
        CopySeparator, delete_handler, Balanced, read_record, delete_record, DeleteKey, DeleteValue
  <2>6. [Map!Next]_<<Stored, answer>>
    BY <2>1, <2>2, <2>3, <2>4, <2>5 DEF Map!Next
  <2>7. leaves' \ leaves # {} => Map!Put(call.key, call.value)
    BY <2>1, <2>2, <2>3, <2>5
  <2> QED
    BY <2>3, <2>6, <2>7
<1> QED
  BY <1>1, <1>2

(* The store is the map that KeyValue promises, for any keys and values:   *)
(* it changes only where the index does, as the running call asks, and a   *)
(* get reads what was set last (myjql.c:103-148).                          *)
THEOREM StoreImplementsKeyValue == Spec => ImplementsKeyValue
<1>1. Init => Map!Init
  BY DEF Init, Map!Init, Stored, Found
<1>2. IInv /\ [Next]_vars =>
        /\ [Map!Next]_<<Stored, answer>>
        /\ [/\ leaves' \ leaves # {} => Map!Put(call.key, call.value)
            /\ RemoveRow => Map!Remove(call.key)]_vars
  BY StepsMap
<1> QED
  BY <1>1, <1>2, Invariant, PTL DEF Spec, ImplementsKeyValue, Map!Spec
-----------------------------------------------------------------------------
(* The strings of the table (Strings).  A string x in the pieces of d, as  *)
(* write_string cuts it: full chunks, and a last one that is empty only if *)
(* the string is.                                                          *)
Split(x, d) ==
    /\ d \in Seq(Seq(Char))
    /\ Len(d) >= 1
    /\ \A k \in 1 .. Len(d) - 1 : Len(d[k]) = STR_CHUNK_MAX_LEN
    /\ Len(d[Len(d)]) <= STR_CHUNK_MAX_LEN
    /\ Len(d) > 1 => Len(d[Len(d)]) > 0
    /\ (Len(d) - 1) * STR_CHUNK_MAX_LEN + Len(d[Len(d)]) = Len(x)
    /\ \A k \in 1 .. Len(d) : \A i \in 1 .. Len(d[k]) : d[k][i] = x[(k - 1) * STR_CHUNK_MAX_LEN + i]

(* How much goes into the last chunk, and how many full ones there are.    *)
LEMMA LastLenIs ==
    ASSUME NEW size \in Nat
    PROVE  \E q \in Nat :
             /\ LastLen(size) \in 0 .. STR_CHUNK_MAX_LEN
             /\ q > 0 => LastLen(size) > 0
             /\ size = q * STR_CHUNK_MAX_LEN + LastLen(size)
             /\ (size - LastLen(size)) \div STR_CHUNK_MAX_LEN = q
<1> DEFINE M == STR_CHUNK_MAX_LEN
           d == size \div M
           r == size % M
<1>1. M \in Nat \ {0}
  BY StringsAssumption
<1>2. d \in Nat /\ r \in 0 .. M - 1 /\ size = d * M + r
  BY <1>1
<1>3. CASE size # 0 /\ r = 0
  <2>1. LastLen(size) = M
    BY <1>3 DEF LastLen
  <2>2. d # 0
    BY <1>1, <1>2, <1>3
  <2>3. d - 1 \in Nat /\ d * M = (d - 1) * M + M
    BY <1>1, <1>2, <2>2
  <2>4. ((d - 1) * M) \div M = d - 1
    BY <1>1, <2>3
  <2>5. size - M = (d - 1) * M
    BY <1>1, <1>2, <1>3, <2>3
  <2>6. size = (d - 1) * M + M
    <3>1. size = d * M
      BY <1>1, <1>2, <1>3
    <3> QED
      BY <2>3, <3>1
  <2> HIDE DEF d, r
  <2> QED
    BY <1>1, <2>1, <2>3, <2>4, <2>5, <2>6
<1>4. CASE ~(size # 0 /\ r = 0)
  <2>1. LastLen(size) = r
    BY <1>4 DEF LastLen
  <2>2. r > 0 \/ d = 0
    BY <1>1, <1>2, <1>4
  <2>3. (d * M) \div M = d /\ size - r = d * M
    BY <1>1, <1>2
  <2> HIDE DEF d, r
  <2> QED
    BY <1>1, <1>2, <2>1, <2>2, <2>3
<1> QED
  BY <1>3, <1>4

LEMMA PiecesSplit ==
    ASSUME NEW x \in Seq(Char)
    PROVE  LET p == Pieces(x) IN
             /\ p \in Seq(Seq(Char)) /\ Len(p) >= 1
             /\ Split(x, [k \in 1 .. Len(p) |-> p[Len(p) + 1 - k]])
<1> DEFINE M == STR_CHUNK_MAX_LEN
           p == Pieces(x)
           l == LastLen(Len(x))
           rest == Len(x) - l
<1>1. M \in Nat \ {0} /\ Len(x) \in Nat
  BY StringsAssumption
<1>2. PICK q \in Nat : /\ l \in 0 .. M
                       /\ q > 0 => l > 0
                       /\ Len(x) = q * M + l
                       /\ rest \div M = q
  BY <1>1, LastLenIs
<1> HIDE DEF l
<1>3. rest = q * M /\ q * M \in Nat /\ l \in Nat
  BY <1>1, <1>2
<1> DEFINE front == [i \in 1 .. q |-> SubSeq(x, q * M - i * M + 1, q * M - (i - 1) * M)]
           last == SubSeq(x, q * M + 1, Len(x))
<1>4. p = <<last>> \o front
  BY <1>2, <1>3 DEF Pieces, l
<1>5. ASSUME NEW i \in 1 .. q
      PROVE  /\ front[i] = SubSeq(x, (q - i) * M + 1, (q - i) * M + M)
             /\ (q - i) * M \in Nat
             /\ (q - i) * M + M <= Len(x)
  <2>1. q * M - i * M = (q - i) * M /\ q * M - (i - 1) * M = (q - i) * M + M
    BY <1>1
  <2>2. q - i \in Nat /\ (q - i) * M \in Nat
    BY <1>1
  <2>3. (q - i) * M + M <= q * M
    <3>1. (i - 1) * M \in Nat
      BY <1>1
    <3> QED
      BY <2>1, <2>2, <3>1, <1>1, <1>3
  <2>4. front[i] = SubSeq(x, q * M - i * M + 1, q * M - (i - 1) * M)
    OBVIOUS
  <2> QED
    BY <1>1, <1>2, <1>3, <2>1, <2>2, <2>3, <2>4
<1>6. ASSUME NEW a \in Nat, NEW n \in Nat, a + n <= Len(x)
      PROVE  /\ SubSeq(x, a + 1, a + n) \in Seq(Char)
             /\ Len(SubSeq(x, a + 1, a + n)) = n
             /\ \A j \in 1 .. n : SubSeq(x, a + 1, a + n)[j] = x[a + j]
  <2>1. a + 1 \in Nat /\ a + n \in Nat
    BY <1>6
  <2>2. SubSeq(x, a + 1, a + n) = [j \in 1 .. n |-> x[a + j]]
    BY <1>1, <1>6, <2>1
  <2>3. \A j \in 1 .. n : x[a + j] \in Char
    <3>1. \A i \in 1 .. Len(x) : x[i] \in Char
      OBVIOUS
    <3>2. \A j \in 1 .. n : a + j \in 1 .. Len(x)
      BY <1>1, <1>6
    <3> QED
      BY <3>1, <3>2
  <2> DEFINE s == [j \in 1 .. n |-> x[a + j]]
  <2>4. s \in Seq(Char) /\ Len(s) = n /\ \A j \in 1 .. n : s[j] = x[a + j]
    BY <2>3
  <2> HIDE DEF s
  <2> QED
    BY <2>2, <2>4 DEF s
<1> HIDE DEF front, last
<1>7. last \in Seq(Char) /\ Len(last) = l /\ \A j \in 1 .. l : last[j] = x[q * M + j]
  BY <1>1, <1>2, <1>3, <1>6 DEF last
<1>8. front \in Seq(Seq(Char)) /\ Len(front) = q
  <2>1. \A i \in 1 .. q : front[i] \in Seq(Char)
    <3> TAKE i \in 1 .. q
    <3> DEFINE a == (q - i) * M
    <3>1. front[i] = SubSeq(x, a + 1, a + M) /\ a \in Nat /\ a + M <= Len(x)
      BY <1>5
    <3> HIDE DEF a
    <3> QED
      BY <1>1, <1>6, <3>1
  <2>2. front = [i \in 1 .. q |-> front[i]]
    BY DEF front
  <2> QED
    BY <2>1, <2>2
<1>9. /\ p \in Seq(Seq(Char)) /\ Len(p) = q + 1 /\ p[1] = last
      /\ \A i \in 2 .. q + 1 : p[i] = front[i - 1]
  <2> HIDE DEF p
  <2> QED
    BY <1>4, <1>7, <1>8
<1> HIDE DEF p
<1> DEFINE d == [k \in 1 .. Len(p) |-> p[Len(p) + 1 - k]]
<1>10. d \in Seq(Seq(Char)) /\ Len(d) = q + 1
  <2>1. \A k \in 1 .. Len(p) : p[Len(p) + 1 - k] \in Seq(Char)
    BY <1>9
  <2> QED
    BY <1>9, <2>1
<1>11. d[q + 1] = last
  BY <1>9
<1>12. ASSUME NEW k \in 1 .. q
       PROVE  /\ Len(d[k]) = M
              /\ \A j \in 1 .. M : d[k][j] = x[(k - 1) * M + j]
  <2>1. d[k] = p[q + 2 - k] /\ q + 2 - k \in 2 .. q + 1 /\ (q + 2 - k) - 1 = q + 1 - k
    BY <1>9
  <2>2. q + 1 - k \in 1 .. q /\ q - (q + 1 - k) = k - 1
    OBVIOUS
  <2>3. d[k] = front[q + 1 - k]
    BY <1>9, <2>1
  <2>4. d[k] = SubSeq(x, (k - 1) * M + 1, (k - 1) * M + M) /\ (k - 1) * M \in Nat
        /\ (k - 1) * M + M <= Len(x)
    BY <1>5, <2>2, <2>3
  <2> HIDE DEF d
  <2> QED
    BY <1>1, <1>6, <2>4
<1> HIDE DEF d
<1>13. Split(x, d)
  <2>1. (q + 1) - 1 = q
    OBVIOUS
  <2>2. ASSUME NEW k \in 1 .. q + 1, NEW i \in 1 .. Len(d[k]) PROVE d[k][i] = x[(k - 1) * M + i]
    <3>1. CASE k = q + 1
      BY <1>7, <1>11, <2>1, <3>1
    <3>2. CASE k # q + 1
      <4>1. k \in 1 .. q
        BY <3>2
      <4> QED
        BY <1>12, <4>1
    <3> QED
      BY <3>1, <3>2
  <2>3. \A k \in 1 .. q : Len(d[k]) = M
    BY <1>12
  <2>4. Len(d[q + 1]) = l
    BY <1>7, <1>11
  <2>5. Len(d) = q + 1 /\ Len(d) - 1 = q /\ Len(d) >= 1 /\ (Len(d) > 1 => q > 0)
    BY <1>10
  <2>6. d[Len(d)] = last /\ Len(last) = l
    BY <1>7, <1>10, <1>11
  <2>7. (Len(d) - 1) * M + Len(d[Len(d)]) = Len(x)
    BY <1>2, <2>5, <2>6
  <2>8. Len(d[Len(d)]) <= M /\ (Len(d) > 1 => Len(d[Len(d)]) > 0)
    BY <1>2, <2>5, <2>6
  <2>9. \A k \in 1 .. Len(d) - 1 : Len(d[k]) = M
    BY <2>3, <2>5
  <2> QED
    BY <1>10, <2>2, <2>5, <2>7, <2>8, <2>9 DEF Split
<1> QED
  BY <1>9, <1>13 DEF d, p
-----------------------------------------------------------------------------
(* String x is in table t, from rid s on, in the chunks of c.              *)
Tables == [Rid -> Chunk \cup {None}]

Carries(t, s, c, x) ==
    /\ IsList(NextOf(t), s, None, c)
    /\ IsInjective(c)
    /\ \A k \in 1 .. Len(c) : t[c[k]] # None
    /\ Split(x, [k \in 1 .. Len(c) |-> t[c[k]].data])

(* A rid that is free, if one is.                                          *)
LEMMA NewRidIs ==
    ASSUME NEW t, FreeRids(t) # {}
    PROVE  NewRid(t) \in FreeRids(t)
<1>1. FreeRids(t) \in SUBSET Nat
  BY StringsAssumption DEF FreeRids
<1>2. \E r \in FreeRids(t) : \A q \in FreeRids(t) : r <= q
  BY <1>1, LeastNat
<1> QED
  BY <1>2 DEF NewRid

(* The chunks that n rounds of write_string leave behind.                  *)
Put(t, p, n, w) ==
    \E c : /\ Len(c) = n
           /\ w.table \in Tables
           /\ w = [table |-> w.table, rid |-> w.rid]
           /\ IsList(NextOf(w.table), w.rid, None, c)
           /\ IsInjective(c)
           /\ ToSet(c) \subseteq FreeRids(t)
           /\ \A r \in Rid \ ToSet(c) : w.table[r] = t[r]
           /\ \A k \in 1 .. n : w.table[c[k]] # None /\ w.table[c[k]].data = p[n + 1 - k]

LEMMA FewInSet ==
    ASSUME NEW S, NEW c \in Seq(S)
    PROVE  IsFiniteSet(ToSet(c)) /\ Cardinality(ToSet(c)) <= Len(c)
<1>1. Len(c) \in Nat /\ DOMAIN c = 1 .. Len(c)
  OBVIOUS
<1>2. IsFiniteSet(1 .. Len(c)) /\ Cardinality(1 .. Len(c)) = Len(c)
  <2>1. 1 \in Int /\ Len(c) \in Int
    BY <1>1
  <2>2. IsFiniteSet(1 .. Len(c)) /\ Cardinality(1 .. Len(c)) = IF 1 > Len(c) THEN 0 ELSE Len(c) - 1 + 1
    BY <2>1, FS_Interval, Zenon
  <2> QED
    BY <1>1, <2>2
<1>3. c \in Surjection(1 .. Len(c), ToSet(c))
  <2>1. ToSet(c) = {c[i] : i \in 1 .. Len(c)}
    BY <1>1 DEF ToSet
  <2>2. c \in [1 .. Len(c) -> ToSet(c)]
    BY <1>1, <2>1
  <2> QED
    BY <2>1, <2>2 DEF Surjection
<1> QED
  BY <1>2, <1>3, FS_Surjection

LEMMA PutNext ==
    ASSUME NEW t \in Tables, NEW p \in Seq(Seq(Char)), NEW n \in 0 .. Len(p) - 1, NEW w, Put(t, p, n, w),
           Len(p) <= Cardinality(FreeRids(t))
    PROVE  Put(t, p, n + 1, PutChunk(w, p[n + 1]))
<1> DEFINE r == NewRid(w.table)
           v == PutChunk(w, p[n + 1])
<1>1. PICK c : /\ Len(c) = n
               /\ w.table \in Tables
               /\ w = [table |-> w.table, rid |-> w.rid]
               /\ IsList(NextOf(w.table), w.rid, None, c)
               /\ IsInjective(c)
               /\ ToSet(c) \subseteq FreeRids(t)
               /\ \A q \in Rid \ ToSet(c) : w.table[q] = t[q]
               /\ \A k \in 1 .. n : w.table[c[k]] # None /\ w.table[c[k]].data = p[n + 1 - k]
  BY DEF Put
<1>2. c \in Seq(Rid) /\ DOMAIN NextOf(w.table) = Rid /\ n \in Nat /\ p[n + 1] \in Seq(Char)
  BY <1>1 DEF IsList, NextOf
<1>3. \A k \in 1 .. n : c[k] \in ToSet(c) /\ c[k] \in Rid
  BY <1>1, <1>2, ToSetIs
<1>4. r \in FreeRids(w.table)
  <2>1. IsFiniteSet(ToSet(c)) /\ Cardinality(ToSet(c)) <= n
    BY <1>1, <1>2, FewInSet
  <2>2. ASSUME FreeRids(t) \subseteq ToSet(c) PROVE FALSE
    <3>1. Cardinality(FreeRids(t)) <= Cardinality(ToSet(c))
      BY <2>1, <2>2, FS_Subset
    <3>2. Cardinality(ToSet(c)) \in Nat /\ IsFiniteSet(FreeRids(t))
      BY <2>1, <2>2, FS_Subset, FS_CardinalityType
    <3>3. Cardinality(FreeRids(t)) \in Nat
      BY <3>2, FS_CardinalityType
    <3> QED
      BY <1>2, <2>1, <3>1, <3>2, <3>3
  <2>3. PICK q : q \in FreeRids(t) /\ q \notin ToSet(c)
    BY <2>2
  <2>4. q \in FreeRids(w.table)
    BY <1>1, <2>3 DEF FreeRids
  <2> QED
    BY <2>4, NewRidIs
<1>5. /\ r \in Rid /\ w.table[r] = None
      /\ r \notin ToSet(c) /\ r \in FreeRids(t)
  <2>1. r \in Rid /\ w.table[r] = None
    BY <1>4 DEF FreeRids
  <2>2. ASSUME r \in ToSet(c) PROVE FALSE
    <3>1. PICK k \in 1 .. Len(c) : c[k] = r
      BY <1>2, <2>2, ToSetIs
    <3> QED
      BY <1>1, <2>1, <3>1
  <2> QED
    BY <1>1, <2>1, <2>2 DEF FreeRids
<1>6. w.rid \in Rid \cup {None}
  BY <1>1, <1>2 DEF IsList
<1> DEFINE item == [rid |-> w.rid, data |-> p[n + 1]]
<1>7. item \in Chunk /\ item # None
  BY <1>2, <1>6, StringsAssumption DEF Chunk
<1>8. v = [table |-> [w.table EXCEPT ![r] = item], rid |-> r]
  BY DEF PutChunk
<1> HIDE DEF r, v
<1>9. /\ v.table \in Tables /\ v.rid = r
      /\ v.table[r] = item
      /\ \A q \in Rid : q # r => v.table[q] = w.table[q]
      /\ v = [table |-> v.table, rid |-> v.rid]
  BY <1>1, <1>5, <1>7, <1>8 DEF Tables
<1> DEFINE e == <<r>> \o c
<1>10. /\ e \in Seq(Rid) /\ Len(e) = n + 1 /\ e[1] = r
       /\ \A k \in 2 .. n + 1 : e[k] = c[k - 1]
  BY <1>1, <1>2, <1>5
<1>11. e \in Seq(Rid) /\ ToSet(e) = ToSet(c) \cup {r} /\ IsInjective(e)
  BY <1>1, <1>2, <1>5, ToSetPush
<1>12. IsList(NextOf(v.table), r, None, e)
  <2>1. DOMAIN NextOf(v.table) = DOMAIN NextOf(w.table) /\ r \in DOMAIN NextOf(w.table)
    BY <1>5 DEF NextOf
  <2>2. NextOf(v.table)[r] = w.rid
    BY <1>5, <1>7, <1>9 DEF NextOf
  <2>3. \A k \in 1 .. Len(c) : NextOf(v.table)[c[k]] = NextOf(w.table)[c[k]]
    BY <1>1, <1>3, <1>5, <1>9 DEF NextOf
  <2> QED
    BY <1>1, <2>1, <2>2, <2>3, ListPush
<1> HIDE DEF e, item
<1>13. \A q \in Rid \ ToSet(e) : v.table[q] = t[q]
  BY <1>1, <1>9, <1>11
<1>14. ASSUME NEW k \in 1 .. n + 1
       PROVE  v.table[e[k]] # None /\ v.table[e[k]].data = p[(n + 1) + 1 - k]
  <2>1. CASE k = 1
    <3>1. e[k] = r /\ (n + 1) + 1 - k = n + 1
      BY <1>2, <1>10, <2>1
    <3> QED
      BY <1>7, <1>9, <3>1 DEF item
  <2>2. CASE k # 1
    <3>1. k \in 2 .. n + 1 /\ k - 1 \in 1 .. n /\ (n + 1) + 1 - k = n + 1 - (k - 1)
      BY <1>2, <2>2
    <3>2. e[k] = c[k - 1] /\ c[k - 1] \in ToSet(c) /\ c[k - 1] \in Rid
      BY <1>3, <1>10, <3>1
    <3>3. v.table[e[k]] = w.table[c[k - 1]]
      BY <1>5, <1>9, <3>2
    <3> QED
      BY <1>1, <3>1, <3>3
  <2> QED
    BY <2>1, <2>2
<1>15. ToSet(e) \subseteq FreeRids(t)
  BY <1>1, <1>5, <1>11
<1> QED
  BY <1>9, <1>10, <1>11, <1>12, <1>13, <1>14, <1>15 DEF Put, v

(* write_string puts the string into chunks that were free, and changes no *)
(* other: the loop exists, by induction, and after n rounds it has put the *)
(* last n pieces.                                                          *)
LEMMA WriteIs ==
    ASSUME NEW t \in Tables, NEW x \in Seq(Char),
           Len(Pieces(x)) <= Cardinality(FreeRids(t))
    PROVE  LET w == write_string(t, x) IN
             \E c : /\ w.table \in Tables
                    /\ w.rid \in Rid
                    /\ Carries(w.table, w.rid, c, x)
                    /\ ToSet(c) \subseteq FreeRids(t)
                    /\ \A r \in Rid \ ToSet(c) : w.table[r] = t[r]
<1> DEFINE p == Pieces(x)
           N == Len(p)
           w0 == [table |-> t, rid |-> None]
           Loop(f, m) == f = [n \in 0 .. m |-> IF n = 0 THEN w0 ELSE PutChunk(f[n - 1], p[n])]
           f == CHOOSE f : Loop(f, N)
<1>0. Split(x, [k \in 1 .. N |-> p[N + 1 - k]])
  BY PiecesSplit
<1>1. p \in Seq(Seq(Char)) /\ N \in Nat /\ N >= 1
  <2>1. p \in Seq(Seq(Char)) /\ N >= 1
    BY PiecesSplit
  <2> HIDE DEF p
  <2> QED
    BY <2>1
<1>2. write_string(t, x) = f[N]
  BY DEF write_string
<1> HIDE DEF p, N, f
<1>3. \E g : Loop(g, N)
  <2> DEFINE Exists == {m \in 0 .. N : \E g : Loop(g, m)}
  <2>1. 0 \in Exists
    <3> DEFINE g == [n \in 0 .. 0 |-> w0]
    <3>1. Loop(g, 0)
      OBVIOUS
    <3>2. \E h : Loop(h, 0)
      <4> HIDE DEF Loop
      <4> QED
        BY <3>1
    <3> HIDE DEF Loop
    <3> QED
      BY <1>1, <3>2
  <2>2. ASSUME NEW m \in 0 .. N - 1, m \in Exists PROVE m + 1 \in Exists
    <3>1. PICK g : Loop(g, m)
      BY <2>2
    <3> DEFINE h == [n \in 0 .. m + 1 |-> IF n <= m THEN g[n] ELSE PutChunk(g[m], p[m + 1])]
    <3>2. m \in Nat /\ m + 1 \in 0 .. N
      BY <1>1
    <3>3. \A n \in 0 .. m : h[n] = g[n]
      BY <3>2
    <3>4. ASSUME NEW n \in 0 .. m + 1 PROVE h[n] = IF n = 0 THEN w0 ELSE PutChunk(h[n - 1], p[n])
      <4>1. CASE n = m + 1
        <5>1. h[n] = PutChunk(g[m], p[m + 1]) /\ n # 0 /\ n - 1 = m /\ m \in 0 .. m
          BY <3>2, <4>1
        <5> QED
          BY <3>3, <4>1, <5>1
      <4>2. CASE n # m + 1
        <5>1. n \in 0 .. m /\ (n # 0 => n - 1 \in 0 .. m)
          BY <3>2, <4>2
        <5>2. g[n] = IF n = 0 THEN w0 ELSE PutChunk(g[n - 1], p[n])
          BY <3>1, <5>1
        <5> HIDE DEF h
        <5> QED
          BY <3>3, <5>1, <5>2
      <4> QED
        BY <4>1, <4>2
    <3>5. Loop(h, m + 1)
      <4>1. h = [n \in 0 .. m + 1 |-> h[n]]
        OBVIOUS
      <4> HIDE DEF h
      <4> QED
        BY <3>4, <4>1
    <3>6. \E k : Loop(k, m + 1)
      <4> HIDE DEF Loop, h
      <4> QED
        BY <3>5
    <3> HIDE DEF Loop
    <3> QED
      BY <3>2, <3>6
  <2> HIDE DEF Exists
  <2>3. N \in Exists
    <3>1. N \in Nat
      BY <1>1
    <3>2. \A n \in 0 .. N : n \in Exists
      BY <3>1, <2>1, <2>2, AllNat
    <3> QED
      BY <3>1, <3>2
  <2> QED
    BY <2>3 DEF Exists
<1>4. Loop(f, N)
  BY <1>3 DEF f
<1>5. f[0] = w0 /\ \A n \in 0 .. N - 1 : f[n + 1] = PutChunk(f[n], p[n + 1])
  <2>1. f[0] = w0
    BY <1>1, <1>4
  <2>2. ASSUME NEW n \in 0 .. N - 1 PROVE f[n + 1] = PutChunk(f[n], p[n + 1])
    <3>1. n + 1 \in 0 .. N /\ n + 1 # 0 /\ (n + 1) - 1 = n
      BY <1>1
    <3> QED
      BY <1>4, <3>1
  <2> QED
    BY <2>1, <2>2
<1> DEFINE Good == {n \in 0 .. N : Put(t, p, n, f[n])}
<1>6. 0 \in Good
  <2> DEFINE c == <<>>
  <2>1. Len(c) = 0 /\ c \in Seq(Rid) /\ DOMAIN c = {} /\ ToSet(c) = {}
    BY DEF ToSet
  <2> HIDE DEF c
  <2>2. IsInjective(c) /\ IsList(NextOf(t), None, None, c)
    BY <2>1 DEF IsInjective, IsList, NextOf
  <2>3. f[0].table = t /\ f[0].rid = None /\ f[0] = [table |-> f[0].table, rid |-> f[0].rid]
    BY <1>5
  <2>4. Put(t, p, 0, f[0])
    BY <2>1, <2>2, <2>3 DEF Put
  <2> QED
    BY <1>1, <2>4
<1>7. \A n \in 0 .. N - 1 : n \in Good => n + 1 \in Good
  <2> SUFFICES ASSUME NEW n \in 0 .. N - 1, n \in Good PROVE n + 1 \in Good
    OBVIOUS
  <2>1. n + 1 \in 0 .. N
    BY <1>1
  <2>2. Put(t, p, n, f[n])
    OBVIOUS
  <2>3. Put(t, p, n + 1, PutChunk(f[n], p[n + 1]))
    BY <1>1, <2>2, PutNext DEF p, N
  <2> QED
    BY <1>5, <2>1, <2>3
<1> HIDE DEF Good
<1>8. N \in Good
  <2>1. N \in Nat
    BY <1>1
  <2>2. \A n \in 0 .. N : n \in Good
    BY <2>1, <1>6, <1>7, AllNat
  <2> QED
    BY <2>1, <2>2
<1> DEFINE w == f[N]
<1>9. PICK c : /\ Len(c) = N
               /\ w.table \in Tables
               /\ IsList(NextOf(w.table), w.rid, None, c)
               /\ IsInjective(c)
               /\ ToSet(c) \subseteq FreeRids(t)
               /\ \A r \in Rid \ ToSet(c) : w.table[r] = t[r]
               /\ \A k \in 1 .. N : w.table[c[k]] # None /\ w.table[c[k]].data = p[N + 1 - k]
  BY <1>8 DEF Good, Put
<1>10. w.rid \in Rid
  <2>1. c \in Seq(Rid) /\ c # <<>> /\ w.rid = c[1]
    BY <1>1, <1>9 DEF IsList, NextOf
  <2> QED
    BY <2>1
<1>11. [k \in 1 .. Len(c) |-> w.table[c[k]].data] = [k \in 1 .. N |-> p[N + 1 - k]]
  BY <1>9
<1>12. Carries(w.table, w.rid, c, x)
  BY <1>0, <1>9, <1>11 DEF Carries
<1> QED
  BY <1>2, <1>9, <1>10, <1>12

(* What the chunks of a string say, one by one.                            *)
LEMMA CarriesIs ==
    ASSUME NEW t \in Tables, NEW s, NEW c, NEW x \in Seq(Char), Carries(t, s, c, x)
    PROVE  /\ c \in Seq(Rid) /\ Len(c) \in Nat \ {0} /\ c[1] = s /\ s \in Rid
           /\ \A k \in 1 .. Len(c) :
                /\ c[k] \in Rid /\ t[c[k]] \in Chunk
                /\ t[c[k]].rid = IF k < Len(c) THEN c[k + 1] ELSE None
                /\ t[c[k]].data \in Seq(Char)
                /\ Len(t[c[k]].data) \in Nat
                /\ k < Len(c) => Len(t[c[k]].data) = STR_CHUNK_MAX_LEN
                /\ k > 1 => Len(t[c[k]].data) > 0
                /\ (k - 1) * STR_CHUNK_MAX_LEN \in Nat
                /\ (k - 1) * STR_CHUNK_MAX_LEN + Len(t[c[k]].data) <= Len(x)
                /\ k = Len(c) => (k - 1) * STR_CHUNK_MAX_LEN + Len(t[c[k]].data) = Len(x)
                /\ \A i \in 1 .. Len(t[c[k]].data) :
                     t[c[k]].data[i] = x[(k - 1) * STR_CHUNK_MAX_LEN + i]
<1> DEFINE M == STR_CHUNK_MAX_LEN
           m == Len(c)
           d == [k \in 1 .. m |-> t[c[k]].data]
<1>1. M \in Nat \ {0} /\ Len(x) \in Nat
  BY StringsAssumption
<1>2. /\ IsList(NextOf(t), s, None, c)
      /\ \A k \in 1 .. m : t[c[k]] # None
      /\ Split(x, d)
  BY DEF Carries
<1>3. c \in Seq(Rid) /\ m \in Nat
  BY <1>2 DEF IsList, NextOf
<1>4. d \in Seq(Seq(Char)) /\ Len(d) = m /\ \A k \in 1 .. m : d[k] = t[c[k]].data
  BY <1>2, <1>3 DEF Split
<1>5. /\ m >= 1
      /\ \A k \in 1 .. m - 1 : Len(d[k]) = M
      /\ Len(d[m]) <= M
      /\ m > 1 => Len(d[m]) > 0
      /\ (m - 1) * M + Len(d[m]) = Len(x)
      /\ \A k \in 1 .. m : \A i \in 1 .. Len(d[k]) : d[k][i] = x[(k - 1) * M + i]
  BY <1>2, <1>4 DEF Split
<1>6. c # <<>> /\ c[1] = s /\ s \in Rid /\ NextOf(t)[c[m]] = None
      /\ \A k \in 1 .. m - 1 : NextOf(t)[c[k]] = c[k + 1]
  BY <1>2, <1>3, <1>5 DEF IsList
<1> HIDE DEF d
<1> SUFFICES ASSUME NEW k \in 1 .. m
             PROVE  /\ c[k] \in Rid /\ t[c[k]] \in Chunk
                    /\ t[c[k]].rid = IF k < Len(c) THEN c[k + 1] ELSE None
                    /\ t[c[k]].data \in Seq(Char)
                    /\ Len(t[c[k]].data) \in Nat
                    /\ k < m => Len(t[c[k]].data) = M
                    /\ k > 1 => Len(t[c[k]].data) > 0
                    /\ (k - 1) * M \in Nat
                    /\ (k - 1) * M + Len(t[c[k]].data) <= Len(x)
                    /\ k = m => (k - 1) * M + Len(t[c[k]].data) = Len(x)
                    /\ \A i \in 1 .. Len(t[c[k]].data) :
                         t[c[k]].data[i] = x[(k - 1) * M + i]
  <2>1. m \in Nat \ {0}
    BY <1>3, <1>5
  <2> QED
    BY <1>3, <1>6, <2>1
<1>7. c[k] \in Rid
  BY <1>3
<1>8. t[c[k]] \in Chunk
  BY <1>2, <1>7 DEF Tables
<1>9. t[c[k]].rid = NextOf(t)[c[k]]
  BY <1>2, <1>7 DEF NextOf
<1>10. k < m \/ k = m
  BY <1>3
<1>11. t[c[k]].rid = IF k < m THEN c[k + 1] ELSE None
  BY <1>3, <1>6, <1>9, <1>10
<1>12. d[k] = t[c[k]].data /\ d[k] \in Seq(Char) /\ Len(d[k]) \in Nat
  BY <1>4, <1>8 DEF Chunk
<1>13. k < m => Len(d[k]) = M
  BY <1>3, <1>5
<1>14. k > 1 => Len(d[k]) > 0
  BY <1>1, <1>3, <1>5, <1>10, <1>13
<1>15. k - 1 \in Nat /\ (k - 1) * M \in Nat
  BY <1>1
<1>16. k = m => (k - 1) * M + Len(d[k]) = Len(x)
  BY <1>5
<1>17. (k - 1) * M + Len(d[k]) <= Len(x)
  <2> DEFINE A == (k - 1) * M
             B == (m - 1 - k) * M
             C == (m - 1) * M
  <2>1. CASE k = m
    <3>1. A + Len(d[k]) = Len(x)
      BY <1>16, <2>1
    <3> HIDE DEF A
    <3>2. A + Len(d[k]) <= Len(x)
      BY <1>1, <3>1
    <3> QED
      BY <3>2 DEF A
  <2>2. CASE k < m
    <3>1. C = A + M + B
      BY <1>1, <1>3
    <3>2. m - 1 - k \in Nat /\ B \in Nat
      BY <1>1, <1>3, <2>2
    <3>3. A \in Nat
      BY <1>15
    <3>4. Len(d[m]) \in Nat
      BY <1>3, <1>4, <1>5
    <3>5. C + Len(d[m]) = Len(x) /\ Len(d[k]) = M
      BY <1>5, <1>13, <2>2
    <3> HIDE DEF A, B, C
    <3>6. A + Len(d[k]) <= Len(x)
      <4>1. ASSUME NEW l \in Nat, NEW y \in Nat, C + l = y PROVE A + M <= y
        BY <1>1, <3>1, <3>2, <3>3, <4>1
      <4>2. A + M <= Len(x)
        BY <1>1, <3>4, <3>5, <4>1
      <4> QED
        BY <3>5, <4>2
    <3> QED
      BY <3>6 DEF A
  <2> QED
    BY <1>10, <2>1, <2>2
<1>18. \A i \in 1 .. Len(d[k]) : d[k][i] = x[(k - 1) * M + i]
  BY <1>5
<1> QED
  BY <1>7, <1>8, <1>11, <1>12, <1>13, <1>14, <1>15, <1>16, <1>17, <1>18

-----------------------------------------------------------------------------
(* A StringRecord that has read n characters of a string.                  *)
Stands(t, c, n, a) ==
    \E k \in 1 .. Len(c) : \E i \in 0 .. Len(t[c[k]].data) :
      a = [chunk |-> t[c[k]], idx |-> i] /\ n = (k - 1) * STR_CHUNK_MAX_LEN + i

LEMMA StandsFirst ==
    ASSUME NEW t \in Tables, NEW s, NEW c, NEW x \in Seq(Char), Carries(t, s, c, x)
    PROVE  Stands(t, c, 0, read_string(t, s))
<1>1. /\ Len(c) \in Nat \ {0} /\ c[1] = s /\ 1 \in 1 .. Len(c)
      /\ Len(t[c[1]].data) \in Nat
  <2>1. Len(c) \in Nat \ {0} /\ c[1] = s
    BY CarriesIs
  <2>2. 1 \in 1 .. Len(c)
    BY <2>1
  <2> QED
    BY <2>1, <2>2, CarriesIs
<1>2. 0 = (1 - 1) * STR_CHUNK_MAX_LEN + 0 /\ 0 \in 0 .. Len(t[c[1]].data)
  BY <1>1, StringsAssumption
<1>3. read_string(t, s) = [chunk |-> t[c[1]], idx |-> 0]
  BY <1>1 DEF read_string
<1> QED
  BY <1>1, <1>2, <1>3 DEF Stands

(* has_next_char tells the end of the string, and next_char takes the next *)
(* character, whether it is in this chunk or in the next one.              *)
LEMMA StandsNext ==
    ASSUME NEW t \in Tables, NEW s, NEW c, NEW x \in Seq(Char), Carries(t, s, c, x),
           NEW n \in Nat, NEW a, Stands(t, c, n, a)
    PROVE  /\ n <= Len(x)
           /\ has_next_char(a) <=> n < Len(x)
           /\ n < Len(x) => /\ next_char(t, a) = x[n + 1]
                            /\ Stands(t, c, n + 1, Advance(t, a))
<1> DEFINE M == STR_CHUNK_MAX_LEN
           m == Len(c)
           D(k) == t[c[k]].data
<1>1. M \in Nat \ {0} /\ Len(x) \in Nat
  BY StringsAssumption
<1>a. PICK k \in 1 .. m : \E i \in 0 .. Len(D(k)) :
        a = [chunk |-> t[c[k]], idx |-> i] /\ n = (k - 1) * M + i
  BY DEF Stands
<1> DEFINE A == (k - 1) * M
<1>2. PICK i \in 0 .. Len(D(k)) : a = [chunk |-> t[c[k]], idx |-> i] /\ n = A + i
  BY <1>a
<1>3. /\ m \in Nat \ {0}
      /\ t[c[k]].rid = IF k < m THEN c[k + 1] ELSE None
      /\ Len(D(k)) \in Nat
      /\ k < m => Len(D(k)) = M
      /\ A \in Nat
      /\ A + Len(D(k)) <= Len(x)
      /\ k = m => A + Len(D(k)) = Len(x)
      /\ \A j \in 1 .. Len(D(k)) : D(k)[j] = x[A + j]
  BY CarriesIs
<1> HIDE DEF A
<1>4. n <= Len(x)
  BY <1>1, <1>2, <1>3
<1>5. a.idx = i /\ a.chunk = t[c[k]]
  BY <1>2
<1>6. CASE i # Len(D(k))
  <2>1. i < Len(D(k)) /\ i + 1 \in 1 .. Len(D(k)) /\ i + 1 \in 0 .. Len(D(k))
    BY <1>3, <1>6
  <2>2. has_next_char(a)
    BY <1>5, <1>6 DEF has_next_char
  <2>3. n < Len(x) /\ n + 1 = A + (i + 1)
    BY <1>1, <1>2, <1>3, <2>1
  <2>4. Ready(t, a) = a
    BY <1>5, <1>6 DEF Ready
  <2>5. next_char(t, a) = D(k)[i + 1]
    BY <1>5, <2>1, <2>4 DEF next_char, CharAt
  <2>6. D(k)[i + 1] = x[n + 1]
    BY <1>3, <2>1, <2>3
  <2>7. Advance(t, a) = [chunk |-> t[c[k]], idx |-> i + 1]
    BY <1>2, <2>4 DEF Advance
  <2>8. Stands(t, c, n + 1, Advance(t, a))
    BY <2>1, <2>3, <2>7 DEF Stands, A
  <2> QED
    BY <1>4, <2>2, <2>3, <2>5, <2>6, <2>8
<1>7. CASE i = Len(D(k)) /\ k < m
  <2> DEFINE B == k * M
  <2>1. k + 1 \in 1 .. m /\ (k + 1) - 1 = k /\ k + 1 > 1
    BY <1>3, <1>7
  <2>2. /\ c[k + 1] \in Rid
        /\ Len(D(k + 1)) \in Nat /\ Len(D(k + 1)) > 0
        /\ B \in Nat /\ B + Len(D(k + 1)) <= Len(x)
        /\ \A j \in 1 .. Len(D(k + 1)) : D(k + 1)[j] = x[B + j]
    BY <2>1, CarriesIs
  <2>3. n = B
    <3>1. B = A + M
      BY <1>1 DEF A
    <3> QED
      BY <1>2, <1>3, <1>7, <3>1
  <2> HIDE DEF B
  <2>4. n < Len(x)
    BY <1>1, <2>2, <2>3
  <2>5. a.chunk.rid = c[k + 1] /\ c[k + 1] # None
    BY <1>3, <1>5, <1>7, <2>2, StoreAssumption
  <2>6. has_next_char(a)
    BY <2>5 DEF has_next_char
  <2>7. Ready(t, a) = [chunk |-> t[c[k + 1]], idx |-> 0]
    BY <1>5, <1>7, <2>5 DEF Ready, read_string
  <2>8. next_char(t, a) = D(k + 1)[1]
    BY <2>2, <2>7 DEF next_char, CharAt
  <2>9. D(k + 1)[1] = x[n + 1]
    <3>1. 1 \in 1 .. Len(D(k + 1))
      BY <2>2
    <3> QED
      BY <2>2, <2>3, <3>1
  <2>10. Advance(t, a) = [chunk |-> t[c[k + 1]], idx |-> 1]
    BY <2>7 DEF Advance
  <2>11. n + 1 = ((k + 1) - 1) * M + 1 /\ 1 \in 0 .. Len(D(k + 1))
    BY <2>1, <2>2, <2>3 DEF B
  <2>12. Stands(t, c, n + 1, Advance(t, a))
    BY <2>1, <2>10, <2>11 DEF Stands
  <2> QED
    BY <1>4, <2>4, <2>6, <2>8, <2>9, <2>12
<1>8. CASE i = Len(D(k)) /\ k = m
  <2>1. ~has_next_char(a)
    BY <1>3, <1>5, <1>8 DEF has_next_char
  <2>2. n = Len(x)
    BY <1>2, <1>3, <1>8
  <2> QED
    BY <1>1, <2>1, <2>2
<1> QED
  BY <1>3, <1>6, <1>7, <1>8

LEMMA StandsTyped ==
    ASSUME NEW t \in Tables, NEW s, NEW c, NEW x \in Seq(Char), Carries(t, s, c, x),
           NEW n \in Nat, NEW a, Stands(t, c, n, a)
    PROVE  a \in [chunk : Chunk, idx : Nat]
<1>1. PICK k \in 1 .. Len(c) : \E i \in 0 .. Len(t[c[k]].data) : a = [chunk |-> t[c[k]], idx |-> i]
  BY DEF Stands
<1>2. t[c[k]] \in Chunk
  BY CarriesIs
<1> QED
  BY <1>1, <1>2

(* A loop whose rounds stay within a set of states.                        *)
Rounds(f, S, step, w, N) ==
    /\ f \in [0 .. N -> S]
    /\ f[0] = w
    /\ \A n \in 0 .. N - 1 : f[n + 1] = step[f[n]]

LEMMA RoundsExist ==
    ASSUME NEW S, NEW step \in [S -> S], NEW w \in S, NEW N \in Nat
    PROVE  \E f : Rounds(f, S, step, w, N)
<1> DEFINE Runs(f, m) == /\ f \in [0 .. m -> S]
                         /\ f[0] = w
                         /\ \A n \in 0 .. m - 1 : f[n + 1] = step[f[n]]
           Exists == {m \in 0 .. N : \E f : Runs(f, m)}
<1>1. 0 \in Exists
  <2>1. Runs([n \in 0 .. 0 |-> w], 0)
    OBVIOUS
  <2>2. \E f : Runs(f, 0)
    <3> HIDE DEF Runs
    <3> QED
      BY <2>1
  <2> HIDE DEF Runs
  <2> QED
    BY <2>2
<1>2. ASSUME NEW m \in 0 .. N - 1, m \in Exists PROVE m + 1 \in Exists
  <2>1. PICK f : Runs(f, m)
    BY <1>2
  <2>2. m \in Nat /\ m + 1 \in 0 .. N /\ f[m] \in S /\ step[f[m]] \in S
    BY <2>1
  <2> DEFINE g == [n \in 0 .. m + 1 |-> IF n <= m THEN f[n] ELSE step[f[m]]]
  <2>3. g \in [0 .. m + 1 -> S] /\ g[0] = w
    BY <2>1, <2>2
  <2>4. ASSUME NEW n \in 0 .. m PROVE g[n + 1] = step[g[n]]
    <3>1. CASE n = m
      BY <2>2, <3>1
    <3>2. CASE n # m
      <4>1. n \in 0 .. m - 1 /\ n + 1 \in 0 .. m
        BY <2>2, <3>2
      <4>2. f[n + 1] = step[f[n]]
        BY <2>1, <4>1
      <4> QED
        BY <2>2, <4>1, <4>2
    <3> QED
      BY <3>1, <3>2
  <2>5. Runs(g, m + 1)
    <3> HIDE DEF g
    <3>1. (m + 1) - 1 = m
      BY <2>2
    <3> QED
      BY <2>3, <2>4, <3>1
  <2>6. \E h : Runs(h, m + 1)
    <3> HIDE DEF Runs, g
    <3> QED
      BY <2>5
  <2> HIDE DEF Runs
  <2> QED
    BY <2>2, <2>6
<1> HIDE DEF Exists
<1>3. N \in Exists
  BY <1>1, <1>2, AllNat
<1>4. PICK f : Runs(f, N)
  BY <1>3 DEF Exists
<1> QED
  BY <1>4 DEF Rounds

(* load_string reads the string, or as much of it as it has been told.     *)
LEMMA LoadIs ==
    ASSUME NEW t \in Tables, NEW s, NEW c, NEW x \in Seq(Char), Carries(t, s, c, x), NEW max \in Nat
    PROVE  load_string(t, read_string(t, s), max) = SubSeq(x, 1, IF max < Len(x) THEN max ELSE Len(x))
<1> DEFINE a == read_string(t, s)
           w0 == [record |-> a, dest |-> <<>>]
           Loop(f) == f = [n \in 0 .. max |-> IF n = 0 THEN w0 ELSE LoadNext(t, f[n - 1])]
           f == CHOOSE f : Loop(f)
           upTo(n) == IF n < Len(x) THEN n ELSE Len(x)
           S == {w \in [record : [chunk : Chunk, idx : Nat], dest : Seq(Char)] :
                   \E n \in Nat : Stands(t, c, n, w.record)}
           step == [w \in S |-> LoadNext(t, w)]
<1>1. load_string(t, a, max) = f[max].dest
  BY DEF load_string
<1> HIDE DEF f
<1>2. Stands(t, c, 0, a) /\ Len(x) \in Nat
  BY StandsFirst
<1>3. w0 \in S
  BY <1>2, StandsTyped
<1>4. step \in [S -> S]
  <2> SUFFICES ASSUME NEW w \in S PROVE LoadNext(t, w) \in S
    OBVIOUS
  <2>1. PICK n \in Nat : Stands(t, c, n, w.record)
    OBVIOUS
  <2>2. CASE has_next_char(w.record)
    <3>1. n < Len(x) /\ next_char(t, w.record) = x[n + 1] /\ Stands(t, c, n + 1, Advance(t, w.record))
      BY <2>1, <2>2, StandsNext
    <3>2. x[n + 1] \in Char /\ n + 1 \in Nat
      <4>1. n + 1 \in 1 .. Len(x)
        BY <1>2, <3>1
      <4> QED
        BY <4>1
    <3>3. Advance(t, w.record) \in [chunk : Chunk, idx : Nat]
      BY <3>1, <3>2, StandsTyped
    <3>4. Append(w.dest, next_char(t, w.record)) \in Seq(Char)
      BY <3>1, <3>2
    <3>5. LoadNext(t, w) = [record |-> Advance(t, w.record), dest |-> Append(w.dest, next_char(t, w.record))]
      BY <2>2 DEF LoadNext
    <3> QED
      BY <3>1, <3>2, <3>3, <3>4, <3>5
  <2>3. CASE ~has_next_char(w.record)
    BY <2>3 DEF LoadNext
  <2> QED
    BY <2>2, <2>3
<1> HIDE DEF w0, S
<1>5. \E g : Loop(g)
  <2>1. PICK g : /\ g \in [0 .. max -> S] /\ g[0] = w0
                 /\ \A n \in 0 .. max - 1 : g[n + 1] = step[g[n]]
    <3> HIDE DEF step
    <3>1. \E g : Rounds(g, S, step, w0, max)
      BY <1>3, <1>4, RoundsExist
    <3> QED
      BY <3>1 DEF Rounds
  <2>2. ASSUME NEW n \in 0 .. max PROVE g[n] = IF n = 0 THEN w0 ELSE LoadNext(t, g[n - 1])
    <3>1. CASE n # 0
      <4>1. n - 1 \in 0 .. max - 1 /\ (n - 1) + 1 = n /\ n - 1 \in 0 .. max
        BY <3>1
      <4> QED
        BY <2>1, <3>1, <4>1
    <3> QED
      BY <2>1, <3>1
  <2>3. g = [n \in 0 .. max |-> g[n]]
    BY <2>1
  <2> QED
    BY <2>2, <2>3
<1>6. Loop(f)
  BY <1>5 DEF f
<1>7. f[0] = w0 /\ \A n \in 0 .. max - 1 : f[n + 1] = LoadNext(t, f[n])
  <2>1. f[0] = w0
    BY <1>6
  <2>2. ASSUME NEW n \in 0 .. max - 1 PROVE f[n + 1] = LoadNext(t, f[n])
    <3>1. n + 1 \in 0 .. max /\ n + 1 # 0 /\ (n + 1) - 1 = n
      OBVIOUS
    <3> QED
      BY <1>6, <3>1
  <2> QED
    BY <2>1, <2>2
<1> DEFINE Good == {n \in 0 .. max : /\ Stands(t, c, upTo(n), f[n].record)
                                     /\ f[n].dest = SubSeq(x, 1, upTo(n))}
<1>8. 0 \in Good
  <2>1. upTo(0) = 0 /\ f[0].record = a /\ f[0].dest = <<>>
    BY <1>2, <1>7 DEF w0
  <2>2. SubSeq(x, 1, 0) = <<>>
    OBVIOUS
  <2>3. Stands(t, c, upTo(0), f[0].record) /\ f[0].dest = SubSeq(x, 1, upTo(0))
    BY <1>2, <2>1, <2>2
  <2> HIDE DEF upTo
  <2> QED
    BY <2>3
<1>9. ASSUME NEW n \in 0 .. max - 1, n \in Good PROVE n + 1 \in Good
  <2>1. upTo(n) \in Nat /\ Stands(t, c, upTo(n), f[n].record) /\ f[n + 1] = LoadNext(t, f[n])
        /\ f[n].dest = SubSeq(x, 1, upTo(n)) /\ n + 1 \in 0 .. max
    BY <1>2, <1>7, <1>9
  <2>2. has_next_char(f[n].record) <=> upTo(n) < Len(x)
    BY <2>1, StandsNext
  <2>3. CASE n < Len(x)
    <3>1. upTo(n) = n /\ upTo(n + 1) = n + 1 /\ n \in Nat
      BY <1>2, <2>3
    <3>2. next_char(t, f[n].record) = x[n + 1] /\ Stands(t, c, n + 1, Advance(t, f[n].record))
      BY <2>1, <2>3, <3>1, StandsNext
    <3>3. f[n + 1] = [record |-> Advance(t, f[n].record), dest |-> Append(SubSeq(x, 1, n), x[n + 1])]
      BY <2>1, <2>2, <2>3, <3>1, <3>2 DEF LoadNext
    <3>4. Append(SubSeq(x, 1, n), x[n + 1]) = SubSeq(x, 1, n + 1)
      BY <1>2, <2>3, <3>1
    <3>5. f[n + 1].record = Advance(t, f[n].record) /\ f[n + 1].dest = SubSeq(x, 1, n + 1)
      BY <3>3, <3>4
    <3>6. Stands(t, c, upTo(n + 1), f[n + 1].record) /\ f[n + 1].dest = SubSeq(x, 1, upTo(n + 1))
      BY <3>1, <3>2, <3>5
    <3> HIDE DEF upTo
    <3> QED
      BY <2>1, <3>6
  <2>4. CASE ~(n < Len(x))
    <3>1. upTo(n) = Len(x) /\ upTo(n + 1) = Len(x)
      BY <1>2, <2>4
    <3>2. f[n + 1] = f[n]
      BY <1>2, <2>1, <2>2, <3>1 DEF LoadNext
    <3> QED
      BY <2>1, <3>1, <3>2
  <2> QED
    BY <2>3, <2>4
<1> HIDE DEF Good
<1>10. max \in Good
  <2>1. \A n \in 0 .. max : n \in Good
    BY <1>8, <1>9, AllNat
  <2> QED
    BY <2>1
<1>11. f[max].dest = SubSeq(x, 1, upTo(max))
  BY <1>10 DEF Good
<1> QED
  BY <1>1, <1>11

-----------------------------------------------------------------------------
LEMMA CharOrder ==
    ASSUME NEW u \in Char, NEW v \in Char
    PROVE  ~(u < u) /\ (u < v \/ v < u \/ u = v) /\ ~(u < v /\ v < u)
<1>1. u \in Int /\ v \in Int
  BY DEF Char
<1> QED
  BY <1>1

(* The order of two strings that agree in their first n characters.        *)
LEMMA OrderLess ==
    ASSUME NEW x \in Seq(Char), NEW y \in Seq(Char), NEW n \in Nat, n <= Len(x), n < Len(y),
           \A i \in 1 .. n : x[i] = y[i],
           n = Len(x) \/ x[n + 1] < y[n + 1]
    PROVE  Order(x, y) = -1
<1>1. Len(x) \in Nat /\ Len(y) \in Nat /\ n + 1 \in 1 .. Len(y)
  OBVIOUS
<1>2. x # y
  <2>1. CASE n = Len(x)
    BY <2>1
  <2>2. CASE n # Len(x)
    <3>1. n + 1 \in 1 .. Len(x)
      BY <1>1, <2>2
    <3>2. x[n + 1] \in Char /\ x[n + 1] < y[n + 1]
      BY <2>2, <3>1
    <3>3. ~(x[n + 1] < x[n + 1])
      BY <3>2, CharOrder
    <3> QED
      BY <3>2, <3>3
  <2> QED
    BY <2>1, <2>2
<1>3. /\ \A j \in 1 .. (n + 1) - 1 : j <= Len(x) /\ x[j] = y[j]
      /\ n + 1 > Len(x) \/ x[n + 1] < y[n + 1]
  <2>1. (n + 1) - 1 = n
    OBVIOUS
  <2>2. \A j \in 1 .. n : j <= Len(x)
    BY <1>1
  <2>3. n + 1 > Len(x) \/ x[n + 1] < y[n + 1]
    BY <1>1
  <2> QED
    BY <2>1, <2>2, <2>3
<1>4. Less(x, y)
  BY <1>1, <1>3 DEF Less
<1> QED
  BY <1>2, <1>4 DEF Order

LEMMA OrderGreater ==
    ASSUME NEW x \in Seq(Char), NEW y \in Seq(Char), NEW n \in Nat, n < Len(x), n <= Len(y),
           \A i \in 1 .. n : x[i] = y[i],
           n = Len(y) \/ y[n + 1] < x[n + 1]
    PROVE  Order(x, y) = 1
<1>1. Len(x) \in Nat /\ Len(y) \in Nat /\ n + 1 \in 1 .. Len(x) /\ x[n + 1] \in Char
  OBVIOUS
<1>2. x # y
  <2>1. CASE n = Len(y)
    BY <2>1
  <2>2. CASE n # Len(y)
    <3>1. ~(x[n + 1] < x[n + 1])
      BY <1>1, CharOrder
    <3> QED
      BY <2>2, <3>1
  <2> QED
    BY <2>1, <2>2
<1>3. ASSUME Less(x, y) PROVE FALSE
  <2>1. PICK i \in 1 .. Len(y) : /\ \A j \in 1 .. i - 1 : j <= Len(x) /\ x[j] = y[j]
                                 /\ i > Len(x) \/ x[i] < y[i]
    BY <1>3 DEF Less
  <2>2. CASE i <= n
    <3>1. i \in 1 .. n /\ ~(i > Len(x)) /\ i \in 1 .. Len(x)
      BY <1>1, <2>2
    <3>2. x[i] \in Char /\ x[i] = y[i] /\ x[i] < y[i]
      BY <2>1, <3>1
    <3>3. ~(x[i] < x[i])
      BY <3>2, CharOrder
    <3> QED
      BY <3>2, <3>3
  <2>3. CASE i > n
    <3>1. n # Len(y) /\ n + 1 \in 1 .. Len(y) /\ y[n + 1] < x[n + 1] /\ y[n + 1] \in Char
      <4>1. n < Len(y)
        BY <1>1, <2>3
      <4>2. n + 1 \in 1 .. Len(y)
        BY <1>1, <4>1
      <4> QED
        BY <1>1, <4>1, <4>2
    <3>2. ~(x[n + 1] < y[n + 1]) /\ x[n + 1] # y[n + 1]
      BY <1>1, <3>1, CharOrder
    <3>3. CASE i = n + 1
      <4>1. ~(i > Len(x))
        BY <1>1, <3>3
      <4> QED
        BY <2>1, <3>2, <3>3, <4>1
    <3>4. CASE i # n + 1
      <4>1. n + 1 \in 1 .. i - 1
        BY <2>3, <3>4
      <4> QED
        BY <2>1, <3>2, <4>1
    <3> QED
      BY <3>3, <3>4
  <2> QED
    BY <2>2, <2>3
<1> QED
  BY <1>2, <1>3 DEF Order

(* A round of the comparison of two strings that agree so far.             *)
Compared(t, c, e, x, y, n, w) ==
    /\ w = [aa |-> w.aa, bb |-> w.bb, ans |-> w.ans, done |-> w.done]
    /\ w.done \in BOOLEAN
    /\ w.done => w.ans = Order(x, y)
    /\ ~w.done => /\ Stands(t, c, n, w.aa)
                  /\ Stands(t, e, n, w.bb)
                  /\ \A i \in 1 .. n : x[i] = y[i]

LEMMA CompareRound ==
    ASSUME NEW t \in Tables,
           NEW s, NEW c, NEW x \in Seq(Char), Carries(t, s, c, x),
           NEW q, NEW e, NEW y \in Seq(Char), Carries(t, q, e, y),
           NEW n \in Nat, NEW w, Compared(t, c, e, x, y, n, w)
    PROVE  Compared(t, c, e, x, y, n + 1, CompareNext(t, w))
<1> DEFINE v == CompareNext(t, w)
<1>1. CASE w.done
  <2>1. v = w
    BY <1>1 DEF CompareNext
  <2> QED
    BY <1>1, <2>1 DEF Compared
<1>2. CASE ~w.done
  <2>1. /\ Stands(t, c, n, w.aa) /\ Stands(t, e, n, w.bb)
        /\ \A i \in 1 .. n : x[i] = y[i]
        /\ w = [aa |-> w.aa, bb |-> w.bb, ans |-> w.ans, done |-> w.done]
        /\ Len(x) \in Nat /\ Len(y) \in Nat
    BY <1>2 DEF Compared
  <2>2. /\ n <= Len(x) /\ (has_next_char(w.aa) <=> n < Len(x))
        /\ n < Len(x) => next_char(t, w.aa) = x[n + 1] /\ Stands(t, c, n + 1, Advance(t, w.aa))
    BY <2>1, StandsNext
  <2>3. /\ n <= Len(y) /\ (has_next_char(w.bb) <=> n < Len(y))
        /\ n < Len(y) => next_char(t, w.bb) = y[n + 1] /\ Stands(t, e, n + 1, Advance(t, w.bb))
    BY <2>1, StandsNext
  <2>4. CASE ~has_next_char(w.aa) \/ ~has_next_char(w.bb)
    <3>1. v = [w EXCEPT !.ans = AtAnEnd(w.aa, w.bb), !.done = TRUE]
      BY <1>2, <2>4 DEF CompareNext
    <3>2. v = [aa |-> w.aa, bb |-> w.bb, ans |-> AtAnEnd(w.aa, w.bb), done |-> TRUE]
      BY <2>1, <3>1
    <3>3. AtAnEnd(w.aa, w.bb) = Order(x, y)
      <4>1. CASE has_next_char(w.aa)
        <5>1. n < Len(x) /\ n = Len(y)
          BY <2>1, <2>2, <2>3, <2>4, <4>1
        <5> QED
          BY <2>1, <2>3, <4>1, <5>1, OrderGreater DEF AtAnEnd
      <4>2. CASE ~has_next_char(w.aa) /\ has_next_char(w.bb)
        <5>1. n = Len(x) /\ n < Len(y)
          BY <2>1, <2>2, <2>3, <4>2
        <5> QED
          BY <2>1, <2>2, <4>2, <5>1, OrderLess DEF AtAnEnd
      <4>3. CASE ~has_next_char(w.aa) /\ ~has_next_char(w.bb)
        <5>1. n = Len(x) /\ n = Len(y)
          BY <2>1, <2>2, <2>3, <4>3
        <5>2. x = y
          <6>1. x = [i \in 1 .. Len(x) |-> x[i]] /\ y = [i \in 1 .. Len(y) |-> y[i]]
            OBVIOUS
          <6>2. [i \in 1 .. n |-> x[i]] = [i \in 1 .. n |-> y[i]]
            BY <2>1
          <6> QED
            BY <5>1, <6>1, <6>2
        <5> QED
          BY <4>3, <5>2 DEF AtAnEnd, Order
      <4> QED
        BY <4>1, <4>2, <4>3
    <3> HIDE DEF v
    <3> QED
      BY <3>2, <3>3 DEF Compared, v
  <2>5. CASE has_next_char(w.aa) /\ has_next_char(w.bb)
    <3>1. /\ n < Len(x) /\ n < Len(y)
          /\ next_char(t, w.aa) = x[n + 1] /\ next_char(t, w.bb) = y[n + 1]
          /\ Stands(t, c, n + 1, Advance(t, w.aa)) /\ Stands(t, e, n + 1, Advance(t, w.bb))
      BY <2>2, <2>3, <2>5
    <3>2. CASE x[n + 1] = y[n + 1]
      <4>1. v = [w EXCEPT !.aa = Advance(t, w.aa), !.bb = Advance(t, w.bb)]
        BY <1>2, <2>5, <3>1, <3>2 DEF CompareNext
      <4>2. v = [aa |-> Advance(t, w.aa), bb |-> Advance(t, w.bb), ans |-> w.ans, done |-> w.done]
        BY <2>1, <4>1
      <4>3. \A i \in 1 .. n + 1 : x[i] = y[i]
        <5>1. \A i \in 1 .. n + 1 : i \in 1 .. n \/ i = n + 1
          OBVIOUS
        <5> QED
          BY <2>1, <3>2, <5>1
      <4> HIDE DEF v
      <4> QED
        BY <1>2, <3>1, <4>2, <4>3 DEF Compared, v
    <3>3. CASE x[n + 1] # y[n + 1]
      <4>1. v = [w EXCEPT !.ans = IF x[n + 1] < y[n + 1] THEN -1 ELSE 1, !.done = TRUE]
        BY <1>2, <2>5, <3>1, <3>3 DEF CompareNext
      <4>2. v = [aa |-> w.aa, bb |-> w.bb, ans |-> IF x[n + 1] < y[n + 1] THEN -1 ELSE 1, done |-> TRUE]
        BY <2>1, <4>1
      <4>3. x[n + 1] \in Char /\ y[n + 1] \in Char
        <5>1. n + 1 \in 1 .. Len(x) /\ n + 1 \in 1 .. Len(y)
          BY <2>1, <3>1
        <5> QED
          BY <5>1
      <4>4. x[n + 1] < y[n + 1] \/ y[n + 1] < x[n + 1]
        BY <3>3, <4>3, CharOrder
      <4>5. ~(x[n + 1] < y[n + 1]) => y[n + 1] < x[n + 1]
        BY <4>4
      <4>6. (IF x[n + 1] < y[n + 1] THEN -1 ELSE 1) = Order(x, y)
        <5>1. CASE x[n + 1] < y[n + 1]
          <6>1. Order(x, y) = -1
            BY <2>1, <2>2, <3>1, <5>1, OrderLess
          <6> QED
            BY <5>1, <6>1
        <5>2. CASE ~(x[n + 1] < y[n + 1])
          <6>1. Order(x, y) = 1
            BY <2>1, <2>3, <3>1, <4>5, <5>2, OrderGreater
          <6> QED
            BY <5>2, <6>1
        <5> QED
          BY <5>1, <5>2
      <4> HIDE DEF v
      <4> QED
        BY <4>2, <4>6 DEF Compared, v
    <3> QED
      BY <3>2, <3>3
  <2> QED
    BY <2>4, <2>5
<1> QED
  BY <1>1, <1>2 DEF Compared

(* compare_string_record finds the lexicographic order, whichever string   *)
(* ends first and wherever their chunks end.                               *)
LEMMA CompareIs ==
    ASSUME NEW t \in Tables,
           NEW s, NEW c, NEW x \in Seq(Char), Carries(t, s, c, x),
           NEW q, NEW e, NEW y \in Seq(Char), Carries(t, q, e, y),
           Len(x) <= MAX_STR_LEN \/ Len(y) <= MAX_STR_LEN
    PROVE  compare_string_record(t, read_string(t, s), read_string(t, q)) = Order(x, y)
<1> DEFINE a == read_string(t, s)
           b == read_string(t, q)
           N == MAX_STR_LEN + 1
           w0 == [aa |-> a, bb |-> b, ans |-> 0, done |-> FALSE]
           Loop(f) == f = [n \in 0 .. N |-> IF n = 0 THEN w0 ELSE CompareNext(t, f[n - 1])]
           f == CHOOSE f : Loop(f)
           S == {w \in [aa : [chunk : Chunk, idx : Nat], bb : [chunk : Chunk, idx : Nat],
                        ans : {-1, 0, 1}, done : BOOLEAN] :
                   \E n \in Nat : Compared(t, c, e, x, y, n, w)}
           step == [w \in S |-> CompareNext(t, w)]
<1>1. compare_string_record(t, a, b) = f[N].ans
  BY DEF compare_string_record
<1> HIDE DEF f
<1>2. N \in Nat /\ MAX_STR_LEN \in Nat /\ Len(x) \in Nat /\ Len(y) \in Nat
  BY StringsAssumption
<1>3. Stands(t, c, 0, a) /\ Stands(t, e, 0, b)
  BY StandsFirst
<1>4. Compared(t, c, e, x, y, 0, w0)
  BY <1>3 DEF Compared
<1>5. w0 \in S
  <2>1. a \in [chunk : Chunk, idx : Nat] /\ b \in [chunk : Chunk, idx : Nat]
    BY <1>3, StandsTyped
  <2> QED
    BY <1>4, <2>1
<1>6. step \in [S -> S]
  <2> SUFFICES ASSUME NEW w \in S PROVE CompareNext(t, w) \in S
    OBVIOUS
  <2> DEFINE v == CompareNext(t, w)
  <2>1. PICK n \in Nat : Compared(t, c, e, x, y, n, w)
    OBVIOUS
  <2>2. Compared(t, c, e, x, y, n + 1, v)
    BY <2>1, CompareRound
  <2>3. v \in [aa : [chunk : Chunk, idx : Nat], bb : [chunk : Chunk, idx : Nat],
               ans : {-1, 0, 1}, done : BOOLEAN]
    <3>1. AtAnEnd(w.aa, w.bb) \in {-1, 0, 1}
      BY DEF AtAnEnd
    <3>2. CASE v.done
      <4>1. /\ v = [aa |-> v.aa, bb |-> v.bb, ans |-> v.ans, done |-> v.done]
            /\ v.done \in BOOLEAN
        BY <2>2 DEF Compared
      <4>2. CASE ~w.done
        BY <3>1, <3>2, <4>2 DEF CompareNext
      <4>3. CASE w.done
        BY <4>3 DEF CompareNext
      <4> QED
        BY <4>2, <4>3
    <3>3. CASE ~v.done
      <4>1. /\ v = [aa |-> v.aa, bb |-> v.bb, ans |-> v.ans, done |-> v.done]
            /\ v.done \in BOOLEAN
            /\ Stands(t, c, n + 1, v.aa) /\ Stands(t, e, n + 1, v.bb)
        BY <2>2, <3>3 DEF Compared
      <4>2. v.aa \in [chunk : Chunk, idx : Nat] /\ v.bb \in [chunk : Chunk, idx : Nat]
        <5>1. n + 1 \in Nat
          OBVIOUS
        <5> HIDE DEF v
        <5>2. v.aa \in [chunk : Chunk, idx : Nat]
          BY <4>1, <5>1, StandsTyped
        <5>3. v.bb \in [chunk : Chunk, idx : Nat]
          BY <4>1, <5>1, StandsTyped
        <5> QED
          BY <5>2, <5>3
      <4>3. v.ans \in {-1, 0, 1}
        BY <3>1 DEF CompareNext
      <4> HIDE DEF v
      <4> QED
        BY <4>1, <4>2, <4>3
    <3> QED
      BY <3>2, <3>3
  <2>4. n + 1 \in Nat
    OBVIOUS
  <2> HIDE DEF v
  <2> QED
    BY <2>2, <2>3, <2>4 DEF v
<1> HIDE DEF w0, S
<1>7. \E g : Loop(g)
  <2>1. PICK g : /\ g \in [0 .. N -> S] /\ g[0] = w0
                 /\ \A n \in 0 .. N - 1 : g[n + 1] = step[g[n]]
    <3> HIDE DEF step
    <3>1. \E g : Rounds(g, S, step, w0, N)
      BY <1>2, <1>5, <1>6, RoundsExist
    <3> QED
      BY <3>1 DEF Rounds
  <2> HIDE DEF N
  <2>2. ASSUME NEW n \in 0 .. N PROVE g[n] = IF n = 0 THEN w0 ELSE CompareNext(t, g[n - 1])
    <3>1. CASE n # 0
      <4>1. n - 1 \in 0 .. N - 1 /\ (n - 1) + 1 = n /\ n - 1 \in 0 .. N
        BY <1>2, <3>1
      <4> QED
        BY <2>1, <3>1, <4>1
    <3>2. CASE n = 0
      BY <2>1, <3>2
    <3> QED
      BY <3>1, <3>2
  <2>3. g = [n \in 0 .. N |-> g[n]]
    BY <2>1
  <2> QED
    BY <2>2, <2>3
<1>8. Loop(f)
  BY <1>7 DEF f
<1> DEFINE Good == {n \in 0 .. N : Compared(t, c, e, x, y, n, f[n])}
<1>9. 0 \in Good
  <2>1. f[0] = w0
    BY <1>2, <1>8
  <2> QED
    BY <1>2, <1>4, <2>1
<1>10. ASSUME NEW n \in 0 .. N - 1, n \in Good PROVE n + 1 \in Good
  <2>1. n + 1 \in 0 .. N /\ n + 1 # 0 /\ (n + 1) - 1 = n /\ n \in Nat
    BY <1>2
  <2>2. f[n + 1] = CompareNext(t, f[n])
    BY <1>8, <2>1
  <2>3. Compared(t, c, e, x, y, n, f[n])
    BY <1>10
  <2>4. Compared(t, c, e, x, y, n + 1, CompareNext(t, f[n]))
    BY <2>1, <2>3, CompareRound
  <2> QED
    BY <2>1, <2>2, <2>4
<1> HIDE DEF Good
<1>11. N \in Good
  <2> HIDE DEF N
  <2>1. \A n \in 0 .. N : n \in Good
    BY <1>2, <1>9, <1>10, AllNat
  <2> QED
    BY <1>2, <2>1
<1>12. Compared(t, c, e, x, y, N, f[N])
  BY <1>11 DEF Good
<1>13. ASSUME ~f[N].done PROVE FALSE
  <2>1. Stands(t, c, N, f[N].aa) /\ Stands(t, e, N, f[N].bb)
    BY <1>12, <1>13 DEF Compared
  <2>2. N <= Len(x) /\ N <= Len(y)
    BY <1>2, <2>1, StandsNext
  <2> QED
    BY <1>2, <2>2
<1> QED
  BY <1>1, <1>12, <1>13 DEF Compared

-----------------------------------------------------------------------------
(* delete_string takes away the chunks of the string, and no other: after  *)
(* n rounds the first n are gone.                                          *)
LEMMA DeleteIs ==
    ASSUME NEW t \in Tables, NEW s, NEW c, NEW x \in Seq(Char), Carries(t, s, c, x)
    PROVE  delete_string(t, s) = [r \in Rid |-> IF r \in ToSet(c) THEN None ELSE t[r]]
<1> DEFINE N == Cardinality(Rid)
           m == Len(c)
           w0 == [table |-> t, rid |-> s]
           Gone(n) == {c[k] : k \in {j \in 1 .. m : j <= n}}
           T(n) == [r \in Rid |-> IF r \in Gone(n) THEN None ELSE t[r]]
           W(n) == [table |-> T(n), rid |-> IF n < m THEN c[n + 1] ELSE None]
           Loop(f) == f = [n \in 0 .. N |-> IF n = 0 THEN w0 ELSE DeleteChunk(f[n - 1])]
           f == CHOOSE f : Loop(f)
           g == [n \in 0 .. N |-> W(n)]
<1>1. delete_string(t, s) = f[N].table
  BY DEF delete_string
<1> HIDE DEF f
<1>2. /\ m \in Nat \ {0} /\ c \in Seq(Rid) /\ c[1] = s
      /\ \A k \in 1 .. m : /\ c[k] \in Rid
                           /\ t[c[k]].rid = IF k < m THEN c[k + 1] ELSE None
  BY CarriesIs
<1>3. IsInjective(c) /\ DOMAIN c = 1 .. m
  BY <1>2 DEF Carries
<1>4. N \in Nat /\ m <= N
  BY <1>2, <1>3, DistinctFits, FS_CardinalityType, StringsAssumption
<1> HIDE DEF N
<1>5. W(0) = w0
  <2>1. Gone(0) = {}
    OBVIOUS
  <2>2. T(0) = t
    BY <2>1 DEF Tables
  <2> QED
    BY <1>2, <2>2
<1>6. ASSUME NEW n \in Nat PROVE DeleteChunk(W(n)) = W(n + 1)
  <2>1. CASE n < m
    <3>1. n + 1 \in 1 .. m /\ W(n).rid = c[n + 1] /\ c[n + 1] \in Rid /\ c[n + 1] # None
      <4>1. n + 1 \in 1 .. m
        BY <1>2, <2>1
      <4>2. c[n + 1] \in Rid
        BY <1>2, <4>1
      <4> QED
        BY <2>1, <4>1, <4>2, StoreAssumption
    <3>2. c[n + 1] \notin Gone(n)
      BY <1>2, <1>3, <3>1 DEF IsInjective
    <3>3. T(n)[c[n + 1]] = t[c[n + 1]]
      BY <3>1, <3>2
    <3>4. t[c[n + 1]].rid = IF n + 1 < m THEN c[(n + 1) + 1] ELSE None
      BY <1>2, <3>1
    <3>5. \A r : r \in Gone(n + 1) <=> r \in Gone(n) \/ r = c[n + 1]
      <4>1. \A j \in 1 .. m : j <= n + 1 <=> j <= n \/ j = n + 1
        BY <1>2
      <4> QED
        BY <3>1, <4>1
    <3> HIDE DEF Gone
    <3>6. [T(n) EXCEPT ![c[n + 1]] = None] = T(n + 1)
      BY <3>1, <3>5
    <3> HIDE DEF T
    <3>7. DeleteChunk(W(n)) = [table |-> [T(n) EXCEPT ![c[n + 1]] = None], rid |-> T(n)[c[n + 1]].rid]
      BY <3>1 DEF DeleteChunk
    <3> QED
      BY <3>3, <3>4, <3>6, <3>7
  <2>2. CASE ~(n < m)
    <3>1. \A j \in 1 .. m : j <= n /\ j <= n + 1
      BY <1>2, <2>2
    <3>2. Gone(n) = Gone(n + 1)
      BY <3>1
    <3>3. ~(n + 1 < m)
      BY <1>2, <2>2
    <3> HIDE DEF Gone
    <3>4. W(n + 1) = W(n) /\ W(n).rid = None
      BY <2>2, <3>2, <3>3
    <3> HIDE DEF W
    <3> QED
      BY <3>4 DEF DeleteChunk
  <2> QED
    BY <2>1, <2>2
<1> HIDE DEF W, w0
<1>7. Loop(g)
  <2>1. ASSUME NEW n \in 0 .. N PROVE W(n) = IF n = 0 THEN w0 ELSE DeleteChunk(g[n - 1])
    <3>1. CASE n = 0
      BY <1>5, <3>1
    <3>2. CASE n # 0
      <4>1. n - 1 \in 0 .. N /\ n - 1 \in Nat /\ (n - 1) + 1 = n
        BY <1>4, <3>2
      <4>2. g[n - 1] = W(n - 1)
        BY <4>1
      <4>3. W(n) = DeleteChunk(W(n - 1))
        BY <1>6, <4>1
      <4> QED
        BY <3>2, <4>2, <4>3
    <3> QED
      BY <3>1, <3>2
  <2> QED
    BY <2>1
<1>8. Loop(f)
  <2>1. \E h : Loop(h)
    <3> HIDE DEF g
    <3> QED
      BY <1>7
  <2> QED
    BY <2>1 DEF f
<1> DEFINE Good == {n \in 0 .. N : f[n] = W(n)}
<1>9. 0 \in Good
  BY <1>4, <1>5, <1>8
<1>10. ASSUME NEW n \in 0 .. N - 1, n \in Good PROVE n + 1 \in Good
  <2>1. n + 1 \in 0 .. N /\ n + 1 # 0 /\ (n + 1) - 1 = n /\ n \in Nat
    BY <1>4
  <2>2. f[n + 1] = DeleteChunk(f[n])
    BY <1>8, <2>1
  <2> QED
    BY <1>6, <1>10, <2>1, <2>2
<1> HIDE DEF Good
<1>11. f[N] = W(N)
  <2>1. \A n \in 0 .. N : n \in Good
    BY <1>4, <1>9, <1>10, AllNat
  <2> QED
    BY <1>4, <2>1 DEF Good
<1>12. Gone(N) = ToSet(c)
  <2>1. \A j \in 1 .. m : j <= N
    BY <1>2, <1>4
  <2>2. ToSet(c) = {c[j] : j \in 1 .. m}
    BY <1>3 DEF ToSet
  <2> QED
    BY <2>1, <2>2
<1> HIDE DEF Gone
<1> QED
  BY <1>1, <1>11, <1>12 DEF W

(* A string stays as long as its chunks do.                                *)
LEMMA CarriesStays ==
    ASSUME NEW t \in Tables, NEW s, NEW c, NEW x \in Seq(Char), Carries(t, s, c, x),
           NEW v, \A r \in ToSet(c) : v[r] = t[r]
    PROVE  Carries(v, s, c, x)
<1>1. \A k \in 1 .. Len(c) : c[k] \in Rid /\ v[c[k]] = t[c[k]]
  <2>1. c \in Seq(Rid)
    BY CarriesIs
  <2> QED
    BY <2>1, ToSetIs
<1>2. IsList(NextOf(t), s, None, c)
  BY DEF Carries
<1>3. IsList(NextOf(v), s, None, c)
  <2>1. DOMAIN NextOf(v) = DOMAIN NextOf(t)
    BY DEF NextOf
  <2>2. \A k \in 1 .. Len(c) : NextOf(v)[c[k]] = NextOf(t)[c[k]]
    BY <1>1 DEF NextOf
  <2> QED
    BY <1>2, <2>1, <2>2, ListStays
<1>4. [k \in 1 .. Len(c) |-> v[c[k]].data] = [k \in 1 .. Len(c) |-> t[c[k]].data]
  BY <1>1
<1> QED
  BY <1>1, <1>3, <1>4 DEF Carries

(* The chunks a string is in are the ones that are met from its rid on.    *)
ChainOf(t, s) == ListFrom(NextOf(t), s, None, Cardinality(Rid))

LEMMA ChainIs ==
    ASSUME NEW t \in Tables, NEW s, NEW c, NEW x \in Seq(Char), Carries(t, s, c, x)
    PROVE  ChainOf(t, s) = c
<1>1. c \in Seq(Rid) /\ IsInjective(c) /\ IsList(NextOf(t), s, None, c)
  BY CarriesIs DEF Carries
<1>2. Len(c) <= Cardinality(Rid) /\ Cardinality(Rid) \in Nat
  BY <1>1, DistinctFits, FS_CardinalityType, StringsAssumption
<1>3. None \notin DOMAIN NextOf(t)
  BY StoreAssumption DEF NextOf
<1> QED
  BY <1>1, <1>2, <1>3, ListFromIs DEF ChainOf

-----------------------------------------------------------------------------
(* The strings tx of a table t, each in chunks of its own.                 *)
TextsOf(tx) == {s \in Rid : tx[s] # None}

InChunks(t, tx) ==
    /\ t \in Tables
    /\ tx \in [Rid -> Key \cup Value \cup {None}]
    /\ \A s \in TextsOf(tx) : Carries(t, s, ChainOf(t, s), tx[s])
    /\ \A s, q \in TextsOf(tx) : s # q => ToSet(ChainOf(t, s)) \cap ToSet(ChainOf(t, q)) = {}
    /\ \A r \in Rid : t[r] # None <=> \E s \in TextsOf(tx) : r \in ToSet(ChainOf(t, s))

LEMMA TextIsString ==
    ASSUME NEW t, NEW tx, InChunks(t, tx), NEW s \in TextsOf(tx)
    PROVE  /\ tx[s] \in Key \cup Value /\ tx[s] \in Seq(Char) /\ Len(tx[s]) <= MAX_STR_LEN
           /\ t \in Tables
           /\ Carries(t, s, ChainOf(t, s), tx[s])
           /\ ChainOf(t, s) \in Seq(Rid)
           /\ s \in ToSet(ChainOf(t, s))
<1>1. tx[s] \in Key \cup Value /\ t \in Tables /\ Carries(t, s, ChainOf(t, s), tx[s])
  BY DEF InChunks, TextsOf
<1>2. tx[s] \in Seq(Char) /\ Len(tx[s]) <= MAX_STR_LEN
  BY <1>1, StringsAssumption
<1>3. /\ ChainOf(t, s) \in Seq(Rid) /\ Len(ChainOf(t, s)) \in Nat \ {0}
      /\ ChainOf(t, s)[1] = s
  BY <1>1, <1>2, CarriesIs
<1>4. s \in ToSet(ChainOf(t, s))
  <2>1. 1 \in 1 .. Len(ChainOf(t, s))
    BY <1>3
  <2> QED
    BY <1>3, <2>1, ToSetIs
<1> QED
  BY <1>1, <1>2, <1>3, <1>4

LEMMA WriteKeeps ==
    ASSUME NEW t, NEW tx, InChunks(t, tx), NEW x \in Key \cup Value,
           Len(Pieces(x)) <= Cardinality(FreeRids(t))
    PROVE  LET w == write_string(t, x) IN
             /\ w.rid \in Rid
             /\ tx[w.rid] = None
             /\ InChunks(w.table, [tx EXCEPT ![w.rid] = x])
<1> DEFINE w == write_string(t, x)
           v == w.table
           ty == [tx EXCEPT ![w.rid] = x]
<1>1. t \in Tables /\ x \in Seq(Char) /\ x # None /\ tx \in [Rid -> Key \cup Value \cup {None}]
  BY StringsAssumption, StoreAssumption DEF InChunks
<1>2. PICK c : /\ v \in Tables
               /\ w.rid \in Rid
               /\ Carries(v, w.rid, c, x)
               /\ ToSet(c) \subseteq FreeRids(t)
               /\ \A r \in Rid \ ToSet(c) : v[r] = t[r]
  BY <1>1, WriteIs
<1> HIDE DEF w
<1>3. c \in Seq(Rid) /\ w.rid \in ToSet(c)
  <2>1. c \in Seq(Rid) /\ Len(c) \in Nat \ {0} /\ c[1] = w.rid
    BY <1>1, <1>2, CarriesIs
  <2>2. 1 \in 1 .. Len(c)
    BY <2>1
  <2> QED
    BY <2>1, <2>2, ToSetIs
<1>4. ChainOf(v, w.rid) = c
  BY <1>1, <1>2, ChainIs
<1>5. ASSUME NEW s \in TextsOf(tx)
      PROVE  /\ ToSet(ChainOf(t, s)) \cap ToSet(c) = {}
             /\ Carries(v, s, ChainOf(t, s), tx[s])
             /\ ChainOf(v, s) = ChainOf(t, s)
  <2>1. /\ tx[s] \in Seq(Char) /\ Carries(t, s, ChainOf(t, s), tx[s])
        /\ ChainOf(t, s) \in Seq(Rid)
    BY TextIsString
  <2>2. ASSUME NEW r \in ToSet(ChainOf(t, s)) PROVE r \in Rid /\ t[r] # None /\ r \notin ToSet(c)
    <3>1. r \in Rid
      BY <2>1, ToSetIs
    <3>2. t[r] # None
      BY <3>1 DEF InChunks
    <3> QED
      BY <1>2, <3>1, <3>2 DEF FreeRids
  <2>3. \A r \in ToSet(ChainOf(t, s)) : v[r] = t[r]
    BY <1>2, <2>2
  <2>4. Carries(v, s, ChainOf(t, s), tx[s])
    BY <1>1, <2>1, <2>3, CarriesStays
  <2>5. ChainOf(v, s) = ChainOf(t, s)
    BY <1>2, <2>1, <2>4, ChainIs
  <2> QED
    BY <2>2, <2>4, <2>5
<1>6. tx[w.rid] = None
  <2>1. ASSUME tx[w.rid] # None PROVE FALSE
    <3>1. w.rid \in TextsOf(tx)
      BY <1>2, <2>1 DEF TextsOf
    <3>2. w.rid \in ToSet(ChainOf(t, w.rid))
      BY <3>1, TextIsString
    <3> QED
      BY <1>3, <1>5, <3>1, <3>2
  <2> QED
    BY <2>1
<1>7. /\ ty \in [Rid -> Key \cup Value \cup {None}]
      /\ TextsOf(ty) = TextsOf(tx) \cup {w.rid} /\ w.rid \notin TextsOf(tx)
      /\ ty[w.rid] = x /\ \A s \in TextsOf(tx) : ty[s] = tx[s]
  BY <1>1, <1>2, <1>6 DEF TextsOf
<1> HIDE DEF v, ty
<1>8. \A s \in TextsOf(ty) : Carries(v, s, ChainOf(v, s), ty[s])
  <2> SUFFICES ASSUME NEW s \in TextsOf(ty) PROVE Carries(v, s, ChainOf(v, s), ty[s])
    OBVIOUS
  <2>1. CASE s = w.rid
    BY <1>2, <1>4, <1>7, <2>1
  <2>2. CASE s # w.rid
    BY <1>5, <1>7, <2>2
  <2> QED
    BY <2>1, <2>2
<1>9. \A s, q \in TextsOf(ty) : s # q => ToSet(ChainOf(v, s)) \cap ToSet(ChainOf(v, q)) = {}
  BY <1>4, <1>5, <1>7 DEF InChunks
<1>10. \A r \in Rid : v[r] # None <=> \E s \in TextsOf(ty) : r \in ToSet(ChainOf(v, s))
  <2> SUFFICES ASSUME NEW r \in Rid
               PROVE  v[r] # None <=> \E s \in TextsOf(ty) : r \in ToSet(ChainOf(v, s))
    OBVIOUS
  <2>1. CASE r \in ToSet(c)
    <3>1. PICK k \in 1 .. Len(c) : c[k] = r
      BY <1>3, <2>1, ToSetIs
    <3>2. v[r] # None
      BY <1>2, <3>1 DEF Carries
    <3> QED
      BY <1>4, <1>7, <2>1, <3>2
  <2>2. CASE r \notin ToSet(c)
    <3>1. v[r] = t[r]
      BY <1>2, <2>2
    <3>2. t[r] # None <=> \E s \in TextsOf(tx) : r \in ToSet(ChainOf(t, s))
      BY DEF InChunks
    <3>3. (\E s \in TextsOf(tx) : r \in ToSet(ChainOf(t, s))) <=> \E s \in TextsOf(ty) : r \in ToSet(ChainOf(v, s))
      BY <1>4, <1>5, <1>7, <2>2
    <3> QED
      BY <3>1, <3>2, <3>3
  <2> QED
    BY <2>1, <2>2
<1>11. v \in Tables
  BY <1>2
<1>12. InChunks(v, ty)
  BY <1>7, <1>8, <1>9, <1>10, <1>11 DEF InChunks
<1> QED
  BY <1>2, <1>6, <1>12 DEF v, ty, w

LEMMA DeleteKeeps ==
    ASSUME NEW t, NEW tx, InChunks(t, tx), NEW q \in TextsOf(tx)
    PROVE  InChunks(delete_string(t, q), [tx EXCEPT ![q] = None])
<1> DEFINE v == delete_string(t, q)
           ty == [tx EXCEPT ![q] = None]
           c == ChainOf(t, q)
<1>1. /\ t \in Tables /\ Carries(t, q, c, tx[q]) /\ tx[q] \in Seq(Char) /\ q \in Rid
      /\ tx \in [Rid -> Key \cup Value \cup {None}]
  BY TextIsString DEF InChunks, TextsOf
<1>2. v = [r \in Rid |-> IF r \in ToSet(c) THEN None ELSE t[r]]
  BY <1>1, DeleteIs
<1> HIDE DEF v
<1>3. v \in Tables
  BY <1>1, <1>2 DEF Tables
<1>4. /\ ty \in [Rid -> Key \cup Value \cup {None}]
      /\ TextsOf(ty) = TextsOf(tx) \ {q} /\ \A s \in TextsOf(ty) : ty[s] = tx[s]
  BY <1>1 DEF TextsOf
<1> HIDE DEF ty
<1>5. ASSUME NEW s \in TextsOf(ty)
      PROVE  /\ ToSet(ChainOf(t, s)) \cap ToSet(c) = {}
             /\ Carries(v, s, ChainOf(t, s), ty[s])
             /\ ChainOf(v, s) = ChainOf(t, s)
  <2>1. s \in TextsOf(tx) /\ s # q /\ ty[s] = tx[s]
    BY <1>4
  <2>2. /\ tx[s] \in Seq(Char) /\ Carries(t, s, ChainOf(t, s), tx[s])
        /\ ChainOf(t, s) \in Seq(Rid)
    BY <2>1, TextIsString
  <2>3. ToSet(ChainOf(t, s)) \cap ToSet(c) = {}
    BY <2>1 DEF InChunks
  <2>4. \A r \in ToSet(ChainOf(t, s)) : v[r] = t[r]
    <3>1. \A r \in ToSet(ChainOf(t, s)) : r \in Rid
      BY <2>2, ToSetIs
    <3> QED
      BY <1>2, <2>3, <3>1
  <2>5. Carries(v, s, ChainOf(t, s), tx[s])
    BY <1>1, <2>2, <2>4, CarriesStays
  <2>6. ChainOf(v, s) = ChainOf(t, s)
    BY <1>3, <2>2, <2>5, ChainIs
  <2> QED
    BY <2>1, <2>3, <2>5, <2>6
<1>6. \A s, p \in TextsOf(ty) : s # p => ToSet(ChainOf(v, s)) \cap ToSet(ChainOf(v, p)) = {}
  BY <1>4, <1>5 DEF InChunks
<1>7. \A r \in Rid : v[r] # None <=> \E s \in TextsOf(ty) : r \in ToSet(ChainOf(v, s))
  <2> SUFFICES ASSUME NEW r \in Rid
               PROVE  v[r] # None <=> \E s \in TextsOf(ty) : r \in ToSet(ChainOf(v, s))
    OBVIOUS
  <2>1. t[r] # None <=> \E s \in TextsOf(tx) : r \in ToSet(ChainOf(t, s))
    BY DEF InChunks
  <2>2. CASE r \in ToSet(c)
    BY <1>2, <1>5, <2>2
  <2>3. CASE r \notin ToSet(c)
    BY <1>2, <1>4, <1>5, <2>1, <2>3
  <2> QED
    BY <2>2, <2>3
<1>8. \A s \in TextsOf(ty) : Carries(v, s, ChainOf(v, s), ty[s])
  BY <1>5
<1>9. InChunks(v, ty)
  BY <1>3, <1>4, <1>6, <1>7, <1>8 DEF InChunks
<1> QED
  BY <1>9 DEF v, ty
-----------------------------------------------------------------------------
(* The strings of the store and the chunks of the string table.            *)
StringsIInv == IInv /\ InChunks(chunks, text)

LEMMA StringsInitHolds == StringsInit => StringsIInv
<1> SUFFICES ASSUME StringsInit
             PROVE  StringsIInv
  OBVIOUS
<1>1. IInv
  BY InitHolds DEF StringsInit
<1>2. TextsOf(text) = {} /\ text \in [Rid -> Key \cup Value \cup {None}]
  BY DEF TextsOf, StringsInit, Init
<1>3. chunks \in Tables /\ \A r \in Rid : chunks[r] = None
  BY DEF StringsInit, Tables
<1>4. InChunks(chunks, text)
  BY <1>2, <1>3 DEF InChunks
<1> QED
  BY <1>1, <1>4 DEF StringsIInv

(* What is loaded for a copy is the whole string.                          *)
LEMMA LoadedIs ==
    ASSUME InChunks(chunks, text), NEW q \in TextsOf(text)
    PROVE  Loaded(q) = text[q] /\ text[q] \in Key \cup Value
<1> DEFINE x == text[q]
<1>1. /\ x \in Key \cup Value /\ x \in Seq(Char) /\ Len(x) <= MAX_STR_LEN /\ MAX_STR_LEN \in Nat
      /\ chunks \in Tables /\ Carries(chunks, q, ChainOf(chunks, q), x)
  BY TextIsString, StringsAssumption
<1> HIDE DEF x
<1>2. Loaded(q) = SubSeq(x, 1, IF MAX_STR_LEN < Len(x) THEN MAX_STR_LEN ELSE Len(x))
  BY <1>1, LoadIs DEF Loaded
<1>3. SubSeq(x, 1, IF MAX_STR_LEN < Len(x) THEN MAX_STR_LEN ELSE Len(x)) = x
  BY <1>1
<1> QED
  BY <1>1, <1>2, <1>3 DEF x

(* The strings that are copied or deleted are there.                       *)
LEMMA RowHasText ==
    ASSUME IInv, NEW r, r \in leaves \/ (At("index") /\ r = call.rid)
    PROVE  r \in Rid /\ records[r].key \in TextsOf(text)
<1>1. r \in leaves \cup CallRecord
  BY DEF CallRecord
<1>2. r \in Rid /\ records[r] # None
  BY <1>1 DEF IInv, NothingDangles
<1>3. records[r] \in Record /\ text[records[r].key] \in Key
  BY <1>2 DEF IInv, Meant
<1> QED
  BY <1>2, <1>3, StoreAssumption DEF Record, TextsOf

LEMMA SeparatorHasText ==
    ASSUME IInv, NEW q \in separators
    PROVE  q \in Rid /\ q \in TextsOf(text)
  BY DEF IInv, TypeOK, NothingDangles, TextsOf

LEMMA CallHasText ==
    ASSUME IInv
    PROVE  /\ At("delete_key") => call.record.key \in TextsOf(text)
           /\ At("delete_value") => call.record.value \in TextsOf(text)
<1>1. \A r \in Rid \cup {None}, f \in Field : Held(r, f) # None => text[Held(r, f)] # None
  BY DEF IInv, NothingDangles
<1>2. At("delete_key") \/ At("delete_value") => call.record \in Record
  BY DEF IInv, CallOK
<1>3. ASSUME At("delete_key")
      PROVE  call.record.key \in TextsOf(text)
  <2>1. Held(None, "key") = call.record.key /\ call.record.key \in Rid
    BY <1>2, <1>3 DEF Held, CallHolds, Record
  <2> QED
    BY <1>1, <2>1, StoreAssumption DEF Field, TextsOf
<1>4. ASSUME At("delete_value")
      PROVE  call.record.value \in TextsOf(text)
  <2>1. Held(None, "value") = call.record.value /\ call.record.value \in Rid
    BY <1>2, <1>4 DEF Held, CallHolds, Record
  <2> QED
    BY <1>1, <2>1, StoreAssumption DEF Field, TextsOf
<1> QED
  BY <1>3, <1>4

(* Each step is one of Store's, and leaves the strings in their chunks.    *)
LEMMA WriteStepIs ==
    ASSUME StringsIInv, WriteStep
    PROVE  Next /\ InChunks(chunks', text')
<1>1. IInv /\ InChunks(chunks, text)
  BY DEF StringsIInv
<1>2. ASSUME NEW x \in Key \cup Value, RoomFor(x)
      PROVE  /\ Written(x).rid \in Rid
             /\ InChunks(Written(x).table, [text EXCEPT ![Written(x).rid] = x])
  BY <1>1, <1>2, WriteKeeps DEF Written, RoomFor
<1>3. CASE At("write_key") /\ RoomFor(call.key)
             /\ WriteKey(Written(call.key).rid) /\ chunks' = Written(call.key).table
  <2>1. call.key \in Key
    BY <1>1, <1>3 DEF IInv, CallOK, Asked, At
  <2>2. Written(call.key).rid \in Rid
        /\ InChunks(chunks', [text EXCEPT ![Written(call.key).rid] = call.key])
    BY <1>2, <1>3, <2>1
  <2>3. text' = [text EXCEPT ![Written(call.key).rid] = call.key]
    BY <1>3 DEF WriteKey, WriteString
  <2>4. Next
    BY <1>3, <2>2 DEF Next
  <2> QED
    BY <2>2, <2>3, <2>4
<1>4. CASE At("write_value") /\ RoomFor(call.value)
             /\ WriteValue(Written(call.value).rid) /\ chunks' = Written(call.value).table
  <2>1. call.value \in Value
    BY <1>1, <1>4 DEF IInv, CallOK, Asked, At
  <2>2. Written(call.value).rid \in Rid
        /\ InChunks(chunks', [text EXCEPT ![Written(call.value).rid] = call.value])
    BY <1>2, <1>4, <2>1
  <2>3. text' = [text EXCEPT ![Written(call.value).rid] = call.value]
    BY <1>4 DEF WriteValue, WriteString
  <2>4. Next
    BY <1>4, <2>2 DEF Next
  <2> QED
    BY <2>2, <2>3, <2>4
<1> QED
  BY <1>3, <1>4 DEF WriteStep

LEMMA CopyStepIs ==
    ASSUME StringsIInv, CopyStep
    PROVE  Next /\ InChunks(chunks', text')
<1>1. IInv /\ InChunks(chunks, text)
  BY DEF StringsIInv
<1>2. ASSUME NEW q \in TextsOf(text), CanCopy(q)
      PROVE  /\ Copied(q).rid \in Rid
             /\ InChunks(Copied(q).table, [text EXCEPT ![Copied(q).rid] = text[q]])
  <2>1. Loaded(q) = text[q] /\ text[q] \in Key \cup Value
    BY <1>1, LoadedIs
  <2> QED
    BY <1>1, <1>2, <2>1, WriteKeeps DEF Copied, CanCopy, RoomFor, Written
<1>3. ASSUME NEW r \in leaves \cup {call.rid}, At("index"), CanCopy(records[r].key),
             SplitLeaf(r, Copied(records[r].key).rid), chunks' = Copied(records[r].key).table
      PROVE  Next /\ InChunks(chunks', text')
  <2>1. r \in Rid /\ records[r].key \in TextsOf(text)
    BY <1>1, <1>3, RowHasText
  <2>2. text' = [text EXCEPT ![Copied(records[r].key).rid] = text[records[r].key]]
    BY <1>3 DEF SplitLeaf, insert_handler, WriteString, KeyOf
  <2>3. Copied(records[r].key).rid \in Rid /\ InChunks(chunks', text')
    BY <1>2, <1>3, <2>1, <2>2
  <2>4. Next
    BY <1>3, <2>1, <2>3 DEF Next
  <2> QED
    BY <2>3, <2>4
<1>4. ASSUME NEW r \in leaves, CanCopy(records[r].key),
             CopyRow(r, Copied(records[r].key).rid), chunks' = Copied(records[r].key).table
      PROVE  Next /\ InChunks(chunks', text')
  <2>1. r \in Rid /\ records[r].key \in TextsOf(text)
    BY <1>1, RowHasText
  <2>2. text' = [text EXCEPT ![Copied(records[r].key).rid] = text[records[r].key]]
    BY <1>4 DEF CopyRow, insert_handler, WriteString, KeyOf
  <2>3. Copied(records[r].key).rid \in Rid /\ InChunks(chunks', text')
    BY <1>2, <1>4, <2>1, <2>2
  <2>4. Next
    BY <1>4, <2>1, <2>3 DEF Next
  <2> QED
    BY <2>3, <2>4
<1>5. ASSUME NEW q \in separators, CanCopy(q),
             CopySeparator(q, Copied(q).rid), chunks' = Copied(q).table
      PROVE  Next /\ InChunks(chunks', text')
  <2>1. q \in Rid /\ q \in TextsOf(text)
    BY <1>1, SeparatorHasText
  <2>2. text' = [text EXCEPT ![Copied(q).rid] = text[q]]
    BY <1>5 DEF CopySeparator, insert_handler, WriteString
  <2>3. Copied(q).rid \in Rid /\ InChunks(chunks', text')
    BY <1>2, <1>5, <2>1, <2>2
  <2>4. Next
    BY <1>5, <2>1, <2>3 DEF Next
  <2> QED
    BY <2>3, <2>4
<1> QED
  BY <1>3, <1>4, <1>5 DEF CopyStep

LEMMA DeleteStepIs ==
    ASSUME StringsIInv, DeleteStep
    PROVE  Next /\ InChunks(chunks', text')
<1>1. IInv /\ InChunks(chunks, text)
  BY DEF StringsIInv
<1>2. ASSUME NEW q \in TextsOf(text), Deletes(q), DeleteString(q)
      PROVE  InChunks(chunks', text')
  BY <1>1, <1>2, DeleteKeeps DEF Deletes, DeleteString
<1>3. ASSUME NEW q \in separators, delete_handler(q), Deletes(q)
      PROVE  Next /\ InChunks(chunks', text')
  <2>1. q \in Rid /\ q \in TextsOf(text)
    BY <1>1, SeparatorHasText
  <2>2. Next
    BY <1>3, <2>1 DEF Next
  <2>3. DeleteString(q)
    BY <1>3 DEF delete_handler
  <2> QED
    BY <1>2, <1>3, <2>1, <2>2, <2>3
<1>4. CASE DeleteKey /\ Deletes(call.record.key)
  <2>1. call.record.key \in TextsOf(text) /\ DeleteString(call.record.key)
    BY <1>1, <1>4, CallHasText DEF DeleteKey
  <2> QED
    BY <1>2, <1>4, <2>1 DEF Next
<1>5. CASE DeleteValue /\ Deletes(call.record.value)
  <2>1. call.record.value \in TextsOf(text) /\ DeleteString(call.record.value)
    BY <1>1, <1>5, CallHasText DEF DeleteValue
  <2> QED
    BY <1>2, <1>5, <2>1 DEF Next
<1> QED
  BY <1>3, <1>4, <1>5 DEF DeleteStep

LEMMA OtherStepIs ==
    ASSUME StringsIInv, OtherStep
    PROVE  Next /\ InChunks(chunks', text')
<1>1. Next
  <2>1. FreeRids(records) # {} => NewRid(records) \in Rid
    BY NewRidIs DEF FreeRids
  <2> QED
    BY <2>1 DEF OtherStep, Next
<1>2. text' = text /\ chunks' = chunks
  BY DEF OtherStep, myjql_get, myjql_del, myjql_set, SetNew, SetFound, write_record, b_tree_insert,
         RemoveRow, Balanced, read_record, delete_record
<1> QED
  BY <1>1, <1>2 DEF StringsIInv

LEMMA StringsStep ==
    ASSUME StringsIInv, [StringsNext]_<<vars, chunks>>
    PROVE  [Next]_vars /\ StringsIInv'
<1>1. CASE StringsNext
  <2>1. Next /\ InChunks(chunks', text')
    BY <1>1, WriteStepIs, CopyStepIs, DeleteStepIs, OtherStepIs DEF StringsNext
  <2>2. IInv'
    BY <2>1, IInvKept DEF StringsIInv
  <2>3. InChunks(chunks, text)'
    BY <2>1
  <2> QED
    BY <2>1, <2>2, <2>3 DEF StringsIInv
<1>2. CASE UNCHANGED <<vars, chunks>>
  <2>1. UNCHANGED vars /\ chunks' = chunks /\ text' = text
    BY <1>2 DEF vars
  <2>2. IInv'
    BY <2>1, IInvKept DEF StringsIInv
  <2>3. InChunks(chunks', text')
    BY <2>1 DEF StringsIInv
  <2> QED
    BY <2>1, <2>2, <2>3 DEF StringsIInv
<1> QED
  BY <1>1, <1>2

THEOREM StringsInvariant == StringsSpec => []StringsIInv
<1>1. StringsIInv /\ [StringsNext]_<<vars, chunks>> => StringsIInv'
  BY StringsStep
<1> QED
  BY <1>1, StringsInitHolds, PTL DEF StringsSpec

(* With its strings in chunks, the database does what Store does: copies   *)
(* are copies of the whole string.                                         *)
THEOREM StringsImplementStore == StringsSpec => Spec
<1>1. StringsInit => Init
  BY DEF StringsInit
<1>2. StringsIInv /\ [StringsNext]_<<vars, chunks>> => [Next]_vars
  BY StringsStep
<1> QED
  BY <1>1, <1>2, StringsInvariant, PTL DEF StringsSpec, Spec

(* No chunk is lost when a string is deleted, and no two strings share one *)
(* (str.c:84-113).                                                         *)
THEOREM ChunksAreHeldOnce == StringsSpec => []ChunksHeldOnce
<1>1. ASSUME StringsIInv
      PROVE  ChunksHeldOnce
  <2>1. InChunks(chunks, text)
    BY <1>1 DEF StringsIInv
  <2>2. Texts = TextsOf(text) /\ \A s : Chain(s) = ChainOf(chunks, s)
    BY DEF Texts, TextsOf, Chain, ChainOf
  <2>3. \A s \in Texts : IsInjective(Chain(s))
    BY <2>1, <2>2 DEF InChunks, Carries
  <2>4. \A s, q \in Texts : s # q => ToSet(Chain(s)) \cap ToSet(Chain(q)) = {}
    BY <2>1, <2>2 DEF InChunks
  <2>5. UNION {ToSet(Chain(s)) : s \in Texts} = {r \in Rid : chunks[r] # None}
    <3>1. ASSUME NEW s \in Texts, NEW r \in ToSet(Chain(s))
          PROVE  r \in Rid
      <4>1. Chain(s) \in Seq(Rid)
        BY <2>1, <2>2, TextIsString
      <4> QED
        BY <3>1, <4>1, ToSetIs
    <3>2. \A r \in Rid : chunks[r] # None <=> \E s \in Texts : r \in ToSet(Chain(s))
      BY <2>1, <2>2 DEF InChunks
    <3> QED
      BY <3>1, <3>2
  <2> QED
    BY <2>3, <2>4, <2>5 DEF ChunksHeldOnce
<1> QED
  BY <1>1, StringsInvariant, PTL

(* A string reads as it was written, whatever its length (str.c:55-82,     *)
(* 124-133).                                                               *)
THEOREM StringsReadAsWritten == StringsSpec => []ReadAsWritten
<1>1. ASSUME StringsIInv
      PROVE  ReadAsWritten
  <2> SUFFICES ASSUME NEW s \in Texts, NEW m \in 0 .. MAX_STR_LEN
               PROVE  load_string(chunks, read_string(chunks, s), m)
                        = SubSeq(text[s], 1, IF m < Len(text[s]) THEN m ELSE Len(text[s]))
    BY DEF ReadAsWritten
  <2>1. InChunks(chunks, text) /\ s \in TextsOf(text)
    BY <1>1 DEF StringsIInv, Texts, TextsOf
  <2>2. /\ text[s] \in Seq(Char) /\ chunks \in Tables
        /\ Carries(chunks, s, ChainOf(chunks, s), text[s])
    BY <2>1, TextIsString
  <2>3. m \in Nat
    BY StringsAssumption
  <2> QED
    BY <2>2, <2>3, LoadIs
<1> QED
  BY <1>1, StringsInvariant, PTL

(* A string that is written, to compare with it, and deleted again leaves  *)
(* the table as it was, and compares in lexicographic order.               *)
LEMMA ProbeIs ==
    ASSUME NEW t \in Tables, NEW x \in Seq(Char), Len(Pieces(x)) <= Cardinality(FreeRids(t)),
           NEW s, NEW d, NEW y \in Seq(Char), Carries(t, s, d, y), Len(y) <= MAX_STR_LEN
    PROVE  rid_ptr_row_cmp(t, x, s) = [ans |-> Order(x, y), table |-> t]
<1> DEFINE w == write_string(t, x)
<1>1. PICK c : /\ w.table \in Tables
               /\ w.rid \in Rid
               /\ Carries(w.table, w.rid, c, x)
               /\ ToSet(c) \subseteq FreeRids(t)
               /\ \A r \in Rid \ ToSet(c) : w.table[r] = t[r]
  BY WriteIs
<1> HIDE DEF w
<1>2. Carries(w.table, s, d, y)
  <2>1. ASSUME NEW r \in ToSet(d)
        PROVE  r \in Rid /\ t[r] # None
    <3>1. d \in Seq(Rid)
      BY CarriesIs
    <3> QED
      BY <2>1, <3>1, ToSetIs DEF Carries
  <2>2. \A r \in ToSet(d) : w.table[r] = t[r]
    BY <1>1, <2>1 DEF FreeRids
  <2> QED
    BY <2>2, CarriesStays
<1>3. rid_row_row_cmp(w.table, w.rid, s) = Order(x, y)
  BY <1>1, <1>2, CompareIs DEF rid_row_row_cmp
<1>4. delete_string(w.table, w.rid) = t
  <2>1. delete_string(w.table, w.rid) = [r \in Rid |-> IF r \in ToSet(c) THEN None ELSE w.table[r]]
    BY <1>1, DeleteIs
  <2>2. \A r \in Rid : (IF r \in ToSet(c) THEN None ELSE w.table[r]) = t[r]
    BY <1>1 DEF FreeRids
  <2>3. t = [r \in Rid |-> t[r]]
    BY DEF Tables
  <2> QED
    BY <2>1, <2>2, <2>3
<1> QED
  BY <1>3, <1>4 DEF rid_ptr_row_cmp, w

(* The index compares in lexicographic order, also strings of which one    *)
(* ends where a chunk of the other does, and a search leaves the string    *)
(* table as it found it (str.c:31-53, myjql.c:48-64).                      *)
THEOREM StringsCompareExactly == StringsSpec => []ComparesExactly
<1>1. ASSUME StringsIInv
      PROVE  ComparesExactly
  <2> SUFFICES ASSUME NEW s \in Texts
               PROVE  /\ \A q \in Texts : rid_row_row_cmp(chunks, s, q) = Order(text[s], text[q])
                      /\ \A x \in Probe : RoomFor(x) =>
                           rid_ptr_row_cmp(chunks, x, s) = [ans |-> Order(x, text[s]), table |-> chunks]
    BY DEF ComparesExactly
  <2>1. InChunks(chunks, text) /\ \A q \in Texts : q \in TextsOf(text)
    BY <1>1 DEF StringsIInv, Texts, TextsOf
  <2>2. ASSUME NEW q \in Texts
        PROVE  /\ text[q] \in Seq(Char) /\ Len(text[q]) <= MAX_STR_LEN /\ chunks \in Tables
               /\ Carries(chunks, q, ChainOf(chunks, q), text[q])
    BY <2>1, TextIsString
  <2>3. ASSUME NEW q \in Texts
        PROVE  rid_row_row_cmp(chunks, s, q) = Order(text[s], text[q])
    BY <2>2, CompareIs DEF rid_row_row_cmp
  <2>4. ASSUME NEW x \in Probe, RoomFor(x)
        PROVE  rid_ptr_row_cmp(chunks, x, s) = [ans |-> Order(x, text[s]), table |-> chunks]
    <3>1. x \in Seq(Char) /\ Len(Pieces(x)) <= Cardinality(FreeRids(chunks))
      BY <2>4, StringsAssumption DEF RoomFor
    <3> QED
      BY <2>2, <3>1, ProbeIs
  <2> QED
    BY <2>3, <2>4
<1> QED
  BY <1>1, StringsInvariant, PTL
=============================================================================
