-------------------------- MODULE TableFaultProofs --------------------------
(***************************************************************************)
(* Table for any number of savers, keys, values and rows: what is left of  *)
(* its guarantees when writes fail half way, savers overlap and clients    *)
(* add a key twice (FaultInv); what overlapping savers save to files that  *)
(* do not fail (SharedInv); and what the assert of internalAdd() keeps     *)
(* apart (KeysApart).                                                      *)
(***************************************************************************)
EXTENDS TableProofs

USE ConstantsAssumption DEF Ids, NoId, Row

(* A change of the memory that gives no row another key.                   *)
LEMMA MemoryFault ==
  ASSUME FaultInv, TypeOK', IndexInv', size <= size',
         UNCHANGED <<proc, lock, pc, fileExists, disk, diskState>>,
         \A i \in Ids : i < size => index'[i].key = index[i].key
  PROVE  FaultInv'
<1>1. FileInv' BY DEF FaultInv, FileInv
<1>2. NoForeignRow'
  <2> SUFFICES ASSUME proc \in Up, NEW i \in Ids, disk[i] # NoRow
               PROVE  i < size' /\ disk[i].key \in {index'[i].key, ZeroKey}
    BY DEF NoForeignRow
  <2>1. i < size /\ disk[i].key \in {index[i].key, ZeroKey} BY DEF FaultInv, NoForeignRow
  <2> QED BY <2>1 DEF FaultInv, TypeOK
<1> QED BY <1>1, <1>2 DEF FaultInv

(* The memory is gone; the file is still in order.                         *)
LEMMA DownFault ==
  ASSUME FreshMemory, FreshSavers, proc' \in {"down", "refused", "aborted", "undefined"},
         emptied' \in BOOLEAN,
         disk' \in [Ids -> Row \cup {NoRow}], diskState' \in {"absent", "torn", "valid"},
         diskState' = "absent" => disk' = Empty,
         \A i, j \in Ids : i < j /\ disk'[j] # NoRow => disk'[i] # NoRow
  PROVE  FaultInv'
<1>1. TypeOK' /\ IndexInv' BY FreshTypes DEF TypeOK
<1>2. FileInv' BY DEF FileInv, FreshSavers
<1>3. NoForeignRow' BY DEF NoForeignRow, Up
<1> QED BY <1>1, <1>2, <1>3 DEF FaultInv

LEMMA InternalAddFault ==
  ASSUME FaultInv, proc = "open", size < MaxRows,
         NEW k \in Keys, NEW v \in Vals,
         internalAdd([key |-> k, val |-> v, deleted |-> FALSE]),
         isDirty' = TRUE, dirtyRows' = dirtyRows \cup {size},
         UNCHANGED <<proc, touched, unmarked, victims, saver, file, emptied>>
  PROVE  FaultInv'
<1> DEFINE row == [key |-> k, val |-> v, deleted |-> FALSE]
<1>1. /\ size \in Ids /\ row \in Row /\ row.key = k /\ size \in Nat /\ MaxRows \in Nat
      /\ index' = [index EXCEPT ![size] = row]
      /\ rows' = [rows EXCEPT ![k] = size] /\ size' = size + 1
      /\ UNCHANGED <<lock, pc, fileExists, disk, diskState>>
  BY DEF internalAdd, saver, file, FaultInv, TypeOK
<1> HIDE DEF row
<1>2. TypeOK' BY <1>1 DEF FaultInv, TypeOK
<1>3. \A i \in Ids : index'[i] = IF i = size THEN row ELSE index[i]
  BY <1>1 DEF FaultInv, TypeOK
<1>4. IndexInv'
  <2>1. \A i \in Ids : index'[i] # NoRow <=> i < size'
    BY <1>1, <1>3 DEF FaultInv, TypeOK, IndexInv
  <2>2. \A i \in (dirtyRows \cup touched \cup unmarked \cup victims)' : i < size'
    BY <1>1 DEF FaultInv, TypeOK, IndexInv
  <2>3. \A q \in Keys : rows'[q] # NoId => rows'[q] < size' /\ index'[rows'[q]].key = q
    BY <1>1, <1>3 DEF FaultInv, TypeOK, IndexInv
  <2> QED BY <2>1, <2>2, <2>3 DEF IndexInv
<1> QED BY <1>1, <1>2, <1>3, <1>4, MemoryFault

LEMMA AddFault ==
  ASSUME FaultInv, NEW k \in Keys \ {ZeroKey}, NEW v \in Vals,
         add(k, v) \/ addOrUpdate(k, v)
  PROVE  FaultInv'
<1>1. CASE add(k, v) /\ rows[k] # NoId /\ AssertsOn
  <2>1. Abort BY <1>1 DEF add
  <2>2. emptied' \in BOOLEAN BY <2>1 DEF Abort, FaultInv, TypeOK
  <2>3. /\ FreshMemory /\ FreshSavers /\ proc' = "aborted"
        /\ disk' = disk /\ diskState' = diskState
    BY <2>1 DEF Abort, file
  <2>4. disk \in [Ids -> Row \cup {NoRow}] /\ diskState \in {"absent", "torn", "valid"}
    BY DEF FaultInv, TypeOK
  <2>5. /\ diskState = "absent" => disk = Empty
        /\ \A i, j \in Ids : i < j /\ disk[j] # NoRow => disk[i] # NoRow
    BY DEF FaultInv, FileInv
  <2> QED BY <2>2, <2>3, <2>4, <2>5, DownFault
<1>2. CASE add(k, v) /\ ~(rows[k] # NoId /\ AssertsOn)
  <2>1. /\ proc = "open" /\ size < MaxRows
        /\ internalAdd([key |-> k, val |-> v, deleted |-> FALSE])
        /\ isDirty' = TRUE /\ dirtyRows' = dirtyRows \cup {size}
        /\ UNCHANGED <<proc, touched, unmarked, victims, saver, file, emptied>>
    BY ONLY <1>2 DEF add, Locked
  <2> QED BY ONLY FaultInv, k \in Keys \ {ZeroKey}, v \in Vals, <2>1, InternalAddFault
<1>3. CASE addOrUpdate(k, v) /\ rows[k] = NoId
  <2>1. /\ proc = "open" /\ size < MaxRows
        /\ internalAdd([key |-> k, val |-> v, deleted |-> FALSE])
        /\ isDirty' = TRUE /\ dirtyRows' = dirtyRows \cup {size}
        /\ UNCHANGED <<proc, touched, unmarked, victims, saver, file, emptied>>
    BY ONLY <1>3 DEF addOrUpdate, Locked
  <2> QED BY ONLY FaultInv, k \in Keys \ {ZeroKey}, v \in Vals, <2>1, InternalAddFault
<1>4. CASE addOrUpdate(k, v) /\ rows[k] # NoId
  <2> DEFINE row == [key |-> k, val |-> v, deleted |-> FALSE]
             r == rows[k]
  <2>1. /\ r \in Ids /\ r < size /\ index[r].key = k /\ row \in Row /\ row.key = k
        /\ index' = [index EXCEPT ![r] = row] /\ isDirty' = TRUE
        /\ dirtyRows' \cup unmarked' \subseteq dirtyRows \cup unmarked \cup {r}
        /\ UNCHANGED <<proc, size, rows, touched, victims, lock, pc, fileExists,
                       disk, diskState, emptied>>
    BY <1>4 DEF addOrUpdate, internalUpdate, saver, file, FaultInv, TypeOK, IndexInv
  <2> HIDE DEF row, r
  <2>2. \A i \in Ids : index'[i] = IF i = r THEN row ELSE index[i]
    BY <2>1 DEF FaultInv, TypeOK
  <2>3. TypeOK' BY Zenon, <2>1 DEF FaultInv, TypeOK
  <2>4. IndexInv'
    <3>1. \A i \in Ids : index'[i] # NoRow <=> i < size'
      BY <2>1, <2>2 DEF FaultInv, IndexInv
    <3>2. \A i \in (dirtyRows \cup touched \cup unmarked \cup victims)' : i < size'
      BY <2>1 DEF FaultInv, IndexInv
    <3>3. \A q \in Keys : rows'[q] # NoId => rows'[q] < size' /\ index'[rows'[q]].key = q
      BY <2>1, <2>2 DEF FaultInv, IndexInv, TypeOK
    <3> QED BY <3>1, <3>2, <3>3 DEF IndexInv
  <2>5. size <= size' BY <2>1 DEF FaultInv, TypeOK
  <2>6. \A i \in Ids : i < size => index'[i].key = index[i].key BY <2>1, <2>2
  <2> QED BY <2>1, <2>3, <2>4, <2>5, <2>6, MemoryFault
<1> QED BY <1>1, <1>2, <1>3, <1>4

LEMMA EditFault ==
  ASSUME FaultInv, NEW i \in Ids, NEW v \in Vals,
         updateInPlace(i, v) \/ Touch(i, v) \/ update(i) \/ deleteRow(i)
  PROVE  FaultInv'
<1>1. PICK row \in Row \cup {NoRow} :
        /\ index' = [index EXCEPT ![i] = row]
        /\ i < size /\ index[i] \in Row /\ row \in Row /\ row.key = index[i].key
  <2>1. i < size BY DEF updateInPlace, Touch, update, deleteRow, FaultInv, IndexInv
  <2>2. index[i] \in Row BY <2>1 DEF FaultInv, IndexInv, TypeOK
  <2>3. CASE updateInPlace(i, v) \/ Touch(i, v)
    <3>1. index' = [index EXCEPT ![i] = [index[i] EXCEPT !.val = v]]
      BY <2>3 DEF updateInPlace, Touch
    <3>2. [index[i] EXCEPT !.val = v] \in Row /\ [index[i] EXCEPT !.val = v].key = index[i].key
      BY <2>2
    <3> QED BY Zenon, <2>1, <2>2, <3>1, <3>2
  <2>4. CASE deleteRow(i)
    <3>1. index' = [index EXCEPT ![i] = [index[i] EXCEPT !.deleted = TRUE]]
      BY <2>4 DEF deleteRow
    <3>2. /\ [index[i] EXCEPT !.deleted = TRUE] \in Row
          /\ [index[i] EXCEPT !.deleted = TRUE].key = index[i].key
      BY Zenon, <2>2
    <3> QED BY Zenon, <2>1, <2>2, <3>1, <3>2
  <2>5. CASE update(i)
    <3>1. index' = [index EXCEPT ![i] = index[i]] BY <2>5 DEF update, FaultInv, TypeOK
    <3> QED BY Zenon, <2>1, <2>2, <3>1
  <2> QED BY <2>3, <2>4, <2>5
<1>2. /\ (dirtyRows \cup touched \cup unmarked \cup victims)'
         \subseteq dirtyRows \cup touched \cup unmarked \cup victims \cup {i}
      /\ UNCHANGED <<proc, size, rows, lock, pc, fileExists, disk, diskState, emptied>>
  BY DEF updateInPlace, Touch, update, deleteRow, saver, file
<1>3. isDirty' \in BOOLEAN BY Zenon DEF updateInPlace, Touch, update, deleteRow, FaultInv, TypeOK
<1>4. \A j \in Ids : index'[j] = IF j = i THEN row ELSE index[j]
  BY <1>1 DEF FaultInv, TypeOK
<1>5. TypeOK' BY Zenon, <1>1, <1>2, <1>3 DEF FaultInv, TypeOK
<1>6. IndexInv'
  <2>1. \A j \in Ids : index'[j] # NoRow <=> j < size'
    BY <1>1, <1>2, <1>4 DEF FaultInv, IndexInv
  <2>2. \A j \in (dirtyRows \cup touched \cup unmarked \cup victims)' : j < size'
    BY <1>1, <1>2 DEF FaultInv, IndexInv
  <2>3. \A k \in Keys : rows'[k] # NoId => rows'[k] < size' /\ index'[rows'[k]].key = k
    BY <1>1, <1>2, <1>4 DEF FaultInv, IndexInv, TypeOK
  <2> QED BY <2>1, <2>2, <2>3 DEF IndexInv
<1>7. size <= size' BY <1>2 DEF FaultInv, TypeOK
<1>8. \A j \in Ids : j < size => index'[j].key = index[j].key BY <1>1, <1>4
<1> QED BY <1>2, <1>5, <1>6, <1>7, <1>8, MemoryFault

LEMMA ArchiveFault ==
  ASSUME FaultInv, NEW k \in Keys \ {ZeroKey}, archiveRow(k)
  PROVE  FaultInv'
<1>1. /\ rows[k] \in Ids /\ rows[k] < size
      /\ victims' = victims \cup {rows[k]} /\ rows' = [rows EXCEPT ![k] = NoId]
      /\ UNCHANGED <<proc, index, size, isDirty, dirtyRows, touched, unmarked, lock, pc,
                     fileExists, disk, diskState, emptied>>
  BY DEF archiveRow, saver, file, FaultInv, TypeOK, IndexInv
<1>2. TypeOK'
  <2>1. rows' \in [Keys -> 0..MaxRows] BY <1>1 DEF FaultInv, TypeOK
  <2>2. isDirty' \in BOOLEAN BY <1>1 DEF FaultInv, TypeOK
  <2> QED BY Zenon, <1>1, <2>1, <2>2 DEF FaultInv, TypeOK
<1>3. IndexInv'
  <2>1. \A i \in (dirtyRows \cup touched \cup unmarked \cup victims)' : i < size'
    BY <1>1 DEF FaultInv, IndexInv
  <2>2. \A q \in Keys : rows'[q] # NoId => rows'[q] < size' /\ index'[rows'[q]].key = q
    BY <1>1 DEF FaultInv, IndexInv, TypeOK
  <2> QED BY <2>1, <2>2, <1>1 DEF FaultInv, IndexInv
<1>4. size <= size' BY <1>1 DEF FaultInv, TypeOK
<1> QED BY <1>1, <1>2, <1>3, <1>4, MemoryFault

(* Whatever prefix of the dirty rows a write stores, a row of the file has *)
(* the key it has in memory, or is a zeroed row that fills a gap.          *)
LEMMA WrittenFault ==
  ASSUME FaultInv, proc \in Up, NEW upto \in 0..MaxRows
  PROVE  LET d == WrittenUpTo(upto)
         IN  /\ d \in [Ids -> Row \cup {NoRow}]
             /\ \A i, j \in Ids : i < j /\ d[j] # NoRow => d[i] # NoRow
             /\ \A i \in Ids : d[i] # NoRow => i < size /\ d[i].key \in {index[i].key, ZeroKey}
<1> DEFINE d == WrittenUpTo(upto)
           W == {i \in dirtyRows : i < size /\ i < upto}
<1>1. \A i \in Ids : d[i] = IF i \in W THEN index[i]
                            ELSE IF disk[i] = NoRow /\ \E j \in W : i < j THEN ZeroRow
                            ELSE disk[i]
  BY DEF WrittenUpTo
<1>2. d \in [Ids -> Row \cup {NoRow}]
  BY DEF WrittenUpTo, FaultInv, TypeOK, ZeroRow
<1>3. W \subseteq Ids /\ \A i \in W : i < size /\ index[i] # NoRow
  BY Zenon DEF FaultInv, TypeOK, IndexInv
<1>4. ZeroRow \in Row /\ ZeroRow.key = ZeroKey BY DEF ZeroRow
<1>5. ZeroRow # NoRow BY <1>4
<1> HIDE DEF d, W
<1>6. \A i, j \in Ids : i < j /\ d[j] # NoRow => d[i] # NoRow
  <2> SUFFICES ASSUME NEW i \in Ids, NEW j \in Ids, i < j, d[j] # NoRow, d[i] = NoRow
               PROVE  FALSE
    OBVIOUS
  <2>1. i \notin W /\ disk[i] = NoRow /\ ~\E m \in W : i < m BY <1>1, <1>3, <1>5
  <2>2. disk[j] # NoRow BY <2>1, <1>1, <1>3
  <2> QED BY <2>1, <2>2 DEF FaultInv, FileInv
<1>7. ASSUME NEW i \in Ids, d[i] # NoRow
      PROVE  i < size /\ d[i].key \in {index[i].key, ZeroKey}
  <2>1. CASE i \in W BY <2>1, <1>1, <1>3
  <2>2. CASE i \notin W /\ disk[i] = NoRow
    <3>1. d[i] = ZeroRow /\ \E j \in W : i < j BY <2>2, <1>1, <1>7
    <3>2. i < size BY <3>1, <1>3 DEF FaultInv, TypeOK
    <3> QED BY <3>1, <3>2, <1>4
  <2>3. CASE i \notin W /\ disk[i] # NoRow
    <3>1. d[i] = disk[i] BY <2>3, <1>1
    <3> QED BY <2>3, <3>1 DEF FaultInv, NoForeignRow
  <2> QED BY <2>1, <2>2, <2>3
<1> QED BY <1>2, <1>6, <1>7 DEF d

LEMMA WriteFault ==
  ASSUME FaultInv, NEW s \in Savers,
         writeCheck(s) \/ writeOpen(s) \/ writeRows(s) \/ writeFails(s)
  PROVE  FaultInv'
<1>1. CASE writeCheck(s)
  <2>1. UNCHANGED <<proc, mem, lock, disk, diskState, emptied>>
    BY <1>1 DEF writeCheck, file
  <2>2. /\ pc' \in [Savers -> {"idle", "checked", "writing", "done"}]
        /\ fileExists' \in [Savers -> BOOLEAN]
    BY Zenon, <1>1 DEF writeCheck, AfterWrite, FaultInv, TypeOK
  <2>3. isDirty' \in BOOLEAN /\ emptied' \in BOOLEAN
    BY <2>1 DEF mem, FaultInv, TypeOK
  <2>4. TypeOK' BY <2>1, <2>2, <2>3 DEF mem, FaultInv, TypeOK
  <2>5. IndexInv' /\ NoForeignRow' BY <2>1 DEF mem, FaultInv, IndexInv, NoForeignRow
  <2>6. \A t \in Savers : pc'[t] = "checked" /\ fileExists'[t] => diskState # "absent"
    BY Zenon, <1>1 DEF writeCheck, AfterWrite, FaultInv, FileInv, TypeOK
  <2>7. FileInv' BY <2>1, <2>6 DEF FaultInv, FileInv
  <2> QED BY <2>4, <2>5, <2>7 DEF FaultInv
<1>2. CASE writeOpen(s)
  <2>1. /\ UNCHANGED <<proc, mem, fileExists>> /\ lock' = s
        /\ pc[s] = "checked" /\ pc' = [pc EXCEPT ![s] = "writing"]
    BY <1>2 DEF writeOpen
  <2>2. \/ fileExists[s] /\ UNCHANGED <<disk, diskState>>
        \/ disk' = Empty /\ diskState' = "torn"
    BY <1>2 DEF writeOpen, file
  <2>3. isDirty' \in BOOLEAN BY <2>1 DEF mem, FaultInv, TypeOK
  <2>9. emptied' \in BOOLEAN BY Zenon, <1>2 DEF writeOpen
  <2>4. TypeOK' BY <2>1, <2>2, <2>3, <2>9 DEF mem, FaultInv, TypeOK, Empty
  <2>5. IndexInv' BY <2>1 DEF mem, FaultInv, IndexInv
  <2>6. diskState' # "absent" BY <2>1, <2>2 DEF FaultInv, FileInv
  <2>7. FileInv' BY <2>2, <2>6 DEF FaultInv, FileInv, Empty
  <2>8. NoForeignRow' BY <2>1, <2>2 DEF mem, FaultInv, NoForeignRow, Empty
  <2> QED BY <2>4, <2>5, <2>7, <2>8 DEF FaultInv
<1>3. CASE writeRows(s)
  <2>1. PICK upto \in 0..MaxRows : disk' = WrittenUpTo(upto)
    BY <1>3 DEF writeRows
  <2>2. /\ proc \in Up /\ lock = s /\ diskState' \in {diskState, "valid"}
        /\ dirtyRows' = {} /\ unmarked' = unmarked \ dirtyRows /\ lock' = NoSaver
        /\ UNCHANGED <<proc, index, size, rows, touched, victims, fileExists>>
        /\ pc' = [pc EXCEPT ![s] = AfterWrite(s)]
    BY <1>3 DEF writeRows
  <2>3. isDirty' \in BOOLEAN /\ emptied' \in BOOLEAN
    BY Zenon, <1>3 DEF writeRows, FaultInv, TypeOK
  <2>4. /\ disk' \in [Ids -> Row \cup {NoRow}]
        /\ \A i, j \in Ids : i < j /\ disk'[j] # NoRow => disk'[i] # NoRow
        /\ \A i \in Ids : disk'[i] # NoRow
                           => i < size /\ disk'[i].key \in {index[i].key, ZeroKey}
    BY <2>1, <2>2, WrittenFault
  <2>5. diskState' \in {"torn", "valid"}
    BY <2>2 DEF FaultInv, FileInv, TypeOK
  <2>6. pc' \in [Savers -> {"idle", "checked", "writing", "done"}]
    BY <2>2 DEF AfterWrite, FaultInv, TypeOK
  <2>7. TypeOK' BY <2>2, <2>3, <2>4, <2>5, <2>6 DEF FaultInv, TypeOK
  <2>8. IndexInv' BY <2>2 DEF FaultInv, IndexInv
  <2>9. FileInv' BY <2>2, <2>4, <2>5 DEF FileInv
  <2>10. NoForeignRow' BY <2>2, <2>4 DEF NoForeignRow
  <2> QED BY <2>7, <2>8, <2>9, <2>10 DEF FaultInv
<1>4. CASE writeFails(s)
  <2>1. /\ UNCHANGED <<proc, mem, fileExists, disk, diskState, emptied>>
        /\ lock' = NoSaver /\ pc' = [pc EXCEPT ![s] = AfterWrite(s)]
    BY <1>4 DEF writeFails, file
  <2>2. isDirty' \in BOOLEAN /\ emptied' \in BOOLEAN
    BY <2>1 DEF mem, FaultInv, TypeOK
  <2>3. pc' \in [Savers -> {"idle", "checked", "writing", "done"}]
    BY <2>1 DEF AfterWrite, FaultInv, TypeOK
  <2>4. TypeOK' BY <2>1, <2>2, <2>3 DEF mem, FaultInv, TypeOK
  <2>5. IndexInv' /\ NoForeignRow' BY <2>1 DEF mem, FaultInv, IndexInv, NoForeignRow
  <2>6. FileInv' BY <2>1 DEF AfterWrite, FaultInv, FileInv, TypeOK
  <2> QED BY <2>4, <2>5, <2>6 DEF FaultInv
<1> QED BY <1>1, <1>2, <1>3, <1>4

LEMMA LifeFault ==
  ASSUME FaultInv, stop \/ exit \/ crash \/ rebuild
  PROVE  FaultInv'
<1>1. CASE stop
  <2>1. /\ proc = "open" /\ proc' = "stopping"
        /\ UNCHANGED <<mem, saver, disk, diskState, emptied>>
    BY <1>1 DEF stop, file
  <2>2. isDirty' \in BOOLEAN /\ emptied' \in BOOLEAN
    BY <2>1 DEF mem, FaultInv, TypeOK
  <2>3. TypeOK' BY <2>1, <2>2 DEF mem, saver, FaultInv, TypeOK
  <2>4. IndexInv' /\ FileInv' BY <2>1 DEF mem, saver, FaultInv, IndexInv, FileInv
  <2>5. NoForeignRow' BY <2>1 DEF mem, FaultInv, NoForeignRow, Up
  <2> QED BY <2>3, <2>4, <2>5 DEF FaultInv
<1>2. CASE exit
  <2>1. emptied' \in BOOLEAN BY <1>2 DEF exit, FaultInv, TypeOK
  <2>2. proc' \in {"down", "undefined"} BY <1>2 DEF exit
  <2> QED BY <1>2, <2>1, <2>2, DownFault DEF exit, file, FaultInv, TypeOK, FileInv
<1>3. CASE crash
  <2>1. emptied' \in BOOLEAN BY <1>3 DEF crash, FaultInv, TypeOK
  <2>2. CASE lock = NoSaver
    BY <1>3, <2>1, <2>2, DownFault DEF crash, file, FaultInv, TypeOK, FileInv
  <2>3. CASE lock # NoSaver
    <3>1. PICK upto \in 0..MaxRows :
            disk' = WrittenUpTo(upto) /\ diskState' \in {diskState, "valid"}
      BY <1>3, <2>3 DEF crash
    <3>2. diskState' \in {"torn", "valid"}
      BY <3>1, <2>3 DEF FaultInv, FileInv, TypeOK
    <3>3. proc \in Up /\ FreshMemory /\ FreshSavers /\ proc' = "down" BY <1>3 DEF crash
    <3>4. /\ disk' \in [Ids -> Row \cup {NoRow}]
          /\ \A i, j \in Ids : i < j /\ disk'[j] # NoRow => disk'[i] # NoRow
      BY <3>1, <3>3, WrittenFault
    <3> QED BY <2>1, <3>2, <3>3, <3>4, DownFault
  <2> QED BY <2>2, <2>3
<1>4. CASE rebuild
  <2>1. /\ proc' = "open" /\ disk' = Empty /\ diskState' = "absent"
        /\ FreshMemory /\ FreshSavers
    BY <1>4 DEF rebuild
  <2>2. emptied' \in BOOLEAN BY Zenon, <1>4 DEF rebuild
  <2>3. disk' \in [Ids -> Row \cup {NoRow}] BY <2>1 DEF Empty
  <2>4. TypeOK' /\ IndexInv' BY <2>1, <2>2, <2>3, FreshTypes DEF TypeOK
  <2>5. FileInv' BY <2>1 DEF FileInv, FreshSavers, Empty
  <2>6. NoForeignRow' BY <2>1 DEF NoForeignRow, Empty
  <2> QED BY <2>4, <2>5, <2>6 DEF FaultInv
<1> QED BY <1>1, <1>2, <1>3, <1>4

LEMMA ReadFault ==
  ASSUME FaultInv, read
  PROVE  FaultInv'
<1>1. FreshSavers /\ UNCHANGED <<disk, diskState>> BY DEF read, file
<1>2. emptied' \in BOOLEAN BY Zenon DEF read
<1>3. FileInv' BY <1>1 DEF FaultInv, FileInv, FreshSavers
<1>4. CASE proc' # "open"
  <2>1. FreshMemory /\ proc' \in {"refused", "aborted"} BY <1>4 DEF read
  <2> QED BY DownFault, <1>1, <1>2, <2>1 DEF FaultInv, TypeOK, FileInv
<1>5. CASE diskState = "absent" /\ proc' = "open"
  <2>1. FreshMemory BY <1>5 DEF read
  <2>2. TypeOK' /\ IndexInv' BY <1>1, <1>2, <1>5, <2>1, FreshTypes DEF FaultInv, TypeOK
  <2>3. NoForeignRow' BY <1>1, <1>5 DEF FaultInv, FileInv, NoForeignRow, Empty
  <2> QED BY <1>3, <2>2, <2>3 DEF FaultInv
<1>6. CASE diskState = "valid" /\ proc' = "open"
  <2>1. readRows BY <1>6 DEF read
  <2>2. /\ index' = disk /\ size' \in 0..MaxRows
        /\ \A i \in Ids : disk[i] # NoRow <=> i < size'
    BY <2>1 DEF readRows
  <2>3. /\ rows' \in [Keys -> 0..MaxRows]
        /\ \A k \in Keys : IsLastWithKey(k, rows'[k])
    BY <2>1 DEF readRows
  <2>4. dirtyRows' = {} /\ touched' = {} /\ unmarked' = {} /\ victims' = {}
    BY <2>1 DEF readRows
  <2>5. TypeOK'
    <3>1. isDirty' \in BOOLEAN BY Zenon, <2>1 DEF readRows
    <3>2. /\ lock' \in Savers \cup {NoSaver}
          /\ pc' \in [Savers -> {"idle", "checked", "writing", "done"}]
          /\ fileExists' \in [Savers -> BOOLEAN]
      BY <1>1 DEF FreshSavers
    <3> QED BY <1>1, <1>2, <1>6, <2>2, <2>3, <2>4, <3>1, <3>2 DEF FaultInv, TypeOK
  <2>6. IndexInv' BY <2>2, <2>3, <2>4 DEF IndexInv, IsLastWithKey, FaultInv, TypeOK
  <2>7. NoForeignRow' BY <1>1, <2>2 DEF NoForeignRow
  <2> QED BY <1>3, <2>5, <2>6, <2>7 DEF FaultInv
<1> QED BY <1>4, <1>5, <1>6 DEF read

LEMMA FaultInit == Init => FaultInv
<1> HAVE Init
<1>1. TypeOK /\ IndexInv BY InitInv DEF IInv
<1>2. FileInv /\ NoForeignRow BY DEF Init, FileInv, NoForeignRow, Up, Empty
<1> QED BY <1>1, <1>2 DEF FaultInv

LEMMA FaultStep ==
  ASSUME FaultInv, [Next]_vars
  PROVE  FaultInv'
<1>1. CASE UNCHANGED vars
  <2> USE <1>1 DEF vars, mem, saver, file, FaultInv
  <2>1. TypeOK'
    <3>1. isDirty' \in BOOLEAN /\ emptied' \in BOOLEAN BY DEF TypeOK
    <3> QED BY <3>1 DEF TypeOK
  <2>2. IndexInv' BY DEF IndexInv
  <2>3. FileInv' BY DEF FileInv
  <2>4. NoForeignRow' BY DEF NoForeignRow
  <2> QED BY <2>1, <2>2, <2>3, <2>4
<1>2. CASE \E k \in Keys \ {ZeroKey}, v \in Vals : add(k, v) \/ addOrUpdate(k, v)
  BY <1>2, AddFault
<1>3. CASE \E k \in Keys \ {ZeroKey} : archiveRow(k) BY <1>3, ArchiveFault
<1>4. CASE \E i \in Ids, v \in Vals : updateInPlace(i, v) \/ Touch(i, v) BY <1>4, EditFault
<1>5. CASE \E i \in Ids : update(i) \/ deleteRow(i) BY <1>5, EditFault
<1>6. CASE \E s \in Savers : writeCheck(s) \/ writeOpen(s) \/ writeRows(s) \/ writeFails(s)
  BY <1>6, WriteFault
<1>7. CASE stop \/ exit \/ crash \/ rebuild BY <1>7, LifeFault
<1>8. CASE read BY <1>8, ReadFault
<1> QED BY <1>1, <1>2, <1>3, <1>4, <1>5, <1>6, <1>7, <1>8 DEF Next

(* With any number of savers, any write failing at any row and any client  *)
(* adding any key, a row of the file is never taken for another, and the   *)
(* file has no gaps: the worst a lost write leaves is a zeroed row.        *)
THEOREM NeverForeign == Spec => []NoForeignRow
<1>1. FaultInv => NoForeignRow BY DEF FaultInv
<1> QED BY <1>1, FaultInit, FaultStep, PTL DEF Spec

(* Type correctness: the operations of Table.cpp keep the index, the key   *)
(* map, the marks and the file within their types, whatever fails.         *)
THEOREM TypeCorrect == Spec => []TypeOK
<1>1. FaultInv => TypeOK BY DEF FaultInv
<1> QED BY <1>1, FaultInit, FaultStep, PTL DEF Spec

-----------------------------------------------------------------------------
(* Any number of savers whose file operations succeed.  Each lemma takes   *)
(* FaultInv' from FaultStep and adds what the savers keep.                 *)

(* A change of the rows by a worker.                                       *)
LEMMA ClientShared ==
  ASSUME SharedInv, TypeOK', proc = "open",
         UNCHANGED <<proc, lock, pc, fileExists, disk, diskState, emptied>>,
         dirtyRows' # {} => isDirty',
         \A i \in Ids : i < size' /\ i \notin dirtyRows' => i < size /\ i \notin dirtyRows,
         \A i \in Ids : i < size' /\ i \notin (dirtyRows \cup touched \cup unmarked)'
                        => /\ i < size /\ i \notin dirtyRows \cup touched \cup unmarked
                           /\ index'[i] = index[i]
  PROVE  SharingInv' /\ KeptFileInv'
<1>1. SharingInv' BY DEF SharedInv, SharingInv
<1>2. pc[StopSaver] = "idle" BY DEF SharedInv, SharingInv
<1>3. KeptFileInv' BY <1>2 DEF SharedInv, KeptFileInv, Up
<1> QED BY <1>1, <1>3

LEMMA DownShared ==
  ASSUME FreshMemory, FreshSavers, proc' \notin Up
  PROVE  SharingInv' /\ KeptFileInv'
<1>1. SharingInv' BY DEF SharingInv, FreshMemory, FreshSavers, Up
<1>2. KeptFileInv' BY DEF KeptFileInv
<1> QED BY <1>1, <1>2

LEMMA WorkerShared ==
  ASSUME SharedInv, FaultInv', NEW k \in Keys, NEW i \in Ids, NEW v \in Vals,
         \/ add(k, v) \/ addOrUpdate(k, v) \/ archiveRow(k)
         \/ updateInPlace(i, v) \/ Touch(i, v) \/ update(i) \/ deleteRow(i)
  PROVE  SharingInv' /\ KeptFileInv'
<1> USE DEF SharedInv, FaultInv
<1>1. CASE add(k, v) /\ Abort
  BY <1>1, DownShared DEF Abort, Up
<1>2. CASE \/ add(k, v) /\ ~(rows[k] # NoId /\ AssertsOn)
           \/ addOrUpdate(k, v) /\ rows[k] = NoId
  <2>1. /\ proc = "open" /\ size \in Ids /\ size' = size + 1 /\ size \in Nat
        /\ \A j \in Ids : j # size => index'[j] = index[j]
        /\ dirtyRows' = dirtyRows \cup {size} /\ isDirty'
        /\ UNCHANGED <<proc, touched, unmarked, lock, pc, fileExists, disk, diskState,
                       emptied>>
    <3>1. /\ proc = "open" /\ size < MaxRows
          /\ internalAdd([key |-> k, val |-> v, deleted |-> FALSE])
          /\ dirtyRows' = dirtyRows \cup {size} /\ isDirty'
          /\ UNCHANGED <<proc, touched, unmarked, saver, file, emptied>>
      BY Zenon, <1>2 DEF add, addOrUpdate, Locked
    <3>2. size \in Ids /\ size \in Nat BY <3>1 DEF TypeOK, Ids
    <3>3. \A j \in Ids : j # size => index'[j] = index[j] BY <3>1 DEF internalAdd, TypeOK
    <3>4. size' = size + 1 BY <3>1 DEF internalAdd
    <3> QED BY <3>1, <3>2, <3>3, <3>4 DEF saver, file
  <2> QED BY <2>1, ClientShared
<1>3. CASE addOrUpdate(k, v) /\ rows[k] # NoId
  <2>1. /\ proc = "open" /\ rows[k] \in Ids /\ isDirty' /\ size' = size
        /\ \A j \in Ids : j # rows[k] => index'[j] = index[j]
        /\ \/ dirtyRows' = dirtyRows \cup {rows[k]} /\ unmarked' = unmarked
           \/ unmarked' = unmarked \cup {rows[k]} /\ dirtyRows' = dirtyRows
        /\ UNCHANGED <<proc, touched, lock, pc, fileExists, disk, diskState, emptied>>
    BY <1>3 DEF addOrUpdate, internalUpdate, Locked, saver, file, TypeOK
  <2> QED BY <2>1, ClientShared
<1>4. CASE archiveRow(k)
  <2>1. /\ proc = "open"
        /\ UNCHANGED <<proc, index, size, isDirty, dirtyRows, touched, unmarked, lock, pc,
                       fileExists, disk, diskState, emptied>>
    BY <1>4 DEF archiveRow, Locked, saver, file
  <2>2. dirtyRows' # {} => isDirty' BY <2>1 DEF SharingInv
  <2> QED BY <2>1, <2>2, ClientShared
<1>5. CASE updateInPlace(i, v) \/ update(i) \/ deleteRow(i)
  <2>1. /\ proc = "open" /\ isDirty' /\ dirtyRows' = dirtyRows \cup {i} /\ size' = size
        /\ \A j \in Ids : j # i => index'[j] = index[j]
        /\ touched \subseteq touched' \cup {i} /\ unmarked' = unmarked
        /\ UNCHANGED <<proc, lock, pc, fileExists, disk, diskState, emptied>>
    BY <1>5 DEF updateInPlace, update, deleteRow, Locked, saver, file, TypeOK
  <2> QED BY <2>1, ClientShared
<1>6. CASE Touch(i, v)
  <2>1. /\ proc = "open" /\ size' = size /\ touched' = touched \cup {i}
        /\ \A j \in Ids : j # i => index'[j] = index[j]
        /\ UNCHANGED <<proc, isDirty, dirtyRows, unmarked, lock, pc, fileExists, disk,
                       diskState, emptied>>
    BY <1>6 DEF Touch, saver, file, TypeOK
  <2>2. dirtyRows' # {} => isDirty' BY <2>1 DEF SharingInv
  <2> QED BY <2>1, <2>2, ClientShared
<1>7. add(k, v) => Abort \/ ~(rows[k] # NoId /\ AssertsOn) BY DEF add
<1> QED BY <1>1, <1>2, <1>3, <1>4, <1>5, <1>6, <1>7

LEMMA WriteCheckShared ==
  ASSUME SharedInv, NEW s \in Savers, writeCheck(s)
  PROVE  SharingInv' /\ KeptFileInv'
<1> USE DEF SharedInv
<1>1. /\ pc[s] = "idle" /\ MaySave(s)
      /\ UNCHANGED <<proc, index, size, isDirty, dirtyRows, touched, unmarked, victims, lock,
                     disk, diskState, emptied>>
      /\ \A t \in Savers : t # s => pc'[t] = pc[t] /\ fileExists'[t] = fileExists[t]
      /\ \/ /\ ~isDirty /\ diskState # "absent" /\ pc'[s] = AfterWrite(s)
         \/ pc'[s] = "checked" /\ (fileExists'[s] <=> diskState # "absent")
  <2>1. pc \in [Savers -> {"idle", "checked", "writing", "done"}]
        /\ fileExists \in [Savers -> BOOLEAN]
    BY DEF FaultInv, TypeOK
  <2> QED BY Zenon, <2>1 DEF writeCheck, mem, file
<1>2. lock # s BY <1>1 DEF SharingInv
<1>3. proc \in Up BY <1>1 DEF MaySave, Up
<1>4. SharingInv'
  <2>1. \A t \in Savers : pc'[t] = "writing" <=> lock' = t
    BY <1>1, <1>2 DEF SharingInv, AfterWrite
  <2>2. \A t \in Savers : lock' = t /\ fileExists'[t] => diskState' = "valid"
    BY <1>1, <1>2 DEF SharingInv
  <2>3. pc'[StopSaver] # "idle" => proc' = "stopping"
    BY <1>1 DEF SharingInv, MaySave
  <2> QED BY <1>1, <2>1, <2>2, <2>3 DEF SharingInv
<1>5. KeptFileInv'
  <2>1. pc'[StopSaver] = "done" /\ ~emptied => dirtyRows = {} /\ diskState # "absent"
    <3>1. CASE s # StopSaver BY <1>1, <1>3, <3>1 DEF KeptFileInv
    <3>2. CASE s = StopSaver
      <4>1. pc'[s] = "done" => ~isDirty /\ diskState # "absent" BY <1>1
      <4> QED BY <3>2, <4>1 DEF SharingInv
    <3> QED BY <3>1, <3>2
  <2> QED BY <1>1, <1>3, <2>1 DEF KeptFileInv
<1> QED BY <1>4, <1>5

LEMMA WriteOpenShared ==
  ASSUME SharedInv, NEW s \in Savers, writeOpen(s)
  PROVE  SharingInv' /\ KeptFileInv'
<1> USE DEF SharedInv
<1>1. /\ pc[s] = "checked" /\ lock = NoSaver /\ proc \in Up /\ lock' = s
      /\ UNCHANGED <<proc, index, size, isDirty, dirtyRows, touched, unmarked, victims,
                     fileExists>>
      /\ pc'[s] = "writing" /\ \A t \in Savers : t # s => pc'[t] = pc[t]
      /\ \/ fileExists[s] /\ UNCHANGED <<disk, diskState>>
         \/ ~fileExists[s] /\ disk' = Empty /\ diskState' = "torn"
      /\ ~emptied' => ~emptied /\ (fileExists[s] \/ diskState = "absent")
  BY DEF writeOpen, mem, file, FaultInv, TypeOK
<1>2. fileExists[s] => diskState = "valid"
  BY <1>1 DEF FaultInv, FileInv, SharingInv, TypeOK
<1>3. SharingInv'
  <2>1. \A t \in Savers : pc'[t] = "writing" <=> lock' = t
    BY <1>1 DEF SharingInv
  <2>2. \A t \in Savers : lock' = t /\ fileExists'[t] => diskState' = "valid"
    BY <1>1, <1>2
  <2>3. pc'[StopSaver] # "idle" => proc' = "stopping" BY <1>1 DEF SharingInv
  <2> QED BY <1>1, <2>1, <2>2, <2>3 DEF SharingInv
<1>4. KeptFileInv'
  <2> SUFFICES ASSUME ~emptied' PROVE KeptFileInv' BY DEF KeptFileInv
  <2>1. disk' = disk BY <1>1 DEF FaultInv, FileInv
  <2>2. pc'[StopSaver] = "done" => pc[StopSaver] = "done" BY <1>1
  <2>3. diskState' = "absent" => diskState = "absent" BY <1>1
  <2> QED BY <1>1, <2>1, <2>2, <2>3 DEF KeptFileInv
<1> QED BY <1>3, <1>4

LEMMA WriteRowsShared ==
  ASSUME SharedInv, ~IOErrors, NEW s \in Savers, writeRows(s)
  PROVE  SharingInv' /\ KeptFileInv'
<1> USE DEF SharedInv
<1>1. /\ pc[s] = "writing" /\ lock = s /\ proc \in Up /\ lock' = NoSaver
      /\ UNCHANGED <<proc, index, size, touched, victims, fileExists, emptied>>
      /\ dirtyRows' = {} /\ unmarked' = unmarked \ dirtyRows
      /\ disk' = WrittenUpTo(MaxRows)
      /\ pc'[s] = AfterWrite(s) /\ \A t \in Savers : t # s => pc'[t] = pc[t]
  BY DEF writeRows, FaultInv, TypeOK
<1>2. diskState' = "valid" BY <1>1 DEF writeRows, SharingInv
<1>3. SharingInv'
  <2>1. \A t \in Savers : pc'[t] = "writing" <=> lock' = t
    BY <1>1 DEF SharingInv, AfterWrite
  <2>2. pc'[StopSaver] # "idle" => proc' = "stopping"
    BY <1>1 DEF SharingInv, AfterWrite
  <2>3. NoSaver \notin Savers OBVIOUS
  <2> QED BY <1>1, <1>2, <2>1, <2>2, <2>3 DEF SharingInv
<1>4. ASSUME ~emptied
      PROVE  /\ \A i \in Ids : i < size => disk'[i] # NoRow
             /\ \A i \in Ids : i < size /\ i \notin touched \cup unmarked'
                               => disk'[i] = index[i]
  <2>2. \A i \in Ids : i < size /\ i \in dirtyRows => disk'[i] = index[i]
    BY <1>1 DEF WrittenUpTo
  <2>3. \A i \in Ids : i < size /\ i \notin dirtyRows => disk[i] # NoRow /\ disk'[i] = disk[i]
    BY <1>1, <1>4 DEF WrittenUpTo, KeptFileInv
  <2>4. \A i \in Ids : i < size => index[i] # NoRow BY DEF FaultInv, IndexInv
  <2>5. \A i \in Ids : i < size /\ i \notin dirtyRows \cup touched \cup unmarked
                       => disk[i] = index[i]
    BY <1>1, <1>4 DEF KeptFileInv
  <2> QED BY <1>1, <2>2, <2>3, <2>4, <2>5
<1>5. KeptFileInv' BY <1>1, <1>2, <1>4 DEF KeptFileInv
<1> QED BY <1>3, <1>5

LEMMA OpenShared ==
  ASSUME SharedInv, read \/ rebuild
  PROVE  SharingInv' /\ KeptFileInv'
<1> USE DEF SharedInv
<1>1. FreshSavers BY DEF read, rebuild
<1>2. CASE proc' \notin Up
  <2>1. FreshMemory BY <1>2 DEF read, rebuild, Up
  <2> QED BY <1>1, <1>2, <2>1, DownShared
<1>3. CASE proc' \in Up
  <2>1. /\ proc' = "open"
        /\ \/ FreshMemory /\ diskState' = "absent"
           \/ readRows /\ disk' = disk /\ diskState' = "valid"
    BY Zenon, <1>3 DEF read, rebuild, file, Up
  <2>2. /\ dirtyRows' = {} /\ touched' = {} /\ unmarked' = {} /\ victims' = {}
        /\ \/ size' = 0
           \/ index' = disk' /\ \A i \in Ids : disk'[i] # NoRow <=> i < size'
    BY <2>1 DEF FreshMemory, readRows
  <2>3. SharingInv' BY <1>1, <2>1, <2>2 DEF SharingInv, FreshSavers
  <2>4. \A t \in Savers : pc'[t] = "idle" BY <1>1 DEF FreshSavers
  <2>5. KeptFileInv' BY <2>1, <2>2, <2>4 DEF KeptFileInv
  <2> QED BY <2>3, <2>5
<1> QED BY <1>2, <1>3

LEMMA SharedStep ==
  ASSUME SharedInv, ~IOErrors, [Next]_vars
  PROVE  SharedInv'
<1>1. FaultInv' BY FaultStep DEF SharedInv
<1>2. SharingInv' /\ KeptFileInv'
  <2>1. CASE UNCHANGED vars
    BY <2>1 DEF vars, mem, saver, file, SharedInv, SharingInv, KeptFileInv
  <2>2. CASE \E k \in Keys \ {ZeroKey}, v \in Vals : add(k, v) \/ addOrUpdate(k, v)
    <3>1. size < MaxRows \/ \E k \in Keys : rows[k] # NoId BY <2>2 DEF add, addOrUpdate
    <3>2. size \in 0..MaxRows /\ \A k \in Keys : rows[k] \in 0..MaxRows
      BY DEF SharedInv, FaultInv, TypeOK
    <3>3. 0 \in Ids BY <3>1, <3>2
    <3> QED BY <1>1, <2>2, <3>3, WorkerShared
  <2>3. CASE \E k \in Keys \ {ZeroKey} : archiveRow(k)
    <3>1. Ids # {} BY <2>3 DEF archiveRow, SharedInv, FaultInv, TypeOK
    <3> QED BY <1>1, <2>3, <3>1, WorkerShared
  <2>4. CASE \E i \in Ids, v \in Vals : updateInPlace(i, v) \/ Touch(i, v)
    BY <1>1, <2>4, WorkerShared
  <2>5. CASE \E i \in Ids : update(i) \/ deleteRow(i) BY <1>1, <2>5, WorkerShared
  <2>6. CASE \E s \in Savers : writeCheck(s) \/ writeOpen(s) \/ writeRows(s) \/ writeFails(s)
    BY <2>6, WriteCheckShared, WriteOpenShared, WriteRowsShared DEF writeFails
  <2>7. CASE stop
    <3>1. /\ proc = "open" /\ proc' = "stopping" /\ touched = {} /\ victims = {}
          /\ UNCHANGED <<index, size, isDirty, dirtyRows, touched, unmarked, victims, lock, pc,
                         fileExists, disk, diskState, emptied>>
      BY <2>7 DEF stop, mem, saver, file
    <3>2. SharingInv' BY <3>1 DEF SharedInv, SharingInv, Up
    <3>3. KeptFileInv' BY <3>1 DEF SharedInv, KeptFileInv, Up
    <3> QED BY <3>2, <3>3
  <2>8. CASE exit \/ crash BY <2>8, DownShared DEF exit, crash, Up
  <2>9. CASE read \/ rebuild BY <2>9, OpenShared
  <2> QED BY <2>1, <2>2, <2>3, <2>4, <2>5, <2>6, <2>7, <2>8, <2>9 DEF Next
<1> QED BY <1>1, <1>2 DEF SharedInv

LEMMA SharedInvariance ==
  ASSUME ~IOErrors
  PROVE  Spec => []SharedInv
<1>1. Init => SharedInv
  <2> HAVE Init
  <2>1. FaultInv BY FaultInit
  <2>2. SharingInv BY DEF Init, SharingInv, Up
  <2>3. KeptFileInv BY DEF Init, KeptFileInv, Up
  <2> QED BY <2>1, <2>2, <2>3 DEF SharedInv
<1> QED BY <1>1, SharedStep, PTL DEF Spec

(* Whatever the order of adds, updates, replacements, crashes and the      *)
(* saves of any number of savers, writeRows() may skip a row that is not   *)
(* marked dirty: it is in the file, until a saver that found no file       *)
(* empties one that another has written.                                   *)
THEOREM Saved ==
  ASSUME ~IOErrors
  PROVE  Spec => []SavedUnlessDirty
<1>1. SharedInv => SavedUnlessDirty
  BY DEF SharedInv, KeptFileInv, SavedUnlessDirty
<1> QED BY <1>1, SharedInvariance, PTL

(* However many savers overlap, Table::write() leaves the file without a   *)
(* header only while one writes.                                           *)
THEOREM Readable ==
  ASSUME ~IOErrors
  PROVE  Spec => []ReadableOutsideWrite
<1>1. ASSUME SharedInv, proc \in Up, diskState = "torn" PROVE \E s \in Savers : pc[s] = "writing"
  <2>1. lock \in Savers BY <1>1 DEF SharedInv, SharingInv, FaultInv, TypeOK
  <2> QED BY <1>1, <2>1 DEF SharedInv, SharingInv
<1>2. SharedInv => ReadableOutsideWrite BY <1>1 DEF ReadableOutsideWrite
<1> QED BY <1>2, SharedInvariance, PTL

(* A program that ends after Database::stop(), with any number of savers   *)
(* that saved beside it but are not in write() any more, leaves every row  *)
(* in the file, those updated under a freed row's id and a file emptied by *)
(* a second saver apart.                                                   *)
THEOREM StopDurable ==
  ASSUME ~IOErrors
  PROVE  Spec => StopSavesEverything
<1>1. ASSUME SharedInv, exit, proc' = "down", unmarked = {}, ~emptied
      PROVE  diskState = "valid" /\ disk = index
  <2>1. proc = "stopping" /\ proc \in Up /\ pc[StopSaver] = "done" BY <1>1 DEF exit, Up
  <2>6. lock = NoSaver
    <3>1. OthersAreIdle BY <1>1 DEF exit
    <3>2. \A s \in Savers : pc[s] # "writing" BY <2>1, <3>1 DEF OthersAreIdle
    <3> QED BY <1>1, <3>2 DEF SharedInv, SharingInv, FaultInv, TypeOK
  <2>2. dirtyRows = {} /\ touched = {} /\ diskState = "valid"
    BY <1>1, <2>1, <2>6 DEF SharedInv, SharingInv, KeptFileInv, FaultInv, TypeOK
  <2>3. \A i \in Ids : i < size => disk[i] = index[i]
    BY <1>1, <2>1, <2>2 DEF SharedInv, KeptFileInv
  <2>4. \A i \in Ids : ~(i < size) => disk[i] = NoRow /\ index[i] = NoRow
    BY <1>1, <2>1 DEF SharedInv, FaultInv, NoForeignRow, IndexInv
  <2>5. disk = index BY <1>1, <2>3, <2>4 DEF SharedInv, FaultInv, TypeOK
  <2> QED BY <2>2, <2>5
<1>2. SharedInv => (exit /\ proc' = "down" /\ unmarked = {} /\ ~emptied
                    => diskState = "valid" /\ disk = index)
  BY <1>1
<1> QED BY <1>2, SharedInvariance, PTL DEF StopSavesEverything

-----------------------------------------------------------------------------
(* A build with asserts.                                                   *)

LEMMA AddApart ==
  ASSUME FaultInv, FaultInv', KeysApart, NEW k \in Keys, NEW v \in Vals,
         rows[k] = NoId, ~BeingReplaced(k), proc = "open", size < MaxRows,
         internalAdd([key |-> k, val |-> v, deleted |-> FALSE]), UNCHANGED victims
  PROVE  KeysApart'
<1> DEFINE row == [key |-> k, val |-> v, deleted |-> FALSE]
<1>1. /\ size \in Ids /\ size \in Nat /\ row.key = k
      /\ rows' = [rows EXCEPT ![k] = size] /\ size' = size + 1
      /\ \A i \in Ids : index'[i] = IF i = size THEN row ELSE index[i]
  BY DEF internalAdd, FaultInv, TypeOK
<1> HIDE DEF row
<1>2. \A i \in Ids : i < size => index[i].key \in Keys
  BY DEF FaultInv, TypeOK, IndexInv
<1>8. OlderRowsDeleted /\ KeysFindLast /\ KeysFindLive BY Zenon DEF KeysApart, Up
<1>3. ASSUME NEW i \in Ids, i < size, index[i].key = k
      PROVE  index[i].deleted /\ i \notin victims
  <2>1. i \notin victims BY Zenon, <1>3 DEF BeingReplaced
  <2>2. rows[k] # i OBVIOUS
  <2> QED BY Zenon, <1>3, <1>8, <2>1, <2>2 DEF KeysFindLive
<1>4. \A i \in Ids : i < size' => i < size \/ i = size BY <1>1
<1>5. ASSUME NEW i \in Ids, NEW j \in Ids, i < j, j < size', index'[i].key = index'[j].key
      PROVE  index'[i].deleted /\ i \notin victims'
  <2>1. i < size BY <1>1, <1>5
  <2>2. i # size /\ index'[i] = index[i] BY <1>1, <2>1
  <2>3. CASE j < size
    <3>1. index'[j] = index[j] BY <1>1, <2>3
    <3> QED BY Zenon, <1>5, <1>8, <2>2, <2>3, <3>1 DEF OlderRowsDeleted
  <2>4. CASE j = size
    <3>1. index[i].key = k BY Zenon, <1>1, <1>5, <2>2, <2>4
    <3> QED BY Zenon, <1>3, <2>1, <2>2, <3>1
  <2>5. j < size \/ j = size BY Zenon, <1>4, <1>5
  <2> QED BY Zenon, <2>3, <2>4, <2>5
<1>6. KeysFindLast'
  <2> SUFFICES ASSUME NEW i \in Ids, i < size', rows'[index'[i].key] # NoId
               PROVE  i <= rows'[index'[i].key]
    BY DEF KeysFindLast
  <2>1. CASE i = size BY <1>1, <2>1 DEF FaultInv, TypeOK
  <2>2. CASE i < size
    <3>1. index'[i] = index[i] /\ index[i].key \in Keys BY <1>1, <1>2, <2>2
    <3>2. CASE index[i].key = k BY <1>1, <2>2, <3>1, <3>2 DEF FaultInv, TypeOK
    <3>3. CASE index[i].key # k
      <4>1. rows'[index[i].key] = rows[index[i].key] BY <1>1, <3>1, <3>3 DEF FaultInv, TypeOK
      <4> QED BY Zenon, <1>8, <2>2, <3>1, <4>1 DEF KeysFindLast
    <3> QED BY <3>2, <3>3
  <2> QED BY Zenon, <1>4, <2>1, <2>2
<1>7. KeysFindLive'
  <2> SUFFICES ASSUME NEW i \in Ids, i < size', ~index'[i].deleted, i \notin victims'
               PROVE  rows'[index'[i].key] = i
    BY DEF KeysFindLive
  <2>1. CASE i = size BY <1>1, <2>1 DEF FaultInv, TypeOK
  <2>2. CASE i < size
    <3>1. index'[i] = index[i] /\ index[i].key \in Keys BY <1>1, <1>2, <2>2
    <3>2. index[i].key # k BY Zenon, <1>3, <2>2, <3>1
    <3>3. rows'[index[i].key] = rows[index[i].key] BY <1>1, <3>1, <3>2 DEF FaultInv, TypeOK
    <3> QED BY Zenon, <1>8, <2>2, <3>1, <3>3 DEF KeysFindLive
  <2> QED BY Zenon, <1>4, <2>1, <2>2
<1>9. OlderRowsDeleted' BY Zenon, <1>5 DEF OlderRowsDeleted
<1> QED BY Zenon, <1>6, <1>7, <1>9 DEF KeysApart

LEMMA WorkerApart ==
  ASSUME FaultInv, FaultInv', AssertsOn, KeysApart,
         NEW k \in Keys, NEW i \in Ids, NEW v \in Vals,
         \/ add(k, v) \/ addOrUpdate(k, v) \/ archiveRow(k)
         \/ updateInPlace(i, v) \/ Touch(i, v) \/ update(i) \/ deleteRow(i)
  PROVE  KeysApart'
<1> USE DEF FaultInv
<1>0. proc = "open" => OlderRowsDeleted /\ KeysFindLast /\ KeysFindLive BY Zenon DEF KeysApart, Up
<1>1. CASE add(k, v) \/ (addOrUpdate(k, v) /\ rows[k] = NoId)
  <2>1. CASE proc' = "aborted" BY <2>1 DEF KeysApart, Up
  <2>2. CASE proc' # "aborted"
    <3>1. /\ rows[k] = NoId /\ ~BeingReplaced(k) /\ proc = "open" /\ size < MaxRows
          /\ internalAdd([key |-> k, val |-> v, deleted |-> FALSE]) /\ UNCHANGED victims
      BY <1>1, <2>2 DEF add, addOrUpdate, Abort, Locked
    <3> QED BY <3>1, AddApart
  <2> QED BY <2>1, <2>2
<1>2. CASE addOrUpdate(k, v) /\ rows[k] # NoId
  <2> DEFINE row == [key |-> k, val |-> v, deleted |-> FALSE]
             r == rows[k]
  <2>1. /\ r \in Ids /\ r < size /\ index[r].key = k /\ row.key = k /\ proc = "open"
        /\ UNCHANGED <<proc, size, rows, victims>>
        /\ \A j \in Ids : index'[j] = IF j = r THEN row ELSE index[j]
    <3>1. /\ proc = "open" /\ internalUpdate(k, v) /\ UNCHANGED <<proc, size, rows, victims>>
      BY Zenon, <1>2 DEF addOrUpdate, Locked
    <3>2. r \in Ids /\ r < size /\ index[r].key = k
      <4>1. rows[k] \in Ids BY <1>2 DEF TypeOK
      <4>2. rows[k] < size /\ index[rows[k]].key = k BY <1>2 DEF IndexInv
      <4> QED BY <4>1, <4>2
    <3>3. \A j \in Ids : index'[j] = IF j = r THEN row ELSE index[j]
      BY <3>1, <3>2 DEF internalUpdate, TypeOK
    <3>4. row.key = k OBVIOUS
    <3> QED BY Zenon, <3>1, <3>2, <3>3, <3>4
  <2>2. \A j \in Ids : index'[j].key = index[j].key BY Zenon, <2>1
  <2>3. \A j \in Ids : j < size /\ index[j].key = k => j <= r
    BY Zenon, <1>0, <1>2, <2>1 DEF KeysFindLast
  <2> HIDE DEF row, r
  <2>4. rows[k] = r BY Zenon DEF r
  <2>5. ASSUME NEW a \in Ids, NEW b \in Ids, a < b, b < size, index[a].key = index[b].key
        PROVE  index'[a].deleted /\ a \notin victims
    <3>1. a # r
      <4> SUFFICES ASSUME a = r PROVE FALSE OBVIOUS
      <4>1. index[b].key = k BY Zenon, <2>1, <2>5
      <4>2. b <= r BY Zenon, <2>3, <2>5, <4>1
      <4>3. a \in Nat /\ b \in Nat OBVIOUS
      <4> QED BY ONLY a = r, a < b, <4>2, <4>3
    <3> QED BY Zenon, <1>0, <2>1, <2>5, <3>1 DEF OlderRowsDeleted
  <2>7. ASSUME NEW j \in Ids, j < size, ~index'[j].deleted, j \notin victims
        PROVE  rows[index[j].key] = j
    <3>1. CASE j = r BY Zenon, <2>1, <2>4, <3>1
    <3>2. CASE j # r BY Zenon, <1>0, <2>1, <2>7, <3>2 DEF KeysFindLive
    <3> QED BY Zenon, <3>1, <3>2
  <2>8. OlderRowsDeleted' BY Zenon, <2>1, <2>2, <2>5 DEF OlderRowsDeleted
  <2>9. KeysFindLast' BY Zenon, <1>0, <2>1, <2>2 DEF KeysFindLast
  <2>10. KeysFindLive' BY Zenon, <2>1, <2>2, <2>7 DEF KeysFindLive
  <2> QED BY Zenon, <2>8, <2>9, <2>10 DEF KeysApart
<1>3. CASE archiveRow(k)
  <2>1. /\ rows[k] \in Ids /\ rows[k] < size /\ index[rows[k]].key = k /\ proc = "open"
        /\ UNCHANGED <<proc, size, index>> /\ victims' = victims \cup {rows[k]}
        /\ rows' = [rows EXCEPT ![k] = NoId] /\ rows[k] # NoId
    BY <1>3 DEF archiveRow, Locked, TypeOK, IndexInv
  <2>2. \A j \in Ids : j < size => index[j].key \in Keys BY DEF TypeOK, IndexInv
  <2>3. \A j \in Ids : j < size /\ index[j].key = k => j <= rows[k]
    BY Zenon, <1>0, <2>1 DEF KeysFindLast
  <2>4. ASSUME NEW a \in Ids, NEW b \in Ids, a < b, b < size, index[a].key = index[b].key
        PROVE  index[a].deleted /\ a \notin victims'
    <3>1. a # rows[k]
      <4> SUFFICES ASSUME a = rows[k] PROVE FALSE OBVIOUS
      <4>1. index[b].key = k BY Zenon, <2>1, <2>4
      <4>2. b <= a BY Zenon, <2>3, <2>4, <4>1
      <4>3. a \in Nat /\ b \in Nat OBVIOUS
      <4> QED BY ONLY a < b, <4>2, <4>3
    <3>2. index[a].deleted /\ a \notin victims BY Zenon, <1>0, <2>1, <2>4 DEF OlderRowsDeleted
    <3> QED BY Zenon, <2>1, <3>1, <3>2
  <2>5. \A j \in Ids : j < size => rows'[index[j].key] = IF index[j].key = k THEN NoId
                                                         ELSE rows[index[j].key]
    BY <2>1, <2>2 DEF TypeOK
  <2>6. OlderRowsDeleted' BY Zenon, <2>1, <2>4 DEF OlderRowsDeleted
  <2>7. KeysFindLast'
    <3> SUFFICES ASSUME NEW j \in Ids, j < size, rows'[index[j].key] # NoId
                 PROVE  j <= rows'[index[j].key]
      BY Zenon, <2>1 DEF KeysFindLast
    <3>1. rows'[index[j].key] = rows[index[j].key] BY Zenon, <2>5
    <3> QED BY Zenon, <1>0, <2>1, <3>1 DEF KeysFindLast
  <2>8. KeysFindLive'
    <3> SUFFICES ASSUME NEW j \in Ids, j < size, ~index[j].deleted, j \notin victims'
                 PROVE  rows'[index[j].key] = j
      BY Zenon, <2>1 DEF KeysFindLive
    <3>1. j \notin victims /\ j # rows[k] BY Zenon, <2>1
    <3>2. rows[index[j].key] = j BY Zenon, <1>0, <2>1, <3>1 DEF KeysFindLive
    <3>3. index[j].key # k BY Zenon, <3>1, <3>2
    <3> QED BY Zenon, <2>5, <3>2, <3>3
  <2> QED BY Zenon, <2>6, <2>7, <2>8 DEF KeysApart
<1>4. CASE updateInPlace(i, v) \/ Touch(i, v) \/ update(i) \/ deleteRow(i)
  <2>1. i < size BY <1>4 DEF updateInPlace, Touch, update, deleteRow, IndexInv
  <2>2. index[i] \in Row BY <2>1 DEF IndexInv, TypeOK
  <2>3. proc = "open" /\ UNCHANGED <<proc, size, rows>>
    BY <1>4 DEF updateInPlace, Touch, update, deleteRow, Locked
  <2>4. PICK row \in Row :
          /\ index' = [index EXCEPT ![i] = row] /\ row.key = index[i].key
          /\ \/ victims' = victims /\ row.deleted = index[i].deleted
             \/ victims' = victims \ {i} /\ row.deleted = TRUE
    <3>1. CASE updateInPlace(i, v) \/ Touch(i, v)
      <4> DEFINE row == [index[i] EXCEPT !.val = v]
      <4>1. index' = [index EXCEPT ![i] = row] /\ victims' = victims
        BY <3>1 DEF updateInPlace, Touch
      <4>2. row \in Row /\ row.key = index[i].key /\ row.deleted = index[i].deleted BY <2>2
      <4> QED BY Zenon, <4>1, <4>2
    <3>2. CASE deleteRow(i)
      <4> DEFINE row == [index[i] EXCEPT !.deleted = TRUE]
      <4>1. index' = [index EXCEPT ![i] = row] /\ victims' = victims \ {i}
        BY <3>2 DEF deleteRow
      <4>2. row \in Row /\ row.key = index[i].key /\ row.deleted = TRUE BY Zenon, <2>2
      <4> QED BY Zenon, <4>1, <4>2
    <3>3. CASE update(i)
      <4>1. index' = [index EXCEPT ![i] = index[i]] /\ victims' = victims
        BY <3>3 DEF update, TypeOK
      <4> QED BY Zenon, <2>2, <4>1
    <3> QED BY Zenon, <1>4, <3>1, <3>2, <3>3
  <2>5. \A j \in Ids : index'[j] = IF j = i THEN row ELSE index[j] BY <2>4 DEF TypeOK
  <2>6. \A j \in Ids : /\ index'[j].key = index[j].key
                       /\ index[j].deleted => index'[j].deleted
                       /\ ~index'[j].deleted /\ j \notin victims'
                          => ~index[j].deleted /\ j \notin victims
                       /\ j \in victims' => j \in victims
    BY <2>4, <2>5
  <2>7. OlderRowsDeleted' BY Zenon, <1>0, <2>3, <2>6 DEF OlderRowsDeleted
  <2>8. KeysFindLast' BY Zenon, <1>0, <2>3, <2>6 DEF KeysFindLast
  <2>9. KeysFindLive' BY Zenon, <1>0, <2>3, <2>6 DEF KeysFindLive
  <2> QED BY Zenon, <2>7, <2>8, <2>9 DEF KeysApart
<1> QED BY Zenon, <1>1, <1>2, <1>3, <1>4

LEMMA ApartStep ==
  ASSUME FaultInv, AssertsOn, KeysApart, [Next]_vars
  PROVE  KeysApart'
<1>1. FaultInv' BY FaultStep
<1>2. CASE UNCHANGED vars BY <1>2 DEF vars, mem, KeysApart, OlderRowsDeleted, KeysFindLast, KeysFindLive
<1>3. CASE \E k \in Keys \ {ZeroKey}, v \in Vals : add(k, v) \/ addOrUpdate(k, v)
  <2>1. size < MaxRows \/ \E k \in Keys : rows[k] # NoId BY <1>3 DEF add, addOrUpdate
  <2>2. size \in 0..MaxRows /\ \A k \in Keys : rows[k] \in 0..MaxRows
    BY DEF FaultInv, TypeOK
  <2>3. 0 \in Ids BY <2>1, <2>2
  <2> QED BY <1>1, <1>3, <2>3, WorkerApart
<1>4. CASE \E k \in Keys \ {ZeroKey} : archiveRow(k)
  <2>1. 0 \in Ids BY <1>4 DEF archiveRow, FaultInv, TypeOK
  <2> QED BY <1>1, <1>4, <2>1, WorkerApart
<1>5. CASE \E i \in Ids, v \in Vals : updateInPlace(i, v) \/ Touch(i, v)
  BY <1>1, <1>5, WorkerApart
<1>6. CASE \E i \in Ids : update(i) \/ deleteRow(i) BY <1>1, <1>6, WorkerApart
<1>7. CASE \E s \in Savers : writeCheck(s) \/ writeOpen(s) \/ writeRows(s) \/ writeFails(s)
  <2>1. UNCHANGED <<proc, index, size, rows, victims>>
    BY Zenon, <1>7 DEF writeCheck, writeOpen, writeRows, writeFails, mem
  <2> QED BY <2>1 DEF KeysApart, OlderRowsDeleted, KeysFindLast, KeysFindLive
<1>8. CASE stop
  BY Zenon, <1>8 DEF stop, mem, KeysApart, OlderRowsDeleted, KeysFindLast, KeysFindLive, Up
<1>9. CASE exit \/ crash BY <1>9 DEF exit, crash, KeysApart, Up
<1>10. CASE rebuild \/ read
  <2> SUFFICES ASSUME proc' \in Up PROVE KeysApart' BY DEF KeysApart
  <2>1. CASE FreshMemory BY <2>1 DEF FreshMemory, KeysApart, OlderRowsDeleted, KeysFindLast, KeysFindLive
  <2>2. CASE readRows /\ ~SameKeyTwice
    <3>1. /\ index' = disk /\ size' \in 0..MaxRows
          /\ \A i \in Ids : disk[i] # NoRow <=> i < size'
      BY <2>2 DEF readRows
    <3>2. \A i \in Ids : disk[i] # NoRow => disk[i].key \in Keys BY DEF FaultInv, TypeOK
    <3>3. \A i, j \in Ids : i < size' /\ j < size' /\ index'[i].key = index'[j].key => i = j
      BY <2>2, <3>1 DEF SameKeyTwice
    <3>4. \A k \in Keys : IsLastWithKey(k, rows'[k]) BY <2>2 DEF readRows
    <3>5. ASSUME NEW i \in Ids, i < size' PROVE rows'[index'[i].key] = i
      <4> DEFINE r == rows'[disk[i].key]
      <4>1. r \in Ids /\ disk[r] # NoRow /\ disk[r].key = disk[i].key
        BY <3>1, <3>2, <3>4, <3>5 DEF IsLastWithKey
      <4> HIDE DEF r
      <4>2. r = i BY <3>1, <3>3, <3>5, <4>1
      <4> QED BY <3>1, <4>2 DEF r
    <3>6. ASSUME NEW i \in Ids, NEW j \in Ids, i < j, j < size' PROVE i < size' /\ i # j
      BY <3>1, <3>6
    <3>7. \A i \in Ids : i <= i OBVIOUS
    <3> QED BY <3>3, <3>5, <3>6, <3>7 DEF KeysApart, OlderRowsDeleted, KeysFindLast, KeysFindLive
  <2> QED BY <1>10, <2>1, <2>2 DEF read, rebuild, Up
<1> QED BY <1>2, <1>3, <1>4, <1>5, <1>6, <1>7, <1>8, <1>9, <1>10 DEF Next

(* In a build with asserts, findByKey() finds every live row however many  *)
(* savers there are, whichever writes fail and whatever clients add: the   *)
(* process is stopped before one becomes unreachable.                      *)
THEOREM AssertsGuardKeys ==
  ASSUME AssertsOn
  PROVE  Spec => []LiveRowsReachable
<1>1. Init => FaultInv /\ KeysApart
  <2>1. Init => KeysApart BY DEF Init, KeysApart, Up
  <2> QED BY <2>1, FaultInit
<1>2. FaultInv /\ KeysApart /\ [Next]_vars => FaultInv' /\ KeysApart' BY FaultStep, ApartStep
<1>3. KeysApart => LiveRowsReachable BY DEF KeysApart, KeysFindLive, LiveRowsReachable
<1> QED BY <1>1, <1>2, <1>3, PTL DEF Spec

=============================================================================
