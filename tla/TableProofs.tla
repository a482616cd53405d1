---------------------------- MODULE TableProofs ----------------------------
(***************************************************************************)
(* Proofs about Table with one reliable saver, for any number of keys,     *)
(* values and rows: the inductive invariant, what follows from it, and     *)
(* that Table implements DurableTable.                                     *)
(***************************************************************************)
EXTENDS TableRefinement, TLAPS

USE ConstantsAssumption DEF Ids, NoId, Row

LEMMA InitInv == Init => IInv
<1> SUFFICES ASSUME Init PROVE IInv OBVIOUS
<1>1. TypeOK
  <2>1. isDirty \in BOOLEAN /\ emptied \in BOOLEAN BY Zenon DEF Init
  <2>2. QED BY <2>1 DEF Init, TypeOK, Empty
<1>2. IndexInv BY DEF Init, IndexInv, Empty
<1>3. SaverInv BY DEF Init, SaverInv, Up
<1>4. DiskInv BY DEF Init, DiskInv, Up, Empty
<1>5. KeyInv BY DEF Init, KeyInv, LiveRowsReachable, Up, Empty
<1> QED BY <1>1, <1>2, <1>3, <1>4, <1>5 DEF IInv

(* Starting over with an empty memory keeps what is said of the memory.    *)
LEMMA FreshTypes ==
  ASSUME FreshMemory, FreshSavers
  PROVE  /\ index' \in [Ids -> Row \cup {NoRow}] /\ size' \in 0..MaxRows
         /\ rows' \in [Keys -> 0..MaxRows] /\ isDirty' \in BOOLEAN
         /\ dirtyRows' \subseteq Ids /\ touched' \subseteq Ids
         /\ unmarked' \subseteq Ids /\ victims' \subseteq Ids
         /\ lock' \in Savers \cup {NoSaver}
         /\ pc' \in [Savers -> {"idle", "checked", "writing", "done"}]
         /\ fileExists' \in [Savers -> BOOLEAN]
         /\ IndexInv'
<1>1. index' \in [Ids -> Row \cup {NoRow}] BY DEF FreshMemory, Empty
<1>2. size' \in 0..MaxRows /\ rows' \in [Keys -> 0..MaxRows] BY DEF FreshMemory
<1>6. isDirty' \in BOOLEAN BY Zenon DEF FreshMemory
<1>3. /\ dirtyRows' \subseteq Ids /\ touched' \subseteq Ids
      /\ unmarked' \subseteq Ids /\ victims' \subseteq Ids
  BY DEF FreshMemory
<1>4. /\ lock' \in Savers \cup {NoSaver}
      /\ pc' \in [Savers -> {"idle", "checked", "writing", "done"}]
      /\ fileExists' \in [Savers -> BOOLEAN]
  BY DEF FreshSavers
<1>5. IndexInv'
  BY DEF FreshMemory, Empty, IndexInv
<1> QED BY <1>1, <1>2, <1>3, <1>4, <1>5, <1>6

LEMMA AddInv ==
  ASSUME IInv, OneReliableSaver, AddsFreshKeys,
         NEW k \in Keys \ {ZeroKey}, NEW v \in Vals, add(k, v)
  PROVE  IInv'
<1> USE DEF IInv
<1>1. CASE rows[k] # NoId /\ AssertsOn
  <2>1. Abort BY <1>1 DEF add
  <2>2. TypeOK' /\ IndexInv' BY <2>1, FreshTypes DEF Abort, TypeOK, file
  <2>3. SaverInv' BY <2>1 DEF Abort, SaverInv, FreshMemory, FreshSavers, file, Up
  <2>4. DiskInv' BY <2>1 DEF Abort, DiskInv, FreshMemory, file, Up, Empty
  <2>5. KeyInv' BY <2>1 DEF Abort, KeyInv, LiveRowsReachable, FreshMemory, file, Up
  <2> QED BY <2>2, <2>3, <2>4, <2>5
<1>2. CASE rows[k] = NoId
  <2> DEFINE row == [key |-> k, val |-> v, deleted |-> FALSE]
  <2>1. /\ proc = "open" /\ lock = NoSaver /\ size < MaxRows /\ size \in Ids
        /\ ~BeingReplaced(k) /\ row \in Row
        /\ index' = [index EXCEPT ![size] = row]
        /\ rows' = [rows EXCEPT ![k] = size]
        /\ size' = size + 1 /\ isDirty' = TRUE /\ dirtyRows' = dirtyRows \cup {size}
        /\ UNCHANGED <<proc, touched, unmarked, victims, lock, pc, fileExists,
                       disk, diskState, emptied>>
    BY <1>2 DEF add, internalAdd, Locked, saver, file, TypeOK
  <2> HIDE DEF row
  <2>2. TypeOK' BY <2>1 DEF TypeOK
  <2>3. IndexInv'
    <3>1. \A i \in Ids : index'[i] # NoRow <=> i < size'
      BY <2>1 DEF TypeOK, IndexInv
    <3>2. \A i \in (dirtyRows \cup touched \cup unmarked \cup victims)' : i < size'
      BY <2>1 DEF TypeOK, IndexInv
    <3>3. \A q \in Keys : rows'[q] # NoId => rows'[q] < size' /\ index'[rows'[q]].key = q
      BY <2>1 DEF TypeOK, IndexInv, row
    <3> QED BY <3>1, <3>2, <3>3 DEF IndexInv
  <2>4. SaverInv' BY <2>1 DEF SaverInv, Up
  <2>5. DiskInv' BY <2>1 DEF TypeOK, IndexInv, DiskInv, Up, row
  <2>6. \A i \in Ids : i < size /\ index[i].key = k => index[i].deleted /\ i \notin victims
    BY <2>1, <1>2 DEF KeyInv, LiveRowsReachable, Up, BeingReplaced, TypeOK, IndexInv
  <2>7. KeyInv'
    <3>1. \A i \in Ids : index'[i] = IF i = size THEN row ELSE index[i]
      BY <2>1 DEF TypeOK
    <3>2. LiveRowsReachable'
      BY <2>1, <2>6, <3>1, <1>2 DEF KeyInv, LiveRowsReachable, Up, TypeOK, IndexInv, row
    <3>3. ASSUME NEW i \in Ids, NEW j \in Ids,
                 i < j, j < size', index'[i].key = index'[j].key
          PROVE  index'[i].deleted /\ i \notin victims'
      <4>1. CASE j < size
        BY <4>1, <3>1, <3>3, <2>1 DEF KeyInv, Up, TypeOK
      <4>2. CASE j = size
        BY <4>2, <3>1, <3>3, <2>1, <2>6 DEF TypeOK, row
      <4> QED BY <4>1, <4>2, <2>1, <3>3 DEF TypeOK
    <3>4. \A i \in Ids : i < size' /\ rows'[index'[i].key] # NoId
                         => i <= rows'[index'[i].key]
      BY <3>1, <2>1 DEF KeyInv, TypeOK, row
    <3> QED BY <3>2, <3>3, <3>4, <2>1 DEF KeyInv, Up
  <2> QED BY <2>2, <2>3, <2>4, <2>5, <2>7
<1> QED BY <1>1, <1>2 DEF add, AddsFreshKeys

(* Editing columns that are not part of the key, marked or about to be.    *)
LEMMA EditInv ==
  ASSUME IInv, OneReliableSaver, NEW i \in Ids, NEW v \in Vals,
         updateInPlace(i, v) \/ Touch(i, v)
  PROVE  IInv'
<1> USE DEF IInv
<1>1. /\ proc = "open" /\ i < size /\ index[i] \in Row
      /\ index' = [index EXCEPT ![i] = [index[i] EXCEPT !.val = v]]
      /\ i \in dirtyRows' \cup touched'
      /\ dirtyRows \subseteq dirtyRows' /\ touched \subseteq touched'
      /\ dirtyRows' \cup touched' \subseteq dirtyRows \cup touched \cup {i}
      /\ UNCHANGED <<proc, size, rows, unmarked, victims, lock, pc, fileExists,
                     disk, diskState, emptied>>
  BY DEF updateInPlace, Touch, Locked, saver, file, TypeOK, IndexInv
<1>2. isDirty' \in BOOLEAN /\ (dirtyRows' # {} => isDirty')
  BY Zenon DEF updateInPlace, Touch, SaverInv, TypeOK
<1>3. \A j \in Ids : /\ index'[j].key = index[j].key
                     /\ index'[j].deleted = index[j].deleted
                     /\ index'[j] # NoRow <=> index[j] # NoRow
                     /\ j # i => index'[j] = index[j]
  BY Zenon, <1>1 DEF TypeOK
<1>4. TypeOK'
  <2>1. [index[i] EXCEPT !.val = v] \in Row BY <1>1
  <2> QED BY <1>1, <1>2, <2>1 DEF TypeOK
<1>5. IndexInv'
  <2>1. \A j \in Ids : index'[j] # NoRow <=> j < size' BY <1>1, <1>3 DEF IndexInv
  <2>2. \A j \in (dirtyRows \cup touched \cup unmarked \cup victims)' : j < size'
    BY <1>1 DEF IndexInv
  <2>3. \A k \in Keys : rows'[k] # NoId => rows'[k] < size' /\ index'[rows'[k]].key = k
    BY <1>1, <1>3 DEF IndexInv, TypeOK
  <2> QED BY <2>1, <2>2, <2>3 DEF IndexInv
<1>6. SaverInv' BY <1>1, <1>2 DEF SaverInv, Up
<1>7. DiskInv' BY <1>1, <1>3 DEF DiskInv, Up, TypeOK
<1>8. KeyInv' BY <1>1, <1>3 DEF KeyInv, LiveRowsReachable, Up
<1> QED BY <1>4, <1>5, <1>6, <1>7, <1>8

LEMMA UpdateInv ==
  ASSUME IInv, OneReliableSaver, NEW i \in Ids, update(i)
  PROVE  IInv'
<1> USE DEF IInv
<1>1. /\ proc = "open" /\ i \in touched /\ isDirty' = TRUE
      /\ dirtyRows' = dirtyRows \cup {i} /\ touched' = touched \ {i}
      /\ UNCHANGED <<proc, index, size, rows, unmarked, victims, lock, pc, fileExists,
                     disk, diskState, emptied>>
  BY DEF update, Locked, saver, file
<1>2. TypeOK' BY <1>1 DEF TypeOK
<1>3. IndexInv' BY <1>1 DEF IndexInv
<1>4. SaverInv' BY <1>1 DEF SaverInv, Up
<1>5. DiskInv' BY <1>1 DEF DiskInv, Up
<1>6. KeyInv' BY <1>1 DEF KeyInv, LiveRowsReachable
<1> QED BY <1>2, <1>3, <1>4, <1>5, <1>6

(* An update through the key: the row found is the last with its key.      *)
LEMMA AddOrUpdateInv ==
  ASSUME IInv, OneReliableSaver, AddsFreshKeys,
         NEW k \in Keys \ {ZeroKey}, NEW v \in Vals, addOrUpdate(k, v)
  PROVE  IInv'
<1> USE DEF IInv
<1>1. CASE rows[k] = NoId
  BY <1>1, AddInv DEF addOrUpdate, add
<1>2. CASE rows[k] # NoId
  <2> DEFINE row == [key |-> k, val |-> v, deleted |-> FALSE]
             r == rows[k]
  <2>1. /\ proc = "open" /\ lock = NoSaver /\ r \in Ids /\ r < size
        /\ index[r].key = k /\ ~BeingReplaced(k) /\ row \in Row
        /\ index' = [index EXCEPT ![r] = row]
        /\ r \in dirtyRows' \cup unmarked' /\ isDirty' = TRUE
        /\ dirtyRows \subseteq dirtyRows' /\ unmarked \subseteq unmarked'
        /\ dirtyRows' \cup unmarked' \subseteq dirtyRows \cup unmarked \cup {r}
        /\ UNCHANGED <<proc, size, rows, touched, victims, lock, pc, fileExists,
                       disk, diskState, emptied>>
    BY <1>2 DEF addOrUpdate, internalUpdate, Locked, saver, file, TypeOK, IndexInv
  <2> HIDE DEF row, r
  <2>2. \A i \in Ids : index'[i] = IF i = r THEN row ELSE index[i]
    BY <2>1 DEF TypeOK
  <2>3. row.key = k /\ ~row.deleted /\ rows[k] = r BY DEF row, r
  <2>4. TypeOK' BY <2>1 DEF TypeOK
  <2>5. IndexInv'
    <3>1. \A i \in Ids : index'[i] # NoRow <=> i < size' BY <2>1, <2>2 DEF IndexInv
    <3>2. \A i \in (dirtyRows \cup touched \cup unmarked \cup victims)' : i < size'
      BY <2>1 DEF IndexInv
    <3>3. \A q \in Keys : rows'[q] # NoId => rows'[q] < size' /\ index'[rows'[q]].key = q
      BY <2>1, <2>2, <2>3 DEF IndexInv, TypeOK
    <3> QED BY <3>1, <3>2, <3>3 DEF IndexInv
  <2>6. SaverInv' BY <2>1 DEF SaverInv, Up
  <2>7. DiskInv' BY <2>1, <2>2, <2>3 DEF DiskInv, Up, TypeOK
  <2>8. KeyInv'
    <3>1. \A i \in Ids : i < size /\ index[i].key = k /\ i # r => i < r
      BY <2>1, <2>3, <1>2 DEF KeyInv, TypeOK
    <3>2. LiveRowsReachable'
      BY <2>1, <2>2, <2>3, <3>1 DEF KeyInv, LiveRowsReachable, Up
    <3>3. ASSUME NEW i \in Ids, NEW j \in Ids,
                 i < j, j < size', index'[i].key = index'[j].key
          PROVE  index'[i].deleted /\ i \notin victims'
      BY <2>1, <2>2, <2>3, <3>1, <3>3 DEF KeyInv, Up, TypeOK
    <3>4. \A i \in Ids : i < size' /\ rows'[index'[i].key] # NoId
                         => i <= rows'[index'[i].key]
      <4>1. \A i \in Ids : index'[i].key = index[i].key BY <2>1, <2>2, <2>3
      <4>2. \A i \in Ids : i < size /\ rows[index[i].key] # NoId => i <= rows[index[i].key]
        BY DEF KeyInv
      <4> HIDE DEF IInv
      <4> QED BY <2>1, <4>1, <4>2
    <3> QED BY <3>2, <3>3, <3>4, <2>1 DEF KeyInv, Up
  <2> QED BY <2>4, <2>5, <2>6, <2>7, <2>8
<1> QED BY <1>1, <1>2

LEMMA ArchiveInv ==
  ASSUME IInv, OneReliableSaver, NEW k \in Keys \ {ZeroKey}, archiveRow(k)
  PROVE  IInv'
<1> USE DEF IInv
<1>1. /\ proc = "open" /\ rows[k] \in Ids /\ rows[k] < size /\ index[rows[k]].key = k
      /\ victims' = victims \cup {rows[k]}
      /\ rows' = [rows EXCEPT ![k] = NoId]
      /\ UNCHANGED <<proc, index, size, isDirty, dirtyRows, touched, unmarked, lock, pc,
                     fileExists, disk, diskState, emptied>>
  BY DEF archiveRow, Locked, saver, file, TypeOK, IndexInv
<1>2. TypeOK'
  <2>1. rows' \in [Keys -> 0..MaxRows] BY <1>1 DEF TypeOK
  <2>2. isDirty' \in BOOLEAN BY <1>1 DEF TypeOK
  <2> QED BY Zenon, <1>1, <2>1, <2>2 DEF TypeOK
<1>3. IndexInv'
  <2>1. \A i \in (dirtyRows \cup touched \cup unmarked \cup victims)' : i < size'
    BY <1>1 DEF IndexInv
  <2>2. \A q \in Keys : rows'[q] # NoId => rows'[q] < size' /\ index'[rows'[q]].key = q
    BY <1>1 DEF IndexInv, TypeOK
  <2> QED BY <2>1, <2>2, <1>1 DEF IndexInv
<1>4. SaverInv' BY <1>1 DEF SaverInv, Up
<1>5. DiskInv' BY <1>1 DEF DiskInv, Up
<1>6. KeyInv'
  <2>1. LiveRowsReachable' BY <1>1 DEF KeyInv, LiveRowsReachable, Up, TypeOK, IndexInv
  <2>2. \A i \in Ids : i < size' /\ rows'[index'[i].key] # NoId => i <= rows'[index'[i].key]
    BY <1>1 DEF KeyInv, TypeOK, IndexInv
  <2>3. ASSUME NEW i \in Ids, NEW j \in Ids,
               i < j, j < size', index'[i].key = index'[j].key
        PROVE  index'[i].deleted /\ i \notin victims'
    BY <2>3, <1>1 DEF KeyInv, Up, TypeOK
  <2> QED BY <2>1, <2>2, <2>3, <1>1 DEF KeyInv, Up
<1> QED BY <1>2, <1>3, <1>4, <1>5, <1>6

LEMMA DeleteInv ==
  ASSUME IInv, OneReliableSaver, NEW i \in Ids, deleteRow(i)
  PROVE  IInv'
<1> USE DEF IInv
<1>1. /\ proc = "open" /\ i \in victims /\ i < size /\ index[i] \in Row
      /\ index' = [index EXCEPT ![i] = [index[i] EXCEPT !.deleted = TRUE]]
      /\ isDirty' = TRUE /\ dirtyRows' = dirtyRows \cup {i} /\ victims' = victims \ {i}
      /\ UNCHANGED <<proc, size, rows, touched, unmarked, lock, pc, fileExists,
                     disk, diskState, emptied>>
  BY DEF deleteRow, Locked, saver, file, TypeOK, IndexInv
<1>2. \A j \in Ids : /\ index'[j].key = index[j].key
                     /\ index'[j] # NoRow <=> index[j] # NoRow
                     /\ j # i => index'[j] = index[j]
  BY Zenon, <1>1 DEF TypeOK
<1>3. index'[i].deleted BY <1>1 DEF TypeOK
<1>4. TypeOK'
  <2>1. [index[i] EXCEPT !.deleted = TRUE] \in Row BY Zenon, <1>1
  <2> QED BY <1>1, <2>1 DEF TypeOK
<1>5. IndexInv'
  <2>1. \A j \in Ids : index'[j] # NoRow <=> j < size' BY <1>1, <1>2 DEF IndexInv
  <2>2. \A j \in (dirtyRows \cup touched \cup unmarked \cup victims)' : j < size'
    BY <1>1 DEF IndexInv
  <2>3. \A k \in Keys : rows'[k] # NoId => rows'[k] < size' /\ index'[rows'[k]].key = k
    BY <1>1, <1>2 DEF IndexInv, TypeOK
  <2> QED BY <2>1, <2>2, <2>3 DEF IndexInv
<1>6. SaverInv' BY <1>1 DEF SaverInv, Up
<1>7. DiskInv' BY <1>1, <1>2 DEF DiskInv, Up, TypeOK
<1>8. KeyInv' BY <1>1, <1>2, <1>3 DEF KeyInv, LiveRowsReachable, Up
<1> QED BY <1>4, <1>5, <1>6, <1>7, <1>8

(* The memory is thrown away and the file is as good as before.            *)
LEMMA DownInv ==
  ASSUME IInv, FreshMemory, FreshSavers, proc' \notin Up,
         proc' \in {"down", "refused", "aborted", "undefined"}, emptied' \in BOOLEAN,
         disk' \in [Ids -> Row \cup {NoRow}], diskState' \in {"absent", "torn", "valid"},
         diskState' = "absent" => disk' = Empty,
         \A i, j \in Ids : i < j /\ disk'[j] # NoRow => disk'[i] # NoRow,
         \A i, j \in Ids :
            i < j /\ disk'[i] # NoRow /\ disk'[j] # NoRow /\ disk'[i].key = disk'[j].key
            => disk'[i].deleted
  PROVE  IInv'
<1>1. TypeOK' /\ IndexInv' BY FreshTypes DEF TypeOK
<1>2. SaverInv' BY DEF SaverInv, FreshMemory, FreshSavers, Up
<1>3. DiskInv' BY DEF DiskInv
<1>4. KeyInv' BY DEF KeyInv, LiveRowsReachable, FreshMemory
<1> QED BY <1>1, <1>2, <1>3, <1>4 DEF IInv

(* What is true of a file d that holds the dirty rows below upto.          *)
Written(d, upto) ==
    /\ d \in [Ids -> Row \cup {NoRow}]
    /\ \A i \in Ids : d[i] = IF i \in dirtyRows /\ i < upto THEN index[i] ELSE disk[i]
    /\ \A i \in Ids : d[i] # NoRow => i < size /\ d[i].key = index[i].key
    /\ \A i \in Ids : disk[i] # NoRow => d[i] # NoRow
    /\ \A i, j \in Ids : i < j /\ d[j] # NoRow => d[i] # NoRow
    /\ \A i, j \in Ids : i < j /\ d[i] # NoRow /\ d[j] # NoRow /\ d[i].key = d[j].key
                         => d[i].deleted

(* Saving any prefix of the dirty rows, as a crash may, keeps the file in  *)
(* order: ids keep their keys and the rows written are those of the index. *)
LEMMA WrittenRows ==
  ASSUME IInv, OneReliableSaver, proc \in Up, NEW upto \in 0..MaxRows
  PROVE  Written(WrittenUpTo(upto), upto)
<1> DEFINE d == WrittenUpTo(upto)
<1> USE DEF IInv
<1>1. \A j \in Ids : j < size /\ j \notin dirtyRows => disk[j] # NoRow
  BY DEF DiskInv
<1>2. d \in [Ids -> Row \cup {NoRow}]
  BY DEF WrittenUpTo, TypeOK, ZeroRow
<1>3. \A i \in Ids : d[i] = IF i \in dirtyRows /\ i < upto THEN index[i] ELSE disk[i]
  <2> SUFFICES ASSUME NEW i \in Ids
               PROVE  d[i] = IF i \in dirtyRows /\ i < upto THEN index[i] ELSE disk[i]
    OBVIOUS
  <2>1. i \in dirtyRows => i < size BY DEF IndexInv
  <2>2. \A j \in dirtyRows : j < size /\ j < upto /\ i < j => i < size /\ i < upto
    BY DEF TypeOK
  <2> QED BY <1>1, <2>1, <2>2 DEF WrittenUpTo
<1> HIDE DEF d
<1>4. \A i \in Ids : d[i] # NoRow => i < size /\ d[i].key = index[i].key
  BY <1>3 DEF IndexInv, DiskInv
<1>5. \A i \in Ids : disk[i] # NoRow => d[i] # NoRow
  BY <1>3 DEF IndexInv, DiskInv
<1>6. \A i, j \in Ids : i < j /\ d[j] # NoRow => d[i] # NoRow
  <2> SUFFICES ASSUME NEW i \in Ids, NEW j \in Ids, i < j, d[j] # NoRow PROVE d[i] # NoRow
    OBVIOUS
  <2>1. j < size /\ i < size BY <1>4 DEF TypeOK
  <2>2. index[i] # NoRow BY <2>1 DEF IndexInv
  <2>3. i \notin dirtyRows => disk[i] # NoRow BY <1>1, <2>1
  <2>4. i \in dirtyRows /\ ~(i < upto) => disk[i] # NoRow
    BY <1>3 DEF DiskInv
  <2> QED BY <1>3, <2>2, <2>3, <2>4
<1>7. \A i, j \in Ids : i < j /\ d[i] # NoRow /\ d[j] # NoRow /\ d[i].key = d[j].key
                        => d[i].deleted
  <2> SUFFICES ASSUME NEW i \in Ids, NEW j \in Ids, i < j,
                      d[i] # NoRow, d[j] # NoRow, d[i].key = d[j].key
               PROVE  d[i].deleted
    OBVIOUS
  <2>1. i < size /\ j < size /\ index[i].key = index[j].key BY <1>4
  <2>2. index[i].deleted BY <2>1 DEF KeyInv
  <2>3. CASE i \in dirtyRows /\ i < upto BY <2>2, <2>3, <1>3
  <2>4. CASE i \notin dirtyRows BY <2>1, <2>2, <2>4, <1>3 DEF DiskInv
  <2>5. CASE i \in dirtyRows /\ ~(i < upto)
    <3>1. ~(j < upto) BY <2>5
    <3>2. d[i] = disk[i] /\ d[j] = disk[j] BY <2>5, <3>1, <1>3
    <3> QED BY <3>2 DEF KeyInv
  <2> QED BY <2>3, <2>4, <2>5
<1>8. Written(d, upto) BY <1>2, <1>3, <1>4, <1>5, <1>6, <1>7 DEF Written
<1> QED BY <1>8 DEF d

LEMMA StopInv ==
  ASSUME IInv, OneReliableSaver, stop
  PROVE  IInv'
<1> USE DEF IInv
<1>1. /\ proc = "open" /\ touched = {} /\ victims = {} /\ proc' = "stopping"
      /\ UNCHANGED <<index, size, rows, dirtyRows, touched, unmarked, victims,
                     lock, pc, fileExists, disk, diskState>>
      /\ UNCHANGED isDirty /\ UNCHANGED emptied
  BY DEF stop, mem, saver, file
<1>2. TypeOK'
  <2>1. isDirty' \in BOOLEAN /\ emptied' \in BOOLEAN BY <1>1 DEF TypeOK
  <2> QED BY <1>1, <2>1 DEF TypeOK
<1>3. IndexInv' BY <1>1 DEF IndexInv
<1>4. SaverInv' BY <1>1 DEF SaverInv, Up
<1>5. DiskInv' BY <1>1 DEF DiskInv, Up
<1>6. KeyInv' BY <1>1 DEF KeyInv, LiveRowsReachable, Up
<1> QED BY <1>2, <1>3, <1>4, <1>5, <1>6

LEMMA WriteCheckInv ==
  ASSUME IInv, OneReliableSaver, NEW s \in Savers, writeCheck(s)
  PROVE  IInv'
<1> USE DEF IInv
<1>1. /\ s = StopSaver /\ Savers = {StopSaver} /\ proc = "stopping" /\ pc[s] = "idle"
      /\ UNCHANGED <<proc, index, size, rows, dirtyRows, touched, unmarked, victims,
                     lock, disk, diskState>>
      /\ UNCHANGED isDirty /\ UNCHANGED emptied
  BY DEF writeCheck, MaySave, OneReliableSaver, mem, file
<1>2. pc' \in [Savers -> {"idle", "checked", "writing", "done"}]
  BY DEF writeCheck, AfterWrite, TypeOK
<1>3. fileExists' \in [Savers -> BOOLEAN] BY Zenon DEF writeCheck, TypeOK
<1>4. TypeOK'
  <2>1. isDirty' \in BOOLEAN /\ emptied' \in BOOLEAN BY <1>1 DEF TypeOK
  <2> QED BY <1>1, <1>2, <1>3, <2>1 DEF TypeOK
<1>5. IndexInv' BY <1>1 DEF IndexInv
<1>6. SaverInv'
  <2>1. diskState # "torn" /\ lock # s BY <1>1 DEF SaverInv, Up
  <2>2. CASE ~isDirty /\ diskState # "absent"
    <3>1. pc' = [pc EXCEPT ![s] = "done"] /\ UNCHANGED fileExists
      BY <2>2, <1>1 DEF writeCheck, AfterWrite
    <3>2. dirtyRows = {} /\ diskState = "valid"
      BY <2>1, <2>2 DEF SaverInv, TypeOK
    <3> QED BY <1>1, <2>1, <3>1, <3>2 DEF SaverInv, Up, TypeOK
  <2>3. CASE ~(~isDirty /\ diskState # "absent")
    <3>1. /\ pc' = [pc EXCEPT ![s] = "checked"]
          /\ fileExists' = [fileExists EXCEPT ![s] = (diskState # "absent")]
      BY <2>3 DEF writeCheck
    <3>2. pc'[s] = "checked" /\ (fileExists'[s] <=> diskState # "absent")
      BY Zenon, <3>1 DEF TypeOK
    <3> QED BY <1>1, <2>1, <3>2 DEF SaverInv, Up, TypeOK
  <2> QED BY <2>2, <2>3
<1>7. DiskInv' BY <1>1 DEF DiskInv, Up
<1>8. KeyInv' BY <1>1 DEF KeyInv, LiveRowsReachable, Up
<1> QED BY <1>4, <1>5, <1>6, <1>7, <1>8

(* "wb+" empties a file that was not there.                                *)
LEMMA WriteOpenInv ==
  ASSUME IInv, OneReliableSaver, NEW s \in Savers, writeOpen(s)
  PROVE  IInv' /\ disk' = disk
<1> USE DEF IInv
<1>1. /\ s = StopSaver /\ Savers = {StopSaver} /\ proc = "stopping" /\ pc[s] = "checked"
      /\ lock' = s /\ pc' = [pc EXCEPT ![s] = "writing"]
      /\ UNCHANGED <<proc, index, size, rows, dirtyRows, touched, unmarked, victims,
                     fileExists>>
      /\ UNCHANGED isDirty
  BY DEF writeOpen, OneReliableSaver, mem, SaverInv, Up
<1>2. /\ disk' = disk
      /\ IF fileExists[s] THEN diskState = "valid" /\ diskState' = "valid"
                          ELSE diskState' = "torn"
  BY <1>1 DEF writeOpen, SaverInv, DiskInv, file
<1>3. TypeOK'
  <2>1. isDirty' \in BOOLEAN BY <1>1 DEF TypeOK
  <2>2. emptied' \in BOOLEAN BY Zenon DEF writeOpen
  <2> QED BY <1>1, <1>2, <2>1, <2>2 DEF TypeOK
<1>4. IndexInv' BY <1>1 DEF IndexInv
<1>5. SaverInv'
  <2>1. pc'[s] = "writing" BY <1>1 DEF TypeOK
  <2> QED BY Zenon, <1>1, <1>2, <2>1 DEF SaverInv, Up
<1>6. DiskInv'
  <2>1. diskState' # "absent" BY <1>2
  <2>2. DiskInv OBVIOUS
  <2> HIDE DEF IInv
  <2> QED BY <1>1, <1>2, <2>1, <2>2 DEF DiskInv, Up
<1>7. KeyInv' BY <1>1, <1>2 DEF KeyInv, LiveRowsReachable, Up
<1> QED BY <1>2, <1>3, <1>4, <1>5, <1>6, <1>7

LEMMA WriteRowsInv ==
  ASSUME IInv, OneReliableSaver, NEW s \in Savers, writeRows(s)
  PROVE  IInv' /\ disk' = WrittenUpTo(MaxRows)
<1> USE DEF IInv
<1> DEFINE d == WrittenUpTo(MaxRows)
<1>1. /\ s = StopSaver /\ Savers = {StopSaver} /\ proc = "stopping" /\ pc[s] = "writing"
      /\ disk' = d /\ diskState' = (IF fileExists[s] THEN diskState ELSE "valid")
      /\ dirtyRows' = {} /\ unmarked' = unmarked \ dirtyRows
      /\ lock' = NoSaver /\ pc' = [pc EXCEPT ![s] = "done"]
      /\ UNCHANGED <<proc, index, size, rows, touched, victims, fileExists>>
  BY DEF writeRows, OneReliableSaver, AfterWrite, SaverInv, Up
<1>2. isDirty' = FALSE /\ UNCHANGED emptied BY DEF writeRows, OneReliableSaver
<1>3. diskState' = "valid" BY <1>1 DEF SaverInv
<1>4. /\ d \in [Ids -> Row \cup {NoRow}]
      /\ \A i \in Ids : d[i] = IF i \in dirtyRows THEN index[i] ELSE disk[i]
      /\ \A i \in Ids : d[i] # NoRow => i < size /\ d[i].key = index[i].key
      /\ \A i, j \in Ids : i < j /\ d[j] # NoRow => d[i] # NoRow
      /\ \A i, j \in Ids : i < j /\ d[i] # NoRow /\ d[j] # NoRow /\ d[i].key = d[j].key
                           => d[i].deleted
  <2>1. proc \in Up /\ MaxRows \in 0..MaxRows BY <1>1, ConstantsAssumption DEF Up
  <2>2. Written(d, MaxRows) BY <2>1, WrittenRows
  <2>3. \A i \in Ids : i < MaxRows BY ConstantsAssumption DEF Ids
  <2> HIDE DEF d, IInv
  <2> QED BY <2>2, <2>3 DEF Written
<1> HIDE DEF d
<1>5. TypeOK'
  <2>1. isDirty' \in BOOLEAN /\ emptied' \in BOOLEAN BY Zenon, <1>2 DEF TypeOK
  <2>2. unmarked' \subseteq Ids /\ lock' \in Savers \cup {NoSaver} BY <1>1 DEF TypeOK
  <2> QED BY <1>1, <1>3, <1>4, <2>1, <2>2 DEF TypeOK
<1>6. IndexInv' BY <1>1 DEF IndexInv
<1>7. SaverInv'
  <2>1. pc'[s] = "done" BY Zenon, <1>1 DEF TypeOK
  <2>2. touched' = {} /\ victims' = {} BY Zenon, <1>1 DEF SaverInv
  <2> QED BY <1>1, <1>3, <2>1, <2>2 DEF SaverInv, Up
<1>8. DiskInv'
  <2>1. \A i \in Ids : i < size' /\ i \notin dirtyRows' \cup touched' \cup unmarked'
                       => disk'[i] = index'[i]
    BY <1>1, <1>4 DEF DiskInv, Up
  <2>2. \A i \in Ids : i < size' /\ i \notin dirtyRows'
                       => disk'[i] # NoRow /\ (index'[i].deleted => disk'[i].deleted)
    <3> SUFFICES ASSUME NEW i \in Ids, i < size
                 PROVE  d[i] # NoRow /\ (index[i].deleted => d[i].deleted)
      BY <1>1
    <3>1. CASE i \in dirtyRows BY <3>1, <1>4 DEF IndexInv
    <3>2. CASE i \notin dirtyRows BY <3>2, <1>1, <1>4 DEF DiskInv, Up
    <3> QED BY <3>1, <3>2
  <2> QED BY <1>1, <1>3, <1>4, <2>1, <2>2 DEF DiskInv
<1>9. KeyInv' BY <1>1, <1>4 DEF KeyInv, LiveRowsReachable, Up
<1> QED BY <1>1, <1>5, <1>6, <1>7, <1>8, <1>9 DEF d

LEMMA ExitInv ==
  ASSUME IInv, exit
  PROVE  IInv'
<1>1. emptied' \in BOOLEAN BY DEF exit, IInv, TypeOK
<1>2. proc' \in {"down", "undefined"} BY DEF exit
<1> QED BY Zenon, DownInv, <1>1, <1>2 DEF exit, file, IInv, TypeOK, DiskInv, KeyInv, Up

LEMMA CrashInv ==
  ASSUME IInv, OneReliableSaver, crash
  PROVE  IInv'
<1>1. emptied' \in BOOLEAN /\ proc \in Up BY DEF crash, IInv, TypeOK
<1>2. CASE lock = NoSaver
  BY Zenon, DownInv, <1>1, <1>2 DEF crash, file, IInv, TypeOK, DiskInv, KeyInv, Up
<1>3. CASE lock # NoSaver
  <2>1. PICK upto \in 0..MaxRows :
          /\ disk' = WrittenUpTo(upto)
          /\ diskState' \in {diskState, "valid"}
    BY <1>3 DEF crash
  <2>2. diskState # "absent"
    <3>1. pc[StopSaver] = "writing" BY <1>3 DEF IInv, TypeOK, SaverInv, OneReliableSaver
    <3> QED BY <3>1 DEF IInv, SaverInv
  <2>3. diskState' \in {"torn", "valid"} BY <2>1, <2>2 DEF IInv, TypeOK
  <2>4. Written(disk', upto) BY <1>1, <2>1, WrittenRows
  <2> QED BY DownInv, <1>1, <2>3, <2>4 DEF crash, Up, Written
<1> QED BY <1>2, <1>3

LEMMA RebuildInv ==
  ASSUME IInv, rebuild
  PROVE  IInv'
<1>1. /\ proc' = "open" /\ disk' = Empty /\ diskState' = "absent"
      /\ FreshMemory /\ FreshSavers
  BY DEF rebuild
<1>2. emptied' \in BOOLEAN BY Zenon DEF rebuild
<1>3. disk' \in [Ids -> Row \cup {NoRow}] BY <1>1 DEF Empty
<1>4. TypeOK' /\ IndexInv' BY <1>1, <1>2, <1>3, FreshTypes DEF TypeOK
<1>5. SaverInv' BY <1>1 DEF SaverInv, FreshMemory, FreshSavers, Up
<1>6. DiskInv' BY <1>1 DEF DiskInv, FreshMemory, Empty, Up
<1>7. KeyInv' BY <1>1 DEF KeyInv, LiveRowsReachable, FreshMemory, Empty, Up
<1> QED BY <1>4, <1>5, <1>6, <1>7 DEF IInv

(* Reading the file back: the last row with a key is the one that may be   *)
(* live, and it is the one the key finds.                                  *)
LEMMA ReadInv ==
  ASSUME IInv, read
  PROVE  IInv'
<1> USE DEF IInv
<1>1. FreshSavers /\ UNCHANGED <<disk, diskState>> /\ proc \notin Up BY DEF read, file, Up
<1>2. emptied' \in BOOLEAN BY Zenon DEF read
<1>3. CASE proc' # "open"
  <2>1. FreshMemory /\ proc' \in {"refused", "aborted"} BY <1>3 DEF read
  <2> QED BY Zenon, DownInv, <1>1, <1>2, <2>1 DEF TypeOK, DiskInv, KeyInv, Up
<1>4. CASE diskState = "absent" /\ proc' = "open"
  <2>1. FreshMemory BY <1>4 DEF read
  <2>2. TypeOK' /\ IndexInv' BY <1>1, <1>2, <1>4, <2>1, FreshTypes DEF TypeOK
  <2>3. SaverInv' BY Zenon, <1>1, <1>4, <2>1 DEF SaverInv, FreshMemory, FreshSavers, Up
  <2>4. /\ disk' = Empty /\ \A i \in Ids : disk'[i] = NoRow
        /\ size' = 0 /\ \A i \in Ids : ~(i < 0)
    <3>1. disk' = Empty BY <1>1, <1>4 DEF DiskInv
    <3>2. size' = 0 BY <2>1 DEF FreshMemory
    <3> HIDE DEF IInv
    <3>3. \A i \in Ids : Empty[i] = NoRow BY DEF Empty
    <3>4. \A i \in Ids : ~(i < 0) BY ConstantsAssumption DEF Ids
    <3> QED BY <3>1, <3>2, <3>3, <3>4
  <2>5. DiskInv' BY ONLY <2>4 DEF DiskInv
  <2>6. KeyInv'
    <3>1. \A i, j \in Ids : ~(j < 0) BY <2>4
    <3> QED BY ONLY <2>4, <3>1 DEF KeyInv, LiveRowsReachable
  <2> QED BY <2>2, <2>3, <2>5, <2>6
<1>5. CASE diskState = "valid" /\ proc' = "open"
  <2>1. readRows BY <1>5 DEF read
  <2>2. /\ index' = disk /\ size' \in 0..MaxRows
        /\ \A i \in Ids : disk[i] # NoRow <=> i < size'
    BY <2>1 DEF readRows
  <2>3. /\ rows' \in [Keys -> 0..MaxRows]
        /\ \A k \in Keys : IsLastWithKey(k, rows'[k])
    BY <2>1 DEF readRows
  <2>4. dirtyRows' = {} /\ touched' = {} /\ unmarked' = {} /\ victims' = {}
    BY <2>1 DEF readRows
  <2>5. TypeOK'
    <3>1. isDirty' \in BOOLEAN BY Zenon, <2>1 DEF readRows
    <3>2. /\ lock' \in Savers \cup {NoSaver}
          /\ pc' \in [Savers -> {"idle", "checked", "writing", "done"}]
          /\ fileExists' \in [Savers -> BOOLEAN]
      BY <1>1 DEF FreshSavers
    <3> QED BY <1>1, <1>2, <1>5, <2>2, <2>3, <2>4, <3>1, <3>2 DEF TypeOK
  <2>6. IndexInv'
    BY <2>2, <2>3, <2>4 DEF IndexInv, IsLastWithKey, TypeOK
  <2>7. SaverInv' BY Zenon, <1>1, <1>5, <2>4 DEF SaverInv, FreshSavers, Up
  <2>8. DiskInv' BY <1>1, <1>5, <2>2, <2>4 DEF DiskInv, Up
  <2>9. KeyInv'
    <3>1. \A i \in Ids : disk[i] # NoRow => disk[i].key \in Keys BY DEF TypeOK
    <3>2. \A i \in Ids : disk[i] # NoRow => /\ rows'[disk[i].key] \in Ids
                                            /\ i <= rows'[disk[i].key]
                                            /\ disk[rows'[disk[i].key]] # NoRow
                                            /\ disk[rows'[disk[i].key]].key = disk[i].key
      BY <2>3, <3>1 DEF IsLastWithKey
    <3>3. ASSUME NEW i \in Ids, disk[i] # NoRow, ~disk[i].deleted
          PROVE  rows'[disk[i].key] = i
      <4> DEFINE j == rows'[disk[i].key]
      <4>1. j \in Ids /\ i <= j /\ disk[j] # NoRow /\ disk[j].key = disk[i].key
        BY <3>2, <3>3
      <4> HIDE DEF j
      <4>2. ~(i < j) BY <3>3, <4>1 DEF KeyInv
      <4>3. i = j BY <4>1, <4>2 DEF Ids
      <4> QED BY Zenon, <4>3 DEF j
    <3>4. LiveRowsReachable' BY <2>2, <3>3 DEF LiveRowsReachable
    <3>5. \A i \in Ids : i < size' /\ rows'[index'[i].key] # NoId => i <= rows'[index'[i].key]
      BY <2>2, <3>2
    <3>6. \A i, j \in Ids :
            i < j /\ disk[i] # NoRow /\ disk[j] # NoRow /\ disk[i].key = disk[j].key
            => disk[i].deleted
      BY DEF KeyInv
    <3> HIDE DEF IInv
    <3>7. ASSUME NEW i \in Ids, NEW j \in Ids,
                 i < j, j < size', index'[i].key = index'[j].key
          PROVE  index'[i].deleted /\ i \notin victims'
      <4>1. i < size' BY <2>2, <3>7 DEF Ids
      <4> QED BY <2>2, <2>4, <3>6, <3>7, <4>1
    <3> QED BY <1>1, <3>4, <3>5, <3>6, <3>7 DEF KeyInv
  <2> QED BY <2>5, <2>6, <2>7, <2>8, <2>9
<1> QED BY <1>3, <1>4, <1>5 DEF read

LEMMA StepInv ==
  ASSUME IInv, OneReliableSaver, AddsFreshKeys, [Next]_vars
  PROVE  IInv'
<1>1. CASE UNCHANGED vars
  <2> USE <1>1 DEF vars, mem, saver, file
  <2>1. TypeOK' BY DEF IInv, TypeOK
  <2>2. IndexInv' BY DEF IInv, IndexInv
  <2>3. SaverInv' BY DEF IInv, SaverInv
  <2>4. DiskInv' BY DEF IInv, DiskInv
  <2>5. KeyInv' BY DEF IInv, KeyInv, LiveRowsReachable
  <2> QED BY <2>1, <2>2, <2>3, <2>4, <2>5 DEF IInv
<1>2. CASE \E k \in Keys \ {ZeroKey}, v \in Vals : add(k, v) \/ addOrUpdate(k, v)
  BY <1>2, AddInv, AddOrUpdateInv
<1>3. CASE \E k \in Keys \ {ZeroKey} : archiveRow(k) BY <1>3, ArchiveInv
<1>4. CASE \E i \in Ids, v \in Vals : updateInPlace(i, v) \/ Touch(i, v)
  BY <1>4, EditInv
<1>5. CASE \E i \in Ids : update(i) \/ deleteRow(i) BY <1>5, UpdateInv, DeleteInv
<1>6. CASE \E s \in Savers : writeCheck(s) \/ writeOpen(s) \/ writeRows(s) \/ writeFails(s)
  BY <1>6, WriteCheckInv, WriteOpenInv, WriteRowsInv DEF writeFails, OneReliableSaver
<1>7. CASE stop BY <1>7, StopInv
<1>8. CASE exit BY <1>8, ExitInv
<1>9. CASE crash BY <1>9, CrashInv
<1>10. CASE read BY <1>10, ReadInv
<1>11. CASE rebuild BY <1>11, RebuildInv
<1> QED
  BY <1>1, <1>2, <1>3, <1>4, <1>5, <1>6, <1>7, <1>8, <1>9, <1>10, <1>11 DEF Next

-----------------------------------------------------------------------------
(* The invariant is inductive, so every reachable state of a table with    *)
(* one reliable saver satisfies it.                                        *)
THEOREM Invariance ==
  ASSUME OneReliableSaver, AddsFreshKeys
  PROVE  Spec => []IInv
<1>1. Init => IInv BY InitInv
<1>2. IInv /\ [Next]_vars => IInv' BY StepInv
<1> QED BY <1>1, <1>2, PTL DEF Spec

(* findByKey() finds every live row, also after deleted rows with the same *)
(* key were read back by readRows().                                       *)
THEOREM Reachable ==
  ASSUME OneReliableSaver, AddsFreshKeys
  PROVE  Spec => []LiveRowsReachable
<1>1. IInv => LiveRowsReachable BY DEF IInv, KeyInv
<1> QED BY <1>1, Invariance, PTL

(* A row in the file keeps its id and its key through every save and every *)
(* crash, so that an id stored in another table keeps its meaning.         *)
THEOREM IdsStable ==
  ASSUME OneReliableSaver, AddsFreshKeys
  PROVE  Spec => PersistedIdsStable
<1> DEFINE Stable == \A i \in Ids : disk[i] # NoRow =>
                        disk'[i] # NoRow /\ disk'[i].key = disk[i].key
<1>1. ASSUME IInv, Next, ~rebuild PROVE Stable
  <2> SUFFICES ASSUME disk' # disk PROVE Stable OBVIOUS
  <2>1. (\E s \in Savers : writeRows(s)) \/ crash
    BY Zenon, <1>1, WriteOpenInv DEF Next, add, Abort, addOrUpdate, archiveRow, updateInPlace,
       Touch, update, deleteRow, writeCheck, writeFails, stop, exit, read, file
  <2>2. PICK upto \in 0..MaxRows : disk' = WrittenUpTo(upto)
    BY <1>1, <2>1, WriteRowsInv DEF crash, file
  <2>3. proc \in Up BY Zenon, <2>1 DEF writeRows, crash
  <2>4. Written(disk', upto) BY <1>1, <2>2, <2>3, WrittenRows
  <2>5. \A i \in Ids : disk[i] # NoRow => disk[i].key = index[i].key
    BY <1>1, <2>3 DEF IInv, DiskInv
  <2> QED BY <2>4, <2>5 DEF Written
<1>2. IInv /\ [Next]_vars => [~rebuild => Stable]_vars BY <1>1
<1>3. Spec => [][~rebuild => Stable]_vars BY <1>2, Invariance, PTL DEF Spec
<1> QED BY <1>3 DEF PersistedIdsStable

-----------------------------------------------------------------------------
(* Table implements DurableTable, for every number of rows, keys and       *)
(* values: step simulation under the inductive invariant.                  *)

LEMMA SlotsAreIds ==
  /\ Durable!Slots = Ids
  /\ Durable!NoRows = Empty
  /\ Durable!RowMap = [Ids -> Row \cup {NoRow}]
  BY DEF Durable!Slots, Durable!NoRows, Durable!RowMap, Empty

(* The index has no gaps.                                                  *)
LEMMA IndexDense == IInv => Durable!Dense(index)
  BY DEF IInv, IndexInv, TypeOK, Durable!Dense, Durable!Slots

(* Every operation on the rows keeps the ids and keys that are there.      *)
LEMMA ClientStep ==
  ASSUME IInv, IInv', proc = "open", proc' = "open", UNCHANGED disk, Durable!KeptIn(index, index')
  PROVE  Durable!Change
<1>1. index' \in Durable!RowMap BY SlotsAreIds DEF IInv, TypeOK
<1>2. Durable!Dense(index)' BY DEF IInv, IndexInv, TypeOK, Durable!Dense, Durable!Slots
<1>3. Durable!Dense(index') BY <1>2 DEF Durable!Dense
<1> QED BY <1>1, <1>3 DEF Durable!Change, IsOpen, Up

(* The file that a write leaves, whole or cut off by a crash.              *)
LEMMA WriteStep ==
  ASSUME IInv, OneReliableSaver, proc \in Up, NEW upto \in 0..MaxRows, disk' = WrittenUpTo(upto)
  PROVE  Durable!Saves
<1> DEFINE d == WrittenUpTo(upto)
<1>1. /\ d \in [Ids -> Row \cup {NoRow}]
      /\ \A i \in Ids : d[i] = IF i \in dirtyRows /\ i < upto THEN index[i] ELSE disk[i]
      /\ \A i \in Ids : d[i] # NoRow => i < size /\ d[i].key = index[i].key
      /\ \A i \in Ids : disk[i] # NoRow => d[i] # NoRow
      /\ \A i, j \in Ids : i < j /\ d[j] # NoRow => d[i] # NoRow
  <2>1. Written(d, upto) BY WrittenRows
  <2> HIDE DEF d
  <2> QED BY <2>1 DEF Written
<1> HIDE DEF d
<1>2. disk' = d BY DEF d
<1>3. disk' \in Durable!RowMap BY <1>1, <1>2, SlotsAreIds
<1>4. Durable!Dense(disk') BY <1>1, <1>2, SlotsAreIds DEF Durable!Dense
<1>5. \A i \in Ids : disk[i] # NoRow => disk[i].key = index[i].key
  BY DEF IInv, DiskInv
<1>6. Durable!KeptIn(disk, disk')
  BY <1>1, <1>2, <1>5, SlotsAreIds DEF Durable!KeptIn, RowKey
<1>7. \A i \in Ids : i < size => index[i] # NoRow BY DEF IInv, IndexInv
<1>8. Durable!KeptIn(disk', index)
  BY <1>1, <1>2, <1>7, SlotsAreIds DEF Durable!KeptIn, RowKey
<1>9. \A i \in Ids : disk'[i] = index[i] \/ disk'[i] = disk[i] BY <1>1, <1>2
<1> QED BY <1>3, <1>4, <1>6, <1>8, <1>9, SlotsAreIds DEF Durable!Saves

LEMMA NoWriteStep ==
  ASSUME IInv, proc \in Up, UNCHANGED disk
  PROVE  Durable!Saves
<1>1. disk \in Durable!RowMap BY SlotsAreIds DEF IInv, TypeOK
<1>2. Durable!Dense(disk) BY SlotsAreIds DEF IInv, DiskInv, Durable!Dense
<1>3. \A i \in Ids : i < size => index[i] # NoRow BY DEF IInv, IndexInv
<1>4. Durable!KeptIn(disk, index)
  BY <1>3, SlotsAreIds DEF IInv, DiskInv, Durable!KeptIn, RowKey
<1>5. Durable!KeptIn(disk, disk) BY DEF Durable!KeptIn
<1> QED BY <1>1, <1>2, <1>4, <1>5 DEF Durable!Saves

(* A process that is not up has nothing in memory.                         *)
DownIsEmpty == proc \notin Up => index = Empty

LEMMA DownIsEmptyStep ==
  ASSUME DownIsEmpty, [Next]_vars
  PROVE  DownIsEmpty'
<1> USE DEF DownIsEmpty, Up
<1>1. CASE UNCHANGED vars BY <1>1 DEF vars, mem
<1>2. CASE \E k \in Keys \ {ZeroKey}, v \in Vals : add(k, v) \/ addOrUpdate(k, v)
  BY <1>2 DEF add, addOrUpdate, Abort, FreshMemory, Locked
<1>3. CASE \E k \in Keys \ {ZeroKey} : archiveRow(k) BY <1>3 DEF archiveRow, Locked
<1>4. CASE \E i \in Ids, v \in Vals : updateInPlace(i, v) \/ Touch(i, v)
  BY <1>4 DEF updateInPlace, Touch, Locked
<1>5. CASE \E i \in Ids : update(i) \/ deleteRow(i) BY <1>5 DEF update, deleteRow, Locked
<1>6. CASE \E s \in Savers : writeCheck(s) \/ writeOpen(s) \/ writeRows(s) \/ writeFails(s)
  BY Zenon, <1>6 DEF writeCheck, writeOpen, writeRows, writeFails, mem
<1>7. CASE stop BY <1>7 DEF stop, mem
<1>8. CASE exit \/ crash \/ rebuild BY <1>8 DEF exit, crash, rebuild, FreshMemory
<1>9. CASE read BY <1>9 DEF read, FreshMemory
<1> QED BY <1>1, <1>2, <1>3, <1>4, <1>5, <1>6, <1>7, <1>8, <1>9 DEF Next

LEMMA ChangeStep ==
  ASSUME IInv, IInv', AddsFreshKeys,
         \/ \E k \in Keys \ {ZeroKey}, v \in Vals : add(k, v) \/ addOrUpdate(k, v)
         \/ \E i \in Ids, v \in Vals : updateInPlace(i, v) \/ Touch(i, v)
         \/ \E i \in Ids : deleteRow(i)
  PROVE  Durable!Change \/ Durable!Crash
<1>1. CASE \E k \in Keys \ {ZeroKey}, v \in Vals : add(k, v) \/ addOrUpdate(k, v)
  <2>1. PICK k \in Keys \ {ZeroKey}, v \in Vals : add(k, v) \/ addOrUpdate(k, v) BY <1>1
  <2>2. proc = "open" BY <2>1 DEF add, addOrUpdate, Locked
  <2>3. CASE Abort
    BY <2>2, <2>3, NoWriteStep, SlotsAreIds
       DEF Abort, FreshMemory, file, Durable!Crash, IsOpen, Up
  <2>4. CASE ~Abort
    <3>1. proc' = "open" /\ UNCHANGED disk BY <2>1, <2>2, <2>4 DEF add, addOrUpdate, file
    <3>2. \/ /\ size < MaxRows
             /\ index' = [index EXCEPT ![size] = [key |-> k, val |-> v, deleted |-> FALSE]]
          \/ /\ rows[k] # NoId
             /\ index' = [index EXCEPT ![rows[k]] = [key |-> k, val |-> v, deleted |-> FALSE]]
      BY <2>1, <2>4 DEF add, addOrUpdate, internalAdd, internalUpdate
    <3>3. Durable!KeptIn(index, index')
      <4>1. /\ index \in [Ids -> Row \cup {NoRow}] /\ size \in 0..MaxRows
            /\ rows[k] # NoId => rows[k] \in Ids /\ index[rows[k]].key = k
            /\ \A i \in Ids : index[i] # NoRow <=> i < size
        <5>1. index \in [Ids -> Row \cup {NoRow}] /\ size \in 0..MaxRows /\ rows[k] \in 0..MaxRows
          BY DEF IInv, TypeOK
        <5>2. rows[k] # NoId => rows[k] \in Ids BY <5>1
        <5>3. /\ rows[k] # NoId => index[rows[k]].key = k
              /\ \A i \in Ids : index[i] # NoRow <=> i < size
          BY Zenon DEF IInv, IndexInv
        <5> QED BY Zenon, <5>1, <5>2, <5>3
      <4> DEFINE r == [key |-> k, val |-> v, deleted |-> FALSE]
      <4>2. r # NoRow /\ r.key = k
        <5>1. r \in [key : Keys, val : Vals, deleted : BOOLEAN] OBVIOUS
        <5>2. NoRow \notin [key : Keys, val : Vals, deleted : BOOLEAN] BY ConstantsAssumption
        <5>3. r # NoRow BY ONLY Zenon, <5>1, <5>2
        <5> QED BY <5>3
      <4>3. PICK n \in Ids : /\ index' = [index EXCEPT ![n] = r]
                             /\ index[n] # NoRow => index[n].key = k
        BY <3>2, <4>1
      <4> HIDE DEF r
      <4> QED BY <4>1, <4>2, <4>3, SlotsAreIds DEF Durable!KeptIn, RowKey
    <3> QED BY <2>2, <3>1, <3>3, ClientStep
  <2> QED BY <2>3, <2>4
<1>2. CASE \E i \in Ids, v \in Vals : updateInPlace(i, v) \/ Touch(i, v)
  <2>1. PICK i \in Ids, v \in Vals : updateInPlace(i, v) \/ Touch(i, v) BY <1>2
  <2>2. proc = "open" /\ proc' = "open" /\ UNCHANGED disk
    BY <2>1 DEF updateInPlace, Touch, Locked, file
  <2>3. i < size /\ index' = [index EXCEPT ![i].val = v] BY <2>1 DEF updateInPlace, Touch
  <2>4. index \in [Ids -> Row \cup {NoRow}] /\ index[i] \in Row
    BY <2>3 DEF IInv, IndexInv, TypeOK
  <2>5. Durable!KeptIn(index, index')
    BY <2>3, <2>4, SlotsAreIds DEF Durable!KeptIn, RowKey
  <2> QED BY <2>2, <2>5, ClientStep
<1>3. CASE \E i \in Ids : deleteRow(i)
  <2>1. PICK i \in Ids : deleteRow(i) BY <1>3
  <2>2. proc = "open" /\ proc' = "open" /\ UNCHANGED disk BY <2>1 DEF deleteRow, Locked, file
  <2>3. i < size /\ index' = [index EXCEPT ![i].deleted = TRUE]
    BY <2>1 DEF deleteRow, IInv, IndexInv
  <2>4. index \in [Ids -> Row \cup {NoRow}] /\ index[i] \in Row
    BY <2>3 DEF IInv, IndexInv, TypeOK
  <2>5. Durable!KeptIn(index, index')
    BY Zenon, <2>3, <2>4, SlotsAreIds DEF Durable!KeptIn, RowKey
  <2> QED BY <2>2, <2>5, ClientStep
<1> QED BY <1>1, <1>2, <1>3

LEMMA EndStep ==
  ASSUME IInv, OneReliableSaver, exit \/ crash
  PROVE  Durable!Close \/ Durable!Crash
<1>1. CASE exit
  <2>1. /\ proc \in Up /\ proc' \notin Up /\ index' = Empty /\ UNCHANGED disk
        /\ dirtyRows = {}
    BY <1>1 DEF exit, FreshMemory, file, IInv, SaverInv, Up
  <2>2. \A i \in Ids : index[i] # NoRow => disk[i] # NoRow /\ disk[i].key = index[i].key
    BY <2>1 DEF IInv, DiskInv, IndexInv
  <2>3. \A i \in Ids : disk[i] # NoRow => index[i] # NoRow /\ disk[i].key = index[i].key
    BY <2>1 DEF IInv, DiskInv, IndexInv
  <2>4. Durable!KeptIn(index, disk) /\ Durable!KeptIn(disk, index)
    BY <2>2, <2>3, SlotsAreIds DEF Durable!KeptIn, RowKey
  <2> QED BY <2>1, <2>4, SlotsAreIds DEF Durable!Close, IsOpen, Up
<1>2. CASE crash
  <2>1. proc \in Up /\ proc' = "down" /\ index' = Empty BY <1>2 DEF crash, FreshMemory
  <2>2. Durable!Saves BY <1>2, <2>1, NoWriteStep, WriteStep DEF crash, file
  <2> QED BY <2>1, <2>2, SlotsAreIds DEF Durable!Crash, IsOpen, Up
<1> QED BY <1>1, <1>2

LEMMA OpenStep ==
  ASSUME IInv, DownIsEmpty, read \/ rebuild
  PROVE  Durable!Open \/ Durable!Recreate \/ UNCHANGED Durable!dvars
<1>1. CASE rebuild
  <2>1. /\ proc \notin Up /\ proc' = "open" /\ disk' = Empty /\ index' = Empty
    BY <1>1 DEF rebuild, FreshMemory
  <2> QED BY <2>1, SlotsAreIds DEF Durable!Recreate, IsOpen, Up
<1>2. CASE read
  <2>1. proc \notin Up /\ UNCHANGED disk BY <1>2 DEF read, file, Up
  <2>2. \/ proc' = "open" /\ index' = disk
        \/ proc' \in {"refused", "aborted"} /\ index' = Empty
    BY <1>2 DEF read, readRows, FreshMemory, IInv, DiskInv
  <2> QED BY <2>1, <2>2 DEF Durable!Open, Durable!dvars, IsOpen, DownIsEmpty, Up
<1> QED BY <1>1, <1>2

LEMMA RefinementStep ==
  ASSUME IInv, IInv', DownIsEmpty, OneReliableSaver, AddsFreshKeys, [Next]_vars
  PROVE  [Durable!DNext]_(Durable!dvars)
<1> USE DEF Durable!DNext
<1>1. CASE UNCHANGED vars BY <1>1 DEF vars, mem, file, Durable!dvars, IsOpen
<1>2. CASE \/ \E k \in Keys \ {ZeroKey}, v \in Vals : add(k, v) \/ addOrUpdate(k, v)
           \/ \E i \in Ids, v \in Vals : updateInPlace(i, v) \/ Touch(i, v)
           \/ \E i \in Ids : deleteRow(i)
  BY <1>2, ChangeStep
<1>3. CASE \/ \E k \in Keys \ {ZeroKey} : archiveRow(k)
           \/ \E i \in Ids : update(i)
           \/ \E s \in Savers : writeCheck(s) \/ writeFails(s)
           \/ stop
  <2>1. UNCHANGED <<index, disk>>
    BY Zenon, <1>3 DEF archiveRow, update, writeCheck, writeFails, stop, mem, file
  <2>2. UNCHANGED proc \/ (proc = "open" /\ proc' = "stopping")
    BY Zenon, <1>3 DEF archiveRow, update, writeCheck, writeFails, stop
  <2> QED BY <2>1, <2>2 DEF Durable!dvars, IsOpen, Up
<1>4. CASE \E s \in Savers : writeOpen(s)
  <2>1. UNCHANGED <<proc, index>> BY <1>4 DEF writeOpen, mem
  <2>2. UNCHANGED disk BY <1>4, WriteOpenInv
  <2> QED BY <2>1, <2>2 DEF Durable!dvars, IsOpen
<1>5. CASE \E s \in Savers : writeRows(s)
  <2>1. UNCHANGED <<proc, index>> /\ proc \in Up BY <1>5 DEF writeRows
  <2>2. disk' = WrittenUpTo(MaxRows) BY <1>5, WriteRowsInv
  <2>3. Durable!Saves BY <2>1, <2>2, WriteStep
  <2>4. \A i \in Ids : index[i] # NoRow =>
           disk'[i] # NoRow /\ disk'[i].key = index[i].key
    <3>1. /\ \A i \in Ids : disk'[i] = IF i \in dirtyRows /\ i < MaxRows THEN index[i] ELSE disk[i]
          /\ \A i \in Ids : disk'[i] # NoRow => disk'[i].key = index[i].key
      <4>1. MaxRows \in 0..MaxRows BY ConstantsAssumption
      <4>2. Written(disk', MaxRows) BY <2>1, <2>2, <4>1, WrittenRows
      <4> QED BY <4>2 DEF Written
    <3>2. \A i \in Ids : index[i] # NoRow /\ i \notin dirtyRows => disk[i] # NoRow
      BY <2>1 DEF IInv, DiskInv, IndexInv
    <3> QED BY <3>1, <3>2
  <2>5. Durable!KeptIn(index, disk') BY <2>4, SlotsAreIds DEF Durable!KeptIn, RowKey
  <2> QED BY <2>1, <2>3, <2>5 DEF Durable!Save, IsOpen
<1>6. CASE exit \/ crash BY <1>6, EndStep
<1>7. CASE read \/ rebuild BY <1>7, OpenStep
<1> QED BY <1>1, <1>2, <1>3, <1>4, <1>5, <1>6, <1>7 DEF Next

(* Table.cpp implements the abstract table that Database is built on: all  *)
(* operations, saves, crashes and reloads of Table are steps of            *)
(* DurableTable or leave its state alone.                                  *)
THEOREM Refinement ==
  ASSUME OneReliableSaver, AddsFreshKeys
  PROVE  Spec => ImplementsDurableTable
<1>1. Init => Durable!DInit
  BY SlotsAreIds DEF Init, Durable!DInit, IsOpen, Up
<1>2. Init => DownIsEmpty BY DEF Init, DownIsEmpty
<1>3. DownIsEmpty /\ [Next]_vars => DownIsEmpty' BY DownIsEmptyStep
<1>4. IInv /\ IInv' /\ DownIsEmpty /\ [Next]_vars => [Durable!DNext]_(Durable!dvars)
  BY RefinementStep
<1> QED BY <1>1, <1>2, <1>3, <1>4, Invariance, PTL DEF Spec, ImplementsDurableTable, Durable!DSpec
=============================================================================
