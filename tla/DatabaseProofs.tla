--------------------------- MODULE DatabaseProofs ---------------------------
(***************************************************************************)
(* What the files of the database are to each other, for any number of     *)
(* strings and rows: with and without a save thread, in both orders of the *)
(* hash map, wherever a crash or a failed write of a table cuts            *)
(* Database::write() off.                                                  *)
(* And Table::list() prints every selected row once and in order, for      *)
(* every number of rows and threads.                                       *)
(***************************************************************************)
EXTENDS Database, TableList, SequenceTheorems, TLAPS

-----------------------------------------------------------------------------
(* The inductive invariant *)

WriterInv ==
  /\ ~hasSaveThread => pc["save"] = "idle"
  /\ proc # "stopping" => pc["stop"] = "idle"
  /\ ~IsUp => pc["save"] = "idle"

\* The rows in memory refer to strings and rows in memory
MemoryInv ==
  /\ \A i \in Files!Slots: files[i] # NoRow => InPool(files[i].filename, pool)
  /\ \A i \in Classes!Slots: classes[i] # NoRow =>
       InPool(classes[i].classname, pool) /\ files[classes[i].file] # NoRow

\* A row in a file is the one in memory
DiskInv ==
  /\ \A i \in Files!Slots: filesDisk[i] # NoRow => files[i] = filesDisk[i]
  /\ \A i \in Classes!Slots: classesDisk[i] # NoRow => classes[i] = classesDisk[i]

\* The pool file is a beginning of the pool; all of it, when nothing was added
\* since it was read, and when stop() has written it, nobody is at it again and no
\* write of it failed
PoolInv ==
  /\ Len(poolFile) <= Len(pool) /\ \A i \in 1..Len(poolFile): poolFile[i] = pool[i]
  /\ poolTorn => poolDirty /\ (poolFailed \/ \E w \in Writers: pc[w] = "pool")
  /\ ~poolDirty => poolFile = pool
  /\ pc["stop"] \in {"first", "second", "done", "failed"} /\ ~poolTorn /\ ~poolFailed =>
       poolFile = pool

\* The tables that stop() is done with are complete in their files
FilesSaved == \A i \in Files!Slots: files[i] # NoRow => filesDisk[i] = files[i]
ClassesSaved == \A i \in Classes!Slots: classes[i] # NoRow => classesDisk[i] = classes[i]

SavedInv ==
  /\ pc["stop"] = "done" \/ (filesFirst /\ pc["stop"] = "second") => FilesSaved
  /\ pc["stop"] = "done" \/ (~filesFirst /\ pc["stop"] = "second") => ClassesSaved

UpInv == IsUp => MemoryInv /\ DiskInv /\ PoolInv /\ SavedInv

Inv ==
  /\ TypeOK /\ WriterInv /\ UpInv
  /\ ClosedAfterExit /\ StringsBeforeRows /\ FilesBeforeClasses

-----------------------------------------------------------------------------
(* Rows, tables and their files *)

USE DatabaseAssumption

\* No row is mistaken for an empty slot
LEMMA RowsAreRows == NoRow \notin FileRow /\ NoRow \notin ClassFileRow
BY DEF NoRow, FileRow, ClassFileRow

\* What a slot with a row holds
LEMMA SlotTypes ==
  ASSUME TypeOK
  PROVE  /\ \A i \in Files!Slots: files[i] # NoRow => files[i] \in FileRow
         /\ \A i \in Files!Slots: filesDisk[i] # NoRow => filesDisk[i] \in FileRow
         /\ \A i \in Classes!Slots: classes[i] # NoRow => classes[i] \in ClassFileRow
         /\ \A i \in Classes!Slots: classesDisk[i] # NoRow => classesDisk[i] \in ClassFileRow
         /\ \A r \in ClassFileRow: r.file \in Files!Slots
<1>1. \A r \in ClassFileRow: r.file \in Files!Slots BY DEF ClassFileRow, Files!Slots
<1> QED BY <1>1 DEF TypeOK, Files!RowMap, Classes!RowMap

\* A save, whole or cut off, puts only rows of the memory into the file
LEMMA SavedRows ==
  ASSUME TypeOK
  PROVE  /\ Files!Saves => /\ filesDisk' \in Files!RowMap
                           /\ \A i \in Files!Slots: filesDisk'[i] # NoRow => files[i] = filesDisk'[i]
                           /\ \A i \in Files!Slots: filesDisk[i] # NoRow => filesDisk'[i] # NoRow
         /\ Classes!Saves => /\ classesDisk' \in Classes!RowMap
                             /\ \A i \in Classes!Slots: classesDisk'[i] # NoRow =>
                                   classes[i] = classesDisk'[i]
BY DEF Files!Saves, Classes!Saves, Files!KeptIn, Classes!KeptIn, Self

\* A save that goes through leaves no row of the memory out
LEMMA SavedAll ==
  ASSUME TypeOK
  PROVE  /\ Files!Save => \A i \in Files!Slots: files[i] # NoRow => filesDisk'[i] = files[i]
         /\ Classes!Save => \A i \in Classes!Slots: classes[i] # NoRow => classesDisk'[i] = classes[i]
BY DEF Files!Save, Classes!Save, Files!KeptIn, Classes!KeptIn, Self

\* Rows that come from the memory find their strings when all the pool is in its file
LEMMA StringsOnDisk ==
  ASSUME TypeOK, MemoryInv, poolFile' = pool,
         \A i \in Files!Slots: filesDisk'[i] # NoRow => files[i] = filesDisk'[i],
         \A i \in Classes!Slots: classesDisk'[i] # NoRow => classes[i] = classesDisk'[i]
  PROVE  StringsResolve'
BY DEF MemoryInv, StringsResolve, InPool

\* Class rows that come from the memory find their file rows when all of these are saved
LEMMA FilesOnDisk ==
  ASSUME TypeOK, MemoryInv,
         \A i \in Files!Slots: files[i] # NoRow => filesDisk'[i] # NoRow,
         \A i \in Classes!Slots: classesDisk'[i] # NoRow => classes[i] = classesDisk'[i]
  PROVE  FilesResolve'
<1> SUFFICES ASSUME NEW i \in Classes!Slots, classesDisk'[i] # NoRow
             PROVE  filesDisk'[classesDisk'[i].file] # NoRow
  BY DEF FilesResolve
<1>1. classes[i] = classesDisk'[i] /\ classes[i] # NoRow OBVIOUS
<1>2. classes[i].file \in Files!Slots BY <1>1, SlotTypes
<1>3. files[classes[i].file] # NoRow BY <1>1 DEF MemoryInv
<1> QED BY <1>1, <1>2, <1>3

-----------------------------------------------------------------------------
(* Workers *)

\* A worker leaves the files alone, and what they are to each other
LEMMA FilesUntouched ==
  ASSUME Inv, UNCHANGED <<proc, poolFile, poolTorn, poolFailed, filesDisk, classesDisk, ended, build>>
  PROVE  ClosedAfterExit' /\ StringsBeforeRows' /\ FilesBeforeClasses'
<1>1. StringsResolve' <=> StringsResolve BY DEF StringsResolve
<1>2. FilesResolve' <=> FilesResolve BY DEF FilesResolve
<1> QED
  BY <1>1, <1>2 DEF Inv, ClosedAfterExit, StringsBeforeRows, FilesBeforeClasses, build

\* A string that was in the pool stays there
LEMMA StillInPool ==
  ASSUME NEW p \in Seq(Strings), NEW s \in Strings, NEW t, InPool(t, p)
  PROVE  InPool(t, Append(p, s))
<1>1. PICK i \in 1..Len(p): p[i] = t BY DEF InPool
<1>2. Append(p, s)[i] = t /\ Len(Append(p, s)) = Len(p) + 1 /\ Len(p) \in Nat BY <1>1
<1> QED BY <1>1, <1>2 DEF InPool

LEMMA GetPoolStringStep ==
  ASSUME Inv, NEW s \in Strings, getPoolString(s)
  PROVE  Inv'
<1> USE DEF getPoolString, fileVars, classVars, build
<1>1. TypeOK' BY DEF Inv, TypeOK
<1>2. WriterInv' /\ pc["stop"] = "idle" BY DEF Inv, WriterInv, IsUp
<1>3. MemoryInv /\ DiskInv /\ PoolInv BY DEF Inv, UpInv, IsUp
<1>4. MemoryInv' BY <1>3, StillInPool DEF MemoryInv, Inv, TypeOK
<1>5. DiskInv' BY <1>3 DEF DiskInv
<1>6. PoolInv'
  <2>1. Len(pool') = Len(pool) + 1 /\ Len(pool) \in Nat /\ \A i \in 1..Len(pool): pool'[i] = pool[i]
    BY DEF Inv, TypeOK
  <2>2. Len(poolFile) \in Nat BY DEF Inv, TypeOK
  <2>3. Len(poolFile') <= Len(pool') /\ \A i \in 1..Len(poolFile'): poolFile'[i] = pool'[i]
    BY <1>3, <2>1, <2>2 DEF PoolInv
  <2> QED BY <1>2, <1>3, <2>3 DEF PoolInv
<1>7. SavedInv' BY <1>2 DEF SavedInv
<1>8. ClosedAfterExit' /\ StringsBeforeRows' /\ FilesBeforeClasses' BY FilesUntouched
<1> QED BY <1>1, <1>2, <1>4, <1>5, <1>6, <1>7, <1>8 DEF Inv, UpInv

LEMMA AddFileStep ==
  ASSUME Inv, NEW i \in Files!Slots, NEW s \in Strings, addFile(i, s)
  PROVE  Inv'
<1> USE DEF addFile, poolVars, classVars, build
<1> DEFINE row == [filename |-> s]
<1>0. row \in FileRow /\ row # NoRow /\ row.filename = s BY RowsAreRows DEF FileRow
<1>1. TypeOK' BY <1>0 DEF Inv, TypeOK, Files!RowMap
<1>2. WriterInv' /\ pc["stop"] = "idle" BY DEF Inv, WriterInv, IsUp
<1>3. MemoryInv /\ DiskInv /\ PoolInv BY DEF Inv, UpInv, IsUp
<1>a. files'[i] = row /\ \A j \in Files!Slots: j # i => files'[j] = files[j]
  BY DEF Inv, TypeOK, Files!RowMap
<1> HIDE DEF row
<1>4. MemoryInv'
  <2>1. \A j \in Files!Slots: files'[j] # NoRow => InPool(files'[j].filename, pool)
    BY <1>0, <1>3, <1>a DEF MemoryInv
  <2>2. \A j \in Files!Slots: files[j] # NoRow => files'[j] # NoRow BY <1>0, <1>a
  <2>3. \A j \in Classes!Slots: classes[j] # NoRow => classes[j].file \in Files!Slots
    BY SlotTypes DEF Inv
  <2> QED BY <1>3, <2>1, <2>2, <2>3 DEF MemoryInv
<1>5. DiskInv' BY <1>3, <1>a DEF DiskInv
<1>6. PoolInv' BY <1>3 DEF PoolInv
<1>7. SavedInv' BY <1>2 DEF SavedInv
<1>8. ClosedAfterExit' /\ StringsBeforeRows' /\ FilesBeforeClasses' BY FilesUntouched
<1> QED BY <1>1, <1>2, <1>4, <1>5, <1>6, <1>7, <1>8 DEF Inv, UpInv

LEMMA AddClassFileStep ==
  ASSUME Inv, NEW i \in Classes!Slots, NEW f \in Files!Slots, NEW s \in Strings,
         addClassFile(i, f, s)
  PROVE  Inv'
<1> USE DEF addClassFile, poolVars, fileVars, build
<1> DEFINE row == [file |-> f, classname |-> s]
<1>0. row \in ClassFileRow /\ row # NoRow /\ row.file = f /\ row.classname = s
  BY RowsAreRows DEF ClassFileRow, Files!Slots
<1>1. TypeOK' BY <1>0 DEF Inv, TypeOK, Classes!RowMap
<1>2. WriterInv' /\ pc["stop"] = "idle" BY DEF Inv, WriterInv, IsUp
<1>3. MemoryInv /\ DiskInv /\ PoolInv BY DEF Inv, UpInv, IsUp
<1>a. classes'[i] = row /\ \A j \in Classes!Slots: j # i => classes'[j] = classes[j]
  BY DEF Inv, TypeOK, Classes!RowMap
<1> HIDE DEF row
<1>4. MemoryInv' BY <1>0, <1>3, <1>a DEF MemoryInv
<1>5. DiskInv' BY <1>3, <1>a DEF DiskInv
<1>6. PoolInv' BY <1>3 DEF PoolInv
<1>7. SavedInv' BY <1>2 DEF SavedInv
<1>8. ClosedAfterExit' /\ StringsBeforeRows' /\ FilesBeforeClasses' BY FilesUntouched
<1> QED BY <1>1, <1>2, <1>4, <1>5, <1>6, <1>7, <1>8 DEF Inv, UpInv

-----------------------------------------------------------------------------
(* Writers *)

\* While a process is up it is neither down nor undefined
LEMMA UpFacts ==
  ASSUME Inv, IsUp
  PROVE  TypeOK /\ WriterInv /\ MemoryInv /\ DiskInv /\ PoolInv /\ SavedInv
         /\ proc # "down" /\ proc # "undefined"
BY DEF Inv, UpInv, IsUp

LEMMA WritePoolStep ==
  ASSUME Inv, NEW w \in Writers, writePool(w)
  PROVE  Inv'
<1> USE DEF writePool, fileVars, classVars, build
<1>0. IsUp /\ (w = "stop" => proc = "stopping") /\ (w = "save" => hasSaveThread)
  BY DEF MayWrite, IsUp, Writers
<1>a. TypeOK /\ WriterInv /\ MemoryInv /\ DiskInv /\ PoolInv /\ SavedInv /\ proc # "down"
  BY <1>0, UpFacts
<1>b. pc' \in [Writers -> {"idle", "pool", "first", "second", "done", "failed"}]
  BY <1>a DEF TypeOK
<1>c. pc'[w] \in {"pool", "first"} /\ \A v \in Writers: v # w => pc'[v] = pc[v] BY <1>a DEF TypeOK
<1>d. poolTorn' \in BOOLEAN /\ poolFailed' \in BOOLEAN /\ poolFile' \in Seq(Strings)
  <2>1. <<>> \in Seq(Strings) OBVIOUS
  <2> QED BY Zenon, <1>a, <2>1 DEF TypeOK
<1>1. TypeOK' BY <1>a, <1>b, <1>d DEF TypeOK
<1>2. WriterInv' BY <1>0, <1>a, <1>c DEF WriterInv, IsUp, Writers
<1>3. MemoryInv' /\ DiskInv' BY <1>a DEF MemoryInv, DiskInv
<1>4. SavedInv' BY <1>a, <1>c DEF SavedInv, FilesSaved, ClassesSaved, Writers
<1>5. FilesResolve' <=> FilesResolve BY DEF FilesResolve
<1>6. FilesBeforeClasses' /\ ClosedAfterExit'
  BY <1>a, <1>5 DEF Inv, FilesBeforeClasses, ClosedAfterExit
<1>7. CASE poolDirty /\ poolFile' = <<>> /\ poolTorn' = TRUE /\ pc' = [pc EXCEPT ![w] = "pool"]
  <2>1. pc'[w] = "pool" /\ poolFile' = <<>> /\ poolTorn' /\ poolDirty' BY <1>7, <1>a DEF TypeOK
  <2>2. Len(pool) \in Nat /\ Len(poolFile') = 0 BY <2>1, <1>a DEF TypeOK
  <2>3. PoolInv' BY <2>1, <2>2 DEF PoolInv
  <2>4. StringsBeforeRows' BY <2>1 DEF StringsBeforeRows
  <2> QED BY <1>1, <1>2, <1>3, <1>4, <1>6, <2>3, <2>4 DEF Inv, UpInv
<1>8. CASE poolDirty /\ poolFailed' = TRUE /\ UNCHANGED <<poolFile, poolTorn>>
  <2>1. PoolInv' BY <1>a, <1>8 DEF PoolInv
  <2>2. StringsBeforeRows' BY <1>8 DEF StringsBeforeRows
  <2> QED BY <1>1, <1>2, <1>3, <1>4, <1>6, <2>1, <2>2 DEF Inv, UpInv
<1>9. CASE ~poolDirty /\ UNCHANGED <<poolFile, poolTorn, poolFailed>>
  <2>1. poolFile = pool /\ ~poolTorn BY <1>9, <1>a DEF PoolInv
  <2>2. PoolInv' BY <1>a, <1>9, <2>1 DEF PoolInv
  <2>3. StringsResolve' <=> StringsResolve BY <1>9 DEF StringsResolve
  <2>4. StringsBeforeRows' BY <1>9, <2>3 DEF Inv, StringsBeforeRows
  <2> QED BY <1>1, <1>2, <1>3, <1>4, <1>6, <2>2, <2>4 DEF Inv, UpInv
<1> QED BY <1>7, <1>8, <1>9

LEMMA PoolWrittenStep ==
  ASSUME Inv, NEW w \in Writers, poolWritten(w)
  PROVE  Inv'
<1> USE DEF poolWritten, fileVars, classVars, build
<1>a. TypeOK /\ WriterInv /\ MemoryInv /\ DiskInv /\ PoolInv /\ SavedInv
      /\ proc # "down" /\ proc # "undefined"
  BY UpFacts
<1>b. pc' \in [Writers -> {"idle", "pool", "first", "second", "done", "failed"}]
  BY <1>a DEF TypeOK
<1>c. pc'[w] = "first" /\ \A v \in Writers: v # w => pc'[v] = pc[v] BY <1>a DEF TypeOK
<1>d. Len(pool) \in Nat /\ Len(poolFile) \in Nat /\ Len(poolFile) <= Len(pool)
  BY <1>a DEF TypeOK, PoolInv
<1>e. \A n \in Len(poolFile)..Len(pool):
        /\ SubSeq(pool, 1, n) \in Seq(Strings) /\ Len(SubSeq(pool, 1, n)) = n
        /\ \A i \in 1..n: SubSeq(pool, 1, n)[i] = pool[i]
  BY <1>a, <1>d DEF TypeOK
<1>f. poolTorn' \in BOOLEAN /\ poolFailed' \in BOOLEAN /\ poolFile' \in Seq(Strings)
  BY <1>a, <1>e DEF TypeOK
<1>1. TypeOK' BY Zenon, <1>a, <1>b, <1>f DEF TypeOK
<1>2. WriterInv' BY <1>a, <1>c DEF WriterInv, IsUp, Writers
<1>3. MemoryInv' /\ DiskInv' BY <1>a DEF MemoryInv, DiskInv
<1>4. SavedInv' BY <1>a, <1>c DEF SavedInv, FilesSaved, ClassesSaved, Writers
<1>5. FilesResolve' <=> FilesResolve BY DEF FilesResolve
<1>6. FilesBeforeClasses' /\ ClosedAfterExit'
  BY <1>a, <1>5 DEF Inv, FilesBeforeClasses, ClosedAfterExit
<1>7. CASE poolFile' = pool /\ poolTorn' = FALSE /\ poolFailed' = FALSE
  <2>1. PoolInv' BY <1>d, <1>7 DEF PoolInv
  <2>2. StringsResolve' BY <1>a, <1>7, StringsOnDisk DEF DiskInv
  <2> QED BY <1>1, <1>2, <1>3, <1>4, <1>6, <2>1, <2>2 DEF Inv, UpInv, StringsBeforeRows
<1>8. CASE poolFailed' = TRUE /\ poolTorn' = poolTorn
           /\ \E n \in Len(poolFile)..Len(pool): poolFile' = SubSeq(pool, 1, n)
  <2>1. PICK n \in Len(poolFile)..Len(pool): poolFile' = SubSeq(pool, 1, n) BY <1>8
  <2>2. /\ Len(poolFile') = n /\ Len(poolFile') <= Len(pool)
        /\ \A i \in 1..Len(poolFile'): poolFile'[i] = pool[i]
    BY <1>d, <1>e, <2>1
  <2>3. poolDirty \/ (~poolTorn /\ poolFile' = pool)
    <3> SUFFICES ASSUME ~poolDirty PROVE ~poolTorn /\ poolFile' = pool OBVIOUS
    <3>1. ~poolTorn /\ poolFile = pool BY <1>a DEF PoolInv
    <3>2. n = Len(pool) BY <1>d, <2>1, <3>1
    <3> QED BY <1>a, <2>1, <3>1, <3>2 DEF TypeOK
  <2>4. PoolInv' BY <1>a, <1>8, <2>2, <2>3 DEF PoolInv
  <2> QED BY <1>1, <1>2, <1>3, <1>4, <1>6, <1>8, <2>4 DEF Inv, UpInv, StringsBeforeRows
<1> QED BY <1>7, <1>8

\* The pool file and its writers, when a writer goes on from a table
LEMMA PoolStays ==
  ASSUME TypeOK, PoolInv, UNCHANGED poolVars, NEW w \in Writers, pc[w] \in {"first", "second"},
         pc'[w] \in {"idle", "second", "done", "failed"},
         \A v \in Writers: v # w => pc'[v] = pc[v]
  PROVE  PoolInv'
<1>1. pc["stop"] \in {"first", "second", "done", "failed"}
      \/ pc'["stop"] \notin {"first", "second", "done", "failed"}
  BY DEF Writers
<1>2. \A v \in Writers: pc[v] = "pool" => pc'[v] = "pool" OBVIOUS
<1> QED BY <1>1, <1>2 DEF PoolInv, poolVars

LEMMA WriteTableStep ==
  ASSUME Inv, NEW w \in Writers, writeTable(w)
  PROVE  Inv'
<1> USE DEF build
<1>a. TypeOK /\ WriterInv /\ MemoryInv /\ DiskInv /\ PoolInv /\ SavedInv /\ IsUp
      /\ proc # "down" /\ proc # "undefined"
  BY UpFacts DEF writeTable
<1>b. UNCHANGED <<proc, ended, hasSaveThread, filesFirst, files, classes>> /\ UNCHANGED poolVars
  BY Zenon DEF writeTable, fileVars, classVars, Files!Save, Classes!Save
<1>c. /\ filesDisk' \in Files!RowMap
      /\ classesDisk' \in Classes!RowMap
      /\ \A i \in Files!Slots: filesDisk'[i] # NoRow => files[i] = filesDisk'[i]
      /\ \A i \in Files!Slots: filesDisk[i] # NoRow => filesDisk'[i] # NoRow
      /\ \A i \in Classes!Slots: classesDisk'[i] # NoRow => classes[i] = classesDisk'[i]
  <2>1. CASE AtFiles(w) /\ Files!Save /\ UNCHANGED classVars
    BY <1>a, <2>1, SavedRows DEF TypeOK, DiskInv, classVars, Files!Save
  <2>2. CASE AtClasses(w) /\ Classes!Save /\ UNCHANGED fileVars
    BY <1>a, <2>2, SavedRows DEF TypeOK, DiskInv, fileVars, Classes!Save
  <2> QED BY <2>1, <2>2 DEF writeTable
<1>d. /\ pc[w] = "first" => pc'[w] = "second"
      /\ pc[w] = "second" /\ w = "stop" => pc'[w] = "done"
      /\ pc[w] = "second" /\ w = "save" => pc'[w] = "idle"
      /\ \A v \in Writers: v # w => pc'[v] = pc[v]
      /\ pc' \in [Writers -> {"idle", "pool", "first", "second", "done", "failed"}]
      /\ pc[w] \in {"first", "second"}
  BY <1>a DEF writeTable, Onwards, AfterWrite, TypeOK, Writers
<1>1. TypeOK'
  <2>1. poolDirty' \in BOOLEAN /\ poolTorn' \in BOOLEAN /\ poolFailed' \in BOOLEAN
        /\ hasSaveThread' \in BOOLEAN /\ filesFirst' \in BOOLEAN
    BY <1>a, <1>b DEF TypeOK, poolVars
  <2> QED BY <1>a, <1>b, <1>c, <1>d, <2>1 DEF TypeOK, poolVars
<1>2. WriterInv' BY <1>a, <1>b, <1>d DEF WriterInv, IsUp, Writers
<1>3. MemoryInv' /\ DiskInv' BY <1>a, <1>b, <1>c DEF MemoryInv, DiskInv, poolVars
<1>4. PoolInv' BY <1>a, <1>b, <1>d, PoolStays DEF Writers
<1>5. SavedInv'
  <2>1. CASE AtFiles(w) /\ Files!Save /\ UNCHANGED classVars
    <3>1. FilesSaved' BY <1>a, <1>b, <2>1, SavedAll DEF FilesSaved
    <3>2. ClassesSaved' <=> ClassesSaved BY <2>1 DEF ClassesSaved, classVars
    <3>3. pc'["stop"] = "done" \/ (~filesFirst /\ pc'["stop"] = "second")
          => pc["stop"] = "done" \/ (~filesFirst /\ pc["stop"] = "second")
      BY <1>d, <2>1 DEF AtFiles, Writers
    <3> QED BY <1>a, <1>b, <3>1, <3>2, <3>3 DEF SavedInv
  <2>2. CASE AtClasses(w) /\ Classes!Save /\ UNCHANGED fileVars
    <3>1. ClassesSaved' BY <1>a, <1>b, <2>2, SavedAll DEF ClassesSaved
    <3>2. FilesSaved' <=> FilesSaved BY <2>2 DEF FilesSaved, fileVars
    <3>3. pc'["stop"] = "done" \/ (filesFirst /\ pc'["stop"] = "second")
          => pc["stop"] = "done" \/ (filesFirst /\ pc["stop"] = "second")
      BY <1>d, <2>2 DEF AtClasses, Writers
    <3> QED BY <1>a, <1>b, <3>1, <3>2, <3>3 DEF SavedInv
  <2> QED BY <2>1, <2>2 DEF writeTable
<1>6. StringsBeforeRows'
  <2> SUFFICES ASSUME ~hasSaveThread, ~poolTorn, ~poolFailed PROVE StringsResolve'
    BY <1>b DEF StringsBeforeRows, poolVars
  <2>1. w = "stop" BY <1>a, <1>d DEF WriterInv, Writers
  <2>2. poolFile' = pool BY <1>a, <1>b, <1>d, <2>1 DEF PoolInv, poolVars
  <2> QED BY <1>a, <1>c, <2>2, StringsOnDisk
<1>7. FilesBeforeClasses'
  <2> SUFFICES ASSUME ~hasSaveThread, filesFirst PROVE FilesResolve'
    BY <1>b DEF FilesBeforeClasses
  <2>1. w = "stop" BY <1>a, <1>d DEF WriterInv, Writers
  <2>2. CASE AtFiles(w) /\ Files!Save /\ UNCHANGED classVars
    <3>1. FilesResolve BY <1>a DEF Inv, FilesBeforeClasses
    <3>2. \A i \in Classes!Slots: classesDisk[i] # NoRow => classesDisk[i].file \in Files!Slots
      BY <1>a, SlotTypes
    <3> QED BY <1>c, <2>2, <3>1, <3>2 DEF FilesResolve, classVars
  <2>3. CASE AtClasses(w) /\ Classes!Save /\ UNCHANGED fileVars
    <3>1. FilesSaved BY <1>a, <2>1, <2>3 DEF AtClasses, SavedInv
    <3>2. \A i \in Files!Slots: files[i] # NoRow => filesDisk'[i] # NoRow
      BY <2>3, <3>1 DEF FilesSaved, fileVars
    <3> QED BY <1>a, <1>c, <3>2, FilesOnDisk
  <2> QED BY <2>2, <2>3 DEF writeTable
<1>8. ClosedAfterExit' BY <1>a, <1>b DEF ClosedAfterExit
<1> QED BY <1>1, <1>2, <1>3, <1>4, <1>5, <1>6, <1>7, <1>8 DEF Inv, UpInv

LEMMA WriteFailsStep ==
  ASSUME Inv, NEW w \in Writers, writeFails(w)
  PROVE  Inv'
<1> USE DEF build
<1>a. TypeOK /\ WriterInv /\ MemoryInv /\ DiskInv /\ PoolInv /\ SavedInv /\ IsUp
      /\ proc # "down" /\ proc # "undefined"
  BY UpFacts DEF writeFails
<1>b. UNCHANGED <<proc, ended, hasSaveThread, filesFirst, files, classes>> /\ UNCHANGED poolVars
  BY DEF writeFails, fileVars, classVars
<1>c. /\ filesDisk' \in Files!RowMap
      /\ classesDisk' \in Classes!RowMap
      /\ \A i \in Files!Slots: filesDisk'[i] # NoRow => files[i] = filesDisk'[i]
      /\ \A i \in Files!Slots: filesDisk[i] # NoRow => filesDisk'[i] # NoRow
      /\ \A i \in Classes!Slots: classesDisk'[i] # NoRow => classes[i] = classesDisk'[i]
  <2>1. CASE UNCHANGED <<fileVars, classVars>>
    BY <1>a, <2>1 DEF TypeOK, DiskInv, fileVars, classVars
  <2>2. CASE Files!Saves /\ UNCHANGED <<files, classVars>>
    BY <1>a, <2>2, SavedRows DEF TypeOK, DiskInv, classVars
  <2>3. CASE Classes!Saves /\ UNCHANGED <<classes, fileVars>>
    BY <1>a, <2>3, SavedRows DEF TypeOK, DiskInv, fileVars
  <2> QED BY <2>1, <2>2, <2>3 DEF writeFails
<1>d. /\ w = "stop" => pc'[w] = "failed"
      /\ w = "save" => pc'[w] = "idle"
      /\ \A v \in Writers: v # w => pc'[v] = pc[v]
      /\ pc' \in [Writers -> {"idle", "pool", "first", "second", "done", "failed"}]
      /\ pc[w] \in {"first", "second"}
  BY <1>a DEF writeFails, AfterWrite, TypeOK, Writers
<1>1. TypeOK'
  <2>1. poolDirty' \in BOOLEAN /\ poolTorn' \in BOOLEAN /\ poolFailed' \in BOOLEAN
        /\ hasSaveThread' \in BOOLEAN /\ filesFirst' \in BOOLEAN
    BY <1>a, <1>b DEF TypeOK, poolVars
  <2> QED BY <1>a, <1>b, <1>c, <1>d, <2>1 DEF TypeOK, poolVars
<1>2. WriterInv' BY <1>a, <1>b, <1>d DEF WriterInv, IsUp, Writers
<1>3. MemoryInv' /\ DiskInv' BY <1>a, <1>b, <1>c DEF MemoryInv, DiskInv, poolVars
<1>4. PoolInv' BY <1>a, <1>b, <1>d, PoolStays DEF Writers
<1>5. SavedInv'
  <2>1. CASE w = "stop" BY <1>d, <2>1 DEF SavedInv
  <2>2. CASE w = "save"
    <3>1. hasSaveThread BY <1>a, <1>d, <2>2 DEF WriterInv
    <3>2. UNCHANGED <<fileVars, classVars>> BY <3>1 DEF writeFails
    <3>3. pc'["stop"] = pc["stop"] BY <1>d, <2>2 DEF Writers
    <3> QED BY <1>a, <1>b, <3>2, <3>3 DEF SavedInv, FilesSaved, ClassesSaved, fileVars, classVars
  <2> QED BY <2>1, <2>2 DEF Writers
<1>6. StringsBeforeRows'
  <2> SUFFICES ASSUME ~hasSaveThread, ~poolTorn, ~poolFailed PROVE StringsResolve'
    BY <1>b DEF StringsBeforeRows, poolVars
  <2>1. w = "stop" BY <1>a, <1>d DEF WriterInv, Writers
  <2>2. poolFile' = pool BY <1>a, <1>b, <1>d, <2>1 DEF PoolInv, poolVars
  <2> QED BY <1>a, <1>c, <2>2, StringsOnDisk
<1>7. FilesBeforeClasses'
  <2> SUFFICES ASSUME ~hasSaveThread, filesFirst PROVE FilesResolve'
    BY <1>b DEF FilesBeforeClasses
  <2>1. w = "stop" BY <1>a, <1>d DEF WriterInv, Writers
  <2>2. CASE UNCHANGED classVars
    <3>1. FilesResolve BY <1>a DEF Inv, FilesBeforeClasses
    <3>2. \A i \in Classes!Slots: classesDisk[i] # NoRow => classesDisk[i].file \in Files!Slots
      BY <1>a, SlotTypes
    <3> QED BY <1>c, <2>2, <3>1, <3>2 DEF FilesResolve, classVars
  <2>3. CASE AtClasses(w) /\ UNCHANGED fileVars
    <3>1. FilesSaved BY <1>a, <2>1, <2>3 DEF AtClasses, SavedInv
    <3>2. \A i \in Files!Slots: files[i] # NoRow => filesDisk'[i] # NoRow
      BY <2>3, <3>1 DEF FilesSaved, fileVars
    <3> QED BY <1>a, <1>c, <3>2, FilesOnDisk
  <2> QED BY <2>2, <2>3 DEF writeFails
<1>8. ClosedAfterExit' BY <1>a, <1>b DEF ClosedAfterExit
<1> QED BY <1>1, <1>2, <1>3, <1>4, <1>5, <1>6, <1>7, <1>8 DEF Inv, UpInv

-----------------------------------------------------------------------------
(* The life of the process *)

\* A table with nothing in it
LEMMA EmptyTables ==
  /\ Files!NoRows \in Files!RowMap /\ \A i \in Files!Slots: Files!NoRows[i] = NoRow
  /\ Classes!NoRows \in Classes!RowMap /\ \A i \in Classes!Slots: Classes!NoRows[i] = NoRow
BY DEF Files!NoRows, Files!RowMap, Classes!NoRows, Classes!RowMap

\* The writers of a process that has just begun, or ended
LEMMA Fresh ==
  ASSUME FreshWriters
  PROVE  /\ pc' \in [Writers -> {"idle", "pool", "first", "second", "done", "failed"}]
         /\ pc'["stop"] = "idle" /\ pc'["save"] = "idle"
BY DEF FreshWriters, Writers

LEMMA StopStep ==
  ASSUME Inv, stop
  PROVE  Inv'
<1> USE DEF stop, poolVars, fileVars, classVars, build
<1>a. TypeOK /\ WriterInv /\ MemoryInv /\ DiskInv /\ PoolInv /\ SavedInv
  BY UpFacts DEF IsUp
<1>1. TypeOK' BY <1>a DEF TypeOK
<1>2. WriterInv' BY <1>a DEF WriterInv, IsUp
<1>3. MemoryInv' /\ DiskInv' BY <1>a DEF MemoryInv, DiskInv
<1>4. PoolInv' BY <1>a DEF PoolInv
<1>5. SavedInv' BY <1>a DEF SavedInv, FilesSaved, ClassesSaved
<1>6. (StringsResolve' <=> StringsResolve) /\ (FilesResolve' <=> FilesResolve)
  BY DEF StringsResolve, FilesResolve
<1>7. ClosedAfterExit' /\ StringsBeforeRows' /\ FilesBeforeClasses'
  BY <1>6 DEF Inv, ClosedAfterExit, StringsBeforeRows, FilesBeforeClasses
<1> QED BY <1>1, <1>2, <1>3, <1>4, <1>5, <1>7 DEF Inv, UpInv

\* A stop() that wrote everything has everything in the files when it is alone
LEMMA SavedAtExit ==
  ASSUME Inv, exit, pc["stop"] = "done", pc["save"] = "idle"
  PROVE  /\ ~poolFailed => ~poolTorn /\ poolFile = pool
         /\ FilesSaved /\ ClassesSaved /\ DiskInv
<1>a. TypeOK /\ WriterInv /\ MemoryInv /\ DiskInv /\ PoolInv /\ SavedInv
  BY UpFacts DEF IsUp, exit
<1>1. ~ \E w \in Writers: pc[w] = "pool" BY DEF exit, Writers
<1>2. ~poolFailed => ~poolTorn BY <1>a, <1>1 DEF PoolInv
<1> QED BY <1>a, <1>2 DEF PoolInv, SavedInv

LEMMA ExitStep ==
  ASSUME Inv, exit
  PROVE  Inv'
<1> USE DEF exit, build
<1>a. TypeOK /\ MemoryInv /\ proc # "undefined" BY UpFacts DEF IsUp
<1>1. TypeOK'
  <2>1. ended' \in {"none", "exit", "failed", "crash"} BY DEF exit
  <2>2. poolDirty' \in BOOLEAN /\ poolTorn' \in BOOLEAN /\ poolFailed' \in BOOLEAN
        /\ hasSaveThread' \in BOOLEAN /\ filesFirst' \in BOOLEAN
    BY Zenon, <1>a DEF TypeOK
  <2>3. pool' \in Seq(Strings) /\ poolFile' \in Seq(Strings) BY <1>a DEF TypeOK
  <2>4. proc' \in {"down", "undefined"} BY DEF exit
  <2> QED BY <1>a, <2>1, <2>2, <2>3, <2>4, EmptyTables, Fresh DEF TypeOK
<1>2. WriterInv' /\ ~IsUp' BY Fresh DEF WriterInv, IsUp
<1>3. (StringsResolve' <=> StringsResolve) /\ (FilesResolve' <=> FilesResolve)
  BY DEF StringsResolve, FilesResolve
<1>4. StringsBeforeRows' /\ FilesBeforeClasses'
  BY <1>a, <1>3 DEF Inv, StringsBeforeRows, FilesBeforeClasses
<1>5. ClosedAfterExit'
  <2> SUFFICES ASSUME pc["stop"] = "done", pc["save"] = "idle"
               PROVE  FilesResolve' /\ (~poolFailed' => ~poolTorn' /\ StringsResolve')
    BY DEF ClosedAfterExit
  <2>1. FilesSaved /\ DiskInv /\ (~poolFailed => ~poolTorn /\ poolFile = pool)
    BY Zenon, SavedAtExit
  <2>2. poolFile = pool => StringsResolve' BY <1>a, <2>1, StringsOnDisk DEF DiskInv
  <2>3. FilesResolve' BY <1>a, <2>1, FilesOnDisk DEF DiskInv, FilesSaved
  <2> QED BY <2>1, <2>2, <2>3
<1> QED BY <1>1, <1>2, <1>4, <1>5 DEF Inv, UpInv

LEMMA CrashStep ==
  ASSUME Inv, crash
  PROVE  Inv'
<1> USE DEF build
<1>a. TypeOK /\ WriterInv /\ MemoryInv /\ DiskInv /\ PoolInv /\ SavedInv /\ proc # "undefined"
  BY UpFacts DEF crash
<1>b. /\ proc' = "down" /\ ended' = "crash" /\ pool' = <<>> /\ poolDirty' = FALSE
      /\ files' = Files!NoRows /\ classes' = Classes!NoRows /\ FreshWriters
      /\ hasSaveThread' = hasSaveThread /\ filesFirst' = filesFirst
  BY DEF crash, Files!Crash, Classes!Crash
<1>c. /\ filesDisk' \in Files!RowMap
      /\ \A i \in Files!Slots: filesDisk'[i] # NoRow => files[i] = filesDisk'[i]
      /\ \A i \in Files!Slots: filesDisk[i] # NoRow => filesDisk'[i] # NoRow
      /\ (\E w \in Writers: AtFiles(w)) \/ filesDisk' = filesDisk
  BY <1>a, SavedRows DEF crash, TypeOK, DiskInv, Files!Crash
<1>d. /\ classesDisk' \in Classes!RowMap
      /\ \A i \in Classes!Slots: classesDisk'[i] # NoRow => classes[i] = classesDisk'[i]
      /\ (\E w \in Writers: AtClasses(w)) \/ classesDisk' = classesDisk
  BY <1>a, SavedRows DEF crash, TypeOK, DiskInv, Classes!Crash
<1> DEFINE atPool == \E w \in Writers: pc[w] = "pool"
<1>e. /\ poolFile' \in Seq(Strings) /\ poolTorn' \in BOOLEAN /\ poolFailed' = poolFailed
      /\ atPool /\ ~poolTorn' => poolFile' = pool
      /\ ~atPool => poolFile' = poolFile /\ poolTorn' = poolTorn
  <2>0. poolFailed' = poolFailed BY DEF crash
  <2>1. CASE atPool
    <3>1. PICK n \in Len(poolFile)..Len(pool):
            poolFile' = SubSeq(pool, 1, n) /\ poolTorn' = (n < Len(pool))
      BY <2>1 DEF crash
    <3>2. pool \in Seq(Strings) /\ Len(pool) \in Nat /\ Len(poolFile) \in Nat
      BY <1>a DEF TypeOK
    <3>3. SubSeq(pool, 1, n) \in Seq(Strings) BY <3>2
    <3>4. n = Len(pool) => SubSeq(pool, 1, n) = pool BY <3>2
    <3>5. poolTorn' \in BOOLEAN BY <3>1
    <3>6. n < Len(pool) => poolTorn' BY Zenon, <3>1
    <3>7. n < Len(pool) \/ n = Len(pool) BY <3>2
    <3> QED BY <2>0, <2>1, <3>1, <3>3, <3>4, <3>5, <3>6, <3>7
  <2>2. CASE ~atPool
    <3>1. poolFile' = poolFile /\ poolTorn' = poolTorn BY <2>2 DEF crash
    <3>2. poolTorn' \in BOOLEAN BY <1>a, <3>1 DEF TypeOK
    <3> QED BY <1>a, <2>0, <2>2, <3>1, <3>2 DEF TypeOK
  <2> QED BY <2>1, <2>2
<1> HIDE DEF atPool
<1>1. TypeOK'
  <2>1. poolDirty' \in BOOLEAN /\ poolFailed' \in BOOLEAN /\ hasSaveThread' \in BOOLEAN
        /\ filesFirst' \in BOOLEAN
    BY Zenon, <1>a, <1>b, <1>e DEF TypeOK
  <2>2. pool' \in Seq(Strings) BY <1>b
  <2> QED BY <1>b, <1>c, <1>d, <1>e, <2>1, <2>2, EmptyTables, Fresh DEF TypeOK
<1>2. WriterInv' /\ ~IsUp' BY <1>b, Fresh DEF WriterInv, IsUp
<1>3. ClosedAfterExit' BY <1>b DEF ClosedAfterExit
<1>4. ASSUME ~hasSaveThread, NEW w \in Writers, AtFiles(w) \/ AtClasses(w)
      PROVE  w = "stop" /\ pc["stop"] \in {"first", "second"}
  BY <1>a, <1>4 DEF WriterInv, Writers, AtFiles, AtClasses
<1>5. StringsBeforeRows'
  <2> SUFFICES ASSUME ~hasSaveThread, ~poolTorn', ~poolFailed PROVE StringsResolve'
    BY <1>b, <1>e DEF StringsBeforeRows
  <2>1. CASE atPool
    <3>1. poolFile' = pool BY <1>e, <2>1
    <3> QED BY <1>a, <1>c, <1>d, <3>1, StringsOnDisk
  <2>2. CASE ~atPool /\ \E w \in Writers: AtFiles(w) \/ AtClasses(w)
    <3>1. ~poolTorn /\ poolFile' = poolFile BY <1>e, <2>2
    <3>2. poolFile = pool BY <1>a, <1>4, <2>2, <3>1 DEF PoolInv
    <3> QED BY <1>a, <1>c, <1>d, <3>1, <3>2, StringsOnDisk
  <2>3. CASE ~atPool /\ ~ \E w \in Writers: AtFiles(w) \/ AtClasses(w)
    <3>1. poolFile' = poolFile /\ filesDisk' = filesDisk /\ classesDisk' = classesDisk /\ ~poolTorn
      BY <1>c, <1>d, <1>e, <2>3
    <3>2. StringsResolve BY <1>a, <3>1 DEF Inv, StringsBeforeRows
    <3> QED BY <3>1, <3>2 DEF StringsResolve
  <2> QED BY <2>1, <2>2, <2>3
<1>6. FilesBeforeClasses'
  <2> SUFFICES ASSUME ~hasSaveThread, filesFirst PROVE FilesResolve'
    BY <1>b DEF FilesBeforeClasses
  <2>1. CASE \E w \in Writers: AtClasses(w)
    <3>1. pc["stop"] = "second" BY <1>4, <2>1 DEF AtClasses
    <3>2. FilesSaved BY <1>a, <3>1 DEF SavedInv
    <3>3. \A i \in Files!Slots: files[i] # NoRow => filesDisk'[i] # NoRow
      BY <1>c, <3>2 DEF FilesSaved
    <3> QED BY <1>a, <1>d, <3>3, FilesOnDisk
  <2>2. CASE ~ \E w \in Writers: AtClasses(w)
    <3>1. FilesResolve /\ classesDisk' = classesDisk BY <1>a, <1>d, <2>2 DEF Inv, FilesBeforeClasses
    <3>2. \A i \in Classes!Slots: classesDisk[i] # NoRow => classesDisk[i].file \in Files!Slots
      BY <1>a, SlotTypes
    <3> QED BY <1>c, <3>1, <3>2 DEF FilesResolve
  <2> QED BY <2>1, <2>2
<1> QED BY <1>1, <1>2, <1>3, <1>5, <1>6 DEF Inv, UpInv

LEMMA ReadStep ==
  ASSUME Inv, read
  PROVE  Inv'
<1> USE DEF read
<1>a. TypeOK /\ WriterInv /\ pc["stop"] = "idle" /\ pc["save"] = "idle" BY DEF Inv, WriterInv, IsUp
<1>b. WriterInv' BY <1>a DEF WriterInv
<1>1. CASE proc' = "open"
  <2>1. /\ StringsResolve /\ FilesResolve
        /\ pool' = poolFile /\ poolTorn' = FALSE /\ poolFailed' = FALSE /\ poolFile' = poolFile
        /\ files' = filesDisk /\ filesDisk' = filesDisk
        /\ classes' = classesDisk /\ classesDisk' = classesDisk /\ pc' = pc
        /\ poolDirty' \in (IF poolFile = <<>> THEN BOOLEAN ELSE {FALSE})
    BY <1>1 DEF Files!Open, Classes!Open
  <2>2. TypeOK'
    <3>1. poolDirty' \in BOOLEAN
      <4>1. CASE poolFile = <<>> BY <2>1, <4>1
      <4>2. CASE poolFile # <<>> BY <2>1, <4>2
      <4> QED BY <4>1, <4>2
    <3>2. poolTorn' \in BOOLEAN /\ poolFailed' \in BOOLEAN /\ hasSaveThread' \in BOOLEAN
          /\ filesFirst' \in BOOLEAN
      BY Zenon, <1>a, <2>1 DEF TypeOK
    <3> QED BY <1>a, <1>1, <2>1, <3>1, <3>2 DEF TypeOK
  <2>3. StringsResolve' /\ FilesResolve' BY <2>1 DEF StringsResolve, FilesResolve
  <2>4. MemoryInv' /\ DiskInv' BY <2>1 DEF MemoryInv, DiskInv, StringsResolve, FilesResolve
  <2>5. Len(pool') \in Nat BY <2>2 DEF TypeOK
  <2>6. PoolInv' BY <2>1, <2>5 DEF PoolInv
  <2>7. SavedInv' BY <1>a, <2>1 DEF SavedInv
  <2> QED BY <1>1, <1>b, <2>1, <2>2, <2>3, <2>4, <2>6, <2>7
      DEF Inv, UpInv, ClosedAfterExit, StringsBeforeRows, FilesBeforeClasses
<1>2. CASE proc' = "undefined"
  <2>1. UNCHANGED <<pool, poolDirty, poolTorn, poolFailed, poolFile, pc, ended, filesFirst>>
        /\ UNCHANGED <<fileVars, classVars>>
    BY <1>2
  <2>2. hasSaveThread' \in BOOLEAN OBVIOUS
  <2>3. TypeOK' BY <1>a, <1>2, <2>1, <2>2 DEF TypeOK, fileVars, classVars
  <2> QED BY <1>b, <1>2, <2>1, <2>3
      DEF Inv, UpInv, IsUp, ClosedAfterExit, StringsBeforeRows, FilesBeforeClasses
<1> QED BY <1>1, <1>2

LEMMA RebuildStep ==
  ASSUME Inv, rebuild
  PROVE  Inv'
<1> USE DEF rebuild
<1>a. TypeOK /\ pc["stop"] = "idle" /\ pc["save"] = "idle" BY DEF Inv, WriterInv, IsUp
<1>b. WriterInv' BY <1>a DEF WriterInv
<1>c. files' = Files!NoRows /\ filesDisk' = Files!NoRows
      /\ classes' = Classes!NoRows /\ classesDisk' = Classes!NoRows
  BY DEF Files!Recreate, Classes!Recreate
<1>1. TypeOK'
  <2>1. poolDirty' \in BOOLEAN /\ poolTorn' \in BOOLEAN /\ poolFailed' \in BOOLEAN
        /\ hasSaveThread' \in BOOLEAN /\ filesFirst' \in BOOLEAN
    BY Zenon, <1>a DEF TypeOK
  <2>2. pool' \in Seq(Strings) /\ poolFile' \in Seq(Strings) OBVIOUS
  <2> QED BY <1>a, <1>c, <2>1, <2>2, EmptyTables DEF TypeOK
<1>2. MemoryInv' /\ DiskInv' BY <1>c, EmptyTables DEF MemoryInv, DiskInv
<1>3. PoolInv' BY DEF PoolInv
<1>4. SavedInv' BY <1>a DEF SavedInv
<1>5. StringsResolve' /\ FilesResolve' BY <1>c, EmptyTables DEF StringsResolve, FilesResolve
<1> QED BY <1>b, <1>1, <1>2, <1>3, <1>4, <1>5
    DEF Inv, UpInv, ClosedAfterExit, StringsBeforeRows, FilesBeforeClasses

-----------------------------------------------------------------------------
(* The results *)

LEMMA InvHolds == Spec => []Inv
<1>1. Init => Inv
  <2> SUFFICES ASSUME Init PROVE Inv OBVIOUS
  <2> USE DEF Init
  <2>1. TypeOK
    <3>1. poolDirty \in BOOLEAN /\ poolTorn \in BOOLEAN /\ poolFailed \in BOOLEAN
          /\ hasSaveThread \in BOOLEAN /\ filesFirst \in BOOLEAN
      BY Zenon
    <3>2. pool \in Seq(Strings) /\ poolFile \in Seq(Strings) OBVIOUS
    <3> QED BY <3>1, <3>2, EmptyTables DEF TypeOK, Writers
  <2>2. WriterInv /\ ~IsUp BY DEF WriterInv, IsUp, Writers
  <2>3. StringsResolve /\ FilesResolve BY EmptyTables DEF StringsResolve, FilesResolve
  <2> QED BY <2>1, <2>2, <2>3
      DEF Inv, UpInv, ClosedAfterExit, StringsBeforeRows, FilesBeforeClasses
<1>2. Inv /\ [Next]_vars => Inv'
  <2> SUFFICES ASSUME Inv, [Next]_vars PROVE Inv' OBVIOUS
  <2>1. ASSUME NEW s \in Strings, getPoolString(s) PROVE Inv' BY <2>1, GetPoolStringStep
  <2>2. ASSUME NEW i \in Files!Slots, NEW s \in Strings, addFile(i, s) PROVE Inv'
    BY <2>2, AddFileStep
  <2>3. ASSUME NEW i \in Classes!Slots, NEW f \in Files!Slots, NEW s \in Strings,
               addClassFile(i, f, s)
        PROVE  Inv'
    BY <2>3, AddClassFileStep
  <2>4. ASSUME NEW w \in Writers, writePool(w) \/ poolWritten(w) \/ writeTable(w) \/ writeFails(w)
        PROVE  Inv'
    BY <2>4, WritePoolStep, PoolWrittenStep, WriteTableStep, WriteFailsStep
  <2>5. CASE stop BY <2>5, StopStep
  <2>6. CASE exit BY <2>6, ExitStep
  <2>7. CASE crash BY <2>7, CrashStep
  <2>8. CASE read BY <2>8, ReadStep
  <2>9. CASE rebuild BY <2>9, RebuildStep
  <2>10. CASE UNCHANGED vars
    <3> USE <2>10 DEF vars, build
    <3>1. TypeOK' BY DEF Inv, TypeOK
    <3>2. WriterInv' /\ (IsUp' <=> IsUp) BY DEF Inv, WriterInv, IsUp
    <3>3. ClosedAfterExit' /\ StringsBeforeRows' /\ FilesBeforeClasses' BY FilesUntouched
    <3>4. MemoryInv /\ DiskInv => MemoryInv' /\ DiskInv' BY DEF MemoryInv, DiskInv
    <3>5. PoolInv => PoolInv' BY DEF PoolInv
    <3>6. SavedInv => SavedInv' BY DEF SavedInv, FilesSaved, ClassesSaved
    <3> QED BY <3>1, <3>2, <3>3, <3>4, <3>5, <3>6 DEF Inv, UpInv
  <2> QED BY <2>1, <2>2, <2>3, <2>4, <2>5, <2>6, <2>7, <2>8, <2>9, <2>10 DEF Next
<1> QED BY <1>1, <1>2, PTL DEF Spec

\* After a stop() whose writes succeeded no row in the files refers to a row that is
\* not there, nor, if the pool was written, to a string that is not there, although
\* Database::write() of the save thread may have run at the same time (one that still
\* runs when the tables are destroyed leaves the process undefined)
THEOREM FilesAreClosed == Spec => []ClosedAfterExit
BY InvHolds, PTL DEF Inv

\* Without a save thread no row is in its file before the strings it names, since
\* Database::write() writes the pool first; unless StringPool::write() failed, which
\* it does not tell
THEOREM StringsComeFirst == Spec => []StringsBeforeRows
BY InvHolds, PTL DEF Inv

\* When the hash map yields Files first, no class row is in its file before its
\* file row (the loop of Database::write() ends with the first failure)
THEOREM FilesComeFirst == Spec => []FilesBeforeClasses
BY InvHolds, PTL DEF Inv

\* The pool file is the beginning of the pool in memory, so that an offset means the
\* same in both
THEOREM OffsetsAgree == Spec => []PoolFileIsPrefix
<1>1. Inv => PoolFileIsPrefix
  <2> SUFFICES ASSUME Inv, IsUp
               PROVE  Len(poolFile) <= Len(pool) /\ poolFile = SubSeq(pool, 1, Len(poolFile))
    BY DEF PoolFileIsPrefix
  <2>1. pool \in Seq(Strings) /\ poolFile \in Seq(Strings) BY UpFacts DEF TypeOK
  <2>2. Len(poolFile) <= Len(pool) /\ \A i \in 1..Len(poolFile): poolFile[i] = pool[i]
    BY UpFacts DEF PoolInv
  <2>3. Len(poolFile) \in Nat /\ Len(pool) \in Nat BY <2>1
  <2>4. /\ SubSeq(pool, 1, Len(poolFile)) \in Seq(Strings)
        /\ Len(SubSeq(pool, 1, Len(poolFile))) = Len(poolFile)
        /\ \A i \in 1..Len(poolFile): SubSeq(pool, 1, Len(poolFile))[i] = pool[i]
    BY <2>1, <2>2, <2>3
  <2>5. poolFile = SubSeq(pool, 1, Len(poolFile)) BY <2>1, <2>2, <2>4, SeqEqual
  <2> QED BY <2>2, <2>5
<1> QED BY <1>1, InvHolds, PTL

\* A program that ends after a stop() whose writes succeeded leaves everything that
\* was in memory in the files, if the save thread is through with its own write()
THEOREM NothingIsLost == Spec => ExitSavesAll
<1>1. Inv /\ [Next]_vars => [ExitSaves]_vars
  <2> SUFFICES ASSUME Inv, exit, pc["stop"] = "done", proc' = "down"
               PROVE  Files!Close /\ Classes!Close /\ (poolFailed \/ poolFile = pool)
    BY DEF ExitSaves
  <2>0. pc["save"] = "idle" BY DEF exit
  <2>1. FilesSaved /\ ClassesSaved /\ DiskInv /\ (poolFailed \/ poolFile = pool)
    BY Zenon, <2>0, SavedAtExit
  <2>2. IsUp /\ ~IsUp' BY DEF exit, IsUp
  <2>3. Files!Close
    BY <2>1, <2>2 DEF exit, Files!Close, Files!KeptIn, Self, FilesSaved, DiskInv
  <2>4. Classes!Close
    BY <2>1, <2>2 DEF exit, Classes!Close, Classes!KeptIn, Self, ClassesSaved, DiskInv
  <2> QED BY <2>1, <2>3, <2>4
<1> QED BY <1>1, InvHolds, PTL DEF Spec, ExitSavesAll

-----------------------------------------------------------------------------
(* Lists of rows: arithmetic of the chunks *)

\* Integer division rounds down
LEMMA DivBounds ==
  ASSUME NEW a \in Nat, NEW b \in Nat \ {0}
  PROVE  a \div b \in Nat /\ b * (a \div b) <= a /\ a < b * (a \div b) + b
  BY SMT

\* A common factor can be cancelled
LEMMA CancelFactor ==
  ASSUME NEW a \in Nat, NEW b \in Nat, NEW c \in Nat, a * c < b * c
  PROVE  a < b
  BY SMT

\* Chunks of equal size do not overlap
LEMMA NextMultiple ==
  ASSUME NEW a \in Nat, NEW b \in Nat, NEW c \in Nat, a < b
  PROVE  a * c + c <= b * c
  BY SMT

\* There is always a thread
LEMMA ThreadsPositive ==
  ASSUME NEW n \in Nat, NEW hw \in Nat
  PROVE  ActiveThreads(n, hw) \in Nat \ {0}
<1>1. (hw * 4) \div 5 \in Nat
  BY DivBounds
<1>2. ThreadCount(hw) \in Nat \ {0}
  BY <1>1 DEF ThreadCount, LargerOf
<1> QED
  BY <1>2 DEF ActiveThreads, SmallerOf

\* The chunks of all threads together are as large as the table
LEMMA ChunksSuffice ==
  ASSUME NEW n \in Nat, NEW hw \in Nat
  PROVE  /\ ChunkSize(n, hw) \in Nat
         /\ n <= ActiveThreads(n, hw) * ChunkSize(n, hw)
<1> DEFINE t == ActiveThreads(n, hw)
<1>1. t \in Nat \ {0}
  BY ThreadsPositive
<1>2. n + t - 1 \in Nat
  BY <1>1
<1> HIDE DEF t
<1> DEFINE q == (n + t - 1) \div t
<1>3. q \in Nat /\ t * q <= n + t - 1 /\ n + t - 1 < t * q + t
  BY <1>1, <1>2, DivBounds
<1>4. t * q \in Nat
  BY <1>1, <1>3
<1> HIDE DEF q
<1>5. n <= t * q
  BY <1>1, <1>3, <1>4
<1>6. q = ChunkSize(n, hw)
  BY DEF q, t, ChunkSize
<1> QED
  BY <1>3, <1>5, <1>6 DEF t

-----------------------------------------------------------------------------
(* The inductive invariant *)

ListTypeInv ==
  /\ size \in Nat /\ hardware \in Nat
  /\ deleted \subseteq Ids /\ wanted \subseteq Ids
  /\ phase \in {"idle", "scanning", "printed"}
  /\ phase # "idle" => /\ index \in [Chunks -> Nat]
                       /\ output \in [Chunks -> SUBSET Nat]

\* What a task has put out are the rows it has passed that are selected
TaskInv ==
  phase # "idle" =>
    \A c \in Chunks:
      /\ Start(c) <= index[c]
      /\ index[c] > Start(c) => index[c] <= End(c)
      /\ \A r \in Nat: r \in output[c] <=> Start(c) <= r /\ r < index[c] /\ Passes(r)

ListInv ==
  /\ ListTypeInv
  /\ TaskInv
  /\ phase = "printed" => \A c \in Chunks: index[c] >= End(c)

\* Chunks start and end at numbers
LEMMA ChunkTypes ==
  ASSUME size \in Nat, hardware \in Nat, NEW c \in Chunks
  PROVE  c \in Nat /\ Start(c) \in Nat /\ End(c) \in Nat /\ End(c) <= size
<1>1. ActiveThreads(size, hardware) \in Nat /\ ChunkSize(size, hardware) \in Nat
  BY ThreadsPositive, ChunksSuffice
<1>2. c \in Nat
  BY <1>1 DEF Chunks
<1>3. Start(c) \in Nat
  BY <1>1, <1>2 DEF Start
<1> QED
  BY <1>1, <1>2, <1>3 DEF End, SmallerOf

\* Every row lies in a chunk
LEMMA RowInChunk ==
  ASSUME size \in Nat, hardware \in Nat, NEW r \in Ids
  PROVE  \E c \in Chunks: Start(c) <= r /\ r < End(c)
<1> DEFINE t == ActiveThreads(size, hardware)
           k == ChunkSize(size, hardware)
<1>1. t \in Nat \ {0} /\ k \in Nat /\ size <= t * k
  BY ThreadsPositive, ChunksSuffice
<1>2. r \in Nat /\ r < size
  BY DEF Ids
<1>3. k # 0
  BY <1>1, <1>2
<1> HIDE DEF t, k
<1> DEFINE c == r \div k
<1>4. c \in Nat /\ k * c <= r /\ r < k * c + k
  BY <1>1, <1>2, <1>3, DivBounds
<1> HIDE DEF c
<1>5. c * k = k * c /\ c * k \in Nat /\ t * k \in Nat
  BY <1>1, <1>4
<1>6. c * k < t * k
  BY <1>1, <1>2, <1>4, <1>5
<1>7. c < t
  BY <1>1, <1>4, <1>6, CancelFactor
<1>8. c \in Chunks
  BY <1>1, <1>4, <1>7 DEF Chunks, t
<1>9. Start(c) = c * k
  BY DEF Start, k
<1>10. End(c) = SmallerOf(c * k + k, size)
  BY <1>9 DEF End, k
<1>11. Start(c) <= r /\ r < End(c)
  BY <1>1, <1>2, <1>4, <1>5, <1>9, <1>10 DEF SmallerOf
<1> QED
  BY <1>8, <1>11

\* A chunk ends where a later one starts, or before
LEMMA ChunksApart ==
  ASSUME size \in Nat, hardware \in Nat, NEW c \in Chunks, NEW d \in Chunks, c < d
  PROVE  End(c) <= Start(d)
<1> DEFINE k == ChunkSize(size, hardware)
<1>1. k \in Nat
  BY ChunksSuffice
<1>2. c \in Nat /\ d \in Nat
  BY ChunkTypes
<1> HIDE DEF k
<1>3. c * k + k <= d * k
  BY <1>1, <1>2, NextMultiple
<1>4. c * k \in Nat /\ d * k \in Nat
  BY <1>1, <1>2
<1>5. End(c) = SmallerOf(c * k + k, size) /\ Start(d) = d * k
  BY DEF End, Start, k
<1> QED
  BY <1>1, <1>3, <1>4, <1>5 DEF SmallerOf

-----------------------------------------------------------------------------

LEMMA InitInv == ListInit => ListInv
  BY ListAssumption DEF ListInit, ListInv, ListTypeInv, TaskInv, Ids

LEMMA ListStep == ListInv /\ list => ListInv'
<1> SUFFICES ASSUME ListInv, list
             PROVE  ListInv'
  OBVIOUS
<1> USE DEF ListInv, ListTypeInv, list
<1>1. Chunks' = Chunks /\ Ids' = Ids
  BY DEF Chunks, Ids
<1>2. \A c \in Chunks: Start(c) \in Nat /\ Start(c)' = Start(c) /\ End(c)' = End(c)
  BY ChunkTypes DEF Start, End
<1>3. ListTypeInv'
  BY <1>1, <1>2
<1>4. \A c \in Chunks: index'[c] = Start(c) /\ output'[c] = {}
  OBVIOUS
<1>5. TaskInv'
  BY <1>1, <1>2, <1>4 DEF TaskInv
<1> QED
  BY <1>3, <1>5

LEMMA ScanStep == ASSUME ListInv, NEW c \in Chunks, scanRow(c) PROVE ListInv'
<1> USE DEF ListInv, ListTypeInv, scanRow
<1>1. Chunks' = Chunks /\ Ids' = Ids
  BY DEF Chunks, Ids
<1>2. \A d \in Chunks: /\ Start(d) \in Nat /\ End(d) \in Nat
                       /\ Start(d)' = Start(d) /\ End(d)' = End(d)
  BY ChunkTypes DEF Start, End
<1>3. \A r \in Nat: Passes(r)' <=> Passes(r)
  BY DEF Passes
<1>4. index[c] \in Nat /\ index[c] < End(c)
  OBVIOUS
<1>5. index' \in [Chunks -> Nat] /\ output' \in [Chunks -> SUBSET Nat]
  BY <1>4
<1>6. ListTypeInv'
  BY <1>1, <1>5
<1>7. ASSUME NEW d \in Chunks
      PROVE  /\ Start(d) <= index'[d]
             /\ index'[d] > Start(d) => index'[d] <= End(d)
             /\ \A r \in Nat: r \in output'[d] <=> Start(d) <= r /\ r < index'[d] /\ Passes(r)
  <2>1. CASE d = c
    <3>1. index'[d] = index[c] + 1
      BY <2>1
    <3>2. \A r \in Nat: r \in output'[d] <=> r \in output[c] \/ (r = index[c] /\ Passes(r))
      BY <2>1, <1>4
    <3>3. /\ Start(c) <= index[c]
          /\ \A r \in Nat: r \in output[c] <=> Start(c) <= r /\ r < index[c] /\ Passes(r)
      BY DEF TaskInv
    <3> QED
      BY <1>2, <1>4, <2>1, <3>1, <3>2, <3>3
  <2>2. CASE d # c
    <3>1. index'[d] = index[d] /\ output'[d] = output[d]
      BY <2>2
    <3> QED
      BY <3>1 DEF TaskInv
  <2> QED
    BY <2>1, <2>2
<1>8. TaskInv'
  BY <1>1, <1>2, <1>3, <1>7 DEF TaskInv
<1> QED
  BY <1>6, <1>8

LEMMA PrintStep == ListInv /\ print => ListInv'
<1> SUFFICES ASSUME ListInv, print
             PROVE  ListInv'
  OBVIOUS
<1> USE DEF ListInv, ListTypeInv, print
<1>1. Chunks' = Chunks /\ Ids' = Ids
  BY DEF Chunks, Ids
<1>2. \A d \in Chunks: Start(d)' = Start(d) /\ End(d)' = End(d)
  BY DEF Start, End
<1>3. \A r: Passes(r)' <=> Passes(r)
  BY DEF Passes
<1>4. ListTypeInv'
  BY <1>1
<1>5. TaskInv'
  BY <1>1, <1>2, <1>3 DEF TaskInv
<1> QED
  BY <1>1, <1>2, <1>4, <1>5

LEMMA StutterStep == ListInv /\ UNCHANGED listVars => ListInv'
  BY DEF listVars, ListInv, ListTypeInv, TaskInv, Chunks, Ids, Start, End, Passes

\* The invariant holds in every state of every list
THEOREM ListInvariance == ListSpec => []ListInv
<1>1. ListInit => ListInv
  BY InitInv
<1>2. ListInv /\ [ListNext]_listVars => ListInv'
  BY ListStep, ScanStep, PrintStep, StutterStep DEF ListNext
<1> QED
  BY <1>1, <1>2, PTL DEF ListSpec

-----------------------------------------------------------------------------

\* For every number of rows and threads, exactly the selected rows are printed
THEOREM Selected == ListSpec => []ListsSelectedRows
<1>1. ListInv => ListsSelectedRows
  <2> SUFFICES ASSUME ListInv, phase = "printed"
               PROVE  {row \in Ids: \E c \in Chunks: row \in output[c]} = wanted \ deleted
    BY DEF ListsSelectedRows
  <2> USE DEF ListInv, ListTypeInv
  <2>1. ASSUME NEW r \in Ids, NEW c \in Chunks, r \in output[c]
        PROVE  r \in wanted \ deleted
    <3>1. r \in Nat
      BY DEF Ids
    <3> QED
      BY <2>1, <3>1 DEF TaskInv, Passes
  <2>2. ASSUME NEW r \in wanted \ deleted
        PROVE  r \in Ids /\ \E c \in Chunks: r \in output[c]
    <3>1. r \in Ids /\ r \in Nat
      BY DEF Ids
    <3>2. PICK c \in Chunks: Start(c) <= r /\ r < End(c)
      BY <3>1, RowInChunk
    <3>3. index[c] >= End(c) /\ index[c] \in Nat /\ Start(c) \in Nat /\ End(c) \in Nat
      BY ChunkTypes
    <3>4. r < index[c]
      BY <3>1, <3>2, <3>3
    <3>5. Passes(r)
      BY <2>2 DEF Passes
    <3> QED
      BY <3>1, <3>2, <3>4, <3>5 DEF TaskInv
  <2> QED
    BY <2>1, <2>2
<1> QED
  BY <1>1, ListInvariance, PTL

\* For every number of rows and threads, each row is printed once, in order
THEOREM Ordered == ListSpec => []InOrder
<1>1. ListInv => InOrder
  <2> SUFFICES ASSUME ListInv, phase # "idle",
                      NEW c \in Chunks, NEW d \in Chunks, c < d,
                      NEW r \in output[c], NEW q \in output[d]
               PROVE  r < q
    BY DEF InOrder
  <2> USE DEF ListInv, ListTypeInv
  <2>1. r \in Nat /\ q \in Nat
    OBVIOUS
  <2>2. /\ Start(c) <= r /\ r < index[c] /\ Start(d) <= q
        /\ index[c] > Start(c) => index[c] <= End(c)
    BY <2>1 DEF TaskInv
  <2>3. /\ Start(c) \in Nat /\ End(c) \in Nat /\ Start(d) \in Nat
        /\ index[c] \in Nat /\ End(c) <= Start(d)
    BY ChunkTypes, ChunksApart
  <2> QED
    BY <2>1, <2>2, <2>3
<1> QED
  BY <1>1, ListInvariance, PTL

\* For every number of rows and threads, the list is exact: both of these
THEOREM ListExact == ListSpec => []ListIsExact
<1>1. ListsSelectedRows /\ InOrder => ListIsExact
  BY DEF ListIsExact
<1> QED
  BY <1>1, Selected, Ordered, PTL

=============================================================================
