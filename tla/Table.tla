------------------------------- MODULE Table -------------------------------
(***************************************************************************)
(* One table of the embedded database (infrastructure/db/table/Table.cpp): *)
(* the rows in memory (_autoIncrementIndex, _rows), the dirty marks that   *)
(* say which rows the next save writes, and the table file.  Worker        *)
(* threads change rows under _mutex; a saver (the save thread, or the      *)
(* thread that calls Database::stop) runs write(), which looks at the file *)
(* BEFORE it takes the mutex.  The process can die at any point and the    *)
(* next one reads the file back.                                           *)
(*                                                                         *)
(* An operator whose name ends in _Bug is the one below it with a          *)
(* plausible mistake; the properties have to notice it.                    *)
(***************************************************************************)
EXTENDS Naturals, FiniteSets

CONSTANTS
    Keys,             \* what getKey() returns; ZeroKey is that of a zeroed row
    ZeroKey,
    Vals,             \* the columns that are not part of the key
    ZeroVal,
    MaxRows,          \* bound on the number of rows the clients add
    Savers,           \* threads that call write()
    StopSaver,        \* the one that does so from Database::stop()
    NoSaver,
    NoRow,            \* past the end of the index or of the file
    AssertsOn,        \* assert() is compiled in (bazel's default fastbuild)
    ReAdds,           \* clients call add() with a key the table already has
    IOErrors          \* fopen, fseek, fwrite and fclose may fail

ASSUME ConstantsAssumption ==
    /\ MaxRows \in Nat
    /\ ZeroKey \in Keys /\ ZeroVal \in Vals
    /\ StopSaver \in Savers /\ NoSaver \notin Savers
    /\ NoRow \notin [key : Keys, val : Vals, deleted : BOOLEAN]
    /\ AssertsOn \in BOOLEAN /\ ReAdds \in BOOLEAN
    /\ IOErrors \in BOOLEAN

VARIABLES
    proc,           \* "down", "open", "stopping", "refused", "aborted" or "undefined"
    index,          \* _autoIncrementIndex: the row with each id
    size,           \* its length, and the next id
    rows,           \* _rows: the id a key maps to, or NoId
    isDirty,        \* _isDirty
    dirtyRows,      \* the ids of _dirtyRows
    touched,        \* rows a task edited without the mutex, not yet marked
    unmarked,       \* rows updated under a wrong id: changed, and not marked
    victims,        \* rows archived by a worker that it has still to delete
    lock,           \* the saver inside write()'s critical section
    pc,             \* where each saver is in write()
    fileExists,     \* what it found before it took the mutex
    disk,           \* the rows of the table file
    diskState,      \* "absent", "torn" (no complete header) or "valid"
    emptied         \* history: a saver emptied a file that was there by then

mem == <<index, size, rows, isDirty, dirtyRows, touched, unmarked, victims>>
file == <<disk, diskState>>
saver == <<lock, pc, fileExists>>
vars == <<proc, mem, saver, file, emptied>>

Row == [key : Keys, val : Vals, deleted : BOOLEAN]
Ids == 0..(MaxRows - 1)
NoId == MaxRows
ZeroRow == [key |-> ZeroKey, val |-> ZeroVal, deleted |-> FALSE]
Empty == [i \in Ids |-> NoRow]
Up == {"open", "stopping"}

TypeOK ==
    /\ proc \in {"down", "open", "stopping", "refused", "aborted", "undefined"}
    /\ index \in [Ids -> Row \cup {NoRow}]
    /\ size \in 0..MaxRows
    /\ rows \in [Keys -> 0..MaxRows]
    /\ isDirty \in BOOLEAN
    /\ dirtyRows \subseteq Ids
    /\ touched \subseteq Ids
    /\ unmarked \subseteq Ids
    /\ victims \subseteq Ids
    /\ lock \in Savers \cup {NoSaver}
    /\ pc \in [Savers -> {"idle", "checked", "writing", "done"}]
    /\ fileExists \in [Savers -> BOOLEAN]
    /\ disk \in [Ids -> Row \cup {NoRow}]
    /\ diskState \in {"absent", "torn", "valid"}
    /\ emptied \in BOOLEAN

(* A new process: nothing in memory, no saver in write().                  *)
FreshMemory ==
    /\ index' = Empty
    /\ size' = 0
    /\ rows' = [k \in Keys |-> NoId]
    /\ isDirty' = FALSE
    /\ dirtyRows' = {} /\ touched' = {} /\ unmarked' = {} /\ victims' = {}

FreshSavers ==
    /\ lock' = NoSaver
    /\ pc' = [s \in Savers |-> "idle"]
    /\ fileExists' = [s \in Savers |-> FALSE]

Init ==
    /\ proc = "down"
    /\ index = Empty /\ size = 0 /\ rows = [k \in Keys |-> NoId]
    /\ isDirty = FALSE
    /\ dirtyRows = {} /\ touched = {} /\ unmarked = {} /\ victims = {}
    /\ lock = NoSaver
    /\ pc = [s \in Savers |-> "idle"]
    /\ fileExists = [s \in Savers |-> FALSE]
    /\ disk = Empty /\ diskState = "absent" /\ emptied = FALSE

-----------------------------------------------------------------------------
(* What worker threads do to the rows.  Every operation runs under _mutex, *)
(* so none overlaps a saver that is writing, except Touch.                 *)

Locked == proc = "open" /\ lock = NoSaver

(* assert() stops the process; what was in memory is gone.                 *)
Abort ==
    /\ proc' = "aborted"
    /\ FreshMemory /\ FreshSavers
    /\ UNCHANGED <<file, emptied>>

BeingReplaced(k) == \E i \in victims : index[i].key = k

internalAdd(row) ==
    /\ index' = [index EXCEPT ![size] = row]
    /\ rows' = [rows EXCEPT ![row.key] = size]
    /\ size' = size + 1

add(k, v) ==
    /\ Locked /\ size < MaxRows /\ ~BeingReplaced(k)
    /\ rows[k] # NoId => ReAdds
    /\ IF rows[k] # NoId /\ AssertsOn
       THEN Abort
       ELSE /\ internalAdd([key |-> k, val |-> v, deleted |-> FALSE])
            /\ isDirty' = TRUE
            /\ dirtyRows' = dirtyRows \cup {size}
            /\ UNCHANGED <<proc, touched, unmarked, victims, saver, file,
                           emptied>>

(* The row is copied over the stored one and freed, and its id is read     *)
(* after that: it may be what the allocator wrote there, which is no row's *)
(* id and marks nothing that writeRows() looks at.                         *)
internalUpdate(k, v) ==
    index' = [index EXCEPT ![rows[k]] = [key |-> k, val |-> v, deleted |-> FALSE]]

addOrUpdate(k, v) ==
    /\ Locked /\ ~BeingReplaced(k)
    /\ IF rows[k] # NoId
       THEN /\ internalUpdate(k, v)
            /\ \/ dirtyRows' = dirtyRows \cup {rows[k]} /\ UNCHANGED unmarked
               \/ unmarked' = unmarked \cup {rows[k]} /\ UNCHANGED dirtyRows
            /\ UNCHANGED <<rows, size>>
       ELSE /\ size < MaxRows
            /\ internalAdd([key |-> k, val |-> v, deleted |-> FALSE])
            /\ dirtyRows' = dirtyRows \cup {size}
            /\ UNCHANGED unmarked
    /\ isDirty' = TRUE
    /\ UNCHANGED <<proc, touched, victims, saver, file, emptied>>

updateInPlace_Bug(i, v) ==
    /\ Locked /\ i < size
    /\ index' = [index EXCEPT ![i].val = v]
    /\ isDirty' = TRUE
    /\ UNCHANGED <<proc, size, rows, dirtyRows, touched, unmarked, victims, saver, file,
                   emptied>>

(* updateInPlace(): the caller's function edits the row under the mutex.   *)
updateInPlace(i, v) ==
    /\ Locked /\ i < size
    /\ index' = [index EXCEPT ![i].val = v]
    /\ isDirty' = TRUE
    /\ dirtyRows' = dirtyRows \cup {i}
    /\ UNCHANGED <<proc, size, rows, touched, unmarked, victims, saver, file,
                   emptied>>

(* A jar task edits its file row with no lock held (classfileCount, then   *)
(* digest, time and size) and calls update() with that same row, which     *)
(* only marks it.                                                          *)
Touch(i, v) ==
    /\ proc = "open" /\ i < size
    /\ index' = [index EXCEPT ![i].val = v]
    /\ touched' = touched \cup {i}
    /\ UNCHANGED <<proc, size, rows, isDirty, dirtyRows, unmarked, victims, saver, file,
                   emptied>>

update(i) ==
    /\ Locked /\ i \in touched
    /\ isDirty' = TRUE
    /\ dirtyRows' = dirtyRows \cup {i}
    /\ touched' = touched \ {i}
    /\ UNCHANGED <<proc, index, size, rows, unmarked, victims, saver, file,
                   emptied>>

(* Replacing a class: archiveRow() takes the row out of the key map, then  *)
(* deleteRow() flags it, then add() stores the new one; three critical     *)
(* sections of one worker.                                                 *)
archiveRow(k) ==
    /\ Locked /\ rows[k] # NoId /\ ~BeingReplaced(k)
    /\ victims' = victims \cup {rows[k]}
    /\ rows' = [rows EXCEPT ![k] = NoId]
    /\ UNCHANGED <<proc, index, size, isDirty, dirtyRows, touched, unmarked, saver, file,
                   emptied>>

deleteRow_Bug(i) ==
    /\ Locked /\ i \in victims
    /\ index' = [index EXCEPT ![i].deleted = TRUE]
    /\ isDirty' = TRUE
    /\ victims' = victims \ {i}
    /\ UNCHANGED <<proc, size, rows, dirtyRows, touched, unmarked, saver, file,
                   emptied>>

deleteRow(i) ==
    /\ Locked /\ i \in victims
    /\ index' = [index EXCEPT ![i].deleted = TRUE]
    /\ isDirty' = TRUE
    /\ dirtyRows' = dirtyRows \cup {i}
    /\ victims' = victims \ {i}
    /\ UNCHANGED <<proc, size, rows, touched, unmarked, saver, file, emptied>>

-----------------------------------------------------------------------------
(* write(), by the savers.  After stop() is called no worker is running.   *)

MaySave(s) == IF s = StopSaver THEN proc = "stopping" ELSE proc \in Up
AfterWrite(s) == IF s = StopSaver THEN "done" ELSE "idle"

stop ==
    /\ proc = "open" /\ touched = {} /\ victims = {}
    /\ proc' = "stopping"
    /\ UNCHANGED <<mem, saver, file, emptied>>

writeCheck_Bug(s) ==
    /\ MaySave(s) /\ pc[s] = "idle"
    /\ IF ~isDirty \/ diskState # "absent"
       THEN pc' = [pc EXCEPT ![s] = AfterWrite(s)] /\ UNCHANGED fileExists
       ELSE /\ pc' = [pc EXCEPT ![s] = "checked"]
            /\ fileExists' = [fileExists EXCEPT ![s] = diskState # "absent"]
    /\ UNCHANGED <<proc, mem, lock, file, emptied>>

(* The file and _isDirty are looked at with no lock held.                  *)
writeCheck(s) ==
    /\ MaySave(s) /\ pc[s] = "idle"
    /\ IF ~isDirty /\ diskState # "absent"
       THEN pc' = [pc EXCEPT ![s] = AfterWrite(s)] /\ UNCHANGED fileExists
       ELSE /\ pc' = [pc EXCEPT ![s] = "checked"]
            /\ fileExists' = [fileExists EXCEPT ![s] = diskState # "absent"]
    /\ UNCHANGED <<proc, mem, lock, file, emptied>>

writeOpen_Bug(s) ==
    /\ proc \in Up /\ pc[s] = "checked" /\ lock = NoSaver
    /\ lock' = s
    /\ pc' = [pc EXCEPT ![s] = "writing"]
    /\ disk' = Empty /\ diskState' = "torn"
    /\ UNCHANGED <<proc, mem, fileExists, emptied>>

(* Under the mutex: "rb+" if the file was there, "wb+" (which empties it)  *)
(* if it was not when the saver looked: two savers that both found none    *)
(* both empty it, and the second writes only what is dirty by then.        *)
writeOpen(s) ==
    /\ proc \in Up /\ pc[s] = "checked" /\ lock = NoSaver
    /\ lock' = s
    /\ pc' = [pc EXCEPT ![s] = "writing"]
    /\ IF fileExists[s]
       THEN UNCHANGED file
       ELSE disk' = Empty /\ diskState' = "torn"
    /\ emptied' = (emptied \/ (~fileExists[s] /\ diskState # "absent"))
    /\ UNCHANGED <<proc, mem, fileExists>>

WrittenUpTo_Bug(upto) ==
    LET written == {i \in dirtyRows : i < size /\ i < upto}
        Lands(j, i) == i = Cardinality({m \in written : m < j})
    IN  [i \in Ids |-> IF \E j \in written : Lands(j, i)
                       THEN index[CHOOSE j \in written : Lands(j, i)]
                       ELSE disk[i]]

(* The file once the dirty rows with ids below upto are in it: a row past  *)
(* the end of the file leaves zeroed rows in the gap.                      *)
WrittenUpTo(upto) ==
    LET written == {i \in dirtyRows : i < size /\ i < upto}
    IN  [i \in Ids |->
            IF i \in written THEN index[i]
            ELSE IF disk[i] = NoRow /\ \E j \in written : i < j THEN ZeroRow
            ELSE disk[i]]

(* Header, dirty rows in id order, fclose().  An error ends the loop over  *)
(* the rows, but the marks are cleared all the same.                       *)
writeRows(s) ==
    /\ proc \in Up /\ lock = s /\ pc[s] = "writing"
    /\ \E upto \in (IF IOErrors THEN 0..MaxRows ELSE {MaxRows}) :
          disk' = WrittenUpTo(upto)
    /\ diskState' \in (IF fileExists[s] THEN {diskState}
                       ELSE IF IOErrors THEN {diskState, "valid"} ELSE {"valid"})
    /\ dirtyRows' = {}
    /\ unmarked' = unmarked \ dirtyRows
    /\ isDirty' \in (IF IOErrors THEN {FALSE, isDirty} ELSE {FALSE})
    /\ lock' = NoSaver
    /\ pc' = [pc EXCEPT ![s] = AfterWrite(s)]
    /\ UNCHANGED <<proc, index, size, rows, touched, victims, fileExists,
                   emptied>>

(* fopen() or the fseek() to the start fails: write() returns false early. *)
(* (The fseek() of writeRows() past the header fails only if the header    *)
(* cannot be flushed; that is a failure of writeRows.)                     *)
writeFails(s) ==
    /\ IOErrors /\ proc \in Up
    /\ \/ pc[s] = "checked" /\ lock = NoSaver
       \/ pc[s] = "writing"
    /\ lock' = NoSaver
    /\ pc' = [pc EXCEPT ![s] = AfterWrite(s)]
    /\ UNCHANGED <<proc, mem, fileExists, file, emptied>>

-----------------------------------------------------------------------------
(* The life of the process.                                                *)

(* The end of the program after stop().  The tables, which belong to the   *)
(* derived database, are destroyed before ~Database joins the save thread: *)
(* a saver that is still in write() goes on with freed rows, and the file  *)
(* it leaves may hold anything.                                            *)
OthersAreIdle == \A s \in Savers \ {StopSaver} : pc[s] = "idle"

exit ==
    /\ proc = "stopping" /\ pc[StopSaver] = "done"
    /\ proc' = IF OthersAreIdle THEN "down" ELSE "undefined"
    /\ FreshMemory /\ FreshSavers
    /\ UNCHANGED <<file, emptied>>

(* The process dies.  Of a write in progress the file keeps some prefix.   *)
crash ==
    /\ proc \in Up
    /\ proc' = "down"
    /\ FreshMemory /\ FreshSavers
    /\ IF lock = NoSaver
       THEN UNCHANGED file
       ELSE \E upto \in 0..MaxRows :
               /\ disk' = WrittenUpTo(upto)
               /\ diskState' \in (IF fileExists[lock] THEN {diskState}
                                  ELSE {diskState, "valid"})
               /\ ~fileExists[lock] /\ upto > 0 => diskState' = "valid"
    /\ UNCHANGED emptied

IsLastWithKey_Bug(k, i) ==
    IF \A j \in Ids : disk[j] # NoRow => disk[j].key # k
    THEN i = NoId
    ELSE /\ i \in Ids /\ disk[i] # NoRow /\ disk[i].key = k
         /\ \A j \in Ids : disk[j] # NoRow /\ disk[j].key = k => i <= j

(* readRows(): the rows in file order, each entered under its key, deleted *)
(* or not, so that the last one with a key is the one the key finds.       *)
IsLastWithKey(k, i) ==
    IF \A j \in Ids : disk[j] # NoRow => disk[j].key # k
    THEN i = NoId
    ELSE /\ i \in Ids /\ disk[i] # NoRow /\ disk[i].key = k
         /\ \A j \in Ids : disk[j] # NoRow /\ disk[j].key = k => j <= i

SameKeyTwice ==
    \E i, j \in Ids : /\ i # j /\ disk[i] # NoRow /\ disk[j] # NoRow
                      /\ disk[i].key = disk[j].key

readRows ==
    /\ index' = disk
    /\ \E n \in 0..MaxRows :
          size' = n /\ \A i \in Ids : disk[i] # NoRow <=> i < n
    /\ \E r \in [Keys -> 0..MaxRows] :
          rows' = r /\ \A k \in Keys : IsLastWithKey(k, r[k])
    /\ isDirty' = FALSE
    /\ dirtyRows' = {} /\ touched' = {} /\ unmarked' = {} /\ victims' = {}

read ==
    /\ proc \in {"down", "refused", "aborted"}
    /\ emptied' = FALSE
    /\ \/ /\ diskState = "absent"
          /\ proc' = "open" /\ FreshMemory
       \/ /\ diskState = "torn"
          /\ proc' = "refused" /\ FreshMemory
       \/ /\ diskState = "valid" /\ SameKeyTwice /\ AssertsOn
          /\ proc' = "aborted" /\ FreshMemory
       \/ /\ diskState = "valid" /\ ~(SameKeyTwice /\ AssertsOn)
          /\ proc' = "open" /\ readRows
    /\ FreshSavers
    /\ UNCHANGED file

(* --rebuild: backup() renames the file away and clean() finds none.       *)
rebuild ==
    /\ proc \notin Up
    /\ proc' = "open"
    /\ disk' = Empty /\ diskState' = "absent" /\ emptied' = FALSE
    /\ FreshMemory /\ FreshSavers

Next ==
    \/ \E k \in Keys \ {ZeroKey}, v \in Vals : add(k, v) \/ addOrUpdate(k, v)
    \/ \E k \in Keys \ {ZeroKey} : archiveRow(k)
    \/ \E i \in Ids, v \in Vals : updateInPlace(i, v) \/ Touch(i, v)
    \/ \E i \in Ids : update(i) \/ deleteRow(i)
    \/ \E s \in Savers : writeCheck(s) \/ writeOpen(s) \/ writeRows(s) \/ writeFails(s)
    \/ stop \/ exit \/ crash \/ read \/ rebuild

Spec == Init /\ [][Next]_vars

-----------------------------------------------------------------------------
(* A row without a dirty mark is in the file as it is in memory: what the  *)
(* incremental writeRows() relies on when it skips it.  The exceptions are *)
(* exactly the rows with an update() still to come and those updated under *)
(* the id of a freed row; and, in a process that found no file, everything *)
(* once a second saver has emptied what the first one wrote.               *)
SavedUnlessDirty ==
    proc \in Up /\ lock = NoSaver /\ ~emptied
    => \A i \in Ids : i < size /\ i \notin dirtyRows \cup touched \cup unmarked
                      => disk[i] = index[i]

(* When the program ends after Database::stop(), and no other saver is in  *)
(* write() at that moment, the file holds exactly the rows that were in    *)
(* memory, under the same exceptions.                                      *)
StopSavesEverything ==
    [][exit /\ proc' = "down" /\ unmarked = {} /\ ~emptied
       => diskState = "valid" /\ disk = index]_vars

(* Ids are references: other tables store them.  Whatever crashes or saves *)
(* happen, a row in the file keeps its id and its key until --rebuild.     *)
PersistedIdsStable ==
    [][~rebuild =>
         \A i \in Ids : disk[i] # NoRow => disk'[i] # NoRow /\ disk'[i].key = disk[i].key]_vars

(* findByKey() returns the live row with a key, whenever there is one (one *)
(* that is being replaced apart), in the process that added it and in      *)
(* every later one, although deleted rows are read back under their keys.  *)
LiveRowsReachable ==
    proc \in Up =>
      \A i \in Ids : i < size /\ ~index[i].deleted /\ i \notin victims
                     => rows[index[i].key] = i

(* The file can be read back unless a write is under way: write() leaves a *)
(* file without a header only between fopen("wb+") and fclose().           *)
ReadableOutsideWrite ==
    proc \in Up /\ diskState = "torn" => \E s \in Savers : pc[s] = "writing"

(* Even when writes fail and savers overlap, a row of the file is          *)
(* never taken for another: it has its own key, or it is zeroed.           *)
NoForeignRow ==
    proc \in Up =>
      \A i \in Ids : disk[i] # NoRow =>
         i < size /\ disk[i].key \in {index[i].key, ZeroKey}

(* Table.cpp:287, assert(!_rows.contains(key)): no row is entered under a  *)
(* key that is taken.                                                      *)
KeysEnteredOnce == proc # "aborted"
=============================================================================
