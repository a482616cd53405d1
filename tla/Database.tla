------------------------------ MODULE Database ------------------------------
(***************************************************************************)
(* The digest database as a whole: a string pool and two tables that refer *)
(* to it and to each other, saved one after the other with no lock around  *)
(* the whole (infrastructure/db/Database.cpp, StringPool.cpp,              *)
(* table/DatabaseBridge.cpp, domain/db/DigestDb.cpp).  A file row names a  *)
(* string; a class row names a string and a file row.  Database::write()   *)
(* runs in the save thread of a server every ten seconds, and in whoever   *)
(* calls stop(), while workers go on adding.  Each table is a DurableTable *)
(* (Table implements that, with the exceptions it names).                  *)
(***************************************************************************)
EXTENDS Naturals, Sequences

CONSTANTS
    Strings,        \* what the pool can hold, the empty string apart
    MaxFiles,       \* bounds on the rows of the two tables
    MaxClasses

ASSUME DatabaseAssumption == MaxFiles \in Nat /\ MaxClasses \in Nat

VARIABLES
    proc,           \* "down", "open", "stopping" or "undefined"
    pool,           \* the strings of the pool in the order of their offsets
    poolDirty,      \* StringPool::_isDirty
    poolFile,       \* the strings of the pool file that are complete
    poolTorn,       \* the file was truncated and not yet written or read again
    poolFailed,     \* history: the last write of the pool failed, which nobody sees
    files, filesDisk,
    classes, classesDisk,
    pc,             \* where each writer is in Database::write()
    ended,          \* how the last process ended: "none", "exit", "failed" or "crash"
    hasSaveThread,  \* _hasSaveThread of the process, or of the last one: a server has one
    filesFirst      \* whether the hash map _tablesByName yields Files before ClassFiles

build == <<hasSaveThread, filesFirst>>
vars == <<proc, pool, poolDirty, poolFile, poolTorn, poolFailed, files, filesDisk,
          classes, classesDisk, pc, ended, build>>

poolVars == <<pool, poolDirty, poolFile, poolTorn, poolFailed>>
fileVars == <<files, filesDisk>>
classVars == <<classes, classesDisk>>

(* The threads that call Database::write(): stop() and the save thread.    *)
Writers == {"stop", "save"}

NoRow == [none |-> TRUE]
FileRow == [filename : Strings]
ClassFileRow == [file : 0..(MaxFiles - 1), classname : Strings]
Self(r) == r
IsUp == proc \in {"open", "stopping"}

Files == INSTANCE DurableTable
           WITH MaxId <- MaxFiles, Rows <- FileRow, Absent <- NoRow, KeyOf <- Self,
                isOpen <- IsUp, mem <- files, disk <- filesDisk

Classes == INSTANCE DurableTable
             WITH MaxId <- MaxClasses, Rows <- ClassFileRow, Absent <- NoRow, KeyOf <- Self,
                  isOpen <- IsUp, mem <- classes, disk <- classesDisk

InPool(s, p) == \E i \in 1..Len(p) : p[i] = s

TypeOK ==
    /\ proc \in {"down", "open", "stopping", "undefined"}
    /\ pool \in Seq(Strings) /\ poolFile \in Seq(Strings)
    /\ poolDirty \in BOOLEAN /\ poolTorn \in BOOLEAN /\ poolFailed \in BOOLEAN
    /\ files \in Files!RowMap /\ filesDisk \in Files!RowMap
    /\ classes \in Classes!RowMap /\ classesDisk \in Classes!RowMap
    /\ pc \in [Writers -> {"idle", "pool", "first", "second", "done", "failed"}]
    /\ ended \in {"none", "exit", "failed", "crash"}
    /\ hasSaveThread \in BOOLEAN /\ filesFirst \in BOOLEAN

Init ==
    /\ proc = "down"
    /\ pool = <<>> /\ poolDirty = FALSE
    /\ poolFile = <<>> /\ poolTorn = FALSE /\ poolFailed = FALSE
    /\ files = Files!NoRows /\ filesDisk = Files!NoRows
    /\ classes = Classes!NoRows /\ classesDisk = Classes!NoRows
    /\ pc = [w \in Writers |-> "idle"]
    /\ ended = "none"
    /\ hasSaveThread = FALSE /\ filesFirst \in BOOLEAN

-----------------------------------------------------------------------------
(* Workers.  A row is added after the strings and the row it refers to;    *)
(* each of these is a critical section of its own.                         *)

getPoolString(s) ==
    /\ proc = "open" /\ ~InPool(s, pool)
    /\ pool' = Append(pool, s)
    /\ poolDirty' = TRUE
    /\ UNCHANGED <<proc, poolFile, poolTorn, poolFailed, fileVars, classVars, pc, ended, build>>

addFile(i, s) ==
    /\ proc = "open" /\ InPool(s, pool)
    /\ files[i] = NoRow /\ \A j \in Files!Slots : j < i => files[j] # NoRow
    /\ [filename |-> s] \notin {files[j] : j \in Files!Slots}
    /\ files' = [files EXCEPT ![i] = [filename |-> s]]
    /\ UNCHANGED <<proc, poolVars, filesDisk, classVars, pc, ended, build>>

addClassFile(i, f, s) ==
    /\ proc = "open" /\ InPool(s, pool) /\ files[f] # NoRow
    /\ classes[i] = NoRow /\ \A j \in Classes!Slots : j < i => classes[j] # NoRow
    /\ [file |-> f, classname |-> s] \notin {classes[j] : j \in Classes!Slots}
    /\ classes' = [classes EXCEPT ![i] = [file |-> f, classname |-> s]]
    /\ UNCHANGED <<proc, poolVars, fileVars, classesDisk, pc, ended, build>>

-----------------------------------------------------------------------------
(* Database::write(): the pool, then the tables in the order of a hash map.*)

(* The save thread may have tested its stop token just before stop().      *)
MayWrite(w) == IF w = "stop" THEN proc = "stopping" ELSE hasSaveThread /\ IsUp
AfterWrite(w, outcome) == IF w = "stop" THEN outcome ELSE "idle"

(* StringPool::write() with no lock: opening the file empties it.  It does *)
(* not look whether the file could be opened, nor written, and returns     *)
(* true: Database::write() goes on with the tables.                        *)
skipPool_Bug(w) ==
    /\ MayWrite(w) /\ pc[w] = "idle"
    /\ pc' = [pc EXCEPT ![w] = "first"]
    /\ UNCHANGED <<proc, poolVars, fileVars, classVars, ended, build>>

writePool(w) ==
    /\ MayWrite(w) /\ pc[w] = "idle"
    /\ \/ /\ poolDirty
          /\ poolFile' = <<>> /\ poolTorn' = TRUE
          /\ pc' = [pc EXCEPT ![w] = "pool"]
          /\ UNCHANGED poolFailed
       \/ /\ poolDirty
          /\ poolFailed' = TRUE
          /\ pc' = [pc EXCEPT ![w] = "first"]
          /\ UNCHANGED <<poolFile, poolTorn>>
       \/ /\ ~poolDirty
          /\ pc' = [pc EXCEPT ![w] = "first"]
          /\ UNCHANGED <<poolFile, poolTorn, poolFailed>>
    /\ UNCHANGED <<proc, pool, poolDirty, fileVars, classVars, ended, build>>

(* What is written is the pool at this moment, or, when the write fails, a *)
(* beginning of it; a string that is being added right then counts as not  *)
(* yet there.  _isDirty stays set.                                         *)
poolWritten(w) ==
    /\ IsUp /\ pc[w] = "pool"
    /\ \/ poolFile' = pool /\ poolTorn' = FALSE /\ poolFailed' = FALSE
       \/ /\ \E n \in Len(poolFile)..Len(pool) : poolFile' = SubSeq(pool, 1, n)
          /\ poolFailed' = TRUE /\ UNCHANGED poolTorn
    /\ pc' = [pc EXCEPT ![w] = "first"]
    /\ UNCHANGED <<proc, pool, poolDirty, fileVars, classVars, ended, build>>

AtFiles(w) == pc[w] = IF filesFirst THEN "first" ELSE "second"
AtClasses(w) == pc[w] = IF filesFirst THEN "second" ELSE "first"
oneTable_Bug(w) == AfterWrite(w, "done")

Onwards(w) == IF pc[w] = "first" THEN "second" ELSE AfterWrite(w, "done")

writeTable(w) ==
    /\ IsUp /\ UNCHANGED proc /\ pc[w] \in {"first", "second"}
    /\ \/ AtFiles(w) /\ Files!Save /\ UNCHANGED classVars
       \/ AtClasses(w) /\ Classes!Save /\ UNCHANGED fileVars
    /\ pc' = [pc EXCEPT ![w] = Onwards(w)]
    /\ UNCHANGED <<poolVars, ended, build>>

(* A table's write() returns false: it could not open its file, or, in a   *)
(* process that saves only once, it wrote some of the rows.  The tables    *)
(* after it are left out, and nobody looks at the result.  (A later save   *)
(* of the same process would skip the rows that were not written: Table    *)
(* has that.)                                                              *)
failureIgnored_Bug(w) ==
    /\ IsUp /\ UNCHANGED proc /\ pc[w] \in {"first", "second"}
    /\ pc' = [pc EXCEPT ![w] = Onwards(w)]
    /\ UNCHANGED <<poolVars, fileVars, classVars, ended, build>>

writeFails(w) ==
    /\ IsUp /\ UNCHANGED proc /\ pc[w] \in {"first", "second"}
    /\ \/ UNCHANGED <<fileVars, classVars>>
       \/ ~hasSaveThread /\ AtFiles(w) /\ Files!Saves /\ UNCHANGED <<files, classVars>>
       \/ ~hasSaveThread /\ AtClasses(w) /\ Classes!Saves /\ UNCHANGED <<classes, fileVars>>
    /\ pc' = [pc EXCEPT ![w] = AfterWrite(w, "failed")]
    /\ UNCHANGED <<poolVars, ended, build>>

-----------------------------------------------------------------------------
(* The life of the process.                                                *)

FreshWriters == pc' = [w \in Writers |-> "idle"]

stop ==
    /\ proc = "open"
    /\ proc' = "stopping"
    /\ UNCHANGED <<poolVars, fileVars, classVars, pc, ended, build>>

(* The tables are destroyed when the program ends, and only then does the  *)
(* destructor of the base class join the save thread: what a save that is  *)
(* still under way does with them, and to their files, is undefined.       *)
exit ==
    /\ proc = "stopping" /\ pc["stop"] \in {"done", "failed"}
    /\ proc' = IF pc["save"] = "idle" THEN "down" ELSE "undefined"
    /\ ended' = IF pc["stop"] = "done" THEN "exit" ELSE "failed"
    /\ pool' = <<>> /\ poolDirty' = FALSE
    /\ files' = Files!NoRows /\ classes' = Classes!NoRows
    /\ FreshWriters
    /\ UNCHANGED <<poolFile, poolTorn, poolFailed, filesDisk, classesDisk, build>>

crash ==
    /\ IsUp
    /\ proc' = "down" /\ ended' = "crash"
    /\ IF \E w \in Writers : pc[w] = "pool"
       THEN \E n \in Len(poolFile)..Len(pool) : /\ poolFile' = SubSeq(pool, 1, n)
                                                /\ poolTorn' = (n < Len(pool))
       ELSE UNCHANGED <<poolFile, poolTorn>>
    /\ UNCHANGED poolFailed
    /\ pool' = <<>> /\ poolDirty' = FALSE
    /\ IF \E w \in Writers : AtFiles(w)
       THEN Files!Crash
       ELSE files' = Files!NoRows /\ UNCHANGED filesDisk
    /\ IF \E w \in Writers : AtClasses(w)
       THEN Classes!Crash
       ELSE classes' = Classes!NoRows /\ UNCHANGED classesDisk
    /\ FreshWriters
    /\ UNCHANGED build

(* Does everything in the files refer to something in the files?           *)
StringsResolve ==
    /\ \A i \in Files!Slots : filesDisk[i] # NoRow =>
          InPool(filesDisk[i].filename, poolFile)
    /\ \A i \in Classes!Slots : classesDisk[i] # NoRow =>
          InPool(classesDisk[i].classname, poolFile)

FilesResolve ==
    \A i \in Classes!Slots : classesDisk[i] # NoRow => filesDisk[classesDisk[i].file] # NoRow

(* Database::read(): the pool, then the tables; each row's key is computed *)
(* from what it refers to, with no check that this is there.  With no pool *)
(* file the empty string is still to be written.  The save thread is there *)
(* since the constructor: it may save what is half read, if reading takes  *)
(* longer than its ten seconds.                                            *)
readNoPool_Bug ==
    /\ proc = "down" /\ StringsResolve /\ FilesResolve
    /\ proc' = "open" /\ pool' = <<>> /\ poolDirty' = TRUE
    /\ poolTorn' = FALSE /\ poolFailed' = FALSE
    /\ Files!Open /\ Classes!Open
    /\ hasSaveThread' \in BOOLEAN
    /\ UNCHANGED <<poolFile, pc, ended, filesFirst>>

read ==
    /\ proc = "down"
    /\ hasSaveThread' \in BOOLEAN
    /\ \/ /\ StringsResolve /\ FilesResolve
          /\ proc' = "open"
          /\ pool' = poolFile /\ poolTorn' = FALSE /\ poolFailed' = FALSE
          /\ poolDirty' \in (IF poolFile = <<>> THEN BOOLEAN ELSE {FALSE})
          /\ Files!Open /\ Classes!Open
       \/ /\ ~(StringsResolve /\ FilesResolve) \/ hasSaveThread'
          /\ proc' = "undefined"
          /\ UNCHANGED <<pool, poolDirty, poolTorn, poolFailed, fileVars, classVars>>
    /\ UNCHANGED <<poolFile, pc, ended, filesFirst>>

(* --rebuild: backup() and clean().                                        *)
rebuild ==
    /\ proc \in {"down", "undefined"}
    /\ proc' = "open"
    /\ pool' = <<>> /\ poolDirty' = TRUE
    /\ poolFile' = <<>> /\ poolTorn' = FALSE /\ poolFailed' = FALSE
    /\ Files!Recreate /\ Classes!Recreate
    /\ hasSaveThread' \in BOOLEAN
    /\ UNCHANGED <<pc, ended, filesFirst>>

Next ==
    \/ \E s \in Strings : getPoolString(s)
    \/ \E i \in Files!Slots, s \in Strings : addFile(i, s)
    \/ \E i \in Classes!Slots, f \in Files!Slots, s \in Strings : addClassFile(i, f, s)
    \/ \E w \in Writers : writePool(w) \/ poolWritten(w) \/ writeTable(w) \/ writeFails(w)
    \/ stop \/ exit \/ crash \/ read \/ rebuild

Spec == Init /\ [][Next]_vars

-----------------------------------------------------------------------------
(* After stop() and the end of the program no class row in the files       *)
(* refers to a file row that is not there, and no row to a string that is  *)
(* not there unless the last write of the pool failed; also when the save  *)
(* thread of a server was half way through write() when stop() called      *)
(* write() itself, as long as it is through with it when the tables are    *)
(* destroyed.                                                              *)
ClosedAfterExit ==
    proc = "down" /\ ended = "exit" =>
        FilesResolve /\ (~poolFailed => ~poolTorn /\ StringsResolve)

(* In a process without a save thread the strings are in their file before *)
(* any row that names them: a crash loses strings only while the pool file *)
(* is being rewritten.  (Two exceptions: after a write of the pool that    *)
(* failed, since StringPool::write() does not tell, and in a process that  *)
(* finds dangling references when it reads the files, which is undefined   *)
(* from then on.)                                                          *)
StringsBeforeRows ==
    ~hasSaveThread /\ proc # "undefined" /\ ~poolTorn /\ ~poolFailed => StringsResolve

(* In a process without a save thread, and if the hash map yields Files    *)
(* first, a class row is never in its file before its file row, wherever a *)
(* crash or a failed write of a table cuts Database::write() off.          *)
FilesBeforeClasses == ~hasSaveThread /\ proc # "undefined" /\ filesFirst => FilesResolve

(* Offsets into the pool are stored in rows: the pool file is always the   *)
(* beginning of the pool in memory, so that an offset means the same in    *)
(* both, although writers overlap and write() takes no lock.               *)
PoolFileIsPrefix ==
    IsUp => Len(poolFile) <= Len(pool) /\ poolFile = SubSeq(pool, 1, Len(poolFile))

ExitSaves ==
    exit /\ pc["stop"] = "done" /\ proc' = "down" =>
        Files!Close /\ Classes!Close /\ (poolFailed \/ poolFile = pool)

(* A program that ends after a stop() whose writes succeeded leaves        *)
(* everything that was in memory in the files, although the save thread    *)
(* may have truncated the pool file again behind stop(): unless it is at   *)
(* it still when the tables are destroyed.                                 *)
ExitSavesAll == [][ExitSaves]_vars
=============================================================================
