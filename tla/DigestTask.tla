------------------------------ MODULE DigestTask ------------------------------
(***************************************************************************)
(* The public digest of one jar, over many runs of the program: DigestTask *)
(* and DbBasedTask, with the database rows they keep.  Between the runs and *)
(* during them the jar may be replaced; a run may die anywhere, also       *)
(* between the saves of the two tables.                                    *)
(*                                                                         *)
(* An entry's content stands for what isClassfileUnchanged() compares      *)
(* (size, CRC, time); DigestOf gives the digest of a content, or NoDigest  *)
(* if it does not parse.  The digest of a jar is the sequence of the       *)
(* digests that are hashed.  Processor runs entries on one worker.         *)
(*                                                                         *)
(* The jar's row is edited in place and marked by update().  A class row   *)
(* goes through addOrUpdate(), which reads the id of the row from memory   *)
(* that it has just freed: an update may lose its mark (see Table), and    *)
(* then stop() leaves the old row in the file.                             *)
(***************************************************************************)
EXTENDS Naturals, FiniteSets, Sequences

CONSTANTS
  Entries,      \* names of entries, numbered in the order of std::map
  Layouts,      \* what mainClass can be
  Contents, DigestOf, NoDigest,
  MaxChanges,   \* how often the jar is replaced
  MaxCount,     \* bound on classfileCount
  MaxCrashes

ASSUME JarAssumption ==
  /\ Entries \subseteq Nat /\ IsFiniteSet(Entries)
  /\ Layouts \subseteq [Entries -> Nat]
  /\ NoDigest \notin Nat
  /\ DigestOf \in [Contents -> Nat \cup {NoDigest}]

VARIABLES
  jar, jarStamp,     \* the jar: entries with contents; its size and time
  mainClass,         \* the name that the class in an entry gives itself, or its
                     \* entry name below META-INF/versions/
  disk,              \* both tables as last saved
  mem,               \* both tables in memory
  pc, dryRun,
  task,              \* members of the running DigestTask
  reported,          \* what the report says about each entry
  torn, crashes,     \* the last save stopped between the tables; crashes so far
  lost               \* history: class rows whose last update was not saved

vars == <<jar, jarStamp, mainClass, disk, mem, pc, dryRun, task, reported, torn, crashes, lost>>

NoMap == [k \in {} |-> 0]

NoRow == [stamp |-> 0, count |-> 0, digest |-> <<>>]

NoTask == [jarStamp |-> 0, isNew |-> FALSE, row |-> NoRow,
           entries |-> NoMap, pending |-> {}, digestMap |-> NoMap]

Jars == UNION {[names -> Contents] : names \in SUBSET Entries}

\* digestUtils::digest() over the values of a map in the order of its keys
JarDigest(digests) ==
  [i \in 1..Cardinality(DOMAIN digests) |->
     digests[CHOOSE k \in DOMAIN digests : Cardinality({l \in DOMAIN digests : l <= k}) = i]]

Init ==
  /\ jar \in Jars
  /\ jarStamp = 1
  /\ mainClass \in Layouts
  /\ disk = [file |-> NoRow, classes |-> NoMap]
  /\ mem = disk
  /\ pc = "down"
  /\ dryRun = FALSE
  /\ task = NoTask
  /\ reported = [e \in Entries |-> "nothing"]
  /\ torn = FALSE
  /\ crashes = 0
  /\ lost = {}

\* The jar is replaced as a whole; an open archive keeps the old one
replaceJar ==
  /\ jarStamp < MaxChanges
  /\ jar' \in Jars \ {jar}
  /\ jarStamp' = jarStamp + 1
  /\ UNCHANGED <<mainClass, disk, mem, pc, dryRun, task, reported, torn, crashes, lost>>

run(dry) ==
  /\ pc = "down"
  /\ disk.file.count + Cardinality(Entries) <= MaxCount
  /\ pc' = "start"
  /\ dryRun' = dry
  /\ mem' = disk
  /\ task' = NoTask
  /\ reported' = [e \in Entries |-> "nothing"]
  /\ UNCHANGED <<jar, jarStamp, mainClass, disk, torn, crashes, lost>>

createJarFileRow == [stamp |-> jarStamp, count |-> 0, digest |-> <<>>]

\* A new row is added to the table at once, unless this is a dry run
getOrCreateFileRow ==
  IF mem.file = NoRow THEN createJarFileRow ELSE mem.file

anyRow_Bug(row) == mem.file # NoRow

isFileUnchanged(row) == mem.file # NoRow /\ row.stamp = jarStamp

\* start(), with or without --use-file-timestamp, then the opening of the jar,
\* which may find a newer jar than the one that start() looked at
start ==
  /\ pc = "start"
  /\ LET row == getOrCreateFileRow IN
     /\ task' = [task EXCEPT !.jarStamp = jarStamp, !.row = row,
                             !.isNew = mem.file = NoRow]
     /\ mem' = IF dryRun THEN mem ELSE [mem EXCEPT !.file = row]
     /\ \/ isFileUnchanged(row) /\ pc' = "unchanged"
        \/ pc' = "open"
  /\ UNCHANGED <<jar, jarStamp, mainClass, disk, dryRun, reported, torn, crashes, lost>>

open ==
  /\ pc = "open"
  /\ pc' = "entries"
  /\ task' = [task EXCEPT !.entries = jar, !.pending = DOMAIN jar]
  /\ UNCHANGED <<jar, jarStamp, mainClass, disk, mem, dryRun, reported, torn, crashes, lost>>

Row(stamp, digest) == [stamp |-> stamp, digest |-> digest]

\* _digestMap[key] = value
With(map, key, value) ==
  [k \in DOMAIN map \cup {key} |-> IF k = key THEN value ELSE map[k]]

stampOnly_Bug(e, digest) ==
  IF dryRun THEN mem.classes
  ELSE With(mem.classes, mainClass[e],
            Row(task.entries[e], IF mainClass[e] \in DOMAIN mem.classes
                                   THEN mem.classes[mainClass[e]].digest ELSE digest))

\* addOrUpdateClassfile(): under the class's own name
addOrUpdateClassfile(e, digest) ==
  IF dryRun THEN mem.classes
  ELSE With(mem.classes, mainClass[e], Row(task.entries[e], digest))

\* The row edited in place: it is the table's own unless it is a dry run's
\* temporary one
SetRow(row) ==
  IF dryRun /\ task.isNew THEN mem.file ELSE row

never_Bug(e) == FALSE

isClassfileUnchanged(e) ==
  e \in DOMAIN mem.classes /\ mem.classes[e].stamp = task.entries[e]

uncounted_Bug(exists) == task.row.count

\* ++_jarFileRow->classfileCount for a class without a row
classfileCount(exists) == task.row.count + (IF exists THEN 0 ELSE 1)

\* digestEntry(): the digest, what is reported and the class rows afterwards
digestEntry(e) ==
  LET digest == DigestOf[task.entries[e]]
      verdict == CASE digest = NoDigest -> "failed"
                   [] digest # NoDigest /\ e \notin DOMAIN mem.classes -> "new"
                   [] OTHER -> IF digest = mem.classes[e].digest THEN "same" ELSE "different"
  IN [digest |-> digest, verdict |-> verdict,
      classes |-> IF digest = NoDigest THEN mem.classes
                  ELSE addOrUpdateClassfile(e, digest)]

\* The row is looked up under the entry's name
processEntry(e) ==
  /\ pc = "entries" /\ e \in task.pending
  /\ LET result == IF isClassfileUnchanged(e)
                     THEN [digest |-> mem.classes[e].digest, verdict |-> "unchanged",
                           classes |-> mem.classes]
                     ELSE digestEntry(e)
         row == [task.row EXCEPT !.count = classfileCount(e \in DOMAIN mem.classes)]
     IN
     /\ task' = [task EXCEPT !.pending = @ \ {e}, !.row = row,
                   !.digestMap = IF result.verdict = "failed" THEN @
                                 ELSE With(@, e, result.digest)]
     /\ mem' = [file |-> SetRow(row), classes |-> result.classes]
     /\ reported' = [reported EXCEPT ![e] = result.verdict]
  /\ UNCHANGED <<jar, jarStamp, mainClass, disk, pc, dryRun, torn, crashes, lost>>

stampNow_Bug(digest) ==
  [task.row EXCEPT !.stamp = jarStamp, !.digest = digest]

\* updateFile(), with the size and time that start() saw
updateFile(digest) ==
  [task.row EXCEPT !.stamp = task.jarStamp, !.digest = digest]

\* end(), after the worker is done with every entry
end ==
  /\ \/ pc = "unchanged" /\ UNCHANGED mem
     \/ /\ pc = "entries" /\ task.pending = {}
        /\ mem' = [mem EXCEPT !.file =
                     IF dryRun THEN @ ELSE updateFile(JarDigest(task.digestMap))]
  /\ pc' = IF dryRun THEN "down" ELSE "saveFiles"
  /\ UNCHANGED <<jar, jarStamp, mainClass, disk, dryRun, task, reported, torn, crashes, lost>>

\* endAnalysis(): stop() writes the tables one after the other
saveFiles ==
  /\ pc = "saveFiles"
  /\ pc' = "saveClasses"
  /\ disk' = [disk EXCEPT !.file = mem.file]
  /\ UNCHANGED <<jar, jarStamp, mainClass, mem, dryRun, task, reported, torn, crashes, lost>>

\* Rows of the class table that differ from those in its file
Updated == {k \in DOMAIN disk.classes: mem.classes[k] # disk.classes[k]}

savedRows(unmarked) ==
  [k \in DOMAIN mem.classes |-> IF k \in unmarked THEN disk.classes[k] ELSE mem.classes[k]]

\* Any of the updated rows may have no mark
saveClasses ==
  /\ pc = "saveClasses"
  /\ pc' = "down"
  /\ \E unmarked \in SUBSET Updated:
       /\ disk' = [disk EXCEPT !.classes = savedRows(unmarked)]
       /\ lost' = unmarked \cup (lost \ Updated)
  /\ torn' = (torn /\ task.digestMap = NoMap /\ task.entries = NoMap)
  /\ UNCHANGED <<jar, jarStamp, mainClass, mem, dryRun, task, reported, crashes>>

crash ==
  /\ pc # "down" /\ crashes < MaxCrashes
  /\ pc' = "down"
  /\ crashes' = crashes + 1
  /\ torn' = (torn \/ pc = "saveClasses")
  /\ UNCHANGED <<jar, jarStamp, mainClass, disk, mem, dryRun, task, reported, lost>>

Step == \/ start \/ open \/ (\E e \in Entries: processEntry(e)) \/ end
        \/ saveFiles \/ saveClasses

Next == replaceJar \/ crash \/ Step \/ \E dry \in BOOLEAN: run(dry)

Spec == Init /\ [][Next]_vars

\* The process is scheduled, and someone runs it without --dry-run in the end
FairSpec == Spec /\ WF_vars(Step) /\ SF_vars(run(FALSE))

-----------------------------------------------------------------------------

\* The digest of a jar by its content alone: what a first analysis computes
Reference(content) ==
  JarDigest([e \in {f \in DOMAIN content: DigestOf[content[f]] # NoDigest} |->
               DigestOf[content[e]]])

\* A jar that the next run takes for unchanged, by its size and time, has the
\* digest of its content in the database: after any number of incremental
\* runs, whatever entries they skipped, wherever they died, and although the
\* jar may be replaced between the look at its time and its opening
RecordedDigestIsCurrent ==
  disk.file.stamp = jarStamp => disk.file.digest = Reference(jar)

\* The class in this entry has the entry's name, and no other entry has it
InPlace(e) == \A f \in Entries: mainClass[f] = e <=> f = e

\* A jar that the next run takes for unchanged has a row for each of its
\* classes, with the digest of this content, unless the program died between
\* the saves of the two tables, or the row lost its mark (entries under a
\* foreign name excepted: they share or overwrite rows)
RecordedJarIsComplete ==
  disk.file.stamp = jarStamp /\ pc # "saveClasses" /\ ~torn =>
    \A e \in DOMAIN jar:
      DigestOf[jar[e]] # NoDigest /\ InPlace(e) /\ e \notin lost
        => e \in DOMAIN disk.classes /\ disk.classes[e] = Row(jar[e], DigestOf[jar[e]])

\* Running again on a jar that was recorded reports each class in its place as
\* unchanged, also when the jar's own time is not looked at; unless its row lost
\* its mark
RerunReportsUnchanged ==
  pc = "entries" /\ task.pending = {} /\ ~torn
    /\ disk.file.stamp = task.jarStamp /\ task.jarStamp = jarStamp =>
      \A e \in DOMAIN jar: DigestOf[jar[e]] # NoDigest /\ InPlace(e) /\ e \notin lost
                            => reported[e] = "unchanged"

\* classfileCount, which statistics take for the number of classes of a jar
\* that is not opened, never falls below the number of rows of classes in their
\* places; nor below the number of all class rows, unless an entry has the name of
\* the class in another entry and not of its own
CountCoversRows ==
  LET Named == \A e, f \in Entries: mainClass[f] = e => mainClass[e] = e
      Counted(rows) == {k \in DOMAIN rows: Named \/ InPlace(k)}
  IN /\ \/ pc = "down" \/ (dryRun /\ task.isNew)
        \/ mem.file.count >= Cardinality(Counted(mem.classes))
     /\ disk.file.count >= Cardinality(Counted(disk.classes))

\* For jars whose entries carry their class's name and all parse, the count is
\* exact as long as no save was torn
CountIsExact ==
  crashes = 0 /\ pc = "down" => disk.file.count = Cardinality(DOMAIN disk.classes)

Recorded == disk.file.stamp = jarStamp

\* Once the jar is no longer replaced, its current digest gets recorded
EventuallyRecorded == [](jarStamp = MaxChanges => <>Recorded)

=============================================================================
