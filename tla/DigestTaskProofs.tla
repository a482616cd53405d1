-------------------------- MODULE DigestTaskProofs --------------------------
(***************************************************************************)
(* What the database says about a jar after any number of runs, crashes    *)
(* and replacements of the jar, for any entries, contents and layouts.     *)
(***************************************************************************)
EXTENDS DigestTask, TLAPS

-----------------------------------------------------------------------------
(* The inductive invariant *)

\* A row whose stamp is no newer than that of the jar, which is now
FileRow(r, now) ==
  /\ r = [stamp |-> r.stamp, count |-> r.count, digest |-> r.digest]
  /\ r.stamp \in Nat /\ r.stamp <= now

\* The digest of a class row is that of the content whose stamp it has
ClassRows(m) ==
  /\ m = [k \in DOMAIN m |-> m[k]]
  /\ \A k \in DOMAIN m: /\ m[k].stamp \in Contents /\ DigestOf[m[k].stamp] # NoDigest
                        /\ m[k] = Row(m[k].stamp, DigestOf[m[k].stamp])

Tables(t, now) ==
  /\ t = [file |-> t.file, classes |-> t.classes]
  /\ FileRow(t.file, now) /\ ClassRows(t.classes)

TypeInv ==
  /\ jar \in Jars /\ jarStamp \in Nat \ {0} /\ mainClass \in Layouts
  /\ Tables(disk, jarStamp) /\ Tables(mem, jarStamp)
  /\ pc \in {"down", "start", "open", "unchanged", "entries", "saveFiles", "saveClasses"}
  /\ dryRun \in BOOLEAN /\ torn \in BOOLEAN
  /\ task = [jarStamp |-> task.jarStamp, isNew |-> task.isNew, row |-> task.row,
             entries |-> task.entries, pending |-> task.pending, digestMap |-> task.digestMap]
  /\ task.isNew \in BOOLEAN /\ task.jarStamp \in Nat /\ task.jarStamp <= jarStamp
  /\ FileRow(task.row, jarStamp)
  /\ task.entries \in Jars /\ task.pending \subseteq DOMAIN task.entries
  /\ reported = [e \in Entries |-> reported[e]]

\* The entries whose content parses
Parsed(content) == {e \in DOMAIN content: DigestOf[content[e]] # NoDigest}

\* The rows that a jar's classes should have, but for those of some classes
Complete(rows, content, except) ==
  \A e \in Parsed(content): InPlace(e) /\ e \notin except =>
    e \in DOMAIN rows /\ rows[e] = Row(content[e], DigestOf[content[e]])

Processed == {e \in Parsed(task.entries): e \notin task.pending}

\* Before the first entry the tables are as they were read
ReadInv ==
  /\ pc \in {"start", "unchanged"} => mem = disk
  /\ pc = "open" => mem.classes = disk.classes
  /\ pc \in {"start", "open", "unchanged"} => task.entries = NoMap /\ task.digestMap = NoMap

\* While entries are worked on: the jar is the one that start() looked at, or has
\* another stamp; the digests are those of the entries done; their rows are up to
\* date; and all are, if this content was recorded before
EntriesInv ==
  pc = "entries" =>
    /\ task.jarStamp = jarStamp => task.entries = jar
    /\ task.digestMap = [e \in Processed |-> DigestOf[task.entries[e]]]
    /\ ~dryRun => \A e \in Processed: InPlace(e) =>
         e \in DOMAIN mem.classes /\ mem.classes[e] = Row(task.entries[e], DigestOf[task.entries[e]])
    /\ ~torn /\ disk.file.stamp = task.jarStamp /\ task.jarStamp = jarStamp =>
         /\ Complete(mem.classes, jar, lost)
         /\ \A e \in Processed: InPlace(e) /\ e \notin lost => reported[e] = "unchanged"

\* What is about to be saved
SaveInv ==
  pc \in {"saveFiles", "saveClasses"} =>
    /\ mem.file.stamp = jarStamp =>
         /\ mem.file.digest = Reference(jar)
         /\ ~torn \/ task.digestMap # NoMap \/ task.entries # NoMap =>
              Complete(mem.classes, jar, lost \ Updated)
    /\ pc = "saveClasses" => disk.file = mem.file

Inv ==
  /\ TypeInv /\ ReadInv /\ EntriesInv /\ SaveInv
  /\ RecordedDigestIsCurrent /\ RecordedJarIsComplete

-----------------------------------------------------------------------------
(* Maps and rows *)

USE JarAssumption

LEMMA JarFacts ==
  /\ NoMap \in Jars /\ DOMAIN NoMap = {}
  /\ \A j \in Jars: /\ j = [e \in DOMAIN j |-> j[e]] /\ DOMAIN j \subseteq Entries
                    /\ \A e \in DOMAIN j: j[e] \in Contents
<1>1. NoMap \in [{} -> Contents] /\ {} \in SUBSET Entries BY DEF NoMap
<1>2. NoMap \in Jars BY <1>1 DEF Jars
<1> QED BY <1>2 DEF Jars, NoMap

LEMMA WithFacts ==
  ASSUME NEW m, NEW k, NEW v
  PROVE  /\ With(m, k, v) = [l \in DOMAIN With(m, k, v) |-> With(m, k, v)[l]]
         /\ DOMAIN With(m, k, v) = DOMAIN m \cup {k}
         /\ With(m, k, v)[k] = v
         /\ \A l \in DOMAIN m: l # k => With(m, k, v)[l] = m[l]
BY DEF With

LEMMA RowFields ==
  ASSUME NEW a, NEW b
  PROVE  Row(a, b).stamp = a /\ Row(a, b).digest = b
BY DEF Row

\* A row for a content that parses can be entered under any name
LEMMA WithClassRow ==
  ASSUME NEW m, ClassRows(m), NEW k, NEW c \in Contents, DigestOf[c] # NoDigest
  PROVE  ClassRows(With(m, k, Row(c, DigestOf[c])))
<1> DEFINE v == Row(c, DigestOf[c])
           n == With(m, k, v)
<1>0. v.stamp = c /\ v = Row(c, DigestOf[c]) BY RowFields
<1> HIDE DEF v
<1>1. n = [l \in DOMAIN n |-> n[l]] BY DEF With
<1>2. n[k] = v BY DEF With
<1>3. \A l \in DOMAIN n: l = k \/ (l \in DOMAIN m /\ n[l] = m[l]) BY DEF With
<1> HIDE DEF n
<1>4. \A l \in DOMAIN n: /\ n[l].stamp \in Contents /\ DigestOf[n[l].stamp] # NoDigest
                         /\ n[l] = Row(n[l].stamp, DigestOf[n[l].stamp])
  BY <1>0, <1>2, <1>3 DEF ClassRows
<1>5. ClassRows(n) BY <1>1, <1>4 DEF ClassRows
<1> QED BY <1>5 DEF n, v

LEMMA EmptyTables ==
  ASSUME NEW now \in Nat
  PROVE  /\ FileRow(NoRow, now) /\ ClassRows(NoMap)
         /\ Tables([file |-> NoRow, classes |-> NoMap], now)
         /\ NoRow.stamp = 0
<1>1. FileRow(NoRow, now) /\ NoRow.stamp = 0 BY DEF FileRow, NoRow
<1>2. ClassRows(NoMap) BY DEF ClassRows, NoMap
<1> QED BY <1>1, <1>2 DEF Tables

-----------------------------------------------------------------------------
(* The jar and the beginning of a run *)

LEMMA LaterTables ==
  ASSUME NEW now \in Nat, NEW t, Tables(t, now)
  PROVE  Tables(t, now + 1)
BY DEF Tables, FileRow

LEMMA ReplaceJarStep ==
  ASSUME Inv, replaceJar
  PROVE  Inv'
<1> USE DEF replaceJar
<1>a. TypeInv /\ ReadInv /\ EntriesInv /\ SaveInv BY DEF Inv
<1>b. /\ disk.file.stamp # jarStamp' /\ mem.file.stamp # jarStamp' /\ task.jarStamp # jarStamp'
      /\ jarStamp' \in Nat \ {0} /\ jar' \in Jars
  BY <1>a DEF TypeInv, Tables, FileRow
<1>1. TypeInv'
  <2>1. Tables(disk, jarStamp') /\ Tables(mem, jarStamp') BY <1>a, LaterTables DEF TypeInv
  <2>2. FileRow(task.row, jarStamp') /\ task.jarStamp <= jarStamp' BY <1>a DEF TypeInv, FileRow
  <2> QED BY <1>a, <1>b, <2>1, <2>2 DEF TypeInv
<1>2. ReadInv' BY <1>a DEF ReadInv
<1>3. EntriesInv' BY <1>a, <1>b DEF EntriesInv, Processed, Parsed, InPlace
<1>4. SaveInv' BY <1>a, <1>b DEF SaveInv
<1>5. RecordedDigestIsCurrent' /\ RecordedJarIsComplete'
  BY <1>b DEF RecordedDigestIsCurrent, RecordedJarIsComplete
<1> QED BY <1>1, <1>2, <1>3, <1>4, <1>5 DEF Inv

\* A step that leaves the jar and the files alone, outside saveClasses
LEMMA RecordStays ==
  ASSUME RecordedDigestIsCurrent, RecordedJarIsComplete, pc # "saveClasses",
         UNCHANGED <<jar, jarStamp, mainClass, disk, torn, lost>>
  PROVE  RecordedDigestIsCurrent' /\ RecordedJarIsComplete'
<1>1. RecordedDigestIsCurrent' BY DEF RecordedDigestIsCurrent, Reference
<1>2. RecordedJarIsComplete' BY DEF RecordedJarIsComplete, InPlace
<1> QED BY <1>1, <1>2

LEMMA RunStep ==
  ASSUME Inv, NEW dry \in BOOLEAN, run(dry)
  PROVE  Inv'
<1> USE DEF run
<1>a. TypeInv BY DEF Inv
<1>1. TypeInv'
  <2>1. NoTask = [jarStamp |-> NoTask.jarStamp, isNew |-> NoTask.isNew, row |-> NoTask.row,
                  entries |-> NoTask.entries, pending |-> NoTask.pending,
                  digestMap |-> NoTask.digestMap]
        /\ NoTask.isNew = FALSE /\ NoTask.jarStamp = 0 /\ NoTask.row = NoRow
        /\ NoTask.entries = NoMap /\ NoTask.pending = {}
    BY DEF NoTask
  <2>2. dryRun' \in BOOLEAN /\ NoTask.isNew \in BOOLEAN BY Zenon, <2>1
  <2>3. reported' = [e \in Entries |-> reported'[e]] OBVIOUS
  <2> QED BY <1>a, <2>1, <2>2, <2>3, JarFacts, EmptyTables DEF TypeInv
<1>2. ReadInv' BY DEF ReadInv, NoTask
<1>3. EntriesInv' /\ SaveInv' BY DEF EntriesInv, SaveInv
<1>4. RecordedDigestIsCurrent' /\ RecordedJarIsComplete' BY RecordStays DEF Inv
<1> QED BY <1>1, <1>2, <1>3, <1>4 DEF Inv

LEMMA StartStep ==
  ASSUME Inv, start
  PROVE  Inv'
<1>a. TypeInv /\ ReadInv BY DEF Inv
<1> DEFINE row == getOrCreateFileRow
<1>b. FileRow(row, jarStamp)
  BY <1>a DEF getOrCreateFileRow, createJarFileRow, TypeInv, Tables, FileRow
<1>c. isFileUnchanged(row) => row = mem.file BY DEF isFileUnchanged, getOrCreateFileRow
<1> HIDE DEF row
<1>d. /\ pc = "start" /\ UNCHANGED <<jar, jarStamp, mainClass, disk, dryRun, reported, torn, crashes, lost>>
      /\ task' = [task EXCEPT !.jarStamp = jarStamp, !.row = row, !.isNew = mem.file = NoRow]
      /\ mem' = IF dryRun THEN mem ELSE [mem EXCEPT !.file = row]
      /\ (isFileUnchanged(row) /\ pc' = "unchanged") \/ pc' = "open"
  BY DEF start, row
<1>e. /\ task'.jarStamp = jarStamp /\ task'.row = row /\ task'.isNew = (mem.file = NoRow)
      /\ task'.entries = task.entries /\ task'.pending = task.pending
      /\ task'.digestMap = task.digestMap
      /\ task' = [jarStamp |-> task'.jarStamp, isNew |-> task'.isNew, row |-> task'.row,
                  entries |-> task'.entries, pending |-> task'.pending,
                  digestMap |-> task'.digestMap]
  BY Zenon, <1>a, <1>d DEF TypeInv
<1>f. mem' = mem \/ mem' = [file |-> row, classes |-> mem.classes]
  BY <1>a, <1>d DEF TypeInv, Tables
<1>g. mem'.classes = mem.classes BY <1>f
<1>1. TypeInv'
  <2>1. Tables(mem', jarStamp)
    <3>1. CASE mem' = mem BY <1>a, <3>1 DEF TypeInv
    <3>2. CASE mem' = [file |-> row, classes |-> mem.classes]
      BY <1>a, <1>b, <3>2 DEF TypeInv, Tables
    <3> QED BY <1>f, <3>1, <3>2
  <2>2. task'.isNew \in BOOLEAN BY <1>e
  <2>3. jarStamp \in Nat /\ jarStamp <= jarStamp BY <1>a DEF TypeInv
  <2>4. dryRun' \in BOOLEAN /\ torn' \in BOOLEAN BY <1>a, <1>d DEF TypeInv
  <2> QED BY <1>a, <1>b, <1>d, <1>e, <2>1, <2>2, <2>3, <2>4 DEF TypeInv
<1>2. ReadInv'
  <2>1. pc' = "unchanged" => mem' = mem
    <3> SUFFICES ASSUME pc' = "unchanged" PROVE mem' = mem OBVIOUS
    <3>1. row = mem.file BY <1>c, <1>d
    <3>2. mem = [file |-> mem.file, classes |-> mem.classes] BY <1>a DEF TypeInv, Tables
    <3> QED BY <1>f, <3>1, <3>2
  <2> QED BY <1>a, <1>d, <1>e, <1>g, <2>1 DEF ReadInv
<1>3. EntriesInv' /\ SaveInv' BY <1>d DEF EntriesInv, SaveInv
<1>4. RecordedDigestIsCurrent' /\ RecordedJarIsComplete' BY <1>d, RecordStays DEF Inv
<1> QED BY <1>1, <1>2, <1>3, <1>4 DEF Inv

LEMMA OpenStep ==
  ASSUME Inv, open
  PROVE  Inv'
<1> USE DEF open
<1>a. TypeInv /\ ReadInv /\ task.digestMap = NoMap BY DEF Inv, ReadInv
<1>b. /\ task'.jarStamp = task.jarStamp /\ task'.row = task.row /\ task'.isNew = task.isNew
      /\ task'.entries = jar /\ task'.pending = DOMAIN jar
      /\ task'.digestMap = task.digestMap
      /\ task' = [jarStamp |-> task'.jarStamp, isNew |-> task'.isNew, row |-> task'.row,
                  entries |-> task'.entries, pending |-> task'.pending,
                  digestMap |-> task'.digestMap]
  BY Zenon, <1>a DEF TypeInv
<1>1. TypeInv'
  <2>1. task'.isNew \in BOOLEAN /\ dryRun' \in BOOLEAN /\ torn' \in BOOLEAN BY <1>a, <1>b DEF TypeInv
  <2> QED BY <1>a, <1>b, <2>1 DEF TypeInv
<1>2. ReadInv' /\ SaveInv' BY DEF ReadInv, SaveInv
<1>3. Processed' = {} BY <1>b DEF Processed, Parsed
<1>4. EntriesInv'
  <2>1. task'.digestMap = [e \in Processed' |-> DigestOf[task'.entries[e]]]
    BY <1>a, <1>b, <1>3 DEF NoMap
  <2>2. ASSUME ~torn, disk.file.stamp = task.jarStamp, task.jarStamp = jarStamp
        PROVE  Complete(mem.classes, jar, lost)
    <3>1. Complete(disk.classes, jar, lost)
      BY <2>2 DEF Inv, RecordedJarIsComplete, Complete, Parsed
    <3> QED BY <1>a, <3>1 DEF ReadInv
  <2>3. Complete(mem.classes, jar, lost)' <=> Complete(mem.classes, jar, lost) BY DEF Complete, Parsed, InPlace
  <2> QED BY <1>b, <1>3, <2>1, <2>2, <2>3 DEF EntriesInv
<1>5. RecordedDigestIsCurrent' /\ RecordedJarIsComplete' BY RecordStays DEF Inv
<1> QED BY <1>1, <1>2, <1>4, <1>5 DEF Inv

-----------------------------------------------------------------------------
(* An entry *)

\* What processEntry() does: an entry that is taken for unchanged has the digest of
\* its content in its row; any other that parses gets a row under its class's name
LEMMA EntryEffect ==
  ASSUME TypeInv, NEW e \in Entries, processEntry(e), NEW c, c = task.entries[e]
  PROVE  /\ pc = "entries" /\ e \in task.pending /\ e \in DOMAIN task.entries /\ c \in Contents
         /\ UNCHANGED <<jar, jarStamp, mainClass, disk, pc, dryRun, torn, crashes, lost>>
         /\ task' = [task EXCEPT !.pending = task.pending \ {e},
                       !.row = [task.row EXCEPT !.count = classfileCount(e \in DOMAIN mem.classes)],
                       !.digestMap = IF DigestOf[c] = NoDigest THEN task.digestMap
                                     ELSE With(task.digestMap, e, DigestOf[c])]
         /\ mem'.file = SetRow([task.row EXCEPT !.count = classfileCount(e \in DOMAIN mem.classes)])
         /\ mem' = [file |-> mem'.file, classes |-> mem'.classes]
         /\ isClassfileUnchanged(e) =>
              mem'.classes = mem.classes /\ DigestOf[c] # NoDigest /\ reported'[e] = "unchanged"
         /\ ~isClassfileUnchanged(e) =>
              mem'.classes = IF dryRun \/ DigestOf[c] = NoDigest THEN mem.classes
                             ELSE With(mem.classes, mainClass[e], Row(c, DigestOf[c]))
         /\ reported' = [f \in Entries |-> reported'[f]]
         /\ \A f \in Entries: f # e => reported'[f] = reported[f]
<1> DEFINE row == [task.row EXCEPT !.count = classfileCount(e \in DOMAIN mem.classes)]
           result == IF isClassfileUnchanged(e)
                     THEN [digest |-> mem.classes[e].digest, verdict |-> "unchanged",
                           classes |-> mem.classes]
                     ELSE digestEntry(e)
           map == IF result.verdict = "failed" THEN task.digestMap
                  ELSE With(task.digestMap, e, result.digest)
<1>1. /\ pc = "entries" /\ e \in task.pending
      /\ UNCHANGED <<jar, jarStamp, mainClass, disk, pc, dryRun, torn, crashes, lost>>
      /\ task' = [task EXCEPT !.pending = task.pending \ {e}, !.row = row, !.digestMap = map]
      /\ mem' = [file |-> SetRow(row), classes |-> result.classes]
      /\ reported' = [reported EXCEPT ![e] = result.verdict]
  BY DEF processEntry, TypeInv
<1>2. e \in DOMAIN task.entries /\ c \in Contents BY <1>1, JarFacts DEF TypeInv
<1>3. reported'[e] = result.verdict /\ reported' = [f \in Entries |-> reported'[f]]
      /\ \A f \in Entries: f # e => reported'[f] = reported[f]
  <2> HIDE DEF result
  <2> QED BY <1>1 DEF TypeInv
<1>4. mem'.file = SetRow(row) /\ mem'.classes = result.classes
      /\ mem' = [file |-> mem'.file, classes |-> mem'.classes]
  <2> HIDE DEF result, row
  <2> QED BY <1>1
<1>5. CASE isClassfileUnchanged(e)
  <2>1. e \in DOMAIN mem.classes /\ mem.classes[e].stamp = c
    BY <1>5 DEF isClassfileUnchanged
  <2>2. DigestOf[c] # NoDigest /\ mem.classes[e] = Row(c, DigestOf[c])
    BY <2>1 DEF TypeInv, Tables, ClassRows
  <2>3. result.digest = DigestOf[c] /\ result.verdict = "unchanged" /\ result.classes = mem.classes
    BY <1>5, <2>2, RowFields
  <2>4. map = With(task.digestMap, e, DigestOf[c])
    <3> HIDE DEF result
    <3> QED BY <2>3
  <2> HIDE DEF result, map, row
  <2> QED BY <1>1, <1>2, <1>3, <1>4, <1>5, <2>2, <2>3, <2>4 DEF row
<1>6. CASE ~isClassfileUnchanged(e)
  <2>1. result = digestEntry(e) BY <1>6
  <2>2. /\ result.digest = DigestOf[c]
        /\ result.verdict = "failed" <=> DigestOf[c] = NoDigest
        /\ result.classes = IF DigestOf[c] = NoDigest THEN mem.classes
                            ELSE addOrUpdateClassfile(e, DigestOf[c])
    <3> HIDE DEF result
    <3> QED BY <2>1 DEF digestEntry
  <2>3. map = IF DigestOf[c] = NoDigest THEN task.digestMap
              ELSE With(task.digestMap, e, DigestOf[c])
    <3> HIDE DEF result
    <3> QED BY <2>2
  <2>4. result.classes = IF dryRun \/ DigestOf[c] = NoDigest THEN mem.classes
                         ELSE With(mem.classes, mainClass[e], Row(c, DigestOf[c]))
    <3> HIDE DEF result
    <3> QED BY <2>2 DEF addOrUpdateClassfile
  <2> HIDE DEF result, map, row
  <2> QED BY <1>1, <1>2, <1>3, <1>4, <1>6, <2>3, <2>4 DEF row
<1> QED BY <1>5, <1>6

LEMMA ProcessEntryStep ==
  ASSUME Inv, NEW e \in Entries, processEntry(e)
  PROVE  Inv'
<1>a. TypeInv /\ EntriesInv BY DEF Inv
<1> DEFINE c == task.entries[e]
           d == DigestOf[c]
           row == [task.row EXCEPT !.count = classfileCount(e \in DOMAIN mem.classes)]
           map == IF d = NoDigest THEN task.digestMap ELSE With(task.digestMap, e, d)
<1>b. /\ pc = "entries" /\ e \in task.pending /\ e \in DOMAIN task.entries /\ c \in Contents
      /\ UNCHANGED <<jar, jarStamp, mainClass, disk, pc, dryRun, torn, crashes, lost>>
      /\ task' = [task EXCEPT !.pending = task.pending \ {e}, !.row = row, !.digestMap = map]
      /\ mem'.file = SetRow(row)
      /\ mem' = [file |-> mem'.file, classes |-> mem'.classes]
      /\ isClassfileUnchanged(e) =>
           mem'.classes = mem.classes /\ d # NoDigest /\ reported'[e] = "unchanged"
      /\ ~isClassfileUnchanged(e) =>
           mem'.classes = IF dryRun \/ d = NoDigest THEN mem.classes
                          ELSE With(mem.classes, mainClass[e], Row(c, d))
      /\ reported' = [f \in Entries |-> reported'[f]]
      /\ \A f \in Entries: f # e => reported'[f] = reported[f]
  BY Zenon, <1>a, EntryEffect
<1>c. FileRow(row, jarStamp) BY <1>a DEF TypeInv, FileRow
<1> HIDE DEF row, map
<1>d. /\ task'.jarStamp = task.jarStamp /\ task'.row = row /\ task'.isNew = task.isNew
      /\ task'.entries = task.entries /\ task'.pending = task.pending \ {e}
      /\ task'.digestMap = map
      /\ task' = [jarStamp |-> task'.jarStamp, isNew |-> task'.isNew, row |-> task'.row,
                  entries |-> task'.entries, pending |-> task'.pending,
                  digestMap |-> task'.digestMap]
  BY Zenon, <1>a, <1>b DEF TypeInv
<1>e. ClassRows(mem.classes) /\ FileRow(mem.file, jarStamp) BY <1>a DEF TypeInv, Tables
<1>f. /\ ClassRows(mem'.classes)
      /\ \A k \in DOMAIN mem.classes: k # mainClass[e] =>
           k \in DOMAIN mem'.classes /\ mem'.classes[k] = mem.classes[k]
  <2>1. CASE mem'.classes = mem.classes BY <1>e, <2>1
  <2>2. CASE d # NoDigest /\ mem'.classes = With(mem.classes, mainClass[e], Row(c, d))
    <3>1. ClassRows(mem'.classes) BY <1>b, <1>e, <2>2, WithClassRow
    <3> DEFINE v == Row(c, d)
    <3>2. mem'.classes = With(mem.classes, mainClass[e], v) BY <2>2
    <3> HIDE DEF v
    <3>3. \A k \in DOMAIN mem.classes: k # mainClass[e] =>
            k \in DOMAIN mem'.classes /\ mem'.classes[k] = mem.classes[k]
      BY <3>2 DEF With
    <3> QED BY <3>1, <3>3
  <2> QED BY <1>b, <2>1, <2>2
<1>1. TypeInv'
  <2>1. FileRow(mem'.file, jarStamp) BY <1>b, <1>c, <1>e DEF SetRow
  <2>2. Tables(mem', jarStamp) BY <1>b, <1>f, <2>1 DEF Tables
  <2>3. task'.isNew \in BOOLEAN /\ dryRun' \in BOOLEAN /\ torn' \in BOOLEAN
    BY <1>a, <1>b, <1>d DEF TypeInv
  <2>4. task.pending \ {e} \subseteq DOMAIN task.entries BY <1>a DEF TypeInv
  <2> QED BY <1>a, <1>b, <1>c, <1>d, <2>2, <2>3, <2>4 DEF TypeInv
<1>2. ReadInv' /\ SaveInv' BY <1>b DEF ReadInv, SaveInv
<1>3. Processed' = IF d = NoDigest THEN Processed ELSE Processed \cup {e}
  BY <1>b, <1>d DEF Processed, Parsed
<1>4. e \notin Processed /\ Processed \subseteq DOMAIN task.entries /\ DOMAIN task.entries \subseteq Entries
  BY <1>a, <1>b, JarFacts DEF Processed, Parsed, TypeInv
<1>5. task'.digestMap = [f \in Processed' |-> DigestOf[task'.entries[f]]]
  <2>1. task.digestMap = [f \in Processed |-> DigestOf[task.entries[f]]] BY <1>a, <1>b DEF EntriesInv
  <2>2. CASE d = NoDigest BY <1>3, <1>d, <2>1, <2>2 DEF map
  <2>3. CASE d # NoDigest
    <3>1. map = With(task.digestMap, e, DigestOf[task.entries[e]]) BY <2>3 DEF map
    <3>2. map = [f \in Processed \cup {e} |-> DigestOf[task.entries[f]]]
      BY <1>4, <2>1, <3>1 DEF With
    <3> QED BY <1>3, <1>d, <2>3, <3>2
  <2> QED BY <2>2, <2>3
<1>6. \A f \in Entries: f # e /\ InPlace(f) => mainClass[e] # f BY DEF InPlace
<1>7. InPlace(e) => mainClass[e] = e BY DEF InPlace
<1>8. ASSUME ~dryRun, NEW f \in Processed', InPlace(f)
      PROVE  f \in DOMAIN mem'.classes /\ mem'.classes[f] = Row(task.entries[f], DigestOf[task.entries[f]])
  <2>1. CASE f # e
    <3>1. f \in Processed BY <1>3, <1>8, <2>1
    <3>2. f \in DOMAIN mem.classes /\ mem.classes[f] = Row(task.entries[f], DigestOf[task.entries[f]])
      BY <1>8, <1>a, <1>b, <3>1 DEF EntriesInv
    <3> QED BY Zenon, <1>4, <1>6, <1>8, <1>f, <2>1, <3>1, <3>2
  <2>2. CASE f = e
    <3>1. d # NoDigest BY <1>3, <1>4, <1>8, <2>2
    <3>2. CASE isClassfileUnchanged(e)
      <4>1. e \in DOMAIN mem.classes /\ mem.classes[e].stamp = c BY <3>2 DEF isClassfileUnchanged
      <4> QED BY <1>b, <1>e, <2>2, <3>2, <4>1 DEF ClassRows
    <3>3. CASE ~isClassfileUnchanged(e)
      <4> DEFINE v == Row(c, d)
      <4>1. mem'.classes = With(mem.classes, e, v) BY <1>7, <1>8, <1>b, <2>2, <3>1, <3>3
      <4> HIDE DEF v
      <4>2. e \in DOMAIN mem'.classes /\ mem'.classes[e] = v BY <4>1 DEF With
      <4> QED BY <2>2, <4>2 DEF v
    <3> QED BY <3>2, <3>3
  <2> QED BY <2>1, <2>2
<1>9. ASSUME ~torn, disk.file.stamp = task.jarStamp, task.jarStamp = jarStamp
      PROVE  /\ Complete(mem'.classes, jar, lost)
             /\ \A f \in Processed': InPlace(f) /\ f \notin lost => reported'[f] = "unchanged"
  <2>1. /\ task.entries = jar /\ Complete(mem.classes, jar, lost)
        /\ \A f \in Processed: InPlace(f) /\ f \notin lost => reported[f] = "unchanged"
    BY <1>9, <1>a, <1>b DEF EntriesInv
  <2>2. ASSUME InPlace(e), e \notin lost, d # NoDigest PROVE isClassfileUnchanged(e)
    <3>1. e \in DOMAIN mem.classes /\ mem.classes[e] = Row(c, d)
      BY <1>b, <2>1, <2>2 DEF Complete, Parsed
    <3> QED BY <3>1, RowFields DEF isClassfileUnchanged
  <2>3. \A f \in Processed': InPlace(f) /\ f \notin lost => reported'[f] = "unchanged"
    <3> SUFFICES ASSUME NEW f \in Processed', InPlace(f), f \notin lost PROVE reported'[f] = "unchanged"
      OBVIOUS
    <3>1. CASE f = e BY <1>3, <1>4, <1>b, <2>2, <3>1
    <3>2. CASE f # e BY <1>3, <1>4, <1>b, <2>1, <3>2
    <3> QED BY <3>1, <3>2
  <2>4. Complete(mem'.classes, jar, lost)
    <3> SUFFICES ASSUME NEW f \in Parsed(jar), InPlace(f), f \notin lost
                 PROVE  f \in DOMAIN mem'.classes /\ mem'.classes[f] = Row(jar[f], DigestOf[jar[f]])
      BY DEF Complete
    <3>1. f \in DOMAIN mem.classes /\ mem.classes[f] = Row(jar[f], DigestOf[jar[f]])
      BY <2>1 DEF Complete
    <3>2. f \in Entries /\ (f = e => d # NoDigest) BY <1>4, <2>1 DEF Parsed
    <3>3. CASE f = e BY <1>b, <2>2, <3>1, <3>2, <3>3
    <3>4. CASE f # e BY Zenon, <1>6, <1>f, <3>1, <3>2, <3>4
    <3> QED BY <3>3, <3>4
  <2> QED BY <2>3, <2>4
<1>10. EntriesInv'
  <2>1. task.jarStamp = jarStamp => task.entries = jar BY <1>a, <1>b DEF EntriesInv
  <2>2. \A f: InPlace(f)' <=> InPlace(f) BY <1>b DEF InPlace
  <2>3. Complete(mem.classes, jar, lost)' <=> Complete(mem'.classes, jar, lost)
    BY <1>b DEF Complete, Parsed, InPlace
  <2> QED BY <1>5, <1>8, <1>9, <1>b, <1>d, <2>1, <2>2, <2>3 DEF EntriesInv
<1>11. RecordedDigestIsCurrent' /\ RecordedJarIsComplete' BY <1>b, RecordStays DEF Inv
<1> QED BY <1>1, <1>2, <1>10, <1>11 DEF Inv

-----------------------------------------------------------------------------
(* The end of a run *)

LEMMA EndStep ==
  ASSUME Inv, end
  PROVE  Inv'
<1>a. TypeInv /\ ReadInv /\ EntriesInv /\ RecordedDigestIsCurrent /\ RecordedJarIsComplete BY DEF Inv
<1>b. /\ pc \in {"unchanged", "entries"}
      /\ pc' = IF dryRun THEN "down" ELSE "saveFiles"
      /\ UNCHANGED <<jar, jarStamp, mainClass, disk, dryRun, task, reported, torn, crashes, lost>>
  BY DEF end
<1> DEFINE row == updateFile(JarDigest(task.digestMap))
<1>c. row = [stamp |-> row.stamp, count |-> row.count, digest |-> row.digest]
      /\ row.stamp = task.jarStamp /\ row.digest = JarDigest(task.digestMap)
  <2> DEFINE d == JarDigest(task.digestMap)
             r == task.row
  <2>1. row = [r EXCEPT !.stamp = task.jarStamp, !.digest = d] BY DEF updateFile
  <2>2. r = [stamp |-> r.stamp, count |-> r.count, digest |-> r.digest]
    BY <1>a DEF TypeInv, FileRow
  <2> HIDE DEF row, d, r
  <2>3. row = [stamp |-> row.stamp, count |-> row.count, digest |-> row.digest]
        /\ row.stamp = task.jarStamp /\ row.digest = d
    BY Zenon, <2>1, <2>2
  <2> QED BY <2>3 DEF d
<1> HIDE DEF row
<1>e. mem' = mem \/ mem' = [file |-> row, classes |-> mem.classes]
  BY <1>a DEF end, row, TypeInv, Tables
<1>1. TypeInv'
  <2>1. FileRow(row, jarStamp) BY <1>a, <1>c DEF FileRow, TypeInv
  <2>2. Tables(mem', jarStamp)
    <3>1. CASE mem' = mem BY <1>a, <3>1 DEF TypeInv
    <3>2. CASE mem' = [file |-> row, classes |-> mem.classes]
      BY <1>a, <2>1, <3>2 DEF TypeInv, Tables
    <3> QED BY <1>e, <3>1, <3>2
  <2>3. dryRun' \in BOOLEAN /\ torn' \in BOOLEAN /\ task'.isNew \in BOOLEAN BY <1>a, <1>b DEF TypeInv
  <2>4. pc' \in {"down", "saveFiles"} BY <1>b
  <2> QED BY <1>a, <1>b, <2>2, <2>3, <2>4 DEF TypeInv
<1>2. ReadInv' /\ EntriesInv' BY <1>b DEF ReadInv, EntriesInv
<1>3. Complete(mem.classes, jar, lost \ Updated)' <=> Complete(mem'.classes, jar, lost \ Updated')
  BY <1>b DEF Complete, Parsed, InPlace
<1>4. SaveInv'
  <2>1. ASSUME ~dryRun, mem'.file.stamp = jarStamp
        PROVE  /\ mem'.file.digest = Reference(jar)
               /\ ~torn \/ task.digestMap # NoMap \/ task.entries # NoMap =>
                    Complete(mem'.classes, jar, lost \ Updated')
    <3>1. CASE pc = "unchanged"
      <4>1. mem' = disk /\ task.digestMap = NoMap /\ task.entries = NoMap
        BY <1>a, <3>1 DEF end, ReadInv
      <4>2. ~torn => Complete(disk.classes, jar, lost)
        BY <1>a, <2>1, <3>1, <4>1 DEF RecordedJarIsComplete, Complete, Parsed
      <4>3. Updated' = {} BY <1>b, <4>1 DEF Updated
      <4>4. ~torn => Complete(disk.classes, jar, lost \ Updated') BY <4>2, <4>3 DEF Complete
      <4> QED BY <1>a, <2>1, <4>1, <4>4 DEF RecordedDigestIsCurrent
    <3>2. CASE pc = "entries"
      <4>1. task.pending = {} BY <3>2 DEF end
      <4>2. mem' = [file |-> row, classes |-> mem.classes]
        BY <1>a, <2>1, <3>2 DEF end, row, TypeInv, Tables
      <4>3. mem'.file = row /\ mem'.classes = mem.classes BY <4>2
      <4>4. task.jarStamp = jarStamp /\ task.entries = jar
        BY <1>a, <1>c, <2>1, <3>2, <4>3 DEF EntriesInv
      <4>5. Processed = Parsed(jar) BY <4>1, <4>4 DEF Processed
      <4>6. task.digestMap = [e \in Parsed(jar) |-> DigestOf[jar[e]]]
        BY <1>a, <3>2, <4>4, <4>5 DEF EntriesInv
      <4>7. row.digest = Reference(jar) BY <1>c, <4>6 DEF Reference, Parsed
      <4>8. Complete(mem.classes, jar, lost \ Updated')
        BY <1>a, <2>1, <3>2, <4>4, <4>5 DEF EntriesInv, Complete
      <4> QED BY <4>3, <4>7, <4>8
    <3> QED BY <1>b, <3>1, <3>2
  <2>2. Reference(jar)' = Reference(jar) BY <1>b DEF Reference
  <2> QED BY <1>b, <1>3, <2>1, <2>2 DEF SaveInv
<1>5. RecordedDigestIsCurrent' /\ RecordedJarIsComplete' BY <1>a, <1>b, RecordStays
<1> QED BY <1>1, <1>2, <1>4, <1>5 DEF Inv

LEMMA SaveFilesStep ==
  ASSUME Inv, saveFiles
  PROVE  Inv'
<1> USE DEF saveFiles
<1>a. TypeInv /\ SaveInv BY DEF Inv
<1>b. disk' = [file |-> mem.file, classes |-> disk.classes] BY <1>a DEF TypeInv, Tables
<1>c. disk'.file = mem.file BY <1>b
<1>1. TypeInv'
  <2>1. Tables(disk', jarStamp) BY <1>a, <1>b DEF TypeInv, Tables
  <2>2. dryRun' \in BOOLEAN /\ torn' \in BOOLEAN /\ task'.isNew \in BOOLEAN BY <1>a DEF TypeInv
  <2>3. pc' \in {"saveClasses"} OBVIOUS
  <2> QED BY <1>a, <2>1, <2>2, <2>3 DEF TypeInv
<1>2. ReadInv' /\ EntriesInv' BY DEF ReadInv, EntriesInv
<1>3. Reference(jar)' = Reference(jar) BY DEF Reference
<1>4. Complete(mem.classes, jar, lost \ Updated)' <=> Complete(mem.classes, jar, lost \ Updated)
  <2>1. disk'.classes = disk.classes BY <1>b
  <2>2. Updated' = Updated BY <2>1 DEF Updated
  <2> QED BY <2>2 DEF Complete, Parsed, InPlace
<1>5. SaveInv' BY <1>a, <1>c, <1>3, <1>4 DEF SaveInv
<1>6. RecordedDigestIsCurrent' BY <1>a, <1>c, <1>3 DEF SaveInv, RecordedDigestIsCurrent
<1>7. RecordedJarIsComplete' BY DEF RecordedJarIsComplete
<1> QED BY <1>1, <1>2, <1>5, <1>6, <1>7 DEF Inv

\* A table of which some rows are saved and some are left holds rows of both
LEMMA MixedClassRows ==
  ASSUME NEW m, NEW n, ClassRows(m), ClassRows(n), NEW left \in SUBSET DOMAIN n
  PROVE  ClassRows([k \in DOMAIN m |-> IF k \in left THEN n[k] ELSE m[k]])
<1> DEFINE x == [k \in DOMAIN m |-> IF k \in left THEN n[k] ELSE m[k]]
<1>1. x = [k \in DOMAIN x |-> x[k]] OBVIOUS
<1>2. \A k \in DOMAIN x: (k \in DOMAIN n /\ x[k] = n[k]) \/ (k \in DOMAIN m /\ x[k] = m[k])
  OBVIOUS
<1> HIDE DEF x
<1>3. \A k \in DOMAIN x: /\ x[k].stamp \in Contents /\ DigestOf[x[k].stamp] # NoDigest
                         /\ x[k] = Row(x[k].stamp, DigestOf[x[k].stamp])
  BY <1>2 DEF ClassRows
<1>4. ClassRows(x) BY <1>1, <1>3 DEF ClassRows
<1> QED BY <1>4 DEF x

LEMMA SaveClassesStep ==
  ASSUME Inv, saveClasses
  PROVE  Inv'
<1>a. TypeInv /\ SaveInv /\ RecordedDigestIsCurrent BY DEF Inv
<1>b. PICK unmarked \in SUBSET Updated:
        /\ disk' = [disk EXCEPT !.classes = savedRows(unmarked)]
        /\ lost' = unmarked \cup (lost \ Updated)
  BY Zenon DEF saveClasses
<1>c. /\ pc = "saveClasses" /\ pc' = "down"
      /\ torn' = (torn /\ task.digestMap = NoMap /\ task.entries = NoMap)
      /\ UNCHANGED <<jar, jarStamp, mainClass, mem, dryRun, task, reported>>
  BY DEF saveClasses
<1> DEFINE rows == savedRows(unmarked)
<1>d. ClassRows(rows)
  <2>1. unmarked \in SUBSET DOMAIN disk.classes BY DEF Updated
  <2>2. ClassRows(mem.classes) /\ ClassRows(disk.classes) BY <1>a DEF TypeInv, Tables
  <2> QED BY ONLY <2>1, <2>2, MixedClassRows DEF savedRows
<1>e. \A k \in DOMAIN mem.classes: k \in DOMAIN rows /\ (k \notin unmarked => rows[k] = mem.classes[k])
  BY DEF savedRows
<1> HIDE DEF rows
<1>f. disk' = [file |-> disk.file, classes |-> rows] BY <1>a, <1>b DEF TypeInv, Tables, rows
<1>g. disk'.file = disk.file /\ disk'.classes = rows BY <1>f
<1>1. TypeInv'
  <2>1. Tables(disk', jarStamp) BY <1>a, <1>d, <1>f DEF TypeInv, Tables
  <2>2. dryRun' \in BOOLEAN /\ torn' \in BOOLEAN /\ task'.isNew \in BOOLEAN
    BY Zenon, <1>a, <1>c DEF TypeInv
  <2>3. pc' \in {"down"} BY <1>c
  <2> QED BY <1>a, <1>c, <2>1, <2>2, <2>3 DEF TypeInv
<1>2. ReadInv' /\ EntriesInv' /\ SaveInv' BY <1>c DEF ReadInv, EntriesInv, SaveInv
<1>3. RecordedDigestIsCurrent' BY <1>a, <1>c, <1>g DEF RecordedDigestIsCurrent, Reference
<1>4. RecordedJarIsComplete'
  <2>1. ASSUME disk.file.stamp = jarStamp, ~torn' PROVE Complete(mem.classes, jar, lost \ Updated)
    BY Zenon, <1>a, <1>c, <2>1 DEF SaveInv
  <2>2. ASSUME disk.file.stamp = jarStamp, ~torn', NEW e \in Parsed(jar), InPlace(e), e \notin lost'
        PROVE  e \in DOMAIN rows /\ rows[e] = Row(jar[e], DigestOf[jar[e]])
    <3>1. e \notin unmarked /\ e \notin lost \ Updated BY <1>b, <2>2
    <3>2. e \in DOMAIN mem.classes /\ mem.classes[e] = Row(jar[e], DigestOf[jar[e]])
      BY <2>1, <2>2, <3>1 DEF Complete
    <3> QED BY <1>e, <3>1, <3>2
  <2> QED BY <1>c, <1>g, <2>2 DEF RecordedJarIsComplete, Parsed, InPlace
<1> QED BY <1>1, <1>2, <1>3, <1>4 DEF Inv

LEMMA CrashStep ==
  ASSUME Inv, crash
  PROVE  Inv'
<1> USE DEF crash
<1>a. TypeInv /\ RecordedDigestIsCurrent /\ RecordedJarIsComplete BY DEF Inv
<1>1. TypeInv'
  <2>1. dryRun' \in BOOLEAN /\ torn' \in BOOLEAN /\ task'.isNew \in BOOLEAN BY <1>a DEF TypeInv
  <2>2. pc' \in {"down"} OBVIOUS
  <2> QED BY <1>a, <2>1, <2>2 DEF TypeInv
<1>2. ReadInv' /\ EntriesInv' /\ SaveInv' BY DEF ReadInv, EntriesInv, SaveInv
<1>3. RecordedDigestIsCurrent' BY <1>a DEF RecordedDigestIsCurrent, Reference
<1>4. RecordedJarIsComplete'
  <2>1. ~torn' => ~torn /\ pc # "saveClasses" BY Zenon, <1>a DEF TypeInv
  <2> QED BY <1>a, <2>1 DEF RecordedJarIsComplete, InPlace
<1> QED BY <1>1, <1>2, <1>3, <1>4 DEF Inv

-----------------------------------------------------------------------------
(* The theorems *)

LEMMA InitInv ==
  ASSUME Init
  PROVE  Inv
<1> USE DEF Init
<1>1. TypeInv
  <2>1. Tables(disk, jarStamp) /\ disk.file.stamp = 0 BY EmptyTables
  <2>2. task = [jarStamp |-> task.jarStamp, isNew |-> task.isNew, row |-> task.row,
                entries |-> task.entries, pending |-> task.pending,
                digestMap |-> task.digestMap]
        /\ task.isNew = FALSE /\ task.jarStamp = 0 /\ task.row = NoRow
        /\ task.entries = NoMap /\ task.pending = {}
    BY DEF NoTask
  <2>3. dryRun \in BOOLEAN /\ torn \in BOOLEAN /\ task.isNew \in BOOLEAN BY Zenon, <2>2
  <2>4. reported = [e \in Entries |-> reported[e]] OBVIOUS
  <2>5. pc \in {"down"} OBVIOUS
  <2>6. FileRow(task.row, jarStamp) BY <2>2, EmptyTables
  <2> QED BY <2>1, <2>2, <2>3, <2>4, <2>5, <2>6, JarFacts DEF TypeInv
<1>2. ReadInv /\ EntriesInv /\ SaveInv BY DEF ReadInv, EntriesInv, SaveInv
<1>3. disk.file.stamp # jarStamp BY EmptyTables
<1>4. RecordedDigestIsCurrent /\ RecordedJarIsComplete
  BY <1>3 DEF RecordedDigestIsCurrent, RecordedJarIsComplete
<1> QED BY <1>1, <1>2, <1>4 DEF Inv

LEMMA InvStep ==
  ASSUME Inv, [Next]_vars
  PROVE  Inv'
<1>1. CASE replaceJar BY <1>1, ReplaceJarStep
<1>2. CASE crash BY <1>2, CrashStep
<1>3. CASE start BY <1>3, StartStep
<1>4. CASE open BY <1>4, OpenStep
<1>5. CASE \E e \in Entries: processEntry(e) BY <1>5, ProcessEntryStep
<1>6. CASE end BY <1>6, EndStep
<1>7. CASE saveFiles BY <1>7, SaveFilesStep
<1>8. CASE saveClasses BY <1>8, SaveClassesStep
<1>9. CASE \E dry \in BOOLEAN: run(dry) BY <1>9, RunStep
<1>10. CASE UNCHANGED vars
  <2>0. UNCHANGED <<jar, jarStamp, mainClass, disk, mem, pc, dryRun, task, reported, torn, lost>>
    BY <1>10 DEF vars
  <2>1. TypeInv' BY <2>0 DEF Inv, TypeInv
  <2>2. /\ UNCHANGED <<Reference(jar), Processed>>
        /\ \A e: InPlace(e)' <=> InPlace(e)
        /\ Complete(mem.classes, jar, lost)' <=> Complete(mem.classes, jar, lost)
        /\ Complete(mem.classes, jar, lost \ Updated)' <=> Complete(mem.classes, jar, lost \ Updated)
    BY <2>0 DEF Reference, Processed, Complete, Parsed, InPlace, Updated
  <2>3. ReadInv' /\ SaveInv' BY <2>0, <2>2 DEF Inv, ReadInv, SaveInv
  <2>4. EntriesInv' BY <2>0, <2>2 DEF Inv, EntriesInv
  <2>5. RecordedDigestIsCurrent' BY <2>0, <2>2 DEF Inv, RecordedDigestIsCurrent
  <2>6. RecordedJarIsComplete' BY <2>0, <2>2 DEF Inv, RecordedJarIsComplete
  <2> QED BY <2>1, <2>3, <2>4, <2>5, <2>6 DEF Inv
<1> QED
  BY <1>1, <1>2, <1>3, <1>4, <1>5, <1>6, <1>7, <1>8, <1>9, <1>10 DEF Next, Step

LEMMA InvHolds == Spec => []Inv
<1>1. Init => Inv BY InitInv
<1>2. Inv /\ [Next]_vars => Inv' BY InvStep
<1> QED BY <1>1, <1>2, PTL DEF Spec

\* A jar whose size and time are those in its row (isFileUnchanged()) has the
\* digest of its present content in that row, although updateFile() writes what
\* start() looked at and the entries are those that were found at the opening
THEOREM RecordIsCurrent == Spec => []RecordedDigestIsCurrent
<1>1. Inv => RecordedDigestIsCurrent BY DEF Inv
<1> QED BY <1>1, InvHolds, PTL

\* With a row for each class that has its entry's name, unless stop() died
\* between the two tables or the row lost its mark in addOrUpdate()
THEOREM RecordIsComplete == Spec => []RecordedJarIsComplete
<1>1. Inv => RecordedJarIsComplete BY DEF Inv
<1> QED BY <1>1, InvHolds, PTL

\* Another run on a recorded jar skips each such class (isClassfileUnchanged()),
\* whatever the order of the entries
THEOREM RerunIsQuiet == Spec => []RerunReportsUnchanged
<1>1. Inv => RerunReportsUnchanged
  <2> SUFFICES ASSUME Inv, pc = "entries", task.pending = {}, ~torn,
                      disk.file.stamp = task.jarStamp, task.jarStamp = jarStamp,
                      NEW e \in DOMAIN jar, DigestOf[jar[e]] # NoDigest, InPlace(e), e \notin lost
               PROVE  reported[e] = "unchanged"
    BY DEF RerunReportsUnchanged
  <2>1. task.entries = jar /\ \A f \in Processed: InPlace(f) /\ f \notin lost => reported[f] = "unchanged"
    BY DEF Inv, EntriesInv
  <2>2. e \in Processed BY <2>1 DEF Processed, Parsed
  <2> QED BY <2>1, <2>2
<1> QED BY <1>1, InvHolds, PTL

=============================================================================
