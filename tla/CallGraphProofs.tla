--------------------------- MODULE CallGraphProofs ---------------------------
(***************************************************************************)
(* What an analysis leaves in the call-graph database and in the exported  *)
(* graph, for any files and contents, and any number of analyses and of    *)
(* changes to the files between them.                                      *)
(***************************************************************************)
EXTENDS CallGraph, FiniteSetTheorems, TLAPS

-----------------------------------------------------------------------------
(* The inductive invariant *)

IsTable(t, keys) == t = [k \in DOMAIN t |-> t[k]] /\ DOMAIN t \subseteq keys

\* The tables and their rows; no file row is from the future
IsDb(d) ==
  /\ d = [files |-> d.files, classes |-> d.classes, classRefs |-> d.classRefs,
          methods |-> d.methods, methodRefs |-> d.methodRefs,
          classEdges |-> d.classEdges, methodEdges |-> d.methodEdges, first |-> d.first, later |-> d.later]
  /\ IsTable(d.files, Files) /\ IsTable(d.classes, Files \X Classes)
  /\ IsTable(d.classRefs, Files \X Classes \X Classes)
  /\ IsTable(d.methods, Files \X Classes \X Names)
  /\ IsTable(d.methodRefs, Files \X Classes \X Names)
  /\ \A k \in DOMAIN d.classes:
       LET row == d.classes[k]
       IN row = [body |-> row.body, gen |-> row.gen, refCount |-> row.refCount] /\ row.body \in ClassBody
  /\ \A k \in DOMAIN d.classRefs:
       LET row == d.classRefs[k] IN row = [gen |-> row.gen, edgeCount |-> row.edgeCount]
  /\ \A k \in DOMAIN d.methods:
       LET row == d.methods[k]
       IN row = [gen |-> row.gen, descriptor |-> row.descriptor, refCount |-> row.refCount]
  /\ \A k \in DOMAIN d.methodRefs:
       LET row == d.methodRefs[k]
       IN row = [gen |-> row.gen, class |-> row.class, descriptor |-> row.descriptor,
                 edgeCount |-> row.edgeCount]

TypeInv ==
  /\ edits \in Nat
  /\ world = [f \in Files |-> [stamp |-> world[f].stamp, classes |-> world[f].classes]]
  /\ \A f \in Files: world[f].stamp \in 0..edits /\ world[f].classes \in Contents[f]
  /\ IsDb(saved) /\ IsDb(db)
  /\ \A f \in DOMAIN saved.files: saved.files[f] \in 0..edits
  /\ \A f \in DOMAIN db.files: db.files[f] \in 0..edits
  /\ todo \subseteq Files /\ skipped \subseteq Files
  /\ fresh \in BOOLEAN

\* A stamp tells the versions of a file apart
PastInv ==
  /\ past = [f \in Files |-> past[f]]
  /\ \A f \in Files:
       /\ world[f] \in past[f]
       /\ \A v \in past[f]: /\ v = [stamp |-> v.stamp, classes |-> v.classes]
                            /\ v.stamp \in 0..edits /\ v.classes \in Contents[f]
       /\ \A v, w \in past[f]: v.stamp = w.stamp => v = w

Differ(members, at) == \A x, y \in members: x[at] = y[at] => x = y

\* The rows of a class are in the tables: those of methods and calls unless two
\* of them have one name
Extracted(d, k) ==
  LET body == d.classes[k].body IN
  /\ Differ(body.methods, 1) => \A x \in body.methods:
       LET m == <<k[1], k[2], x[1]>> IN m \in DOMAIN d.methods /\ d.methods[m].descriptor = x[2]
  /\ Differ(body.calls, 2) => \A x \in body.calls:
       LET r == <<k[1], k[2], x[2]>>
       IN r \in DOMAIN d.methodRefs /\ d.methodRefs[r].class = x[1] /\ d.methodRefs[r].descriptor = x[3]
  /\ \A x \in body.calls: <<k[1], k[2], x[1]>> \in DOMAIN d.classRefs

AllExtracted(d) == \A k \in DOMAIN d.classes: Extracted(d, k)

\* The class rows of a file are those of some classes, but for what is left to do
Stored(d, f, classes, left) ==
  \A c \in DOMAIN classes:
    classes[c] # Broken /\ <<f, c>> \notin left => isClassfileUnchanged(d, f, c, classes[c])

Current(d, f, left) == Stored(d, f, world[f].classes, left)

\* A file with the stamp that is stored is, and ever was, one whose classes are
\* stored, unless it was analysed under another one since
StampTells(d, left) ==
  \A f \in DOMAIN d.files: f \notin d.later =>
    \A v \in past[f]: v.stamp = d.files[f] => Stored(d, f, v.classes, left)

SavedInv == AllExtracted(saved) /\ StampTells(saved, {})

\* The stamp in the row of a file is that of the file
Stamped(d, f) == f \in DOMAIN d.files /\ d.files[f] = world[f].stamp

AnalysisInv ==
  pc \in {"analysing", "done"} =>
    /\ AllExtracted(db) /\ StampTells(db, entries)
    /\ \A f \in Files \ todo: f \in Mistaken \/ Current(db, f, entries)
    /\ \A k \in entries: k[1] \in Files \ todo /\ k[2] \in DOMAIN world[k[1]].classes
    /\ \A k \in entries: k[1] \in db.later \/ Stamped(db, k[1])
    /\ skipped \cap todo = {}
    /\ pc = "done" => todo = {} /\ entries = {}

\* Nothing but rows of the classes of the files as they are
FreshRows(d) ==
  /\ \A k \in DOMAIN d.classes:
       /\ k[2] \in DOMAIN world[k[1]].classes /\ Body(k) # Broken
       /\ d.classes[k].body = Body(k) /\ d.classes[k].gen = 0
  /\ \A m \in DOMAIN d.methods:
       /\ <<m[1], m[2]>> \in DOMAIN d.classes
       /\ d.methods[m].gen = 0
       /\ <<m[3], d.methods[m].descriptor>> \in Body(<<m[1], m[2]>>).methods
  /\ \A r \in DOMAIN d.methodRefs:
       /\ <<r[1], r[2]>> \in DOMAIN d.classes
       /\ d.methodRefs[r].gen = 0 /\ d.methodRefs[r].edgeCount = 0
       /\ <<d.methodRefs[r].class, r[3], d.methodRefs[r].descriptor>> \in Body(<<r[1], r[2]>>).calls
  /\ \A r \in DOMAIN d.classRefs:
       /\ <<r[1], r[2]>> \in DOMAIN d.classes
       /\ d.classRefs[r].gen = 0 /\ d.classRefs[r].edgeCount = 0
       /\ r[3] = r[2] \/ \E call \in Body(<<r[1], r[2]>>).calls: call[1] = r[3]
  /\ DOMAIN d.methodEdges = {}

\* An analysis that began with an empty database has only rows of files and classes
\* that it has come to, and comes to each of them once
FreshInv ==
  pc = "analysing" /\ fresh =>
    /\ FreshRows(db) /\ skipped = {} /\ DOMAIN db.files \cap todo = {}
    /\ \A k \in DOMAIN db.classes: k[1] \notin todo /\ k \notin entries

Inv == TypeInv /\ PastInv /\ SavedInv /\ AnalysisInv /\ FreshInv /\ CallsAreLinked /\ ExportShowsCalls

-----------------------------------------------------------------------------
(* Rows of a class *)

LEMMA UpsertRows ==
  ASSUME NEW t, NEW new
  PROVE  /\ DOMAIN Upsert(t, new) = DOMAIN t \cup DOMAIN new
         /\ Upsert(t, new) = [k \in DOMAIN Upsert(t, new) |-> Upsert(t, new)[k]]
         /\ \A k \in DOMAIN new: Upsert(t, new)[k] = new[k]
         /\ \A k \in DOMAIN t: k \notin DOMAIN new => Upsert(t, new)[k] = t[k]
BY DEF Upsert

\* Of the members with a name, one is recorded, and it is the only one if names
\* differ
LEMMA LastIsMember ==
  ASSUME NEW members, NEW at, NEW last \in LastOfName(members, at)
  PROVE  /\ \A n \in DOMAIN last: last[n] \in members /\ last[n][at] = n
         /\ \A x \in members: x[at] \in DOMAIN last
         /\ Differ(members, at) => \A x \in members: last[x[at]] = x
BY DEF LastOfName, Differ

\* What extractNodes() stores of a class in the methods table
MethodsOf(new, old, f, c, gen, body) ==
  /\ DOMAIN old \subseteq DOMAIN new
  /\ IsTable(new, Files \X Classes \X Names)
  /\ \A k \in DOMAIN old: <<k[1], k[2]>> # <<f, c>> => new[k] = old[k]
  /\ \A k \in DOMAIN new:
       \/ k \in DOMAIN old /\ new[k] = old[k]
       \/ /\ k[1] = f /\ k[2] = c
          /\ new[k] = [gen |-> gen, descriptor |-> new[k].descriptor, refCount |-> 0]
          /\ <<k[3], new[k].descriptor>> \in body.methods
  /\ Differ(body.methods, 1) => \A x \in body.methods:
       <<f, c, x[1]>> \in DOMAIN new /\ new[<<f, c, x[1]>>].descriptor = x[2]

LEMMA RecordedMethods ==
  ASSUME NEW f \in Files, NEW c \in Classes, NEW gen, NEW body \in ClassBody, NEW old,
         IsTable(old, Files \X Classes \X Names), NEW last \in LastOfName(body.methods, 1)
  PROVE  MethodsOf(Upsert(old, recordMethods(f, c, gen, last)), old, f, c, gen, body)
<1> DEFINE rec == recordMethods(f, c, gen, last)
           new == Upsert(old, rec)
<1>1. body.methods \subseteq Names \X Descriptors
  BY DEF ClassBody
<1>2. /\ \A n \in DOMAIN last: last[n] \in body.methods /\ last[n][1] = n
      /\ \A x \in body.methods: x[1] \in DOMAIN last
      /\ Differ(body.methods, 1) => \A x \in body.methods: last[x[1]] = x
  BY LastIsMember
<1>3. DOMAIN rec = {<<f, c, n>> : n \in DOMAIN last}
  BY DEF recordMethods
<1>4. \A n \in DOMAIN last: rec[<<f, c, n>>] = [gen |-> gen, descriptor |-> last[n][2], refCount |-> 0]
  BY DEF recordMethods
<1>5. \A n \in DOMAIN last: n \in Names
  BY <1>1, <1>2
<1> HIDE DEF rec
<1>6. /\ DOMAIN new = DOMAIN old \cup DOMAIN rec
      /\ new = [k \in DOMAIN new |-> new[k]]
      /\ \A k \in DOMAIN rec: new[k] = rec[k]
      /\ \A k \in DOMAIN old: k \notin DOMAIN rec => new[k] = old[k]
  BY Zenon, UpsertRows
<1> HIDE DEF new
<1>7. IsTable(new, Files \X Classes \X Names)
  BY <1>3, <1>5, <1>6 DEF IsTable
<1>8. \A k \in DOMAIN rec:
        /\ k[1] = f /\ k[2] = c
        /\ new[k] = [gen |-> gen, descriptor |-> new[k].descriptor, refCount |-> 0]
        /\ <<k[3], new[k].descriptor>> \in body.methods
  <2> TAKE k \in DOMAIN rec
  <2>1. PICK n \in DOMAIN last: k = <<f, c, n>>
    BY <1>3
  <2>2. new[k] = [gen |-> gen, descriptor |-> last[n][2], refCount |-> 0]
    BY <2>1, <1>4, <1>6
  <2>3. last[n] = <<n, last[n][2]>>
    BY <1>1, <1>2
  <2> QED
    BY <2>1, <2>2, <2>3, <1>2
<1>9. ASSUME Differ(body.methods, 1), NEW x \in body.methods
      PROVE  <<f, c, x[1]>> \in DOMAIN new /\ new[<<f, c, x[1]>>].descriptor = x[2]
  <2>1. x[1] \in DOMAIN last /\ last[x[1]] = x
    BY <1>2, <1>9
  <2>2. <<f, c, x[1]>> \in DOMAIN rec
    BY <2>1, <1>3
  <2>3. rec[<<f, c, x[1]>>] = [gen |-> gen, descriptor |-> x[2], refCount |-> 0]
    BY <2>1, <1>4
  <2> QED
    BY <2>2, <2>3, <1>6
<1>10. \A k \in DOMAIN old: <<k[1], k[2]>> # <<f, c>> => new[k] = old[k]
  BY Zenon, <1>6, <1>8
<1> QED
  BY <1>6, <1>7, <1>8, <1>9, <1>10 DEF MethodsOf, new, rec

\* And in that of the references
MethodRefsOf(new, old, f, c, gen, body) ==
  /\ DOMAIN old \subseteq DOMAIN new
  /\ IsTable(new, Files \X Classes \X Names)
  /\ \A k \in DOMAIN old: <<k[1], k[2]>> # <<f, c>> => new[k] = old[k]
  /\ \A k \in DOMAIN new:
       \/ k \in DOMAIN old /\ new[k] = old[k]
       \/ /\ k[1] = f /\ k[2] = c
          /\ new[k] = [gen |-> gen, class |-> new[k].class, descriptor |-> new[k].descriptor, edgeCount |-> 0]
          /\ <<new[k].class, k[3], new[k].descriptor>> \in body.calls
  /\ Differ(body.calls, 2) => \A x \in body.calls:
       LET r == <<f, c, x[2]>>
       IN r \in DOMAIN new /\ new[r].class = x[1] /\ new[r].descriptor = x[3]

LEMMA RecordedMethodRefs ==
  ASSUME NEW f \in Files, NEW c \in Classes, NEW gen, NEW body \in ClassBody, NEW old,
         IsTable(old, Files \X Classes \X Names), NEW last \in LastOfName(body.calls, 2)
  PROVE  MethodRefsOf(Upsert(old, recordMethodRefs(f, c, gen, last)), old, f, c, gen, body)
<1> DEFINE rec == recordMethodRefs(f, c, gen, last)
           new == Upsert(old, rec)
<1>1. body.calls \subseteq Classes \X Names \X Descriptors
  BY DEF ClassBody
<1>2. /\ \A n \in DOMAIN last: last[n] \in body.calls /\ last[n][2] = n
      /\ \A x \in body.calls: x[2] \in DOMAIN last
      /\ Differ(body.calls, 2) => \A x \in body.calls: last[x[2]] = x
  BY LastIsMember
<1>3. DOMAIN rec = {<<f, c, n>> : n \in DOMAIN last}
  BY DEF recordMethodRefs
<1>4. \A n \in DOMAIN last:
        rec[<<f, c, n>>] = [gen |-> gen, class |-> last[n][1], descriptor |-> last[n][3], edgeCount |-> 0]
  BY DEF recordMethodRefs
<1>5. \A n \in DOMAIN last: n \in Names
  BY <1>1, <1>2
<1> HIDE DEF rec
<1>6. /\ DOMAIN new = DOMAIN old \cup DOMAIN rec
      /\ new = [k \in DOMAIN new |-> new[k]]
      /\ \A k \in DOMAIN rec: new[k] = rec[k]
      /\ \A k \in DOMAIN old: k \notin DOMAIN rec => new[k] = old[k]
  BY Zenon, UpsertRows
<1> HIDE DEF new
<1>7. IsTable(new, Files \X Classes \X Names)
  BY <1>3, <1>5, <1>6 DEF IsTable
<1>8. \A k \in DOMAIN rec:
        /\ k[1] = f /\ k[2] = c
        /\ new[k] = [gen |-> gen, class |-> new[k].class, descriptor |-> new[k].descriptor, edgeCount |-> 0]
        /\ <<new[k].class, k[3], new[k].descriptor>> \in body.calls
  <2> TAKE k \in DOMAIN rec
  <2>1. PICK n \in DOMAIN last: k = <<f, c, n>>
    BY <1>3
  <2>2. new[k] = [gen |-> gen, class |-> last[n][1], descriptor |-> last[n][3], edgeCount |-> 0]
    BY <2>1, <1>4, <1>6
  <2>3. last[n] = <<last[n][1], n, last[n][3]>>
    BY <1>1, <1>2
  <2> QED
    BY <2>1, <2>2, <2>3, <1>2
<1>9. ASSUME Differ(body.calls, 2), NEW x \in body.calls
      PROVE  /\ <<f, c, x[2]>> \in DOMAIN new
             /\ new[<<f, c, x[2]>>].class = x[1] /\ new[<<f, c, x[2]>>].descriptor = x[3]
  <2>1. x[2] \in DOMAIN last /\ last[x[2]] = x
    BY <1>2, <1>9
  <2>2. <<f, c, x[2]>> \in DOMAIN rec
    BY <2>1, <1>3
  <2>3. rec[<<f, c, x[2]>>] = [gen |-> gen, class |-> x[1], descriptor |-> x[3], edgeCount |-> 0]
    BY <2>1, <1>4
  <2> QED
    BY <2>2, <2>3, <1>6
<1>10. \A k \in DOMAIN old: <<k[1], k[2]>> # <<f, c>> => new[k] = old[k]
  BY Zenon, <1>6, <1>8
<1> QED
  BY <1>6, <1>7, <1>8, <1>9, <1>10 DEF MethodRefsOf, new, rec

\* And in that of the class references
ClassRefsOf(new, old, f, c, gen, body) ==
  /\ DOMAIN old \subseteq DOMAIN new
  /\ IsTable(new, Files \X Classes \X Classes)
  /\ \A k \in DOMAIN new:
       \/ k \in DOMAIN old /\ new[k] = old[k]
       \/ /\ k[1] = f /\ k[2] = c
          /\ new[k] = [gen |-> gen, edgeCount |-> 0]
          /\ k[3] = c \/ \E call \in body.calls: call[1] = k[3]
  /\ \A x \in body.calls: <<f, c, x[1]>> \in DOMAIN new

LEMMA RecordedClassRefs ==
  ASSUME NEW f \in Files, NEW c \in Classes, NEW gen, NEW body \in ClassBody, NEW old,
         IsTable(old, Files \X Classes \X Classes)
  PROVE  ClassRefsOf(Upsert(old, recordClassRefs(f, c, gen, body)), old, f, c, gen, body)
<1> DEFINE rec == recordClassRefs(f, c, gen, body)
           new == Upsert(old, rec)
           called == {c} \cup {call[1] : call \in body.calls}
<1>1. called \subseteq Classes
  BY DEF ClassBody
<1>2. DOMAIN rec = {<<f, c, x>> : x \in called} /\ \A k \in DOMAIN rec: rec[k] = [gen |-> gen, edgeCount |-> 0]
  BY DEF recordClassRefs
<1> HIDE DEF rec
<1>3. /\ DOMAIN new = DOMAIN old \cup DOMAIN rec
      /\ new = [k \in DOMAIN new |-> new[k]]
      /\ \A k \in DOMAIN rec: new[k] = rec[k]
      /\ \A k \in DOMAIN old: k \notin DOMAIN rec => new[k] = old[k]
  BY Zenon, UpsertRows
<1> HIDE DEF new
<1>4. IsTable(new, Files \X Classes \X Classes)
  BY <1>1, <1>2, <1>3 DEF IsTable
<1> QED
  BY <1>2, <1>3, <1>4 DEF ClassRefsOf, new, rec

\* A database with the rows of a class put into it
ClassPut(e, d, f, c, gen, body) ==
  /\ IsDb(e)
  /\ e.files = d.files /\ e.later = d.later /\ e.methodEdges = d.methodEdges
  /\ DOMAIN e.classes = DOMAIN d.classes \cup {<<f, c>>}
  /\ \A k \in DOMAIN d.classes: k # <<f, c>> => e.classes[k] = d.classes[k]
  /\ e.classes[<<f, c>>] = [body |-> body, gen |-> gen, refCount |-> 0]
  /\ MethodsOf(e.methods, d.methods, f, c, gen, body)
  /\ MethodRefsOf(e.methodRefs, d.methodRefs, f, c, gen, body)
  /\ ClassRefsOf(e.classRefs, d.classRefs, f, c, gen, body)

LEMMA ClassIsPut ==
  ASSUME NEW d, IsDb(d), NEW f \in Files, NEW c \in Classes, NEW gen, NEW body \in ClassBody,
         NEW e \in extractNodes(PutClass(deleteClass(d, f, c), f, c, gen, body), f, c, gen, body)
  PROVE  ClassPut(e, d, f, c, gen, body)
<1> DEFINE row == [k \in {<<f, c>>} |-> [body |-> body, gen |-> gen, refCount |-> 0]]
           classes == Upsert(d.classes, row)
           first == IF d.first = None THEN <<f, c, gen>> ELSE d.first
           p == PutClass(deleteClass(d, f, c), f, c, gen, body)
<1>1. p = [files |-> d.files, classes |-> classes, classRefs |-> d.classRefs,
           methods |-> d.methods, methodRefs |-> d.methodRefs,
           classEdges |-> d.classEdges, methodEdges |-> d.methodEdges, first |-> first,
           later |-> d.later]
  <2>1. d = [files |-> d.files, classes |-> d.classes, classRefs |-> d.classRefs,
             methods |-> d.methods, methodRefs |-> d.methodRefs,
             classEdges |-> d.classEdges, methodEdges |-> d.methodEdges, first |-> d.first, later |-> d.later]
    BY DEF IsDb
  <2>2. p = [d EXCEPT !.classes = classes, !.first = first]
    BY <2>1, Zenon DEF PutClass, deleteClass
  <2> HIDE DEF p, classes, first
  <2> QED
    BY Zenon, <2>1, <2>2
<1> HIDE DEF p
<1>2. PICK m \in LastOfName(body.methods, 1), r \in LastOfName(body.calls, 2):
        e = recordNodes(p, f, c, gen, body, m, r)
  <2>1. e \in extractNodes(p, f, c, gen, body)
    BY Zenon DEF p
  <2> QED
    BY <2>1 DEF extractNodes
<1> DEFINE methods == Upsert(d.methods, recordMethods(f, c, gen, m))
           methodRefs == Upsert(d.methodRefs, recordMethodRefs(f, c, gen, r))
           classRefs == Upsert(d.classRefs, recordClassRefs(f, c, gen, body))
<1>3. /\ DOMAIN classes = DOMAIN d.classes \cup {<<f, c>>}
      /\ classes = [k \in DOMAIN classes |-> classes[k]]
      /\ \A k \in DOMAIN d.classes: k # <<f, c>> => classes[k] = d.classes[k]
      /\ classes[<<f, c>>] = [body |-> body, gen |-> gen, refCount |-> 0]
  BY DEF Upsert
<1>4. /\ MethodsOf(methods, d.methods, f, c, gen, body)
      /\ MethodRefsOf(methodRefs, d.methodRefs, f, c, gen, body)
      /\ ClassRefsOf(classRefs, d.classRefs, f, c, gen, body)
  BY Zenon, RecordedMethods, RecordedMethodRefs, RecordedClassRefs DEF IsDb
<1> HIDE DEF classes, first, methods, methodRefs, classRefs
<1>5. e = [files |-> d.files, classes |-> classes, classRefs |-> classRefs,
           methods |-> methods, methodRefs |-> methodRefs,
           classEdges |-> d.classEdges, methodEdges |-> d.methodEdges, first |-> first,
           later |-> d.later]
  BY Zenon, <1>1, <1>2 DEF recordNodes, methods, methodRefs, classRefs
<1>6. IsTable(classes, Files \X Classes)
  BY <1>3 DEF IsDb, IsTable
<1>7. \A k \in DOMAIN classes:
        /\ classes[k] = [body |-> classes[k].body, gen |-> classes[k].gen, refCount |-> classes[k].refCount]
        /\ classes[k].body \in ClassBody
  <2> TAKE k \in DOMAIN classes
  <2>1. CASE k = <<f, c>>
    BY <2>1, <1>3
  <2>2. CASE k # <<f, c>>
    BY <2>2, <1>3 DEF IsDb
  <2> QED
    BY <2>1, <2>2
<1>8. \A k \in DOMAIN classRefs:
        classRefs[k] = [gen |-> classRefs[k].gen, edgeCount |-> classRefs[k].edgeCount]
  BY <1>4 DEF ClassRefsOf, IsDb
<1>9. \A k \in DOMAIN methods:
        methods[k] = [gen |-> methods[k].gen, descriptor |-> methods[k].descriptor,
                      refCount |-> methods[k].refCount]
  <2> TAKE k \in DOMAIN methods
  <2>1. CASE k \in DOMAIN d.methods /\ methods[k] = d.methods[k]
    BY <2>1 DEF IsDb
  <2>2. CASE methods[k] = [gen |-> gen, descriptor |-> methods[k].descriptor, refCount |-> 0]
    BY <2>2
  <2> QED
    BY Zenon, <2>1, <2>2, <1>4 DEF MethodsOf
<1>10. \A k \in DOMAIN methodRefs:
         methodRefs[k] = [gen |-> methodRefs[k].gen, class |-> methodRefs[k].class,
                          descriptor |-> methodRefs[k].descriptor, edgeCount |-> methodRefs[k].edgeCount]
  <2> TAKE k \in DOMAIN methodRefs
  <2>1. CASE k \in DOMAIN d.methodRefs /\ methodRefs[k] = d.methodRefs[k]
    BY <2>1 DEF IsDb
  <2>2. CASE methodRefs[k] = [gen |-> gen, class |-> methodRefs[k].class,
                              descriptor |-> methodRefs[k].descriptor, edgeCount |-> 0]
    BY <2>2
  <2> QED
    BY Zenon, <2>1, <2>2, <1>4 DEF MethodRefsOf
<1>11. /\ IsTable(d.files, Files) /\ IsTable(methods, Files \X Classes \X Names)
       /\ IsTable(methodRefs, Files \X Classes \X Names) /\ IsTable(classRefs, Files \X Classes \X Classes)
  BY <1>4 DEF MethodsOf, MethodRefsOf, ClassRefsOf, IsDb
<1>12. IsDb(e)
  BY <1>5, <1>6, <1>7, <1>8, <1>9, <1>10, <1>11 DEF IsDb
<1> QED
  BY <1>3, <1>4, <1>5, <1>12 DEF ClassPut

\* The rows of the other classes stay
LEMMA PutExtracts ==
  ASSUME NEW d, IsDb(d), AllExtracted(d), NEW f, NEW c, NEW gen, NEW body,
         NEW e, ClassPut(e, d, f, c, gen, body)
  PROVE  AllExtracted(e)
<1> SUFFICES ASSUME NEW k \in DOMAIN e.classes
             PROVE  Extracted(e, k)
  BY DEF AllExtracted
<1>1. CASE k = <<f, c>>
  <2>1. e.classes[k].body = body /\ k[1] = f /\ k[2] = c
    BY <1>1 DEF ClassPut
  <2> QED
    BY Zenon, <2>1 DEF ClassPut, MethodsOf, MethodRefsOf, ClassRefsOf, Extracted
<1>2. CASE k # <<f, c>>
  <2> DEFINE b == d.classes[k].body
  <2>1. k \in DOMAIN d.classes /\ e.classes[k].body = b /\ k = <<k[1], k[2]>>
    <3>1. k \in DOMAIN d.classes /\ e.classes[k] = d.classes[k]
      BY Zenon, <1>2 DEF ClassPut
    <3>2. k \in Files \X Classes
      BY Zenon, <3>1 DEF IsDb, IsTable
    <3> QED
      BY <3>1, <3>2
  <2>2. Extracted(d, k)
    BY <2>1 DEF AllExtracted
  <2> HIDE DEF b
  <2>3. ASSUME NEW n, <<k[1], k[2], n>> \in DOMAIN d.methods
        PROVE  /\ <<k[1], k[2], n>> \in DOMAIN e.methods
               /\ e.methods[<<k[1], k[2], n>>] = d.methods[<<k[1], k[2], n>>]
    BY Zenon, <2>1, <2>3, <1>2 DEF ClassPut, MethodsOf
  <2>4. ASSUME NEW n, <<k[1], k[2], n>> \in DOMAIN d.methodRefs
        PROVE  /\ <<k[1], k[2], n>> \in DOMAIN e.methodRefs
               /\ e.methodRefs[<<k[1], k[2], n>>] = d.methodRefs[<<k[1], k[2], n>>]
    BY <2>1, <2>4, <1>2 DEF ClassPut, MethodRefsOf
  <2>5. DOMAIN d.classRefs \subseteq DOMAIN e.classRefs
    BY Zenon DEF ClassPut, ClassRefsOf
  <2> QED
    BY Zenon, <2>1, <2>2, <2>3, <2>4, <2>5 DEF Extracted, b
<1> QED
  BY <1>1, <1>2

\* The rows of a class are current once they are put, and the other classes stay
\* as they were
LEMMA PutIsCurrent ==
  ASSUME NEW d, NEW e, NEW f, NEW c, NEW gen, NEW body,
         ClassPut(e, d, f, c, gen, body)
  PROVE  /\ isClassfileUnchanged(e, f, c, body)
         /\ \A g, x, b: <<g, x>> # <<f, c>> =>
              (isClassfileUnchanged(e, g, x, b) <=> isClassfileUnchanged(d, g, x, b))
BY DEF ClassPut, isClassfileUnchanged

-----------------------------------------------------------------------------
(* Databases and files *)

LEMMA EmptyIsDb ==
  /\ IsDb(EmptyDb) /\ AllExtracted(EmptyDb)
  /\ EmptyDb.files = None /\ DOMAIN None = {}
  /\ DOMAIN EmptyDb.classes = {}
  /\ FreshRows(EmptyDb)
<1>1. DOMAIN None = {} /\ \A S: IsTable(None, S)
  BY DEF None, IsTable
<1>2. /\ EmptyDb.files = None /\ EmptyDb.classes = None /\ EmptyDb.classRefs = None
      /\ EmptyDb.methods = None /\ EmptyDb.methodRefs = None /\ EmptyDb.methodEdges = None
      /\ EmptyDb = [files |-> EmptyDb.files, classes |-> EmptyDb.classes, classRefs |-> EmptyDb.classRefs,
                    methods |-> EmptyDb.methods, methodRefs |-> EmptyDb.methodRefs,
                    classEdges |-> EmptyDb.classEdges, methodEdges |-> EmptyDb.methodEdges,
                    first |-> EmptyDb.first, later |-> EmptyDb.later]
  BY DEF EmptyDb
<1>3. IsDb(EmptyDb)
  BY <1>1, <1>2, Zenon DEF IsDb
<1>4. AllExtracted(EmptyDb)
  BY <1>1, <1>2, Zenon DEF AllExtracted
<1>5. FreshRows(EmptyDb)
  BY <1>1, <1>2, Zenon DEF FreshRows
<1> QED
  BY <1>1, <1>2, <1>3, <1>4, <1>5, Zenon

\* What is in the files
LEMMA ClassesOfFile ==
  ASSUME TypeInv, NEW f \in Files
  PROVE  /\ DOMAIN world[f].classes \subseteq Classes
         /\ \A c \in DOMAIN world[f].classes: world[f].classes[c] # Broken => world[f].classes[c] \in ClassBody
         /\ f \notin Jars => \E c \in Classes: DOMAIN world[f].classes = {c}
<1> DEFINE classes == world[f].classes
<1>1. classes \in Contents[f]
  BY DEF TypeInv
<1> HIDE DEF classes
<1>2. /\ \E S \in SUBSET Classes: classes \in [S -> ClassBody \cup {Broken}]
      /\ f \notin Jars => \E c \in Classes: DOMAIN classes = {c}
  BY Zenon, <1>1, GraphAssumption
<1> QED
  BY <1>2 DEF classes

\* The stamp of a file put into its table
LEMMA FilePut ==
  ASSUME NEW d, IsDb(d), NEW f \in Files, NEW e, e = putFile(d, f)
  PROVE  /\ IsDb(e)
         /\ DOMAIN e.files = DOMAIN d.files \cup {f}
         /\ e.files[f] = world[f].stamp
         /\ \A g \in DOMAIN d.files: g # f => e.files[g] = d.files[g]
         /\ e.classes = d.classes /\ e.classRefs = d.classRefs /\ e.methods = d.methods
         /\ e.methodRefs = d.methodRefs /\ e.methodEdges = d.methodEdges /\ e.later = d.later
<1> DEFINE stamp == world[f].stamp
           files == Upsert(d.files, [k \in {f} |-> stamp])
<1>1. /\ DOMAIN files = DOMAIN d.files \cup {f}
      /\ files = [g \in DOMAIN files |-> files[g]]
      /\ files[f] = stamp
      /\ \A g \in DOMAIN d.files: g # f => files[g] = d.files[g]
  BY DEF Upsert
<1>2. d = [files |-> d.files, classes |-> d.classes, classRefs |-> d.classRefs,
           methods |-> d.methods, methodRefs |-> d.methodRefs,
           classEdges |-> d.classEdges, methodEdges |-> d.methodEdges, first |-> d.first, later |-> d.later]
  BY DEF IsDb
<1> HIDE DEF files
<1>3. e = [files |-> files, classes |-> d.classes, classRefs |-> d.classRefs,
           methods |-> d.methods, methodRefs |-> d.methodRefs,
           classEdges |-> d.classEdges, methodEdges |-> d.methodEdges, first |-> d.first, later |-> d.later]
  BY <1>2 DEF putFile, files
<1>4. IsTable(files, Files)
  BY <1>1 DEF IsDb, IsTable
<1>5. IsDb(e)
  BY <1>3, <1>4 DEF IsDb
<1> QED
  BY <1>1, <1>3, <1>5

\* Which rows there are of a class, and whether it is current, depends on the
\* tables of classes, methods and references only
LEMMA SameRows ==
  ASSUME NEW d, NEW e,
         e.classes = d.classes, e.classRefs = d.classRefs, e.methods = d.methods,
         e.methodRefs = d.methodRefs, e.methodEdges = d.methodEdges
  PROVE  /\ AllExtracted(d) => AllExtracted(e)
         /\ FreshRows(d) => FreshRows(e)
         /\ \A f, c, body: isClassfileUnchanged(e, f, c, body) <=> isClassfileUnchanged(d, f, c, body)
         /\ \A f, classes, left: Stored(e, f, classes, left) <=> Stored(d, f, classes, left)
<1>1. AllExtracted(d) => AllExtracted(e)
  BY DEF AllExtracted, Extracted
<1>2. FreshRows(d) => FreshRows(e)
  <2> SUFFICES ASSUME FreshRows(d)
               PROVE  FreshRows(e)
    OBVIOUS
  <2>1. \A k \in DOMAIN e.classes:
          /\ k[2] \in DOMAIN world[k[1]].classes /\ Body(k) # Broken
          /\ e.classes[k].body = Body(k) /\ e.classes[k].gen = 0
    BY Zenon DEF FreshRows
  <2>2. \A m \in DOMAIN e.methods:
          /\ <<m[1], m[2]>> \in DOMAIN e.classes
          /\ e.methods[m].gen = 0
          /\ <<m[3], e.methods[m].descriptor>> \in Body(<<m[1], m[2]>>).methods
    BY Zenon DEF FreshRows
  <2>3. \A r \in DOMAIN e.methodRefs:
          /\ <<r[1], r[2]>> \in DOMAIN e.classes
          /\ e.methodRefs[r].gen = 0 /\ e.methodRefs[r].edgeCount = 0
          /\ <<e.methodRefs[r].class, r[3], e.methodRefs[r].descriptor>> \in Body(<<r[1], r[2]>>).calls
    BY Zenon DEF FreshRows
  <2>4. \A r \in DOMAIN e.classRefs:
          /\ <<r[1], r[2]>> \in DOMAIN e.classes
          /\ e.classRefs[r].gen = 0 /\ e.classRefs[r].edgeCount = 0
          /\ r[3] = r[2] \/ \E call \in Body(<<r[1], r[2]>>).calls: call[1] = r[3]
    BY Zenon DEF FreshRows
  <2>5. DOMAIN e.methodEdges = {}
    BY Zenon DEF FreshRows
  <2> QED
    BY Zenon, <2>1, <2>2, <2>3, <2>4, <2>5 DEF FreshRows
<1>3. \A f, c, body: isClassfileUnchanged(e, f, c, body) <=> isClassfileUnchanged(d, f, c, body)
  BY Zenon DEF isClassfileUnchanged
<1>4. \A f, classes, left: Stored(e, f, classes, left) <=> Stored(d, f, classes, left)
  BY <1>3, Zenon DEF Stored
<1> QED
  BY <1>1, <1>2, <1>3, <1>4

\* A class that is put is no longer left to do
LEMMA PutKeepsStored ==
  ASSUME NEW d, NEW e, NEW f, NEW c, NEW gen, NEW body, ClassPut(e, d, f, c, gen, body),
         NEW left, NEW rest, left \subseteq rest \cup {<<f, c>>},
         NEW g, NEW classes, g = f => classes[c] = body, Stored(d, g, classes, left)
  PROVE  Stored(e, g, classes, rest)
<1> SUFFICES ASSUME NEW x \in DOMAIN classes, classes[x] # Broken, <<g, x>> \notin rest
             PROVE  isClassfileUnchanged(e, g, x, classes[x])
  BY DEF Stored
<1>1. CASE <<g, x>> = <<f, c>>
  BY <1>1, PutIsCurrent
<1>2. CASE <<g, x>> # <<f, c>>
  <2>1. <<g, x>> \notin left
    BY <1>2
  <2>2. isClassfileUnchanged(d, g, x, classes[x])
    BY <2>1 DEF Stored
  <2> QED
    BY <1>2, <2>2, PutIsCurrent
<1> QED
  BY <1>1, <1>2

LEMMA FreshPut ==
  ASSUME NEW d, IsDb(d), FreshRows(d), NEW f \in Files, NEW c \in DOMAIN world[f].classes,
         world[f].classes[c] # Broken, NEW e, ClassPut(e, d, f, c, 0, world[f].classes[c])
  PROVE  FreshRows(e)
<1> DEFINE body == world[f].classes[c]
<1>1. Body(<<f, c>>) = body
  BY DEF Body
<1> HIDE DEF body
<1>2. ASSUME NEW k \in DOMAIN e.classes
      PROVE  /\ k[2] \in DOMAIN world[k[1]].classes /\ Body(k) # Broken
             /\ e.classes[k].body = Body(k) /\ e.classes[k].gen = 0
  <2>1. CASE k = <<f, c>>
    <3>1. e.classes[k] = [body |-> body, gen |-> 0, refCount |-> 0]
      BY Zenon, <2>1 DEF ClassPut, body
    <3> QED
      BY <2>1, <3>1, <1>1 DEF body
  <2>2. CASE k # <<f, c>>
    <3>1. k \in DOMAIN d.classes /\ e.classes[k] = d.classes[k]
      BY <2>2 DEF ClassPut
    <3> QED
      BY Zenon, <3>1 DEF FreshRows
  <2> QED
    BY <2>1, <2>2
<1>3. DOMAIN d.classes \subseteq DOMAIN e.classes /\ <<f, c>> \in DOMAIN e.classes
  BY DEF ClassPut
<1>4. ASSUME NEW m \in DOMAIN e.methods
      PROVE  /\ <<m[1], m[2]>> \in DOMAIN e.classes /\ e.methods[m].gen = 0
             /\ <<m[3], e.methods[m].descriptor>> \in Body(<<m[1], m[2]>>).methods
  <2>1. CASE m \in DOMAIN d.methods /\ e.methods[m] = d.methods[m]
    BY Zenon, <2>1, <1>3 DEF FreshRows
  <2>2. CASE /\ m[1] = f /\ m[2] = c
             /\ e.methods[m] = [gen |-> 0, descriptor |-> e.methods[m].descriptor, refCount |-> 0]
             /\ <<m[3], e.methods[m].descriptor>> \in body.methods
    BY <2>2, <1>1, <1>3
  <2> QED
    BY Zenon, <2>1, <2>2 DEF ClassPut, MethodsOf, body
<1>5. ASSUME NEW r \in DOMAIN e.methodRefs
      PROVE  /\ <<r[1], r[2]>> \in DOMAIN e.classes
             /\ e.methodRefs[r].gen = 0 /\ e.methodRefs[r].edgeCount = 0
             /\ <<e.methodRefs[r].class, r[3], e.methodRefs[r].descriptor>> \in Body(<<r[1], r[2]>>).calls
  <2>1. CASE r \in DOMAIN d.methodRefs /\ e.methodRefs[r] = d.methodRefs[r]
    BY Zenon, <2>1, <1>3 DEF FreshRows
  <2>2. CASE /\ r[1] = f /\ r[2] = c
             /\ e.methodRefs[r] = [gen |-> 0, class |-> e.methodRefs[r].class,
                                   descriptor |-> e.methodRefs[r].descriptor, edgeCount |-> 0]
             /\ <<e.methodRefs[r].class, r[3], e.methodRefs[r].descriptor>> \in body.calls
    BY <2>2, <1>1, <1>3
  <2> QED
    BY Zenon, <2>1, <2>2 DEF ClassPut, MethodRefsOf, body
<1>6. ASSUME NEW r \in DOMAIN e.classRefs
      PROVE  /\ <<r[1], r[2]>> \in DOMAIN e.classes
             /\ e.classRefs[r].gen = 0 /\ e.classRefs[r].edgeCount = 0
             /\ r[3] = r[2] \/ \E call \in Body(<<r[1], r[2]>>).calls: call[1] = r[3]
  <2>1. CASE r \in DOMAIN d.classRefs /\ e.classRefs[r] = d.classRefs[r]
    BY <2>1, <1>3 DEF FreshRows
  <2>2. CASE /\ r[1] = f /\ r[2] = c /\ e.classRefs[r] = [gen |-> 0, edgeCount |-> 0]
             /\ r[3] = c \/ \E call \in body.calls: call[1] = r[3]
    BY <2>2, <1>1, <1>3
  <2> QED
    BY Zenon, <2>1, <2>2 DEF ClassPut, ClassRefsOf, body
<1>7. DOMAIN e.methodEdges = {}
  BY Zenon DEF ClassPut, FreshRows
<1> QED
  BY Zenon, <1>2, <1>4, <1>5, <1>6, <1>7 DEF FreshRows

-----------------------------------------------------------------------------
(* Linking *)

LEMMA FiniteKeys ==
  ASSUME NEW A, NEW B, NEW C, IsFiniteSet(A), IsFiniteSet(B), IsFiniteSet(C)
  PROVE  IsFiniteSet(A \X B \X C)
<1> DEFINE S == (A \X B) \X C
           T == A \X B \X C
           g == [p \in S |-> <<p[1][1], p[1][2], p[2]>>]
<1>1. IsFiniteSet(S)
  BY Zenon, FS_Product
<1>2. g \in [S -> T]
  OBVIOUS
<1>3. \A t \in T: \E p \in S: g[p] = t
  <2> TAKE t \in T
  <2>1. <<<<t[1], t[2]>>, t[3]>> \in S /\ g[<<<<t[1], t[2]>>, t[3]>>] = t
    OBVIOUS
  <2> QED
    BY <2>1
<1>4. g \in Surjection(S, T)
  BY Zenon, <1>2, <1>3 DEF Surjection
<1> HIDE DEF g, S
<1> QED
  BY <1>1, <1>4, FS_Surjection

\* A number of edges is 0 only where there are none
LEMMA NoEdges ==
  ASSUME NEW edges, IsFiniteSet(edges), NEW ref
  PROVE  From(edges, ref) \in Nat /\ (From(edges, ref) = 0 <=> \A e \in edges: e.from # ref)
<1> DEFINE from == {e \in edges: e.from = ref}
<1>1. IsFiniteSet(from)
  BY FS_Subset
<1>2. Cardinality(from) \in Nat /\ (Cardinality(from) = 0 <=> from = {})
  BY Zenon, <1>1, FS_EmptySet, FS_CardinalityType
<1> QED
  BY <1>2 DEF From

\* The edges that linking adds lead from references to what they mean
LEMMA MethodEdges ==
  ASSUME NEW d, IsDb(d)
  PROVE  /\ IsFiniteSet(newMethodEdges(d))
         /\ \A r \in DOMAIN d.methodRefs: \A m \in getMemberMatches(d, r):
              [from |-> r, owner |-> d.methodRefs[r].gen, to |-> m] \in newMethodEdges(d)
         /\ \A e \in newMethodEdges(d):
              /\ e.from \in DOMAIN d.methodRefs /\ e.to \in getMemberMatches(d, e.from)
              /\ e.owner = d.methodRefs[e.from].gen
<1> DEFINE P == (DOMAIN d.methodRefs) \X (DOMAIN d.methods)
           S == {q \in P: q[2] \in getMemberMatches(d, q[1])}
           edge(p) == [from |-> p[1], owner |-> d.methodRefs[p[1]].gen, to |-> p[2]]
           g == [p \in S |-> edge(p)]
<1>1. newMethodEdges(d) = {edge(p) : p \in S}
  BY DEF newMethodEdges
<1>2. IsFiniteSet(DOMAIN d.methodRefs) /\ IsFiniteSet(DOMAIN d.methods)
  BY Zenon, FiniteKeys, FS_Subset, GraphAssumption DEF IsDb, IsTable
<1>3. IsFiniteSet(S)
  <2>1. IsFiniteSet(P)
    BY <1>2, FS_Product
  <2> QED
    BY <2>1, FS_Subset
<1>4. g \in Surjection(S, newMethodEdges(d))
  BY Zenon, <1>1 DEF Surjection
<1>5. IsFiniteSet(newMethodEdges(d))
  BY <1>3, <1>4, FS_Surjection
<1>6. ASSUME NEW r \in DOMAIN d.methodRefs, NEW m \in getMemberMatches(d, r)
      PROVE  [from |-> r, owner |-> d.methodRefs[r].gen, to |-> m] \in newMethodEdges(d)
  <2>1. <<r, m>> \in S
    BY DEF getMemberMatches
  <2>2. edge(<<r, m>>) = [from |-> r, owner |-> d.methodRefs[r].gen, to |-> m]
    OBVIOUS
  <2> QED
    BY <2>1, <2>2, <1>1
<1>7. ASSUME NEW e \in newMethodEdges(d)
      PROVE  /\ e.from \in DOMAIN d.methodRefs /\ e.to \in getMemberMatches(d, e.from)
             /\ e.owner = d.methodRefs[e.from].gen
  <2>1. PICK p \in S: e = edge(p)
    BY <1>1
  <2> QED
    BY <2>1
<1> QED
  BY <1>5, <1>6, <1>7

LEMMA ClassEdges ==
  ASSUME NEW d, IsDb(d)
  PROVE  /\ IsFiniteSet(newClassEdges(d))
         /\ \A r \in DOMAIN d.classRefs: \A k \in classMatches(d, r): \E e \in newClassEdges(d): e.from = r
         /\ \A e \in newClassEdges(d): e.from \in DOMAIN d.classRefs /\ e.to \in classMatches(d, e.from)
<1> DEFINE P == (DOMAIN d.classRefs) \X (DOMAIN d.classes)
           S == {q \in P: q[2] \in classMatches(d, q[1])}
           edge(p) == [from |-> p[1], to |-> p[2], gen |-> d.classes[p[2]].gen]
           g == [p \in S |-> edge(p)]
<1>1. newClassEdges(d) = {edge(p) : p \in S}
  BY DEF newClassEdges
<1>2. IsFiniteSet(DOMAIN d.classRefs) /\ IsFiniteSet(DOMAIN d.classes)
  BY Zenon, FiniteKeys, FS_Product, FS_Subset, GraphAssumption DEF IsDb, IsTable
<1>3. IsFiniteSet(S)
  <2>1. IsFiniteSet(P)
    BY <1>2, FS_Product
  <2> QED
    BY <2>1, FS_Subset
<1>4. g \in Surjection(S, newClassEdges(d))
  BY Zenon, <1>1 DEF Surjection
<1>5. IsFiniteSet(newClassEdges(d))
  BY <1>3, <1>4, FS_Surjection
<1>6. ASSUME NEW r \in DOMAIN d.classRefs, NEW k \in classMatches(d, r)
      PROVE  \E e \in newClassEdges(d): e.from = r
  <2>1. <<r, k>> \in S
    BY DEF classMatches
  <2>2. edge(<<r, k>>).from = r
    OBVIOUS
  <2> QED
    BY Zenon, <2>1, <2>2, <1>1
<1>7. ASSUME NEW e \in newClassEdges(d)
      PROVE  e.from \in DOMAIN d.classRefs /\ e.to \in classMatches(d, e.from)
  <2>1. PICK p \in S: e = edge(p)
    BY <1>1
  <2> QED
    BY <2>1
<1> QED
  BY <1>5, <1>6, <1>7

\* Linking adds edges and counts them, and changes nothing else
Linked(e, d) ==
  /\ IsDb(e) /\ e.files = d.files /\ e.later = d.later
  /\ DOMAIN e.classes = DOMAIN d.classes /\ DOMAIN e.classRefs = DOMAIN d.classRefs
  /\ DOMAIN e.methods = DOMAIN d.methods /\ DOMAIN e.methodRefs = DOMAIN d.methodRefs
  /\ \A k \in DOMAIN d.classes: e.classes[k].body = d.classes[k].body /\ e.classes[k].gen = d.classes[k].gen
  /\ \A m \in DOMAIN d.methods:
       e.methods[m].descriptor = d.methods[m].descriptor /\ e.methods[m].gen = d.methods[m].gen
  /\ \A r \in DOMAIN d.methodRefs:
       /\ e.methodRefs[r].class = d.methodRefs[r].class
       /\ e.methodRefs[r].descriptor = d.methodRefs[r].descriptor
       /\ e.methodRefs[r].gen = d.methodRefs[r].gen
       /\ e.methodRefs[r].edgeCount = d.methodRefs[r].edgeCount + From(newMethodEdges(d), r)
  /\ \A r \in DOMAIN d.classRefs:
       /\ e.classRefs[r].gen = d.classRefs[r].gen
       /\ e.classRefs[r].edgeCount = d.classRefs[r].edgeCount + From(newClassEdges(d), r)
  /\ DOMAIN e.methodEdges = DOMAIN d.methodEdges \cup newMethodEdges(d)

LEMMA LinkingLinks ==
  ASSUME NEW d, IsDb(d)
  PROVE  Linked(linkRefNodes(d), d)
<1> DEFINE ce == newClassEdges(d)
           me == newMethodEdges(d)
           classRefs == countFrom(d.classRefs, ce)
           classes == countTo(d.classes, ce)
           methodRefs == countFrom(d.methodRefs, me)
           methods == countTo(d.methods, me)
           classEdges == addEdges(d.classEdges, ce)
           methodEdges == addEdges(d.methodEdges, me)
           e == linkRefNodes(d)
<1>1. e = [d EXCEPT !.classRefs = classRefs, !.classes = classes, !.classEdges = classEdges,
                    !.methodRefs = methodRefs, !.methods = methods, !.methodEdges = methodEdges]
  BY DEF linkRefNodes
<1>2. DOMAIN methodEdges = DOMAIN d.methodEdges \cup me
  BY DEF addEdges
<1>3. /\ DOMAIN classes = DOMAIN d.classes
      /\ \A k \in DOMAIN d.classes:
           classes[k] = [body |-> d.classes[k].body, gen |-> d.classes[k].gen,
                         refCount |-> d.classes[k].refCount + To(ce, k)]
  BY DEF IsDb, countFrom, countTo
<1>4. /\ DOMAIN classRefs = DOMAIN d.classRefs
      /\ \A r \in DOMAIN d.classRefs:
           classRefs[r] = [gen |-> d.classRefs[r].gen, edgeCount |-> d.classRefs[r].edgeCount + From(ce, r)]
  BY DEF IsDb, countFrom, countTo
<1>5. /\ DOMAIN methods = DOMAIN d.methods
      /\ \A m \in DOMAIN d.methods:
           methods[m] = [gen |-> d.methods[m].gen, descriptor |-> d.methods[m].descriptor,
                         refCount |-> d.methods[m].refCount + To(me, m)]
  BY DEF IsDb, countFrom, countTo
<1>6. /\ DOMAIN methodRefs = DOMAIN d.methodRefs
      /\ \A r \in DOMAIN d.methodRefs:
           methodRefs[r] = [gen |-> d.methodRefs[r].gen, class |-> d.methodRefs[r].class,
                            descriptor |-> d.methodRefs[r].descriptor,
                            edgeCount |-> d.methodRefs[r].edgeCount + From(me, r)]
  BY DEF IsDb, countFrom, countTo
<1>7. /\ IsTable(classes, Files \X Classes) /\ IsTable(classRefs, Files \X Classes \X Classes)
      /\ IsTable(methods, Files \X Classes \X Names) /\ IsTable(methodRefs, Files \X Classes \X Names)
  BY DEF IsDb, IsTable, countFrom, countTo
<1> HIDE DEF ce, me, classRefs, classes, methodRefs, methods, classEdges, methodEdges, e
<1>8. e = [files |-> d.files, classes |-> classes, classRefs |-> classRefs,
           methods |-> methods, methodRefs |-> methodRefs,
           classEdges |-> classEdges, methodEdges |-> methodEdges, first |-> d.first, later |-> d.later]
  <2>1. d = [files |-> d.files, classes |-> d.classes, classRefs |-> d.classRefs,
             methods |-> d.methods, methodRefs |-> d.methodRefs,
             classEdges |-> d.classEdges, methodEdges |-> d.methodEdges, first |-> d.first, later |-> d.later]
    BY Zenon DEF IsDb
  <2> QED
    BY Zenon, <1>1, <2>1
<1>9. /\ \A k \in DOMAIN classes:
           /\ classes[k] = [body |-> classes[k].body, gen |-> classes[k].gen,
                            refCount |-> classes[k].refCount]
           /\ classes[k].body \in ClassBody
      /\ \A r \in DOMAIN classRefs:
           classRefs[r] = [gen |-> classRefs[r].gen, edgeCount |-> classRefs[r].edgeCount]
  BY <1>3, <1>4 DEF IsDb
<1>10. /\ \A m \in DOMAIN methods:
            methods[m] = [gen |-> methods[m].gen, descriptor |-> methods[m].descriptor,
                          refCount |-> methods[m].refCount]
       /\ \A r \in DOMAIN methodRefs:
            methodRefs[r] = [gen |-> methodRefs[r].gen, class |-> methodRefs[r].class,
                             descriptor |-> methodRefs[r].descriptor, edgeCount |-> methodRefs[r].edgeCount]
  <2>1. ASSUME NEW m \in DOMAIN methods
        PROVE  methods[m] = [gen |-> methods[m].gen, descriptor |-> methods[m].descriptor,
                             refCount |-> methods[m].refCount]
    BY <1>5 DEF IsDb
  <2>2. ASSUME NEW r \in DOMAIN methodRefs
        PROVE  methodRefs[r] = [gen |-> methodRefs[r].gen, class |-> methodRefs[r].class,
                                descriptor |-> methodRefs[r].descriptor,
                                edgeCount |-> methodRefs[r].edgeCount]
    BY <1>6 DEF IsDb
  <2> QED
    BY Zenon, <2>1, <2>2
<1>11. IsDb(e)
  <2>1. IsTable(d.files, Files)
    BY Zenon DEF IsDb
  <2> QED
    BY Zenon, <1>7, <1>8, <1>9, <1>10, <2>1 DEF IsDb
<1>12. /\ e.files = d.files /\ e.classes = classes /\ e.classRefs = classRefs /\ e.methods = methods
       /\ e.methodRefs = methodRefs /\ e.methodEdges = methodEdges /\ e.later = d.later
  BY Zenon, <1>8
<1>13. Linked(e, d)
  <2>1. \A k \in DOMAIN d.classes:
          e.classes[k].body = d.classes[k].body /\ e.classes[k].gen = d.classes[k].gen
    BY <1>3, <1>12 DEF IsDb
  <2>2. \A m \in DOMAIN d.methods:
          e.methods[m].descriptor = d.methods[m].descriptor /\ e.methods[m].gen = d.methods[m].gen
    BY <1>5, <1>12 DEF IsDb
  <2>3. \A r \in DOMAIN d.methodRefs:
          /\ e.methodRefs[r].class = d.methodRefs[r].class
          /\ e.methodRefs[r].descriptor = d.methodRefs[r].descriptor
          /\ e.methodRefs[r].gen = d.methodRefs[r].gen
          /\ e.methodRefs[r].edgeCount = d.methodRefs[r].edgeCount + From(me, r)
    BY <1>6, <1>12 DEF IsDb
  <2>4. \A r \in DOMAIN d.classRefs:
          /\ e.classRefs[r].gen = d.classRefs[r].gen
          /\ e.classRefs[r].edgeCount = d.classRefs[r].edgeCount + From(ce, r)
    BY <1>4, <1>12 DEF IsDb
  <2> QED
    BY <1>2, <1>3, <1>4, <1>5, <1>6, <1>11, <1>12, <2>1, <2>2, <2>3, <2>4, Zenon DEF Linked, ce, me
<1> QED
  BY <1>13 DEF e

LEMMA LinkedRows ==
  ASSUME NEW e, NEW d, Linked(e, d)
  PROVE  /\ AllExtracted(d) => AllExtracted(e)
         /\ \A f, classes, left: Stored(d, f, classes, left) => Stored(e, f, classes, left)
<1>1. ASSUME AllExtracted(d), NEW k \in DOMAIN e.classes
      PROVE  Extracted(e, k)
  <2>1. k \in DOMAIN d.classes /\ e.classes[k].body = d.classes[k].body
    BY DEF Linked
  <2>2. Extracted(d, k)
    BY <1>1, <2>1 DEF AllExtracted
  <2> QED
    BY <2>1, <2>2 DEF Extracted, Linked
<1>2. \A f, c, body: isClassfileUnchanged(d, f, c, body) => isClassfileUnchanged(e, f, c, body)
  BY DEF Linked, isClassfileUnchanged
<1> QED
  BY <1>1, <1>2 DEF AllExtracted, Stored

-----------------------------------------------------------------------------
(* What is linked and exported *)

\* The rows of all classes, but for those of some files, are in the database
Covers(d, except) ==
  /\ IsDb(d) /\ AllExtracted(d)
  /\ \A k \in Bodies: k[1] \notin except => k \in DOMAIN d.classes /\ d.classes[k].body = Body(k)

LEMMA BodyType ==
  ASSUME TypeInv, NEW k \in Bodies
  PROVE  /\ k \in Files \X Classes /\ k = <<k[1], k[2]>> /\ Body(k) \in ClassBody
         /\ Body(k).methods \subseteq Names \X Descriptors
         /\ Body(k).calls \subseteq Classes \X Names \X Descriptors
<1>1. k \in Files \X Classes /\ k[2] \in DOMAIN world[k[1]].classes /\ Body(k) # Broken
  BY DEF Bodies
<1>2. Body(k) \in ClassBody
  BY <1>1, ClassesOfFile DEF Body
<1> QED
  BY <1>1, <1>2 DEF ClassBody

LEMMA CalleeIs ==
  ASSUME NEW call, NEW callee
  PROVE  callee \in Callees(call) <=>
           \E b \in Bodies: /\ b[2] = call[1] /\ <<call[2], call[3]>> \in Body(b).methods
                            /\ callee = <<b[1], b[2], call[2], call[3]>>
BY DEF Callees

\* A call to a method has an edge from the reference to the method
LEMMA CallHasEdge ==
  ASSUME TypeInv, NEW d, NEW except, Covers(d, except), NamesDiffer,
         NEW k \in Bodies, NEW call \in Body(k).calls, NEW callee \in Callees(call),
         k[1] \notin except, callee[1] \notin except
  PROVE  [from |-> <<k[1], k[2], call[2]>>, owner |-> d.methodRefs[<<k[1], k[2], call[2]>>].gen,
          to |-> <<callee[1], callee[2], callee[3]>>] \in newMethodEdges(d)
<1>1. PICK b \in Bodies: /\ b[2] = call[1] /\ <<call[2], call[3]>> \in Body(b).methods
                         /\ callee = <<b[1], b[2], call[2], call[3]>>
  BY CalleeIs
<1> DEFINE r == <<k[1], k[2], call[2]>>
           m == <<b[1], b[2], call[2]>>
<1>2. r \in DOMAIN d.methodRefs /\ d.methodRefs[r].class = call[1] /\ d.methodRefs[r].descriptor = call[3]
  <2>1. Extracted(d, k) /\ d.classes[k].body = Body(k)
    BY DEF Covers, AllExtracted
  <2>2. Differ(Body(k).calls, 2)
    BY DEF NamesDiffer, Differ
  <2> QED
    BY <2>1, <2>2 DEF Extracted
<1>3. m \in DOMAIN d.methods /\ d.methods[m].descriptor = call[3]
  <2>1. Extracted(d, b) /\ d.classes[b].body = Body(b)
    <3>1. b[1] \notin except
      BY <1>1
    <3> QED
      BY <3>1 DEF Covers, AllExtracted
  <2>2. Differ(Body(b).methods, 1)
    BY DEF NamesDiffer, Differ
  <2> DEFINE x == <<call[2], call[3]>>
  <2>3. <<b[1], b[2], x[1]>> \in DOMAIN d.methods /\ d.methods[<<b[1], b[2], x[1]>>].descriptor = x[2]
    BY <1>1, <2>1, <2>2 DEF Extracted
  <2> QED
    BY <2>3
<1>4. m \in getMemberMatches(d, r)
  BY <1>1, <1>2, <1>3 DEF getMemberMatches
<1> HIDE DEF r
<1>5. [from |-> r, owner |-> d.methodRefs[r].gen, to |-> m] \in newMethodEdges(d)
  BY <1>2, <1>4, MethodEdges DEF Covers
<1> QED
  BY <1>1, <1>5 DEF r

\* In a database with no rows but those of the classes, an edge is a call to a
\* method
LEMMA EdgeIsCall ==
  ASSUME TypeInv, NEW d, IsDb(d), FreshRows(d), Bodies = DOMAIN d.classes,
         NEW e \in newMethodEdges(d)
  PROVE  LET k == <<e.from[1], e.from[2]>>
             ref == d.methodRefs[e.from]
             call == <<ref.class, e.from[3], ref.descriptor>>
         IN /\ k \in Bodies /\ call \in Body(k).calls
            /\ e.from \in DOMAIN d.methodRefs /\ e.owner = 0
            /\ e.to \in DOMAIN d.methods
            /\ <<e.to[1], e.to[2], e.to[3], d.methods[e.to].descriptor>> \in Callees(call)
<1> DEFINE k == <<e.from[1], e.from[2]>>
           ref == d.methodRefs[e.from]
           call == <<ref.class, e.from[3], ref.descriptor>>
           b == <<e.to[1], e.to[2]>>
<1>1. /\ e.from \in DOMAIN d.methodRefs /\ e.to \in getMemberMatches(d, e.from)
      /\ e.owner = ref.gen
  BY MethodEdges
<1>2. k \in Bodies /\ call \in Body(k).calls /\ e.owner = 0
  BY Zenon, <1>1 DEF FreshRows
<1>3. /\ e.to \in DOMAIN d.methods /\ e.to[2] = ref.class /\ e.to[3] = e.from[3]
      /\ d.methods[e.to].descriptor = ref.descriptor
  BY <1>1 DEF getMemberMatches
<1>4. b \in Bodies /\ <<e.to[3], d.methods[e.to].descriptor>> \in Body(b).methods
  BY Zenon, <1>3 DEF FreshRows
<1>5. /\ b[2] = call[1] /\ <<call[2], call[3]>> \in Body(b).methods
      /\ <<e.to[1], e.to[2], e.to[3], d.methods[e.to].descriptor>> = <<b[1], b[2], call[2], call[3]>>
  BY <1>3, <1>4
<1> HIDE DEF b, call
<1>6. <<e.to[1], e.to[2], e.to[3], d.methods[e.to].descriptor>> \in Callees(call)
  BY <1>4, <1>5, CalleeIs
<1> QED
  BY <1>1, <1>2, <1>3, <1>6 DEF call

\* What an analysis of the classes into an empty database exports
LEMMA FreshExport ==
  ASSUME TypeInv, NEW d, Covers(d, {}), FreshRows(d), Bodies = DOMAIN d.classes, NEW e, Linked(e, d)
  PROVE  /\ exporter(e).method \subseteq Lines
         /\ NamesDiffer => /\ exporter(e).method = Lines
                           /\ exporter(e).missing = LinesToNoMethod
                           /\ exporter(e).missingClass = LinesToNoClass
<1>link. ASSUME NamesDiffer, NEW k \in Bodies, NEW call \in Body(k).calls, NEW callee \in Callees(call)
         PROVE  [from |-> <<k[1], k[2], call[2]>>, owner |-> d.methodRefs[<<k[1], k[2], call[2]>>].gen,
                 to |-> <<callee[1], callee[2], callee[3]>>] \in newMethodEdges(d)
  <2> DEFINE none == {}
  <2>1. k[1] \notin none /\ callee[1] \notin none /\ Covers(d, none)
    OBVIOUS
  <2> HIDE DEF none
  <2> QED
    BY Zenon, <1>link, <2>1, CallHasEdge
<1>rows. /\ IsDb(d) /\ AllExtracted(d)
         /\ \A k \in Bodies: k \in DOMAIN d.classes /\ d.classes[k].body = Body(k)
  BY DEF Covers
<1> USE <1>rows
<1>1. \A k \in Bodies: isNode(e, k[1], k[2], 0)
  <2> TAKE k \in Bodies
  <2>1. k = <<k[1], k[2]>>
    BY Zenon, BodyType
  <2>2. k \in DOMAIN d.classes /\ d.classes[k].gen = 0
    BY Zenon DEF FreshRows
  <2>3. k \in DOMAIN e.classes /\ e.classes[k].gen = 0
    BY Zenon, <2>2 DEF Linked
  <2> QED
    BY Zenon, <2>1, <2>3 DEF isNode
<1>2. DOMAIN e.methodEdges = newMethodEdges(d)
  BY DEF Linked, FreshRows
<1>3. \A b \in Bodies: \A call: call \in Body(b).calls <=> <<b, call>> \in CallsOf
  BY DEF CallsOf
<1>4. \A p \in CallsOf: p = <<p[1], p[2]>> /\ p[1] \in Bodies /\ p[2] \in Body(p[1]).calls
  BY DEF CallsOf
<1>5. \A b \in Bodies: \A call: call \in Body(b).calls =>
        call = <<call[1], call[2], call[3]>> /\ call \in Classes \X Names \X Descriptors
  BY BodyType
<1>6. methodLines(e) \subseteq Lines
  <2> SUFFICES ASSUME NEW line \in methodLines(e)
               PROVE  line \in Lines
    OBVIOUS
  <2>1. PICK o \in newMethodEdges(d):
          line = <<<<o.from[1], o.from[2]>>, <<o.to[1], o.to[2], o.to[3], e.methods[o.to].descriptor>>>>
    BY <1>2 DEF methodLines
  <2> DEFINE k == <<o.from[1], o.from[2]>>
             call == <<d.methodRefs[o.from].class, o.from[3], d.methodRefs[o.from].descriptor>>
             callee == <<o.to[1], o.to[2], o.to[3], d.methods[o.to].descriptor>>
  <2>2. k \in Bodies /\ call \in Body(k).calls /\ callee \in Callees(call) /\ o.to \in DOMAIN d.methods
    BY EdgeIsCall
  <2>3. line = <<k, callee>>
    BY <2>1, <2>2 DEF Linked
  <2> HIDE DEF k, call, callee
  <2>4. <<k, call>> \in CallsOf
    BY <2>2, <1>3
  <2>5. line \in {<<<<k, call>>[1], x>> : x \in Callees(<<k, call>>[2])}
    BY <2>2, <2>3
  <2> QED
    BY <2>4, <2>5 DEF Lines
<1>7. ASSUME NamesDiffer
      PROVE  Lines \subseteq methodLines(e)
  <2> SUFFICES ASSUME NEW line \in Lines
               PROVE  line \in methodLines(e)
    OBVIOUS
  <2>1. PICK p \in CallsOf: line \in {<<p[1], callee>> : callee \in Callees(p[2])}
    BY DEF Lines
  <2>2. PICK callee \in Callees(p[2]): line = <<p[1], callee>>
    BY <2>1
  <2> DEFINE k == p[1]
             call == p[2]
             r == <<k[1], k[2], call[2]>>
             m == <<callee[1], callee[2], callee[3]>>
             o == [from |-> r, owner |-> d.methodRefs[r].gen, to |-> m]
  <2>3. k \in Bodies /\ call \in Body(k).calls
    BY <1>4
  <2>4. o \in newMethodEdges(d)
    BY Zenon, <1>7, <2>3, <1>link
  <2>5. o.from = r /\ o.to = m /\ o.owner = d.methodRefs[r].gen
    OBVIOUS
  <2>6. PICK b \in Bodies: callee = <<b[1], b[2], call[2], call[3]>>
    BY Zenon, CalleeIs
  <2> HIDE DEF o, r, k, call
  <2>7. o.owner = 0 /\ r \in DOMAIN d.methodRefs /\ m \in DOMAIN d.methods
    BY Zenon, <2>4, <2>5, EdgeIsCall
  <2>8. d.methods[m].descriptor = call[3]
    <3>1. m \in getMemberMatches(d, r)
      BY <2>4, <2>5, MethodEdges
    <3>2. /\ r \in DOMAIN d.methodRefs /\ d.methodRefs[r].descriptor = call[3]
      <4>1. Extracted(d, k) /\ d.classes[k].body = Body(k)
        BY <2>3 DEF AllExtracted
      <4>2. Differ(Body(k).calls, 2)
        BY <2>3, <1>7 DEF NamesDiffer, Differ
      <4> QED
        BY <4>1, <4>2, <2>3 DEF Extracted, r
    <3> QED
      BY <3>1, <3>2 DEF getMemberMatches
  <2>9. callee = <<m[1], m[2], m[3], e.methods[m].descriptor>> /\ e.methods[m].gen = 0
    <3>1. e.methods[m].descriptor = call[3] /\ e.methods[m].gen = d.methods[m].gen
      BY <2>7, <2>8 DEF Linked
    <3>2. d.methods[m].gen = 0
      BY Zenon, <2>7 DEF FreshRows
    <3>3. m[1] = b[1] /\ m[2] = b[2] /\ m[3] = call[2]
      BY <2>6
    <3> QED
      BY <2>6, <3>1, <3>2, <3>3
  <2>10. isNode(e, o.from[1], o.from[2], o.owner) /\ isNode(e, o.to[1], o.to[2], e.methods[o.to].gen)
    <3>1. o.from[1] = k[1] /\ o.from[2] = k[2]
      <4>1. r[1] = k[1] /\ r[2] = k[2]
        BY DEF r
      <4> QED
        BY Zenon, <2>5, <4>1
    <3>2. o.to[1] = b[1] /\ o.to[2] = b[2]
      BY <2>5, <2>6
    <3> QED
      BY <3>1, <3>2, <2>3, <2>5, <2>7, <2>9, <1>1
  <2>11. line = <<<<o.from[1], o.from[2]>>, <<o.to[1], o.to[2], o.to[3], e.methods[o.to].descriptor>>>>
    <3>1. k = <<k[1], k[2]>>
      BY <2>3, BodyType
    <3>2. <<o.from[1], o.from[2]>> = k
      BY <3>1, <2>5 DEF r
    <3> QED
      BY <3>2, <2>2, <2>5, <2>9 DEF k
  <2> QED
    BY <2>4, <2>10, <2>11, <1>2 DEF methodLines
<1>8. ASSUME NEW r \in DOMAIN d.methodRefs
      PROVE  /\ e.methodRefs[r].edgeCount = 0 <=> \A o \in newMethodEdges(d): o.from # r
             /\ e.methodRefs[r].gen = 0
             /\ e.methodRefs[r].class = d.methodRefs[r].class
             /\ e.methodRefs[r].descriptor = d.methodRefs[r].descriptor
             /\ <<r[1], r[2]>> \in Bodies
             /\ <<d.methodRefs[r].class, r[3], d.methodRefs[r].descriptor>> \in Body(<<r[1], r[2]>>).calls
             /\ r = <<r[1], r[2], r[3]>>
  <2>1. From(newMethodEdges(d), r) \in Nat
        /\ (From(newMethodEdges(d), r) = 0 <=> \A o \in newMethodEdges(d): o.from # r)
    BY NoEdges, MethodEdges
  <2>2. /\ d.methodRefs[r].edgeCount = 0 /\ d.methodRefs[r].gen = 0
        /\ <<r[1], r[2]>> \in Bodies
        /\ <<d.methodRefs[r].class, r[3], d.methodRefs[r].descriptor>> \in Body(<<r[1], r[2]>>).calls
    BY Zenon DEF FreshRows
  <2>3. /\ e.methodRefs[r].class = d.methodRefs[r].class
        /\ e.methodRefs[r].descriptor = d.methodRefs[r].descriptor
        /\ e.methodRefs[r].gen = d.methodRefs[r].gen
        /\ e.methodRefs[r].edgeCount = d.methodRefs[r].edgeCount + From(newMethodEdges(d), r)
    BY DEF Linked
  <2>4. r \in Files \X Classes \X Names
    BY DEF IsDb, IsTable
  <2>5. e.methodRefs[r].edgeCount = 0 <=> From(newMethodEdges(d), r) = 0
    BY ONLY <2>1, <2>2, <2>3
  <2>6. r = <<r[1], r[2], r[3]>>
    BY <2>4
  <2> QED
    BY <2>1, <2>2, <2>3, <2>5, <2>6, Zenon
<1>9. ASSUME NamesDiffer
      PROVE  missingLines(e) \subseteq LinesToNoMethod
  <2> SUFFICES ASSUME NEW line \in missingLines(e)
               PROVE  line \in LinesToNoMethod
    OBVIOUS
  <2>1. PICK r \in DOMAIN e.methodRefs:
          /\ e.methodRefs[r].edgeCount = 0
          /\ line = <<<<r[1], r[2]>>, <<e.methodRefs[r].class, r[3], e.methodRefs[r].descriptor>>>>
    BY DEF missingLines
  <2> DEFINE k == <<r[1], r[2]>>
             call == <<d.methodRefs[r].class, r[3], d.methodRefs[r].descriptor>>
  <2>2. r \in DOMAIN d.methodRefs
    BY DEF Linked
  <2>3. k \in Bodies /\ call \in Body(k).calls /\ line = <<k, call>>
    BY <2>1, <2>2, <1>8
  <2>4. ASSUME NEW callee \in Callees(call)
        PROVE  FALSE
    <3>1. r = <<k[1], k[2], call[2]>>
      BY Zenon, <2>2, <1>8
    <3> HIDE DEF k, call
    <3> DEFINE o == [from |-> r, owner |-> d.methodRefs[r].gen,
                     to |-> <<callee[1], callee[2], callee[3]>>]
    <3>2. o \in newMethodEdges(d)
      BY Zenon, <2>3, <2>4, <3>1, <1>9, <1>link
    <3>3. o.from = r
      OBVIOUS
    <3> HIDE DEF o
    <3>4. e.methodRefs[r].edgeCount # 0
      BY <3>2, <3>3, <2>2, <1>8, Zenon
    <3> QED
      BY <3>4, <2>1
  <2> HIDE DEF k, call
  <2>5. line \in CallsOf /\ line[2] = call
    BY <2>3, <1>3
  <2> QED
    BY <2>4, <2>5 DEF LinesToNoMethod
<1>10. ASSUME NamesDiffer
       PROVE  LinesToNoMethod \subseteq missingLines(e)
  <2> SUFFICES ASSUME NEW p \in CallsOf, Callees(p[2]) = {}
               PROVE  p \in missingLines(e)
    BY DEF LinesToNoMethod
  <2> DEFINE k == p[1]
             call == p[2]
             r == <<k[1], k[2], call[2]>>
  <2>1. p = <<k, call>> /\ k \in Bodies /\ call \in Body(k).calls /\ k = <<k[1], k[2]>>
    BY <1>4, BodyType
  <2>2. call = <<call[1], call[2], call[3]>>
    BY <2>1, <1>5
  <2>3. r \in DOMAIN d.methodRefs /\ d.methodRefs[r].class = call[1] /\ d.methodRefs[r].descriptor = call[3]
    <3>1. Extracted(d, k) /\ d.classes[k].body = Body(k)
      BY <2>1 DEF AllExtracted
    <3>2. Differ(Body(k).calls, 2)
      BY <2>1, <1>10 DEF NamesDiffer, Differ
    <3> HIDE DEF k, call
    <3> QED
      BY <3>1, <3>2, <2>1 DEF Extracted
  <2>4. r[1] = k[1] /\ r[2] = k[2] /\ r[3] = call[2]
    OBVIOUS
  <2> HIDE DEF k, call, r
  <2>5. ASSUME NEW o \in newMethodEdges(d), o.from = r
        PROVE  FALSE
    <3>1. <<d.methodRefs[r].class, r[3], d.methodRefs[r].descriptor>> = call
      BY <2>2, <2>3, <2>4
    <3>2. \E callee: callee \in Callees(call)
      BY Zenon, <3>1, <2>5, EdgeIsCall
    <3> QED
      BY <3>2 DEF call
  <2>6. e.methodRefs[r].edgeCount = 0 /\ e.methodRefs[r].gen = 0
    BY Zenon, <2>3, <2>5, <1>8
  <2>7. isNode(e, r[1], r[2], e.methodRefs[r].gen)
    BY <2>1, <2>4, <2>6, <1>1
  <2>8. p = <<<<r[1], r[2]>>, <<e.methodRefs[r].class, r[3], e.methodRefs[r].descriptor>>>>
    BY <2>1, <2>2, <2>3, <2>4, <1>8
  <2>9. r \in DOMAIN e.methodRefs
    BY <2>3 DEF Linked
  <2> QED
    BY <2>6, <2>7, <2>8, <2>9 DEF missingLines
<1>11. ASSUME NEW r \in DOMAIN d.classRefs
       PROVE  /\ e.classRefs[r].edgeCount = 0 <=> \A k \in Bodies: k[2] # r[3]
              /\ e.classRefs[r].gen = 0
              /\ <<r[1], r[2]>> \in Bodies
              /\ r[3] = r[2] \/ \E call \in Body(<<r[1], r[2]>>).calls: call[1] = r[3]
  <2>1. From(newClassEdges(d), r) \in Nat
        /\ (From(newClassEdges(d), r) = 0 <=> \A o \in newClassEdges(d): o.from # r)
    BY NoEdges, ClassEdges
  <2>2. d.classRefs[r].edgeCount = 0 /\ d.classRefs[r].gen = 0
    BY Zenon DEF FreshRows
  <2>3. (\A o \in newClassEdges(d): o.from # r) <=> classMatches(d, r) = {}
    <3>1. ASSUME NEW o \in newClassEdges(d), o.from = r
          PROVE  classMatches(d, r) # {}
      BY <3>1, ClassEdges
    <3>2. ASSUME NEW k \in classMatches(d, r)
          PROVE  \E o \in newClassEdges(d): o.from = r
      BY ClassEdges
    <3> QED
      BY <3>1, <3>2
  <2>4. classMatches(d, r) = {} <=> \A k \in Bodies: k[2] # r[3]
    BY DEF classMatches
  <2>5. /\ e.classRefs[r].gen = d.classRefs[r].gen
        /\ e.classRefs[r].edgeCount = d.classRefs[r].edgeCount + From(newClassEdges(d), r)
    BY DEF Linked
  <2>6. e.classRefs[r].edgeCount = 0 <=> From(newClassEdges(d), r) = 0
    BY ONLY <2>1, <2>2, <2>5
  <2>7. /\ <<r[1], r[2]>> \in Bodies
        /\ r[3] = r[2] \/ \E call \in Body(<<r[1], r[2]>>).calls: call[1] = r[3]
    BY DEF FreshRows
  <2> QED
    BY <2>1, <2>2, <2>3, <2>4, <2>5, <2>6, <2>7, Zenon
<1>12. missingClasses(e) \subseteq LinesToNoClass
  <2> SUFFICES ASSUME NEW line \in missingClasses(e)
               PROVE  line \in LinesToNoClass
    OBVIOUS
  <2>1. PICK r \in DOMAIN e.classRefs: e.classRefs[r].edgeCount = 0 /\ line = <<<<r[1], r[2]>>, r[3]>>
    BY DEF missingClasses
  <2> DEFINE k == <<r[1], r[2]>>
  <2>2. r \in DOMAIN d.classRefs
    BY DEF Linked
  <2>3. k \in Bodies /\ \A b \in Bodies: b[2] # r[3]
    BY <2>1, <2>2, <1>11
  <2>4. k[2] = r[2]
    OBVIOUS
  <2> HIDE DEF k
  <2>5. PICK call \in Body(k).calls: call[1] = r[3]
    BY <2>2, <2>3, <2>4, <1>11 DEF k
  <2> DEFINE p == <<k, call>>
  <2>6. p \in CallsOf /\ p[1] = k /\ p[2][1] = r[3]
    BY <2>3, <2>5, <1>3
  <2> HIDE DEF p
  <2>7. \A b \in Bodies: b[2] # p[2][1]
    BY <2>3, <2>6
  <2>8. line = <<p[1], p[2][1]>>
    BY <2>1, <2>6 DEF k
  <2> QED
    BY Zenon, <2>6, <2>7, <2>8 DEF LinesToNoClass
<1>13. LinesToNoClass \subseteq missingClasses(e)
  <2> SUFFICES ASSUME NEW p \in CallsOf, \A b \in Bodies: b[2] # p[2][1]
               PROVE  <<p[1], p[2][1]>> \in missingClasses(e)
    BY DEF LinesToNoClass
  <2> DEFINE k == p[1]
             call == p[2]
             r == <<k[1], k[2], call[1]>>
  <2>1. k \in Bodies /\ call \in Body(k).calls /\ k = <<k[1], k[2]>>
    BY <1>4, BodyType
  <2>2. r \in DOMAIN d.classRefs
    <3>1. Extracted(d, k) /\ d.classes[k].body = Body(k)
      BY <2>1 DEF AllExtracted
    <3> HIDE DEF k, call
    <3> QED
      BY <3>1, <2>1 DEF Extracted
  <2>3. r[1] = k[1] /\ r[2] = k[2] /\ r[3] = call[1]
    OBVIOUS
  <2> HIDE DEF r
  <2>4. e.classRefs[r].edgeCount = 0 /\ e.classRefs[r].gen = 0
    BY Zenon, <2>2, <2>3, <1>11
  <2>5. isNode(e, r[1], r[2], e.classRefs[r].gen)
    BY <2>1, <2>3, <2>4, <1>1
  <2>6. r \in DOMAIN e.classRefs /\ <<p[1], p[2][1]>> = <<<<r[1], r[2]>>, r[3]>>
    BY <2>1, <2>2, <2>3 DEF Linked
  <2> QED
    BY <2>4, <2>5, <2>6 DEF missingClasses
<1>14. CASE DOMAIN e.classes = {}
  <2>1. Bodies = {} /\ exporter(e) = NoGraph
    BY <1>14 DEF Linked, exporter
  <2>2. CallsOf = {}
    BY <2>1, <1>4
  <2>3. Lines = {}
    BY Zenon, <2>2 DEF Lines
  <2>4. LinesToNoMethod = {}
    BY Zenon, <2>2 DEF LinesToNoMethod
  <2>5. LinesToNoClass = {}
    BY Zenon, <2>2 DEF LinesToNoClass
  <2>6. /\ exporter(e).method = {} /\ exporter(e).missing = {}
        /\ exporter(e).missingClass = {}
    BY <2>1 DEF NoGraph
  <2> QED
    BY Zenon, <2>3, <2>4, <2>5, <2>6
<1>15. CASE DOMAIN e.classes # {}
  <2>1. /\ exporter(e).method = methodLines(e) /\ exporter(e).missing = missingLines(e)
        /\ exporter(e).missingClass = missingClasses(e)
    BY <1>15 DEF exporter
  <2> QED
    BY <2>1, <1>6, <1>7, <1>9, <1>10, <1>12, <1>13, Zenon
<1> QED
  BY <1>14, <1>15

-----------------------------------------------------------------------------
(* The steps of an analysis *)

LEMMA StoredRests ==
  ASSUME NEW d, NEW f, NEW classes, NEW left, NEW rest, left \subseteq rest, Stored(d, f, classes, left)
  PROVE  Stored(d, f, classes, rest)
BY DEF Stored

\* What holds of the new database and the files holds after a step that leaves
\* the files alone
LEMMA SameFiles ==
  ASSUME world' = world, past' = past
  PROVE  /\ \A f: Current(db', f, entries') => Current(db, f, entries)'
         /\ StampTells(db', entries') => StampTells(db, entries)'
         /\ StampTells(saved', {}) => StampTells(saved, {})'
         /\ FreshRows(db') => FreshRows(db)'
         /\ AllExtracted(db') => AllExtracted(db)'
         /\ IsDb(db') => IsDb(db)'
<1>1. \A f: Current(db', f, entries') => Current(db, f, entries)'
  BY DEF Current, Stored, isClassfileUnchanged
<1>2. StampTells(db', entries') => StampTells(db, entries)'
  BY DEF StampTells, Stored, isClassfileUnchanged
<1>3. StampTells(saved', {}) => StampTells(saved, {})'
  BY DEF StampTells, Stored, isClassfileUnchanged
<1>4. FreshRows(db') => FreshRows(db)'
  BY Zenon DEF FreshRows, Body
<1>5. AllExtracted(db') => AllExtracted(db)'
  OBVIOUS
<1>6. IsDb(db') => IsDb(db)'
  OBVIOUS
<1> QED
  BY <1>1, <1>2, <1>3, <1>4, <1>5, <1>6

\* The conjuncts of the invariant after a step of an analysis, in terms of the
\* files as they are
LEMMA AnalysisGoesOn ==
  ASSUME Inv, UNCHANGED <<world, past, saved, fresh, edits>>, pc' = "analysing",
         IsDb(db'), \A f \in DOMAIN db'.files: db'.files[f] \in 0..edits,
         todo' \subseteq todo, skipped' \subseteq Files, skipped' \cap todo' = {},
         AllExtracted(db'), StampTells(db', entries'),
         \A f \in Files \ todo': f \in skipped' \cap db'.later \/ Current(db', f, entries'),
         \A k \in entries': k[1] \in Files \ todo' /\ k[2] \in DOMAIN world[k[1]].classes,
         \A k \in entries': k[1] \in db'.later \/ Stamped(db', k[1]),
         fresh => /\ FreshRows(db') /\ skipped' = {} /\ DOMAIN db'.files \cap todo' = {}
                  /\ \A k \in DOMAIN db'.classes: k[1] \notin todo' /\ k \notin entries'
  PROVE  Inv'
<1>1. TypeInv'
  <2>1. IsDb(db)' /\ IsDb(saved)'
    BY SameFiles DEF Inv, TypeInv
  <2> QED
    BY <2>1 DEF Inv, TypeInv
<1>2. SavedInv'
  <2>1. StampTells(saved, {})'
    BY SameFiles DEF Inv, SavedInv
  <2> QED
    BY <2>1 DEF Inv, SavedInv
<1>3. AnalysisInv'
  <2>1. AllExtracted(db)' /\ StampTells(db, entries)'
    BY SameFiles
  <2>2. \A f \in Files \ todo': Mistaken' = skipped' \cap db'.later
                                /\ (f \in Mistaken' \/ Current(db, f, entries)')
    BY SameFiles DEF Mistaken
  <2>3. \A k \in entries': k[1] \in db'.later \/ Stamped(db, k[1])'
    BY DEF Stamped
  <2> QED
    BY <2>1, <2>2, <2>3, Zenon DEF AnalysisInv
<1>4. FreshInv'
  BY SameFiles DEF FreshInv
<1>5. CallsAreLinked' /\ ExportShowsCalls'
  BY DEF CallsAreLinked, ExportShowsCalls
<1>6. PastInv'
  BY DEF Inv, PastInv
<1> QED
  BY Zenon, <1>1, <1>2, <1>3, <1>4, <1>5, <1>6 DEF Inv

LEMMA AnalysisDies ==
  ASSUME Inv, UNCHANGED <<world, past, saved, db, fresh, edits, todo, skipped>>, pc' = "died"
  PROVE  Inv'
<1>1. TypeInv'
  BY DEF Inv, TypeInv
<1>2. SavedInv'
  <2>1. StampTells(saved, {})'
    BY SameFiles DEF Inv, SavedInv
  <2> QED
    BY <2>1 DEF Inv, SavedInv
<1>3. PastInv'
  BY DEF Inv, PastInv
<1> QED
  BY Zenon, <1>1, <1>2, <1>3 DEF Inv, AnalysisInv, FreshInv, CallsAreLinked, ExportShowsCalls

\* A file with the stamp that it had is what it was, and so is what is stored
LEMMA OneVersion ==
  ASSUME PastInv, NEW f \in Files, NEW v \in past[f], v.stamp = world[f].stamp
  PROVE  v = world[f]
BY Zenon DEF PastInv

LEMMA StampedIsCurrent ==
  ASSUME PastInv, NEW d, NEW left, StampTells(d, left), NEW f \in Files, Stamped(d, f), f \notin d.later
  PROVE  Current(d, f, left)
BY Zenon DEF PastInv, StampTells, Stamped, Current

LEMMA ProcessJarStep ==
  ASSUME Inv, NEW f \in Files, processJar(f)
  PROVE  Inv'
<1> USE DEF Inv
<1>1. /\ UNCHANGED <<world, past, saved, fresh, edits>> /\ pc = "analysing" /\ pc' = "analysing"
      /\ f \in todo /\ todo' = todo \ {f}
  BY DEF processJar
<1>2. /\ AllExtracted(db) /\ StampTells(db, entries)
      /\ \A g \in Files \ todo: g \in skipped \cap db.later \/ Current(db, g, entries)
      /\ \A k \in entries: k[1] \in Files \ todo /\ k[2] \in DOMAIN world[k[1]].classes
      /\ \A k \in entries: k[1] \in db.later \/ Stamped(db, k[1])
      /\ skipped \cap todo = {}
  BY Zenon, <1>1 DEF AnalysisInv, Mistaken
<1>3. /\ IsDb(db) /\ \A g \in DOMAIN db.files: db.files[g] \in 0..edits
      /\ skipped \subseteq Files /\ world[f].stamp \in 0..edits
  BY DEF TypeInv
<1>4. CASE isFileUnchanged(f)
  <2>1. skipped' = skipped \cup {f} /\ db' = db /\ entries' = entries
    BY <1>4 DEF processJar
  <2>2. f \in db.later \/ Current(db, f, entries)
    BY Zenon, <1>2, <1>4, StampedIsCurrent DEF Stamped, isFileUnchanged
  <2>3. \A g \in Files \ todo': g \in skipped' \cap db'.later \/ Current(db', g, entries')
    BY <1>1, <1>2, <2>1, <2>2
  <2>4. ~fresh
    BY <1>1, <1>4 DEF FreshInv, isFileUnchanged
  <2>5. /\ todo' \subseteq todo /\ skipped' \subseteq Files /\ skipped' \cap todo' = {}
        /\ \A k \in entries': k[1] \in Files \ todo' /\ k[2] \in DOMAIN world[k[1]].classes
    BY <1>1, <1>2, <1>3, <2>1
  <2> QED
    BY Zenon, <1>1, <1>2, <1>3, <2>1, <2>3, <2>4, <2>5, AnalysisGoesOn
<1>5. CASE ~isFileUnchanged(f)
  <2>1. /\ db' = getOrCreateFileRow(db, f) /\ skipped' = skipped
        /\ entries' = entries \cup {<<f, c>> : c \in DOMAIN world[f].classes}
    BY <1>5 DEF processJar
  <2>2. \A d: Stored(d, f, world[f].classes, entries')
    BY <2>1 DEF Stored
  <2>3. /\ IsDb(db') /\ \A g \in DOMAIN db'.files: db'.files[g] \in 0..edits
        /\ db'.classes = db.classes /\ db'.classRefs = db.classRefs /\ db'.methods = db.methods
        /\ db'.methodRefs = db.methodRefs /\ db'.methodEdges = db.methodEdges
        /\ \A g \in DOMAIN db.files: g # f => g \in DOMAIN db'.files /\ db'.files[g] = db.files[g]
        /\ DOMAIN db'.files = DOMAIN db.files \cup {f}
        /\ db.later \subseteq db'.later /\ db'.later \subseteq db.later \cup {f}
        /\ f \in db'.later \/ db'.files[f] = world[f].stamp
    <3>1. CASE f \in DOMAIN db.files
      <4>1. db' = [db EXCEPT !.later = @ \cup {f}]
        BY Zenon, <3>1, <2>1 DEF getOrCreateFileRow
      <4>2. /\ db' = [files |-> db.files, classes |-> db.classes, classRefs |-> db.classRefs,
                      methods |-> db.methods, methodRefs |-> db.methodRefs,
                      classEdges |-> db.classEdges, methodEdges |-> db.methodEdges,
                      first |-> db.first, later |-> db.later \cup {f}]
        BY <4>1, <1>3 DEF IsDb
      <4>3. /\ db'.files = db.files /\ db'.later = db.later \cup {f}
            /\ db'.classes = db.classes /\ db'.classRefs = db.classRefs /\ db'.methods = db.methods
            /\ db'.methodRefs = db.methodRefs /\ db'.methodEdges = db.methodEdges
            /\ db' = [files |-> db'.files, classes |-> db'.classes, classRefs |-> db'.classRefs,
                      methods |-> db'.methods, methodRefs |-> db'.methodRefs,
                      classEdges |-> db'.classEdges, methodEdges |-> db'.methodEdges,
                      first |-> db'.first, later |-> db'.later]
        BY <4>2
      <4>4. IsDb(db')
        BY Zenon, <4>3, <1>3 DEF IsDb
      <4> QED
        BY <4>3, <4>4, <3>1, <1>3
    <3>2. CASE f \notin DOMAIN db.files
      <4>1. db' = putFile(db, f)
        BY <3>2, <2>1 DEF getOrCreateFileRow
      <4>2. /\ IsDb(db')
            /\ DOMAIN db'.files = DOMAIN db.files \cup {f}
            /\ db'.files[f] = world[f].stamp
            /\ \A g \in DOMAIN db.files: g # f => db'.files[g] = db.files[g]
            /\ db'.classes = db.classes /\ db'.classRefs = db.classRefs /\ db'.methods = db.methods
            /\ db'.methodRefs = db.methodRefs /\ db'.methodEdges = db.methodEdges /\ db'.later = db.later
        BY <4>1, <1>3, FilePut
      <4> QED
        BY <4>2, <1>3, <3>2
    <3> QED
      BY <3>1, <3>2
  <2>4. AllExtracted(db') /\ (FreshRows(db) => FreshRows(db'))
        /\ \A g, classes, left: Stored(db', g, classes, left) <=> Stored(db, g, classes, left)
    BY Zenon, <2>3, <1>2, SameRows
  <2>5. \A g, classes: Stored(db, g, classes, entries) => Stored(db', g, classes, entries')
    <3>1. entries \subseteq entries'
      BY <2>1
    <3> QED
      BY Zenon, <2>4, <3>1, StoredRests
  <2>6. StampTells(db', entries')
    <3> SUFFICES ASSUME NEW g \in DOMAIN db'.files, g \notin db'.later,
                        NEW v \in past[g], v.stamp = db'.files[g]
                 PROVE  Stored(db', g, v.classes, entries')
      BY Zenon DEF StampTells
    <3>1. CASE g = f
      <4>1. v = world[f]
        BY Zenon, <3>1, <2>3, OneVersion
      <4> QED
        BY Zenon, <3>1, <4>1, <2>2
    <3>2. CASE g # f
      <4>1. g \in DOMAIN db.files /\ g \notin db.later /\ v.stamp = db.files[g]
        BY <3>2, <2>3
      <4> QED
        BY Zenon, <4>1, <2>5, <1>2 DEF StampTells
    <3> QED
      BY <3>1, <3>2
  <2>7. \A g \in Files \ todo': g \in skipped' \cap db'.later \/ Current(db', g, entries')
    <3> TAKE g \in Files \ todo'
    <3>1. CASE g = f
      BY Zenon, <3>1, <2>2 DEF Current
    <3>2. CASE g # f
      <4>1. g \in skipped \cap db.later \/ Current(db, g, entries)
        BY <3>2, <1>1, <1>2
      <4>2. CASE g \in skipped \cap db.later
        BY <4>2, <2>1, <2>3
      <4>3. CASE Current(db, g, entries)
        BY Zenon, <4>3, <2>5 DEF Current
      <4> QED
        BY <4>1, <4>2, <4>3
    <3> QED
      BY <3>1, <3>2
  <2>8. /\ \A k \in entries': k[1] \in Files \ todo' /\ k[2] \in DOMAIN world[k[1]].classes
        /\ \A k \in entries': k \in entries \/ k[1] = f
    BY <1>1, <1>2, <2>1
  <2>9. \A k \in entries': k[1] \in db'.later \/ Stamped(db', k[1])
    <3> TAKE k \in entries'
    <3>1. CASE k[1] = f
      BY <3>1, <2>3 DEF Stamped
    <3>2. CASE k[1] # f
      <4>1. k[1] \in db.later \/ Stamped(db, k[1])
        BY <3>2, <2>8, <1>2
      <4> QED
        BY <3>2, <4>1, <2>3 DEF Stamped
    <3> QED
      BY <3>1, <3>2
  <2>10. ASSUME fresh
         PROVE  /\ FreshRows(db') /\ skipped' = {} /\ DOMAIN db'.files \cap todo' = {}
                /\ \A k \in DOMAIN db'.classes: k[1] \notin todo' /\ k \notin entries'
    <3>1. /\ FreshRows(db) /\ skipped = {} /\ DOMAIN db.files \cap todo = {}
          /\ \A k \in DOMAIN db.classes: k[1] \notin todo /\ k \notin entries
      BY Zenon, <1>1, <2>10 DEF FreshInv
    <3>2. FreshRows(db') /\ skipped' = {}
      BY Zenon, <3>1, <2>1, <2>4
    <3>3. /\ DOMAIN db'.files = DOMAIN db.files \cup {f} /\ todo' = todo \ {f}
          /\ DOMAIN db'.classes = DOMAIN db.classes
      BY Zenon, <1>1, <2>3
    <3>4. DOMAIN db'.files \cap todo' = {}
      BY ONLY <3>1, <3>3
    <3>5. ASSUME NEW k \in DOMAIN db'.classes
          PROVE  k[1] \notin todo' /\ k \notin entries'
      <4>1. k[1] \notin todo /\ k \notin entries
        BY Zenon, <3>1, <3>3
      <4>2. k[1] # f
        BY Zenon, <1>1, <4>1
      <4> QED
        BY Zenon, <1>1, <4>1, <4>2, <2>8
    <3> QED
      BY Zenon, <3>2, <3>4, <3>5
  <2>11. todo' \subseteq todo /\ skipped' \subseteq Files /\ skipped' \cap todo' = {}
    BY <1>1, <1>2, <1>3, <2>1
  <2> QED
    BY Zenon, <1>1, <2>3, <2>4, <2>6, <2>7, <2>8, <2>9, <2>10, <2>11, AnalysisGoesOn
<1> QED
  BY <1>4, <1>5

LEMMA ProcessEntryStep ==
  ASSUME Inv, NEW f \in Jars, NEW c \in Classes, processEntry(f, c)
  PROVE  Inv'
<1> USE DEF Inv
<1> DEFINE body == world[f].classes[c]
           unchanged == isClassfileUnchanged(db, f, c, body) \/ body = Broken
<1>1. /\ UNCHANGED <<world, past, saved, fresh, edits, todo, skipped>>
      /\ pc = "analysing" /\ pc' \in {"analysing", "died"}
      /\ <<f, c>> \in entries /\ entries' = entries \ {<<f, c>>}
      /\ \/ pc' = "analysing" /\ unchanged /\ db' = db
         \/ pc' = "analysing" /\ ~unchanged /\ db' \in updateClass(db, f, c, body)
         \/ pc' = "died" /\ db' = db
  BY DEF processEntry
<1>2. /\ AllExtracted(db) /\ StampTells(db, entries)
      /\ \A g \in Files \ todo: g \in skipped \cap db.later \/ Current(db, g, entries)
      /\ \A k \in entries: k[1] \in Files \ todo /\ k[2] \in DOMAIN world[k[1]].classes
      /\ \A k \in entries: k[1] \in db.later \/ Stamped(db, k[1])
      /\ skipped \cap todo = {}
  BY Zenon, <1>1 DEF AnalysisInv, Mistaken
<1>3. /\ IsDb(db) /\ \A g \in DOMAIN db.files: db.files[g] \in 0..edits
      /\ skipped \subseteq Files /\ f \in Files
  BY GraphAssumption DEF TypeInv
<1> HIDE DEF unchanged
<1>4. fresh => /\ FreshRows(db) /\ skipped = {} /\ DOMAIN db.files \cap todo = {}
               /\ \A k \in DOMAIN db.classes: k[1] \notin todo /\ k \notin entries
  BY Zenon, <1>1 DEF FreshInv
<1>5. CASE pc' = "died" /\ db' = db
  BY Zenon, <1>1, <1>5, AnalysisDies
<1> DEFINE Mine(g, classes) == g = f => classes[c] = body
<1>6. \A g \in DOMAIN db.files: g \notin db.later =>
        \A v \in past[g]: v.stamp = db.files[g] => Mine(g, v.classes)
  <2> SUFFICES ASSUME f \in DOMAIN db.files, f \notin db.later, NEW v \in past[f], v.stamp = db.files[f]
               PROVE  v.classes[c] = body
    BY Zenon
  <2>1. Stamped(db, f)
    BY <1>1, <1>2
  <2>2. v = world[f]
    BY Zenon, <2>1, <1>3, OneVersion DEF Stamped
  <2> QED
    BY <2>2
<1>7. ASSUME pc' = "analysing", IsDb(db'), db'.files = db.files, db'.later = db.later, AllExtracted(db'),
             \A g, classes: Mine(g, classes) /\ Stored(db, g, classes, entries) => Stored(db', g, classes, entries'),
             fresh => /\ FreshRows(db')
                      /\ \A k \in DOMAIN db'.classes: k[1] \notin todo /\ k \notin entries'
      PROVE  Inv'
  <2>1. StampTells(db', entries')
    BY Zenon, <1>2, <1>6, <1>7 DEF StampTells
  <2>2. \A g: Current(db, g, entries) => Current(db', g, entries')
    BY Zenon, <1>7 DEF Current
  <2> HIDE DEF Mine
  <2>3. \A g \in Files \ todo': g \in skipped' \cap db'.later \/ Current(db', g, entries')
    BY Zenon, <1>1, <1>2, <1>7, <2>2
  <2>4. /\ \A k \in entries': k[1] \in Files \ todo' /\ k[2] \in DOMAIN world[k[1]].classes
        /\ \A k \in entries': k[1] \in db'.later \/ Stamped(db', k[1])
    BY Zenon, <1>1, <1>2, <1>7 DEF Stamped
  <2> QED
    BY Zenon, <1>1, <1>2, <1>3, <1>4, <1>7, <2>1, <2>3, <2>4, AnalysisGoesOn
<1>8. CASE pc' = "analysing" /\ unchanged /\ db' = db
  <2>1. \A g, classes: Mine(g, classes) /\ Stored(db, g, classes, entries) => Stored(db', g, classes, entries')
    BY <1>1, <1>8 DEF Stored, unchanged
  <2> HIDE DEF Mine
  <2>2. fresh => /\ FreshRows(db')
                 /\ \A k \in DOMAIN db'.classes: k[1] \notin todo /\ k \notin entries'
    BY Zenon, <1>1, <1>4, <1>8
  <2> QED
    BY Zenon, <1>2, <1>3, <1>7, <1>8, <2>1, <2>2
<1>9. CASE pc' = "analysing" /\ ~unchanged /\ db' \in updateClass(db, f, c, body)
  <2>1. c \in DOMAIN world[f].classes /\ f \notin todo
    BY <1>1, <1>2
  <2>2. body \in ClassBody /\ body # Broken
    BY <1>3, <1>9, <2>1, ClassesOfFile DEF unchanged
  <2>3. ClassPut(db', db, f, c, 0, body)
    BY <1>3, <1>9, <2>2, ClassIsPut DEF updateClass
  <2>4. IsDb(db') /\ db'.files = db.files /\ db'.later = db.later
    BY <2>3 DEF ClassPut
  <2>5. AllExtracted(db')
    BY <1>2, <1>3, <2>3, PutExtracts
  <2>6. \A g, classes: Mine(g, classes) /\ Stored(db, g, classes, entries) => Stored(db', g, classes, entries')
    <3> SUFFICES ASSUME NEW g, NEW classes, g = f => classes[c] = body, Stored(db, g, classes, entries)
                 PROVE  Stored(db', g, classes, entries')
      BY Zenon
    <3>1. entries \subseteq entries' \cup {<<f, c>>}
      BY <1>1
    <3> HIDE DEF body
    <3> QED
      BY <2>3, <3>1, PutKeepsStored
  <2> HIDE DEF Mine
  <2>7. ASSUME fresh
        PROVE  FreshRows(db') /\ \A k \in DOMAIN db'.classes: k[1] \notin todo /\ k \notin entries'
    <3>1. FreshRows(db')
      BY Zenon, <1>3, <1>4, <2>1, <2>2, <2>3, <2>7, FreshPut
    <3>2. DOMAIN db'.classes = DOMAIN db.classes \cup {<<f, c>>}
      BY <2>3 DEF ClassPut
    <3> QED
      BY <3>1, <3>2, <1>1, <1>4, <2>1, <2>7
  <2> QED
    BY Zenon, <1>7, <1>9, <2>4, <2>5, <2>6, <2>7
<1> QED
  BY Zenon, <1>1, <1>5, <1>8, <1>9

LEMMA DoClassFileStep ==
  ASSUME Inv, NEW f \in Files, doClassFile(f)
  PROVE  Inv'
<1> USE DEF Inv
<1> DEFINE c == CHOOSE x \in DOMAIN world[f].classes: TRUE
           body == world[f].classes[c]
<1>1. /\ UNCHANGED <<world, past, saved, fresh, edits, entries>> /\ pc = "analysing" /\ pc' = "analysing"
      /\ f \in todo /\ f \notin Jars /\ todo' = todo \ {f}
      /\ \/ isFileUnchanged(f) /\ skipped' = skipped \cup {f} /\ db' = db
         \/ ~isFileUnchanged(f) /\ skipped' = skipped /\ body = Broken /\ db' = db
         \/ /\ ~isFileUnchanged(f) /\ skipped' = skipped /\ body # Broken
            /\ db' \in replaceClass(putFile(db, f), f, c, body)
  BY DEF doClassFile
<1>2. /\ AllExtracted(db) /\ StampTells(db, entries)
      /\ \A g \in Files \ todo: g \in skipped \cap db.later \/ Current(db, g, entries)
      /\ \A k \in entries: k[1] \in Files \ todo /\ k[2] \in DOMAIN world[k[1]].classes
      /\ \A k \in entries: k[1] \in db.later \/ Stamped(db, k[1])
      /\ skipped \cap todo = {}
  BY Zenon, <1>1 DEF AnalysisInv, Mistaken
<1>3. /\ IsDb(db) /\ \A g \in DOMAIN db.files: db.files[g] \in 0..edits
      /\ skipped \subseteq Files /\ world[f].stamp \in 0..edits
  BY DEF TypeInv
<1>4. fresh => /\ FreshRows(db) /\ skipped = {} /\ DOMAIN db.files \cap todo = {}
               /\ \A k \in DOMAIN db.classes: k[1] \notin todo /\ k \notin entries
  BY Zenon, <1>1 DEF FreshInv
<1>5. c \in Classes /\ DOMAIN world[f].classes = {c} /\ (body # Broken => body \in ClassBody)
  <2>1. PICK x \in Classes: DOMAIN world[f].classes = {x}
    BY <1>1, ClassesOfFile
  <2>2. c = x
    BY <2>1
  <2> QED
    BY <2>1, <2>2, ClassesOfFile
<1> HIDE DEF c
<1>6. /\ todo' \subseteq todo /\ skipped' \subseteq Files /\ skipped' \cap todo' = {}
      /\ \A k \in entries': k[1] \in Files \ todo' /\ k[2] \in DOMAIN world[k[1]].classes
  BY Zenon, <1>1, <1>2, <1>3
<1>7. CASE \/ isFileUnchanged(f) /\ skipped' = skipped \cup {f} /\ db' = db
           \/ ~isFileUnchanged(f) /\ skipped' = skipped /\ body = Broken /\ db' = db
  <2>1. f \in skipped' \cap db.later \/ Current(db, f, entries)
    <3>1. CASE isFileUnchanged(f)
      BY <3>1, <1>2, <1>7, StampedIsCurrent DEF Stamped, isFileUnchanged
    <3>2. CASE body = Broken
      BY <3>2, <1>5 DEF Current, Stored
    <3> QED
      BY <1>7, <3>1, <3>2
  <2>2. \A g \in Files \ todo': g \in skipped' \cap db'.later \/ Current(db', g, entries')
    <3>1. skipped \subseteq skipped' /\ db' = db /\ entries' = entries
      BY <1>1, <1>7
    <3> QED
      BY Zenon, <1>1, <1>2, <2>1, <3>1
  <2>3. fresh => /\ FreshRows(db') /\ skipped' = {} /\ DOMAIN db'.files \cap todo' = {}
                 /\ \A k \in DOMAIN db'.classes: k[1] \notin todo' /\ k \notin entries'
    <3>1. fresh => ~isFileUnchanged(f)
      BY <1>1, <1>4 DEF isFileUnchanged
    <3> QED
      BY <1>1, <1>4, <1>7, <3>1
  <2>4. db' = db
    BY Zenon, <1>7
  <2> QED
    BY Zenon, <1>1, <1>2, <1>3, <1>6, <2>2, <2>3, <2>4, AnalysisGoesOn
<1>8. CASE db' \in replaceClass(putFile(db, f), f, c, body) /\ body # Broken /\ skipped' = skipped
  <2> DEFINE d == putFile(db, f)
             gen == IF <<f, c>> \in DOMAIN d.classes THEN d.classes[<<f, c>>].gen + 1 ELSE 0
  <2>1. db' \in extractNodes(PutClass(deleteClass(d, f, c), f, c, gen, body), f, c, gen, body)
    BY <1>8, Zenon DEF replaceClass
  <2> HIDE DEF d
  <2>2. /\ IsDb(d)
        /\ DOMAIN d.files = DOMAIN db.files \cup {f}
        /\ d.files[f] = world[f].stamp
        /\ \A g \in DOMAIN db.files: g # f => d.files[g] = db.files[g]
        /\ d.classes = db.classes /\ d.classRefs = db.classRefs /\ d.methods = db.methods
        /\ d.methodRefs = db.methodRefs /\ d.methodEdges = db.methodEdges /\ d.later = db.later
    BY <1>3, FilePut DEF d
  <2>3. ASSUME fresh
        PROVE  gen = 0
    <3>1. <<f, c>> \notin DOMAIN d.classes
      <4>1. \A k \in DOMAIN d.classes: k[1] # f
        BY Zenon, <1>1, <1>4, <2>2, <2>3
      <4> QED
        BY <4>1
    <3> QED
      BY <3>1
  <2>4. /\ AllExtracted(d) /\ (FreshRows(db) => FreshRows(d))
        /\ \A g, classes, left: Stored(d, g, classes, left) <=> Stored(db, g, classes, left)
    BY Zenon, <1>2, <2>2, SameRows
  <2> HIDE DEF gen
  <2>5. ClassPut(db', d, f, c, gen, body)
    BY Zenon, <1>5, <1>8, <2>1, <2>2, ClassIsPut
  <2>6. /\ IsDb(db') /\ db'.files = d.files /\ db'.later = db.later
        /\ DOMAIN db'.classes = DOMAIN db.classes \cup {<<f, c>>}
    BY Zenon, <2>2, <2>5 DEF ClassPut
  <2>7. AllExtracted(db')
    BY Zenon, <2>2, <2>4, <2>5, PutExtracts
  <2>8. \A g, classes: g # f /\ Stored(db, g, classes, entries) => Stored(db', g, classes, entries')
    <3>1. entries \subseteq entries' \cup {<<f, c>>}
      BY <1>1
    <3>2. ASSUME NEW g, NEW classes, g # f, Stored(db, g, classes, entries)
          PROVE  Stored(db', g, classes, entries')
      <4>1. Stored(d, g, classes, entries)
        BY Zenon, <2>4, <3>2
      <4>2. g = f => classes[c] = body
        BY Zenon, <3>2
      <4> HIDE DEF body
      <4> QED
        BY <2>5, <3>1, <4>1, <4>2, PutKeepsStored
    <3> QED
      BY Zenon, <3>2
  <2>9. Current(db', f, entries')
    <3>1. isClassfileUnchanged(db', f, c, body)
      BY <2>5, PutIsCurrent
    <3> QED
      BY <3>1, <1>5 DEF Current, Stored
  <2>10. StampTells(db', entries')
    <3> SUFFICES ASSUME NEW g \in DOMAIN db'.files, g \notin db'.later,
                        NEW v \in past[g], v.stamp = db'.files[g]
                 PROVE  Stored(db', g, v.classes, entries')
      BY Zenon DEF StampTells
    <3>1. CASE g = f
      <4>1. v = world[f]
        BY Zenon, <3>1, <2>2, <2>6, OneVersion
      <4> QED
        BY Zenon, <3>1, <4>1, <2>9 DEF Current
    <3>2. CASE g # f
      <4>1. g \in DOMAIN db.files /\ g \notin db.later /\ v.stamp = db.files[g]
        BY <3>2, <2>2, <2>6
      <4> QED
        BY Zenon, <3>2, <4>1, <2>8, <1>2 DEF StampTells
    <3> QED
      BY <3>1, <3>2
  <2>11. \A g \in Files \ todo': g \in skipped' \cap db'.later \/ Current(db', g, entries')
    <3> TAKE g \in Files \ todo'
    <3>1. CASE g = f
      BY Zenon, <3>1, <2>9
    <3>2. CASE g # f
      <4>1. g \in skipped \cap db.later \/ Current(db, g, entries)
        BY <3>2, <1>1, <1>2
      <4>2. CASE g \in skipped \cap db.later
        BY Zenon, <4>2, <1>8, <2>6
      <4>3. CASE Current(db, g, entries)
        BY Zenon, <3>2, <4>3, <2>8 DEF Current
      <4> QED
        BY <4>1, <4>2, <4>3
    <3> QED
      BY <3>1, <3>2
  <2>12. \A g \in DOMAIN db'.files: db'.files[g] \in 0..edits
    BY <1>3, <2>2, <2>6
  <2>13. ASSUME fresh
         PROVE  /\ FreshRows(db') /\ skipped' = {} /\ DOMAIN db'.files \cap todo' = {}
                /\ \A k \in DOMAIN db'.classes: k[1] \notin todo' /\ k \notin entries'
    <3>1. FreshRows(db')
      <4>1. ClassPut(db', d, f, c, 0, body)
        BY <2>3, <2>5, <2>13
      <4> QED
        BY Zenon, <4>1, <1>4, <1>5, <1>8, <2>2, <2>4, <2>13, FreshPut
    <3>2. <<f, c>> \notin entries
      BY <1>1, <1>2
    <3>3. /\ skipped = {} /\ DOMAIN db.files \cap todo = {}
          /\ \A k \in DOMAIN db.classes: k[1] \notin todo /\ k \notin entries
      BY Zenon, <1>4, <2>13
    <3>4. /\ DOMAIN db'.files = DOMAIN db.files \cup {f} /\ todo' = todo \ {f} /\ entries' = entries
          /\ DOMAIN db'.classes = DOMAIN db.classes \cup {<<f, c>>}
      BY Zenon, <1>1, <2>2, <2>6
    <3>5. DOMAIN db'.files \cap todo' = {}
      BY ONLY <3>3, <3>4
    <3>6. \A k \in DOMAIN db'.classes: k[1] \notin todo' /\ k \notin entries'
      <4> TAKE k \in DOMAIN db'.classes
      <4>1. CASE k = <<f, c>>
        BY ONLY <4>1, <3>2, <3>4
      <4>2. CASE k \in DOMAIN db.classes
        BY ONLY <4>2, <3>3, <3>4
      <4> QED
        BY <4>1, <4>2, <3>4
    <3> QED
      BY Zenon, <1>8, <3>1, <3>3, <3>5, <3>6
  <2>14. \A k \in entries': k[1] \in db'.later \/ Stamped(db', k[1])
    <3> TAKE k \in entries'
    <3>1. k[1] # f /\ (k[1] \in db.later \/ Stamped(db, k[1]))
      BY <1>1, <1>2
    <3> QED
      BY <3>1, <2>2, <2>6 DEF Stamped
  <2> QED
    BY Zenon, <1>1, <1>6, <2>6, <2>7, <2>10, <2>11, <2>12, <2>13, <2>14, AnalysisGoesOn
<1> QED
  BY <1>1, <1>7, <1>8

\* What is to be shown depends on the files only
LEMMA SameWorld ==
  ASSUME world' = world
  PROVE  /\ Bodies' = Bodies /\ NamesDiffer' = NamesDiffer
         /\ \A call: Callees(call)' = Callees(call)
         /\ \A k: Body(k)' = Body(k)
         /\ Lines' = Lines /\ LinesToNoMethod' = LinesToNoMethod /\ LinesToNoClass' = LinesToNoClass
<1>1. \A k: Body(k)' = Body(k)
  BY DEF Body
<1>2. Bodies' = Bodies
  BY <1>1 DEF Bodies
<1>3. NamesDiffer' = NamesDiffer
  BY <1>1, <1>2, Zenon DEF NamesDiffer
<1>4. \A call: Callees(call)' = Callees(call)
  BY <1>1, <1>2, Zenon DEF Callees
<1>5. CallsOf' = CallsOf
  <2>1. \A z: z \in CallsOf' <=> \E b \in Bodies: \E call \in Body(b).calls: z = <<b, call>>
    BY <1>1, <1>2 DEF CallsOf
  <2>2. \A z: z \in CallsOf <=> \E b \in Bodies: \E call \in Body(b).calls: z = <<b, call>>
    BY DEF CallsOf
  <2> HIDE DEF CallsOf
  <2>3. \A z: z \in CallsOf' <=> z \in CallsOf
    BY <2>1, <2>2
  <2> QED
    BY <2>3
<1>6. Lines' = Lines
  <2>1. \A z: z \in Lines' <=> \E p \in CallsOf: \E callee \in Callees(p[2]): z = <<p[1], callee>>
    BY <1>4, <1>5 DEF Lines
  <2>2. \A z: z \in Lines <=> \E p \in CallsOf: \E callee \in Callees(p[2]): z = <<p[1], callee>>
    BY DEF Lines
  <2>3. \A z: z \in Lines' <=> z \in Lines
    BY <2>1, <2>2
  <2> QED
    BY <2>3
<1>7. LinesToNoMethod' = LinesToNoMethod
  <2>1. \A p \in CallsOf: Callees(p[2])' = {} <=> Callees(p[2]) = {}
    BY <1>4
  <2> QED
    BY <1>5, <2>1 DEF LinesToNoMethod
<1>8. LinesToNoClass' = LinesToNoClass
  <2> DEFINE None_(q) == \A b \in Bodies: b[2] # q[2][1]
  <2>1. {q \in CallsOf: None_(q)}' = {q \in CallsOf: None_(q)}
    BY <1>2, <1>5
  <2> HIDE DEF None_
  <2>2. {<<p[1], p[2][1]>> : p \in {q \in CallsOf: None_(q)}'} = {<<p[1], p[2][1]>> : p \in {q \in CallsOf: None_(q)}}
    BY <2>1
  <2> QED
    BY <2>2, Zenon DEF LinesToNoClass, None_
<1> QED
  BY <1>1, <1>2, <1>3, <1>4, <1>6, <1>7, <1>8

\* The end of an analysis: every class is in the database, and so is what is
\* linked and exported
LEMMA EndStep ==
  ASSUME Inv, endAnalysis
  PROVE  Inv'
<1> USE DEF Inv
<1>1. /\ UNCHANGED <<world, past, fresh, todo, entries, skipped, edits>>
      /\ pc = "analysing" /\ todo = {} /\ entries = {}
      /\ \/ pc' = "died" /\ UNCHANGED <<db, saved>>
         \/ /\ pc' = "done" /\ db' = linkRefNodes(db)
            /\ graph' = exporter(db') /\ saved' = db'
  BY DEF endAnalysis
<1>2. CASE pc' = "died" /\ UNCHANGED <<db, saved>>
  BY <1>1, <1>2, AnalysisDies
<1>3. CASE /\ pc' = "done" /\ db' = linkRefNodes(db)
           /\ graph' = exporter(db') /\ saved' = db'
  <2>1. /\ AllExtracted(db) /\ StampTells(db, {})
        /\ \A g \in Files: g \in Mistaken \/ Current(db, g, {})
    BY <1>1 DEF AnalysisInv
  <2>2. IsDb(db) /\ \A g \in DOMAIN db.files: db.files[g] \in 0..edits
    BY DEF TypeInv
  <2>3. Linked(db', db)
    BY <1>3, <2>2, LinkingLinks
  <2>4. AllExtracted(db') /\ \A g, classes: Stored(db, g, classes, {}) => Stored(db', g, classes, {})
    BY Zenon, <2>1, <2>3, LinkedRows
  <2>5. IsDb(db') /\ db'.files = db.files /\ db'.later = db.later
    BY <2>3 DEF Linked
  <2>6. StampTells(db', {})
    BY <2>1, <2>4, <2>5 DEF StampTells
  <2>7. Covers(db, Mistaken)
    <3>1. ASSUME NEW k \in Bodies, k[1] \notin Mistaken
          PROVE  k \in DOMAIN db.classes /\ db.classes[k].body = Body(k)
      <4>1. /\ k[1] \in Files /\ k = <<k[1], k[2]>> /\ k[2] \in DOMAIN world[k[1]].classes
            /\ world[k[1]].classes[k[2]] # Broken
        BY DEF Bodies, Body
      <4>2. isClassfileUnchanged(db, k[1], k[2], world[k[1]].classes[k[2]])
        BY <2>1, <3>1, <4>1 DEF Current, Stored
      <4> QED
        BY <4>1, <4>2 DEF isClassfileUnchanged, Body
    <3> QED
      BY <2>1, <2>2, <3>1 DEF Covers
  <2>8. TypeInv'
    <3>1. IsDb(db)' /\ IsDb(saved)'
      BY <1>1, <1>3, <2>5, SameFiles
    <3> QED
      BY <1>1, <1>3, <2>2, <2>5, <3>1 DEF TypeInv
  <2>9. SavedInv'
    <3>1. StampTells(saved, {})'
      BY <1>1, <1>3, <2>6, SameFiles
    <3> QED
      BY <1>3, <2>4, <3>1 DEF SavedInv
  <2>10. AnalysisInv'
    <3>1. StampTells(db, entries)' /\ AllExtracted(db)'
      BY <1>1, <2>4, <2>6, SameFiles
    <3>2. \A g \in Files \ todo': g \in Mistaken' \/ Current(db, g, entries)'
      <4> TAKE g \in Files \ todo'
      <4>1. CASE g \in Mistaken
        BY Zenon, <4>1, <1>1, <2>5 DEF Mistaken
      <4>2. CASE Current(db, g, {})
        BY <4>2, <1>1, <2>4, SameFiles DEF Current
      <4> QED
        BY <4>1, <4>2, <2>1
    <3> QED
      BY <1>1, <3>1, <3>2 DEF AnalysisInv
  <2>11. FreshInv'
    BY <1>3 DEF FreshInv
  <2>12. /\ Bodies' = Bodies /\ NamesDiffer' = NamesDiffer /\ \A call: Callees(call)' = Callees(call)
         /\ \A k: Body(k)' = Body(k)
         /\ Lines' = Lines /\ LinesToNoMethod' = LinesToNoMethod /\ LinesToNoClass' = LinesToNoClass
    BY <1>1, SameWorld
  <2>13. CallsAreLinked'
    <3> SUFFICES ASSUME NamesDiffer', NEW k \in Bodies', NEW call \in Body(k)'.calls,
                        NEW callee \in Callees(call)', k[1] \notin Mistaken', callee[1] \notin Mistaken'
                 PROVE  \E e \in DOMAIN db'.methodEdges:
                          e.from = <<k[1], k[2], call[2]>> /\ e.to = <<callee[1], callee[2], callee[3]>>
      BY Zenon DEF CallsAreLinked
    <3>0. /\ NamesDiffer /\ k \in Bodies /\ call \in Body(k).calls /\ callee \in Callees(call)
          /\ k[1] \notin Mistaken /\ callee[1] \notin Mistaken
      <4>1. Mistaken' = Mistaken
        BY Zenon, <1>1, <2>5 DEF Mistaken
      <4> QED
        BY Zenon, <2>12, <4>1
    <3> DEFINE e == [from |-> <<k[1], k[2], call[2]>>,
                     owner |-> db.methodRefs[<<k[1], k[2], call[2]>>].gen,
                     to |-> <<callee[1], callee[2], callee[3]>>]
    <3>1. e \in newMethodEdges(db)
      BY Zenon, <2>7, <3>0, CallHasEdge
    <3>2. e \in DOMAIN db'.methodEdges
      BY Zenon, <2>3, <3>1 DEF Linked
    <3>3. e.from = <<k[1], k[2], call[2]>> /\ e.to = <<callee[1], callee[2], callee[3]>>
      BY Zenon
    <3> QED
      BY Zenon, <3>2, <3>3
  <2>14. ExportShowsCalls'
    <3> SUFFICES ASSUME fresh
                 PROVE  /\ graph'.method \subseteq Lines
                        /\ NamesDiffer => /\ graph'.method = Lines
                                          /\ graph'.missing = LinesToNoMethod
                                          /\ graph'.missingClass = LinesToNoClass
      BY <1>1, <2>12 DEF ExportShowsCalls
    <3>1. FreshRows(db) /\ skipped = {}
      BY Zenon, <1>1 DEF FreshInv
    <3>2. Covers(db, {})
      <4>1. Mistaken = {}
        BY <3>1 DEF Mistaken
      <4> QED
        BY Zenon, <2>7, <4>1
    <3>3. Bodies = DOMAIN db.classes
      <4>1. \A k \in DOMAIN db.classes: k \in Bodies
        BY Zenon, <2>2, <3>1 DEF FreshRows, Bodies, IsDb, IsTable
      <4> QED
        BY <4>1, <3>2 DEF Covers
    <3> QED
      BY <1>3, <2>3, <3>1, <3>2, <3>3, FreshExport
  <2>15. PastInv'
    BY <1>1 DEF PastInv
  <2> QED
    BY Zenon, <2>8, <2>9, <2>10, <2>11, <2>13, <2>14, <2>15
<1> QED
  BY <1>1, <1>2, <1>3

LEMMA StartStep ==
  ASSUME Inv, NEW rebuild \in BOOLEAN, start(rebuild)
  PROVE  Inv'
<1> USE DEF Inv
<1>1. /\ UNCHANGED <<world, past, edits>> /\ pc' = "analysing"
      /\ db' = EmptyDb \/ db' = saved
      /\ saved' = db' /\ fresh' = (db' = EmptyDb)
      /\ todo' = Files /\ entries' = {} /\ skipped' = {}
  BY DEF start
<1>2. /\ IsDb(db') /\ AllExtracted(db') /\ StampTells(db', {})
      /\ \A g \in DOMAIN db'.files: db'.files[g] \in 0..edits
  <2>1. CASE db' = EmptyDb
    BY <2>1, EmptyIsDb DEF StampTells
  <2>2. CASE db' = saved
    BY <2>2 DEF TypeInv, SavedInv
  <2> QED
    BY <1>1, <2>1, <2>2
<1>3. fresh' => FreshRows(db') /\ DOMAIN db'.classes = {} /\ DOMAIN db'.files = {}
  BY Zenon, <1>1, EmptyIsDb
<1>4. fresh' \in BOOLEAN
  BY <1>1, Zenon
<1>5. TypeInv'
  <2>1. IsDb(db)' /\ IsDb(saved)'
    BY Zenon, <1>1, <1>2, SameFiles
  <2> QED
    BY <1>1, <1>2, <1>4, <2>1 DEF TypeInv
<1>6. SavedInv' /\ AnalysisInv'
  <2>1. StampTells(saved, {})' /\ StampTells(db, entries)' /\ AllExtracted(db)'
    BY Zenon, <1>1, <1>2, SameFiles
  <2> QED
    BY Zenon, <1>1, <1>2, <2>1 DEF SavedInv, AnalysisInv
<1>7. FreshInv'
  BY <1>1, <1>3, SameFiles DEF FreshInv
<1>8. CallsAreLinked' /\ ExportShowsCalls'
  BY <1>1 DEF CallsAreLinked, ExportShowsCalls
<1>9. PastInv'
  BY <1>1 DEF PastInv
<1> QED
  BY Zenon, <1>5, <1>6, <1>7, <1>8, <1>9

\* A new version of a file has a stamp that no row has
LEMMA EditStep ==
  ASSUME Inv, NEW f \in Files, edit(f)
  PROVE  Inv'
<1> USE DEF Inv
<1>1. /\ edits' = edits + 1 /\ pc' = "idle"
      /\ UNCHANGED <<saved, db, fresh, todo, skipped>>
  BY DEF edit
<1>2. PICK new \in past[f] \cup [stamp : {edits + 1}, classes : Contents[f]]:
        /\ world' = [world EXCEPT ![f] = new]
        /\ past' = [past EXCEPT ![f] = @ \cup {new}]
  BY Zenon DEF edit
<1>3. /\ edits \in Nat
      /\ world = [g \in Files |-> [stamp |-> world[g].stamp, classes |-> world[g].classes]]
      /\ \A g \in Files: world[g].stamp \in 0..edits /\ world[g].classes \in Contents[g]
      /\ past = [g \in Files |-> past[g]]
      /\ \A g \in Files: world[g] \in past[g]
      /\ \A g \in Files: \A v \in past[g]:
           /\ v = [stamp |-> v.stamp, classes |-> v.classes]
           /\ v.stamp \in 0..edits /\ v.classes \in Contents[g]
      /\ \A g \in Files: \A v, w \in past[g]: v.stamp = w.stamp => v = w
  BY Zenon DEF TypeInv, PastInv
<1>4. /\ world' = [g \in Files |-> world'[g]] /\ past' = [g \in Files |-> past'[g]]
      /\ world'[f] = new /\ past'[f] = past[f] \cup {new}
      /\ \A g \in Files: g # f => world'[g] = world[g] /\ past'[g] = past[g]
  BY <1>2, <1>3
<1>5. new \in past[f] \/ new.stamp = edits + 1
  BY <1>2
<1>6. \A g \in Files: \A v \in past'[g]:
        /\ v = [stamp |-> v.stamp, classes |-> v.classes]
        /\ v.stamp \in 0..(edits + 1) /\ v.classes \in Contents[g]
        /\ v \in past[g] \/ (v = new /\ v.stamp = edits + 1)
  <2> TAKE g \in Files
  <2> TAKE v \in past'[g]
  <2>1. CASE v \in past[g]
    BY <2>1, <1>3
  <2>2. CASE v \notin past[g]
    <3>1. g = f /\ v = new /\ v \in [stamp : {edits + 1}, classes : Contents[f]]
      BY <2>2, <1>2, <1>4
    <3>2. v = [stamp |-> v.stamp, classes |-> v.classes] /\ v.stamp = edits + 1 /\ v.classes \in Contents[f]
      BY <3>1
    <3> QED
      BY <3>1, <3>2, <1>3
  <2> QED
    BY <2>1, <2>2
<1>7. \A g \in Files: world'[g] \in past'[g]
  BY <1>3, <1>4
<1>8. PastInv'
  <2>1. ASSUME NEW g \in Files, NEW v \in past'[g], NEW w \in past'[g], v.stamp = w.stamp
        PROVE  v = w
    <3>1. CASE v \in past[g] /\ w \in past[g]
      BY Zenon, <3>1, <2>1, <1>3
    <3>2. CASE v \notin past[g] /\ w \notin past[g]
      BY Zenon, <3>2, <1>6
    <3>3. CASE v \in past[g] /\ w \notin past[g]
      <4>1. v.stamp \in 0..edits /\ w.stamp = edits + 1
        BY Zenon, <3>3, <1>3, <1>6
      <4> QED
        BY ONLY <4>1, <2>1, <1>3
    <3>4. CASE v \notin past[g] /\ w \in past[g]
      <4>1. w.stamp \in 0..edits /\ v.stamp = edits + 1
        BY Zenon, <3>4, <1>3, <1>6
      <4> QED
        BY ONLY <4>1, <2>1, <1>3
    <3> QED
      BY Zenon, <3>1, <3>2, <3>3, <3>4
  <2> QED
    BY Zenon, <1>1, <1>4, <1>6, <1>7, <2>1 DEF PastInv
<1>9. TypeInv'
  <2>1. /\ \A g \in DOMAIN saved.files: saved.files[g] \in 0..(edits + 1)
        /\ \A g \in DOMAIN db.files: db.files[g] \in 0..(edits + 1)
    BY <1>3 DEF TypeInv
  <2>2. \A g \in Files: /\ world'[g] = [stamp |-> world'[g].stamp, classes |-> world'[g].classes]
                        /\ world'[g].stamp \in 0..edits' /\ world'[g].classes \in Contents[g]
    BY Zenon, <1>1, <1>6, <1>7
  <2>3. world' = [g \in Files |-> [stamp |-> world'[g].stamp, classes |-> world'[g].classes]]
    BY <1>4, <2>2
  <2>4. edits' \in Nat
    BY <1>1, <1>3
  <2> QED
    BY Zenon, <1>1, <2>1, <2>2, <2>3, <2>4 DEF TypeInv
<1>10. SavedInv'
  <2>1. StampTells(saved, {})'
    <3> SUFFICES ASSUME NEW g \in DOMAIN saved.files, g \notin saved.later,
                        NEW v \in past'[g], v.stamp = saved.files[g]
                 PROVE  Stored(saved', g, v.classes, {})
      BY Zenon, <1>1 DEF StampTells
    <3>1. g \in Files /\ saved.files[g] \in 0..edits
      BY Zenon DEF TypeInv, IsDb, IsTable
    <3>2. v.stamp # edits + 1
      BY ONLY <3>1, <1>3, v.stamp = saved.files[g]
    <3>3. v \in past[g]
      BY Zenon, <3>1, <3>2, <1>6
    <3>4. Stored(saved, g, v.classes, {})
      BY Zenon, <3>3 DEF SavedInv, StampTells
    <3> QED
      BY Zenon, <3>4, <1>1
  <2> QED
    BY Zenon, <1>1, <2>1 DEF SavedInv
<1> QED
  BY Zenon, <1>1, <1>8, <1>9, <1>10 DEF AnalysisInv, FreshInv, CallsAreLinked, ExportShowsCalls

LEMMA StutterStep ==
  ASSUME Inv, UNCHANGED vars
  PROVE  Inv'
<1> USE DEF Inv, vars
<1>1. TypeInv'
  BY DEF TypeInv
<1>2. SavedInv'
  BY SameFiles DEF SavedInv
<1>3. AnalysisInv'
  <2>1. pc \in {"analysing", "done"} =>
          /\ AllExtracted(db)' /\ StampTells(db, entries)'
          /\ \A f \in Files \ todo: f \in Mistaken \/ Current(db, f, entries)'
    BY SameFiles DEF AnalysisInv
  <2>2. Mistaken' = Mistaken /\ \A f: Stamped(db, f)' <=> Stamped(db, f)
    BY DEF Mistaken, Stamped
  <2> QED
    BY Zenon, <2>1, <2>2 DEF AnalysisInv
<1>4. FreshInv'
  BY SameFiles DEF FreshInv
<1>5. CallsAreLinked' /\ ExportShowsCalls'
  <2>1. CallsAreLinked'
    <3>1. /\ Bodies' = Bodies /\ NamesDiffer' = NamesDiffer /\ \A call: Callees(call)' = Callees(call)
          /\ \A k: Body(k)' = Body(k)
      BY SameWorld
    <3>2. Mistaken' = Mistaken
      BY DEF Mistaken
    <3> SUFFICES ASSUME pc = "done", NamesDiffer', NEW k \in Bodies', NEW call \in Body(k)'.calls,
                        NEW callee \in Callees(call)', k[1] \notin Mistaken', callee[1] \notin Mistaken'
                 PROVE  \E e \in DOMAIN db'.methodEdges:
                          e.from = <<k[1], k[2], call[2]>> /\ e.to = <<callee[1], callee[2], callee[3]>>
      BY Zenon DEF CallsAreLinked
    <3>3. /\ NamesDiffer /\ k \in Bodies /\ call \in Body(k).calls /\ callee \in Callees(call)
          /\ k[1] \notin Mistaken /\ callee[1] \notin Mistaken
      BY Zenon, <3>1, <3>2
    <3> QED
      BY Zenon, <3>3 DEF CallsAreLinked
  <2>2. ExportShowsCalls'
    <3> SUFFICES ASSUME pc = "done", fresh
                 PROVE  /\ graph.method \subseteq Lines
                        /\ NamesDiffer => /\ graph.method = Lines
                                          /\ graph.missing = LinesToNoMethod
                                          /\ graph.missingClass = LinesToNoClass
      BY SameWorld, Zenon DEF ExportShowsCalls
    <3> QED
      BY DEF ExportShowsCalls
  <2> QED
    BY <2>1, <2>2
<1>6. PastInv'
  BY DEF PastInv
<1> QED
  BY Zenon, <1>1, <1>2, <1>3, <1>4, <1>5, <1>6

LEMMA GraphInit == Init => Inv
<1> SUFFICES ASSUME Init
             PROVE  Inv
  OBVIOUS
<1> USE DEF Init
<1>1. TypeInv
  <2>1. /\ edits \in Nat
        /\ world = [f \in Files |-> [stamp |-> world[f].stamp, classes |-> world[f].classes]]
        /\ \A f \in Files: world[f].stamp \in 0..edits /\ world[f].classes \in Contents[f]
        /\ todo \subseteq Files /\ skipped \subseteq Files /\ fresh \in BOOLEAN
    OBVIOUS
  <2>2. /\ IsDb(saved) /\ IsDb(db) /\ DOMAIN saved.files = {} /\ DOMAIN db.files = {}
    BY Zenon, EmptyIsDb
  <2> QED
    BY Zenon, <2>1, <2>2 DEF TypeInv
<1>2. SavedInv
  BY EmptyIsDb DEF SavedInv, StampTells
<1>3. PastInv
  <2>1. /\ edits = 0 /\ past = [f \in Files |-> {world[f]}]
        /\ \A f \in Files: /\ world[f] = [stamp |-> world[f].stamp, classes |-> world[f].classes]
                            /\ world[f].stamp = 0 /\ world[f].classes \in Contents[f]
    OBVIOUS
  <2>2. past = [f \in Files |-> past[f]] /\ \A f \in Files: past[f] = {world[f]}
    BY <2>1
  <2>3. \A f \in Files: world[f].stamp \in 0..edits
    BY <2>1
  <2>4. \A f \in Files: world[f] \in past[f] /\ \A v \in past[f]: v = world[f]
    BY <2>2
  <2> HIDE DEF Init
  <2> QED
    BY Zenon, <2>1, <2>2, <2>3, <2>4 DEF PastInv
<1> QED
  BY <1>1, <1>2, <1>3 DEF Inv, AnalysisInv, FreshInv, CallsAreLinked, ExportShowsCalls

LEMMA GraphStep == Inv /\ [Next]_vars => Inv'
<1> SUFFICES ASSUME Inv, [Next]_vars
             PROVE  Inv'
  OBVIOUS
<1>1. ASSUME NEW rebuild \in BOOLEAN, start(rebuild)
      PROVE  Inv'
  BY <1>1, StartStep
<1>2. CASE endAnalysis
  BY <1>2, EndStep
<1>3. ASSUME NEW f \in Files, edit(f) \/ processJar(f) \/ doClassFile(f)
      PROVE  Inv'
  BY <1>3, EditStep, ProcessJarStep, DoClassFileStep
<1>4. ASSUME NEW f \in Jars, NEW c \in Classes, processEntry(f, c)
      PROVE  Inv'
  BY <1>4, ProcessEntryStep
<1>5. CASE UNCHANGED vars
  BY <1>5, StutterStep
<1> QED
  BY <1>1, <1>2, <1>3, <1>4, <1>5 DEF Next

LEMMA GraphInvariance == Spec => []Inv
BY GraphInit, GraphStep, PTL DEF Spec

-----------------------------------------------------------------------------
(* The theorems *)

\* However often and into whatever database any files are analysed, in whatever
\* order their classes are worked on, every call of an analysed class to a method
\* of an analysed class has its edge, if names tell the methods and calls of a
\* class apart, and neither is in a jar that was skipped because it is the first
\* one again after others (linkMemberRefs() over what extractNodes() recorded)
THEOREM EveryCallIsLinked == Spec => []CallsAreLinked
<1>1. Inv => CallsAreLinked
  BY DEF Inv
<1> QED
  BY <1>1, GraphInvariance, PTL

\* After an analysis of any files into an empty database the exported graph has a
\* line for each call and for each reference that leads nowhere, and no others
\* (CallGraphExporter over what linkRefNodes() linked)
THEOREM ExportIsExact == Spec => []ExportShowsCalls
<1>1. Inv => ExportShowsCalls
  BY DEF Inv
<1> QED
  BY <1>1, GraphInvariance, PTL

\* A file that is skipped for its size and time is in the database as it is, even
\* if it is one of before again, unless it is a jar that was analysed under other
\* ones since the row with its stamp was made (isFileUnchanged() and doClassFile())
THEOREM SkippingIsSafe == Spec => []SkippedIsCurrent
<1>1. Inv => SkippedIsCurrent
  <2> SUFFICES ASSUME Inv, pc = "done", NEW f \in skipped \ Mistaken, NEW c \in DOMAIN world[f].classes,
                      world[f].classes[c] # Broken
               PROVE  isClassfileUnchanged(db, f, c, world[f].classes[c])
    BY DEF SkippedIsCurrent
  <2>1. f \in Files /\ todo = {} /\ entries = {}
    BY DEF Inv, TypeInv, AnalysisInv
  <2>2. Current(db, f, {})
    BY <2>1 DEF Inv, AnalysisInv
  <2> QED
    BY <2>2 DEF Current, Stored
<1> QED
  BY <1>1, GraphInvariance, PTL

\* The database keeps up with the files: both of these
THEOREM GraphKeepsUp == Spec => []GraphIsUpToDate
<1>1. CallsAreLinked /\ SkippedIsCurrent => GraphIsUpToDate
  BY DEF GraphIsUpToDate
<1> QED
  BY <1>1, EveryCallIsLinked, SkippingIsSafe, PTL

=============================================================================
