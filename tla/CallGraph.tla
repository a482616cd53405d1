------------------------------ MODULE CallGraph ------------------------------
(***************************************************************************)
(* Call graphs: what analyses of jars and class files leave in the         *)
(* call-graph database, how references are linked to what they name, and   *)
(* what is exported.                                                       *)
(*                                                                         *)
(* Tables are functions from the keys of their rows.  A row that is added  *)
(* or updated under a key keeps its id, so that the key stands for the id; *)
(* the row of a class file that is replaced is archived, and `gen' tells   *)
(* the class rows of one key apart.  A method stands for a member: fields  *)
(* go the same way through tables of their own.  Class files and the       *)
(* entries of jars are analysed in parallel, but each touches the rows of  *)
(* its own keys only: one is one step.  Rows that are updated are taken to *)
(* be saved (see Table for the marks that addOrUpdate() may lose), and     *)
(* --use-file-timestamp has its default, which is on.                      *)
(***************************************************************************)
EXTENDS Naturals, FiniteSets, FiniteSetsExt

CONSTANTS
  Files, Jars,     \* Jars is a subset of Files, the others are class files
  Classes, Names, Descriptors,
  Contents,        \* file to the contents it can have: class to body
  Broken,          \* the body of a class that does not parse
  MaxEdits, MaxAnalyses

\* Methods by name and descriptor, calls by class, name and descriptor
ClassBody ==
  [methods : SUBSET (Names \X Descriptors), calls : SUBSET (Classes \X Names \X Descriptors)]

ASSUME GraphAssumption ==
  /\ IsFiniteSet(Files) /\ IsFiniteSet(Classes) /\ IsFiniteSet(Names)
  /\ Jars \subseteq Files
  /\ \A f \in Files: \A classes \in Contents[f]:
       /\ \E S \in SUBSET Classes: classes \in [S -> ClassBody \cup {Broken}]
       /\ f \notin Jars => \E c \in Classes: DOMAIN classes = {c}

VARIABLES
  world,      \* file to stamp and classes
  past,       \* history: what each file has been
  analysed,   \* the world at the last complete analysis, if any
  saved,      \* the database files
  db,         \* the database in memory
  fresh,      \* that was empty when the last analysis began
  todo,       \* files of the running analysis that it has not come to
  entries,    \* entries of jars that it has opened and not come to
  skipped,    \* files that it found unchanged
  graph,      \* what the exporter wrote
  pc,         \* "idle", "analysing", "done", "died"
  edits, analyses

vars == <<world, past, analysed, saved, db, fresh, todo, entries, skipped, graph, pc, edits, analyses>>

None == <<>>

NoGraph == [class |-> {}, method |-> {}, missingClass |-> {}, missing |-> {}]

\* later is history: jars that were analysed again under another stamp than
\* that of their row
EmptyDb ==
  [files |-> None, classes |-> None, classRefs |-> None, methods |-> None,
   methodRefs |-> None, classEdges |-> None, methodEdges |-> None, first |-> None, later |-> {}]

\* Rows put into a table: addOrUpdate() overwrites the row of a key
Upsert(table, new) ==
  [k \in DOMAIN table \cup DOMAIN new |-> IF k \in DOMAIN new THEN new[k] ELSE table[k]]

-----------------------------------------------------------------------------
(* ClassFileProcessor *)

\* Members of one name, which is their component at, share a key: the last one
\* that is recorded stays
LastOfName(members, at) ==
  {f \in [{x[at] : x \in members} -> members] : \A n \in DOMAIN f: f[n][at] = n}

recordMethods(f, c, gen, last) ==
  [k \in {<<f, c, n>> : n \in DOMAIN last} |->
     [gen |-> gen, descriptor |-> last[k[3]][2], refCount |-> 0]]

recordMethodRefs(f, c, gen, last) ==
  [k \in {<<f, c, n>> : n \in DOMAIN last} |->
     [gen |-> gen, class |-> last[k[3]][1], descriptor |-> last[k[3]][3], edgeCount |-> 0]]

\* A class refers to itself and to those it calls
recordClassRefs(f, c, gen, body) ==
  [k \in {<<f, c, x>> : x \in {c} \cup {call[1] : call \in body.calls}} |-> [gen |-> gen, edgeCount |-> 0]]

recordNodes(d, f, c, gen, body, m, r) ==
  [d EXCEPT !.methods = Upsert(@, recordMethods(f, c, gen, m)),
            !.methodRefs = Upsert(@, recordMethodRefs(f, c, gen, r)),
            !.classRefs = Upsert(@, recordClassRefs(f, c, gen, body))]

\* The outcomes of extractNodes() for a class row
extractNodes(d, f, c, gen, body) ==
  {recordNodes(d, f, c, gen, body, m, r) :
     m \in LastOfName(body.methods, 1), r \in LastOfName(body.calls, 2)}

\* deleteClass(): _ownerClassIndex is never filled, so that nothing is deleted
deleteClass(d, f, c) == d

-----------------------------------------------------------------------------
(* Analysing files *)

PutClass(d, f, c, gen, body) ==
  [d EXCEPT !.classes = Upsert(@, [k \in {<<f, c>>} |-> [body |-> body, gen |-> gen, refCount |-> 0]]),
            !.first = IF @ = None THEN <<f, c, gen>> ELSE @]

isClassfileUnchanged(d, f, c, body) ==
  <<f, c>> \in DOMAIN d.classes /\ d.classes[<<f, c>>].body = body

putFile(d, f) == [d EXCEPT !.files = Upsert(@, [k \in {f} |-> world[f].stamp])]

\* The stamp is that of the first analysis: end() does not update the row
getOrCreateFileRow(d, f) ==
  IF f \in DOMAIN d.files THEN [d EXCEPT !.later = @ \cup {f}] ELSE putFile(d, f)

isFileUnchanged(f) == f \in DOMAIN db.files /\ db.files[f] = world[f].stamp

\* GraphTask::start(), and the entries of the jar go to the threads
processJar(f) ==
  /\ pc = "analysing" /\ f \in todo \cap Jars
  /\ todo' = todo \ {f}
  /\ IF isFileUnchanged(f)
       THEN skipped' = skipped \cup {f} /\ UNCHANGED <<db, entries>>
       ELSE /\ db' = getOrCreateFileRow(db, f)
            /\ entries' = entries \cup {<<f, c>> : c \in DOMAIN world[f].classes}
            /\ UNCHANGED skipped
  /\ UNCHANGED <<world, past, analysed, saved, fresh, graph, pc, edits, analyses>>

\* processClassFile(): a class row of a jar is updated in place
updateClass(d, f, c, body) ==
  extractNodes(PutClass(deleteClass(d, f, c), f, c, 0, body), f, c, 0, body)

keepsOldClass_Bug(f, c) ==
  LET body == world[f].classes[c] IN
  /\ pc = "analysing" /\ <<f, c>> \in entries
  /\ entries' = entries \ {<<f, c>>}
  /\ IF <<f, c>> \in DOMAIN db.classes \/ body = Broken THEN UNCHANGED db
     ELSE db' \in updateClass(db, f, c, body)
  /\ UNCHANGED <<world, past, analysed, saved, fresh, todo, skipped, graph, pc, edits, analyses>>

\* GraphTask::processEntry().  Where it updates the row of a class, it takes the
\* row's id from memory that addOrUpdate() has freed, and may die of it.
processEntry(f, c) ==
  LET body == world[f].classes[c]
      unchanged == isClassfileUnchanged(db, f, c, body) \/ body = Broken
  IN
  /\ pc = "analysing" /\ <<f, c>> \in entries
  /\ entries' = entries \ {<<f, c>>}
  /\ \/ /\ IF unchanged THEN UNCHANGED db ELSE db' \in updateClass(db, f, c, body)
        /\ UNCHANGED pc
     \/ /\ ~unchanged /\ <<f, c>> \in DOMAIN db.classes
        /\ pc' = "died" /\ UNCHANGED db
  /\ UNCHANGED <<world, past, analysed, saved, fresh, todo, skipped, graph, edits, analyses>>

inPlace_Bug(d, f, c, body) == updateClass(d, f, c, body)

\* doClassFile(): the row of a class that exists is archived and deleted
replaceClass(d, f, c, body) ==
  LET old == <<f, c>> \in DOMAIN d.classes
      gen == IF old THEN d.classes[<<f, c>>].gen + 1 ELSE 0
  IN extractNodes(PutClass(deleteClass(d, f, c), f, c, gen, body), f, c, gen, body)

\* CallGraphAnalyzer::doClassFile()
doClassFile(f) ==
  LET c == CHOOSE c \in DOMAIN world[f].classes: TRUE
      body == world[f].classes[c]
  IN
  /\ pc = "analysing" /\ f \in todo \ Jars
  /\ todo' = todo \ {f}
  /\ IF isFileUnchanged(f)
       THEN skipped' = skipped \cup {f} /\ UNCHANGED db
       ELSE /\ UNCHANGED skipped
            /\ IF body = Broken THEN UNCHANGED db
               ELSE db' \in replaceClass(putFile(db, f), f, c, body)
  /\ UNCHANGED <<world, past, analysed, saved, fresh, entries, graph, pc, edits, analyses>>

-----------------------------------------------------------------------------
(* Linking *)

\* createMemberIndex(), getMemberMatches(): by class, name and descriptor
nameOnly_Bug(d, ref) == {m \in DOMAIN d.methods: m[3] = ref[3]}

getMemberMatches(d, ref) ==
  {m \in DOMAIN d.methods: /\ m[2] = d.methodRefs[ref].class
                           /\ m[3] = ref[3]
                           /\ d.methods[m].descriptor = d.methodRefs[ref].descriptor}

\* createClassnameIndex(): the classes with a name, in whatever file
classMatches(d, ref) == {k \in DOMAIN d.classes: k[2] = ref[3]}

newMethodEdges(d) ==
  {[from |-> p[1], owner |-> d.methodRefs[p[1]].gen, to |-> p[2]] :
     p \in {q \in (DOMAIN d.methodRefs) \X (DOMAIN d.methods): q[2] \in getMemberMatches(d, q[1])}}

newClassEdges(d) ==
  {[from |-> p[1], to |-> p[2], gen |-> d.classes[p[2]].gen] :
     p \in {q \in (DOMAIN d.classRefs) \X (DOMAIN d.classes): q[2] \in classMatches(d, q[1])}}

From(edges, ref) == Cardinality({e \in edges: e.from = ref})

To(edges, row) == Cardinality({e \in edges: e.to = row})

\* The counts of references, and of what they mean
countFrom(refs, edges) == [r \in DOMAIN refs |-> [refs[r] EXCEPT !.edgeCount = @ + From(edges, r)]]

countTo(rows, edges) == [k \in DOMAIN rows |-> [rows[k] EXCEPT !.refCount = @ + To(edges, k)]]

\* A table of edges can have an edge several times: it says how often
addEdges(edges, new) ==
  [e \in DOMAIN edges \cup new |->
     (IF e \in DOMAIN edges THEN edges[e] ELSE 0) + (IF e \in new THEN 1 ELSE 0)]

replacesEdges_Bug(d) ==
  LET ce == newClassEdges(d)
      me == newMethodEdges(d)
  IN [d EXCEPT !.classRefs = countFrom(@, ce), !.classes = countTo(@, ce),
               !.classEdges = addEdges(None, ce),
               !.methodRefs = countFrom(@, me), !.methods = countTo(@, me),
               !.methodEdges = addEdges(None, me)]

\* linkClassRefs(), linkMethodRefs(): edges are added to those there are
linkRefNodes(d) ==
  LET ce == newClassEdges(d)
      me == newMethodEdges(d)
  IN [d EXCEPT !.classRefs = countFrom(@, ce), !.classes = countTo(@, ce),
               !.classEdges = addEdges(@, ce),
               !.methodRefs = countFrom(@, me), !.methods = countTo(@, me),
               !.methodEdges = addEdges(@, me)]

\* add() of an edge whose key there is
edgeExists(d) ==
  \/ \E e \in newClassEdges(d): e \in DOMAIN d.classEdges
  \/ \E e \in newMethodEdges(d), o \in DOMAIN d.methodEdges: e.from = o.from /\ e.to = o.to

-----------------------------------------------------------------------------
(* Exporting *)

\* buildClassNodes(): the class rows that are not deleted
isNode(d, f, c, gen) == <<f, c>> \in DOMAIN d.classes /\ d.classes[<<f, c>>].gen = gen

\* collectClassEdges(): linkClassRefs() does not set the owner of an edge, so
\* that it is the class with id 0
classLines(d) ==
  {<<<<d.first[1], d.first[2]>>, e.to>> :
     e \in {e \in DOMAIN d.classEdges:
              isNode(d, d.first[1], d.first[2], d.first[3]) /\ isNode(d, e.to[1], e.to[2], e.gen)}}

\* collectMethodEdges()
methodLines(d) ==
  {<<<<e.from[1], e.from[2]>>, <<e.to[1], e.to[2], e.to[3], d.methods[e.to].descriptor>>>> :
     e \in {e \in DOMAIN d.methodEdges:
              /\ isNode(d, e.from[1], e.from[2], e.owner)
              /\ isNode(d, e.to[1], e.to[2], d.methods[e.to].gen)}}

missingClasses(d) ==
  {<<<<r[1], r[2]>>, r[3]>> :
     r \in {r \in DOMAIN d.classRefs:
              d.classRefs[r].edgeCount = 0 /\ isNode(d, r[1], r[2], d.classRefs[r].gen)}}

missingLines(d) ==
  {<<<<r[1], r[2]>>, <<d.methodRefs[r].class, r[3], d.methodRefs[r].descriptor>>>> :
     r \in {r \in DOMAIN d.methodRefs:
              d.methodRefs[r].edgeCount = 0 /\ isNode(d, r[1], r[2], d.methodRefs[r].gen)}}

exporter(d) ==
  IF DOMAIN d.classes = {} THEN NoGraph
  ELSE [class |-> classLines(d), method |-> methodLines(d),
        missingClass |-> missingClasses(d), missing |-> missingLines(d)]

\* endAnalysis(): links, exports and saves.  A build with asserts dies where an
\* edge is there already.
endAnalysis ==
  /\ pc = "analysing" /\ todo = {} /\ entries = {}
  /\ \/ /\ edgeExists(db)
        /\ pc' = "died" /\ UNCHANGED <<db, saved, graph, analysed>>
     \/ /\ pc' = "done"
        /\ db' = linkRefNodes(db)
        /\ graph' = exporter(db')
        /\ saved' = db'
        /\ analysed' = world
  /\ UNCHANGED <<world, past, fresh, todo, entries, skipped, edits, analyses>>

-----------------------------------------------------------------------------

Init ==
  /\ world \in [Files -> [stamp : {0}, classes : UNION {Contents[f] : f \in Files}]]
  /\ \A f \in Files: world[f].classes \in Contents[f]
  /\ past = [f \in Files |-> {world[f]}]
  /\ analysed = None
  /\ saved = EmptyDb /\ db = EmptyDb
  /\ fresh = TRUE
  /\ todo = {} /\ entries = {} /\ skipped = {}
  /\ graph = NoGraph
  /\ pc = "idle"
  /\ edits = 0 /\ analyses = 0

\* Somebody replaces a file, by a new one or by what it was before, with the time
\* that it had
edit(f) ==
  /\ pc # "analysing" /\ edits < MaxEdits
  /\ edits' = edits + 1
  /\ \E new \in past[f] \cup [stamp : {edits + 1}, classes : Contents[f]]:
       /\ world' = [world EXCEPT ![f] = new]
       /\ past' = [past EXCEPT ![f] = @ \cup {new}]
  /\ pc' = "idle"
  /\ UNCHANGED <<analysed, saved, db, fresh, todo, entries, skipped, graph, analyses>>

\* initDb(): --rebuild removes the database files
start(rebuild) ==
  /\ pc # "analysing" /\ analyses < MaxAnalyses
  /\ analyses' = analyses + 1
  /\ pc' = "analysing"
  /\ db' = IF rebuild THEN EmptyDb ELSE saved
  /\ saved' = db'
  /\ fresh' = (db' = EmptyDb)
  /\ todo' = Files
  /\ entries' = {} /\ skipped' = {}
  /\ UNCHANGED <<world, past, analysed, graph, edits>>

Next ==
  \/ \E rebuild \in BOOLEAN: start(rebuild)
  \/ endAnalysis
  \/ \E f \in Files: edit(f) \/ processJar(f) \/ doClassFile(f)
  \/ \E f \in Jars, c \in Classes: processEntry(f, c)

Spec == Init /\ [][Next]_vars

-----------------------------------------------------------------------------

Body(k) == world[k[1]].classes[k[2]]

\* The classes that can be analysed
Bodies == {k \in Files \X Classes: k[2] \in DOMAIN world[k[1]].classes /\ Body(k) # Broken}

\* The methods that a call means
Callees(call) ==
  {<<k[1], k[2], call[2], call[3]>> :
     k \in {b \in Bodies: b[2] = call[1] /\ <<call[2], call[3]>> \in Body(b).methods}}

\* No two methods of a class, and no two calls in it, have the same name
NamesDiffer ==
  \A k \in Bodies:
    /\ \A x, y \in Body(k).methods: x[1] = y[1] => x = y
    /\ \A x, y \in Body(k).calls: x[2] = y[2] => x = y

CallsOf == UNION {{<<b, call>> : call \in Body(b).calls} : b \in Bodies}

Lines == UNION {{<<p[1], callee>> : callee \in Callees(p[2])} : p \in CallsOf}

LinesToNoMethod == {p \in CallsOf: Callees(p[2]) = {}}

LinesToNoClass == {<<p[1], p[2][1]>> : p \in {q \in CallsOf: \A b \in Bodies: b[2] # q[2][1]}}

\* After an analysis into an empty database the exported graph has a solid line
\* for each call to a method of the analysed files and a dashed one for each
\* call and each class reference that leads nowhere, and no others, if names
\* tell the methods and the calls of a class apart.  Otherwise calls can be
\* missed, but still none is made up.
ExportShowsCalls ==
  pc = "done" /\ fresh =>
    /\ graph.method \subseteq Lines
    /\ NamesDiffer => /\ graph.method = Lines
                      /\ graph.missing = LinesToNoMethod
                      /\ graph.missingClass = LinesToNoClass

\* Jars that are skipped as unchanged since their first analysis, although
\* there was another since: end() does not renew the stamp
Mistaken == skipped \cap db.later

\* However often and into whatever database files are analysed, every call of
\* a class to a method of a class has its edge, unless one of them is in such a
\* jar
CallsAreLinked ==
  pc = "done" /\ NamesDiffer =>
    \A k \in Bodies: \A call \in Body(k).calls: \A callee \in Callees(call):
      k[1] \notin Mistaken /\ callee[1] \notin Mistaken =>
        \E e \in DOMAIN db.methodEdges:
          e.from = <<k[1], k[2], call[2]>> /\ e.to = <<callee[1], callee[2], callee[3]>>

\* How often a table has edges of a set
Copies(set, edges) == MapThenSumSet(LAMBDA e: edges[e], set)

\* A reference never counts more edges than there are from it, nor a method or
\* class more than lead to it
CountsAreBacked ==
  LET methodEdges == DOMAIN db.methodEdges
      classEdges == DOMAIN db.classEdges
  IN
  pc = "done" =>
    /\ \A r \in DOMAIN db.methodRefs:
         db.methodRefs[r].edgeCount <= Copies({e \in methodEdges: e.from = r}, db.methodEdges)
    /\ \A m \in DOMAIN db.methods:
         db.methods[m].refCount <= Copies({e \in methodEdges: e.to = m}, db.methodEdges)
    /\ \A k \in DOMAIN db.classes:
         db.classes[k].refCount <= Copies({e \in classEdges: e.to = k}, db.classEdges)

\* Rows of methods and references that a class file no longer has stay in the
\* database, but none is exported: a line from a class file is of a call that its
\* class makes (of its name: an edge of before may lead to what is an overload
\* now), and one to a class file leads to a method that its class has
OldRowsStayOut ==
  pc = "done" => \A line \in graph.method:
    LET caller == line[1]
        callee == <<line[2][1], line[2][2]>>
    IN /\ caller[1] \notin Jars /\ caller \in Bodies =>
            \E call \in Body(caller).calls: call[1] = line[2][2] /\ call[2] = line[2][3]
       /\ callee[1] \notin Jars /\ callee \in Bodies =>
            <<line[2][3], line[2][4]>> \in Body(callee).methods

\* Analyses into a database that was linked and exported before: counts stay
\* backed by edges, and rows of replaced class files out of the export
OldRowsDoNoHarm == CountsAreBacked /\ OldRowsStayOut

\* Files whose analysis is skipped as unchanged are as they were analysed, unless
\* an earlier jar was put back after another was analysed
SkippedIsCurrent ==
  pc = "done" => \A f \in skipped \ Mistaken: \A c \in DOMAIN world[f].classes:
    world[f].classes[c] # Broken => isClassfileUnchanged(db, f, c, world[f].classes[c])

\* However often and into whatever database files are analysed, every call of an
\* analysed class to a method of an analysed class has its edge; and the database
\* has the files that an analysis skips, by their size and time, as they are; both
\* but for jars that are the first ones again after others were analysed
GraphIsUpToDate == CallsAreLinked /\ SkippedIsCurrent

-----------------------------------------------------------------------------
(* What the repository says and the code does not do *)

\* add() never finds the key of the row it adds (the assert of internalAdd())
EdgesAreNew == pc = "analysing" /\ todo = {} /\ entries = {} => ~edgeExists(db)

\* When a class file is replaced, so are its rows: no method is left that the
\* class does not have any more
\* (what the repository says, and the code does not do)
ReplacedRowsAreGone ==
  pc = "done" => \A m \in DOMAIN db.methods:
    m[1] \in Files \ Jars /\ <<m[1], m[2]>> \in Bodies =>
      \E x \in Body(<<m[1], m[2]>>).methods: x[1] = m[3]

\* A jar whose timestamp and size are those of its last analysis is not
\* analysed again
\* (what the repository says, and the code does not do)
UnmodifiedIsSkipped ==
  [][\A f \in Jars: f \in todo \ todo' /\ analysed # None
       => (analysed[f].stamp = world[f].stamp => f \in skipped')]_vars

\* A class edge starts at the class that has the reference
\* (what the repository says, and the code does not do)
ClassEdgesStartAtOwner ==
  pc = "done" /\ fresh =>
    \A line \in graph.class:
      line[2][2] = line[1][2] \/ \E call \in Body(line[1]).calls: call[1] = line[2][2]

=============================================================================
