------------------------------ MODULE Printing ------------------------------
(***************************************************************************)
(* What `tarracsh parse` makes of the classes it has parsed, on the        *)
(* threads of the file pool: the constant pool on the standard output      *)
(* (ConstantPoolPrinter), pages to navigate in it (HtmlGen), the structure *)
(* of the class (ParserPrinter).  A job is what one task of the pool goes  *)
(* through: a class file, or the classes of a jar one after the other.     *)
(*                                                                         *)
(* The contents of a file is the set of those who wrote what is in it:     *)
(* none, one, or several if they had it open at the same time.             *)
(***************************************************************************)
EXTENDS Naturals, Sequences, FiniteSets

CONSTANTS
  Workers,
  Jobs,      \* sequences of classes
  Filter,    \* tags of --cpool-filter, all if there are none
  Output,    \* "cpool", "nav" or "none"
  Structure, \* --print-class-parse
  None

\* A class: what tells it apart, its name, the name of its file, whether it
\* can be parsed, the tags of its pool (slots that are not used have None),
\* and the entry whose printing throws (0: none does)
ClassesOf(job) == {job[i] : i \in DOMAIN job}

Classes == UNION {ClassesOf(j) : j \in Jobs}

PrintingAssumption ==
  /\ Workers # {} /\ None \notin Workers /\ Structure \in BOOLEAN
  /\ Output \in {"cpool", "nav", "none"}
  /\ Jobs \subseteq Seq(Classes)
  /\ \A c \in Classes : DOMAIN c = {"id", "name", "file", "parses", "pool", "throws"}

VARIABLES
  queue, todo, step,
  mutex, at,          \* _cpoolStdoutMutex; the next entry, for its holder
  out,                \* lines on the standard output
  dirs,               \* class and implementation directories under nav/
  files, listed,      \* contents of the pages; what getImplementations() returned
  overlapped          \* pairs of classes that were rendered at the same time

vars == <<queue, todo, step, mutex, at, out, dirs, files, listed, overlapped>>

-----------------------------------------------------------------------------
Class(w) == Head(todo[w])

Dir(c) == <<c.name, c.file>>

Index(c) == <<c.name>>

Paths == {Dir(c) : c \in Classes} \cup {Index(c) : c \in Classes}

Init ==
  /\ queue = Jobs
  /\ todo = [w \in Workers |-> <<>>]
  /\ step = [w \in Workers |-> "parse"]
  /\ mutex = None /\ at = 0
  /\ out = <<>>
  /\ dirs = {}
  /\ files = [p \in Paths |-> {}]
  /\ listed = [w \in Workers |-> {}]
  /\ overlapped = {}

Go(w, s) == step' = [step EXCEPT ![w] = s]

\* The class is done with
classDone(w) ==
  /\ todo' = [todo EXCEPT ![w] = Tail(@)]
  /\ Go(w, "parse")

\* The second half of classFileParserDone()
thenStructure(w) == IF Structure THEN Go(w, "class") /\ UNCHANGED todo ELSE classDone(w)

take(w, j) ==
  /\ todo[w] = <<>> /\ j \in queue
  /\ queue' = queue \ {j}
  /\ todo' = [todo EXCEPT ![w] = j]
  /\ UNCHANGED <<step, mutex, at, out, dirs, files, listed, overlapped>>

\* A class that does not parse is counted (see Analysis) and not printed
parse(w) ==
  /\ todo[w] # <<>> /\ step[w] = "parse"
  /\ IF ~Class(w).parses THEN classDone(w)
     ELSE CASE Output = "cpool" -> Go(w, "lock") /\ UNCHANGED todo
            [] Output = "nav" -> Go(w, "dir") /\ UNCHANGED todo
            [] Output = "none" -> thenStructure(w)
  /\ UNCHANGED <<queue, mutex, at, out, dirs, files, listed, overlapped>>

-----------------------------------------------------------------------------
(* ConstantPoolPrinter::print()                                            *)

applyFilter(tag) == Filter = {} \/ tag \in Filter

Line(c, what, i) == [of |-> c.id, what |-> what, entry |-> i]

getNextIndex(pool, i) ==
  LET used == {k \in i + 1 .. Len(pool) : pool[k] # None}
  IN  IF used = {} THEN Len(pool) + 1 ELSE CHOOSE k \in used : \A l \in used : k <= l

noLock_Bug(w) ==
  /\ step[w] = "lock"
  /\ mutex' = w /\ at' = 1
  /\ out' = Append(out, Line(Class(w), "title", 0))
  /\ Go(w, "entry")
  /\ UNCHANGED <<queue, todo, dirs, files, listed, overlapped>>

printTitle(w) ==
  /\ step[w] = "lock" /\ mutex = None
  /\ mutex' = w /\ at' = 1
  /\ out' = Append(out, Line(Class(w), "title", 0))
  /\ Go(w, "entry")
  /\ UNCHANGED <<queue, todo, dirs, files, listed, overlapped>>

printEntry(w) ==
  /\ step[w] = "entry" /\ at <= Len(Class(w).pool)
  /\ at = Class(w).throws => ~applyFilter(Class(w).pool[at])
  /\ at' = getNextIndex(Class(w).pool, at)
  /\ out' = IF applyFilter(Class(w).pool[at]) THEN Append(out, Line(Class(w), "entry", at)) ELSE out
  /\ UNCHANGED <<queue, todo, step, mutex, dirs, files, listed, overlapped>>

\* catch (...): the rest of the pool is given up, and the lock released
catchAll(w) ==
  /\ step[w] = "entry" /\ at = Class(w).throws /\ applyFilter(Class(w).pool[at])
  /\ out' = Append(out, Line(Class(w), "exception", 0))
  /\ mutex' = None /\ at' = 0
  /\ thenStructure(w)
  /\ UNCHANGED <<queue, dirs, files, listed, overlapped>>

unlock(w) ==
  /\ step[w] = "entry" /\ at > Len(Class(w).pool)
  /\ mutex' = None /\ at' = 0
  /\ thenStructure(w)
  /\ UNCHANGED <<queue, out, dirs, files, listed, overlapped>>

-----------------------------------------------------------------------------
(* HtmlGen::print()                                                        *)

Rendering(v) == step[v] \in {"open", "page", "list", "openIndex", "index"}

\* writeLines(): opening truncates; what is written goes over what another
\* has written meanwhile, which stays where it was longer
Written(p, contents) ==
  IF files[p] = {} THEN {{contents}} ELSE {{contents}, files[p] \cup {contents}}

\* generateClassHtml() up to ensureDir(); the entries are rendered in memory
ensureDir(w) ==
  /\ step[w] = "dir"
  /\ dirs' = dirs \cup {Dir(Class(w))}
  /\ overlapped' = overlapped \cup
       {{Class(w), Class(v)} : v \in {v \in Workers \ {w} : Rendering(v)}}
  /\ Go(w, "open")
  /\ UNCHANGED <<queue, todo, mutex, at, out, files, listed>>

openPage(w) ==
  /\ step[w] = "open"
  /\ files' = [files EXCEPT ![Dir(Class(w))] = {}]
  /\ Go(w, "page")
  /\ UNCHANGED <<queue, todo, mutex, at, out, dirs, listed, overlapped>>

writePage(w) ==
  /\ step[w] = "page"
  /\ \E s \in Written(Dir(Class(w)), Class(w).id) :
       files' = [files EXCEPT ![Dir(Class(w))] = s]
  /\ Go(w, "list")
  /\ UNCHANGED <<queue, todo, mutex, at, out, dirs, listed, overlapped>>

getImplementations(w) ==
  /\ step[w] = "list"
  /\ listed' = [listed EXCEPT ![w] = {d \in dirs : d[1] = Class(w).name}]
  /\ Go(w, "openIndex")
  /\ UNCHANGED <<queue, todo, mutex, at, out, dirs, files, overlapped>>

openIndex(w) ==
  /\ step[w] = "openIndex"
  /\ files' = [files EXCEPT ![Index(Class(w))] = {}]
  /\ Go(w, "index")
  /\ UNCHANGED <<queue, todo, mutex, at, out, dirs, listed, overlapped>>

writeIndex(w) ==
  /\ step[w] = "index"
  /\ \E s \in Written(Index(Class(w)), listed[w]) :
       files' = [files EXCEPT ![Index(Class(w))] = s]
  /\ listed' = [listed EXCEPT ![w] = {}]
  /\ thenStructure(w)
  /\ UNCHANGED <<queue, mutex, at, out, dirs, overlapped>>

-----------------------------------------------------------------------------
(* ParserPrinter::print(), which takes no lock                             *)

outputPart(w, part, then) ==
  /\ step[w] = part
  /\ out' = Append(out, Line(Class(w), part, 0))
  /\ IF then = "done" THEN classDone(w) ELSE Go(w, then) /\ UNCHANGED todo
  /\ UNCHANGED <<queue, mutex, at, dirs, files, listed, overlapped>>

output(w) ==
  \/ outputPart(w, "class", "methods")
  \/ outputPart(w, "methods", "fields")
  \/ outputPart(w, "fields", "done")

-----------------------------------------------------------------------------
Finished == queue = {} /\ \A w \in Workers : todo[w] = <<>>

Work(w) ==
  \/ \E j \in Jobs : take(w, j)
  \/ todo[w] # <<>> /\ (\/ parse(w) \/ output(w)
                        \/ printTitle(w) \/ printEntry(w) \/ catchAll(w) \/ unlock(w)
                        \/ ensureDir(w) \/ openPage(w) \/ writePage(w)
                        \/ getImplementations(w) \/ openIndex(w) \/ writeIndex(w))

Next == \E w \in Workers : Work(w)

Spec == Init /\ [][Next]_vars

\* The pool's threads run; with finitely many classes everyone who waits for
\* the mutex finds it free in the end
FairSpec == Spec /\ \A w \in Workers : WF_vars(Work(w))

-----------------------------------------------------------------------------
(* Properties                                                              *)

\* The lines the pool of c should have
Wanted(c) ==
  LET used == {i \in DOMAIN c.pool : c.pool[i] # None /\ applyFilter(c.pool[i])}
      good == IF c.throws \in used THEN {i \in used : i < c.throws} ELSE used
      IsGood(l) == l.entry \in good
  IN  <<Line(c, "title", 0)>>
        \o SelectSeq([i \in DOMAIN c.pool |-> Line(c, "entry", i)], IsGood)
        \o (IF c.throws \in used THEN <<Line(c, "exception", 0)>> ELSE <<>>)

PoolLine(l) == l.what \notin {"class", "methods", "fields"}

\* ConstantPoolPrinter::print(): however many threads print, the pools on the
\* standard output stand one behind the other, not mixed, each with its title
\* and the entries the filter lets through, up to one that throws; the last
\* one may not be complete yet.  (What ParserPrinter writes may come between.)
PoolsAreWhole ==
  LET lines == SelectSeq(out, PoolLine)
      starts == {i \in DOMAIN lines : lines[i].what = "title"}
      End(i) == LET later == {k \in starts : k > i}
                IN  IF later = {} THEN Len(lines)
                    ELSE (CHOOSE k \in later : \A l \in later : k <= l) - 1
  IN  Output = "cpool" =>
        /\ lines # <<>> => 1 \in starts
        /\ \A i \in starts : \E c \in Classes :
             LET block == SubSeq(lines, i, End(i))
             IN  \/ block = Wanted(c)
                 \/ /\ End(i) = Len(lines) /\ mutex # None /\ Class(mutex) = c
                    /\ Len(block) <= Len(Wanted(c)) /\ block = SubSeq(Wanted(c), 1, Len(block))

\* HtmlGen: when all is done, the index page of a class lists every
\* implementation directory it has, unless two of them were rendered at the
\* same time; and the page of an implementation is one class's, and whole,
\* unless two classes with that name and file name were
NavIsComplete ==
  Finished => \A c \in Classes : c.parses /\ Output = "nav" =>
    /\ (\A p \in overlapped : \E d \in p : d.name # c.name) =>
         files[Index(c)] = {{Dir(d) : d \in {d \in Classes : d.parses /\ d.name = c.name}}}
    /\ (\A p \in overlapped : \E d \in p : Dir(d) # Dir(c)) =>
         \E d \in Classes : Dir(d) = Dir(c) /\ files[Dir(c)] = {d.id}

\* An implementation an index page offers has its page in the end, however the
\* threads interleave
IndexLinksLead ==
  Finished => \A c \in Classes : \A s \in files[Index(c)] :
    \A d \in s : d[1] = c.name /\ files[d] # {}

\* The parse command prints all it has to and ends: no thread keeps the lock
\* of the standard output, not even when printing an entry throws
PrintingEnds == <>[](Finished /\ mutex = None)

=============================================================================
