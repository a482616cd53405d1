--------------------------- MODULE PrintingProofs ---------------------------
(***************************************************************************)
(* Proofs about the navigation pages that the threads of `parse' write:    *)
(* for any number of threads and classes, what an index page lists has its *)
(* page, and pages are whole unless they were rendered at the same time.   *)
(***************************************************************************)
EXTENDS Printing, TLAPS

-----------------------------------------------------------------------------
(* The inductive invariant *)

Steps ==
  {"parse", "lock", "entry", "dir", "open", "page", "list", "openIndex", "index",
   "class", "methods", "fields"}

TypeInv ==
  /\ queue \subseteq Jobs
  /\ todo \in [Workers -> Seq(Classes)]
  /\ step \in [Workers -> Steps]
  /\ \A w \in Workers : todo[w] = <<>> => step[w] = "parse"
  /\ files = [p \in Paths |-> files[p]]
  /\ listed = [w \in Workers |-> listed[w]]
  /\ dirs \subseteq {Dir(c) : c \in {d \in Classes : d.parses}}

\* A worker that is past the parsing has a class that parsed, and past ensureDir()
\* one whose directory is there
StepInv ==
  \A w \in Workers :
    /\ step[w] # "parse" => Class(w).parses
    /\ Rendering(w) => Dir(Class(w)) \in dirs
    /\ Output = "nav" => step[w] \notin {"lock", "entry"}
    /\ Output = "nav" /\ step[w] \in {"class", "methods", "fields"} => Dir(Class(w)) \in dirs

\* A class that some worker still has to come to, or is at
Ahead(c) == (\E j \in queue : c \in ClassesOf(j)) \/ \E w \in Workers : c \in ClassesOf(todo[w])

DirInv == Output = "nav" => \A c \in Classes : c.parses /\ ~Ahead(c) => Dir(c) \in dirs

OverlapInv ==
  \A v, w \in Workers : v # w /\ Rendering(v) /\ Rendering(w) => {Class(v), Class(w)} \in overlapped

\* Never two workers at a time were at the page of c, or at pages of its name
PageAlone(c) == \A p \in overlapped : \E d \in p : Dir(d) # Dir(c)

IndexAlone(c) == \A p \in overlapped : \E d \in p : d.name # c.name

AtPage(w, c) == step[w] \in {"open", "page"} /\ Dir(Class(w)) = Dir(c)

\* A directory without its page has a worker that will write it
PageOf(c) ==
  /\ Dir(c) \in dirs /\ files[Dir(c)] = {} => \E w \in Workers : AtPage(w, c)
  /\ PageAlone(c) =>
       /\ Dir(c) \in dirs =>
            \/ \E w \in Workers : AtPage(w, c)
            \/ \E d \in Classes : Dir(d) = Dir(c) /\ files[Dir(c)] = {d.id}
       /\ \A w \in Workers : AtPage(w, c) /\ step[w] = "page" => files[Dir(c)] = {}

Implementations(c) == {d \in dirs : d[1] = c.name}

AtName(w, c) == Rendering(w) /\ Class(w).name = c.name

\* What is listed is there; an index page lists all unless a worker will write it
IndexOf(c) ==
  /\ \A s \in files[Index(c)] : s \subseteq Implementations(c)
  /\ \A w \in Workers :
       AtName(w, c) /\ step[w] \in {"openIndex", "index"} => listed[w] \subseteq Implementations(c)
  /\ IndexAlone(c) =>
       /\ Implementations(c) # {} =>
            \/ \E w \in Workers : AtName(w, c)
            \/ files[Index(c)] = {Implementations(c)}
       /\ \A w \in Workers : AtName(w, c) =>
            /\ step[w] \in {"openIndex", "index"} => listed[w] = Implementations(c)
            /\ step[w] = "index" => files[Index(c)] = {}

PageInv == \A c \in Classes : PageOf(c)

IndexInv == \A c \in Classes : IndexOf(c)

Inv == TypeInv /\ StepInv /\ DirInv /\ OverlapInv /\ PageInv /\ IndexInv

-----------------------------------------------------------------------------
LEMMA PathsApart ==
  /\ \A c, d : Dir(c) = Dir(d) <=> c.name = d.name /\ c.file = d.file
  /\ \A c, d : Index(c) = Index(d) <=> c.name = d.name
  /\ \A c, d : Dir(c) # Index(d)
  /\ \A c : Dir(c)[1] = c.name
  BY DEF Dir, Index

LEMMA Parts ==
  ASSUME NEW s \in Seq(Classes), s # <<>>
  PROVE  /\ Head(s) \in Classes /\ Tail(s) \in Seq(Classes)
         /\ ClassesOf(s) = {Head(s)} \cup ClassesOf(Tail(s))
<1>1. Head(s) \in Classes /\ Tail(s) \in Seq(Classes) /\ Len(s) \in Nat /\ Len(s) > 0
      /\ Len(Tail(s)) = Len(s) - 1 /\ \A i \in 1..(Len(s) - 1) : Tail(s)[i] = s[i + 1]
  OBVIOUS
<1>2. ClassesOf(s) = {s[i] : i \in 1..Len(s)} /\ ClassesOf(Tail(s)) = {Tail(s)[i] : i \in 1..Len(Tail(s))}
  <2>1. DOMAIN s = 1..Len(s) /\ DOMAIN Tail(s) = 1..Len(Tail(s))
    BY <1>1
  <2> QED
    BY Zenon, <2>1 DEF ClassesOf
<1>3. Head(s) = s[1] /\ 1 \in 1..Len(s)
  BY <1>1
<1>4. ASSUME NEW i \in 1..Len(s), i # 1
      PROVE  \E k \in 1..Len(Tail(s)) : s[i] = Tail(s)[k]
  <2>1. i - 1 \in 1..(Len(s) - 1) /\ (i - 1) + 1 = i
    BY <1>1, <1>4
  <2> QED
    BY <1>1, <2>1
<1>5. ASSUME NEW k \in 1..Len(Tail(s))
      PROVE  \E i \in 1..Len(s) : Tail(s)[k] = s[i]
  <2>1. k + 1 \in 1..Len(s) /\ k \in 1..(Len(s) - 1)
    BY <1>1
  <2> QED
    BY <1>1, <2>1
<1> QED
  BY <1>1, <1>2, <1>3, <1>4, <1>5

LEMMA AtWork ==
  ASSUME PrintingAssumption, TypeInv, NEW w \in Workers, step[w] # "parse" \/ todo[w] # <<>>
  PROVE  todo[w] # <<>> /\ Class(w) \in Classes
  BY Parts DEF TypeInv, Class

LEMMA InitInv ==
  ASSUME PrintingAssumption, Init
  PROVE  Inv
<1>1. TypeInv
  BY DEF Init, TypeInv, Steps
<1>2. StepInv
  BY DEF Init, StepInv, Rendering
<1>3. DirInv
  BY DEF Init, DirInv, Ahead, Classes
<1>4. OverlapInv
  BY DEF Init, OverlapInv, Rendering
<1>5. PageInv
  BY DEF Init, PageInv, PageOf, AtPage
<1>6. IndexInv
  <2>1. \A c \in Classes : Index(c) \in Paths
    BY DEF Paths
  <2> QED
    BY <2>1 DEF Init, IndexInv, IndexOf, AtName, Rendering, Implementations
<1> QED
  BY <1>1, <1>2, <1>3, <1>4, <1>5, <1>6 DEF Inv

-----------------------------------------------------------------------------
(* Steps of a worker in its list of classes *)

Others(w) == \A v \in Workers \ {w} : step'[v] = step[v] /\ todo'[v] = todo[v]

LEMMA GoStep ==
  ASSUME PrintingAssumption, TypeInv, NEW w \in Workers, todo[w] # <<>>, NEW s \in Steps,
         Go(w, s), UNCHANGED <<queue, todo>>,
         files' = [p \in Paths |-> files'[p]], listed' = [v \in Workers |-> listed'[v]],
         dirs' \subseteq {Dir(c) : c \in {d \in Classes : d.parses}}
  PROVE  TypeInv' /\ Others(w) /\ step'[w] = s /\ Class(w)' = Class(w)
  BY Zenon DEF TypeInv, Go, Others, Class

LEMMA DoneStep ==
  ASSUME PrintingAssumption, TypeInv, NEW w \in Workers, todo[w] # <<>>,
         classDone(w), UNCHANGED queue,
         files' = [p \in Paths |-> files'[p]], listed' = [v \in Workers |-> listed'[v]],
         dirs' \subseteq {Dir(c) : c \in {d \in Classes : d.parses}}
  PROVE  TypeInv' /\ Others(w) /\ step'[w] = "parse"
<1>1. Tail(todo[w]) \in Seq(Classes)
  BY Parts DEF TypeInv
<1> QED
  BY Zenon, <1>1 DEF TypeInv, classDone, Go, Others, Steps

\* The directory of a class is there when its worker leaves it
LEMMA DoneDirs ==
  ASSUME PrintingAssumption, TypeInv, DirInv, NEW w \in Workers, todo[w] # <<>>,
         classDone(w), UNCHANGED <<queue, dirs>>,
         Output = "nav" /\ Class(w).parses => Dir(Class(w)) \in dirs
  PROVE  DirInv'
<1> SUFFICES ASSUME Output = "nav", NEW c \in Classes, c.parses, ~Ahead(c)'
             PROVE  Dir(c) \in dirs
  BY DEF DirInv
<1>1. todo'[w] = Tail(todo[w]) /\ \A v \in Workers \ {w} : todo'[v] = todo[v]
  BY DEF classDone, TypeInv
<1>2. ClassesOf(todo[w]) = {Class(w)} \cup ClassesOf(Tail(todo[w]))
  BY Parts DEF TypeInv, Class
<1>3. (\A j \in queue : c \notin ClassesOf(j)) /\ \A v \in Workers : c \notin ClassesOf(todo'[v])
  BY Zenon DEF Ahead
<1>4. Ahead(c) => c = Class(w)
  BY Zenon, <1>1, <1>2, <1>3 DEF Ahead
<1> QED
  BY <1>4 DEF DirInv

LEMMA SameDirs ==
  ASSUME DirInv, UNCHANGED <<queue, todo>>, dirs \subseteq dirs'
  PROVE  DirInv'
<1>1. \A c : Ahead(c)' <=> Ahead(c)
  BY DEF Ahead
<1> QED
  BY <1>1 DEF DirInv

\* The page of a class, or its index page, that a step does not concern
LEMMA PageSame ==
  ASSUME NEW c \in Classes, PageOf(c), files'[Dir(c)] = files[Dir(c)],
         Dir(c) \in dirs' => Dir(c) \in dirs, PageAlone(c)' => PageAlone(c),
         \A v \in Workers : /\ AtPage(v, c)' <=> AtPage(v, c)
                            /\ AtPage(v, c) => step'[v] = step[v]
  PROVE  PageOf(c)'
  BY DEF PageOf

LEMMA IndexSame ==
  ASSUME NEW c \in Classes, IndexOf(c), files'[Index(c)] = files[Index(c)],
         Implementations(c)' = Implementations(c), IndexAlone(c)' => IndexAlone(c),
         \A v \in Workers :
           /\ AtName(v, c)' <=> AtName(v, c)
           /\ AtName(v, c) /\ step'[v] \in {"openIndex", "index"} =>
                step'[v] = step[v] /\ listed'[v] = listed[v]
  PROVE  IndexOf(c)'
  BY DEF IndexOf

\* A step of a worker that renders nothing
LEMMA QuietStep ==
  ASSUME PrintingAssumption, Inv, TypeInv', StepInv', DirInv', NEW w \in Workers,
         UNCHANGED <<dirs, files, listed, overlapped>>,
         ~Rendering(w), ~Rendering(w)', Others(w)
  PROVE  Inv'
<1>1. \A v \in Workers : /\ Rendering(v)' <=> Rendering(v)
                         /\ Rendering(v) => step'[v] = step[v] /\ Class(v)' = Class(v)
  BY DEF Rendering, Class, Others
<1>2. OverlapInv'
  BY <1>1 DEF Inv, OverlapInv
<1>3. \A v \in Workers, c \in Classes : AtPage(v, c)' <=> AtPage(v, c)
  BY <1>1 DEF AtPage, Rendering
<1>4. \A c \in Classes : PageAlone(c)' <=> PageAlone(c)
  BY DEF PageAlone
<1>5. PageInv'
  <2>1. \A v \in Workers, c \in Classes : AtPage(v, c) => step'[v] = step[v]
    BY <1>1 DEF AtPage, Rendering
  <2>2. ASSUME NEW c \in Classes
        PROVE  PageOf(c)'
    BY <1>3, <1>4, <2>1, <2>2, PageSame DEF Inv, PageInv
  <2> QED
    BY <2>2 DEF PageInv
<1>6. \A v \in Workers, c \in Classes : /\ AtName(v, c)' <=> AtName(v, c)
                                        /\ AtName(v, c) => step'[v] = step[v]
  BY <1>1 DEF AtName
<1>7. \A c \in Classes : /\ IndexAlone(c)' <=> IndexAlone(c)
                         /\ Implementations(c)' = Implementations(c)
  BY DEF IndexAlone, Implementations
<1>8. IndexInv'
  <2>1. ASSUME NEW c \in Classes
        PROVE  IndexOf(c)'
    BY <1>6, <1>7, <2>1, IndexSame DEF Inv, IndexInv
  <2> QED
    BY <2>1 DEF IndexInv
<1> QED
  BY <1>2, <1>5, <1>8 DEF Inv

LEMMA StepsApart ==
  ASSUME PrintingAssumption, StepInv, NEW w \in Workers, Others(w), UNCHANGED dirs,
         step'[w] = "parse" \/ (step'[w] \in {"class", "methods", "fields", "dir", "lock", "entry"}
                                /\ Class(w)' = Class(w) /\ Class(w).parses
                                /\ (Output = "nav" => step'[w] \notin {"lock", "entry"})
                                /\ (Output = "nav" /\ step'[w] \in {"class", "methods", "fields"}
                                      => Dir(Class(w)) \in dirs))
  PROVE  StepInv' /\ ~Rendering(w)'
<1>1. ~Rendering(w)'
  BY DEF Rendering
<1>2. \A v \in Workers \ {w} : /\ Rendering(v)' <=> Rendering(v)
                               /\ Class(v)' = Class(v) /\ step'[v] = step[v]
  BY DEF Rendering, Class, Others
<1>3. ASSUME NEW v \in Workers
      PROVE  /\ step'[v] # "parse" => (Class(v).parses)'
             /\ Rendering(v)' => (Dir(Class(v)) \in dirs)'
             /\ Output = "nav" => step'[v] \notin {"lock", "entry"}
             /\ Output = "nav" /\ step'[v] \in {"class", "methods", "fields"} => (Dir(Class(v)) \in dirs)'
  <2>1. CASE v = w
    BY <1>1, <2>1
  <2>2. CASE v # w
    BY <1>2, <2>2 DEF StepInv
  <2> QED
    BY <2>1, <2>2
<1> QED
  BY <1>1, <1>3 DEF StepInv

\* thenStructure() of a worker that does not render, or has just written an index
LEMMA StructureStep ==
  ASSUME PrintingAssumption, Inv, NEW w \in Workers, todo[w] # <<>>,
         thenStructure(w), UNCHANGED <<queue, dirs>>, Class(w).parses,
         Output = "nav" => Dir(Class(w)) \in dirs,
         files' = [p \in Paths |-> files'[p]], listed' = [v \in Workers |-> listed'[v]]
  PROVE  TypeInv' /\ StepInv' /\ DirInv' /\ Others(w) /\ ~Rendering(w)'
<1> USE DEF Inv
<1>0. dirs' \subseteq {Dir(c) : c \in {d \in Classes : d.parses}}
  BY DEF TypeInv
<1>1. CASE Structure
  <2>1. Go(w, "class") /\ UNCHANGED todo /\ "class" \in Steps
    BY <1>1 DEF thenStructure, Steps
  <2>2. TypeInv' /\ Others(w) /\ step'[w] = "class" /\ Class(w)' = Class(w)
    BY <1>0, <2>1, GoStep
  <2>3. StepInv' /\ ~Rendering(w)'
    BY <2>2, StepsApart
  <2> QED
    BY <2>1, <2>2, <2>3, SameDirs
<1>2. CASE ~Structure
  <2>1. classDone(w)
    BY <1>2 DEF thenStructure
  <2>2. TypeInv' /\ Others(w) /\ step'[w] = "parse"
    BY <1>0, <2>1, DoneStep
  <2>3. StepInv' /\ ~Rendering(w)'
    BY <2>2, StepsApart
  <2>4. DirInv'
    BY <2>1, DoneDirs
  <2> QED
    BY <2>2, <2>3, <2>4
<1> QED
  BY <1>1, <1>2

-----------------------------------------------------------------------------
(* Taking, parsing, and what goes to the standard output *)

LEMMA TakeStep ==
  ASSUME PrintingAssumption, Inv, NEW w \in Workers, NEW j \in Jobs, take(w, j)
  PROVE  Inv'
<1> USE DEF Inv
<1>1. /\ todo[w] = <<>> /\ j \in queue /\ queue' = queue \ {j}
      /\ todo' = [todo EXCEPT ![w] = j]
      /\ UNCHANGED <<step, dirs, files, listed, overlapped>>
  BY DEF take
<1>2. step[w] = "parse" /\ step' = step /\ Others(w) /\ todo'[w] = j /\ j \in Seq(Classes)
  BY <1>1 DEF TypeInv, PrintingAssumption, Others
<1>3. TypeInv'
  BY <1>1, <1>2 DEF TypeInv
<1>4. StepInv' /\ ~Rendering(w)'
  BY <1>1, <1>2, StepsApart
<1>5. DirInv'
  <2>1. ASSUME NEW c, Ahead(c)
        PROVE  Ahead(c)'
    <3>1. CASE \E i \in queue : c \in ClassesOf(i)
      <4>1. PICK i \in queue : c \in ClassesOf(i)
        BY <3>1
      <4>2. CASE i = j
        BY <1>2, <4>1, <4>2 DEF Ahead
      <4>3. CASE i # j
        <5>1. i \in queue'
          BY <1>1, <4>3
        <5> QED
          BY Zenon, <4>1, <5>1 DEF Ahead
      <4> QED
        BY <4>2, <4>3
    <3>2. CASE \E v \in Workers : c \in ClassesOf(todo[v])
      <4>1. PICK v \in Workers : c \in ClassesOf(todo[v])
        BY <3>2
      <4>2. v # w
        BY <1>1, <4>1 DEF ClassesOf
      <4>3. c \in ClassesOf(todo'[v])
        BY <1>2, <4>1, <4>2 DEF Others
      <4> QED
        BY Zenon, <4>3 DEF Ahead
    <3> QED
      BY <2>1, <3>1, <3>2 DEF Ahead
  <2> QED
    BY <1>1, <2>1 DEF DirInv
<1> QED
  BY <1>1, <1>2, <1>3, <1>4, <1>5, QuietStep DEF Rendering

LEMMA ParseStep ==
  ASSUME PrintingAssumption, Inv, NEW w \in Workers, todo[w] # <<>>, parse(w)
  PROVE  Inv'
<1> USE DEF Inv
<1>1. /\ step[w] = "parse"
      /\ UNCHANGED <<queue, dirs, files, listed, overlapped>>
  BY DEF parse
<1>2. /\ files' = [p \in Paths |-> files'[p]] /\ listed' = [v \in Workers |-> listed'[v]]
      /\ dirs' \subseteq {Dir(c) : c \in {d \in Classes : d.parses}}
  BY <1>1 DEF TypeInv
<1>3. CASE ~Class(w).parses
  <2>1. classDone(w)
    BY <1>3 DEF parse
  <2>2. TypeInv' /\ Others(w) /\ step'[w] = "parse"
    BY <1>1, <1>2, <2>1, DoneStep
  <2>3. StepInv' /\ ~Rendering(w)'
    BY <1>1, <2>2, StepsApart
  <2>4. DirInv'
    BY <1>1, <1>3, <2>1, DoneDirs
  <2> QED
    BY <1>1, <2>2, <2>3, <2>4, QuietStep DEF Rendering
<1>4. CASE Class(w).parses /\ Output # "none"
  <2>1. PICK s \in {"lock", "dir"} : /\ Go(w, s) /\ UNCHANGED todo
                                     /\ Output = "nav" => s = "dir"
    BY Zenon, <1>4 DEF parse, PrintingAssumption
  <2>2. TypeInv' /\ Others(w) /\ step'[w] = s /\ Class(w)' = Class(w)
    BY <1>1, <1>2, <2>1, GoStep DEF Steps
  <2>3. StepInv' /\ ~Rendering(w)'
    BY <1>1, <1>4, <2>1, <2>2, StepsApart
  <2>4. DirInv'
    BY <1>1, <2>1, SameDirs
  <2> QED
    BY <1>1, <2>2, <2>3, <2>4, QuietStep DEF Rendering
<1>5. CASE Class(w).parses /\ Output = "none"
  <2>1. thenStructure(w)
    BY <1>5 DEF parse
  <2>2. TypeInv' /\ StepInv' /\ DirInv' /\ Others(w) /\ ~Rendering(w)'
    BY <1>1, <1>2, <1>5, <2>1, StructureStep
  <2> QED
    BY <1>1, <2>2, QuietStep DEF Rendering
<1> QED
  BY <1>3, <1>4, <1>5

LEMMA OutputStep ==
  ASSUME PrintingAssumption, Inv, NEW w \in Workers, todo[w] # <<>>,
         output(w) \/ printTitle(w) \/ printEntry(w) \/ catchAll(w) \/ unlock(w)
  PROVE  Inv'
<1> USE DEF Inv
<1>1. UNCHANGED <<queue, dirs, files, listed, overlapped>>
  BY DEF output, outputPart, printTitle, printEntry, catchAll, unlock
<1>2. /\ files' = [p \in Paths |-> files'[p]] /\ listed' = [v \in Workers |-> listed'[v]]
      /\ dirs' \subseteq {Dir(c) : c \in {d \in Classes : d.parses}}
  BY <1>1 DEF TypeInv
<1>3. step[w] \in {"lock", "entry", "class", "methods", "fields"}
  BY DEF output, outputPart, printTitle, printEntry, catchAll, unlock
<1>4. Class(w).parses /\ ~Rendering(w) /\ (Output = "nav" => Dir(Class(w)) \in dirs)
      /\ (Output = "nav" => step[w] \notin {"lock", "entry"})
  BY <1>3 DEF StepInv, Rendering
<1>5. \/ thenStructure(w)
      \/ classDone(w)
      \/ \E s \in {"entry", "methods", "fields"} :
           Go(w, s) /\ UNCHANGED todo /\ (Output = "nav" => s # "entry")
      \/ UNCHANGED <<step, todo>>
  <2>1. CASE output(w)
    BY <2>1 DEF output, outputPart
  <2>2. CASE printTitle(w)
    BY <1>4, <2>2 DEF printTitle
  <2>3. CASE printEntry(w)
    BY <2>3 DEF printEntry
  <2>4. CASE catchAll(w) \/ unlock(w)
    BY <2>4 DEF catchAll, unlock
  <2> QED
    BY <2>1, <2>2, <2>3, <2>4
<1>6. TypeInv' /\ StepInv' /\ DirInv' /\ Others(w) /\ ~Rendering(w)'
  <2>1. CASE thenStructure(w)
    BY <1>1, <1>2, <1>4, <2>1, StructureStep
  <2>2. CASE classDone(w)
    <3>1. TypeInv' /\ Others(w) /\ step'[w] = "parse"
      BY <1>1, <1>2, <2>2, DoneStep
    <3>2. StepInv' /\ ~Rendering(w)'
      BY <1>1, <3>1, StepsApart
    <3>3. DirInv'
      BY <1>1, <1>4, <2>2, DoneDirs
    <3> QED
      BY <3>1, <3>2, <3>3
  <2>3. ASSUME NEW s \in {"entry", "methods", "fields"}, Go(w, s), UNCHANGED todo,
               Output = "nav" => s # "entry"
        PROVE  TypeInv' /\ StepInv' /\ DirInv' /\ Others(w) /\ ~Rendering(w)'
    <3>1. TypeInv' /\ Others(w) /\ step'[w] = s /\ Class(w)' = Class(w)
      BY <1>1, <1>2, <2>3, GoStep DEF Steps
    <3>2. StepInv' /\ ~Rendering(w)'
      BY <1>1, <1>4, <2>3, <3>1, StepsApart
    <3>3. DirInv'
      BY <1>1, <2>3, SameDirs
    <3> QED
      BY <3>1, <3>2, <3>3
  <2>4. CASE UNCHANGED <<step, todo>>
    <3>1. TypeInv' /\ Others(w) /\ ~Rendering(w)'
      BY <1>1, <1>4, <2>4 DEF TypeInv, Others, Rendering
    <3>2. StepInv'
      BY <1>1, <2>4 DEF StepInv, Rendering, Class
    <3>3. DirInv'
      BY <1>1, <2>4, SameDirs
    <3> QED
      BY <3>1, <3>2, <3>3
  <2> QED
    BY <1>5, <2>1, <2>2, <2>3, <2>4
<1> QED
  BY <1>1, <1>4, <1>6, QuietStep

-----------------------------------------------------------------------------
(* Rendering *)

\* What stays as it is when worker w goes from one step of rendering to the next
LEMMA RenderStep ==
  ASSUME PrintingAssumption, Inv, NEW w \in Workers, todo[w] # <<>>,
         NEW s \in {"open", "page", "list", "openIndex", "index"}, Go(w, s),
         step[w] # "parse", UNCHANGED <<queue, todo>>,
         files' = [p \in Paths |-> files'[p]], listed' = [v \in Workers |-> listed'[v]],
         dirs' = dirs \cup {Dir(Class(w))}
  PROVE  /\ TypeInv' /\ StepInv' /\ DirInv'
         /\ Others(w) /\ step'[w] = s /\ Rendering(w)'
         /\ \A v \in Workers : Class(v)' = Class(v)
         /\ \A v \in Workers \ {w} : Rendering(v)' <=> Rendering(v)
<1> USE DEF Inv
<1>1. Class(w) \in Classes /\ Class(w).parses
  BY AtWork DEF StepInv
<1>2. dirs' \subseteq {Dir(c) : c \in {d \in Classes : d.parses}}
  BY <1>1 DEF TypeInv
<1>3. TypeInv' /\ Others(w) /\ step'[w] = s /\ Class(w)' = Class(w)
  BY <1>2, GoStep DEF Steps
<1>4. \A v \in Workers : Class(v)' = Class(v)
  BY DEF Class
<1>5. Rendering(w)' /\ \A v \in Workers \ {w} : Rendering(v)' <=> Rendering(v)
  BY <1>3 DEF Rendering, Others
<1>6. StepInv'
  <2>1. ASSUME NEW v \in Workers
        PROVE  /\ step'[v] # "parse" => (Class(v).parses)'
               /\ Rendering(v)' => (Dir(Class(v)) \in dirs)'
               /\ Output = "nav" => step'[v] \notin {"lock", "entry"}
               /\ Output = "nav" /\ step'[v] \in {"class", "methods", "fields"} => (Dir(Class(v)) \in dirs)'
    <3>1. CASE v = w
      BY <1>1, <1>3, <3>1
    <3>2. CASE v # w
      BY <1>3, <1>4, <1>5, <3>2 DEF StepInv, Others
    <3> QED
      BY <3>1, <3>2
  <2> QED
    BY <2>1 DEF StepInv
<1>7. DirInv'
  BY SameDirs
<1> QED
  BY <1>3, <1>4, <1>5, <1>6, <1>7

\* Two workers at one page, or at pages of one name, have been noticed
LEMMA Noticed ==
  ASSUME OverlapInv, NEW v \in Workers, NEW w \in Workers, v # w,
         Rendering(v), Rendering(w), NEW c
  PROVE  /\ Dir(Class(v)) = Dir(c) /\ Dir(Class(w)) = Dir(c) => ~PageAlone(c)
         /\ Class(v).name = c.name /\ Class(w).name = c.name => ~IndexAlone(c)
<1>1. {Class(v), Class(w)} \in overlapped
  BY DEF OverlapInv
<1>2. \A d \in {Class(v), Class(w)} : d = Class(v) \/ d = Class(w)
  OBVIOUS
<1>3. ASSUME Dir(Class(v)) = Dir(c), Dir(Class(w)) = Dir(c)
      PROVE  ~PageAlone(c)
  <2>1. \A d \in {Class(v), Class(w)} : Dir(d) = Dir(c)
    BY Zenon, <1>2, <1>3
  <2> QED
    BY Zenon, <1>1, <2>1 DEF PageAlone
<1>4. ASSUME Class(v).name = c.name, Class(w).name = c.name
      PROVE  ~IndexAlone(c)
  <2>1. \A d \in {Class(v), Class(w)} : d.name = c.name
    BY Zenon, <1>2, <1>4
  <2> QED
    BY Zenon, <1>1, <2>1 DEF IndexAlone
<1> QED
  BY <1>3, <1>4

LEMMA EnsureDirStep ==
  ASSUME PrintingAssumption, Inv, NEW w \in Workers, todo[w] # <<>>, ensureDir(w)
  PROVE  Inv'
<1> USE DEF Inv
<1>1. /\ step[w] = "dir" /\ Go(w, "open") /\ UNCHANGED <<queue, todo, files, listed>>
      /\ dirs' = dirs \cup {Dir(Class(w))}
      /\ overlapped' = overlapped \cup {{Class(w), Class(v)} : v \in {u \in Workers \ {w} : Rendering(u)}}
  BY DEF ensureDir
<1>2. /\ files' = [p \in Paths |-> files'[p]] /\ listed' = [v \in Workers |-> listed'[v]]
  BY <1>1 DEF TypeInv
<1>3. /\ TypeInv' /\ StepInv' /\ DirInv'
      /\ Others(w) /\ step'[w] = "open" /\ Rendering(w)'
      /\ \A v \in Workers : Class(v)' = Class(v)
      /\ \A v \in Workers \ {w} : Rendering(v)' <=> Rendering(v)
  BY <1>1, <1>2, RenderStep
<1>4. \A v \in Workers \ {w} : Rendering(v) => {Class(w), Class(v)} \in overlapped'
  BY <1>1
<1>5. OverlapInv'
  <2> SUFFICES ASSUME NEW v \in Workers, NEW u \in Workers, v # u, Rendering(v)', Rendering(u)'
               PROVE  {Class(v), Class(u)} \in overlapped'
    BY <1>3 DEF OverlapInv
  <2>1. CASE v = w
    BY <1>3, <1>4, <2>1
  <2>2. CASE u = w
    <3>1. {Class(v), Class(u)} = {Class(w), Class(v)}
      BY <2>2
    <3> QED
      BY <1>3, <1>4, <2>2, <3>1
  <2>3. CASE v # w /\ u # w
    BY <1>1, <1>3, <2>3 DEF OverlapInv
  <2> QED
    BY <2>1, <2>2, <2>3
<1>6. \A c : (PageAlone(c)' => PageAlone(c)) /\ (IndexAlone(c)' => IndexAlone(c))
  BY <1>1 DEF PageAlone, IndexAlone
<1>7. \A v \in Workers \ {w}, c \in Classes :
         /\ step'[v] = step[v]
         /\ AtPage(v, c)' <=> AtPage(v, c)
         /\ AtName(v, c)' <=> AtName(v, c)
  BY <1>3 DEF AtPage, AtName, Others
<1>8. \A c \in Classes : ~AtPage(w, c) /\ ~AtName(w, c)
  BY <1>1 DEF AtPage, AtName, Rendering
<1>9. \A c \in Classes : /\ AtPage(w, c)' <=> Dir(Class(w)) = Dir(c)
                         /\ AtName(w, c)' <=> Class(w).name = c.name
  BY <1>3 DEF AtPage, AtName
<1>10. PageInv'
  <2> SUFFICES ASSUME NEW c \in Classes
               PROVE  PageOf(c)'
    BY DEF PageInv
  <2>0. PageOf(c)
    BY DEF PageInv
  <2>1. CASE Dir(c) = Dir(Class(w))
    <3>1. AtPage(w, c)'
      BY <1>9, <2>1
    <3>2. \A v \in Workers : AtPage(v, c)' /\ step'[v] = "page" => AtPage(v, c) /\ step[v] = "page"
      BY <1>3, <1>7
    <3> QED
      BY <1>1, <1>6, <2>0, <3>1, <3>2 DEF PageOf
  <2>2. CASE Dir(c) # Dir(Class(w))
    <3>1. \A v \in Workers : /\ AtPage(v, c)' <=> AtPage(v, c)
                             /\ AtPage(v, c) => step'[v] = step[v]
      BY <1>7, <1>8, <1>9, <2>2
    <3> QED
      BY <1>1, <1>6, <2>0, <2>2, <3>1, PageSame
  <2> QED
    BY <2>1, <2>2
<1>11. IndexInv'
  <2> SUFFICES ASSUME NEW c \in Classes
               PROVE  IndexOf(c)'
    BY DEF IndexInv
  <2>0. IndexOf(c)
    BY DEF IndexInv
  <2>1. CASE Class(w).name = c.name
    <3>1. AtName(w, c)'
      BY <1>9, <2>1
    <3>2. \A v \in Workers : AtName(v, c)' /\ step'[v] \in {"openIndex", "index"} =>
            AtName(v, c) /\ step[v] = step'[v]
      BY <1>3, <1>7
    <3>3. Implementations(c) \subseteq Implementations(c)'
      BY <1>1 DEF Implementations
    <3>4. ASSUME IndexAlone(c)', NEW v \in Workers, AtName(v, c)'
          PROVE  v = w
      <4> SUFFICES ASSUME v # w
                   PROVE  FALSE
        OBVIOUS
      <4>1. Rendering(v)' /\ (Class(v).name)' = c.name
        BY <3>4 DEF AtName
      <4>2. (Class(w).name)' = c.name
        BY <1>3, <2>1
      <4>3. {Class(w), Class(v)} \in overlapped'
        BY <1>3, <1>4, <4>1
      <4>4. \A d \in {Class(w), Class(v)} : d.name = c.name
        BY <1>3, <4>1, <4>2
      <4> QED
        BY Zenon, <3>4, <4>3, <4>4 DEF IndexAlone
    <3>5. IndexAlone(c)' => \A v \in Workers : AtName(v, c)' => step'[v] = "open"
      BY <1>3, <3>4
    <3> QED
      BY <1>1, <2>0, <3>1, <3>2, <3>3, <3>5 DEF IndexOf
  <2>2. CASE Class(w).name # c.name
    <3>1. \A v \in Workers : AtName(v, c)' <=> AtName(v, c)
      BY <1>7, <1>8, <1>9, <2>2
    <3>2. \A v \in Workers : AtName(v, c) => step'[v] = step[v] /\ listed'[v] = listed[v]
      BY <1>1, <1>7, <1>8
    <3>3. Implementations(c)' = Implementations(c)
      BY <1>1, <2>2, PathsApart DEF Implementations
    <3> QED
      BY <1>1, <1>6, <2>0, <3>1, <3>2, <3>3, IndexSame
  <2> QED
    BY <2>1, <2>2
<1> QED
  BY <1>3, <1>5, <1>10, <1>11

\* The steps of rendering that leave the directories alone
LEMMA RenderSame ==
  ASSUME PrintingAssumption, Inv, NEW w \in Workers, todo[w] # <<>>,
         NEW s \in {"page", "list", "openIndex", "index"}, Go(w, s), Rendering(w),
         UNCHANGED <<queue, todo, dirs, overlapped>>,
         files' = [p \in Paths |-> files'[p]], listed' = [v \in Workers |-> listed'[v]]
  PROVE  /\ TypeInv' /\ StepInv' /\ DirInv' /\ OverlapInv'
         /\ step'[w] = s /\ \A v \in Workers \ {w} : step'[v] = step[v]
         /\ \A v \in Workers, c \in Classes : AtName(v, c)' <=> AtName(v, c)
         /\ \A v \in Workers \ {w}, c \in Classes : AtPage(v, c)' <=> AtPage(v, c)
         /\ \A c \in Classes : AtPage(w, c)' <=> s = "page" /\ Dir(Class(w)) = Dir(c)
         /\ \A c \in Classes : /\ PageAlone(c)' <=> PageAlone(c)
                               /\ IndexAlone(c)' <=> IndexAlone(c)
                               /\ Implementations(c)' = Implementations(c)
<1> USE DEF Inv
<1>1. dirs' = dirs \cup {Dir(Class(w))} /\ step[w] # "parse"
  BY DEF StepInv, Rendering
<1>2. /\ TypeInv' /\ StepInv' /\ DirInv'
      /\ Others(w) /\ step'[w] = s /\ Rendering(w)'
      /\ \A v \in Workers : Class(v)' = Class(v)
      /\ \A v \in Workers \ {w} : Rendering(v)' <=> Rendering(v)
  BY <1>1, RenderStep
<1>3. \A v \in Workers : Rendering(v)' <=> Rendering(v)
  BY <1>2
<1>4. OverlapInv'
  BY <1>2, <1>3 DEF OverlapInv
<1>5. \A v \in Workers, c \in Classes : AtName(v, c)' <=> AtName(v, c)
  BY <1>2, <1>3 DEF AtName
<1>6. /\ \A v \in Workers \ {w} : step'[v] = step[v]
      /\ \A v \in Workers \ {w}, c \in Classes : AtPage(v, c)' <=> AtPage(v, c)
      /\ \A c \in Classes : AtPage(w, c)' <=> s = "page" /\ Dir(Class(w)) = Dir(c)
  BY <1>2 DEF AtPage, Others
<1>7. \A c \in Classes : /\ PageAlone(c)' <=> PageAlone(c)
                         /\ IndexAlone(c)' <=> IndexAlone(c)
                         /\ Implementations(c)' = Implementations(c)
  BY DEF PageAlone, IndexAlone, Implementations
<1> QED
  BY <1>2, <1>4, <1>5, <1>6, <1>7

\* Opening and writing the page of an implementation
LEMMA PageStep ==
  ASSUME PrintingAssumption, Inv, NEW w \in Workers, todo[w] # <<>>,
         openPage(w) \/ writePage(w)
  PROVE  Inv'
<1> USE DEF Inv
<1> DEFINE D == Dir(Class(w))
<1>1. /\ step[w] \in {"open", "page"} /\ UNCHANGED <<queue, todo, dirs, listed, overlapped>>
      /\ Rendering(w)
  BY DEF openPage, writePage, Rendering
<1>2. PICK x : files' = [files EXCEPT ![D] = x]
  BY DEF openPage, writePage
<1>3. Class(w) \in Classes /\ D \in Paths
  BY <1>1, AtWork DEF Paths
<1>4. /\ files' = [p \in Paths |-> files'[p]] /\ listed' = [v \in Workers |-> listed'[v]]
      /\ files'[D] = x /\ \A p \in Paths \ {D} : files'[p] = files[p]
  BY Zenon, <1>1, <1>2, <1>3 DEF TypeInv
<1>5. PICK s \in {"page", "list"} :
         /\ Go(w, s)
         /\ s = "page" => step[w] = "open" /\ files'[D] = {}
         /\ s = "list" => step[w] = "page" /\ files'[D] \in Written(D, Class(w).id)
  <2>1. CASE openPage(w)
    <3>1. files'[D] = {}
      BY <1>3, <2>1 DEF openPage, TypeInv
    <3> QED
      BY <2>1, <3>1 DEF openPage
  <2>2. CASE writePage(w)
    <3>1. PICK t \in Written(D, Class(w).id) : files' = [files EXCEPT ![D] = t]
      BY Zenon, <2>2 DEF writePage
    <3>2. files'[D] = t
      BY <1>3, <3>1 DEF TypeInv
    <3> QED
      BY <2>2, <3>1, <3>2 DEF writePage
  <2> QED
    BY <2>1, <2>2
<1>6. /\ TypeInv' /\ StepInv' /\ DirInv' /\ OverlapInv'
      /\ step'[w] = s /\ \A v \in Workers \ {w} : step'[v] = step[v]
      /\ \A v \in Workers, c \in Classes : AtName(v, c)' <=> AtName(v, c)
      /\ \A v \in Workers \ {w}, c \in Classes : AtPage(v, c)' <=> AtPage(v, c)
      /\ \A c \in Classes : AtPage(w, c)' <=> s = "page" /\ D = Dir(c)
      /\ \A c \in Classes : /\ PageAlone(c)' <=> PageAlone(c)
                            /\ IndexAlone(c)' <=> IndexAlone(c)
                            /\ Implementations(c)' = Implementations(c)
  BY <1>1, <1>4, <1>5, RenderSame
<1> HIDE DEF D
<1>7. \A c \in Classes : AtPage(w, c) <=> D = Dir(c)
  BY <1>1 DEF AtPage, D
<1>8. PageInv'
  <2> SUFFICES ASSUME NEW c \in Classes
               PROVE  PageOf(c)'
    BY DEF PageInv
  <2>0. PageOf(c) /\ Dir(c) \in Paths
    BY DEF PageInv, Paths
  <2>1. CASE D # Dir(c)
    <3>1. \A v \in Workers : /\ AtPage(v, c)' <=> AtPage(v, c)
                             /\ AtPage(v, c) => step'[v] = step[v]
      BY <1>6, <1>7, <2>1
    <3>2. files'[Dir(c)] = files[Dir(c)]
      BY <1>4, <2>0, <2>1
    <3> QED
      BY <1>1, <1>6, <2>0, <3>1, <3>2, PageSame
  <2>2. CASE D = Dir(c) /\ s = "page"
    <3>1. AtPage(w, c)' /\ files'[Dir(c)] = {}
      BY <1>5, <1>6, <2>2
    <3> QED
      BY <3>1 DEF PageOf
  <2>3. CASE D = Dir(c) /\ s = "list"
    <3>1. files'[Dir(c)] \in Written(Dir(c), Class(w).id) /\ step[w] = "page"
      BY <1>5, <2>3
    <3>2. files'[Dir(c)] # {}
      BY <3>1 DEF Written
    <3>3. ASSUME PageAlone(c)
          PROVE  /\ \E d \in Classes : Dir(d) = Dir(c) /\ files'[Dir(c)] = {d.id}
                 /\ \A v \in Workers : ~AtPage(v, c)'
      <4>1. files[Dir(c)] = {}
        BY <1>7, <2>0, <2>3, <3>1, <3>3 DEF PageOf
      <4>2. files'[Dir(c)] = {Class(w).id}
        BY <3>1, <4>1 DEF Written
      <4>3. ASSUME NEW v \in Workers, AtPage(v, c)'
            PROVE  FALSE
        <5>1. v # w
          BY <1>6, <2>3, <4>3
        <5>2. AtPage(v, c)
          BY <1>6, <4>3, <5>1
        <5>3. Rendering(v) /\ Dir(Class(v)) = Dir(c)
          BY <5>2 DEF AtPage, Rendering
        <5>4. Dir(Class(w)) = Dir(c)
          BY <2>3 DEF D
        <5>5. ~PageAlone(c)
          BY <1>1, <5>1, <5>3, <5>4, Noticed
        <5> QED
          BY <3>3, <5>5
      <4> QED
        BY <1>3, <2>3, <4>2, <4>3 DEF D
    <3> QED
      BY <1>6, <3>2, <3>3 DEF PageOf
  <2> QED
    BY <1>5, <2>1, <2>2, <2>3
<1>9. IndexInv'
  <2> SUFFICES ASSUME NEW c \in Classes
               PROVE  IndexOf(c)'
    BY DEF IndexInv
  <2>1. IndexOf(c) /\ Index(c) \in Paths /\ Index(c) # D
    BY PathsApart DEF IndexInv, Paths, D
  <2>2. files'[Index(c)] = files[Index(c)]
    BY <1>4, <2>1
  <2>3. \A v \in Workers : step'[v] \in {"openIndex", "index"} =>
           step'[v] = step[v] /\ listed'[v] = listed[v]
    BY <1>1, <1>6
  <2> QED
    BY <1>6, <2>1, <2>2, <2>3, IndexSame
<1> QED
  BY <1>6, <1>8, <1>9

\* Reading the directory and opening the index page
LEMMA ListStep ==
  ASSUME PrintingAssumption, Inv, NEW w \in Workers, todo[w] # <<>>,
         getImplementations(w) \/ openIndex(w)
  PROVE  Inv'
<1> USE DEF Inv
<1> DEFINE X == Index(Class(w))
<1>1. /\ step[w] \in {"list", "openIndex"} /\ UNCHANGED <<queue, todo, dirs, overlapped>>
      /\ Rendering(w)
  BY DEF getImplementations, openIndex, Rendering
<1>2. Class(w) \in Classes /\ X \in Paths
  BY <1>1, AtWork DEF Paths
<1>3. PICK s \in {"openIndex", "index"} :
         /\ Go(w, s)
         /\ s = "openIndex" => files' = files /\ listed' = [listed EXCEPT ![w] = Implementations(Class(w))]
         /\ s = "index" => step[w] = "openIndex" /\ listed' = listed /\ files' = [files EXCEPT ![X] = {}]
  BY DEF getImplementations, openIndex, Implementations
<1>4. /\ files' = [p \in Paths |-> files'[p]] /\ listed' = [v \in Workers |-> listed'[v]]
      /\ s = "openIndex" => files' = files /\ listed'[w] = Implementations(Class(w))
      /\ s = "index" => step[w] = "openIndex" /\ listed' = listed /\ files'[X] = {}
      /\ \A p \in Paths \ {X} : files'[p] = files[p]
      /\ \A v \in Workers \ {w} : listed'[v] = listed[v]
  BY <1>2, <1>3 DEF TypeInv
<1>5. /\ TypeInv' /\ StepInv' /\ DirInv' /\ OverlapInv'
      /\ step'[w] = s /\ \A v \in Workers \ {w} : step'[v] = step[v]
      /\ \A v \in Workers, c \in Classes : AtName(v, c)' <=> AtName(v, c)
      /\ \A v \in Workers \ {w}, c \in Classes : AtPage(v, c)' <=> AtPage(v, c)
      /\ \A c \in Classes : AtPage(w, c)' <=> s = "page" /\ Dir(Class(w)) = Dir(c)
      /\ \A c \in Classes : /\ PageAlone(c)' <=> PageAlone(c)
                            /\ IndexAlone(c)' <=> IndexAlone(c)
                            /\ Implementations(c)' = Implementations(c)
  BY <1>1, <1>3, <1>4, RenderSame
<1>6. \A c \in Classes : X = Index(c) <=> AtName(w, c)
  BY <1>1, PathsApart DEF AtName
<1>7. \A c \in Classes : AtName(w, c) => Implementations(c) = Implementations(Class(w))
  BY DEF AtName, Implementations
<1> HIDE DEF X
<1>8. PageInv'
  <2> SUFFICES ASSUME NEW c \in Classes
               PROVE  PageOf(c)'
    BY DEF PageInv
  <2>1. PageOf(c) /\ Dir(c) \in Paths /\ Dir(c) # X
    BY PathsApart DEF PageInv, Paths, X
  <2>2. \A v \in Workers : /\ AtPage(v, c)' <=> AtPage(v, c)
                           /\ AtPage(v, c) => step'[v] = step[v]
    <3>1. ~AtPage(w, c) /\ ~AtPage(w, c)'
      BY <1>1, <1>3, <1>5 DEF AtPage
    <3> QED
      BY <1>5, <3>1
  <2> QED
    BY <1>1, <1>4, <1>5, <2>1, <2>2, PageSame
<1>9. IndexInv'
  <2> SUFFICES ASSUME NEW c \in Classes
               PROVE  IndexOf(c)'
    BY DEF IndexInv
  <2>0. IndexOf(c) /\ Index(c) \in Paths
    BY DEF IndexInv, Paths
  <2>1. CASE ~AtName(w, c)
    <3>1. files'[Index(c)] = files[Index(c)]
      BY <1>4, <1>6, <2>0, <2>1
    <3>2. \A v \in Workers : AtName(v, c) => step'[v] = step[v] /\ listed'[v] = listed[v]
      BY <1>4, <1>5, <2>1
    <3> QED
      BY <1>5, <2>0, <3>1, <3>2, IndexSame
  <2>2. CASE AtName(w, c) /\ s = "openIndex"
    <3>1. files' = files /\ listed'[w] = Implementations(c) /\ step'[w] # "index"
      BY <1>4, <1>5, <1>7, <2>2
    <3>2. \A v \in Workers \ {w} : step'[v] = step[v] /\ listed'[v] = listed[v]
      BY <1>4, <1>5
    <3> QED
      BY <1>5, <2>0, <3>1, <3>2 DEF IndexOf
  <2>3. CASE AtName(w, c) /\ s = "index"
    <3>1. files'[Index(c)] = {} /\ listed' = listed /\ step[w] = "openIndex"
      BY <1>4, <1>6, <2>3
    <3>2. \A v \in Workers : step'[v] \in {"openIndex", "index"} => step[v] \in {"openIndex", "index"}
      BY <1>5, <3>1
    <3> QED
      BY <1>5, <2>0, <2>3, <3>1, <3>2 DEF IndexOf
  <2> QED
    BY <1>3, <2>1, <2>2, <2>3
<1> QED
  BY <1>5, <1>8, <1>9

\* Writing the index page, the end of rendering
LEMMA WriteIndexStep ==
  ASSUME PrintingAssumption, Inv, NEW w \in Workers, todo[w] # <<>>, writeIndex(w)
  PROVE  Inv'
<1> USE DEF Inv
<1> DEFINE X == Index(Class(w))
<1>1. /\ step[w] = "index" /\ thenStructure(w) /\ UNCHANGED <<queue, dirs, overlapped>>
      /\ listed' = [listed EXCEPT ![w] = {}] /\ Rendering(w)
  BY DEF writeIndex, Rendering
<1>2. Class(w) \in Classes /\ X \in Paths /\ Class(w).parses /\ Dir(Class(w)) \in dirs
  BY <1>1, AtWork DEF Paths, StepInv
<1>3. PICK x \in Written(X, listed[w]) : files' = [files EXCEPT ![X] = x]
  BY Zenon DEF writeIndex
<1>4. /\ files' = [p \in Paths |-> files'[p]] /\ listed' = [v \in Workers |-> listed'[v]]
      /\ files'[X] = x
      /\ \A p \in Paths \ {X} : files'[p] = files[p]
      /\ \A v \in Workers \ {w} : listed'[v] = listed[v]
  BY Zenon, <1>1, <1>2, <1>3 DEF TypeInv
<1>5. TypeInv' /\ StepInv' /\ DirInv' /\ Others(w) /\ ~Rendering(w)'
  BY Zenon, <1>1, <1>2, <1>4, StructureStep
<1>6. \A v \in Workers \ {w} :
         /\ step'[v] = step[v] /\ (Rendering(v)' <=> Rendering(v)) /\ Class(v)' = Class(v)
  BY <1>5 DEF Others, Rendering, Class
<1>7. OverlapInv'
  BY <1>1, <1>5, <1>6 DEF OverlapInv
<1>8. \A c \in Classes : /\ PageAlone(c)' <=> PageAlone(c)
                         /\ IndexAlone(c)' <=> IndexAlone(c)
                         /\ Implementations(c)' = Implementations(c)
  BY <1>1 DEF PageAlone, IndexAlone, Implementations
<1>9. \A c \in Classes :
        /\ ~AtPage(w, c) /\ ~AtPage(w, c)' /\ ~AtName(w, c)'
        /\ X = Index(c) <=> AtName(w, c)
        /\ \A v \in Workers \ {w} : (AtPage(v, c)' <=> AtPage(v, c)) /\ (AtName(v, c)' <=> AtName(v, c))
  <2>1. \A c \in Classes : ~AtPage(w, c) /\ ~AtPage(w, c)' /\ ~AtName(w, c)'
    BY <1>1, <1>5 DEF AtPage, AtName, Rendering
  <2>2. \A c \in Classes : X = Index(c) <=> AtName(w, c)
    BY <1>1, PathsApart DEF AtName
  <2>3. \A c \in Classes, v \in Workers \ {w} :
          (AtPage(v, c)' <=> AtPage(v, c)) /\ (AtName(v, c)' <=> AtName(v, c))
    BY <1>6 DEF AtPage, AtName
  <2> QED
    BY <2>1, <2>2, <2>3
<1> HIDE DEF X
<1>10. PageInv'
  <2> SUFFICES ASSUME NEW c \in Classes
               PROVE  PageOf(c)'
    BY DEF PageInv
  <2>1. PageOf(c) /\ Dir(c) \in Paths /\ Dir(c) # X
    BY PathsApart DEF PageInv, Paths, X
  <2>2. \A v \in Workers : /\ AtPage(v, c)' <=> AtPage(v, c)
                           /\ AtPage(v, c) => step'[v] = step[v]
    BY <1>6, <1>9
  <2> QED
    BY <1>1, <1>4, <1>8, <2>1, <2>2, PageSame
<1>11. IndexInv'
  <2> SUFFICES ASSUME NEW c \in Classes
               PROVE  IndexOf(c)'
    BY DEF IndexInv
  <2>0. IndexOf(c) /\ Index(c) \in Paths
    BY DEF IndexInv, Paths
  <2>1. CASE ~AtName(w, c)
    <3>1. files'[Index(c)] = files[Index(c)]
      BY <1>4, <1>9, <2>0, <2>1
    <3>2. \A v \in Workers : /\ AtName(v, c)' <=> AtName(v, c)
                             /\ AtName(v, c) => step'[v] = step[v] /\ listed'[v] = listed[v]
      BY <1>4, <1>6, <1>9, <2>1
    <3> QED
      BY <1>8, <2>0, <3>1, <3>2, IndexSame
  <2>2. CASE AtName(w, c)
    <3>1. X = Index(c) /\ files'[Index(c)] \in Written(Index(c), listed[w])
      BY <1>3, <1>4, <1>9, <2>2
    <3>2. listed[w] \subseteq Implementations(c) /\ \A s \in files[Index(c)] : s \subseteq Implementations(c)
      BY <1>1, <2>0, <2>2 DEF IndexOf
    <3>3. \A s \in files'[Index(c)] : s \subseteq Implementations(c)
      BY <3>1, <3>2 DEF Written
    <3>4. \A v \in Workers : AtName(v, c)' =>
             AtName(v, c) /\ v # w /\ step'[v] = step[v] /\ listed'[v] = listed[v]
      BY <1>4, <1>6, <1>9
    <3>5. ASSUME IndexAlone(c)
          PROVE  files'[Index(c)] = {Implementations(c)} /\ \A v \in Workers : ~AtName(v, c)'
      <4>1. files[Index(c)] = {} /\ listed[w] = Implementations(c)
        BY <1>1, <2>0, <2>2, <3>5 DEF IndexOf
      <4>2. files'[Index(c)] = {Implementations(c)}
        BY <3>1, <4>1 DEF Written
      <4>3. ASSUME NEW v \in Workers, AtName(v, c)'
            PROVE  FALSE
        <5>1. AtName(v, c) /\ v # w
          BY <3>4, <4>3
        <5>2. ~IndexAlone(c)
          BY <2>2, <5>1, Noticed DEF AtName
        <5> QED
          BY <3>5, <5>2
      <4> QED
        BY <4>2, <4>3
    <3> QED
      BY <1>8, <2>0, <3>3, <3>4, <3>5 DEF IndexOf
  <2> QED
    BY <2>1, <2>2
<1> QED
  BY <1>5, <1>7, <1>10, <1>11

-----------------------------------------------------------------------------
LEMMA PrintingStep ==
  ASSUME PrintingAssumption, Inv, [Next]_vars
  PROVE  Inv'
<1>1. CASE Next
  <2>1. PICK w \in Workers : Work(w)
    BY <1>1 DEF Next
  <2>2. CASE \E j \in Jobs : take(w, j)
    BY <2>2, TakeStep
  <2>3. CASE todo[w] # <<>> /\ parse(w)
    BY <2>3, ParseStep
  <2>4. CASE todo[w] # <<>> /\ (output(w) \/ printTitle(w) \/ printEntry(w) \/ catchAll(w) \/ unlock(w))
    BY <2>4, OutputStep
  <2>5. CASE todo[w] # <<>> /\ ensureDir(w)
    BY <2>5, EnsureDirStep
  <2>6. CASE todo[w] # <<>> /\ (openPage(w) \/ writePage(w))
    BY <2>6, PageStep
  <2>7. CASE todo[w] # <<>> /\ (getImplementations(w) \/ openIndex(w))
    BY <2>7, ListStep
  <2>8. CASE todo[w] # <<>> /\ writeIndex(w)
    BY <2>8, WriteIndexStep
  <2> QED
    BY <2>1, <2>2, <2>3, <2>4, <2>5, <2>6, <2>7, <2>8 DEF Work
<1>2. CASE UNCHANGED vars
  <2>1. TypeInv' /\ StepInv' /\ OverlapInv'
    BY <1>2 DEF vars, Inv, TypeInv, StepInv, OverlapInv, Rendering, Class
  <2>2. DirInv'
    BY <1>2, SameDirs DEF vars, Inv
  <2>3. PageInv' /\ IndexInv'
    BY <1>2 DEF vars, Inv, PageInv, PageOf, PageAlone, AtPage, IndexInv, IndexOf, IndexAlone,
       AtName, Implementations, Rendering, Class
  <2> QED
    BY <2>1, <2>2, <2>3 DEF Inv
<1> QED
  BY <1>1, <1>2

\* In the end nothing is ahead and no one renders
LEMMA AtTheEnd ==
  ASSUME PrintingAssumption, Inv, Finished
  PROVE  /\ \A c \in Classes : ~Ahead(c)
         /\ \A w \in Workers : ~Rendering(w)
         /\ \A w \in Workers, c \in Classes : ~AtPage(w, c) /\ ~AtName(w, c)
<1>1. \A w \in Workers : step[w] = "parse"
  BY DEF Inv, TypeInv, Finished
<1>2. \A w \in Workers, c \in Classes : c \notin ClassesOf(todo[w])
  BY DEF Finished, ClassesOf
<1>3. \A c \in Classes : ~Ahead(c)
  BY <1>2 DEF Finished, Ahead
<1> QED
  BY <1>1, <1>3 DEF Rendering, AtPage, AtName

\* HtmlGen::print(): for any threads and classes, when all is done every index
\* page lists all implementation directories of its name, and every page is
\* one class's and whole, but where classes with that name, or that page, were
\* rendered at the same time.
THEOREM NavPagesComplete ==
  ASSUME PrintingAssumption
  PROVE  Spec => []NavIsComplete
<1>1. Inv => NavIsComplete
  <2> SUFFICES ASSUME Inv, Finished, NEW c \in Classes, c.parses, Output = "nav"
               PROVE  /\ IndexAlone(c) =>
                          files[Index(c)] = {{Dir(d) : d \in {d \in Classes : d.parses /\ d.name = c.name}}}
                      /\ PageAlone(c) => \E d \in Classes : Dir(d) = Dir(c) /\ files[Dir(c)] = {d.id}
    BY DEF NavIsComplete, IndexAlone, PageAlone
  <2>1. /\ \A d \in Classes : d.parses => Dir(d) \in dirs
        /\ \A w \in Workers : ~AtPage(w, c) /\ ~AtName(w, c)
    BY AtTheEnd DEF Inv, DirInv
  <2>2. dirs \subseteq {Dir(d) : d \in {d \in Classes : d.parses}}
    BY DEF Inv, TypeInv
  <2>3. Implementations(c) = {Dir(d) : d \in {d \in Classes : d.parses /\ d.name = c.name}}
    <3>1. \A d \in Classes : Dir(d)[1] = d.name
      BY PathsApart
    <3> QED
      BY <2>1, <2>2, <3>1 DEF Implementations
  <2>4. Dir(c) \in Implementations(c)
    BY <2>1, PathsApart DEF Implementations
  <2>5. PageOf(c) /\ IndexOf(c)
    BY DEF Inv, PageInv, IndexInv
  <2>6. IndexAlone(c) => files[Index(c)] = {Implementations(c)}
    BY <2>1, <2>4, <2>5 DEF IndexOf
  <2>7. PageAlone(c) => \E d \in Classes : Dir(d) = Dir(c) /\ files[Dir(c)] = {d.id}
    BY <2>1, <2>5 DEF PageOf
  <2> QED
    BY <2>3, <2>6, <2>7
<1>2. Init => Inv
  BY InitInv
<1>3. Inv /\ [Next]_vars => Inv'
  BY PrintingStep
<1> QED
  BY <1>1, <1>2, <1>3, PTL DEF Spec

\* However the threads interleave, what an index page offers in the end has its
\* page: getImplementations() reads directories that writeLines() fills.
THEOREM NavLinksLead ==
  ASSUME PrintingAssumption
  PROVE  Spec => []IndexLinksLead
<1>1. Inv => IndexLinksLead
  <2> SUFFICES ASSUME Inv, Finished, NEW c \in Classes, NEW s \in files[Index(c)], NEW d \in s
               PROVE  d[1] = c.name /\ files[d] # {}
    BY DEF IndexLinksLead
  <2>1. d \in dirs /\ d[1] = c.name
    BY DEF Inv, IndexInv, IndexOf, Implementations
  <2>2. PICK e \in Classes : d = Dir(e)
    BY <2>1 DEF Inv, TypeInv
  <2>3. PageOf(e) /\ \A w \in Workers : ~AtPage(w, e)
    BY AtTheEnd DEF Inv, PageInv
  <2> QED
    BY <2>1, <2>2, <2>3 DEF PageOf
<1>2. Init => Inv
  BY InitInv
<1>3. Inv /\ [Next]_vars => Inv'
  BY PrintingStep
<1> QED
  BY <1>1, <1>2, <1>3, PTL DEF Spec
=============================================================================
