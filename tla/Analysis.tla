------------------------------- MODULE Analysis -------------------------------
(***************************************************************************)
(* One analysis: Analyzer::run() with its pool over the files and its      *)
(* progress thread, what the tasks count in Results, what they add to the  *)
(* Report, and what becomes of the report.  A task is the sequence of the  *)
(* effects that others can see, taken one at a time; what it finds out     *)
(* about a file is its verdict.                                            *)
(***************************************************************************)
EXTENDS Naturals, Sequences, FiniteSets, SequencesExt

CONSTANTS
  Jars, ClassFiles,   \* the files of the input
  MaxClasses,         \* classes in a jar
  Workers,            \* threads of _fileThreadPool
  DigestAnalysis,     \* a DigestAnalyzer, or the Analyzer that Diff() creates
  isDiff, canPrintProgress

AnalysisAssumption ==
  /\ Workers # {}
  /\ Jars \cap ClassFiles = {}
  /\ {DigestAnalysis, isDiff, canPrintProgress} \subseteq BOOLEAN

Files == Jars \cup ClassFiles

Verdicts == {"new", "same", "different", "unchanged", "failed"}

Counters == {"jar", "class", "jarClass"} \X
  (Verdicts \cup {"count", "parsedCount", "taskCount", "classfileCount"})

VARIABLES
  pc, isAnalyzing,
  progress,      \* of the progress thread
  read, shown,   \* the numbers it has read, and the last ones on the screen
  queue,         \* files no worker has taken
  todo,          \* effects that remain to each worker
  results, fileResults, classResults,
  found          \* the verdicts, to compare with

vars == <<pc, isAnalyzing, progress, read, shown, queue, todo, results,
          fileResults, classResults, found>>

-----------------------------------------------------------------------------
(* What the tasks do                                                       *)

Add(kind, what, n) == [do |-> "add", counter |-> <<kind, what>>, n |-> n]

Inc(kind, what) == Add(kind, what, 1)

Modified(v) == v \in {"same", "different"}

FileResult(name, v) ==
  [do |-> "addFile", name |-> name, isNew |-> v = "new", isModified |-> Modified(v),
   isSamePublicDigest |-> v \in {"same", "unchanged"}, failed |-> v = "failed"]

\* A failed class is added as an unchanged one
ClassResult(name, v) ==
  [do |-> "addClass", name |-> name, isNew |-> v = "new", isModified |-> Modified(v),
   isSamePublicDigest |-> v \in {"same", "unchanged", "failed"}, failed |-> FALSE]

If(condition, effects) == IF condition THEN effects ELSE <<>>

\* asNewJar() and the others: the counter first, then the lists under the mutex
asJar(name, v) ==
  <<Inc("jar", v)>> \o If(isDiff, <<FileResult(name, v)>>)

asClassFile(name, v) ==
  <<Inc("class", v)>> \o If(isDiff, <<FileResult(name, v)>>)
    \o If(v = "new" \/ Modified(v), <<ClassResult(name, v)>>)

asJarClass(name, v) ==
  <<Inc("jarClass", v)>> \o If(isDiff, <<ClassResult(name, v)>>)

\* DigestAnalyzer::doClassFile()
doClassFile(f, v) ==
  <<Inc("class", "count"), Inc("class", "taskCount")>> \o asClassFile(f, v)
    \o If(v = "new" \/ Modified(v), <<Inc("class", "parsedCount")>>)

\* DigestTask::processEntry(); a failure is counted by the report and again
processEntry(c, v) ==
  asJarClass(c, v)
    \o If(v = "failed", <<Inc("jarClass", "failed")>>)
    \o If(v = "new" \/ Modified(v), <<Inc("jarClass", "parsedCount")>>)
    \o <<Inc("jarClass", "count"), Inc("jarClass", "taskCount")>>

\* DigestTask::end() and the end of Processor::run(); classes is the number
\* of classes the file row has
endJar(f, v, classes) ==
  <<Inc("jar", "taskCount"), Add("jar", "classfileCount", classes)>>
    \o If(v = "unchanged", <<Add("jarClass", "taskCount", classes),
                             Add("jarClass", "unchanged", classes)>>)
    \o asJar(f, v) \o <<Inc("jar", "parsedCount")>>

digestJar(f, v, vs) ==
  <<Inc("jar", "count")>>
    \o If(v # "unchanged", FlattenSeq([i \in DOMAIN vs |-> processEntry(<<f, i>>, vs[i])]))
    \o endJar(f, v, Len(vs))

Outcome(v) == IF v = "failed" THEN "failed" ELSE "parsedCount"

\* Analyzer::parseClassFile() and processJar() with a ParserTask
parseClassFile(v) == <<Inc("class", "count"), Inc("class", Outcome(v))>>

parseJar(vs) ==
  <<Inc("jar", "count")>>
    \o FlattenSeq([i \in DOMAIN vs |->
                     <<Inc("jarClass", "count"), Inc("jarClass", Outcome(vs[i]))>>])
    \o <<Inc("jar", "parsedCount")>>

\* A jar is never reported as failed; its classes are any sequence of verdicts
Findings(f) ==
  IF f \in ClassFiles
    THEN {[verdict |-> v, classes |-> <<>>] : v \in Verdicts}
    ELSE [verdict: Verdicts \ {"failed"}, classes: BoundedSeq(Verdicts, MaxClasses)]

Program(f, finding) ==
  CASE DigestAnalysis /\ f \in ClassFiles -> doClassFile(f, finding.verdict)
    [] DigestAnalysis /\ f \in Jars -> digestJar(f, finding.verdict, finding.classes)
    [] ~DigestAnalysis /\ f \in ClassFiles -> parseClassFile(finding.verdict)
    [] ~DigestAnalysis /\ f \in Jars -> parseJar(finding.classes)

-----------------------------------------------------------------------------
(* The threads                                                             *)

Init ==
  /\ pc = "analyzeInput" /\ isAnalyzing = TRUE
  /\ progress = IF canPrintProgress THEN "loop" ELSE "gone"
  /\ read = <<0, 0>> /\ shown = <<0, 0>>
  /\ queue = {}
  /\ todo = [w \in Workers |-> <<>>]
  /\ results = [c \in Counters |-> 0]
  /\ fileResults = <<>> /\ classResults = <<>>
  /\ found = <<>>

\* analyzeInput() finds the files one by one and queues them
processFile(f) ==
  /\ pc = "analyzeInput" /\ f \notin queue \cup DOMAIN found
  /\ queue' = queue \cup {f}
  /\ pc' = IF Cardinality(queue' \cup DOMAIN found) = Cardinality(Files)
             THEN "wait" ELSE pc
  /\ UNCHANGED <<isAnalyzing, progress, read, shown, todo, results, fileResults,
                 classResults, found>>

take(w, f) ==
  /\ todo[w] = <<>> /\ f \in queue
  /\ queue' = queue \ {f}
  /\ \E finding \in Findings(f):
       /\ found' = [g \in DOMAIN found \cup {f} |-> IF g = f THEN finding ELSE found[g]]
       /\ todo' = [todo EXCEPT ![w] = Program(f, finding)]
  /\ UNCHANGED <<pc, isAnalyzing, progress, read, shown, results, fileResults, classResults>>

effect(w) ==
  /\ todo[w] # <<>>
  /\ todo' = [todo EXCEPT ![w] = Tail(@)]
  /\ LET e == Head(todo[w]) IN
     /\ results' = IF e.do = "add" THEN [results EXCEPT ![e.counter] = @ + e.n] ELSE results
     /\ fileResults' = IF e.do = "addFile" THEN Append(fileResults, e) ELSE fileResults
     /\ classResults' = IF e.do = "addClass" THEN Append(classResults, e) ELSE classResults
  /\ UNCHANGED <<pc, isAnalyzing, progress, read, shown, queue, found>>

Numbers == <<results[<<"class", "count">>] + results[<<"jarClass", "count">>],
             results[<<"jar", "count">>]>>

\* The loop of the progress thread: flag, numbers, screen
progressThread ==
  /\ \/ progress = "loop" /\ ~isAnalyzing /\ progress' = "gone" /\ UNCHANGED <<read, shown>>
     \/ progress = "loop" /\ isAnalyzing /\ progress' = "print" /\ read' = Numbers
        /\ UNCHANGED shown
     \/ progress = "print" /\ progress' = "loop" /\ shown' = read /\ UNCHANGED read
  /\ UNCHANGED <<pc, isAnalyzing, queue, todo, results, fileResults, classResults, found>>

noWait_Bug ==
  /\ pc = "wait" /\ queue = {}
  /\ pc' = "join" /\ isAnalyzing' = FALSE
  /\ UNCHANGED <<progress, read, shown, queue, todo, results, fileResults,
                 classResults, found>>

\* _fileThreadPool.wait()
waitForPool ==
  /\ pc = "wait" /\ queue = {} /\ \A w \in Workers: todo[w] = <<>>
  /\ pc' = "join" /\ isAnalyzing' = FALSE
  /\ UNCHANGED <<progress, read, shown, queue, todo, results, fileResults,
                 classResults, found>>

\* The progress thread is joined, and the final numbers are printed
join ==
  /\ pc = "join" /\ progress = "gone"
  /\ pc' = "end"
  /\ shown' = IF canPrintProgress THEN Numbers ELSE shown
  /\ UNCHANGED <<isAnalyzing, progress, read, queue, todo, results, fileResults,
                 classResults, found>>

Done == pc = "end" /\ progress = "gone" /\ UNCHANGED vars

Next ==
  \/ \E f \in Files: processFile(f) \/ \E w \in Workers: take(w, f)
  \/ \E w \in Workers: effect(w)
  \/ progressThread \/ waitForPool \/ join \/ Done

Spec == Init /\ [][Next]_vars

MainThread == (\E f \in Files: processFile(f)) \/ waitForPool \/ join

Worker(w) == effect(w) \/ \E f \in Files: take(w, f)

\* Every thread runs when it can
FairSpec ==
  /\ Spec
  /\ WF_vars(MainThread)
  /\ \A w \in Workers: WF_vars(Worker(w))
  /\ WF_vars(progressThread)

-----------------------------------------------------------------------------

Total(kind, whats) ==
  SumFunctionOnSet(results, {kind} \X whats)

\* The columns of the tables that printAll() shows add up when an analysis has
\* ended: each file and each class in a jar is in one column (the failures of
\* classes in jars, which are counted twice and not shown, left out)
ColumnsAddUp ==
  pc = "end" /\ DigestAnalysis =>
    /\ Total("class", {"taskCount"}) = Total("class", Verdicts)
    /\ Total("class", {"count"}) = Cardinality(ClassFiles)
    /\ Total("jar", {"taskCount"}) = Total("jar", Verdicts)
    /\ 2 * (Total("jarClass", {"taskCount"}) - Total("jarClass", Verdicts \ {"failed"}))
         = Total("jarClass", {"failed"})

IsPermutation(s, names) ==
  Len(s) = Cardinality(names) /\ {s[i].name : i \in DOMAIN s} = names

\* A --diff report has each file once, whatever threads did in between, and
\* each class of an opened jar once
ReportHasEachFileOnce ==
  pc = "end" /\ DigestAnalysis /\ isDiff =>
    /\ IsPermutation(fileResults, Files)
    /\ IsPermutation(classResults,
         {<<f, i>> \in Jars \X (1..MaxClasses):
             found[f].verdict # "unchanged" /\ i <= Len(found[f].classes)}
         \cup {f \in ClassFiles: found[f].verdict \in {"new", "same", "different"}})

\* The numbers that stay on the screen are the final ones: the progress thread
\* is over before they are printed, and no task counts after that
LastNumbersAreFinal ==
  pc = "end" /\ canPrintProgress => shown = Numbers

\* Every analysis ends, with the progress thread joined
AnalysisEnds == <>(pc = "end" /\ progress = "gone")

\* print() shows a line only for new and modified files
Printed(result) == result.isNew \/ result.isModified

\* A file with an error has a line in the report
\* (what the repository says, and the code does not do)
ErrorsAreReported ==
  pc = "end" /\ isDiff =>
    \A i \in DOMAIN fileResults: fileResults[i].failed => Printed(fileResults[i])

\* The answer to a Diff request tells something about each file of the input
\* (what the repository says, and the code does not do)
DiffAnswers == pc = "end" /\ isDiff => IsPermutation(fileResults, Files)

\* One class in a jar that does not parse is one error
\* (what the repository says, and the code does not do)
OneErrorPerFailure ==
  pc = "end" /\ DigestAnalysis =>
    Total("jarClass", {"failed"}) =
      Cardinality({<<f, i>> \in Jars \X (1..MaxClasses):
        /\ found[f].verdict # "unchanged"
        /\ i <= Len(found[f].classes) /\ found[f].classes[i] = "failed"})

=============================================================================
