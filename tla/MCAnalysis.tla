----------------------------- MODULE MCAnalysis -----------------------------
(***************************************************************************)
(* One run of the program, for TLC: the command line (Cli), an analysis    *)
(* with its worker threads (Analysis), the jar that a worker reads         *)
(* (JarProcessor), and what the workers of `parse' print (Printing).  A    *)
(* behaviour is of one of them, its scenario; the variables of the others  *)
(* are Unused in it, and a jar stays unread.                               *)
(***************************************************************************)
EXTENDS JarProcessor, Sequences

CONSTANTS
  Jars, ClassFiles,     \* of the input
  None, Unused

VARIABLES
  scenario,
  options, effects, exitCode,
  pc, isAnalyzing, progress, read, shown, results, fileResults, classResults, found,
  queue, todo,
  step, mutex, at, out, dirs, files, listed, overlapped

CommandLine == INSTANCE Cli

\* --diff, and an analysis that shows its progress
Diff == INSTANCE Analysis
  WITH MaxClasses <- 2, DigestAnalysis <- TRUE, isDiff <- TRUE, canPrintProgress <- FALSE

Screen == INSTANCE Analysis
  WITH MaxClasses <- 1, DigestAnalysis <- FALSE, isDiff <- FALSE, canPrintProgress <- TRUE

\* The jar itself loses one slot to an exception and one to null pointers that
\* meet; the same when the pool lets the exception through; and null pointers alone
Dying == INSTANCE JarProcessor WITH Unreadable <- {1, 3, 4}, PoolCatches <- FALSE

Nulls == INSTANCE JarProcessor WITH Unreadable <- {1, 2, 3, 5, 6}, Throwing <- {}

Entry(id, name, file, parses, tags, throws) ==
  [id |-> id, name |-> name, file |-> file, parses |-> parses, pool |-> tags, throws |-> throws]

\* A long takes two slots; the string of the third class refers to nothing
PoolJobs ==
  {<<Entry(1, "A", "A.class", TRUE, <<"utf8", "long", None, "class">>, 0),
     Entry(2, "B", "B.class", FALSE, <<"utf8">>, 0)>>,
   <<Entry(3, "C", "C.class", TRUE, <<"class", "string", "utf8">>, 2)>>,
   <<Entry(4, "D", "D.class", TRUE, <<"utf8", "long", None>>, 0)>>}

\* A class in two jars, and twice under another file name
NavJobs ==
  {<<Entry(1, "A", "A.class", TRUE, <<"utf8">>, 0), Entry(2, "B", "B.class", TRUE, <<"utf8">>, 0)>>,
   <<Entry(3, "A", "A.class", TRUE, <<"utf8">>, 0), Entry(4, "B", "B.class", FALSE, <<"utf8">>, 0)>>,
   <<Entry(5, "A", "A2.class", TRUE, <<"utf8">>, 0)>>,
   <<Entry(6, "A", "A3.class", TRUE, <<"utf8">>, 0)>>}

Pools == INSTANCE Printing
  WITH Jobs <- PoolJobs, Filter <- {"utf8", "long", "string"}, Output <- "cpool",
       Structure <- TRUE

Pages == INSTANCE Printing
  WITH Jobs <- NavJobs, Filter <- {}, Output <- "nav", Structure <- FALSE

ASSUME Diff!AnalysisAssumption /\ Screen!AnalysisAssumption
ASSUME Dying!JarAssumption /\ Nulls!JarAssumption
ASSUME Pools!PrintingAssumption /\ Pages!PrintingAssumption

-----------------------------------------------------------------------------
cliOnly == <<options, effects, exitCode>>
analysisOnly == <<isAnalyzing, progress, read, shown, results, fileResults, classResults, found>>
printingOnly == <<step, mutex, at, out, dirs, files, listed, overlapped>>

runVars == <<scenario, pc, queue, todo, cliOnly, analysisOnly, printingOnly, vars>>

NoCli == options = Unused /\ effects = Unused /\ exitCode = Unused

NoAnalysis ==
  /\ isAnalyzing = Unused /\ progress = Unused /\ read = Unused /\ shown = Unused
  /\ results = Unused /\ fileResults = Unused /\ classResults = Unused /\ found = Unused

NoPrinting ==
  /\ step = Unused /\ mutex = Unused /\ at = Unused /\ out = Unused /\ dirs = Unused
  /\ files = Unused /\ listed = Unused /\ overlapped = Unused

NoQueue == queue = Unused /\ todo = Unused

RunInit ==
  \/ /\ scenario = "cli" /\ CommandLine!Init
     /\ NoQueue /\ NoAnalysis /\ NoPrinting /\ Init
  \/ /\ \/ scenario = "diff" /\ Diff!Init
        \/ scenario = "screen" /\ Screen!Init
     /\ NoCli /\ NoPrinting /\ Init
  \/ /\ scenario \in {"finishing", "dying", "nulls"} /\ Init
     /\ pc = Unused /\ NoQueue /\ NoCli /\ NoAnalysis /\ NoPrinting
  \/ /\ \/ scenario = "pools" /\ Pools!Init
        \/ scenario = "pages" /\ Pages!Init
     /\ pc = Unused /\ NoCli /\ NoAnalysis /\ Init

-----------------------------------------------------------------------------
\* A step of a scenario leaves what the others use alone
InCli(A) ==
  scenario = "cli" /\ A /\ UNCHANGED <<scenario, queue, todo, analysisOnly, printingOnly, vars>>
InAnalysis(s, A) ==
  scenario = s /\ A /\ UNCHANGED <<scenario, cliOnly, printingOnly, vars>>
InJar(s, A) ==
  scenario = s /\ A /\ UNCHANGED <<scenario, pc, queue, todo, cliOnly, analysisOnly, printingOnly>>
InPrinting(s, A) ==
  scenario = s /\ A /\ UNCHANGED <<scenario, pc, cliOnly, analysisOnly, vars>>

\* Jars and printing come to an end
Over == scenario \in {"finishing", "dying", "nulls", "pools", "pages"} /\ UNCHANGED runVars

RunNext ==
  \/ InCli(CommandLine!Next)
  \/ InAnalysis("diff", Diff!Next)
  \/ InAnalysis("screen", Screen!Next)
  \/ InJar("finishing", Next)
  \/ InJar("dying", Dying!Next)
  \/ InJar("nulls", Nulls!Next)
  \/ InPrinting("pools", Pools!Next)
  \/ InPrinting("pages", Pages!Next)
  \/ Over

\* Every thread runs when it can
RunFairness ==
  /\ WF_runVars(InAnalysis("screen", Screen!MainThread))
  /\ \A w \in Workers : WF_runVars(InAnalysis("screen", Screen!Worker(w)))
  /\ WF_runVars(InAnalysis("screen", Screen!progressThread))
  /\ WF_runVars(InJar("finishing", reader))
  /\ \A w \in Workers : WF_runVars(InJar("finishing", worker(w)))
  /\ WF_runVars(InJar("dying", Dying!reader))
  /\ \A w \in Workers : WF_runVars(InJar("dying", Dying!worker(w)))
  /\ WF_runVars(InJar("nulls", Nulls!reader))
  /\ \A w \in Workers : WF_runVars(InJar("nulls", Nulls!worker(w)))
  /\ \A w \in Workers : WF_runVars(InPrinting("pools", Pools!Work(w)))

RunSpec == RunInit /\ [][RunNext]_runVars /\ RunFairness

-----------------------------------------------------------------------------
\* The program exits with another code than 0 only when it did not do what the
\* options ask for, and with 0 only when it did, or when a query named a table or
\* column that is not there (server commands excepted, for which 1 is success); it
\* prints a report only of an analysis or of the server's answer; and --rebuild
\* empties the database only when an analysis that fills it follows
ExitTellsOutcome ==
  scenario = "cli" => /\ CommandLine!ExitTellsOutcome /\ CommandLine!ReportOnlyOfResults
                      /\ CommandLine!CleanedOnlyToBeFilled

\* Whatever the threads did in between, a --diff report has each file once and
\* each class of an opened jar once, and the columns of the tables that printAll()
\* shows add up (failures of classes in jars, which are counted twice, left out).
\* The numbers that stay on the screen are the final ones: the progress thread is
\* over before they are printed, and no task counts after that.
ReportIsExact ==
  /\ scenario = "diff" => Diff!ReportHasEachFileOnce /\ Diff!ColumnsAddUp
  /\ scenario = "screen" => Screen!LastNumbersAreFinal

\* However many threads print, the constant pools on the standard output stand
\* one behind the other, each with its title and the entries of the filter.  When
\* all is done, an index page lists every implementation of its class, unless two
\* of them were rendered at the same time, and each it lists has its page.
OutputIsWhole ==
  /\ scenario = "pools" => Pools!PoolsAreWhole
  /\ scenario = "pages" => Pages!NavIsComplete /\ Pages!IndexLinksLead

\* Everything comes to its end: run() of a jar, while fewer slots than there are
\* can get lost (or it dies of an exception that the pool lets through); an
\* analysis, with the progress thread joined; and what `parse' prints, with the
\* lock of the standard output free although printing an entry may throw
EverythingEnds ==
  /\ scenario = "finishing" => Ends
  /\ scenario = "dying" => Dying!Ends
  /\ scenario = "nulls" => Nulls!Ends
  /\ scenario = "screen" => Screen!AnalysisEnds
  /\ scenario = "pools" => Pools!PrintingEnds

=============================================================================
