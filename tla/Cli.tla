--------------------------------- MODULE Cli ---------------------------------
(***************************************************************************)
(* One invocation of the command line program, from the parsed arguments   *)
(* to the exit code: TarracshCli::start(), the run() of the three commands *)
(* and what they call.  What the called parts do is in other modules; here *)
(* they succeed or fail, and leave a word in `effects'.                    *)
(***************************************************************************)
EXTENDS Naturals

VARIABLES
  options,    \* what was given on the command line
  pc,         \* the function that runs next
  effects,    \* what has been done so far
  exitCode

vars == <<options, pc, effects, exitCode>>

Commands == {"none", "public-digest", "call-graph", "parse"}

Inputs == {"empty", "missing", "other", "directory", "jar", "class"}

Options == [command: Commands, help: BOOLEAN, server: BOOLEAN, stop: BOOLEAN,
            query: BOOLEAN, input: Inputs, rebuild: BOOLEAN, dryRun: BOOLEAN,
            diff: BOOLEAN, client: BOOLEAN]

DbBased(o) == o.command \in {"public-digest", "call-graph"}

Given(o) == o.input # "empty"

\* The options a command has, and the needs() and excludes() of
\* DbBasedCommand::addCommand() and Parse::addCommand()
Accepted(o) ==
  /\ DbBased(o) \/ ~(o.server \/ o.query \/ o.rebuild \/ o.dryRun \/ o.diff)
  /\ o.command = "parse" => Given(o)
  /\ o.command = "none" => ~Given(o)
  /\ o.rebuild \/ o.dryRun \/ o.diff \/ o.client => Given(o)
  /\ ~(o.rebuild /\ o.dryRun)
  /\ o.client => o.diff
  /\ o.query \/ o.server => ~Given(o)
  /\ o.stop => o.server

processInput(o) == o.input \in {"directory", "jar", "class"}

Init ==
  /\ options \in Options
  /\ pc = "parseCli"
  /\ effects = {}
  /\ exitCode = 0

Goto(label) == pc' = label /\ UNCHANGED <<options, effects, exitCode>>

Return(did, code) ==
  /\ pc' = "exit"
  /\ effects' = effects \cup did
  /\ exitCode' = code
  /\ UNCHANGED options

\* start(): nothing runs after a parse error or a request for help
parseCli ==
  /\ pc = "parseCli"
  /\ \/ options.help /\ Return({"help"}, 0)
     \/ ~options.help /\ (~Accepted(options) \/ options.command = "none")
        /\ Return({}, 1)
     \/ ~options.help /\ Accepted(options) /\ options.command # "none"
        /\ Goto(options.command)

PublicDigestRun ==
  /\ pc = "public-digest"
  /\ \/ options.server /\ Goto("runAsServer")
     \/ ~options.server /\ options.query /\ Goto("query")
     \/ ~options.server /\ ~options.query /\ Goto("input")

\* run() sets the server flag of the digest options and reads that of the
\* call-graph options, which the command line never sets
CallGraphRun ==
  /\ pc = "call-graph"
  /\ \/ options.query /\ Goto("query")
     \/ ~options.query /\ Goto("input")

anyInput_Bug ==
  /\ pc = "input"
  /\ \/ ~processInput(options) /\ Return({}, 0)
     \/ processInput(options)
        /\ \/ options.client /\ Goto("runAsClient")
           \/ ~options.client /\ Goto("runAsStandalone")

\* PublicDigest::digestInput() and CallGraph::processInput()
input ==
  /\ pc = "input"
  /\ \/ ~processInput(options) /\ Return({}, 1)
     \/ processInput(options)
        /\ \/ options.client /\ Goto("runAsClient")
           \/ ~options.client /\ Goto("runAsStandalone")

Reports == IF options.command = "call-graph" \/ options.diff
             THEN {"reported"} ELSE {}

\* initDb(): with --rebuild the database is backed up and emptied, otherwise
\* read, which may fail.  An analysis saves unless it is a dry run; whether
\* stop() could save is not looked at.
runAsStandalone ==
  /\ pc = "runAsStandalone"
  /\ \/ ~options.rebuild /\ Return({"initDbFailed"}, 1)
     \/ \E saved \in {"saved", "saveFailed"}:
          Return({"analysed"} \cup Reports
                   \cup (IF options.rebuild THEN {"cleaned"} ELSE {})
                   \cup (IF options.dryRun THEN {} ELSE {saved}), 0)

\* ServerCommand::diff(), or the stub of the call graph
runAsClient ==
  /\ pc = "runAsClient"
  /\ IF options.command = "call-graph"
       THEN Return({"not implemented"}, 1)
       ELSE \/ Return({"requestFailed"}, 1)
            \/ Return({"diffed"} \cup Reports, 0)

\* ServerCommand::run() without an input; its answer becomes the exit code
runAsServer ==
  /\ pc = "runAsServer"
  /\ \/ Return({"refused"}, 0)
     \/ Return({IF options.stop THEN "stopped" ELSE "served"}, 1)

\* Query::run(): Engine::execute() answers whether the query could be parsed.
\* Unknown tables and columns are only logged, and of a database that could not
\* be read what was read is listed.
query ==
  /\ pc = "query"
  /\ \/ Return({"syntaxErrors"}, 1)
     \/ Return({"semanticErrors"}, 0)
     \/ \E r \in {"read", "readFailed"}: Return({"queried", r}, 0)

ParseRun ==
  /\ pc = "parse"
  /\ \/ processInput(options) /\ Return({"analysed"}, 0)
     \/ ~processInput(options) /\ Return({}, 1)

Done == pc = "exit" /\ UNCHANGED vars

Next == \/ parseCli \/ PublicDigestRun \/ CallGraphRun \/ ParseRun
        \/ input \/ runAsStandalone \/ runAsClient \/ runAsServer \/ query
        \/ Done

Spec == Init /\ [][Next]_vars

-----------------------------------------------------------------------------

\* What a user asked for with these options
Requested ==
  CASE options.help -> "help"
    [] options.query -> "queried"
    [] options.client -> "diffed"
    [] OTHER -> "analysed"

\* The program exits with another code than 0 only when it did not do what the
\* options ask for, and with 0 only when it did, or when the query named a table
\* or column that is not there.  (That it could not save, or that it listed what
\* it could read of a database it could not read, does not show in the code.
\* Server commands are excepted: they return the success flag itself, so for
\* them 1 is success.)
ExitTellsOutcome ==
  pc = "exit" /\ ~options.server =>
    /\ exitCode # 0 => Requested \notin effects
    /\ exitCode = 0 => Requested \in effects \/ "semanticErrors" \in effects

\* --rebuild empties the database only when an analysis that fills it again
\* follows: a mistyped input, a client or a server leaves it alone
CleanedOnlyToBeFilled ==
  /\ "cleaned" \in effects => "analysed" \in effects
  /\ "cleaned" \in effects => processInput(options)

\* A report is printed only for a run that succeeded, and on a client only
\* with the server's answer in it
ReportOnlyOfResults ==
  "reported" \in effects => effects \cap {"analysed", "diffed"} # {} /\ exitCode = 0

\* `call-graph server' says that it is not implemented
\* (what the repository says, and the code does not do)
PlaceholderSpeaks ==
  pc = "exit" /\ options.command = "call-graph" /\ options.server
    /\ ~options.help /\ ~options.query /\ Accepted(options)
      => "not implemented" \in effects

=============================================================================
