----------------------------- MODULE MCDatabase -----------------------------
(***************************************************************************)
(* The parts of the database above its tables, for TLC: how the string     *)
(* pool and the tables are saved together (Database), and how rows are     *)
(* listed (TableList) and asked for (Query).  A behaviour is of one of     *)
(* them, its scenario; the variables of the others are Unused in it, those *)
(* of Database at their first values.                                      *)
(***************************************************************************)
EXTENDS Database, TableList, TLC

CONSTANTS
  Scenarios,    \* those to check
  Unused

VARIABLES
  scenario,
  query, visited, mainTable, semanticErrors, predicates, regexCache, walk

Inputs == INSTANCE QueryInputs

-----------------------------------------------------------------------------
\* Single-quoted literals, all operators, nested and joined
Asked == INSTANCE Query
  WITH MaxRows <- 3, MaxThreads <- 3, Queries <- Inputs!PlainQueries, Tables <- {"files"},
       Columns <- {"c", "d"}, Values <- Inputs!RowValues, Lower <- Inputs!LowerCase

-----------------------------------------------------------------------------
listOnly == <<hardware, deleted, wanted, index, output, rowsFound, phase>>
queryOnly == <<query, visited, mainTable, semanticErrors, predicates, regexCache, walk>>

NoDatabase == Init /\ filesFirst

NoList ==
  /\ hardware = Unused /\ deleted = Unused /\ wanted = Unused /\ index = Unused
  /\ output = Unused /\ rowsFound = Unused /\ phase = "idle"

NoQuery ==
  /\ query = Unused /\ visited = Unused /\ mainTable = Unused /\ semanticErrors = Unused
  /\ predicates = Unused /\ regexCache = Unused /\ walk = Unused

RunInit ==
  /\ scenario \in Scenarios
  /\ \/ /\ scenario = "database" /\ Init
        /\ size = Unused /\ NoList /\ NoQuery
     \/ /\ scenario = "list" /\ ListInit
        /\ NoDatabase /\ NoQuery
     \/ /\ scenario = "query" /\ Asked!Init
        /\ NoDatabase

DatabaseNext ==
  /\ scenario = "database" /\ Next
  /\ UNCHANGED <<scenario, size, listOnly, queryOnly>>

TableListNext ==
  /\ scenario = "list" /\ ListNext
  /\ UNCHANGED <<scenario, vars, queryOnly>>

QueryNext ==
  /\ scenario = "query" /\ Asked!Next
  /\ UNCHANGED <<scenario, vars>>

runVars == <<scenario, vars, size, listOnly, queryOnly>>

\* A list and a query are answered once
Over == scenario \in {"list", "query"} /\ UNCHANGED runVars

RunNext == DatabaseNext \/ TableListNext \/ QueryNext \/ Over

RunSpec == RunInit /\ [][RunNext]_runVars

NameSymmetry == Permutations(Strings)

-----------------------------------------------------------------------------
\* What is printed are the rows that were read, are not deleted, and that the
\* where clause describes, if and only if the table and all the columns exist
PrintsWhatIsAsked == scenario = "query" => Asked!PrintsWhatIsAsked /\ Asked!ErrorsOrRows

=============================================================================
