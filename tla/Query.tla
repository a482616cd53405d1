-------------------------------- MODULE Query --------------------------------
(***************************************************************************)
(* The query language: the listener that the walker of the parse tree      *)
(* calls, the predicates it builds, and the list it starts in the end.     *)
(*                                                                         *)
(* A query is a table and the expressions of its where clause in the order *)
(* in which the walker enters them.  An expression is a filter or joins    *)
(* two later ones.  A literal is the sequence of its characters, quotes    *)
(* included; without quotes and backslashes inside, so that replaceAll()   *)
(* changes nothing.                                                        *)
(* A pattern without special characters finds itself.                      *)
(***************************************************************************)
EXTENDS TableList, Sequences, SequencesExt

CONSTANTS
  Queries,     \* queries without syntax errors
  Tables,      \* names of tables
  Columns,     \* names of their columns
  Values,      \* row id and column to value
  Lower(_)     \* a character's lower case

VARIABLES
  query,
  visited,         \* expressions that the walker has left behind
  mainTable,       \* _mainTable is set
  semanticErrors,  \* number of _semanticErrors
  predicates,      \* expressions with an entry in _rulePredicates
  regexCache,      \* _regexCache: pattern to ignore-case flag
  walk             \* "start", "walking", "listing", "refused", "died"

queryVars == <<query, visited, mainTable, semanticErrors, predicates, regexCache, walk>>
vars == <<listVars, queryVars>>

Quote == "'"

Apply(text, Op(_)) == [i \in DOMAIN text |-> Op(text[i])]

\* trim(value, "'")
Trimmed(text) ==
  LET inner == {i \in DOMAIN text: text[i] # Quote}
  IN IF inner = {} THEN <<>>
     ELSE SubSeq(text, CHOOSE i \in inner: \A j \in inner: i <= j,
                       CHOOSE i \in inner: \A j \in inner: i >= j)

getSanitizedString(text) == Trimmed(text)

IgnoreCase == <<"/", "i">>

Pattern(text) ==
  IF IsSuffix(IgnoreCase, text) THEN SubSeq(text, 1, Len(text) - 2) ELSE text

Found(pattern, text, ignoreCase) ==
  LET p == IF ignoreCase THEN Apply(pattern, Lower) ELSE pattern
      t == IF ignoreCase THEN Apply(text, Lower) ELSE text
  IN \E i \in 0..(Len(t) - Len(p)): SubSeq(t, i + 1, i + Len(p)) = p

Init ==
  /\ query \in Queries
  /\ visited = 0
  /\ mainTable = FALSE
  /\ semanticErrors = 0
  /\ predicates = {}
  /\ regexCache = <<>>
  /\ walk = "start"
  /\ size = 0 /\ hardware = MaxThreads
  /\ deleted = {} /\ wanted = {}
  /\ index = <<>> /\ output = <<>>
  /\ rowsFound = 0
  /\ phase = "idle"

\* Reading the database: what a failed read leaves out is not noticed
enterList ==
  /\ walk = "start"
  /\ walk' = "walking"
  /\ size' \in 0..MaxRows
  /\ deleted' \in SUBSET Ids'
  /\ mainTable' = (query.table \in Tables)
  /\ semanticErrors' = IF mainTable' THEN 0 ELSE 1
  /\ UNCHANGED <<query, visited, predicates, regexCache, hardware, wanted, index,
                 output, rowsFound, phase>>

\* enterColumn()
columnErrors(filter) ==
  IF mainTable /\ filter.column \notin Columns THEN 1 ELSE 0

\* getRegex(): only the pattern is the key
cached(pattern, ignoreCase) ==
  [p \in DOMAIN regexCache \cup {pattern} |->
     IF p \in DOMAIN regexCache THEN regexCache[p] ELSE ignoreCase]

\* enterExpr(), enterColumn() and exitFilter() of the next expression.
\* The constructor of an invalid regular expression throws.
visit ==
  LET node == query.where[visited + 1] IN
  /\ walk = "walking" /\ visited < Len(query.where)
  /\ visited' = visited + 1
  /\ predicates' = predicates \cup {visited + 1}
  /\ IF node.kind = "filter" /\ node.oper = "regex"
       THEN LET text == getSanitizedString(node.literal)
                pattern == Pattern(text)
            IN /\ regexCache' = cached(pattern, pattern # text)
               /\ walk' = IF Contains(pattern, "[") THEN "died" ELSE "walking"
       ELSE UNCHANGED <<regexCache, walk>>
  /\ semanticErrors' = semanticErrors + IF node.kind = "filter" THEN columnErrors(node) ELSE 0
  /\ UNCHANGED <<query, mainTable, listVars>>

\* The predicate of exitFilter()
filterHolds(node, id) ==
  LET right == getSanitizedString(node.literal)
      left  == Values[id][node.column]
      plain == CASE node.oper = "regex"  -> Found(Pattern(right), left, regexCache[Pattern(right)])
                 [] node.oper = "!="     -> left # right
                 [] node.oper = "starts" -> IsPrefix(right, left)
                 [] node.oper = "ends"   -> IsSuffix(right, left)
                 [] node.oper = "="      -> left = right
  IN plain # node.not

orIsAnd_Bug(id) ==
  LET holds[n \in 1..Len(query.where)] ==
        LET node == query.where[n] IN
        IF node.kind = "filter" THEN filterHolds(node, id)
        ELSE holds[node.left] /\ holds[node.right]
  IN query.where = <<>> \/ holds[1]

\* _where(row): the predicates of enterExpr(), left before right
whereHolds(id) ==
  LET holds[n \in 1..Len(query.where)] ==
        LET node == query.where[n] IN
        /\ n \in predicates
        /\ CASE node.kind = "filter" -> filterHolds(node, id)
             [] node.kind = "and"    -> holds[node.left] /\ holds[node.right]
             [] node.kind = "or"     -> holds[node.left] \/ holds[node.right]
  IN query.where = <<>> \/ holds[1]

\* exitList(): list(), or the errors are logged
exitList ==
  /\ walk = "walking" /\ visited = Len(query.where)
  /\ IF semanticErrors = 0
       THEN /\ walk' = "listing"
            /\ wanted' = {id \in Ids: whereHolds(id)}
       ELSE walk' = "refused" /\ UNCHANGED wanted
  /\ UNCHANGED <<query, visited, mainTable, semanticErrors, predicates, regexCache,
                 size, hardware, deleted, index, output, rowsFound, phase>>

\* The threads of list()
listing == walk = "listing" /\ ListNext /\ UNCHANGED queryVars

Next == enterList \/ visit \/ exitList \/ listing

Spec == Init /\ [][Next]_vars

-----------------------------------------------------------------------------

\* What the literal of a filter says: what is between its quotes
Meant(literal) == SubSeq(literal, 2, Len(literal) - 1)

FilterMeans(node, id) ==
  LET text  == Meant(node.literal)
      value == Values[id][node.column]
      plain == CASE node.oper = "regex"  -> Found(Pattern(text), value, Pattern(text) # text)
                 [] node.oper = "!="     -> value # text
                 [] node.oper = "starts" -> IsPrefix(text, value)
                 [] node.oper = "ends"   -> IsSuffix(text, value)
                 [] node.oper = "="      -> value = text
  IN IF node.not THEN ~plain ELSE plain

\* The where clause as a set of rows
Rows(where) ==
  LET rows[n \in 1..Len(where)] ==
        CASE where[n].kind = "filter" -> {id \in Ids: FilterMeans(where[n], id)}
          [] where[n].kind = "and"    -> rows[where[n].left] \cap rows[where[n].right]
          [] where[n].kind = "or"     -> rows[where[n].left] \cup rows[where[n].right]
  IN IF where = <<>> THEN Ids ELSE rows[1]

\* What is printed are the rows that were read, are not deleted, and that the
\* where clause describes: each literal and each pattern by itself, 'and' and
\* 'or' as intersection and union
PrintsWhatIsAsked ==
  phase = "printed" =>
    {row \in Ids: \E c \in Chunks: row \in output[c]} = Rows(query.where) \ deleted

\* Rows are printed if and only if the table and all the columns exist
ErrorsOrRows ==
  LET valid == /\ query.table \in Tables
               /\ \A i \in DOMAIN query.where:
                    query.where[i].kind = "filter" => query.where[i].column \in Columns
  IN (phase = "printed" => valid) /\ (walk = "refused" => ~valid)

=============================================================================
