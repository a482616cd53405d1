------------------------------ MODULE TableList ------------------------------
(***************************************************************************)
(* Table::list(): the rows of a table are cut into one chunk per thread,   *)
(* the threads filter their chunks in parallel, and the chunks are printed *)
(* one after the other.                                                    *)
(***************************************************************************)
EXTENDS Integers, FiniteSets

CONSTANTS
  MaxRows,
  MaxThreads   \* bound on hardware_concurrency()

ASSUME ListAssumption == MaxRows \in Nat /\ MaxThreads \in Nat

VARIABLES
  size,      \* _autoIncrementIndex.size(); ids are 0 .. size - 1
  hardware,  \* hardware_concurrency(), 0 if unknown
  deleted,   \* ids of deleted rows
  wanted,    \* ids that the filter accepts
  index,     \* position of each chunk's task
  output,    \* outputByChuck, as sets: a task appends in the order of ids
  rowsFound,
  phase      \* "idle", "scanning", "printed"

listVars == <<size, hardware, deleted, wanted, index, output, rowsFound, phase>>

Ids == 0..(size - 1)

SmallerOf(a, b) == IF a < b THEN a ELSE b

LargerOf(a, b) == IF a < b THEN b ELSE a

ThreadCount(hw) == LargerOf(1, (hw * 4) \div 5)

\* With fewer rows than threads, one thread per row
ActiveThreads(n, hw) == IF n = 0 THEN 1 ELSE SmallerOf(ThreadCount(hw), n)

roundsDown_Bug(n, hw) == n \div ActiveThreads(n, hw)

ChunkSize(n, hw) == (n + ActiveThreads(n, hw) - 1) \div ActiveThreads(n, hw)

Chunks == 0..(ActiveThreads(size, hardware) - 1)

Start(chunk) == chunk * ChunkSize(size, hardware)

End(chunk) == SmallerOf(Start(chunk) + ChunkSize(size, hardware), size)

ListInit ==
  /\ size \in 0..MaxRows
  /\ hardware \in 0..MaxThreads
  /\ deleted \in SUBSET Ids
  /\ wanted \in SUBSET Ids
  /\ index = <<>> /\ output = <<>>
  /\ rowsFound = 0
  /\ phase = "idle"

\* The tasks are handed to the pool
list ==
  /\ phase = "idle"
  /\ phase' = "scanning"
  /\ index' = [c \in Chunks |-> Start(c)]
  /\ output' = [c \in Chunks |-> {}]
  /\ UNCHANGED <<size, hardware, deleted, wanted, rowsFound>>

Passes(row) == row \notin deleted /\ row \in wanted

\* A task looks at its next row
scanRow(chunk) ==
  LET row == index[chunk] IN
  /\ phase = "scanning" /\ row < End(chunk)
  /\ index' = [index EXCEPT ![chunk] = row + 1]
  /\ output' = IF Passes(row) THEN [output EXCEPT ![chunk] = @ \cup {row}] ELSE output
  /\ rowsFound' = IF Passes(row) THEN rowsFound + 1 ELSE rowsFound
  /\ UNCHANGED <<size, hardware, deleted, wanted, phase>>

\* threadPool.wait(), then the chunks are printed in order
print ==
  /\ phase = "scanning"
  /\ \A c \in Chunks: index[c] >= End(c)
  /\ phase' = "printed"
  /\ UNCHANGED <<size, hardware, deleted, wanted, index, output, rowsFound>>

ListNext == list \/ (\E c \in Chunks: scanRow(c)) \/ print

ListSpec == ListInit /\ [][ListNext]_listVars

-----------------------------------------------------------------------------

\* Whatever the number of rows and threads, what is printed are the rows that
\* pass the filter and are not deleted, and no others
ListsSelectedRows ==
  phase = "printed" =>
    {row \in Ids: \E c \in Chunks: row \in output[c]} = wanted \ deleted

\* No row is printed twice, and rows are printed in the order of their ids:
\* all that a chunk prints lies before all that a later chunk prints
InOrder ==
  phase # "idle" =>
    \A c, d \in Chunks: c < d => \A r \in output[c], q \in output[d]: r < q

\* The selected rows are listed, each once and in order (Table::list())
ListIsExact == ListsSelectedRows /\ InOrder

=============================================================================
