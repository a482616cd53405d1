--------------------------- MODULE TableInvariant ---------------------------
(***************************************************************************)
(* The inductive invariants behind the theorems about Table.  IInv is      *)
(* about a table with one saver whose file operations do not fail, and     *)
(* whose clients add no key twice (or are stopped by the assert when they  *)
(* do).  FaultInv is about every table: any number of savers, whatever     *)
(* fails and whatever is added; SharedInv about savers whose file          *)
(* operations succeed, KeysApart about a build with asserts.               *)
(***************************************************************************)
EXTENDS Table

OneReliableSaver == Savers = {StopSaver} /\ ~IOErrors
AddsFreshKeys == AssertsOn \/ ~ReAdds

(* The index has no gaps, and every id in use is a row's.                  *)
IndexInv ==
    /\ \A i \in Ids : index[i] # NoRow <=> i < size
    /\ \A i \in dirtyRows \cup touched \cup unmarked \cup victims : i < size
    /\ \A k \in Keys : rows[k] # NoId => rows[k] < size /\ index[rows[k]].key = k

(* One saver at a time writes, and what it knows of the file still holds.  *)
SaverInv ==
    /\ \A s \in Savers : pc[s] = "writing" <=> lock = s
    /\ \A s \in Savers : pc[s] = "checked" /\ ~fileExists[s] => diskState = "absent"
    /\ \A s \in Savers :
         pc[s] \in {"checked", "writing"} /\ fileExists[s] => diskState = "valid"
    /\ \A s \in Savers : pc[s] = "writing" /\ ~fileExists[s] => diskState = "torn"
    /\ proc \in Up /\ diskState = "torn" =>
         \E s \in Savers : pc[s] = "writing" /\ ~fileExists[s]
    /\ dirtyRows # {} => isDirty
    /\ proc = "stopping" => touched = {} /\ victims = {}
    /\ proc = "open" => \A s \in Savers : pc[s] = "idle"
    /\ proc = "stopping" /\ pc[StopSaver] = "done" =>
         dirtyRows = {} /\ diskState = "valid"

(* The file has no gaps, and its rows are those of the index.              *)
DiskInv ==
    /\ diskState = "absent" => disk = Empty
    /\ \A i, j \in Ids : i < j /\ disk[j] # NoRow => disk[i] # NoRow
    /\ proc \in Up =>
         \A i \in Ids : disk[i] # NoRow => i < size /\ disk[i].key = index[i].key
    /\ proc \in Up =>
         \A i \in Ids : i < size /\ i \notin dirtyRows \cup touched \cup unmarked
                        => disk[i] = index[i]
    /\ proc \in Up =>
         \A i \in Ids : i < size /\ i \notin dirtyRows
                        => disk[i] # NoRow /\ (index[i].deleted => disk[i].deleted)

(* Of the rows with one key all but the last are deleted, in memory and in *)
(* the file; a key that finds a row finds the last.                        *)
KeyInv ==
    /\ proc \in Up => \A i, j \in Ids :
         i < j /\ j < size /\ index[i].key = index[j].key
         => index[i].deleted /\ i \notin victims
    /\ \A i, j \in Ids :
         i < j /\ disk[i] # NoRow /\ disk[j] # NoRow /\ disk[i].key = disk[j].key
         => disk[i].deleted
    /\ \A i \in Ids : i < size /\ rows[index[i].key] # NoId
                      => i <= rows[index[i].key]
    /\ LiveRowsReachable

(* Holds in every reachable state of a table with one reliable saver; it   *)
(* implies SavedUnlessDirty, LiveRowsReachable and ReadableOutsideWrite.   *)
IInv == TypeOK /\ IndexInv /\ SaverInv /\ DiskInv /\ KeyInv

-----------------------------------------------------------------------------
(* What overlapping savers and failed writes leave of it: a saver that     *)
(* found the file, and one that writes, has a file; the file has no gaps.  *)
FileInv ==
    /\ diskState = "absent" => disk = Empty
    /\ lock # NoSaver => diskState # "absent"
    /\ \A s \in Savers : pc[s] = "checked" /\ fileExists[s] => diskState # "absent"
    /\ \A i, j \in Ids : i < j /\ disk[j] # NoRow => disk[i] # NoRow

FaultInv == TypeOK /\ IndexInv /\ FileInv /\ NoForeignRow

-----------------------------------------------------------------------------
(* Any number of savers, none of whose file operations fails.  Of what one *)
(* saver guarantees the file keeps most until a saver that found no file   *)
(* empties what another has written.                                       *)
SharingInv ==
    /\ \A s \in Savers : pc[s] = "writing" <=> lock = s
    /\ \A s \in Savers : lock = s /\ fileExists[s] => diskState = "valid"
    /\ proc \in Up /\ lock = NoSaver => diskState # "torn"
    /\ dirtyRows # {} => isDirty
    /\ proc = "stopping" => touched = {} /\ victims = {}
    /\ pc[StopSaver] # "idle" => proc = "stopping"

KeptFileInv ==
    proc \in Up /\ ~emptied =>
      /\ \A i \in Ids : i < size /\ i \notin dirtyRows \cup touched \cup unmarked
                        => disk[i] = index[i]
      /\ \A i \in Ids : i < size /\ i \notin dirtyRows => disk[i] # NoRow
      /\ pc[StopSaver] = "done" => dirtyRows = {} /\ diskState # "absent"

SharedInv == FaultInv /\ SharingInv /\ KeptFileInv

-----------------------------------------------------------------------------
(* What the asserts of add() and readRows() keep, whoever saves and        *)
(* whatever fails: of the rows with one key all but the last are deleted.  *)
OlderRowsDeleted ==
    \A i, j \in Ids : i < j /\ j < size /\ index[i].key = index[j].key
                      => index[i].deleted /\ i \notin victims

KeysFindLast ==
    \A i \in Ids : i < size /\ rows[index[i].key] # NoId => i <= rows[index[i].key]

KeysFindLive ==
    \A i \in Ids : i < size /\ ~index[i].deleted /\ i \notin victims
                   => rows[index[i].key] = i

KeysApart == proc \in Up => OlderRowsDeleted /\ KeysFindLast /\ KeysFindLive
=============================================================================
