---------------------------- MODULE DurableTable ----------------------------
(***************************************************************************)
(* What a table of the database promises to the code that uses it: rows    *)
(* have ids that are given out in order and keep their meaning, a save     *)
(* brings the file up to memory row by row, and after a clean end the file *)
(* has every row.  Table implements this with dirty marks and incremental  *)
(* writes; Database is built on it.                                        *)
(***************************************************************************)
EXTENDS Naturals

CONSTANTS
    MaxId,          \* ids are 0..MaxId - 1
    Rows,           \* what a row can be
    Absent,         \* no row has this id
    KeyOf(_)        \* the part of a row that identifies it

VARIABLES
    isOpen,         \* a process has the table open
    mem,            \* its rows
    disk            \* the rows of the file

dvars == <<isOpen, mem, disk>>

Slots == 0..(MaxId - 1)
NoRows == [i \in Slots |-> Absent]
RowMap == [Slots -> Rows \cup {Absent}]

(* Rows have consecutive ids from 0.                                       *)
Dense(m) == \A i, j \in Slots : i < j /\ m[j] # Absent => m[i] # Absent

(* Every row of m is in n, under the same id and with the same key.        *)
KeptIn(m, n) ==
    \A i \in Slots : m[i] # Absent => n[i] # Absent /\ KeyOf(n[i]) = KeyOf(m[i])

DInit == ~isOpen /\ mem = NoRows /\ disk = NoRows

Open == ~isOpen /\ isOpen' /\ mem' = disk /\ UNCHANGED disk

Recreate == ~isOpen /\ isOpen' /\ mem' = NoRows /\ disk' = NoRows

Change ==
    /\ isOpen /\ UNCHANGED <<isOpen, disk>>
    /\ mem' \in RowMap /\ Dense(mem') /\ KeptIn(mem, mem')

(* What a save does, whole or cut off: a row in the file is the one in     *)
(* memory or what the file had for it before.                              *)
Saves ==
    /\ disk' \in RowMap /\ Dense(disk') /\ KeptIn(disk, disk') /\ KeptIn(disk', mem)
    /\ \A i \in Slots : disk'[i] = mem[i] \/ disk'[i] = disk[i]

Save == isOpen /\ Saves /\ KeptIn(mem, disk') /\ UNCHANGED <<isOpen, mem>>

Close ==
    /\ isOpen /\ KeptIn(mem, disk) /\ KeptIn(disk, mem)
    /\ ~isOpen' /\ mem' = NoRows /\ UNCHANGED disk

Crash == isOpen /\ Saves /\ ~isOpen' /\ mem' = NoRows

DNext == Open \/ Recreate \/ Change \/ Save \/ Close \/ Crash

DSpec == DInit /\ [][DNext]_dvars
=============================================================================
