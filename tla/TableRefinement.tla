-------------------------- MODULE TableRefinement --------------------------
(***************************************************************************)
(* Table implements DurableTable: the rows in memory are those of the      *)
(* index, and every write(), crash and read() is a step or a stutter there.*)
(***************************************************************************)
EXTENDS TableInvariant

RowKey(r) == r.key
IsOpen == proc \in Up

Durable == INSTANCE DurableTable
             WITH MaxId <- MaxRows, Rows <- Row, Absent <- NoRow, KeyOf <- RowKey,
                  isOpen <- IsOpen, mem <- index, disk <- disk

(* Table.cpp keeps what DurableTable promises to its callers, with         *)
(* incremental writes, replaced rows, crashes during write() and reloads.  *)
ImplementsDurableTable == Durable!DSpec
=============================================================================
