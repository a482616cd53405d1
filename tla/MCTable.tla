------------------------------ MODULE MCTable ------------------------------
(* Table for TLC, with one saver and files that never fail; MCTableShared  *)
(* has the steps that a failure takes, writeFails.                         *)
EXTENDS TableRefinement, TLC

ReliableNext == ~IOErrors /\ Next

ReliableSpec == Init /\ [][ReliableNext]_vars
=============================================================================
