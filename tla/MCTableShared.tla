--------------------------- MODULE MCTableShared ---------------------------
(***************************************************************************)
(* The table of a server, whose save thread and stop() both write, for     *)
(* TLC.  A behaviour is of one kind, its scenario: "faulty", the table as  *)
(* the .cfg has it, with clients that add keys twice and file operations   *)
(* that fail; "reliable", clients that add each key once to files that     *)
(* never fail; and "asserts", clients that add keys twice in a build with  *)
(* asserts.                                                                *)
(***************************************************************************)
EXTENDS Table, TLC

VARIABLE scenario

Reliable == INSTANCE Table WITH AssertsOn <- FALSE, ReAdds <- FALSE, IOErrors <- FALSE
Asserts == INSTANCE Table WITH AssertsOn <- TRUE, ReAdds <- TRUE, IOErrors <- FALSE

runVars == <<scenario, vars>>

RunInit == scenario \in {"faulty", "reliable", "asserts"} /\ Init

FaultyNext == scenario = "faulty" /\ Next /\ UNCHANGED scenario
ReliableNext == scenario = "reliable" /\ Reliable!Next /\ UNCHANGED scenario
AssertsNext == scenario = "asserts" /\ Asserts!Next /\ UNCHANGED scenario

RunNext == ReliableNext \/ AssertsNext \/ FaultyNext

RunSpec == RunInit /\ [][RunNext]_runVars

KeySymmetry == Permutations(Keys \ {ZeroKey})

-----------------------------------------------------------------------------
(* With two savers too, and whether or not there was a file at the start,  *)
(* a row without a dirty mark is in the file as it is in memory, until a   *)
(* saver that found no file empties what the other one wrote meanwhile;    *)
(* the file can be read unless a saver writes it; and what was in memory   *)
(* is in the file after stop(), if the save thread is not in write() when  *)
(* the tables are destroyed.  In a build with asserts, a client that adds  *)
(* a key twice is stopped before the live row with that key becomes        *)
(* unreachable.                                                            *)
SharedTableIsSound ==
    /\ [](scenario = "reliable" => Reliable!SavedUnlessDirty /\ Reliable!ReadableOutsideWrite)
    /\ [](scenario = "asserts" => Asserts!LiveRowsReachable)
    /\ [][scenario = "reliable" /\ Reliable!exit /\ proc' = "down"
          /\ unmarked = {} /\ ~emptied
          => diskState = "valid" /\ disk = index]_runVars
=============================================================================
