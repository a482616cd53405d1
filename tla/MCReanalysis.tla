---------------------------- MODULE MCReanalysis ----------------------------
(***************************************************************************)
(* The digests of a jar that is analysed again and again into one database *)
(* while somebody replaces it (DigestTask), for TLC.  A behaviour is of    *)
(* one of two kinds of jars, its scenario.                                 *)
(***************************************************************************)
EXTENDS DigestTask, TLC

VARIABLE scenario

-----------------------------------------------------------------------------
\* Two classes in their places; one class twice, as in two source trees; one in a
\* place like BOOT-INF/classes, where it calls itself 3; and one that has the name
\* of an entry with another class.  Content 3 does not parse.
JarLayouts == {(1 :> 1) @@ (2 :> 2), (1 :> 1) @@ (2 :> 1), (1 :> 1) @@ (2 :> 3), (1 :> 2) @@ (2 :> 3)}
Digests == (1 :> 1) @@ (2 :> 2) @@ (3 :> NoDigest)

\* Every class is in its place, and all parse
Plain == INSTANCE DigestTask
  WITH Layouts <- {(1 :> 1) @@ (2 :> 2)}, Contents <- {1, 2}, DigestOf <- (1 :> 1) @@ (2 :> 2),
       MaxChanges <- 3, MaxCount <- 6

-----------------------------------------------------------------------------
runVars == <<scenario, vars>>

RunInit ==
  \/ scenario = "digest" /\ Init
  \/ scenario = "plain" /\ Plain!Init

DigestNext == scenario = "digest" /\ Next /\ UNCHANGED scenario

PlainNext == scenario = "plain" /\ Plain!Next /\ UNCHANGED scenario

\* Counts are bounded
Over == scenario = "digest" /\ UNCHANGED runVars

RunNext == DigestNext \/ PlainNext \/ Over

InPlain(A) == scenario = "plain" /\ A /\ UNCHANGED scenario

\* The process is scheduled, and someone runs it without --dry-run in the end
Fairness == WF_runVars(InPlain(Plain!Step)) /\ SF_runVars(InPlain(Plain!run(FALSE)))

RunSpec == RunInit /\ [][RunNext]_runVars /\ Fairness

-----------------------------------------------------------------------------
\* Once the jar is no longer replaced, its current digest gets recorded
GetsRecorded ==
  [](scenario = "plain" /\ jarStamp = 3 => <>(scenario = "plain" /\ Plain!Recorded))

\* The count that is stored agrees with the rows that are stored: classfileCount
\* never falls below a jar's class rows, unless an entry has the name of another
\* entry's class (and never below the rows of the classes in their places), and is
\* exact for jars whose entries carry their class's name and all parse, as long as
\* no save was torn
CountsMatchRows ==
  /\ scenario = "digest" => CountCoversRows
  /\ scenario = "plain" => Plain!CountIsExact

=============================================================================
