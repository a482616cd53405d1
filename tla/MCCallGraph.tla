---------------------------- MODULE MCCallGraph ----------------------------
(***************************************************************************)
(* What a call-graph database holds, for TLC: the nodes and edges of a jar *)
(* with two classes and a class file, which are analysed again and again   *)
(* while somebody replaces them (CallGraph), and the pool that the names   *)
(* of the nodes are put into (StringPool).  A behaviour is of one of them, *)
(* its scenario; the variables of the other stay as they are in it.        *)
(***************************************************************************)
EXTENDS CallGraph, StringPool, TLC

CONSTANTS Scenarios, Unused

VARIABLE scenario

-----------------------------------------------------------------------------
BodyOf(methods, calls) == [methods |-> methods, calls |-> calls]

TwoClasses(a, b) == ("A" :> a) @@ ("B" :> b)

\* A calls C and B, B and C call A.  Classes disappear, change, do not parse,
\* and C may overload a method.
FileContents ==
  [f \in {"jar", "file"} |->
     IF f = "jar"
     THEN {TwoClasses(BodyOf({<<"run", 1>>}, calls), BodyOf({}, {<<"A", "run", 1>>})) :
             calls \in {{}, {<<"C", "go", 1>>}, {<<"C", "go", 2>>, <<"B", "stop", 1>>}}}
          \cup {"A" :> BodyOf({<<"run", 2>>}, {<<"C", "go", 1>>}),
                TwoClasses(Broken, BodyOf({}, {<<"A", "run", 2>>}))}
     ELSE {"C" :> body : body \in {BodyOf({<<"go", 1>>}, {<<"A", "run", 1>>}),
                                   BodyOf({<<"go", 2>>}, {<<"A", "run", 2>>}),
                                   BodyOf({<<"go", 1>>, <<"go", 2>>}, {}), BodyOf({}, {}), Broken}}]

\* One string is a prefix of another, and one is their end
PoolStrings == {<<>>, <<"a">>, <<"a", "b">>, <<"b">>}

-----------------------------------------------------------------------------
runVars == <<scenario, vars, poolVars>>

NoGraphTask ==
  /\ world = Unused /\ past = Unused /\ analysed = Unused /\ saved = Unused /\ db = Unused /\ fresh = Unused
  /\ todo = Unused /\ entries = Unused /\ skipped = Unused /\ graph = Unused /\ pc = "idle"
  /\ edits = Unused /\ analyses = Unused

RunInit ==
  /\ scenario \in Scenarios
  /\ PoolInit
  /\ \/ scenario = "graph" /\ Init
     \/ scenario = "pool" /\ NoGraphTask

GraphNext == scenario = "graph" /\ Next /\ UNCHANGED <<scenario, poolVars>>

StringsNext == scenario = "pool" /\ PoolNext /\ UNCHANGED <<scenario, vars>>

\* Edits and analyses, and the bytes of the pool, are bounded
Over == UNCHANGED runVars

RunNext == GraphNext \/ StringsNext \/ Over

RunSpec == RunInit /\ [][RunNext]_runVars

=============================================================================
