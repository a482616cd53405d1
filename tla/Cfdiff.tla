------------------------------- MODULE Cfdiff -------------------------------
(***************************************************************************)
(* cfdiff, which compares two class files (ClassfileDiffApp.cpp).  A class *)
(* is a record; its attributes are a function of their names, its methods  *)
(* a sequence, its fields a function of their names.  The bytes of an      *)
(* attribute are the number of the constant it mentions in the pool of     *)
(* its class.                                                              *)
(***************************************************************************)
EXTENDS Naturals, Sequences, FiniteSets, SequencesExt, FiniteSetsExt

CONSTANTS
  Classes,           \* the class files
  Broken,            \* one that cannot be parsed
  ignoreClassname,   \* _ignoreClassname
  publicOnly,        \* _publicOnly
  ignoredAttributes  \* _ignoredAttributes

VARIABLES
  left, right,       \* the two class files
  phase,             \* "start", "methods", "fields", "output", "done", "undefined"
  differenceCount,   \* _differenceCount
  names,             \* names of methods on the left that are to be compared
  name, leftMethods, \* the name that is compared, the left methods it has left
  rightMap,          \* methods on the right that have not been found on the left
  failed             \* the sides that are said to have failed

vars == <<left, right, phase, differenceCount, names, name, leftMethods, rightMap, failed>>

Differs(a, b) == IF a = b THEN 0 ELSE 1

-----------------------------------------------------------------------------

\* compareAttributes(): the bytes are compared, which are numbers of constants in
\* two pools; what is missing on the right is said, but not counted
compareAttributes(l, r) ==
  LET differing == {n \in DOMAIN l \cap DOMAIN r: l[n] # r[n]} IN
  Cardinality((differing \cup (DOMAIN r \ DOMAIN l)) \ ignoredAttributes)

compareMainClassInterfaces ==
  Cardinality((left.interfaces \ right.interfaces) \cup (right.interfaces \ left.interfaces))

compareMainClassname == IF ignoreClassname THEN 0 ELSE Differs(left.name, right.name)

MainDifferences ==
  compareMainClassname + Differs(left.super, right.super) + Differs(left.flags, right.flags)
    + compareMainClassInterfaces + compareAttributes(left.attributes, right.attributes)

\* areMethodsEqual(), the same for fields: the differences it counts
MemberDifferences(l, r) ==
  Differs(l.flags, r.flags) + Differs(l.descriptor, r.descriptor)
    + compareAttributes(l.attributes, r.attributes)

isCompared(member) == publicOnly => member.flags = "public"

extractMethods(class) ==
  LET methods == SelectSeq(class.methods, isCompared) IN
  [n \in {methods[i].name : i \in DOMAIN methods} |-> SelectSeq(methods, LAMBDA m: m.name = n)]

extractFields(class) ==
  [n \in {f \in DOMAIN class.fields: isCompared(class.fields[f])} |-> class.fields[n]]

-----------------------------------------------------------------------------

Init ==
  /\ left \in Classes \cup {Broken} /\ right \in Classes \cup {Broken}
  /\ phase = "start" /\ differenceCount = 0
  /\ names = {} /\ name = "" /\ leftMethods = <<>> /\ rightMap = <<>>
  /\ failed = {}

\* start(): the right file is parsed if the left one could be, and neither has
\* succeeded before it is parsed
parseFails ==
  /\ phase = "start" /\ Broken \in {left, right}
  /\ failed' = IF left = Broken THEN {"left", "right"} ELSE {"right"}
  /\ phase' = "done"
  /\ UNCHANGED <<left, right, differenceCount, names, name, leftMethods, rightMap>>

\* compareMainClass(), and the maps of compareMethods()
compareMainClass ==
  /\ phase = "start" /\ Broken \notin {left, right}
  /\ differenceCount' = differenceCount + MainDifferences
  /\ names' = DOMAIN extractMethods(left)
  /\ rightMap' = extractMethods(right)
  /\ phase' = "methods"
  /\ UNCHANGED <<left, right, name, leftMethods, failed>>

\* compareMethods(): the next name, in the order of the hash map
nextName ==
  /\ phase = "methods" /\ leftMethods = <<>>
  /\ \E n \in names:
       LET methods == extractMethods(left)[n] IN
       /\ names' = names \ {n} /\ name' = n
       /\ IF n \in DOMAIN rightMap
            THEN leftMethods' = methods /\ UNCHANGED differenceCount
            ELSE differenceCount' = differenceCount + Len(methods) /\ UNCHANGED leftMethods
  /\ UNCHANGED <<left, right, phase, rightMap, failed>>

keepsCount_Bug(rights, equal) ==
  FoldLeft(LAMBDA sum, r: sum + MemberDifferences(leftMethods[1], r), 0, rights)

\* What the comparison of a method with those of the same name adds: nothing
\* if it is found, all differences from all of them otherwise
Added(rights, equal) ==
  IF equal # {} THEN 0
  ELSE FoldLeft(LAMBDA sum, r: sum + MemberDifferences(leftMethods[1], r), 0, rights)

\* compareToRightMethods(), and what the loop does behind it.  The vector whose
\* last method was found is gone with its entry of the map, and the loop asks
\* it whether it is empty
compareToRightMethods ==
  /\ phase = "methods" /\ leftMethods # <<>>
  /\ LET rights == rightMap[name]
         equal == {i \in DOMAIN rights: MemberDifferences(leftMethods[1], rights[i]) = 0}
         rest == RemoveAt(rights, Min(equal))
     IN
     /\ differenceCount' = differenceCount + Added(rights, equal)
     /\ IF equal = {}
          THEN leftMethods' = Tail(leftMethods) /\ UNCHANGED <<rightMap, phase>>
          ELSE IF rest # <<>>
          THEN leftMethods' = Tail(leftMethods) /\ rightMap' = [rightMap EXCEPT ![name] = rest]
               /\ UNCHANGED phase
          ELSE /\ rightMap' = [n \in DOMAIN rightMap \ {name} |-> rightMap[n]]
               /\ leftMethods' = <<>>
               /\ \/ UNCHANGED phase
                  \/ Len(leftMethods) > 1 /\ phase' = "undefined"
  /\ UNCHANGED <<left, right, names, name, failed>>

\* The end of compareMethods(): methods that are only on the right
rightMethods ==
  /\ phase = "methods" /\ leftMethods = <<>> /\ names = {}
  /\ differenceCount' =
       differenceCount + FoldSet(LAMBDA n, sum: sum + Len(rightMap[n]), 0, DOMAIN rightMap)
  /\ phase' = "fields"
  /\ UNCHANGED <<left, right, names, name, leftMethods, rightMap, failed>>

compareFields ==
  LET l == extractFields(left)
      r == extractFields(right)
      both == DOMAIN l \cap DOMAIN r
  IN
  /\ phase = "fields"
  /\ differenceCount' =
       FoldSet(LAMBDA n, sum: sum + MemberDifferences(l[n], r[n]),
               differenceCount + Cardinality((DOMAIN l \cup DOMAIN r) \ both), both)
  /\ phase' = "output"
  /\ UNCHANGED <<left, right, names, name, leftMethods, rightMap, failed>>

\* outputResult() says that there are no differences if it has counted none
outputResult ==
  /\ phase = "output" /\ phase' = "done"
  /\ UNCHANGED <<left, right, differenceCount, names, name, leftMethods, rightMap, failed>>

Next ==
  \/ parseFails \/ compareMainClass \/ nextName \/ compareToRightMethods
  \/ rightMethods \/ compareFields \/ outputResult

Spec == Init /\ [][Next]_vars

-----------------------------------------------------------------------------

SaysNone == phase = "done" /\ failed = {} /\ differenceCount = 0

Kept(attributes) == DOMAIN attributes \ ignoredAttributes

\* The attributes that are not ignored, with the constants they mention
Meanings(class, attributes) == [n \in Kept(attributes) |-> class.pool[attributes[n]]]

Meant(class, member) == [member EXCEPT !.attributes = Meanings(class, @)]

Members(class) ==
  {m \in ToSet(class.methods): isCompared(m)} \cup Range(extractFields(class))

\* What there is to compare of a class, whatever the order of its parts and the
\* numbers of its constants
Comparable(class) ==
  [name |-> IF ignoreClassname THEN "" ELSE class.name,
   super |-> class.super, flags |-> class.flags, interfaces |-> class.interfaces,
   attributes |-> Meanings(class, class.attributes),
   methods |-> {Meant(class, m) : m \in {n \in ToSet(class.methods): isCompared(n)}},
   fields |-> [n \in DOMAIN extractFields(class) |-> Meant(class, class.fields[n])]]

Same == Comparable(left) = Comparable(right)

\* The numbers in the attributes that are compared
Mentioned(class) ==
  UNION {{a[n] : n \in Kept(a)} : a \in {class.attributes} \cup {m.attributes : m \in Members(class)}}

\* They stand for the same constants in both classes: what the comparison takes
\* for granted
PoolsAgree == \A i \in Mentioned(left) \cup Mentioned(right): left.pool[i] = right.pool[i]

\* If the pools agree, a class file is not said to differ from one that only has
\* its methods in another order, or differs in what is to be ignored
SameIsSilent ==
  phase = "done" /\ failed = {} /\ PoolsAgree /\ Same => SaysNone

Methods(class, n) == {m \in Comparable(class).methods: m.name = n}

\* The left class has an overload more than the right one, or a part of it has
\* an attribute that its counterpart lacks: what the comparison overlooks
LeftHasMore ==
  \/ \E l \in Comparable(left).methods: Cardinality(Methods(left, l.name)) > Cardinality(Methods(right, l.name))
  \/ \E l \in Comparable(left).methods, r \in Comparable(right).methods:
       l.name = r.name /\ DOMAIN l.attributes \ DOMAIN r.attributes # {}
  \/ \E n \in DOMAIN Comparable(left).fields \cap DOMAIN Comparable(right).fields:
       Kept(left.fields[n].attributes) \ DOMAIN right.fields[n].attributes # {}
  \/ Kept(left.attributes) \ DOMAIN right.attributes # {}

\* "No differences found" is said of classes that are the same only, if the pools
\* agree and the left class has no more than the right one
SilentIsSame == SaysNone /\ PoolsAgree /\ ~LeftHasMore => Same

\* Said without exceptions, as cfdiff says it: "No differences found"
\* (what the repository says, and the code does not do)
NoDifferencesFound == SaysNone => Same

\* "Failed to parse" is said of a file that could not be parsed
\* (what the repository says, and the code does not do)
FailedToParse == ("left" \in failed => left = Broken) /\ ("right" \in failed => right = Broken)

=============================================================================
