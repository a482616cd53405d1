---------------------------- MODULE CfdiffInputs ----------------------------
(* Small classes, for model checking *)
EXTENDS TLC

CONSTANTS Overloads, Attributes   \* which of the differences there are

\* The pool most classes have, one with the same constants under other numbers,
\* one with another constant
Pool == <<"c", "d">>

OtherPools == {<<"d", "c">>, <<"e", "d">>}

None == [n \in {} |-> 0]

AttributeSets ==
  {"Code" :> 1, "Code" :> 2} \cup (IF Attributes THEN {None, "Code" :> 1 @@ "Extra" :> 1} ELSE {})

Member(n, d, f, a) == [name |-> n, descriptor |-> d, flags |-> f, attributes |-> a]

F1 == Member("f", "()V", "public", "Code" :> 1)
F2 == Member("f", "(I)V", "public", "Code" :> 1)

MethodLists ==
  {<<Member(n, "()V", f, a)>> : n \in {"f", "g"}, f \in {"public", "private"}, a \in AttributeSets}
    \cup {<<>>, <<F1, Member("g", "()V", "public", "Code" :> 2)>>,
          <<Member("g", "()V", "public", "Code" :> 2), F1>>}
    \cup (IF Overloads THEN {<<F1, F2>>, <<F2, F1>>, <<F2>>,
                             <<F1, Member("f", "(I)V", "private", "Code" :> 1), F2>>} ELSE {})

FieldMaps ==
  {<<>>} \cup {n :> Member(n, d, f, "Code" :> 1) : n \in {"x"}, d \in {"I", "J"}, f \in {"public", "private"}}
    \cup {"x" :> Member("x", "I", "public", a) : a \in AttributeSets}

Main == [name |-> "A", super |-> "S", flags |-> "public", interfaces |-> {}, attributes |-> None,
         methods |-> <<F1>>, fields |-> <<>>, pool |-> Pool]

SmallClasses ==
  {[Main EXCEPT !.name = n, !.super = s, !.flags = f, !.interfaces = i] :
     n \in {"A", "B"}, s \in {"S", "T"}, f \in {"public", "other"}, i \in {{}, {"I"}, {"J"}}}
  \cup {[Main EXCEPT !.super = s, !.attributes = a] : s \in {"S", "T"}, a \in AttributeSets}
  \cup {[Main EXCEPT !.methods = m, !.fields = f] : m \in MethodLists, f \in FieldMaps}
  \cup {[Main EXCEPT !.methods = m, !.pool = p] : m \in MethodLists, p \in OtherPools}
  \cup {[Main EXCEPT !.attributes = a, !.pool = p] : a \in AttributeSets, p \in OtherPools}

=============================================================================
