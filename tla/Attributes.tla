----------------------------- MODULE Attributes -----------------------------
(***************************************************************************)
(* AttributesManager and AnnotationsParser: reading the bytes of an        *)
(* attribute to show it.  A reader takes the position in the bytes where   *)
(* it begins and returns the one where it ends; a position behind the last *)
(* byte stands for a VectorReader that has violated its assert.            *)
(***************************************************************************)
EXTENDS Integers, Sequences, SequencesExt

CONSTANTS
  Infos,   \* a kind of attribute to the bytes it is tried with
  Pool     \* the constant pool: numbers to a tag and two fields

VARIABLES
  kind, info,   \* the attribute
  rest,         \* how many of its bytes, at the end, are no concern of the reader
  end,          \* where reading it ended, -1 before
  lookups       \* what was looked up in the constant pool for a bootstrap method

vars == <<kind, info, rest, end, lookups>>

Past == Len(info) + 1

\* readRaw() of VectorReader
Skip(p, n) == IF p + n > Len(info) THEN Past ELSE p + n

U1(p) == IF p + 1 > Len(info) THEN 0 ELSE info[p + 1]

U2(p) == IF p + 2 > Len(info) THEN 0 ELSE 256 * info[p + 1] + info[p + 2]

\* No attribute here is longer than what two bytes can say
U4(p) == U2(p + 2)

\* A loop: each iteration reads at least a byte, so that more of them than
\* there are bytes end behind the last one
Times(n, p, Reader(_)) ==
  LET some == [i \in 1 .. (IF n > Past THEN Past ELSE n) |-> i]
  IN FoldLeft(LAMBDA q, i: Reader(q), p, some)

-----------------------------------------------------------------------------
(* AttributesManager *)

\* Attributes of a fixed size
FixedSize ==
  [SourceFile |-> 2, NestHost |-> 2, ConstantValue |-> 2, Signature |-> 2, EnclosingMethod |-> 4,
   Synthetic |-> 0, Deprecated |-> 0]

\* Those that are a table: the size of an entry
EntrySize ==
  [InnerClasses |-> 8, NestMembers |-> 2, Exceptions |-> 2, LineNumberTable |-> 4,
   LocalVariableTable |-> 10, LocalVariableTypeTable |-> 10, PermittedSubclasses |-> 2]

Table(p, size) == Times(U2(p), Skip(p, 2), LAMBDA q: Skip(q, size))

readMethodParameters == Times(U1(0), Skip(0, 1), LAMBDA q: Skip(q, 4))

\* The attributes of the code are not looked at
readCode == Table(Skip(Skip(0, 8), U4(4)), 8)

JVM_ITEM_Object == 7
JVM_ITEM_Uninitialized == 8

\* A type of a stack map frame
skipVerificationType(p) ==
  IF U1(p) \in {JVM_ITEM_Object, JVM_ITEM_Uninitialized} THEN Skip(Skip(p, 1), 2) ELSE Skip(p, 1)

skipVerificationTypes(p, n) == Times(n, p, skipVerificationType)

chopIsAppend_Bug(p) ==
  LET type == U1(p)
      q == Skip(p, 1)
      locals == skipVerificationTypes(Skip(q, 4), U2(q + 2))
  IN
  CASE type <= 63 -> q
    [] type \in 64 .. 127 -> skipVerificationType(q)
    [] type = 247 -> skipVerificationType(Skip(q, 2))
    [] type = 251 -> Skip(q, 2)
    [] type \in 248 .. 254 \ {251} -> skipVerificationTypes(Skip(q, 2), IF type > 251 THEN type - 251 ELSE 251 - type)
    [] type = 255 -> skipVerificationTypes(Skip(locals, 2), U2(locals))
    [] OTHER -> q

\* A frame of StackMapTable
readFrame(p) ==
  LET type == U1(p)
      q == Skip(p, 1)
      locals == skipVerificationTypes(Skip(q, 4), U2(q + 2))
  IN
  CASE type <= 63 -> q
    [] type \in 64 .. 127 -> skipVerificationType(q)
    [] type = 247 -> skipVerificationType(Skip(q, 2))
    [] type \in 248 .. 251 -> Skip(q, 2)
    [] type \in 252 .. 254 -> skipVerificationTypes(Skip(q, 2), type - 251)
    [] type = 255 -> skipVerificationTypes(Skip(locals, 2), U2(locals))
    [] OTHER -> q

readStackMapTable == Times(U2(0), Skip(0, 2), readFrame)

\* An attribute of a component is jumped over
readComponent(p) == Times(U2(p + 4), Skip(p, 6), LAMBDA q: Skip(Skip(q, 6), U4(q + 2)))

readRecord == Times(U2(0), Skip(0, 2), readComponent)

-----------------------------------------------------------------------------
(* What is looked up in the constant pool for an argument of a bootstrap   *)
(* method: pairs of a number and the tag of the record that is read there. *)

Members == {"Fieldref", "Methodref", "InterfaceMethodref"}

getString(i) == {<<i, "Utf8">>}

\* A field of a record, whatever the record is: of a string it is the length
Field(i, f) == IF i \in DOMAIN Pool THEN Pool[i][f] ELSE 0

getClassInfoName(i) ==
  IF i = 0 THEN {}
  ELSE {<<i, "Class">>} \cup (IF Field(i, "a") = 0 THEN {} ELSE getString(Field(i, "a")))

formatClassName(i) == getClassInfoName(i)

formatNameAndType(i) ==
  IF i = 0 THEN {} ELSE {<<i, "NameAndType">>} \cup getString(Field(i, "a")) \cup getString(Field(i, "b"))

formatMemberReference(i) ==
  IF i # 0 /\ Pool[i].tag \in Members
  THEN formatClassName(Field(i, "a")) \cup formatNameAndType(Field(i, "b"))
  ELSE {}

methodHandleToString(i) ==
  IF i # 0 /\ Pool[i].tag = "MethodHandle" THEN formatMemberReference(Field(i, "a")) ELSE {}

constantPoolIndexToString(i) ==
  LET tag == Pool[i].tag IN
  IF i = 0 THEN {}
  ELSE CASE tag \in {"String", "MethodType"} -> getString(Field(i, "a"))
         [] tag = "Class" -> formatClassName(Field(i, "a"))
         [] tag = "NameAndType" -> formatNameAndType(i)
         [] tag \in Members -> formatMemberReference(i)
         [] tag = "MethodHandle" -> methodHandleToString(i)
         [] OTHER -> {}

readArgument(s) == [p |-> Skip(s.p, 2), lookups |-> s.lookups \cup constantPoolIndexToString(U2(s.p))]

readBootstrapMethod(s) ==
  Times(U2(s.p + 2),
        [p |-> Skip(s.p, 4), lookups |-> s.lookups \cup methodHandleToString(U2(s.p))], readArgument)

readBootstrapMethods == Times(U2(0), [p |-> Skip(0, 2), lookups |-> {}], readBootstrapMethod)

-----------------------------------------------------------------------------
(* AnnotationsParser *)

RECURSIVE readElementValue(_)

Values(p) == Times(U2(p), Skip(p, 2), LAMBDA q: readElementValue(Skip(q, 2)))

\* The type of an annotation, then pairs of a name and a value
readAnnotation(p) == Values(Skip(p, 2))

ARRAY == 91
ENUM2 == 101
ANNOTATION == 64

\* Numbers, strings and classes
CONSTANT_TAGS == {66, 67, 68, 70, 73, 74, 83, 90, 99, 115}

readElementValue(p) ==
  LET q == Skip(p, 1) IN
  CASE U1(p) = ARRAY -> Times(U2(q), Skip(q, 2), readElementValue)
    [] U1(p) = ANNOTATION -> readAnnotation(q)
    [] U1(p) = ENUM2 -> Skip(q, 4)
    [] U1(p) \in CONSTANT_TAGS -> Skip(q, 2)
    [] OTHER -> q

\* What the target of a type annotation takes
readTarget(p) ==
  LET type == U1(p)
      q == Skip(p, 1)
  IN
  CASE type \in {0, 1, 22} -> Skip(q, 1)
    [] type \in {16, 17, 18, 23} \cup 66 .. 70 -> Skip(q, 2)
    [] type \in {64, 65} -> Table(q, 6)
    [] type \in 71 .. 75 -> Skip(q, 4)
    [] OTHER -> q

readTypeAnnotation(p) ==
  LET path == readTarget(p)
  IN readAnnotation(Times(U1(path), Skip(path, 1), LAMBDA q: Skip(q, 2)))

readAnnotations(p) == Times(U2(p), Skip(p, 2), readAnnotation)
readTypeAnnotations(p) == Times(U2(p), Skip(p, 2), readTypeAnnotation)

readParameterAnnotations ==
  Times(U1(0), Skip(0, 1), readAnnotations)

-----------------------------------------------------------------------------

\* The reader toString() finds for the name of an attribute
Reader(k) ==
  CASE k \in DOMAIN FixedSize -> Skip(0, FixedSize[k])
    [] k \in DOMAIN EntrySize -> Table(0, EntrySize[k])
    [] k = "MethodParameters" -> readMethodParameters
    [] k = "Code" -> readCode
    [] k = "StackMapTable" -> readStackMapTable
    [] k = "SourceDebugExtension" -> Skip(0, Len(info))
    [] k = "Record" -> readRecord
    [] k = "BootstrapMethods" -> readBootstrapMethods.p
    [] k = "Annotations" -> readAnnotations(0)
    [] k = "ParameterAnnotations" -> readParameterAnnotations
    [] k = "TypeAnnotations" -> readTypeAnnotations(0)
    [] k = "AnnotationDefault" -> readElementValue(0)

Init ==
  /\ kind \in DOMAIN Infos
  /\ \E i \in Infos[kind]: info = i.bytes /\ rest = i.rest
  /\ end = -1 /\ lookups = {}

toString ==
  /\ end = -1
  /\ end' = Reader(kind)
  /\ lookups' = IF kind = "BootstrapMethods" THEN readBootstrapMethods.lookups ELSE {}
  /\ UNCHANGED <<kind, info, rest>>

Spec == Init /\ [][toString]_vars

-----------------------------------------------------------------------------

\* An attribute as the class file format describes it is read to its end, of
\* Code to the attributes that follow the code: no reader takes a part of it
\* for another one
ReadsItsBytes ==
  end # -1 => end = Len(info) - rest

\* What is looked up in the constant pool for a bootstrap method and its
\* arguments is there, and is the kind of record it is read as
LookupsFit == \A l \in lookups: l[1] \in DOMAIN Pool /\ Pool[l[1]].tag = l[2]

\* No reader reads beyond the bytes of the attribute (the assert of readRaw())
\* (what the repository says, and the code does not do)
InBounds == end <= Len(info)

\* Nothing is looked up that is not in the constant pool (the assert of getEntry())
\* (what the repository says, and the code does not do)
InPool == \A l \in lookups: l[1] \in DOMAIN Pool

=============================================================================
