-------------------------- MODULE AttributesInputs --------------------------
(* Attributes put together as the class file format describes them *)
EXTENDS Naturals, Sequences, SequencesExt, TLC

CONSTANTS TypeArguments, ClassArguments   \* whether there are such

B1(v) == <<v>>
B2(v) == <<0, v>>
B4(v) == <<0, 0, 0, v>>

\* All concatenations of one element of each set
Cat(sets) == FoldLeft(LAMBDA acc, s: {a \o b : a \in acc, b \in s}, {<<>>}, sets)

\* Up to two elements behind their number
Counted(Count(_), elements) ==
  {Count(0)} \cup {Count(1) \o e : e \in elements} \cup {Count(2) \o d \o e : d \in elements, e \in elements}

\* Tags of element values
ARRAY == 91
ENUM2 == 101
ANNOTATION == 64

\* Attributes of a fixed size; those that are a table, with the size of an entry
Fixed ==
  [SourceFile |-> 2, NestHost |-> 2, ConstantValue |-> 2, Signature |-> 2, EnclosingMethod |-> 4,
   Synthetic |-> 0, Deprecated |-> 0]

Entry ==
  [InnerClasses |-> 8, NestMembers |-> 2, Exceptions |-> 2, LineNumberTable |-> 4,
   LocalVariableTable |-> 10, LocalVariableTypeTable |-> 10, PermittedSubclasses |-> 2]

Zeros(n) == [i \in 1 .. n |-> 0]

\* An entry of a table is any bytes of its size
Entries(n) == {Zeros(n), [i \in 1 .. n |-> 7]}

Simple == {<<73>> \o B2(5), <<99>> \o B2(64), <<ENUM2>> \o B2(1) \o B2(91)}

Plain == {B2(3) \o B2(0)} \cup {B2(64) \o B2(1) \o B2(9) \o v : v \in Simple}

ElementValues ==
  Simple \cup Cat(<<{<<ARRAY>>}, Counted(B2, Simple)>>) \cup Cat(<<{<<ANNOTATION>>}, Plain>>)
    \cup Cat(<<{<<ARRAY>> \o B2(1) \o <<ARRAY>>}, Counted(B2, Simple)>>)
    \cup Cat(<<{<<ARRAY>> \o B2(2) \o <<ANNOTATION>>}, Plain, Simple>>)

SomeAnnotations == {B2(3) \o B2(0)} \cup Cat(<<{B2(8)}, Counted(B2, {B2(2) \o v : v \in ElementValues})>>)

Some == Plain \cup Cat(<<{B2(8) \o B2(2) \o B2(2)}, Simple, {B2(91)}, Simple>>)

Paths == {B1(0), B1(1) \o <<3, 1>>, B1(2) \o <<0, 0, 3, 0>>}

Targets ==
  {<<t, 1>> : t \in {0, 1, 22}} \cup {<<t>> \o B2(2) : t \in {16, 23} \cup 66 .. 70}
    \cup {<<t, 1, 0>> : t \in {17, 18}} \cup {<<t>> : t \in {19, 20, 21}}
    \cup Cat(<<{<<64>>, <<65>>}, Counted(B2, Entries(6))>>)
    \cup (IF TypeArguments THEN {<<t>> \o B2(5) \o <<1>> : t \in 71 .. 75} ELSE {})

Types == {<<0>>, <<6>>, <<7>> \o B2(8), <<8>> \o B2(0)}

Frames ==
  {<<0>>, <<63>>} \cup {<<64>> \o t : t \in Types} \cup {<<247>> \o B2(7) \o t : t \in Types}
    \cup {<<f>> \o B2(7) : f \in 248 .. 251}
    \cup {<<252>> \o B2(1) \o t : t \in Types} \cup Cat(<<{<<254>> \o B2(255)}, Types, Types, {<<7>> \o B2(1)}>>)
    \cup Cat(<<{<<255>> \o B2(1)}, Counted(B2, Types), Counted(B2, {<<1>>, <<8>> \o B2(4)})>>)

Components == Cat(<<{B2(1) \o B2(2)}, Counted(B2, {B2(5) \o B4(2) \o B2(9), B2(5) \o B4(0)})>>)

SomePool ==
  LET R(tag, a, b) == [tag |-> tag, a |-> a, b |-> b]
  IN <<R("Utf8", 40, 0), R("Class", 1, 0), R("Utf8", 41, 0), R("NameAndType", 1, 3), R("Methodref", 2, 4),
       R("Fieldref", 2, 4), R("MethodHandle", 5, 0), R("MethodHandle", 6, 0), R("String", 3, 0),
       R("MethodType", 3, 0), R("Integer", 5, 0), R("Dynamic", 0, 4)>>

Arguments == {B2(a) : a \in 7 .. 12 \cup (IF ClassArguments THEN {2} ELSE {})}

BootstrapMethods == Cat(<<{B2(7), B2(8)}, Counted(B2, Arguments)>>)

Whole(bytes) == [bytes |-> bytes, rest |-> 0]

Code == Cat(<<{B2(1) \o B2(2)}, {B4(1) \o <<42>>, B4(3) \o <<0, 8, 0>>}, Counted(B2, Entries(8))>>)

Rests == {B2(0), B2(1) \o B2(5) \o B4(1) \o <<1>>}

SomeInfos ==
     [k \in DOMAIN Fixed |-> {Whole(e) : e \in Entries(Fixed[k])}]
  @@ [k \in DOMAIN Entry |-> {Whole(t) : t \in Counted(B2, Entries(Entry[k]))}]
  @@ "MethodParameters" :> {Whole(t) : t \in Counted(B1, Entries(4))}
  @@ "SourceDebugExtension" :> {Whole(t) : t \in Entries(3)}
  @@ "Code" :> {[bytes |-> c \o r, rest |-> Len(r)] : c \in Code, r \in Rests}
  @@ "StackMapTable" :> {Whole(t) : t \in Counted(B2, Frames)}
  @@ "Record" :> {Whole(t) : t \in Counted(B2, Components)}
  @@ "BootstrapMethods" :> {Whole(t) : t \in Counted(B2, BootstrapMethods)}
  @@ "AnnotationDefault" :> {Whole(v) : v \in ElementValues}
  @@ "Annotations" :> {Whole(t) : t \in Counted(B2, Some) \cup {B2(1) \o a : a \in SomeAnnotations}}
  @@ "ParameterAnnotations" :> {Whole(t) : t \in Counted(B1, Counted(B2, Plain))}
  @@ "TypeAnnotations" :> {Whole(t) : t \in {B2(1) \o a : a \in Cat(<<Targets, Paths, Some>>)}
                             \cup Cat(<<{B2(2)}, Targets, {B1(0)}, Plain, Targets, {B1(0)}, {B2(3) \o B2(0)}>>)}

=============================================================================
