--------------------------- MODULE SignatureInputs ---------------------------
(***************************************************************************)
(* The signatures of the class file format, up to a depth, as sets of      *)
(* sequences (the reference for Signature), and all short sequences.       *)
(***************************************************************************)
EXTENDS Naturals, Sequences, SequencesExt

CONSTANTS MaxLength   \* of arbitrary sequences

\* Concatenations of a member of each set
Cat(sets) == FoldLeft(LAMBDA acc, S: {s \o t : s \in acc, t \in S}, {<<>>}, sets)

Lit(c) == {<<c>>}

Opt(S) == {<<>>} \cup S

UpTo2(S) == {<<>>} \cup S \cup Cat(<<S, S>>)

Names == {<<"x">>, <<"T">>}

Inner(arguments) ==
  Cat(<<Lit("L"), Opt({<<"x", "/">>}), Names, Opt(arguments),
        Opt(Cat(<<{<<".">>, <<"$">>}, Lit("I"), Opt(arguments)>>)), Lit(";")>>)

Variables == Cat(<<Lit("T"), Names, Lit(";")>>)

Plain == Inner({}) \cup Variables

Arguments ==
  Cat(<<Lit("<"), Opt(Lit("*")), Opt({<<"+">>, <<"-">>, <<"[">>}), {<<"L", "x", ";">>, <<"T", "T", ";">>}, Lit(">")>>)

ClassTypes == Inner(Arguments) \cup
  Cat(<<Lit("L"), Lit("x"), Lit("<"), Cat(<<Lit("L"), Lit("x"), Arguments, Lit(";")>>), Lit(">"), Lit(";")>>)

FieldTypes == ClassTypes \cup Variables

\* An empty class bound is followed by an interface bound, as compilers write it
Formals(names) ==
  Cat(<<Lit("<"), names, {<<":", "L", "x", ";">>, <<":", ":", "T", "T", ";">>,
                          <<":", "T", "x", ";", ":", "L", "T", ";">>},
        Opt(Cat(<<names, {<<":", "L", "x", ";">>}>>)), Lit(">")>>)

Small == {<<"L", "x", ";">>, <<"T", "T", ";">>, <<"[", "I">>, <<"I">>}

Legal(names) ==
  [o \in {"class", "method", "field"} |->
     CASE o = "field" -> FieldTypes \cup Cat(<<Lit("["), Opt(Lit("[")), Plain \cup Lit("I")>>)
       [] o = "class" -> Cat(<<Opt(Formals(names)), Inner({<<"<", "*", ">">>}), UpTo2({<<"L", "x", ";">>})>>)
       [] OTHER -> Cat(<<Opt(Formals(names)), Lit("("), UpTo2(Small), Lit(")"), Small \cup Lit("V"),
                         UpTo2({<<"^", "L", "x", ";">>, <<"^", "T", "x", ";">>})>>)]

LegalSignatures == Legal(Names)

DollarSignatures == Legal({<<"x", "$", "x">>})

Alphabet == {";", ".", "$", "/", "[", ":", ">", "<", "I", "L", "T", "x", "*", "+", "(", ")", "V", "^"}

ShortSignatures == [o \in {"class", "method", "field"} |-> UNION {[1 .. n -> Alphabet] : n \in 0 .. MaxLength}]

=============================================================================
