-------------------------- MODULE DescriptorInputs --------------------------
(* Method descriptors of small types, and short texts, for model checking *)
EXTENDS Naturals, Sequences

CONSTANTS MaxLength, MaxArguments

Bases == {[text |-> <<"I">>, type |-> <<"I">>], [text |-> <<"L", "x", ";">>, type |-> <<"x">>],
          [text |-> <<"L", "I", "L", "x", ";">>, type |-> <<"I", "L", "x">>]}

Types ==
  {[text |-> [i \in 1 .. n |-> "["] \o b.text, value |-> [dimensions |-> n, type |-> b.type]] :
     n \in 0 .. 2, b \in Bases}

RECURSIVE Join(_)
Join(types) == IF types = <<>> THEN <<>> ELSE types[1].text \o Join(Tail(types))

LegalDescriptors ==
  {[legal |-> TRUE, text |-> <<"(">> \o Join(as) \o <<")">> \o t.text,
    arguments |-> [i \in DOMAIN as |-> as[i].value], type |-> t.value] :
     as \in UNION {[1 .. n -> Types] : n \in 0 .. MaxArguments}, t \in Types}

Characters == {"(", ")", "[", "L", ";", "I", "x"}

ShortDescriptors ==
  {[legal |-> FALSE, text |-> t \o e, arguments |-> <<>>, type |-> <<>>] :
     t \in UNION {[1 .. n -> Characters] : n \in 1 .. MaxLength}, e \in {<<>>, <<";", ")", "I">>}}

=============================================================================
