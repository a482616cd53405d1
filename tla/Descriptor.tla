----------------------------- MODULE Descriptor -----------------------------
(***************************************************************************)
(* DescriptorParser and MethodDescriptorParser on their SignatureScanner.  *)
(* "I" is any base type or void, "x" any character of a class name.  A     *)
(* parser takes the position of the scanner, which does not move beyond    *)
(* the last character, and returns where it leaves it.                     *)
(***************************************************************************)
EXTENDS Naturals, Sequences

CONSTANTS Descriptors   \* the descriptors, with what they stand for

VARIABLES
  descriptor,   \* [text, and the arguments and the type it is put together from]
  result        \* what MethodDescriptorParser makes of it

vars == <<descriptor, result>>

None == [how |-> "none"]
Loops == [how |-> "loops"]

Text == descriptor.text

\* currentChar() at a position from 1
current(p) == IF p <= Len(Text) THEN Text[p] ELSE "end"

\* getNextChar() and step(): at the last character they stay
getNextChar(p) == IF p + 1 > Len(Text) THEN [pos |-> p, char |-> "end"] ELSE [pos |-> p + 1, char |-> Text[p + 1]]

Ends(p) == {q \in p + 1 .. Len(Text): Text[q] = ";"}

\* getFQClassname(): the position of the next ";", if there is one
getFQClassname(p) == CHOOSE q \in Ends(p): \A r \in Ends(p): q <= r

RECURSIVE parse(_, _, _)

\* DescriptorParser::parse() at position p with the character c, having read d
parse(p, c, d) ==
  LET next(q, e) == LET n == getNextChar(q) IN parse(n.pos, n.char, e) IN
  IF c \in {"end", ")"} \/ d.type # <<>> THEN [how |-> "ok", pos |-> p, value |-> d]
  ELSE CASE c = "[" -> next(p, [d EXCEPT !.dimensions = @ + 1])
         [] c = "L" /\ Ends(p) = {} -> Loops
         [] c = "L" /\ Ends(p) # {} ->
              next(getFQClassname(p), [d EXCEPT !.type = SubSeq(Text, p + 1, getFQClassname(p) - 1)])
         [] c = "I" -> next(p, [d EXCEPT !.type = <<"I">>])
         [] c = "(" -> next(p, d)
         [] OTHER -> next(p, [d EXCEPT !.type = Text])

NoType == [dimensions |-> 0, type |-> <<>>]

DescriptorParser(p) == parse(p, current(p), NoType)

RECURSIVE parseParameters(_, _)

\* A parser that does not move the scanner is tried again for ever
parseParameters(p, arguments) ==
  LET r == DescriptorParser(p) IN
  IF current(p) = ")" THEN [how |-> "ok", pos |-> p, arguments |-> arguments]
  ELSE IF r = Loops THEN Loops
  ELSE IF r.pos = p THEN Loops
  ELSE parseParameters(r.pos, Append(arguments, r.value))

RECURSIVE parseMethod(_, _, _)

\* MethodDescriptorParser::parse(): parseParameters() and parseReturnType() at
\* each "(", in a build without asserts nothing for what is no "("
parseMethod(p, c, method) ==
  LET ps == parseParameters(getNextChar(p).pos, method.arguments)
      type == DescriptorParser(getNextChar(ps.pos).pos)
      next(q, m) == LET n == getNextChar(q) IN parseMethod(n.pos, n.char, m)
  IN
  IF c = "end" THEN method
  ELSE IF c # "(" THEN next(p, method)
  ELSE IF ps = Loops THEN Loops
  ELSE IF type = Loops THEN Loops
  ELSE next(type.pos, [method EXCEPT !.arguments = ps.arguments, !.type = type.value])

Init == descriptor \in Descriptors /\ result = None

MethodDescriptorParser ==
  /\ result = None
  /\ result' = parseMethod(1, current(1), [how |-> "ok", arguments |-> <<>>, type |-> NoType])
  /\ UNCHANGED descriptor

Spec == Init /\ [][MethodDescriptorParser]_vars

-----------------------------------------------------------------------------

\* A method descriptor is parsed into the types it was put together from
LegalIsRead ==
  result # None /\ descriptor.legal =>
    result = [how |-> "ok", arguments |-> descriptor.arguments, type |-> descriptor.type]

\* A text with a proper end, whatever comes before
Closed == Len(Text) > 3 /\ SubSeq(Text, Len(Text) - 2, Len(Text)) = <<";", ")", "I">>

\* The parser only loops for the lack of an end: it comes to one in every text
\* that has it, since each step on the way to it moves the scanner
ClosedIsParsed == Closed => result # Loops

=============================================================================
