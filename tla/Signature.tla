------------------------------ MODULE Signature ------------------------------
(***************************************************************************)
(* The parser of generic signatures (signature/parser/Parser.cpp) and its  *)
(* use by SignatureParser, which parses a signature of the class file,     *)
(* drops the tree and shows the signature as it is, if the parser returns  *)
(* or throws.                                                              *)
(*                                                                         *)
(* A signature is a sequence of characters; "x" is any that means nothing  *)
(* to the parser, "I" any base type.  A parse function takes a position    *)
(* and returns where and how it ends: "ok", "throws", "past" (it has read  *)
(* the terminator as part of a name, and reads on behind it) or "loops"    *)
(* (an iteration of a loop changed nothing, so that the loop has no end).  *)
(***************************************************************************)
EXTENDS Naturals, Sequences

CONSTANTS Signatures   \* owner of a signature to the signatures it is tried with

VARIABLES
  owner,    \* "class", "method" or "field"
  input,    \* _input
  result    \* how parsing ended

vars == <<owner, input, result>>

None == [pos |-> 0, how |-> "none"]

Ok(p) == [pos |-> p, how |-> "ok"]

Throw(p) == [pos |-> p, how |-> "throws"]

\* current() at a position from 0; the terminator follows the characters
current(p) == IF p < Len(input) THEN input[p + 1] ELSE "end"

Then(r, Rest(_)) == IF r.how = "ok" THEN Rest(r.pos) ELSE r

Expect(c, p) == IF current(p) = c THEN Ok(p + 1) ELSE Throw(p)

Delimiters == {";", ".", "$", "/", "[", ":", ">", "<"}

BaseTypes == {"I"}

parseIdentifier(p) ==
  LET ends == {q \in p .. Len(input) - 1: current(q) \in Delimiters}
  IN IF ends = {} THEN [pos |-> Len(input) + 1, how |-> "past"]
     ELSE Ok(CHOOSE q \in ends: \A r \in ends: q <= r)

\* What a loop does with the result of an iteration that began at p
Again(r, p, Loop(_)) ==
  IF r = Ok(p) THEN [pos |-> p, how |-> "loops"] ELSE Then(r, Loop)

RECURSIVE packageNames(_), suffixes(_), parseClassTypeSignature(_), typeArguments(_),
          parseFieldTypeSignature(_, _), parseTypeSignature(_)

\* The loop over package names
packageNames(p) ==
  IF current(p) = "/" THEN Again(parseIdentifier(p + 1), p, packageNames) ELSE Ok(p)

parseTypeArgument(p) ==
  CASE current(p) \in {"+", "-"} -> parseFieldTypeSignature(p + 1, TRUE)
    [] current(p) = "*" -> Ok(p + 1)
    [] OTHER -> parseFieldTypeSignature(p, TRUE)

\* The rest of parseTypeArguments() behind an argument
typeArguments(p) ==
  IF current(p) = ">" THEN Ok(p + 1) ELSE Again(parseTypeArgument(p), p, typeArguments)

\* What may follow the name of a class
classTail(p) ==
  CASE current(p) = "<" -> Then(parseTypeArgument(p + 1), typeArguments)
    [] current(p) \in {";", ".", "$"} -> Ok(p)
    [] OTHER -> Throw(p)

parsePackageNameAndSimpleClassTypeSignature(p) ==
  Then(parseIdentifier(p), LAMBDA q: Then(packageNames(q), classTail))

parseSimpleClassTypeSignature(p) == Then(parseIdentifier(p), classTail)

\* parseClassTypeSignatureSuffix()
suffixes(p) ==
  IF current(p) \in {".", "$"} THEN Again(parseSimpleClassTypeSignature(p + 1), p, suffixes) ELSE Ok(p)

parseClassTypeSignature(p) ==
  Then(Expect("L", p), LAMBDA q:
  Then(parsePackageNameAndSimpleClassTypeSignature(q), LAMBDA r:
  Then(suffixes(r), LAMBDA s: Expect(";", s))))

parseTypeVariableSignature(p) ==
  Then(Expect("T", p), LAMBDA q: Then(parseIdentifier(q), LAMBDA r: Expect(";", r)))

parseFieldTypeSignature(p, allowArrays) ==
  CASE current(p) = "L" -> parseClassTypeSignature(p)
    [] current(p) = "T" -> parseTypeVariableSignature(p)
    [] current(p) = "[" /\ allowArrays -> parseTypeSignature(p + 1)
    [] OTHER -> Throw(p)

parseTypeSignature(p) ==
  IF current(p) \in BaseTypes THEN Ok(p + 1) ELSE parseFieldTypeSignature(p, TRUE)

RECURSIVE interfaceBounds(_), formalTypeParameters(_), parseSuperInterfaces(_),
          parseZeroOrMoreTypeSignatures(_), parseZeroOrMoreThrowsSignatures(_)

interfaceBounds(p) ==
  IF current(p) = ":" THEN Again(parseFieldTypeSignature(p + 1, TRUE), p, interfaceBounds) ELSE Ok(p)

\* A missing bound is only put down in _errors
parseBounds(p) ==
  IF current(p) # ":" THEN Ok(p)
  ELSE IF current(p + 1) = ":" THEN interfaceBounds(p + 1)
  ELSE Then(parseFieldTypeSignature(p + 1, TRUE), interfaceBounds)

parseFormalTypeParameter(p) == Then(parseIdentifier(p), parseBounds)

\* The rest of parseFormalTypeParameters() behind a parameter
formalTypeParameters(p) ==
  IF current(p) = ">" THEN Ok(p + 1)
  ELSE Again(parseFormalTypeParameter(p), p, formalTypeParameters)

parseZeroOrMoreFormalTypeParameters(p) ==
  IF current(p) = "<" THEN Then(parseFormalTypeParameter(p + 1), formalTypeParameters) ELSE Ok(p)

parseSuperInterfaces(p) ==
  IF current(p) = "L" THEN Again(parseClassTypeSignature(p), p, parseSuperInterfaces) ELSE Ok(p)

parseZeroOrMoreTypeSignatures(p) ==
  IF current(p) \in BaseTypes \cup {"L", "T", "["}
  THEN Again(parseTypeSignature(p), p, parseZeroOrMoreTypeSignatures)
  ELSE Ok(p)

parseZeroOrMoreThrowsSignatures(p) ==
  IF current(p) = "^"
  THEN Again(parseFieldTypeSignature(p + 1, FALSE), p, parseZeroOrMoreThrowsSignatures)
  ELSE Ok(p)

parseReturnType(p) == IF current(p) = "V" THEN Ok(p + 1) ELSE parseTypeSignature(p)

parseFormalParameters(p) ==
  Then(Expect("(", p), LAMBDA q: Then(parseZeroOrMoreTypeSignatures(q), LAMBDA r: Expect(")", r)))

parseClassSig ==
  Then(parseZeroOrMoreFormalTypeParameters(0), LAMBDA p:
  Then(parseClassTypeSignature(p), parseSuperInterfaces))

parseMethodSig ==
  Then(parseZeroOrMoreFormalTypeParameters(0), LAMBDA p:
  Then(parseFormalParameters(p), LAMBDA q:
  Then(parseReturnType(q), parseZeroOrMoreThrowsSignatures)))

parseTypeSig == parseTypeSignature(0)

-----------------------------------------------------------------------------

Init ==
  /\ owner \in DOMAIN Signatures
  /\ input \in Signatures[owner]
  /\ result = None

\* SignatureParser::toString() for the owner of the signature
toString(o, parse) ==
  /\ owner = o /\ result = None
  /\ result' = parse
  /\ UNCHANGED <<owner, input>>

Next ==
  \/ toString("class", parseClassSig)
  \/ toString("method", parseMethodSig)
  \/ toString("field", parseTypeSig)

Spec == Init /\ [][Next]_vars

-----------------------------------------------------------------------------

\* A signature that follows the grammar of the class file format is parsed to
\* its end
LegalIsParsed == result # None => result = Ok(Len(input))

\* Whatever the string of the constant pool is, parsing it ends, unless it is
\* in the list of formal type parameters: all other loops make progress
OnlyFormalsLoop == result.how = "loops" => input[1] = "<" /\ owner # "field"

\* Parsing ends, so that the raw string can be shown if it fails
\* (what the repository says, and the code does not do)
FallsBack == result.how # "loops"

=============================================================================
