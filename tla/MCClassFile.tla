----------------------------- MODULE MCClassFile -----------------------------
(***************************************************************************)
(* What tarracsh does with one class file, for TLC: reading it (ClassFile),*)
(* the parsers of signatures, descriptors and attributes, its digest, and  *)
(* comparing it with another one (Cfdiff).  A behaviour is of one of them, *)
(* its scenario; the variables of the others are Unused in it.             *)
(***************************************************************************)
EXTENDS Integers, Sequences

CONSTANTS Scenarios, Broken, Unused

VARIABLES
  scenario, result,
  layout, size, position, bytesRead, agenda, got, pool, status,
  owner, input,
  descriptor,
  kind, info, rest, end, lookups,
  class,
  left, right, phase, differenceCount, names, name, leftMethods, rightMap, failed

-----------------------------------------------------------------------------
\* Class files, whole and truncated: 1 and 5 are tags of constants with one and
\* with two numbers, 2 is one that is skipped, 99 is none
SomeLayouts ==
  [constants : {<<>>, <<1>>, <<5>>, <<5, 1>>, <<1, 5, 5>>, <<1, 99, 1>>, <<2, 1>>},
   interfaces : 0 .. 2,
   fields : {<<>>, <<<<>>>>, <<<<2>>, <<>>>>},
   methods : {<<>>, <<<<1, 0>>>>, <<<<>>, <<3>>>>},
   attributes : {<<>>, <<0>>, <<2, 1>>}]

Memory == INSTANCE ClassFile WITH Reader <- "memory", Layouts <- SomeLayouts, Garbage <- {0, 1}

File == INSTANCE ClassFile WITH Reader <- "file", Layouts <- SomeLayouts, Garbage <- {0, 1}

\* Signatures that follow the grammar, and all short sequences
SignatureForms == INSTANCE SignatureInputs WITH MaxLength <- 4

LegalSignature == INSTANCE Signature WITH Signatures <- SignatureForms!LegalSignatures

ShortSignature == INSTANCE Signature WITH Signatures <- SignatureForms!ShortSignatures

\* The same of method descriptors
DescriptorForms == INSTANCE DescriptorInputs WITH MaxLength <- 5, MaxArguments <- 3

LegalDescriptor == INSTANCE Descriptor WITH Descriptors <- DescriptorForms!LegalDescriptors

ShortDescriptor == INSTANCE Descriptor WITH Descriptors <- DescriptorForms!ShortDescriptors

\* Attributes without type annotations on type arguments and without class
\* constants as arguments of bootstrap methods
AttributeForms == INSTANCE AttributesInputs WITH TypeArguments <- FALSE, ClassArguments <- FALSE

Attribute == INSTANCE Attributes
  WITH Infos <- AttributeForms!SomeInfos, Pool <- AttributeForms!SomePool

\* All descriptors of methods begin with the same character, those of fields
\* need not
Methods == INSTANCE ClassFileDigest
  WITH Names <- {"A"}, Descriptors <- {<<"(", "A">>, <<"(", "A", "A">>}, Interfaces <- {},
       Kinds <- {"methods"}, MaxMembers <- 2

Fields == INSTANCE ClassFileDigest
  WITH Names <- {"A", "B"}, Descriptors <- {<<"A">>, <<"A", "A">>, <<"B">>},
       Interfaces <- {<<"A">>, <<"A", "A">>}, Kinds <- {"fields"}, MaxMembers <- 1

\* cfdiff of public parts, and of all parts but the name of the class
ClassForms == INSTANCE CfdiffInputs WITH Overloads <- TRUE, Attributes <- TRUE

Public == INSTANCE Cfdiff
  WITH Classes <- ClassForms!SmallClasses, ignoreClassname <- FALSE, publicOnly <- TRUE,
       ignoredAttributes <- {"Extra"}

All == INSTANCE Cfdiff
  WITH Classes <- ClassForms!SmallClasses, ignoreClassname <- TRUE, publicOnly <- FALSE,
       ignoredAttributes <- {}

ASSUME Methods!ClassAssumption /\ Fields!ClassAssumption

-----------------------------------------------------------------------------
fileVars == <<layout, size, position, bytesRead, agenda, got, pool, status>>
signatureVars == <<owner, input>>
attributeVars == <<kind, info, rest, end, lookups>>
diffVars == <<left, right, phase, differenceCount, names, name, leftMethods, rightMap, failed>>

vars == <<scenario, result, fileVars, signatureVars, descriptor, attributeVars, class, diffVars>>

NoFile ==
  /\ layout = Unused /\ size = Unused /\ position = Unused /\ bytesRead = Unused
  /\ agenda = Unused /\ got = Unused /\ pool = Unused /\ status = Unused

NoAttribute == kind = Unused /\ info = Unused /\ rest = Unused /\ end = Unused /\ lookups = Unused

NoDiff ==
  /\ left = Unused /\ right = Unused /\ phase = Unused /\ differenceCount = Unused
  /\ names = Unused /\ name = Unused /\ leftMethods = Unused /\ rightMap = Unused
  /\ failed = Unused

NoSignature == owner = Unused /\ input = Unused

Init ==
  /\ scenario \in Scenarios
  /\ \/ scenario = "memory" /\ Memory!Init
     \/ scenario = "file" /\ File!Init
     \/ scenario \notin {"memory", "file"} /\ NoFile
  /\ \/ scenario = "legal signature" /\ LegalSignature!Init /\ descriptor = Unused
     \/ scenario = "short signature" /\ ShortSignature!Init /\ descriptor = Unused
     \/ scenario = "legal descriptor" /\ LegalDescriptor!Init /\ NoSignature
     \/ scenario = "short descriptor" /\ ShortDescriptor!Init /\ NoSignature
     \/ /\ scenario \in {"memory", "file", "attribute", "methods", "fields", "public", "all"}
        /\ result = Unused /\ descriptor = Unused /\ NoSignature
  /\ \/ scenario = "attribute" /\ Attribute!Init
     \/ scenario # "attribute" /\ NoAttribute
  /\ \/ scenario = "methods" /\ Methods!Init
     \/ scenario = "fields" /\ Fields!Init
     \/ scenario \notin {"methods", "fields"} /\ class = Unused
  /\ \/ scenario = "public" /\ Public!Init
     \/ scenario = "all" /\ All!Init
     \/ scenario \notin {"public", "all"} /\ NoDiff

Read(s, A) ==
  /\ scenario = s /\ A
  /\ UNCHANGED <<scenario, result, signatureVars, descriptor, attributeVars, class, diffVars>>

ParseSignature(s, A) ==
  /\ scenario = s /\ A
  /\ UNCHANGED <<scenario, fileVars, descriptor, attributeVars, class, diffVars>>

ParseDescriptor(s, A) ==
  /\ scenario = s /\ A
  /\ UNCHANGED <<scenario, fileVars, signatureVars, attributeVars, class, diffVars>>

ShowAttribute(A) ==
  /\ scenario = "attribute" /\ A
  /\ UNCHANGED <<scenario, result, fileVars, signatureVars, descriptor, class, diffVars>>

EditClass(s, A) ==
  /\ scenario = s /\ A
  /\ UNCHANGED <<scenario, result, fileVars, signatureVars, descriptor, attributeVars, diffVars>>

Compare(s, A) ==
  /\ scenario = s /\ A
  /\ UNCHANGED <<scenario, result, fileVars, signatureVars, descriptor, attributeVars, class>>

\* Parsing a class file stops only with its status, parsing a signature, a
\* descriptor or an attribute with a result; a comparison with its output or in
\* undefined behaviour
Ended ==
  /\ \/ scenario \in {"memory", "file"} /\ status # "parsing"
     \/ scenario \in {"legal signature", "short signature"} /\ result # LegalSignature!None
     \/ scenario \in {"legal descriptor", "short descriptor"} /\ result # LegalDescriptor!None
     \/ scenario = "attribute" /\ end # -1
     \/ scenario \in {"public", "all"} /\ phase \in {"done", "undefined"}
  /\ UNCHANGED vars

Next ==
  \/ Read("memory", Memory!Next) \/ Read("file", File!Next)
  \/ ParseSignature("legal signature", LegalSignature!Next)
  \/ ParseSignature("short signature", ShortSignature!Next)
  \/ ParseDescriptor("legal descriptor", LegalDescriptor!MethodDescriptorParser)
  \/ ParseDescriptor("short descriptor", ShortDescriptor!MethodDescriptorParser)
  \/ ShowAttribute(Attribute!toString)
  \/ EditClass("methods", Methods!Next) \/ EditClass("fields", Fields!Next)
  \/ Compare("public", Public!Next) \/ Compare("all", All!Next)
  \/ Ended

Spec == Init /\ [][Next]_vars

-----------------------------------------------------------------------------
\* What a successful parse of a class file got is what was written, however its
\* constants are numbered, and walking its pool visits the constants there are
ParsedIsWritten ==
  /\ scenario = "memory" => Memory!ParsedIsWritten /\ Memory!WalkVisitsAll
  /\ scenario = "file" => File!ParsedIsWritten /\ File!WalkVisitsAll

\* What follows the class-file format is understood: a class that is as it should
\* be is parsed, a signature to its end, a method descriptor into the types it was
\* put together from, an attribute to its last byte and no further, with lookups
\* of constants of the kind they are taken for
FormatIsRead ==
  /\ scenario = "memory" => Memory!WholeIsParsed
  /\ scenario = "legal signature" => LegalSignature!LegalIsParsed
  /\ scenario = "legal descriptor" => LegalDescriptor!LegalIsRead
  /\ scenario = "attribute" => Attribute!ReadsItsBytes /\ Attribute!LookupsFit

\* What does not follow it comes to an end as well: a truncated class in a jar
\* fails, of the loops over a signature only those over formal type parameters may
\* go on for ever, and a descriptor that is closed is parsed whatever is in it
OtherInputEnds ==
  /\ scenario = "memory" => Memory!TruncatedFails
  /\ scenario = "short signature" => ShortSignature!OnlyFormalsLoop
  /\ scenario = "short descriptor" => ShortDescriptor!ClosedIsParsed

\* cfdiff reports no difference of classes that have none, and only of those, if
\* their pools number the constants they mention alike, and apart from what only
\* the left class has
DiffIsExact ==
  /\ scenario = "public" => Public!SameIsSilent /\ Public!SilentIsSame
  /\ scenario = "all" => All!SameIsSilent /\ All!SilentIsSame

ShowsVisibleEdit ==
  /\ scenario = "methods" => Methods!ShowsVisibleEdit
  /\ scenario = "fields" => Fields!ShowsVisibleEdit

\* ClassFileDigest!DigestShowsVisibleEdits: an edit of a class that other classes
\* do not see leaves its digest as it is, one that they see changes it, as long as
\* the constants keep their numbers and what is hashed tells the classes apart
DigestShowsVisibleEdits == [][ShowsVisibleEdit]_vars

Distinguishes == scenario = "methods" => Methods!Distinguishes

\* ClassFileDigest!DistinguishesDifferentClasses: different classes have
\* different digests, also when they differ in the parameters of a method
DistinguishesDifferentClasses == [][Distinguishes]_vars

=============================================================================
