------------------------------ MODULE ClassFile ------------------------------
(***************************************************************************)
(* ClassFileParser: reading a class file, behind its header, from memory   *)
(* (an entry of a jar) or from a file that may be truncated.               *)
(*                                                                         *)
(* The bytes are a sequence of units, each of which is read at once: a     *)
(* count, the length of an attribute, a constant with its tag, the fixed   *)
(* part of a class or a member (0), a byte of an attribute (0).  `agenda'  *)
(* is what the parser still has to read; reading a count puts more on it.  *)
(***************************************************************************)
EXTENDS Naturals, Sequences, SequencesExt

CONSTANTS
  Reader,      \* "memory" or "file"
  Layouts,     \* the class files: constants, interfaces, and attribute lengths
  Garbage      \* what a read may leave in a variable when the file is at its end

VARIABLES
  layout,      \* the class file as it was written
  size,        \* how many of its units there are
  position,    \* where the reader is
  bytesRead,   \* _bytesRead
  agenda,
  got,         \* what has been read
  pool,        \* _constantPoolIndex without the entry 0
  status       \* "parsing", "succeeded", "failed"

vars == <<layout, size, position, bytesRead, agenda, got, pool, status>>

\* Tags of constants with one number and with two, as JVM_CONSTANT_Utf8 and
\* JVM_CONSTANT_Long; a number without a record
One == 1
Two == 5
Empty == 0

\* JVM_CONSTANT_Empty and JVM_CONSTANT_Unicode, which no class file has: the
\* parser takes a number for them and adds no record
Skipped == {0, 2}

Repeat(n, items) == FlattenSeq([i \in 1 .. n |-> items])

-----------------------------------------------------------------------------
(* What a class file looks like *)

Slots(constants) == Len(constants) + Len(SelectSeq(constants, LAMBDA c: c = Two))

AttributeUnits(lengths) ==
  <<Len(lengths)>> \o FlattenSeq([i \in DOMAIN lengths |-> <<lengths[i]>> \o Repeat(lengths[i], <<0>>)])

MemberUnits(members) ==
  <<Len(members)>> \o FlattenSeq([i \in DOMAIN members |-> <<0>> \o AttributeUnits(members[i])])

Units(l) ==
  <<Slots(l.constants) + 1>> \o l.constants \o <<0, l.interfaces>> \o Repeat(l.interfaces, <<0>>)
    \o MemberUnits(l.fields) \o MemberUnits(l.methods) \o AttributeUnits(l.attributes)

\* The constants at their numbers: one of two slots leaves a number out
RECURSIVE Numbered(_)
Numbered(constants) ==
  IF constants = <<>> THEN <<>>
  ELSE (IF constants[1] = Two THEN <<Two, Empty>> ELSE <<constants[1]>>) \o Numbered(Tail(constants))

-----------------------------------------------------------------------------
(* The readers *)

unchecked_Bug(n) == TRUE

\* readBytes() of a MemoryReader throws at the end, that of a FileReader does not
readBytesOk(n) == Reader = "memory" => position + n <= size

\* readRaw(): only its own bytes are counted
readRawOk == bytesRead + 1 <= size /\ readBytesOk(1)

\* What the variable holds: beyond the end it is not set
Value == IF position < size THEN {Units(layout)[position + 1]} ELSE Garbage

fails ==
  /\ status' = "failed"
  /\ UNCHANGED <<layout, size, position, bytesRead, agenda, got, pool>>

\* The agenda is done with its first item, what follows from it comes first
goOn(more) ==
  /\ agenda' = more \o Tail(agenda)
  /\ status' = IF agenda' = <<>> THEN "succeeded" ELSE "parsing"
  /\ UNCHANGED <<layout, size>>

Take(n) == position' = IF position + n > size THEN size ELSE position + n

-----------------------------------------------------------------------------
(* The parser *)

Item(op) == [op |-> op, n |-> 0]

\* processFile()
processFile ==
  <<Item("poolCount"), Item("main"), Item("interfaces"), Item("fields"), Item("methods"), Item("attributes")>>

\* What is to be read when an item has the value v
Follows(item, v) ==
  CASE item.op = "poolCount"  -> IF v > 1 THEN <<[op |-> "constants", n |-> v - 1]>> ELSE <<>>
    [] item.op = "interfaces" -> Repeat(v, <<Item("interface")>>)
    [] item.op \in {"fields", "methods"} -> Repeat(v, <<Item("member"), Item("attributes")>>)
    [] item.op = "attributes" -> Repeat(v, <<Item("length")>>)
    [] item.op = "length" -> IF v > 0 THEN <<[op |-> "info", n |-> v]>> ELSE <<>>
    [] OTHER -> <<>>

readItem ==
  LET item == Head(agenda) IN
  /\ status = "parsing" /\ item.op \notin {"constants", "info"}
  /\ IF readRawOk
       THEN \E v \in Value:
              /\ Take(1) /\ bytesRead' = bytesRead + 1
              /\ got' = Append(got, v)
              /\ goOn(Follows(item, v))
              /\ UNCHANGED pool
       ELSE fails

noGap_Bug(tag, n) ==
  LET left == IF tag = Two THEN 2 ELSE 1 IN
  /\ pool' = Append(pool, tag)
  /\ goOn(IF n > left THEN <<[op |-> "constants", n |-> n - left]>> ELSE <<>>)

\* A record is added for the tag; long and double take a second number
addRecord(tag, n) ==
  LET left == IF tag = Two THEN 2 ELSE 1 IN
  /\ pool' = pool \o (CASE tag = Two -> <<Two, Empty>> [] tag \in Skipped -> <<>> [] OTHER -> <<tag>>)
  /\ goOn(IF n > left THEN <<[op |-> "constants", n |-> n - left]>> ELSE <<>>)

\* readConstPoolEntry(), with n numbers left; what is no tag makes it throw
readConstPoolEntry ==
  LET item == Head(agenda) IN
  /\ status = "parsing" /\ item.op = "constants"
  /\ IF readRawOk
       THEN \E tag \in Value:
              IF tag \in {One, Two} \cup Skipped
              THEN /\ Take(1) /\ bytesRead' = bytesRead + 1
                   /\ got' = Append(got, tag)
                   /\ addRecord(tag, item.n)
              ELSE fails
       ELSE fails

\* readAttributesSection(): the bytes of an attribute are not counted
readInfo ==
  LET n == Head(agenda).n
      end == IF position + n > size THEN size ELSE position + n
  IN
  /\ status = "parsing" /\ Head(agenda).op = "info"
  /\ IF readBytesOk(n)
       THEN /\ Take(n)
            /\ got' = got \o SubSeq(Units(layout), position + 1, end)
            /\ goOn(<<>>)
            /\ UNCHANGED <<bytesRead, pool>>
       ELSE fails

\* getNextIndex(): the next number that has a record
getNextIndex(index) ==
  CHOOSE j \in index + 1 .. Len(pool) + 1:
    /\ j > Len(pool) \/ pool[j] # Empty
    /\ \A i \in index + 1 .. j - 1: pool[i] = Empty

\* The loop of recordRefs() and of the digest over the pool
RECURSIVE WalkFrom(_)
WalkFrom(index) ==
  IF index > Len(pool) THEN <<>> ELSE <<pool[index]>> \o WalkFrom(getNextIndex(index))

Init ==
  /\ layout \in Layouts
  /\ size \in 0 .. Len(Units(layout))
  /\ position = 0 /\ bytesRead = 0
  /\ agenda = processFile
  /\ got = <<>> /\ pool = <<>>
  /\ status = "parsing"

Next == readItem \/ readConstPoolEntry \/ readInfo

Spec == Init /\ [][Next]_vars

-----------------------------------------------------------------------------

Whole == size = Len(Units(layout))

Bad == \E i \in DOMAIN layout.constants: layout.constants[i] \notin {One, Two} \cup Skipped

\* A class file as compilers write it
Legal == \A i \in DOMAIN layout.constants: layout.constants[i] \in {One, Two}

\* parse() says that it succeeded only if it has read each part of the class
\* file for what it is, and the constants have the numbers by which the rest of
\* the file refers to them
ParsedIsWritten ==
  status = "succeeded" /\ Whole /\ Legal => got = Units(layout) /\ pool = Numbered(layout.constants)

\* Going through the constants by getNextIndex() comes to each of them once
WalkVisitsAll ==
  status = "succeeded" /\ Whole /\ Legal => WalkFrom(1) = layout.constants

\* A class file that lacks its end is not parsed, as the test
\* FailsGracefullyOnTruncatedInput asks for
TruncatedFails == status = "succeeded" => Whole

\* Parsing ends successfully for a class file that is as it should be, and only
\* for such a one
WholeIsParsed == status # "parsing" => (status = "succeeded" <=> Whole /\ ~Bad)

=============================================================================
