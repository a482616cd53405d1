--------------------------- MODULE StringPoolProofs ---------------------------
(***************************************************************************)
(* Proofs about the string pool: offsets that rows store read as their     *)
(* strings, nothing is written behind the block, and equal strings share   *)
(* one offset.                                                             *)
(*                                                                         *)
(* The invariant says of the pool what holds byte by byte: a string that a *)
(* row or the hash map knows is where its offset says, and a Nul follows;  *)
(* the file is a part of the pool from its beginning.  What read() finds   *)
(* when it scans the file is then what was put there, up to the place      *)
(* where the file was torn.                                                *)
(***************************************************************************)
EXTENDS StringPool, SequenceTheorems, WellFoundedInduction, TLAPS

Chars == Characters \cup {Nul}

AllStrings == Seq(Characters)

\* The string is at the offset, and ends there
Holds(p, s, o) ==
  /\ o + Len(s) < Len(p)
  /\ p[o + Len(s) + 1] = Nul
  /\ \A i \in 1..Len(s): p[o + i] = s[i]

Begins(p, q) == Len(p) <= Len(q) /\ \A i \in 1..Len(p): p[i] = q[i]

\* The last string is ended, unless the file was torn before
Ended(p) == cut <= Len(p) \/ (Len(p) > 0 /\ p[Len(p)] = Nul)

TypeInv ==
  /\ pool \in Seq(Chars) /\ Len(pool) <= MaxBytes
  /\ size \in Nat /\ StartPoolSize <= size /\ Len(pool) <= size
  /\ file \in Seq(Chars) \cup {NoFile}
  /\ \A s \in DOMAIN hash: s \in AllStrings /\ hash[s] \in Nat
  /\ \A r \in rows: r[1] \in AllStrings /\ r[2] \in Nat
  /\ cut \in Nat /\ cut <= MaxBytes + 1

FileInv ==
  /\ file # NoFile => Begins(file, pool) /\ (~writing => Ended(file))
  /\ ~up => ~writing

\* "" comes first
BytesInv == Ended(pool) /\ (cut > 0 => Len(pool) > 0 /\ pool[1] = Nul)

\* A string at an offset is within the pool, and there if the tear is behind it
Kept(p, s, o) == o + Len(s) <= Len(p) /\ (o + Len(s) < cut => Holds(p, s, o))

OffsetsInv ==
  /\ <<>> \in DOMAIN hash
  /\ \A s \in DOMAIN hash: Kept(pool, s, hash[s])
  /\ \A r \in rows: Kept(pool, r[1], r[2])

\* Strings in the first block are there once
OnceIn(p) ==
  \A s \in AllStrings: \A o, q \in Starts(p):
    /\ Holds(p, s, o) /\ o + Len(s) < StartPoolSize
    /\ Holds(p, s, q) /\ q + Len(s) < StartPoolSize
    => o = q

OnceInv ==
  ~Torn =>
    /\ \A r \in rows: r[2] \in Starts(pool)
    /\ \A s \in DOMAIN hash: hash[s] \in Starts(pool)
    /\ \A s \in AllStrings: \A o \in Starts(pool): Holds(pool, s, o) => s \in DOMAIN hash
    /\ OnceIn(pool)
    /\ dangling # {} => StartPoolSize <= Len(pool)

Inv == TypeInv /\ FileInv /\ BytesInv /\ OffsetsInv /\ OnceInv

-----------------------------------------------------------------------------
(* Strings in a pool *)

LEMMA Least ==
  ASSUME NEW T \in SUBSET Nat, T # {}
  PROVE  \E x \in T: \A y \in T: x <= y
<1> DEFINE Less == {p \in Nat \X Nat: p[1] < p[2]}
<1>1. IsWellFoundedOn(Less, Nat)
  BY Zenon, NatLessThanWellFounded DEF OpToRel
<1> HIDE DEF Less
<1>2. PICK x \in T: \A y \in T: ~(<<y, x>> \in Less)
  BY Zenon, <1>1, WFMin
<1>3. \A y \in T: <<y, x>> \in Less <=> y < x
  BY DEF Less
<1>4. ASSUME NEW y \in T
      PROVE  x <= y
  <2>1. x \in Nat /\ y \in Nat
    OBVIOUS
  <2>2. ~(y < x)
    BY Zenon, <1>2, <1>3
  <2> QED
    BY <2>1, <2>2
<1> QED
  BY <1>4

LEMMA Greatest ==
  ASSUME NEW n \in Nat, NEW T \in SUBSET (0..n), T # {}
  PROVE  \E x \in T: \A y \in T: y <= x
<1> DEFINE U == {i \in 0..n: n - i \in T}
<1>1. \A i \in T: i \in 0..n /\ n - i \in 0..n /\ n - (n - i) = i
  OBVIOUS
<1>2. U \in SUBSET Nat /\ U # {}
  <2>1. PICK i: i \in T
    OBVIOUS
  <2>2. n - i \in U
    BY <1>1, <2>1
  <2> QED
    BY <2>2
<1>3. PICK x \in U: \A y \in U: x <= y
  BY Zenon, <1>2, Least
<1>4. n - x \in T /\ x \in 0..n
  BY <1>3
<1>5. ASSUME NEW y \in T
      PROVE  y <= n - x
  <2>1. n - y \in U /\ y \in 0..n
    BY <1>1
  <2>2. x <= n - y
    BY Zenon, <1>3, <2>1
  <2> QED
    BY <1>4, <2>1, <2>2
<1> QED
  BY <1>4, <1>5

\* The place where the string at an offset ends
LEMMA EndOfString ==
  ASSUME NEW p \in Seq(Chars), NEW o \in 0..Len(p),
         NEW last \in o..Len(p),
         last = Len(p) \/ p[last + 1] = Nul,
         \A i \in o..(last - 1): p[i + 1] # Nul
  PROVE  CString(p, o) = SubSeq(p, o + 1, last)
<1> DEFINE ends == {i \in o..Len(p): i = Len(p) \/ p[i + 1] = Nul}
<1>1. Len(p) \in Nat
  OBVIOUS
<1>2. last \in ends /\ \A j \in ends: last <= j
  BY <1>1
<1>3. \A i \in ends: (\A j \in ends: i <= j) => i = last
  BY <1>1, <1>2
<1>4. (CHOOSE i \in ends: \A j \in ends: i <= j) = last
  BY <1>2, <1>3
<1> QED
  BY Zenon, <1>4 DEF CString

\* What is read at an offset is what is there, up to the next Nul
LEMMA WhatIsRead ==
  ASSUME NEW p \in Seq(Chars), NEW o \in 0..Len(p)
  PROVE  LET s == CString(p, o) IN
         /\ s \in AllStrings /\ o + Len(s) <= Len(p)
         /\ \A i \in 1..Len(s): p[o + i] = s[i]
         /\ o + Len(s) = Len(p) \/ p[o + Len(s) + 1] = Nul
<1> DEFINE ends == {i \in o..Len(p): i = Len(p) \/ p[i + 1] = Nul}
<1>1. Len(p) \in Nat /\ \A i \in 1..Len(p): p[i] \in Chars
  OBVIOUS
<1>2. Len(p) \in ends /\ ends \in SUBSET Nat
  BY <1>1
<1>3. PICK last \in ends: \A j \in ends: last <= j
  BY Zenon, <1>2, Least
<1>4. /\ last \in o..Len(p) /\ (last = Len(p) \/ p[last + 1] = Nul)
      /\ \A i \in o..(last - 1): p[i + 1] # Nul
  <2>1. last \in o..Len(p) /\ (last = Len(p) \/ p[last + 1] = Nul)
    BY <1>3
  <2>2. ASSUME NEW i \in o..(last - 1), p[i + 1] = Nul
        PROVE  FALSE
    <3>1. i \in ends
      BY <1>1, <2>1, <2>2
    <3> HIDE DEF ends
    <3>2. last <= i
      BY <1>3, <3>1
    <3> QED
      BY <1>1, <2>1, <3>2
  <2> QED
    BY <2>1, <2>2
<1>5. CString(p, o) = SubSeq(p, o + 1, last)
  BY <1>4, EndOfString
<1>6. \A i \in (o + 1)..last: p[i] \in Characters
  <2> TAKE i \in (o + 1)..last
  <2>1. i - 1 \in o..(last - 1) /\ (i - 1) + 1 = i /\ i \in 1..Len(p)
    BY <1>1, <1>4
  <2> QED
    BY <1>1, <1>4, <2>1 DEF Chars
<1>7. o + 1 \in Int /\ last \in Int
  BY <1>1, <1>4
<1>8. /\ SubSeq(p, o + 1, last) \in Seq(Characters)
      /\ Len(SubSeq(p, o + 1, last)) = IF o + 1 <= last THEN last - (o + 1) + 1 ELSE 0
      /\ \A i \in 1..(last - (o + 1) + 1): SubSeq(p, o + 1, last)[i] = p[(o + 1) + i - 1]
  BY <1>6, <1>7, SubSeqProperties
<1>9. Len(CString(p, o)) = last - o
  BY <1>1, <1>4, <1>5, <1>8
<1>10. \A i \in 1..(last - o): CString(p, o)[i] = p[o + i]
  BY <1>1, <1>4, <1>5, <1>8
<1> QED
  BY <1>1, <1>4, <1>5, <1>8, <1>9, <1>10 DEF AllStrings

LEMMA HeldIsRead ==
  ASSUME NEW p \in Seq(Chars), NEW s \in AllStrings, NEW o \in Nat, Holds(p, s, o)
  PROVE  CString(p, o) = s
<1>1. /\ Len(p) \in Nat /\ Len(s) \in Nat /\ \A i \in 1..Len(s): s[i] \in Characters
      /\ \A i \in 1..Len(p): p[i] \in Chars
  BY DEF AllStrings
<1>2. /\ o + Len(s) < Len(p) /\ p[o + Len(s) + 1] = Nul
      /\ \A i \in 1..Len(s): p[o + i] = s[i]
  BY DEF Holds
<1>3. \A i \in o..(o + Len(s) - 1): p[i + 1] # Nul
  <2> TAKE i \in o..(o + Len(s) - 1)
  <2>1. i + 1 - o \in 1..Len(s) /\ o + (i + 1 - o) = i + 1
    BY <1>1
  <2>2. p[i + 1] = s[i + 1 - o]
    BY <1>2, <2>1
  <2> QED
    BY <1>1, <2>1, <2>2, PoolAssumption
<1>4. o \in 0..Len(p) /\ o + Len(s) \in o..Len(p)
  BY <1>1, <1>2
<1>5. CString(p, o) = SubSeq(p, o + 1, o + Len(s))
  BY <1>2, <1>3, <1>4, EndOfString
<1>6. /\ o + 1 \in Int /\ o + Len(s) \in Int
      /\ \A i \in (o + 1)..(o + Len(s)): p[i] \in Chars
  BY <1>1, <1>2
<1>7. /\ SubSeq(p, o + 1, o + Len(s)) \in Seq(Chars)
      /\ Len(SubSeq(p, o + 1, o + Len(s))) = IF o + 1 <= o + Len(s) THEN (o + Len(s)) - (o + 1) + 1 ELSE 0
      /\ \A i \in 1..((o + Len(s)) - (o + 1) + 1): SubSeq(p, o + 1, o + Len(s))[i] = p[(o + 1) + i - 1]
  BY <1>6, SubSeqProperties
<1>8. Len(SubSeq(p, o + 1, o + Len(s))) = Len(s)
  BY <1>1, <1>7
<1>9. \A i \in 1..Len(s): SubSeq(p, o + 1, o + Len(s))[i] = s[i]
  BY <1>1, <1>2, <1>7
<1>10. s \in Seq(Chars)
  BY SeqMonotonic DEF AllStrings, Chars
<1> QED
  BY Zenon, <1>5, <1>7, <1>8, <1>9, <1>10, SeqEqual

\* What a pool holds, the pools that begin with it hold
LEMMA HeldBehind ==
  ASSUME NEW p \in Seq(Chars), NEW q \in Seq(Chars), Begins(p, q),
         NEW s \in AllStrings, NEW o \in Nat
  PROVE  /\ Holds(p, s, o) => Holds(q, s, o)
         /\ Holds(q, s, o) /\ o + Len(s) < Len(p) => Holds(p, s, o)
<1>1. /\ Len(p) \in Nat /\ Len(q) \in Nat /\ Len(s) \in Nat /\ Len(p) <= Len(q)
      /\ \A i \in 1..Len(p): p[i] = q[i]
  BY DEF AllStrings, Begins
<1>2. ASSUME o + Len(s) < Len(p)
      PROVE  /\ p[o + Len(s) + 1] = q[o + Len(s) + 1]
             /\ \A i \in 1..Len(s): p[o + i] = q[o + i]
  <2>1. o + Len(s) + 1 \in 1..Len(p) /\ \A i \in 1..Len(s): o + i \in 1..Len(p)
    BY <1>1, <1>2
  <2> QED
    BY <1>1, <2>1
<1> QED
  BY <1>1, <1>2 DEF Holds

LEMMA StartsBehind ==
  ASSUME NEW p \in Seq(Chars), NEW q \in Seq(Chars), Begins(p, q)
  PROVE  Starts(p) \subseteq Starts(q)
BY DEF Starts, Begins

LEMMA KeptBehind ==
  ASSUME NEW p \in Seq(Chars), NEW q \in Seq(Chars), Begins(p, q), cut \in Nat,
         NEW s \in AllStrings, NEW o \in Nat, Kept(p, s, o)
  PROVE  Kept(q, s, o)
<1>1. Len(p) \in Nat /\ Len(q) \in Nat /\ Len(s) \in Nat /\ Len(p) <= Len(q)
  BY DEF AllStrings, Begins
<1> QED
  BY <1>1, HeldBehind DEF Kept

\* The pool with a string behind it
LEMMA Appended ==
  ASSUME TypeInv, NEW s \in AllStrings
  PROVE  /\ appended(s) \in Seq(Chars) /\ Len(appended(s)) = Len(pool) + Len(s) + 1
         /\ Begins(pool, appended(s)) /\ Holds(appended(s), s, Len(pool))
         /\ appended(s)[Len(appended(s))] = Nul
<1>1. pool \in Seq(Chars) /\ s \in Seq(Chars) /\ <<Nul>> \in Seq(Chars) /\ Len(<<Nul>>) = 1 /\ <<Nul>>[1] = Nul
  BY SeqMonotonic DEF AllStrings, Chars, TypeInv
<1>2. Len(pool) \in Nat /\ Len(s) \in Nat
  BY <1>1
<1>3. /\ pool \o s \in Seq(Chars) /\ Len(pool \o s) = Len(pool) + Len(s)
      /\ \A i \in 1..(Len(pool) + Len(s)): (pool \o s)[i] = IF i <= Len(pool) THEN pool[i] ELSE s[i - Len(pool)]
  BY <1>1, ConcatProperties
<1>4. /\ appended(s) \in Seq(Chars) /\ Len(appended(s)) = Len(pool \o s) + Len(<<Nul>>)
      /\ \A i \in 1..(Len(pool \o s) + Len(<<Nul>>)):
           appended(s)[i] = IF i <= Len(pool \o s) THEN (pool \o s)[i] ELSE <<Nul>>[i - Len(pool \o s)]
  BY <1>1, <1>3, ConcatProperties DEF appended
<1>5. Len(appended(s)) = Len(pool) + Len(s) + 1
  BY <1>1, <1>3, <1>4
<1>6. \A i \in 1..Len(pool): appended(s)[i] = pool[i]
  BY <1>1, <1>2, <1>3, <1>4
<1>7. \A i \in 1..Len(s): appended(s)[Len(pool) + i] = s[i]
  <2> TAKE i \in 1..Len(s)
  <2>1. Len(pool) + i \in 1..(Len(pool) + Len(s)) /\ Len(pool) + i - Len(pool) = i /\ ~(Len(pool) + i <= Len(pool))
    BY <1>2
  <2>2. (pool \o s)[Len(pool) + i] = s[i]
    BY <1>3, <2>1
  <2>3. Len(pool) + i \in 1..(Len(pool \o s) + Len(<<Nul>>)) /\ Len(pool) + i <= Len(pool \o s)
    BY <1>1, <1>2, <1>3, <2>1
  <2> QED
    BY <1>4, <2>2, <2>3
<1>8. appended(s)[Len(pool) + Len(s) + 1] = Nul
  <2> DEFINE n == Len(pool) + Len(s) + 1
  <2>1. /\ n \in 1..(Len(pool \o s) + Len(<<Nul>>)) /\ ~(n <= Len(pool \o s)) /\ n - Len(pool \o s) = 1
    BY <1>1, <1>2, <1>3
  <2> HIDE DEF n
  <2>2. appended(s)[n] = <<Nul>>[1]
    BY <1>4, <2>1
  <2> QED
    BY <1>1, <2>2 DEF n
<1> QED
  BY <1>2, <1>4, <1>5, <1>6, <1>7, <1>8 DEF Begins, Holds

\* The new string is the only one that starts in what is new
LEMMA StartsOfAppended ==
  ASSUME TypeInv, NEW s \in AllStrings, NEW o \in Starts(appended(s))
  PROVE  o \in Starts(pool) \/ o = Len(pool)
<1> DEFINE p == appended(s)
<1>1. /\ p \in Seq(Chars) /\ Len(p) = Len(pool) + Len(s) + 1
      /\ Begins(pool, p) /\ Holds(p, s, Len(pool))
  BY Appended
<1>2. Len(pool) \in Nat /\ Len(s) \in Nat /\ \A i \in 1..Len(s): s[i] \in Characters
  BY DEF TypeInv, AllStrings
<1> HIDE DEF p
<1>3. o \in 0..(Len(p) - 1) /\ (o = 0 \/ p[o] = Nul)
  BY DEF Starts, p
<1>4. ASSUME o > Len(pool)
      PROVE  FALSE
  <2>1. o - Len(pool) \in 1..Len(s) /\ Len(pool) + (o - Len(pool)) = o /\ o # 0
    BY <1>1, <1>2, <1>3, <1>4
  <2>2. p[o] = s[o - Len(pool)]
    BY <1>1, <2>1 DEF Holds
  <2> QED
    BY <1>2, <1>3, <2>1, <2>2, PoolAssumption
<1>5. ASSUME o < Len(pool)
      PROVE  o \in Starts(pool)
  <2>1. o \in 0..(Len(pool) - 1)
    BY <1>2, <1>3, <1>5
  <2>2. o = 0 \/ (o \in 1..Len(pool) /\ pool[o] = p[o])
    BY <1>1, <1>2, <2>1 DEF Begins
  <2> QED
    BY <1>3, <2>1, <2>2 DEF Starts
<1> QED
  BY <1>1, <1>2, <1>3, <1>4, <1>5

\* A string at an offset of a pool that ends with a Nul does not go beyond it
LEMMA HeldBefore ==
  ASSUME NEW p \in Seq(Chars), NEW q \in Seq(Chars), Begins(p, q), NEW o \in 0..(Len(p) - 1),
         p[Len(p)] = Nul, NEW s \in AllStrings, Holds(q, s, o)
  PROVE  Holds(p, s, o)
<1>1. /\ Len(p) \in Nat /\ Len(q) \in Nat /\ Len(s) \in Nat /\ o \in Nat /\ o < Len(p)
      /\ \A i \in 1..Len(s): s[i] \in Characters
  BY DEF AllStrings
<1>2. ASSUME o + Len(s) >= Len(p)
      PROVE  FALSE
  <2>1. Len(p) - o \in 1..Len(s) /\ o + (Len(p) - o) = Len(p) /\ Len(p) \in 1..Len(p)
    BY <1>1, <1>2
  <2>2. q[Len(p)] = s[Len(p) - o]
    BY <2>1 DEF Holds
  <2>3. q[Len(p)] = Nul
    BY <2>1 DEF Begins
  <2> QED
    BY Zenon, <1>1, <2>1, <2>2, <2>3, PoolAssumption
<1>3. o + Len(s) < Len(p)
  BY <1>1, <1>2
<1> QED
  BY <1>1, <1>3, HeldBehind

\* What read() puts into the hash map
LEMMA Scanned ==
  ASSUME NEW p \in Seq(Chars), cut \in Nat, Ended(p), cut > 0 => Len(p) > 0 /\ p[1] = Nul
  PROVE  /\ <<>> \in DOMAIN scan(p)
         /\ \A s \in DOMAIN scan(p): s \in AllStrings /\ scan(p)[s] \in Nat /\ Kept(p, s, scan(p)[s])
         /\ Len(p) > 0 => \A s \in DOMAIN scan(p): scan(p)[s] \in Starts(p)
         /\ \A o \in Starts(p): CString(p, o) \in DOMAIN scan(p)
<1> DEFINE Known == {<<>>} \cup {CString(p, o) : o \in Starts(p)}
           found(s) == {o \in Starts(p): CString(p, o) = s}
           last(s) == CHOOSE o \in found(s): \A q \in found(s): q <= o
<1>1. scan(p) = [s \in Known |-> IF found(s) = {} THEN 0 ELSE last(s)]
  BY Zenon DEF scan
<1>2. Len(p) \in Nat /\ \A o \in Starts(p): o \in 0..Len(p) /\ o < Len(p)
  BY DEF Starts
<1>3. ASSUME NEW s \in Known
      PROVE  /\ s \in AllStrings /\ scan(p)[s] \in Nat /\ Kept(p, s, scan(p)[s])
             /\ Len(p) > 0 => scan(p)[s] \in Starts(p)
  <2>1. CASE found(s) = {}
    <3>1. s = <<>> /\ scan(p)[s] = 0
      BY <1>1, <2>1
    <3>2. <<>> \in AllStrings /\ Len(<<>>) = 0
      BY DEF AllStrings
    <3>3. Kept(p, <<>>, 0)
      BY <1>2, <3>2 DEF Kept, Holds
    <3>4. Len(p) > 0 => 0 \in Starts(p)
      BY <1>2 DEF Starts
    <3> QED
      BY <3>1, <3>2, <3>3, <3>4
  <2>2. CASE found(s) # {}
    <3>1. found(s) \in SUBSET (0..Len(p))
      BY <1>2
    <3>2. \E x \in found(s): \A y \in found(s): y <= x
      BY Zenon, <1>2, <2>2, <3>1, Greatest
    <3>3. last(s) \in found(s)
      BY <3>2
    <3>4. PICK o \in Starts(p): CString(p, o) = s /\ scan(p)[s] = o
      BY <1>1, <2>2, <3>3
    <3>5. o \in 0..Len(p) /\ o < Len(p) /\ o \in Nat
      BY <1>2
    <3>6. /\ s \in AllStrings /\ o + Len(s) <= Len(p)
          /\ \A i \in 1..Len(s): p[o + i] = s[i]
          /\ o + Len(s) = Len(p) \/ p[o + Len(s) + 1] = Nul
      BY <3>4, <3>5, WhatIsRead
    <3>7. ASSUME o + Len(s) = Len(p), o + Len(s) < cut
          PROVE  FALSE
      <4>1. Len(s) \in 1..Len(s) /\ s[Len(s)] \in Characters /\ o + Len(s) = Len(p)
        BY <1>2, <3>5, <3>6, <3>7 DEF AllStrings
      <4>2. s[Len(s)] = p[Len(p)]
        BY <3>6, <4>1
      <4>3. p[Len(p)] = Nul
        BY <1>2, <3>7 DEF Ended
      <4> QED
        BY <4>1, <4>2, <4>3, PoolAssumption
    <3>8. Len(s) \in Nat
      BY <3>6 DEF AllStrings
    <3>9. Kept(p, s, o)
      BY <1>2, <3>5, <3>6, <3>7, <3>8 DEF Kept, Holds
    <3> QED
      BY <3>4, <3>5, <3>6, <3>9
  <2> QED
    BY <2>1, <2>2
<1>4. DOMAIN scan(p) = Known
  BY <1>1
<1> QED
  BY <1>3, <1>4

-----------------------------------------------------------------------------
(* Steps *)

LEMMA PoolStarts == PoolInit => Inv
<1> SUFFICES ASSUME PoolInit
             PROVE  Inv
  OBVIOUS
<1> USE DEF PoolInit
<1>1. pool = <<Nul>> /\ Len(pool) = 1 /\ pool[1] = Nul /\ pool \in Seq(Chars)
  BY DEF Chars
<1>2. DOMAIN hash = {<<>>} /\ hash[<<>>] = 0 /\ <<>> \in AllStrings /\ Len(<<>>) = 0
  BY DEF Put, AllStrings
<1>3. StartPoolSize \in Nat /\ 1 <= StartPoolSize /\ MaxBytes \in Nat /\ 1 <= MaxBytes
  BY <1>2, PoolAssumption
<1>4. TypeInv
  BY <1>1, <1>2, <1>3 DEF TypeInv
<1>5. FileInv /\ BytesInv
  <2>1. FileInv
    BY Zenon DEF FileInv
  <2>2. Ended(pool)
    BY <1>1 DEF Ended
  <2> QED
    BY <1>1, <2>1, <2>2 DEF BytesInv
<1>6. Holds(pool, <<>>, 0)
  BY <1>1, <1>2 DEF Holds
<1>7. OffsetsInv
  BY <1>1, <1>2, <1>6 DEF OffsetsInv, Kept
<1>8. Starts(pool) = {0}
  BY <1>1 DEF Starts
<1>9. \A s \in AllStrings: Holds(pool, s, 0) => s = <<>>
  <2> SUFFICES ASSUME NEW s \in AllStrings, Holds(pool, s, 0)
               PROVE  s = <<>>
    OBVIOUS
  <2>1. CString(pool, 0) = s /\ CString(pool, 0) = <<>>
    BY Zenon, <1>1, <1>2, <1>6, HeldIsRead
  <2> QED
    BY <2>1
<1>10. OnceInv
  BY <1>2, <1>8, <1>9 DEF OnceInv, OnceIn
<1> QED
  BY <1>4, <1>5, <1>7, <1>10 DEF Inv

LEMMA AppendStep ==
  ASSUME Inv, NEW s \in Strings, append(s), up, s \notin DOMAIN hash \/ s \in dangling
  PROVE  Inv'
<1> USE DEF Inv
<1>1. /\ Len(pool) + Len(s) + 1 <= MaxBytes /\ pool' = appended(s)
      /\ size' = (IF needsRealloc(s) THEN 2 * size ELSE size)
      /\ dangling' = (IF needsRealloc(s) THEN DOMAIN hash ELSE dangling)
      /\ hash' = Put(hash, s, Len(pool)) /\ rows' = rows \cup {<<s, Len(pool)>>}
      /\ UNCHANGED <<up, file, writing, cut>>
  BY Zenon DEF append
<1>2. s \in AllStrings /\ Len(s) \in Nat /\ Len(s) < StartPoolSize /\ StartPoolSize \in Nat
  BY PoolAssumption DEF AllStrings
<1>3. /\ pool' \in Seq(Chars) /\ Len(pool') = Len(pool) + Len(s) + 1
      /\ Begins(pool, pool') /\ Holds(pool', s, Len(pool)) /\ pool'[Len(pool')] = Nul
  BY <1>1, <1>2, Appended
<1>4. pool \in Seq(Chars) /\ Len(pool) \in Nat /\ cut \in Nat /\ size \in Nat
  BY DEF TypeInv
<1>5. /\ DOMAIN hash' = DOMAIN hash \cup {s} /\ hash'[s] = Len(pool)
      /\ \A t \in DOMAIN hash: t # s => hash'[t] = hash[t]
  BY <1>1 DEF Put
<1>6. TypeInv'
  <2>1. size' \in Nat /\ StartPoolSize <= size' /\ Len(pool') <= size'
    <3>1. CASE needsRealloc(s)
      BY <3>1, <1>1, <1>2, <1>3, <1>4 DEF TypeInv
    <3>2. CASE ~needsRealloc(s)
      BY <3>2, <1>1, <1>2, <1>3, <1>4 DEF TypeInv, needsRealloc
    <3> QED
      BY <3>1, <3>2
  <2>2. Len(pool') <= MaxBytes
    BY <1>1, <1>3
  <2>3. \A t \in DOMAIN hash': t \in AllStrings /\ hash'[t] \in Nat
    BY <1>2, <1>4, <1>5 DEF TypeInv
  <2>4. \A r \in rows': r[1] \in AllStrings /\ r[2] \in Nat
    BY <1>1, <1>2, <1>4 DEF TypeInv
  <2> QED
    BY <1>1, <1>3, <2>1, <2>2, <2>3, <2>4 DEF TypeInv, AllStrings, Chars
<1>7. FileInv'
  <2>1. ASSUME file # NoFile
        PROVE  Begins(file, pool')
    <3>1. file \in Seq(Chars) /\ Begins(file, pool)
      BY <2>1 DEF TypeInv, FileInv
    <3>2. Len(file) \in Nat
      BY <3>1
    <3> QED
      BY <1>3, <1>4, <3>1, <3>2 DEF Begins
  <2> QED
    BY <1>1, <2>1 DEF FileInv, Ended
<1>8. BytesInv'
  <2>1. Len(pool') > 0
    BY <1>2, <1>3, <1>4
  <2>2. ASSUME cut > 0
        PROVE  pool'[1] = Nul
    BY <1>3, <1>4, <2>2 DEF BytesInv, Begins
  <2> QED
    BY <1>1, <1>3, <2>1, <2>2 DEF BytesInv, Ended
<1>9. OffsetsInv'
  <2>1. Kept(pool', s, Len(pool))
    BY <1>2, <1>3, <1>4 DEF Kept
  <2>2. \A t \in DOMAIN hash: Kept(pool', t, hash[t])
    BY <1>3, <1>4, KeptBehind DEF OffsetsInv, TypeInv
  <2>3. \A r \in rows: Kept(pool', r[1], r[2])
    BY <1>3, <1>4, KeptBehind DEF OffsetsInv, TypeInv
  <2>4. \A t \in DOMAIN hash': Kept(pool', t, hash'[t])
    BY <1>5, <2>1, <2>2
  <2>5. \A r \in rows': Kept(pool', r[1], r[2])
    BY <1>1, <2>1, <2>3
  <2> QED
    BY <1>1, <1>5, <2>4, <2>5 DEF OffsetsInv, Kept
<1>10. OnceInv'
  <2> SUFFICES ASSUME ~Torn
               PROVE  /\ \A r \in rows': r[2] \in Starts(pool')
                      /\ \A t \in DOMAIN hash': hash'[t] \in Starts(pool')
                      /\ \A t \in AllStrings: \A o \in Starts(pool'): Holds(pool', t, o) => t \in DOMAIN hash'
                      /\ OnceIn(pool')
                      /\ dangling' # {} => StartPoolSize <= Len(pool')
    BY <1>1 DEF OnceInv, Torn
  <2>1. Len(pool) > 0 /\ pool[Len(pool)] = Nul
    BY <1>4, PoolAssumption DEF BytesInv, Ended, Torn, TypeInv
  <2>2. Len(pool) \in Starts(pool') /\ Starts(pool) \subseteq Starts(pool')
    <3>1. Len(pool) \in 0..(Len(pool') - 1) /\ Len(pool) \in 1..Len(pool)
      BY <1>2, <1>3, <1>4, <2>1
    <3>2. pool'[Len(pool)] = Nul
      BY <1>3, <2>1, <3>1 DEF Begins
    <3> QED
      BY <1>3, <1>4, <3>1, <3>2, StartsBehind DEF Starts
  <2>3. \A o \in Starts(pool'): o \in Starts(pool) \/ o = Len(pool)
    BY <1>1, <1>2, StartsOfAppended
  <2>4. ASSUME NEW t \in AllStrings, NEW o \in Starts(pool), Holds(pool', t, o)
        PROVE  Holds(pool, t, o)
    BY <1>3, <1>4, <2>1, <2>4, HeldBefore DEF Starts
  <2>5. ASSUME NEW t \in AllStrings, Holds(pool', t, Len(pool))
        PROVE  t = s
    <3>1. CString(pool', Len(pool)) = t /\ CString(pool', Len(pool)) = s
      BY <1>2, <1>3, <1>4, <2>5, HeldIsRead
    <3> QED
      BY <3>1
  <2>6. /\ \A r \in rows: r[2] \in Starts(pool)
        /\ \A t \in DOMAIN hash: hash[t] \in Starts(pool)
        /\ \A t \in AllStrings: \A o \in Starts(pool): Holds(pool, t, o) => t \in DOMAIN hash
        /\ OnceIn(pool)
        /\ dangling # {} => StartPoolSize <= Len(pool)
    BY DEF OnceInv
  <2>7. \A r \in rows': r[2] \in Starts(pool')
    BY <1>1, <2>2, <2>6
  <2>8. \A t \in DOMAIN hash': hash'[t] \in Starts(pool')
    BY <1>5, <2>2, <2>6
  <2>9. \A t \in AllStrings: \A o \in Starts(pool'): Holds(pool', t, o) => t \in DOMAIN hash'
    BY <1>5, <2>3, <2>4, <2>5, <2>6
  <2>10. ASSUME NEW o \in Starts(pool), Holds(pool', s, o), Len(pool) + Len(s) < StartPoolSize
         PROVE  FALSE
    <3>1. s \in DOMAIN hash
      BY <1>2, <2>4, <2>6, <2>10
    <3>2. StartPoolSize <= Len(pool)
      BY <2>6, <3>1
    <3> QED
      BY <1>2, <1>4, <2>10, <3>2
  <2>11. OnceIn(pool')
    BY <1>2, <2>3, <2>4, <2>5, <2>6, <2>10 DEF OnceIn
  <2>12. dangling' # {} => StartPoolSize <= Len(pool')
    <3>1. CASE needsRealloc(s)
      BY <3>1, <1>2, <1>3, <1>4 DEF needsRealloc, TypeInv
    <3>2. CASE ~needsRealloc(s)
      BY <3>2, <1>1, <1>2, <1>3, <1>4, <2>6
    <3> QED
      BY <3>1, <3>2
  <2> QED
    BY <2>7, <2>8, <2>9, <2>11, <2>12
<1> QED
  BY <1>6, <1>7, <1>8, <1>9, <1>10

LEMMA FindStep ==
  ASSUME Inv, NEW s \in DOMAIN hash, find(s)
  PROVE  Inv'
<1> USE DEF Inv
<1>1. /\ rows' = rows \cup {<<s, hash[s]>>}
      /\ UNCHANGED <<pool, size, hash, dangling, file, writing, cut, up>>
  BY DEF find
<1>2. TypeInv' /\ FileInv' /\ BytesInv'
  BY <1>1 DEF TypeInv, FileInv, BytesInv, Ended
<1>3. OffsetsInv'
  BY <1>1 DEF OffsetsInv, Kept
<1>4. OnceInv'
  BY <1>1 DEF OnceInv, Torn
<1> QED
  BY <1>2, <1>3, <1>4

\* Steps that touch neither the pool nor what points into it
LEMMA FileStep ==
  ASSUME Inv, UNCHANGED <<pool, size, hash, dangling, rows>>, cut' \in Nat, cut' <= cut,
         file' \in Seq(Chars) \cup {NoFile}, FileInv'
  PROVE  Inv'
<1> USE DEF Inv
<1>1. cut \in Nat /\ cut <= MaxBytes + 1 /\ MaxBytes \in Nat /\ pool \in Seq(Chars) /\ Len(pool) \in Nat
  BY PoolAssumption DEF TypeInv
<1>2. TypeInv'
  BY <1>1 DEF TypeInv
<1>3. BytesInv'
  BY <1>1 DEF BytesInv, Ended
<1>4. OffsetsInv'
  <2>1. \A s \in AllStrings: \A o \in Nat: Kept(pool, s, o) => Kept(pool, s, o)'
    BY <1>1 DEF Kept, AllStrings
  <2> QED
    BY <2>1 DEF OffsetsInv, TypeInv
<1>5. OnceInv'
  BY <1>1 DEF OnceInv, Torn
<1> QED
  BY <1>2, <1>3, <1>4, <1>5

LEMMA WriteSteps ==
  ASSUME Inv, openFile \/ write \/ exit \/ (\E s \in Strings: fault(s)) \/ UNCHANGED poolVars
  PROVE  Inv'
<1> USE DEF Inv
<1>1. UNCHANGED <<pool, size, hash, dangling, rows, cut>>
  BY DEF openFile, write, exit, fault, poolVars
<1>2. cut' \in Nat /\ cut' <= cut /\ pool \in Seq(Chars) /\ Len(pool) \in Nat
  BY <1>1 DEF TypeInv
<1>3. file' \in Seq(Chars) \cup {NoFile} /\ FileInv'
  <2>1. CASE openFile
    <3>1. file' = <<>> /\ writing' = TRUE /\ up' = up /\ up
      BY <2>1 DEF openFile
    <3>2. <<>> \in Seq(Chars) /\ Len(<<>>) = 0
      OBVIOUS
    <3> QED
      BY <1>1, <1>2, <3>1, <3>2 DEF FileInv, Begins
  <2>2. CASE write
    <3>1. file' = pool /\ writing' = FALSE
      BY <2>2 DEF write
    <3> QED
      BY <1>1, <1>2, <3>1 DEF FileInv, Begins, BytesInv, Ended
  <2>3. CASE exit \/ \E s \in Strings: fault(s)
    <3>1. file' = file /\ writing' = writing /\ ~writing
      BY <2>3 DEF exit, fault
    <3> QED
      BY <1>1, <1>2, <3>1 DEF FileInv, Ended, TypeInv
  <2>4. CASE UNCHANGED poolVars
    BY <2>4 DEF FileInv, Ended, TypeInv, poolVars
  <2> QED
    BY <2>1, <2>2, <2>3, <2>4
<1> QED
  BY <1>1, <1>2, <1>3, FileStep

LEMMA TearStep ==
  ASSUME Inv, tear
  PROVE  Inv'
<1> USE DEF Inv
<1>1. PICK n \in 0..(Len(pool) - 1): file' = SubSeq(pool, 1, n) /\ cut' = (IF n < cut THEN n ELSE cut)
  BY DEF tear
<1>2. UNCHANGED <<pool, size, hash, dangling, rows>> /\ writing' = FALSE
  BY DEF tear
<1>3. pool \in Seq(Chars) /\ Len(pool) \in Nat /\ cut \in Nat /\ n \in Nat /\ n < Len(pool)
  BY <1>1 DEF TypeInv
<1>4. 1 \in Int /\ n \in Int /\ \A i \in 1..n: pool[i] \in Chars
  BY <1>3
<1>5. /\ file' \in Seq(Chars) /\ Len(file') = (IF 1 <= n THEN n - 1 + 1 ELSE 0)
      /\ \A i \in 1..(n - 1 + 1): file'[i] = pool[1 + i - 1]
  BY <1>1, <1>4, SubSeqProperties
<1>6. Len(file') = n /\ \A i \in 1..n: file'[i] = pool[i]
  BY <1>3, <1>5
<1>7. cut' \in Nat /\ cut' <= cut /\ cut' <= n
  BY <1>1, <1>3
<1>8. FileInv'
  BY <1>2, <1>3, <1>6, <1>7 DEF FileInv, Begins, Ended
<1> QED
  BY <1>2, <1>5, <1>7, <1>8, FileStep

LEMMA ReadStep ==
  ASSUME Inv, read
  PROVE  Inv'
<1> USE DEF Inv
<1>1. ~up /\ up' = TRUE /\ dangling' = {} /\ UNCHANGED <<file, writing, cut>>
  BY DEF read
<1>2. CASE file = NoFile
  <2>1. /\ pool' = <<Nul>> /\ size' = StartPoolSize /\ hash' = Put(<<>>, <<>>, 0) /\ rows' = {}
    BY <1>2 DEF read
  <2>2. Len(pool') = 1 /\ pool'[1] = Nul /\ pool' \in Seq(Chars)
    BY <2>1 DEF Chars
  <2>3. DOMAIN hash' = {<<>>} /\ hash'[<<>>] = 0 /\ <<>> \in AllStrings /\ Len(<<>>) = 0
    BY <2>1 DEF Put, AllStrings
  <2>4. StartPoolSize \in Nat /\ 1 <= StartPoolSize /\ MaxBytes \in Nat /\ 1 <= MaxBytes
    BY <2>3, PoolAssumption
  <2>5. TypeInv'
    <3>1. \A s \in DOMAIN hash': s \in AllStrings /\ hash'[s] \in Nat
      BY <2>3
    <3>2. /\ size' \in Nat /\ StartPoolSize <= size' /\ Len(pool') <= size' /\ Len(pool') <= MaxBytes
          /\ rows' = {}
      BY <2>1, <2>2, <2>4
    <3> QED
      BY <1>1, <2>2, <3>1, <3>2 DEF TypeInv, AllStrings, Chars
  <2>6. FileInv' /\ BytesInv'
    BY <1>1, <1>2, <2>2 DEF FileInv, BytesInv, Ended
  <2>7. Holds(pool', <<>>, 0)
    BY <2>2, <2>3 DEF Holds
  <2>8. OffsetsInv'
    BY <2>1, <2>2, <2>3, <2>7 DEF OffsetsInv, Kept
  <2>9. Starts(pool') = {0}
    BY <2>2 DEF Starts
  <2>10. ASSUME NEW s \in AllStrings, Holds(pool', s, 0)
         PROVE  s = <<>>
    <3>1. CString(pool', 0) = s /\ CString(pool', 0) = <<>>
      BY <2>2, <2>3, <2>7, <2>10, HeldIsRead
    <3> QED
      BY <3>1
  <2>11. OnceInv'
    BY <1>1, <2>1, <2>3, <2>9, <2>10 DEF OnceInv, OnceIn, AllStrings
  <2> QED
    BY <2>5, <2>6, <2>8, <2>11
<1>3. CASE file # NoFile
  <2>1. /\ pool' = file /\ hash' = scan(file)
        /\ size' = (IF Len(file) > StartPoolSize THEN Len(file) ELSE StartPoolSize)
        /\ rows' = {r \in rows: r[2] + Len(r[1]) < Len(file)}
    BY <1>3 DEF read
  <2>2. /\ file \in Seq(Chars) /\ pool \in Seq(Chars) /\ Len(file) \in Nat /\ Len(pool) \in Nat
        /\ Begins(file, pool) /\ Ended(file) /\ cut \in Nat
    BY <1>1, <1>3 DEF TypeInv, FileInv
  <2>3. cut > 0 => Len(file) > 0 /\ file[1] = Nul
    BY <2>2 DEF Ended, BytesInv, Begins
  <2>4. /\ <<>> \in DOMAIN hash'
        /\ \A s \in DOMAIN hash': s \in AllStrings /\ hash'[s] \in Nat /\ Kept(file, s, hash'[s])
        /\ Len(file) > 0 => \A s \in DOMAIN hash': hash'[s] \in Starts(file)
        /\ \A o \in Starts(file): CString(file, o) \in DOMAIN hash'
    BY <2>1, <2>2, <2>3, Scanned
  <2>5. TypeInv'
    <3>1. size' \in Nat /\ StartPoolSize <= size' /\ Len(file) <= size'
      BY <2>1, <2>2, PoolAssumption
    <3>2. Len(file) <= MaxBytes
      BY <2>2, PoolAssumption DEF TypeInv, Begins
    <3> QED
      BY <1>1, <2>1, <2>2, <2>4, <3>1, <3>2 DEF TypeInv, AllStrings, Chars
  <2>6. FileInv' /\ BytesInv'
    BY <1>1, <2>1, <2>2, <2>3 DEF FileInv, BytesInv, Ended, Begins
  <2>7. \A r \in rows': Kept(file, r[1], r[2])
    <3> SUFFICES ASSUME NEW r \in rows, r[2] + Len(r[1]) < Len(file)
                 PROVE  Kept(file, r[1], r[2])
      BY <2>1
    <3>1. r[1] \in AllStrings /\ r[2] \in Nat /\ Len(r[1]) \in Nat /\ Kept(pool, r[1], r[2])
      BY DEF TypeInv, OffsetsInv, AllStrings
    <3> QED
      BY <2>2, <3>1, HeldBehind DEF Kept
  <2>8. OffsetsInv'
    BY <1>1, <2>1, <2>4, <2>7 DEF OffsetsInv, Kept
  <2>9. OnceInv'
    <3> SUFFICES ASSUME ~Torn
                 PROVE  /\ \A r \in rows': r[2] \in Starts(file)
                        /\ \A s \in DOMAIN hash': hash'[s] \in Starts(file)
                        /\ \A s \in AllStrings: \A o \in Starts(file): Holds(file, s, o) => s \in DOMAIN hash'
                        /\ OnceIn(file)
      BY <1>1, <2>1 DEF OnceInv, Torn
    <3>1. Len(file) > 0
      BY <2>2, PoolAssumption DEF Ended, Torn, TypeInv, Begins
    <3>2. Starts(file) \subseteq Starts(pool)
      BY <2>2, StartsBehind
    <3>3. \A r \in rows': r[2] \in Starts(file)
      <4> SUFFICES ASSUME NEW r \in rows, r[2] + Len(r[1]) < Len(file)
                   PROVE  r[2] \in Starts(file)
        BY <2>1
      <4>1. r[2] \in Nat /\ Len(r[1]) \in Nat /\ r[2] \in Starts(pool)
        BY DEF TypeInv, OnceInv, AllStrings
      <4>2. r[2] \in 0..(Len(file) - 1) /\ (r[2] = 0 \/ r[2] \in 1..Len(file))
        BY <2>2, <4>1
      <4> QED
        BY <2>2, <4>1, <4>2 DEF Starts, Begins
    <3>4. ASSUME NEW s \in AllStrings, NEW o \in Starts(file), Holds(file, s, o)
          PROVE  s \in DOMAIN hash' /\ Holds(pool, s, o)
      <4>1. o \in Nat
        BY <2>2 DEF Starts
      <4>2. CString(file, o) = s
        BY <2>2, <3>4, <4>1, HeldIsRead
      <4> QED
        BY <2>2, <2>4, <3>4, <4>1, <4>2, HeldBehind
    <3>5. OnceIn(file)
      <4>1. OnceIn(pool)
        BY DEF OnceInv
      <4> QED
        BY <3>2, <3>4, <4>1 DEF OnceIn
    <3> QED
      BY <2>4, <3>1, <3>3, <3>4, <3>5
  <2> QED
    BY <2>5, <2>6, <2>8, <2>9
<1> QED
  BY <1>2, <1>3

LEMMA PoolStep == Inv /\ [PoolNext]_poolVars => Inv'
<1> SUFFICES ASSUME Inv, [PoolNext]_poolVars
             PROVE  Inv'
  OBVIOUS
<1>1. ASSUME NEW s \in Strings, add(s)
      PROVE  Inv'
  <2>1. up /\ ((s \in DOMAIN hash /\ find(s)) \/ (append(s) /\ (s \notin DOMAIN hash \/ s \in dangling)))
    BY Zenon, <1>1 DEF add
  <2>2. CASE s \in DOMAIN hash /\ find(s)
    BY <2>2, FindStep
  <2>3. CASE append(s) /\ (s \notin DOMAIN hash \/ s \in dangling)
    BY <2>1, <2>3, AppendStep
  <2> QED
    BY <2>1, <2>2, <2>3
<1>2. CASE openFile \/ write \/ exit \/ (\E s \in Strings: fault(s)) \/ UNCHANGED poolVars
  BY <1>2, WriteSteps
<1>3. CASE tear
  BY <1>3, TearStep
<1>4. CASE read
  BY <1>4, ReadStep
<1> QED
  BY <1>1, <1>2, <1>3, <1>4 DEF PoolNext

LEMMA PoolInvariance == PoolSpec => []Inv
BY PoolStarts, PoolStep, PTL DEF PoolSpec

-----------------------------------------------------------------------------
(* The theorem *)

\* Whatever strings are added, however often the block grows, and wherever
\* processes end or are killed while they write: offsets read as the strings
\* they were stored for, up to where the file was torn; the block is never
\* overrun; and in the first block a string has one offset (StringPool::add(),
\* reallocPool(), write() and read())
THEOREM PoolIsSound == PoolSpec => []PoolReadsBack
<1>1. Inv => PoolReadsBack
  <2> SUFFICES ASSUME Inv
               PROVE  PoolReadsBack
    OBVIOUS
  <2> USE DEF Inv
  <2>1. OffsetsReadBack
    <3> SUFFICES ASSUME NEW r \in rows, r[2] + Len(r[1]) < cut
                 PROVE  CString(pool, r[2]) = r[1]
      BY DEF OffsetsReadBack
    <3>1. pool \in Seq(Chars) /\ r[1] \in AllStrings /\ r[2] \in Nat /\ Holds(pool, r[1], r[2])
      BY DEF TypeInv, OffsetsInv, Kept
    <3> QED
      BY <3>1, HeldIsRead
  <2>2. WithinBlock
    BY DEF WithinBlock, TypeInv
  <2>3. OneOffsetPerString
    <3> SUFFICES ASSUME ~Torn, size = StartPoolSize, NEW r \in rows, NEW q \in rows, r[1] = q[1]
                 PROVE  r[2] = q[2]
      BY DEF OneOffsetPerString
    <3>1. ASSUME NEW x \in rows
          PROVE  /\ x[1] \in AllStrings /\ x[2] \in Starts(pool)
                 /\ Holds(pool, x[1], x[2]) /\ x[2] + Len(x[1]) < StartPoolSize
      <4>1. x[1] \in AllStrings /\ x[2] \in Nat /\ Len(x[1]) \in Nat /\ Len(pool) \in Nat /\ cut \in Nat
        BY DEF TypeInv, AllStrings
      <4>2. x[2] + Len(x[1]) <= Len(pool) /\ Len(pool) <= MaxBytes /\ MaxBytes < cut /\ MaxBytes \in Nat
        BY <4>1, PoolAssumption DEF TypeInv, OffsetsInv, Kept, Torn
      <4>3. Holds(pool, x[1], x[2])
        BY <4>1, <4>2 DEF OffsetsInv, Kept
      <4>4. x[2] + Len(x[1]) < Len(pool) /\ Len(pool) <= StartPoolSize /\ StartPoolSize \in Nat
        BY <4>3, PoolAssumption DEF Holds, TypeInv
      <4> QED
        BY <4>1, <4>3, <4>4 DEF OnceInv
    <3> QED
      BY <3>1 DEF OnceInv, OnceIn
  <2> QED
    BY <2>1, <2>2, <2>3 DEF PoolReadsBack
<1> QED
  BY <1>1, PoolInvariance, PTL

=============================================================================
