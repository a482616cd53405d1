------------------------------ MODULE StringPool ------------------------------
(***************************************************************************)
(* The string pool character by character: offsets, the block that grows,  *)
(* the hash map whose keys point into the block, the file that is          *)
(* rewritten as a whole, and reading it back.                              *)
(*                                                                         *)
(* A key of the hash map that points into a block that realloc() has moved *)
(* is dangling.  Looking up an equal string then reads freed memory: the   *)
(* process dies, or the key still looks equal, or it does not.             *)
(***************************************************************************)
EXTENDS Naturals, Sequences, FiniteSets

CONSTANTS
  Characters,
  Strings,     \* sequences of them that are added; <<>> is ""
  Nul,         \* the character 0
  StartPoolSize,
  MaxBytes,    \* bound on the length of the pool
  MaxCrashes   \* bound on the crashes while the file is written

\* No string is as long as the block at first, which has 500 MB
ASSUME PoolAssumption ==
  /\ StartPoolSize \in Nat /\ MaxBytes \in Nat \ {0} /\ MaxCrashes \in Nat
  /\ Nul \notin Characters /\ "none" \notin Characters \cup {Nul}
  /\ Strings \subseteq Seq(Characters) /\ <<>> \in Strings
  /\ \A s \in Strings: Len(s) < StartPoolSize

VARIABLES
  pool,        \* _pool up to _position
  size,        \* _size
  hash,        \* _hash: string to offset
  dangling,    \* strings whose key points into a block that was moved
  dirty,       \* _isDirty, which write() never resets
  file, writing,
  rows,        \* strings and the offsets that rows store for them
  cut,         \* the file was once torn at this length
  up, crashes

poolVars == <<pool, size, hash, dangling, dirty, file, writing, rows, cut, up, crashes>>

NoFile == <<"none">>

Put(map, s, offset) ==
  [t \in DOMAIN map \cup {s} |-> IF t = s THEN offset ELSE map[t]]

\* The string that starts at an offset (from 0) and ends before the next Nul;
\* memory behind the pool is zero
CString(p, offset) ==
  LET ends == {i \in offset..Len(p): i = Len(p) \/ p[i + 1] = Nul}
      last == CHOOSE i \in ends: \A j \in ends: i <= j
  IN SubSeq(p, offset + 1, last)

PoolInit ==
  /\ pool = <<Nul>>
  /\ size = StartPoolSize
  /\ hash = Put(<<>>, <<>>, 0)
  /\ dangling = {}
  /\ dirty = TRUE
  /\ file = NoFile
  /\ writing = FALSE
  /\ rows = {}
  /\ cut = MaxBytes + 1
  /\ up = TRUE
  /\ crashes = 0

\* reallocPool(): doubled once
needsRealloc(s) == Len(s) + Len(pool) >= size

overwrites_Bug(s) == [i \in 1..(Len(pool) - 1) |-> pool[i]] \o s \o <<Nul>>

\* The string and a Nul behind what is there
appended(s) == pool \o s \o <<Nul>>

\* internalAdd() when the lookup finds nothing
append(s) ==
  LET moved == needsRealloc(s) IN
  /\ Len(pool) + Len(s) + 1 <= MaxBytes
  /\ pool' = appended(s)
  /\ size' = IF moved THEN 2 * size ELSE size
  /\ dangling' = IF moved THEN DOMAIN hash ELSE dangling
  /\ hash' = Put(hash, s, Len(pool))
  /\ dirty' = TRUE
  /\ rows' = rows \cup {<<s, Len(pool)>>}
  /\ UNCHANGED <<up, file, writing, cut, crashes>>

find(s) ==
  /\ rows' = rows \cup {<<s, hash[s]>>}
  /\ UNCHANGED <<pool, size, hash, dangling, dirty, file, writing, cut, up, crashes>>

\* internalAdd(); an empty key is never dereferenced
add(s) ==
  /\ up
  /\ IF s \in DOMAIN hash
       THEN \/ find(s)
            \/ s \in dangling /\ s # <<>> /\ append(s)
       ELSE append(s)

\* Reading freed memory ends the process
fault(s) ==
  /\ up /\ s \in dangling /\ s # <<>> /\ ~writing
  /\ up' = FALSE
  /\ UNCHANGED <<pool, size, hash, dangling, dirty, file, writing, rows, cut, crashes>>

\* write(): the stream empties the file
openFile ==
  /\ up /\ ~writing /\ dirty
  /\ file' = <<>>
  /\ writing' = TRUE
  /\ UNCHANGED <<pool, size, hash, dangling, dirty, rows, cut, up, crashes>>

write ==
  /\ up /\ writing
  /\ file' = pool
  /\ writing' = FALSE
  /\ UNCHANGED <<pool, size, hash, dangling, dirty, rows, cut, up, crashes>>

\* A crash during a write leaves any part of the pool in the file
tear ==
  /\ up /\ writing /\ crashes < MaxCrashes
  /\ \E n \in 0..(Len(pool) - 1):
       /\ file' = SubSeq(pool, 1, n)
       /\ cut' = IF n < cut THEN n ELSE cut
  /\ up' = FALSE
  /\ writing' = FALSE
  /\ crashes' = crashes + 1
  /\ UNCHANGED <<pool, size, hash, dangling, dirty, rows>>

\* The process ends after the write of stop()
exit ==
  /\ up /\ ~writing /\ (dirty => file = pool)
  /\ up' = FALSE
  /\ UNCHANGED <<pool, size, hash, dangling, dirty, file, writing, rows, cut, crashes>>

\* Where the scan of read() finds strings
Starts(p) == {o \in 0..(Len(p) - 1): o = 0 \/ p[o] = Nul}

\* The hash map after the scan; of equal strings the last one stays
scan(p) ==
  [s \in {<<>>} \cup {CString(p, o) : o \in Starts(p)} |->
     LET found == {o \in Starts(p): CString(p, o) = s}
     IN IF found = {} THEN 0 ELSE CHOOSE o \in found: \A q \in found: q <= o]

\* The next process: the constructor adds "", then read() takes the file.
\* Rows keep their offsets (those that were not saved are gone with it).
read ==
  /\ ~up
  /\ up' = TRUE
  /\ dangling' = {}
  /\ IF file = NoFile
       THEN /\ pool' = <<Nul>> /\ size' = StartPoolSize
            /\ hash' = Put(<<>>, <<>>, 0) /\ dirty' = TRUE /\ rows' = {}
       ELSE /\ pool' = file
            /\ size' = IF Len(file) > StartPoolSize THEN Len(file) ELSE StartPoolSize
            /\ hash' = scan(file) /\ dirty' = FALSE
            /\ rows' = {r \in rows: r[2] + Len(r[1]) < Len(file)}
  /\ UNCHANGED <<file, writing, cut, crashes>>

PoolNext ==
  \/ \E s \in Strings: add(s) \/ fault(s)
  \/ openFile \/ write \/ tear \/ exit \/ read

PoolSpec == PoolInit /\ [][PoolNext]_poolVars

-----------------------------------------------------------------------------

Torn == cut <= MaxBytes

\* Every offset that a row stores reads as the row's string, through growth of
\* the block, saves and restarts; where a crash tore the file, the strings that
\* end before the tear still do
OffsetsReadBack ==
  up => \A r \in rows: r[2] + Len(r[1]) < cut => CString(pool, r[2]) = r[1]

\* Nothing is written behind the block: doubling once makes room for any string
\* shorter than the block and its final Nul
WithinBlock == up => Len(pool) <= size

\* Equal strings share one offset, also across restarts, until the block has
\* grown or the file was torn
OneOffsetPerString ==
  ~Torn /\ size = StartPoolSize =>
    \A r, q \in rows: r[1] = q[1] => r[2] = q[2]

\* What rows store for their strings stays good, and nothing is written behind
\* the block (internalAdd(), reallocPool(), write() and read())
PoolReadsBack == OffsetsReadBack /\ WithinBlock /\ OneOffsetPerString

=============================================================================
