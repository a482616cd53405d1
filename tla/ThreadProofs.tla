---------------------------- MODULE ThreadProofs ----------------------------
(***************************************************************************)
(* Proofs about two parts with threads and condition variables, each on    *)
(* its own: the memory bound of domain/jar/Processor.cpp and when its      *)
(* reader can sleep for good, for every number of workers, entries and     *)
(* slots; and the digest server's shutdown and lock, for every number of   *)
(* servers, clients and starts.                                            *)
(***************************************************************************)
EXTENDS JarProcessor, DigestServer, FiniteSetTheorems, TLAPS

-----------------------------------------------------------------------------
(* The inductive invariant *)

\* The reader takes the entries in order, and stops behind the last
ReadInv ==
  /\ phase \in {"waiting", "asleep", "reading"} => next <= EntryCount
  /\ phase = "start" => next = 1
  /\ \A e \in Entries: state[e] = "unread" <=> next <= e

\* Only a throwing task loses its buffer, and only an unreadable entry has none
KindInv ==
  \A e \in Entries:
    /\ state[e] = "lost" => e \in Throwing
    /\ state[e] \in {"finished", "freed"} => e \notin Throwing
    /\ state[e] # "unread" /\ buffer[e] = Null => e \in Unreadable

\* Besides BuffersInUse: no two workers are at the same entry
WorkInv ==
  /\ BuffersInUse
  /\ \A v, w \in Workers: running[v] = running[w] /\ running[v] # Idle => v = w

\* The entries a slot is counted for: all that hold a buffer, and of the entries
\* without a buffer that are over some, but never all
FreedNulls == {e \in In({"freed"}): buffer[e] = Null}

Counted(S) ==
  /\ Held \subseteq S /\ S \subseteq Held \cup FreedNulls
  /\ FreedNulls # {} => \E e \in FreedNulls: e \notin S
  /\ inProgressBufferCount = Cardinality(S)

SlotInv ==
  /\ \E S \in SUBSET Entries: Counted(S)
  /\ phase = "reading" => inProgressBufferCount < MaxConcurrentBuffers
  /\ phase = "asleep" => /\ inProgressBufferCount >= MaxConcurrentBuffers
                         /\ In({"finished"}) = {}

\* Without throwing tasks the reader sleeps only while a task is under way
WakeInv ==
  Throwing = {} =>
    /\ phase = "asleep" => In({"queued", "running"}) # {}
    /\ phase = "waiting" => \/ inProgressBufferCount < MaxConcurrentBuffers
                            \/ In({"queued", "running", "finished"}) # {}

Inv == TypeOK /\ ReadInv /\ KindInv /\ WorkInv /\ SlotInv /\ WakeInv

-----------------------------------------------------------------------------
LEMMA EntriesFinite == \A S \in SUBSET Entries: IsFiniteSet(S) /\ Cardinality(S) \in Nat
<1>1. IsFiniteSet(Entries)
  BY FS_Interval, JarAssumption DEF Entries
<1> QED
  BY <1>1, FS_Subset, FS_CardinalityType

LEMMA InitInv == Init => Inv
<1> SUFFICES ASSUME Init PROVE Inv
  OBVIOUS
<1> USE JarAssumption
<1>1. Held = {} /\ FreedNulls = {}
  BY DEF Init, Held, FreedNulls, In
<1>2. Counted({})
  BY <1>1, FS_EmptySet DEF Init, Counted
<1>3. TypeOK
  BY DEF Init, TypeOK, Entries
<1>4. ReadInv /\ KindInv
  BY DEF Init, ReadInv, KindInv, Entries
<1>5. WorkInv
  BY <1>1 DEF Init, WorkInv, BuffersInUse
<1>6. SlotInv /\ WakeInv
  BY <1>2 DEF Init, SlotInv, WakeInv
<1> QED
  BY <1>3, <1>4, <1>5, <1>6 DEF Inv

-----------------------------------------------------------------------------
(* Slots: a buffer that is deleted gives back exactly one of them *)

\* _finishedBuffers has one element for each finished entry with a buffer, and
\* one for all those without
LEMMA Representatives ==
  ASSUME TypeOK, WorkInv
  PROVE  \E R \in SUBSET In({"finished"}):
           /\ Cardinality(R) = Cardinality(finishedBuffers)
           /\ \A e \in In({"finished"}) \ R: buffer[e] = Null
           /\ (\E e \in In({"finished"}): buffer[e] = Null)
              => \E e \in R: buffer[e] = Null
<1> DEFINE F == In({"finished"})
           one == CHOOSE e \in F: buffer[e] = Null
           R == {e \in F: buffer[e] = Null => e = one}
           f == [e \in R |-> buffer[e]]
<1>1. F \subseteq Held /\ F \subseteq Entries /\ R \subseteq F
  BY DEF In, Held
<1>2. (\E e \in F: buffer[e] = Null) => one \in F /\ buffer[one] = Null
  OBVIOUS
<1>3. \A e \in F: \E r \in R: buffer[r] = buffer[e]
  BY <1>2
<1>4. \A e, d \in R: buffer[e] = buffer[d] => e = d
  BY Zenon, <1>1 DEF WorkInv, BuffersInUse
<1> HIDE DEF R
<1>5. f \in Surjection(R, finishedBuffers)
  BY <1>1, <1>3 DEF Surjection, finishedBuffers
<1>6. f \in Injection(R, finishedBuffers)
  BY <1>1, <1>4 DEF Injection, IsInjective, finishedBuffers
<1>7. Cardinality(R) = Cardinality(finishedBuffers)
  BY <1>1, <1>5, <1>6, EntriesFinite, FS_Surjection
<1> QED
  BY <1>1, <1>2, <1>7 DEF R

-----------------------------------------------------------------------------
(* The steps of the reader *)

LEMMA WaitInv ==
  ASSUME Inv, waitForAvailableBuffer
  PROVE  Inv'
<1> USE JarAssumption
<1> DEFINE F == In({"finished"})
<1>1. PICK R \in SUBSET F:
        /\ Cardinality(R) = Cardinality(finishedBuffers)
        /\ \A e \in F \ R: buffer[e] = Null
        /\ (\E e \in F: buffer[e] = Null) => \E e \in R: buffer[e] = Null
  BY Representatives DEF Inv
<1>2. PICK S \in SUBSET Entries: Counted(S)
  BY DEF Inv, SlotInv
<1>3. /\ Held' = Held \ F
      /\ FreedNulls' = FreedNulls \cup {e \in F: buffer[e] = Null}
      /\ In({"finished"})' = {}
      /\ In({"queued", "running"})' = In({"queued", "running"})
  BY DEF waitForAvailableBuffer, Held, FreedNulls, In, Inv, TypeOK
<1>4. F \subseteq Held /\ F \subseteq Entries /\ Held \cap FreedNulls = {}
  BY DEF Held, FreedNulls, In
<1>5. Cardinality(S \ R) = Cardinality(S) - Cardinality(R)
  <2>1. S \cap R = R
    BY <1>1, <1>2, <1>4 DEF Counted
  <2> QED
    BY Zenon, <2>1, <1>2, EntriesFinite, FS_Difference
<1>6. inProgressBufferCount' = Cardinality(S \ R) /\ Cardinality(S \ R) \in Nat
  BY <1>1, <1>2, <1>5, EntriesFinite DEF Counted, waitForAvailableBuffer
<1>7. Counted(S \ R)'
  <2>1. Held' \subseteq S \ R
    BY <1>1, <1>2, <1>3 DEF Counted
  <2>2. S \ R \subseteq Held' \cup FreedNulls'
    BY <1>1, <1>2, <1>3 DEF Counted
  <2>3. FreedNulls' # {} => \E e \in FreedNulls': e \notin S \ R
    BY <1>1, <1>2, <1>3 DEF Counted
  <2> QED
    BY <2>1, <2>2, <2>3, <1>6 DEF Counted
<1>8. Cardinality(R) \in Nat /\ (Cardinality(R) = 0 => F = {})
  <2>1. IsFiniteSet(R) /\ Cardinality(R) \in Nat
    BY <1>4, EntriesFinite
  <2>2. R = {} => F = {}
    BY <1>1
  <2> QED
    BY <2>1, <2>2, FS_EmptySet
<1>9. TypeOK'
  <2>1. inProgressBufferCount' \in 0..MaxConcurrentBuffers
    BY <1>1, <1>2, <1>5, <1>6, <1>8, EntriesFinite DEF Counted, Inv, TypeOK
  <2> QED
    BY <2>1 DEF waitForAvailableBuffer, Inv, TypeOK
<1>10. ReadInv' /\ KindInv'
  BY DEF waitForAvailableBuffer, Inv, TypeOK, ReadInv, KindInv
<1>11. WorkInv'
  BY <1>3 DEF waitForAvailableBuffer, Inv, TypeOK, WorkInv, BuffersInUse, In
<1>12. SlotInv'
  <2>1. \E T \in SUBSET Entries: Counted(T)'
    BY <1>2, <1>7
  <2>2. phase' = "reading" => inProgressBufferCount' < MaxConcurrentBuffers
    BY DEF waitForAvailableBuffer
  <2>3. phase' = "asleep" => inProgressBufferCount' >= MaxConcurrentBuffers
    BY <1>9 DEF waitForAvailableBuffer, TypeOK
  <2> QED
    BY <2>1, <2>2, <2>3, <1>3 DEF SlotInv
<1>13. WakeInv'
  <2>1. inProgressBufferCount' = inProgressBufferCount - Cardinality(R)
    BY <1>1 DEF waitForAvailableBuffer
  <2>2. phase' = "asleep" => F = {} /\ inProgressBufferCount >= MaxConcurrentBuffers
    BY <2>1, <1>8, <1>9 DEF waitForAvailableBuffer, Inv, TypeOK
  <2>3. phase' = "asleep" /\ Throwing = {} => In({"queued", "running", "finished"}) # {}
    BY <2>2 DEF waitForAvailableBuffer, Inv, TypeOK, WakeInv
  <2>4. phase' = "asleep" /\ Throwing = {} => In({"queued", "running"}) # {}
    BY <2>2, <2>3 DEF In
  <2> QED
    BY <2>4, <1>3 DEF waitForAvailableBuffer, WakeInv
<1> QED
  BY <1>9, <1>10, <1>11, <1>12, <1>13 DEF Inv

LEMMA ReadEntryInv ==
  ASSUME Inv, readEntry
  PROVE  Inv'
<1> USE JarAssumption
<1>1. next \in Entries /\ state[next] = "unread" /\ next \in Nat
  BY DEF readEntry, Inv, TypeOK, ReadInv, Entries
<1>2. PICK b \in (IF next \in Unreadable THEN {Null} ELSE Addresses \ Live):
        buffer' = [buffer EXCEPT ![next] = b]
  BY Zenon DEF readEntry
<1>3. PICK S \in SUBSET Entries: Counted(S)
  BY DEF Inv, SlotInv
<1>4. next \notin Held /\ next \notin FreedNulls /\ next \notin S
  BY <1>1, <1>3 DEF Held, FreedNulls, In, Counted
<1>5. Held' = Held \cup {next} /\ FreedNulls' = FreedNulls
  BY <1>1, <1>2 DEF readEntry, Held, FreedNulls, In, Inv, TypeOK
<1>6. PICK T \in SUBSET Entries: T = S \cup {next}
  BY Zenon, <1>1, <1>3
<1>7. Counted(T)'
  <2>1. Cardinality(T) = Cardinality(S) + 1
    BY <1>3, <1>4, <1>6, EntriesFinite, FS_AddElement
  <2>2. inProgressBufferCount' = Cardinality(T)
    BY <2>1, <1>3 DEF readEntry, Counted
  <2> QED
    BY <2>2, <1>3, <1>4, <1>5, <1>6 DEF Counted
<1>8. TypeOK'
  BY <1>1, <1>2 DEF readEntry, Inv, TypeOK, ReadInv, SlotInv, Entries
<1>9. ReadInv'
  BY <1>1 DEF readEntry, Inv, TypeOK, ReadInv, Entries
<1>10. KindInv'
  BY <1>1, <1>2 DEF readEntry, Inv, TypeOK, KindInv
<1>11. WorkInv'
  <2>1. \A e \in Held: e # next /\ e \in Entries /\ (b # Null => buffer[e] # b)
    BY <1>1, <1>2, <1>4 DEF Live, Held, In
  <2>2. \A e, f \in Held': e # f /\ buffer'[e] = buffer'[f] => buffer'[e] = Null
    BY <2>1, <1>1, <1>2, <1>5 DEF Inv, TypeOK, WorkInv, BuffersInUse
  <2>3. \A w \in Workers: running'[w] # Idle => running'[w] \in In({"running"})'
    BY <1>1 DEF readEntry, Inv, TypeOK, WorkInv, BuffersInUse, In
  <2> QED
    BY <2>2, <2>3 DEF readEntry, Inv, WorkInv, BuffersInUse
<1>12. SlotInv'
  <2>1. phase' \in {"joining", "waiting"}
    BY DEF readEntry
  <2> QED
    BY <2>1, <1>7 DEF SlotInv
<1>13. WakeInv'
  <2>1. next \in In({"queued", "running", "finished"})'
    BY <1>1 DEF readEntry, Inv, TypeOK, In
  <2> QED
    BY <2>1 DEF readEntry, WakeInv
<1> QED
  BY <1>8, <1>9, <1>10, <1>11, <1>12, <1>13 DEF Inv

LEMMA StartJoinInv ==
  ASSUME Inv, start \/ join
  PROVE  Inv'
<1> USE JarAssumption
<1>1. Held' = Held /\ FreedNulls' = FreedNulls /\ In({"running"})' = In({"running"})
  BY DEF start, join, Held, FreedNulls, In
<1>2. TypeOK' /\ ReadInv' /\ KindInv'
  BY DEF start, join, Inv, TypeOK, ReadInv, KindInv, Entries
<1>3. WorkInv'
  BY <1>1 DEF start, join, Inv, WorkInv, BuffersInUse
<1>4. \A S: Counted(S) => Counted(S)'
  BY <1>1 DEF Counted, start, join
<1>5. SlotInv'
  BY <1>4 DEF start, join, Inv, SlotInv
<1>6. phase = "start" => inProgressBufferCount = 0
  <2> HAVE phase = "start"
  <2>1. \A e \in Entries: state[e] = "unread"
    BY DEF Inv, TypeOK, ReadInv, Entries
  <2>2. Held = {} /\ FreedNulls = {}
    BY <2>1 DEF Held, FreedNulls, In
  <2> QED
    BY <2>2, FS_EmptySet DEF Inv, SlotInv, Counted
<1>7. WakeInv'
  BY <1>6 DEF start, join, WakeInv, Inv, TypeOK
<1> QED
  BY <1>2, <1>3, <1>5, <1>7 DEF Inv

-----------------------------------------------------------------------------
(* The steps of the workers: a task keeps its slot until the reader sees its end *)

LEMMA WorkerSlots ==
  ASSUME Inv,
         NEW w \in Workers, worker(w)
  PROVE  /\ Held' = Held /\ FreedNulls' = FreedNulls
         /\ \A S: Counted(S) => Counted(S)'
<1>1. running[w] # Idle => running[w] \in Entries /\ state[running[w]] = "running"
  BY DEF Inv, TypeOK, WorkInv, BuffersInUse, In
<1>2. CASE take(w)
  <2>1. Held' = Held /\ FreedNulls' = FreedNulls
    BY <1>2 DEF take, Held, FreedNulls, In, Inv, TypeOK
  <2> QED
    BY <1>2, <2>1 DEF take, Counted
<1>3. CASE finish(w)
  <2>1. Held' = Held /\ FreedNulls' = FreedNulls
    BY <1>1, <1>3, JarAssumption DEF finish, Held, FreedNulls, In, Inv, TypeOK
  <2> QED
    BY <1>3, <2>1 DEF finish, Counted
<1>4. CASE throw(w)
  <2>1. Held' = Held /\ FreedNulls' = FreedNulls
    BY <1>1, <1>4, JarAssumption DEF throw, Held, FreedNulls, In, Inv, TypeOK
  <2> QED
    BY <1>4, <2>1 DEF throw, Counted
<1> QED
  BY <1>2, <1>3, <1>4 DEF worker

LEMMA TakeInv ==
  ASSUME Inv,
         NEW w \in Workers, take(w)
  PROVE  Inv'
<1> USE JarAssumption
<1>1. PICK e \in In({"queued"}):
        /\ running' = [running EXCEPT ![w] = e]
        /\ state' = [state EXCEPT ![e] = "running"]
  BY Zenon DEF take
<1>2. e \in Entries /\ state[e] = "queued" /\ e # Idle
  BY <1>1 DEF In
<1>3. Held' = Held /\ \A S: Counted(S) => Counted(S)'
  BY WorkerSlots DEF worker
<1>4. TypeOK' /\ ReadInv' /\ KindInv'
  BY <1>1, <1>2 DEF take, Inv, TypeOK, ReadInv, KindInv
<1>5. \A v \in Workers: running[v] # Idle => running[v] # e /\ state[running[v]] = "running"
  BY <1>2 DEF Inv, WorkInv, BuffersInUse, In
<1>6. WorkInv'
  BY <1>1, <1>2, <1>3, <1>5 DEF take, Inv, TypeOK, WorkInv, BuffersInUse, In
<1>7. In({"finished"})' = In({"finished"}) /\ e \in In({"queued", "running"})'
                                           /\ e \in In({"queued", "running", "finished"})'
  BY <1>1, <1>2 DEF In, Inv, TypeOK
<1>8. SlotInv' /\ WakeInv'
  BY <1>3, <1>7 DEF take, Inv, SlotInv, WakeInv
<1> QED
  BY <1>4, <1>6, <1>8 DEF Inv

LEMMA FinishInv ==
  ASSUME Inv,
         NEW w \in Workers, finish(w)
  PROVE  Inv'
<1> USE JarAssumption
<1> DEFINE e == running[w]
<1>1. e \in Entries /\ e \notin Throwing /\ state[e] = "running" /\ e # Idle
  BY DEF finish, Inv, WorkInv, BuffersInUse, In
<1>2. Held' = Held /\ \A S: Counted(S) => Counted(S)'
  BY WorkerSlots DEF worker
<1>3. TypeOK' /\ ReadInv' /\ KindInv'
  BY <1>1 DEF finish, Inv, TypeOK, ReadInv, KindInv
<1>4. WorkInv'
  BY <1>1, <1>2 DEF finish, Inv, TypeOK, WorkInv, BuffersInUse, In
<1>5. In({"queued", "running", "finished"})' # {}
  BY <1>1 DEF finish, Inv, TypeOK, In
<1>6. phase' # "asleep"
  BY DEF finish
<1>7. SlotInv' /\ WakeInv'
  BY <1>2, <1>5, <1>6 DEF finish, Inv, SlotInv, WakeInv
<1> QED
  BY <1>3, <1>4, <1>7 DEF Inv

LEMMA ThrowInv ==
  ASSUME Inv,
         NEW w \in Workers, throw(w)
  PROVE  Inv'
<1> USE JarAssumption
<1> DEFINE e == running[w]
<1>1. e \in Entries /\ e \in Throwing /\ state[e] = "running" /\ e # Idle
  BY DEF throw, Inv, WorkInv, BuffersInUse, In
<1>2. Held' = Held /\ \A S: Counted(S) => Counted(S)'
  BY WorkerSlots DEF worker
<1>3. TypeOK' /\ ReadInv' /\ KindInv'
  BY <1>1 DEF throw, Inv, TypeOK, ReadInv, KindInv
<1>4. WorkInv'
  BY <1>1, <1>2 DEF throw, Inv, TypeOK, WorkInv, BuffersInUse, In
<1>5. In({"finished"})' = In({"finished"})
  BY <1>1 DEF throw, Inv, TypeOK, In
<1>6. SlotInv' /\ WakeInv'
  BY <1>1, <1>2, <1>5 DEF throw, Inv, SlotInv, WakeInv
<1> QED
  BY <1>3, <1>4, <1>6 DEF Inv

LEMMA Invariance == Spec => []Inv
<1>1. ASSUME Inv, [Next]_vars PROVE Inv'
  <2>1. CASE UNCHANGED vars
    BY <1>1, <2>1
    DEF vars, Inv, TypeOK, ReadInv, KindInv, WorkInv, BuffersInUse, SlotInv, WakeInv, Counted,
        FreedNulls, Held, In
  <2>2. CASE reader
    BY <1>1, <2>2, StartJoinInv, WaitInv, ReadEntryInv DEF reader
  <2>3. CASE \E w \in Workers: worker(w)
    BY <1>1, <2>3, TakeInv, FinishInv, ThrowInv DEF worker
  <2> QED
    BY <1>1, <2>1, <2>2, <2>3 DEF Next
<1> QED
  BY <1>1, InitInv, PTL DEF Spec

-----------------------------------------------------------------------------
(* The results *)

\* At most MaxConcurrentBuffers buffers exist at any time, whatever the tasks do
\* and however many threads the pool has: each has a slot of its own
THEOREM MemoryIsBounded == Spec => []BufferBound
<1>1. Inv => BufferBound
  <2> SUFFICES ASSUME Inv PROVE BufferBound
    OBVIOUS
  <2> DEFINE all == {buffer[e]: e \in Held}
             f == [e \in Held |-> buffer[e]]
  <2>1. PICK S \in SUBSET Entries: Counted(S)
    BY DEF Inv, SlotInv
  <2>2. Cardinality(Held) <= Cardinality(S) /\ IsFiniteSet(Held) /\ Cardinality(Held) \in Nat
    <3>1. Held \in SUBSET S /\ Held \in SUBSET Entries
      BY <2>1 DEF Counted
    <3> QED
      BY <3>1, EntriesFinite, FS_Subset
  <2>3. f \in Surjection(Held, all)
    BY DEF Surjection
  <2>4. IsFiniteSet(all) /\ Cardinality(all) <= Cardinality(Held) /\ Cardinality(all) \in Nat
    BY <2>2, <2>3, FS_Surjection, FS_CardinalityType
  <2>5. Cardinality(Live) <= Cardinality(all) /\ Cardinality(Live) \in Nat
    <3>1. Live \in SUBSET all
      BY DEF Live
    <3> HIDE DEF all
    <3> QED
      BY <3>1, <2>4, FS_Subset, FS_CardinalityType
  <2>6. Cardinality(S) <= MaxConcurrentBuffers /\ Cardinality(S) \in Nat
    BY <2>1, EntriesFinite, JarAssumption DEF Inv, TypeOK, Counted
  <2> QED
    BY <2>2, <2>4, <2>5, <2>6, JarAssumption DEF BufferBound
<1> QED
  BY <1>1, Invariance, PTL

\* No worker reads a buffer that the reader deleted or that another entry has
THEOREM BuffersAreOwned == Spec => []BuffersInUse
<1>1. Inv => BuffersInUse
  BY DEF Inv, WorkInv
<1> QED
  BY <1>1, Invariance, PTL

\* While fewer slots than there are can get lost, a sleeping reader has a task
\* that will wake it
THEOREM SleeperIsWoken == Spec => []SleepsOnlyWithoutSlots
<1>1. Inv => SleepsOnlyWithoutSlots
  <2> SUFFICES ASSUME Inv, phase = "asleep", In({"queued", "running"}) = {}, SlotsSuffice
               PROVE  FALSE
    BY DEF SleepsOnlyWithoutSlots
  <2> USE JarAssumption
  <2>1. Losable < MaxConcurrentBuffers
    BY DEF Inv, WakeInv, SlotsSuffice
  <2>2. PICK S \in SUBSET Entries: Counted(S)
    BY DEF Inv, SlotInv
  <2> DEFINE N == Unreadable \ Throwing
  <2>3. FreedNulls \subseteq N
    BY DEF FreedNulls, In, Inv, KindInv
  <2>4. S \ FreedNulls \subseteq Throwing
    <3>1. \A e \in Held: state[e] = "lost"
      BY DEF Held, In, Inv, SlotInv
    <3> QED
      BY <3>1, <2>2 DEF Counted, Held, In, Inv, KindInv
  <2>5. S \subseteq Throwing \cup N
    BY <2>3, <2>4
  <2>6. N # {} => \E e \in N: e \notin S
    <3>1. CASE FreedNulls = {}
      BY <3>1, <2>4
    <3>2. CASE FreedNulls # {}
      BY <3>2, <2>2, <2>3 DEF Counted
    <3> QED
      BY <3>1, <3>2
  <2>7. /\ IsFiniteSet(Throwing) /\ Cardinality(Throwing) \in Nat
        /\ IsFiniteSet(N) /\ Cardinality(N) \in Nat
        /\ IsFiniteSet(S) /\ Cardinality(S) \in Nat
    BY EntriesFinite
  <2>8. Cardinality(S) <= Losable
    <3>1. CASE N = {}
      <4>1. S \in SUBSET Throwing
        BY <3>1, <2>5
      <4>2. Cardinality(N) = 0
        BY <3>1, FS_EmptySet
      <4> QED
        BY <4>1, <4>2, <2>7, FS_Subset DEF Losable
    <3>2. CASE N # {}
      <4>1. PICK e \in N: e \notin S
        BY <3>2, <2>6
      <4>2. Cardinality(N \ {e}) = Cardinality(N) - 1 /\ IsFiniteSet(N \ {e})
        BY Zenon, <2>7, <4>1, FS_RemoveElement
      <4>3. Cardinality(N) # 0
        BY <3>2, <2>7, FS_EmptySet
      <4>4. Throwing \cap (N \ {e}) = {}
        OBVIOUS
      <4>5. /\ IsFiniteSet(Throwing \cup (N \ {e}))
            /\ Cardinality(Throwing \cup (N \ {e})) = Cardinality(Throwing) + Cardinality(N) - 1
        <5> DEFINE M == N \ {e}
        <5>1. /\ IsFiniteSet(Throwing \cup M)
              /\ Cardinality(Throwing \cup M)
                 = Cardinality(Throwing) + Cardinality(M) - Cardinality(Throwing \cap M)
          <6> HIDE DEF M
          <6> QED BY Zenon, <2>7, <4>2, FS_Union DEF M
        <5>2. Cardinality(Throwing \cap M) = 0
          BY <4>4, FS_EmptySet
        <5> QED
          BY <2>7, <4>2, <5>1, <5>2
      <4>6. S \in SUBSET (Throwing \cup (N \ {e}))
        BY <2>5, <4>1
      <4>7. Cardinality(S) <= Cardinality(Throwing) + Cardinality(N) - 1
        BY <4>5, <4>6, FS_Subset
      <4> QED
        BY <2>7, <4>3, <4>7 DEF Losable
    <3> QED
      BY <3>1, <3>2
  <2>9. Cardinality(S) >= MaxConcurrentBuffers
    BY <2>2 DEF Inv, SlotInv, Counted
  <2>10. Losable \in Int
    BY <2>7 DEF Losable
  <2> QED
    BY <2>1, <2>7, <2>8, <2>9, <2>10
<1> QED
  BY <1>1, Invariance, PTL

-----------------------------------------------------------------------------
(* The inductive invariant *)

PCs == Holding \cup Dead \cup {"open", "destroy", "join"}

Call == [server: Servers \cup {"none"}, state: {"none", "diff", "quit", "notify"}]

TypeInv ==
  /\ pc \in [Servers -> PCs]
  /\ name \in Nat /\ created \in Nat /\ locked \subseteq Nat
  /\ mutex \in [Servers -> Nat]
  /\ quickReceived \in [Servers -> BOOLEAN]
  /\ calls \in [Clients -> Call]
  /\ saver \in [Servers -> {"none", "waiting", "tested", "writing", "ended"}]
  /\ stopRequested \in [Servers -> BOOLEAN]
  /\ lateSaves \in [Servers -> Nat]

\* Calls run only in a server that listens, or that waits for them to end
CallsInv ==
  \A c \in Clients: calls[c].server # "none"
                   => pc[calls[c].server] \in Listening \cup {"shutdown"}

\* Once the database is stopped its save thread was told to end; it has begun no save
\* since, or one, and then it will not get past its test again
SaverInv ==
  \A s \in Servers:
    /\ Stopped(s) => stopRequested[s]
    /\ lateSaves[s] \in {0, 1}
    /\ lateSaves[s] = 1 => stopRequested[s] /\ saver[s] # "tested"

\* A server that got past try_lock has its mutex locked, and no other has it
MutexInv ==
  /\ \A s \in Servers: pc[s] \in Holding => mutex[s] \in locked
  /\ OneServerPerMutex

ServerInv == TypeInv /\ CallsInv /\ SaverInv /\ MutexInv

-----------------------------------------------------------------------------

LEMMA NoCallIsCall == NoCall \in Call
BY DEF NoCall, Call

LEMMA ServerStarts == ServerInit => ServerInv
BY NoCallIsCall
   DEF ServerInit, ServerInv, Stopped, TypeInv, CallsInv, SaverInv, MutexInv, OneServerPerMutex, PCs, Holding,
       Listening, Dead, NoCall

LEMMA StepType ==
  ASSUME TypeInv, [ServerNext]_serverVars
  PROVE  TypeInv'
<1> USE DEF TypeInv, PCs, Holding, Listening, Dead, saverVars
<1>1. CASE UNCHANGED serverVars BY <1>1 DEF serverVars
<1>2. ASSUME NEW s \in Servers, removeName(s) PROVE TypeInv'
  BY <1>2 DEF removeName, Step
<1>3. ASSUME NEW s \in Servers, openMutex(s) PROVE TypeInv'
  BY <1>3 DEF openMutex, Step
<1>4. ASSUME NEW s \in Servers, initDb(s) PROVE TypeInv'
  BY <1>4 DEF initDb, Step
<1>5. ASSUME NEW s \in Servers, startServer(s) \/ waitForShutDown(s) \/ shutdown(s) PROVE TypeInv'
  BY Zenon, <1>5 DEF startServer, waitForShutDown, shutdown, Step
<1>6. ASSUME NEW s \in Servers, stop(s) \/ unlock(s) \/ destroy(s) PROVE TypeInv'
  BY Zenon, <1>6 DEF stop, unlock, destroy, Step
<1>7. ASSUME NEW s \in Servers, saveThread(s) PROVE TypeInv'
  <2>1. lateSaves' \in [Servers -> Nat] BY <1>7 DEF saveThread
  <2>2. saver' \in [Servers -> {"none", "waiting", "tested", "writing", "ended"}]
    BY <1>7 DEF saveThread
  <2> QED BY Zenon, <1>7, <2>1, <2>2 DEF saveThread
<1>8. ASSUME NEW s \in Servers, Crash(s) PROVE TypeInv'
  <2>1. \A c \in Clients: calls'[c] = IF calls[c].server = s THEN NoCall ELSE calls[c]
    BY <1>8 DEF Crash
  <2>2. calls' \in [Clients -> Call]
    <3>1. calls' = [c \in Clients |-> calls'[c]] BY <1>8 DEF Crash
    <3> QED BY <2>1, <3>1, NoCallIsCall
  <2> QED BY <1>8, <2>2 DEF Crash
<1>9. ASSUME NEW s \in Servers, Again(s) PROVE TypeInv'
  BY <1>9 DEF Again
<1>10. ASSUME NEW c \in Clients, NEW s \in Servers, NEW call \in {"diff", "quit"}, request(c, s, call)
       PROVE  TypeInv'
  BY <1>10 DEF request, Call
<1>11. ASSUME NEW c \in Clients, Diff(c) PROVE TypeInv'
  BY <1>11, NoCallIsCall DEF Diff
<1>12. ASSUME NEW c \in Clients, signalQuick(c) PROVE TypeInv'
  <2>1. calls' \in [Clients -> Call] BY <1>12 DEF signalQuick, Call
  <2> QED BY Zenon, <1>12, <2>1 DEF signalQuick
<1>13. ASSUME NEW c \in Clients, notify(c) PROVE TypeInv'
  BY Zenon, <1>13, NoCallIsCall DEF notify
<1> QED
  BY <1>1, <1>2, <1>3, <1>4, <1>5, <1>6, <1>7, <1>8, <1>9, <1>10, <1>11, <1>12, <1>13
  DEF ServerNext, Main, Handler

LEMMA StepCalls ==
  ASSUME TypeInv, CallsInv, [ServerNext]_serverVars
  PROVE  CallsInv'
<1> USE ServerAssumption DEF TypeInv, CallsInv, Call, Listening
<1>1. CASE UNCHANGED serverVars BY <1>1 DEF serverVars
<1>2. ASSUME NEW s \in Servers,
             removeName(s) \/ openMutex(s) \/ initDb(s) \/ startServer(s) \/ waitForShutDown(s)
      PROVE  CallsInv'
  <2>1. CASE removeName(s) BY <2>1 DEF removeName, Step
  <2>2. CASE openMutex(s) BY <2>2 DEF openMutex, Step
  <2>3. CASE initDb(s) BY <2>3 DEF initDb, Step
  <2>4. CASE startServer(s) BY <2>4 DEF startServer, Step
  <2>5. CASE waitForShutDown(s) BY <2>5 DEF waitForShutDown, Step
  <2> QED BY <1>2, <2>1, <2>2, <2>3, <2>4, <2>5
<1>3. ASSUME NEW s \in Servers, shutdown(s) PROVE CallsInv'
  BY <1>3 DEF shutdown, Step, Running
<1>4. ASSUME NEW s \in Servers, stop(s) \/ unlock(s) \/ destroy(s) PROVE CallsInv'
  <2>1. CASE stop(s) BY <2>1 DEF stop, Step
  <2>2. CASE unlock(s) BY <2>2 DEF unlock, Step
  <2>3. CASE destroy(s) BY <2>3 DEF destroy, Step
  <2> QED BY <1>4, <2>1, <2>2, <2>3
<1>5. ASSUME NEW s \in Servers, saveThread(s) PROVE CallsInv'
  BY <1>5 DEF saveThread
<1>6. ASSUME NEW s \in Servers, Crash(s) PROVE CallsInv'
  BY <1>6 DEF Crash, NoCall
<1>7. ASSUME NEW s \in Servers, Again(s) PROVE CallsInv'
  BY <1>7 DEF Again
<1>8. ASSUME NEW c \in Clients, NEW s \in Servers, NEW call \in {"diff", "quit"}, request(c, s, call)
      PROVE  CallsInv'
  BY <1>8 DEF request
<1>9. ASSUME NEW c \in Clients, Diff(c) \/ signalQuick(c) PROVE CallsInv'
  <2>1. CASE Diff(c) BY <2>1 DEF Diff, NoCall
  <2>2. CASE signalQuick(c) BY <2>2 DEF signalQuick
  <2> QED BY <1>9, <2>1, <2>2
<1>10. ASSUME NEW c \in Clients, notify(c) PROVE CallsInv'
  BY <1>10 DEF notify, NoCall
<1> HIDE DEF TypeInv, CallsInv, Call, Listening
<1> QED
  BY <1>1, <1>2, <1>3, <1>4, <1>5, <1>6, <1>7, <1>8, <1>9, <1>10 DEF ServerNext, Main, Handler

LEMMA StepSaver ==
  ASSUME TypeInv, SaverInv, [ServerNext]_serverVars
  PROVE  SaverInv'
<1> USE DEF TypeInv, SaverInv, saverVars, Stopped
<1>1. CASE UNCHANGED serverVars BY <1>1 DEF serverVars
<1>2. ASSUME NEW s \in Servers, removeName(s) \/ openMutex(s) PROVE SaverInv'
  BY <1>2 DEF removeName, openMutex, Step
<1>3. ASSUME NEW s \in Servers, initDb(s) PROVE SaverInv'
  BY <1>3 DEF initDb, Step
<1>4. ASSUME NEW s \in Servers, startServer(s) \/ waitForShutDown(s) \/ shutdown(s) PROVE SaverInv'
  <2>1. CASE startServer(s) BY <2>1 DEF startServer, Step
  <2>2. CASE waitForShutDown(s) BY <2>2 DEF waitForShutDown, Step
  <2>3. CASE shutdown(s) BY <2>3 DEF shutdown, Step
  <2> QED BY <1>4, <2>1, <2>2, <2>3
<1>5. ASSUME NEW s \in Servers, stop(s) \/ unlock(s) \/ destroy(s) PROVE SaverInv'
  <2>1. CASE stop(s) BY <2>1 DEF stop, Step
  <2>2. CASE unlock(s) BY <2>2 DEF unlock, Step
  <2>3. CASE destroy(s) BY <2>3 DEF destroy, Step
  <2> QED BY <1>5, <2>1, <2>2, <2>3
<1>6. ASSUME NEW s \in Servers, saveThread(s) PROVE SaverInv'
  BY <1>6 DEF saveThread
<1>7. ASSUME NEW s \in Servers, Crash(s) \/ Again(s) PROVE SaverInv'
  BY <1>7 DEF Crash, Again
<1>8. ASSUME NEW c \in Clients, NEW s \in Servers, NEW call \in {"diff", "quit"}, request(c, s, call)
      PROVE  SaverInv'
  BY <1>8 DEF request
<1>9. ASSUME NEW c \in Clients, Handler(c) PROVE SaverInv'
  BY <1>9 DEF Handler, Diff, signalQuick, notify
<1> HIDE DEF TypeInv, SaverInv, saverVars, Stopped
<1> QED
  BY <1>1, <1>2, <1>3, <1>4, <1>5, <1>6, <1>7, <1>8, <1>9 DEF ServerNext, Main

LEMMA StepMutex ==
  ASSUME TypeInv, MutexInv, [ServerNext]_serverVars
  PROVE  MutexInv'
<1> USE DEF TypeInv, MutexInv, OneServerPerMutex, Holding, Listening
<1>1. CASE UNCHANGED serverVars BY <1>1 DEF serverVars
<1>2. ASSUME NEW s \in Servers, removeName(s) PROVE MutexInv'
  BY <1>2 DEF removeName, Step
<1>3. ASSUME NEW s \in Servers, openMutex(s) PROVE MutexInv'
  BY <1>3 DEF openMutex, Step
<1>4. ASSUME NEW s \in Servers, initDb(s) \/ startServer(s) \/ waitForShutDown(s) \/ shutdown(s)
      PROVE  MutexInv'
  BY <1>4 DEF initDb, startServer, waitForShutDown, shutdown, Step
<1>5. ASSUME NEW s \in Servers, stop(s) \/ destroy(s) PROVE MutexInv'
  BY <1>5 DEF stop, destroy, Step
<1>6. ASSUME NEW s \in Servers, unlock(s) PROVE MutexInv'
  BY <1>6 DEF unlock, Step
<1>7. ASSUME NEW s \in Servers, saveThread(s) PROVE MutexInv'
  BY <1>7 DEF saveThread
<1>8. ASSUME NEW s \in Servers, Crash(s) \/ Again(s) PROVE MutexInv'
  BY <1>8 DEF Crash, Again
<1>9. ASSUME NEW c \in Clients, NEW s \in Servers, NEW call \in {"diff", "quit"}, request(c, s, call)
      PROVE  MutexInv'
  BY <1>9 DEF request
<1>10. ASSUME NEW c \in Clients, Handler(c) PROVE MutexInv'
  BY <1>10 DEF Handler, Diff, signalQuick, notify
<1> QED
  BY <1>1, <1>2, <1>3, <1>4, <1>5, <1>6, <1>7, <1>8, <1>9, <1>10 DEF ServerNext, Main

LEMMA ServerInvariance == ServerSpec => []ServerInv
<1>1. ServerInv /\ [ServerNext]_serverVars => ServerInv'
  BY StepType, StepCalls, StepSaver, StepMutex DEF ServerInv
<1> QED BY ServerStarts, <1>1, PTL DEF ServerSpec

-----------------------------------------------------------------------------
(* startServer() waits in Shutdown() until gRPC's handlers have returned,  *)
(* so that none of them is left when the database is stopped and freed.    *)
THEOREM Drained == ServerSpec => []DrainedBeforeStop
<1>1. ServerInv => DrainedBeforeStop
  BY ServerAssumption
  DEF ServerInv, TypeInv, CallsInv, Call, DrainedBeforeStop, Running, Listening
<1> QED BY ServerInvariance, <1>1, PTL

(* The save thread begins one write() at most after Database::stop() has  *)
(* asked it to stop, although it tests its token before each.              *)
THEOREM SavingEnds == ServerSpec => []OneSaveAfterStop
<1>1. ServerInv => OneSaveAfterStop BY DEF ServerInv, SaverInv, OneSaveAfterStop
<1> QED BY ServerInvariance, <1>1, PTL

(* Although start() removes the name of a mutex that a running server may  *)
(* hold, no two servers ever hold the same mutex.                          *)
THEOREM MutexExcludes == ServerSpec => []OneServerPerMutex
<1>1. ServerInv => OneServerPerMutex BY DEF ServerInv, MutexInv
<1> QED BY ServerInvariance, <1>1, PTL
=============================================================================
