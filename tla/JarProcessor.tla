---------------------------- MODULE JarProcessor ----------------------------
(***************************************************************************)
(* domain/jar/Processor.cpp: the thread that runs run() reads the entries  *)
(* of a jar one by one into buffers and hands them to a thread pool; at    *)
(* most MaxConcurrentBuffers of them may be outstanding.  A finished task  *)
(* puts its buffer into a set that the reader empties before it reads on.  *)
(***************************************************************************)
EXTENDS Naturals, FiniteSets

CONSTANTS
    EntryCount,     \* entries of the archive, in its order
    MaxConcurrentBuffers,
    Workers,        \* threads of the pool
    Addresses,      \* what the allocator can return
    Null,
    Idle,
    Unreadable,     \* entries for which readAsBinary() returns a null pointer
    Throwing,       \* class entries whose processEntry() throws
    PoolCatches     \* whether the pool swallows an exception or the program dies

Entries == 1..EntryCount

ASSUME JarAssumption ==
    /\ EntryCount \in Nat /\ MaxConcurrentBuffers \in Nat \ {0}
    /\ Null \notin Addresses /\ Idle \notin Entries
    /\ Unreadable \subseteq Entries /\ Throwing \subseteq Entries
    /\ PoolCatches \in BOOLEAN

VARIABLES
    phase,                  \* of the thread in run()
    next,                   \* the entry it reads next
    state,                  \* of each entry
    buffer,                 \* its buffer, once read
    inProgressBufferCount,  \* _inProgressBufferCount
    running                 \* what each worker is at

vars == <<phase, next, state, buffer, inProgressBufferCount, running>>

In(states) == {e \in Entries : state[e] \in states}

(* A buffer is allocated from the moment it is read until it is deleted.   *)
Held == In({"queued", "running", "finished", "lost"})
Live == {buffer[e] : e \in Held} \ {Null}
finishedBuffers == {buffer[e] : e \in In({"finished"})}

TypeOK ==
    /\ phase \in {"start", "waiting", "asleep", "reading", "joining", "done", "terminated"}
    /\ next \in 1..(EntryCount + 1)
    /\ state \in [Entries -> {"unread", "queued", "running", "finished", "lost", "freed"}]
    /\ buffer \in [Entries -> Addresses \cup {Null}]
    /\ inProgressBufferCount \in 0..MaxConcurrentBuffers
    /\ running \in [Workers -> Entries \cup {Idle}]

Init ==
    /\ phase = "start"
    /\ next = 1
    /\ state = [e \in Entries |-> "unread"]
    /\ buffer = [e \in Entries |-> Null]
    /\ inProgressBufferCount = 0
    /\ running = [w \in Workers |-> Idle]

(* _task.start() says whether there is anything to do.                     *)
start ==
    /\ phase = "start"
    /\ phase' \in {"done", IF EntryCount = 0 THEN "joining" ELSE "waiting"}
    /\ UNCHANGED <<next, state, buffer, inProgressBufferCount, running>>

(* The predicate of _jarCv.wait(): delete the finished buffers, then go on *)
(* or sleep.  Equal pointers are one element of _finishedBuffers.          *)
waitOneMore_Bug ==
    /\ phase = "waiting"
    /\ inProgressBufferCount' = inProgressBufferCount - Cardinality(finishedBuffers)
    /\ state' = [e \in Entries |-> IF state[e] = "finished" THEN "freed" ELSE state[e]]
    /\ phase' = IF inProgressBufferCount' <= MaxConcurrentBuffers THEN "reading" ELSE "asleep"
    /\ UNCHANGED <<next, buffer, running>>

waitForAvailableBuffer ==
    /\ phase = "waiting"
    /\ inProgressBufferCount' = inProgressBufferCount - Cardinality(finishedBuffers)
    /\ state' = [e \in Entries |-> IF state[e] = "finished" THEN "freed" ELSE state[e]]
    /\ phase' = IF inProgressBufferCount' < MaxConcurrentBuffers THEN "reading" ELSE "asleep"
    /\ UNCHANGED <<next, buffer, running>>

readEntry ==
    /\ phase = "reading"
    /\ \E b \in (IF next \in Unreadable THEN {Null} ELSE Addresses \ Live) :
          buffer' = [buffer EXCEPT ![next] = b]
    /\ inProgressBufferCount' = inProgressBufferCount + 1
    /\ state' = [state EXCEPT ![next] = "queued"]
    /\ next' = next + 1
    /\ phase' = IF next = EntryCount THEN "joining" ELSE "waiting"
    /\ UNCHANGED running

(* The pool runs the tasks in the order they were detached.                *)
takeReports_Bug(w) ==
    /\ phase # "terminated" /\ running[w] = Idle
    /\ \E e \in In({"queued"}) :
          /\ running' = [running EXCEPT ![w] = e]
          /\ state' = [state EXCEPT ![e] = "finished"]
    /\ UNCHANGED <<phase, next, buffer, inProgressBufferCount>>

take(w) ==
    /\ phase # "terminated" /\ running[w] = Idle
    /\ \E e \in In({"queued"}) :
          /\ \A f \in In({"queued"}) : e <= f
          /\ running' = [running EXCEPT ![w] = e]
          /\ state' = [state EXCEPT ![e] = "running"]
    /\ UNCHANGED <<phase, next, buffer, inProgressBufferCount>>

(* processEntry() for a class entry; then the buffer is reported finished  *)
(* and a sleeping reader woken, both under _jarMutex.                      *)
finishUnnotified_Bug(w) ==
    /\ phase # "terminated" /\ running[w] \in Entries \ Throwing
    /\ running' = [running EXCEPT ![w] = Idle]
    /\ state' = [state EXCEPT ![running[w]] = "finished"]
    /\ UNCHANGED <<phase, next, buffer, inProgressBufferCount>>

finish(w) ==
    /\ phase # "terminated" /\ running[w] \in Entries \ Throwing
    /\ running' = [running EXCEPT ![w] = Idle]
    /\ state' = [state EXCEPT ![running[w]] = "finished"]
    /\ phase' = IF phase = "asleep" THEN "waiting" ELSE phase
    /\ UNCHANGED <<next, buffer, inProgressBufferCount>>

(* An exception leaves the task before it can report its buffer.           *)
throw(w) ==
    /\ phase # "terminated" /\ running[w] \in Throwing
    /\ IF PoolCatches
       THEN /\ running' = [running EXCEPT ![w] = Idle]
            /\ state' = [state EXCEPT ![running[w]] = "lost"]
            /\ UNCHANGED phase
       ELSE phase' = "terminated" /\ UNCHANGED <<running, state>>
    /\ UNCHANGED <<next, buffer, inProgressBufferCount>>

(* _threadPool.wait(), then _task.end().                                   *)
join ==
    /\ phase = "joining" /\ In({"queued", "running"}) = {}
    /\ phase' = "done"
    /\ UNCHANGED <<next, state, buffer, inProgressBufferCount, running>>

reader == start \/ waitForAvailableBuffer \/ readEntry \/ join
worker(w) == take(w) \/ finish(w) \/ throw(w)

Next == reader \/ \E w \in Workers : worker(w)

(* The threads of the pool and the one in run() are scheduled fairly.      *)
Fairness == WF_vars(reader) /\ \A w \in Workers : WF_vars(worker(w))

Spec == Init /\ [][Next]_vars /\ Fairness

-----------------------------------------------------------------------------
(* The memory bound the class is there for: never more than                *)
(* MaxConcurrentBuffers buffers exist, those of lost tasks included.       *)
BufferBound == Cardinality(Live) <= MaxConcurrentBuffers

(* No task works on a buffer that was deleted or that another entry has:   *)
(* the reader deletes only what is in _finishedBuffers, and the allocator  *)
(* may give the same address out again right after.                        *)
BuffersInUse ==
    /\ \A w \in Workers : running[w] # Idle => running[w] \in In({"running"})
    /\ \A e, f \in Held : e # f /\ buffer[e] = buffer[f] => buffer[e] = Null

(* A slot is given back for every task that ends, except that a throwing   *)
(* task keeps its slot, and null pointers that are in _finishedBuffers at  *)
(* the same time give back one slot between them.  Null pointers alone     *)
(* never use up the last slot: one of those that meet gives its slot back. *)
Losable ==
    Cardinality(Throwing)
    + (LET nulls == Cardinality(Unreadable \ Throwing) IN IF nulls = 0 THEN 0 ELSE nulls - 1)

SlotsSuffice == Throwing = {} \/ Losable < MaxConcurrentBuffers

(* The reader never sleeps in waitForAvailableBuffer() with no task left   *)
(* to wake it, unless as many slots can get lost as there are.             *)
SleepsOnlyWithoutSlots ==
    SlotsSuffice => ~(phase = "asleep" /\ In({"queued", "running"}) = {})

(* While fewer slots than there are can get lost, run() comes to its end   *)
(* (or dies of an exception that the pool lets through).                   *)
Ends ==
    SlotsSuffice => <>(phase \in IF PoolCatches THEN {"done"} ELSE {"done", "terminated"})
=============================================================================
