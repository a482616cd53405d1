----------------------------- MODULE DigestServer -----------------------------
(***************************************************************************)
(* The life of digest servers on one machine: ServiceImpl::start() with    *)
(* its named mutex, the quit signal, Diff and Quit calls in flight, and    *)
(* the shutdown of the database with its save thread.                      *)
(*                                                                         *)
(* Threads of a server: the main thread (pc), gRPC's handler threads (the  *)
(* elements of `calls') and the save thread (saver).                       *)
(***************************************************************************)
EXTENDS Naturals, FiniteSets

CONSTANTS
  Servers,      \* processes that run `public-digest server'
  Clients,      \* processes that send Diff and `--stop', one call at a time
  MaxStarts,    \* bound on the starts of all servers
  PortShared    \* whether two servers can listen on one port (SO_REUSEPORT)

ASSUME ServerAssumption ==
  MaxStarts \in Nat /\ PortShared \in BOOLEAN /\ "none" \notin Servers

VARIABLES
  pc,              \* what the main thread of a server does next
  name,            \* the mutex the name stands for, 0 if there is none
  created,         \* mutexes created so far; they are numbered from 1
  locked,          \* mutexes that are locked
  mutex,           \* the mutex a server has opened; before that, the number
                   \* of mutexes there were when it removed the name
  quickReceived,   \* the flag of signalQuick(), static in each process
  calls,           \* the call of a client: its server and its state
  saver,           \* the save thread of a server's database
  stopRequested,   \* request_stop() was called on it
  lateSaves        \* history: the saves it has begun since

serverVars ==
  <<pc, name, created, locked, mutex, quickReceived, calls, saver, stopRequested, lateSaves>>

saverVars == <<saver, stopRequested, lateSaves>>

Listening == {"waiting", "checked", "asleep"}

Dead == {"down", "exited", "refused"}

NoCall == [server |-> "none", state |-> "none"]

ServerInit ==
  /\ pc = [s \in Servers |-> "down"]
  /\ name = 0 /\ created = 0 /\ locked = {}
  /\ mutex = [s \in Servers |-> 0]
  /\ quickReceived = [s \in Servers |-> FALSE]
  /\ calls = [c \in Clients |-> NoCall]
  /\ saver = [s \in Servers |-> "none"]
  /\ stopRequested = [s \in Servers |-> FALSE]
  /\ lateSaves = [s \in Servers |-> 0]

Step(s, from, to) == pc[s] = from /\ pc' = [pc EXCEPT ![s] = to]

\* start(): the name is removed first, whoever may have a mutex with it
removeName(s) ==
  /\ created < MaxStarts
  /\ Step(s, "down", "open")
  /\ name' = 0
  /\ mutex' = [mutex EXCEPT ![s] = created]
  /\ UNCHANGED <<created, locked, quickReceived, calls, saverVars>>

\* start(): open_or_create and try_lock
lockNotTried_Bug(s) ==
  LET fresh == name = 0
      m == IF fresh THEN created + 1 ELSE name
  IN  /\ fresh => created < MaxStarts
      /\ Step(s, "open", "initDb")
      /\ name' = m
      /\ created' = IF fresh THEN m ELSE created
      /\ locked' = locked \cup {m}
      /\ mutex' = [mutex EXCEPT ![s] = m]
      /\ UNCHANGED <<quickReceived, calls, saverVars>>

openMutex(s) ==
  LET fresh == name = 0
      m == IF fresh THEN created + 1 ELSE name
  IN  /\ fresh => created < MaxStarts
      /\ Step(s, "open", IF m \in locked THEN "refused" ELSE "initDb")
      /\ name' = m
      /\ created' = IF fresh THEN m ELSE created
      /\ locked' = locked \cup {m}
      /\ mutex' = [mutex EXCEPT ![s] = m]
      /\ UNCHANGED <<quickReceived, calls, saverVars>>

\* initDb(): the constructor of the database starts the save thread, and then the
\* files are read.  If they cannot be, the database is destroyed, which joins the
\* thread, and there is no server either.
initDb(s) ==
  /\ \/ Step(s, "initDb", "read") /\ saver' = [saver EXCEPT ![s] = "waiting"] /\ UNCHANGED stopRequested
     \/ Step(s, "read", "listen") /\ UNCHANGED <<saver, stopRequested>>
     \/ Step(s, "read", "drop") /\ stopRequested' = [stopRequested EXCEPT ![s] = TRUE] /\ UNCHANGED saver
     \/ saver[s] = "ended" /\ Step(s, "drop", "unlock") /\ UNCHANGED <<saver, stopRequested>>
  /\ UNCHANGED <<name, created, locked, mutex, quickReceived, calls, lateSaves>>

PortFree(s) == PortShared \/ \A t \in Servers \ {s}: pc[t] \notin Listening \cup {"shutdown"}

\* startServer(): BuildAndStart() returns nothing if it cannot listen
startServer(s) ==
  /\ \/ PortFree(s) /\ Step(s, "listen", "waiting")
     \/ Step(s, "listen", "stop")
  /\ UNCHANGED <<name, created, locked, mutex, quickReceived, calls, saverVars>>

\* waitForShutDown(): the predicate is evaluated, and then the thread blocks.
\* It holds its mutex in between, but signalQuick() does not take it.
waitForShutDown(s) ==
  /\ \/ Step(s, "waiting", IF quickReceived[s] THEN "shutdown" ELSE "checked")
     \/ Step(s, "checked", "asleep")
  /\ UNCHANGED <<name, created, locked, mutex, quickReceived, calls, saverVars>>

Running(s) == {c \in Clients: calls[c].server = s}

noDrain_Bug(s) ==
  /\ Step(s, "shutdown", "stop")
  /\ UNCHANGED <<name, created, locked, mutex, quickReceived, calls, saverVars>>

\* startServer(): Shutdown() returns when all calls have
shutdown(s) ==
  /\ Running(s) = {}
  /\ Step(s, "shutdown", "stop")
  /\ UNCHANGED <<name, created, locked, mutex, quickReceived, calls, saverVars>>

noRequest_Bug(s) ==
  /\ Step(s, "stop", "write") \/ Step(s, "write", "unlock")
  /\ UNCHANGED <<name, created, locked, mutex, quickReceived, calls, saverVars>>

\* Database::stop(): request_stop(), then write()
stop(s) ==
  /\ \/ Step(s, "stop", "write") /\ stopRequested' = [stopRequested EXCEPT ![s] = TRUE]
     \/ Step(s, "write", "unlock") /\ UNCHANGED stopRequested
  /\ UNCHANGED <<name, created, locked, mutex, quickReceived, calls, saver, lateSaves>>

\* start(): the mutex is unlocked before the service is destroyed
unlock(s) ==
  /\ Step(s, "unlock", "destroy")
  /\ locked' = locked \ {mutex[s]}
  /\ UNCHANGED <<name, created, mutex, quickReceived, calls, saverVars>>

\* The destructors: the tables of DigestDb, then ~jthread of its base class,
\* which requests the stop and joins.  The process ends.  (What a save does that
\* is under way when the tables are destroyed is undefined: that it fails hard is
\* a Crash, that it never ends is left out.)
destroy(s) ==
  /\ \/ Step(s, "destroy", "join") /\ stopRequested' = [stopRequested EXCEPT ![s] = TRUE]
     \/ saver[s] = "ended" /\ Step(s, "join", "exited") /\ UNCHANGED stopRequested
  /\ UNCHANGED <<name, created, locked, mutex, quickReceived, calls, saver, lateSaves>>

\* The main thread is past request_stop()
Stopped(s) == pc[s] \in {"drop", "write", "unlock", "destroy", "join"}

\* createSaveThread(): every ten seconds the stop token is tested, and then comes
\* write(); stop() may fall in between
saveThread(s) ==
  /\ \/ /\ saver[s] = "waiting"
        /\ saver' = [saver EXCEPT ![s] = IF stopRequested[s] THEN "ended" ELSE "tested"]
        /\ UNCHANGED lateSaves
     \/ /\ saver[s] = "tested"
        /\ saver' = [saver EXCEPT ![s] = "writing"]
        /\ lateSaves' = [lateSaves EXCEPT ![s] = IF Stopped(s) THEN @ + 1 ELSE @]
     \/ /\ saver[s] = "writing"
        /\ saver' = [saver EXCEPT ![s] = "waiting"]
        /\ UNCHANGED lateSaves
  /\ UNCHANGED <<pc, name, created, locked, mutex, quickReceived, calls, stopRequested>>

\* A call reaches a server that listens: Diff, or Quit of `server --stop'
request(c, s, call) ==
  /\ calls[c] = NoCall
  /\ pc[s] \in Listening
  /\ calls' = [calls EXCEPT ![c] = [server |-> s, state |-> call]]
  /\ UNCHANGED <<pc, name, created, locked, mutex, quickReceived, saverVars>>

\* Diff() analyses its input with its own RequestContext and answers, or
\* rejects the input
Diff(c) ==
  /\ calls[c].state = "diff"
  /\ calls' = [calls EXCEPT ![c] = NoCall]
  /\ UNCHANGED <<pc, name, created, locked, mutex, quickReceived, saverVars>>

\* signalQuick(): the flag is set without the mutex
signalQuick(c) ==
  /\ calls[c].state = "quit"
  /\ quickReceived' = [quickReceived EXCEPT ![calls[c].server] = TRUE]
  /\ calls' = [calls EXCEPT ![c].state = "notify"]
  /\ UNCHANGED <<pc, name, created, locked, mutex, saverVars>>

noNotify_Bug(c) ==
  /\ calls[c].state = "notify"
  /\ UNCHANGED pc
  /\ calls' = [calls EXCEPT ![c] = NoCall]
  /\ UNCHANGED <<name, created, locked, mutex, quickReceived, saverVars>>

\* ... and notify_one() wakes a thread that sleeps, and is lost otherwise
notify(c) ==
  LET s == calls[c].server
  IN  /\ calls[c].state = "notify"
      /\ pc' = IF pc[s] = "asleep" THEN [pc EXCEPT ![s] = "waiting"] ELSE pc
      /\ calls' = [calls EXCEPT ![c] = NoCall]
      /\ UNCHANGED <<name, created, locked, mutex, quickReceived, saverVars>>

\* A server is killed.  Its mutex stays as it is; its calls fail.
Crash(s) ==
  /\ pc[s] \notin Dead
  /\ pc' = [pc EXCEPT ![s] = "down"]
  /\ quickReceived' = [quickReceived EXCEPT ![s] = FALSE]
  /\ calls' = [c \in Clients |-> IF calls[c].server = s THEN NoCall ELSE calls[c]]
  /\ saver' = [saver EXCEPT ![s] = "none"]
  /\ stopRequested' = [stopRequested EXCEPT ![s] = FALSE]
  /\ lateSaves' = [lateSaves EXCEPT ![s] = 0]
  /\ UNCHANGED <<name, created, locked, mutex>>

\* After a server has ended its machine may start it again
Again(s) ==
  /\ pc[s] \in {"exited", "refused"}
  /\ pc' = [pc EXCEPT ![s] = "down"]
  /\ quickReceived' = [quickReceived EXCEPT ![s] = FALSE]
  /\ saver' = [saver EXCEPT ![s] = "none"]
  /\ stopRequested' = [stopRequested EXCEPT ![s] = FALSE]
  /\ lateSaves' = [lateSaves EXCEPT ![s] = 0]
  /\ UNCHANGED <<name, created, locked, mutex, calls>>

Main(s) == \/ openMutex(s) \/ initDb(s) \/ startServer(s) \/ waitForShutDown(s)
           \/ shutdown(s) \/ stop(s) \/ unlock(s) \/ destroy(s)

Handler(c) == Diff(c) \/ signalQuick(c) \/ notify(c)

Quit(s) == \E c \in Clients: request(c, s, "quit")

ServerNext ==
  \/ \E s \in Servers: \/ removeName(s) \/ Main(s) \/ saveThread(s)
                       \/ Crash(s) \/ Again(s)
  \/ \E c \in Clients, s \in Servers, call \in {"diff", "quit"}: request(c, s, call)
  \/ \E c \in Clients: Handler(c)

\* Threads that can run do run; the save thread has its deadline
ServerFairness ==
  /\ \A s \in Servers: WF_serverVars(Main(s)) /\ WF_serverVars(saveThread(s))
  /\ \A c \in Clients: WF_serverVars(Handler(c))

\* Somebody who wants a server to stop sends Quit again while it is there
Insistence == \A s \in Servers: SF_serverVars(quickReceived[s] /\ Quit(s))

ServerSpec == ServerInit /\ [][ServerNext]_serverVars

ServerFairSpec == ServerSpec /\ ServerFairness

InsistentSpec == ServerFairSpec /\ Insistence

-----------------------------------------------------------------------------

\* While a server stops its database, frees it and ends, no handler of a Diff
\* or Quit call still runs in it
DrainedBeforeStop ==
  \A s \in Servers:
    pc[s] \in {"stop", "write", "unlock", "destroy", "join", "exited"} => Running(s) = {}

\* Once the save thread was told to stop it begins one save at most, that of a test
\* of the token that came just before.  (That save, or one under way, may go on when
\* the tables are already destroyed, as the thread is joined after them.)
OneSaveAfterStop == \A s \in Servers: lateSaves[s] <= 1

\* From try_lock to unlock
Holding == {"initDb", "read", "drop", "listen", "stop", "write", "unlock", "shutdown"} \cup Listening

\* A mutex is held by one server at most: as start() removes the name first, two
\* servers may run, but each with a mutex of its own
OneServerPerMutex ==
  \A s, t \in Servers:
    s # t /\ pc[s] \in Holding /\ pc[t] \in Holding => mutex[s] # mutex[t]

\* A server that got the quit signal ends, or is killed
QuitStops ==
  \A s \in Servers: quickReceived[s] ~> pc[s] \in Dead

\* At most one server has its database open
\* (what the repository says, and the code does not do)
OneServer ==
  \A s, t \in Servers:
    s # t /\ pc[s] \in {"listen"} \cup Listening => pc[t] \notin {"listen"} \cup Listening

=============================================================================
