-------------------------- MODULE DbConnectionPool --------------------------
(***************************************************************************)
(* db::DbConnectionPool: connections lent to the threads that ask for one, *)
(* one mutex, and one condition variable on which both the callers of      *)
(* getConnection and the health-check thread sleep.  The flags shutdown_   *)
(* and healthCheckRunning_ are written without the mutex, so evaluating a  *)
(* wait predicate and going to sleep are two steps with the mutex held in  *)
(* between ("block"), as in ThreadPool.                                    *)
(*                                                                         *)
(* One thread calls initialize until it succeeds, and shutdown once.  The  *)
(* health check can also be called from outside; it is the same critical   *)
(* section.                                                                *)
(***************************************************************************)
EXTENDS Naturals, Sequences, FiniteSets

CONSTANTS
  Borrower,        \* threads that borrow one connection at a time
  Conn,            \* bound: DbConnection objects ever created
  maxConnections,  \* maxConnections_
  MaxThrown,       \* bound: calls of initialize that leave connections behind
  NoConn, Health, NoThread

ASSUME DbPoolAssumption ==
  /\ IsFiniteSet(Conn)
  /\ maxConnections \in 0..Cardinality(Conn)
  /\ MaxThrown \in Nat
  /\ NoConn \notin Conn
  /\ Health \notin Borrower
  /\ NoThread \notin Borrower \cup {Health}

VARIABLES
  availableConnections,  \* availableConnections_: a queue
  allConnections,        \* allConnections_
  state,                 \* per DbConnection: "unused", "up" or "down" (isConnected)
  shutdown,              \* shutdown_
  healthCheckRunning,    \* healthCheckRunning_
  thrown,                \* history: calls of initialize that an exception ended, leaving connections
  offRecord,             \* history: connections that such a call had queued and not yet recorded
  mutex,                 \* the thread that holds mutex_ across steps
  bpc,                   \* where each borrower is
  timed,                 \* it is in getConnection(timeout)
  held,                  \* the connection it has borrowed
  hpc,                   \* where the health-check thread is
  opc                    \* where the owner is: initialize, shutdown

vars == <<availableConnections, allConnections, state, shutdown, healthCheckRunning,
          thrown, offRecord, mutex, bpc, timed, held, hpc, opc>>

BorrowerPC == {"idle", "lock", "block", "sleep", "final", "hold"}
HealthPC == {"none", "lock", "block", "sleep", "tick", "check", "exited"}
OwnerPC == {"new", "up", "stop", "notify", "join", "close", "down"}

Init ==
  /\ availableConnections = <<>>
  /\ allConnections = {}
  /\ state = [c \in Conn |-> "unused"]
  /\ shutdown = FALSE
  /\ healthCheckRunning = FALSE
  /\ thrown = 0
  /\ offRecord = {}
  /\ mutex = NoThread
  /\ bpc = [b \in Borrower |-> "idle"]
  /\ timed = [b \in Borrower |-> FALSE]
  /\ held = [b \in Borrower |-> NoConn]
  /\ hpc = "none"
  /\ opc = "new"

InQueue(q) == {q[i] : i \in 1..Len(q)}

\* n DbConnection objects just created; which members of Conn they are is immaterial.
Fresh == {c \in Conn : state[c] = "unused"}
New(n) == CHOOSE q \in [1..n -> Fresh] : \A i, j \in 1..n : q[i] = q[j] => i = j

\* The callers of getConnection that sleep on condition_.
Sleepers == {b \in Borrower : bpc[b] = "sleep"}

-----------------------------------------------------------------------------
(* getConnection, with and without a timeout. *)

pools == <<availableConnections, allConnections, state>>
leftovers == <<thrown, offRecord>>
flags == <<shutdown, healthCheckRunning, thrown, offRecord>>

GetCall(b, t) ==
  /\ bpc[b] = "idle"
  /\ bpc' = [bpc EXCEPT ![b] = "lock"]
  /\ timed' = [timed EXCEPT ![b] = t]
  /\ UNCHANGED <<pools, flags, mutex, held, hpc, opc>>

Ready == availableConnections # <<>> \/ shutdown

Kept == UNCHANGED availableConnections  \* variant: front() without pop()
PopFront == availableConnections' = Tail(availableConnections)

Take(b) ==
  /\ bpc[b] \in {"lock", "final"}
  /\ mutex = NoThread
  /\ ~shutdown /\ availableConnections # <<>>
  /\ PopFront
  /\ held' = [held EXCEPT ![b] = Head(availableConnections)]
  /\ bpc' = [bpc EXCEPT ![b] = "hold"]
  /\ timed' = [timed EXCEPT ![b] = FALSE]
  /\ UNCHANGED <<allConnections, state, flags, mutex, hpc, opc>>

\* nullptr: the pool is shut down, or the timeout has passed.
GiveUp(b) ==
  /\ mutex = NoThread
  /\ \/ bpc[b] \in {"lock", "final"} /\ shutdown
     \/ bpc[b] = "final" /\ ~Ready
  /\ bpc' = [bpc EXCEPT ![b] = "idle"]
  /\ timed' = [timed EXCEPT ![b] = FALSE]
  /\ UNCHANGED <<pools, flags, mutex, held, hpc, opc>>

NotReady(b) ==
  /\ bpc[b] = "lock"
  /\ mutex = NoThread
  /\ ~Ready
  /\ mutex' = b
  /\ bpc' = [bpc EXCEPT ![b] = "block"]
  /\ UNCHANGED <<pools, flags, timed, held, hpc, opc>>

GetSleep(b) ==
  /\ bpc[b] = "block"
  /\ mutex' = NoThread
  /\ bpc' = [bpc EXCEPT ![b] = "sleep"]
  /\ UNCHANGED <<pools, flags, timed, held, hpc, opc>>

StartOver(b) ==                          \* variant: the wait is begun again
  /\ bpc[b] = "sleep"
  /\ timed[b]
  /\ bpc' = [bpc EXCEPT ![b] = "lock"]
  /\ UNCHANGED <<pools, flags, mutex, timed, held, hpc, opc>>

\* The deadline does not move with the wakeups; the predicate is evaluated once more.
GetTimeout(b) ==
  /\ bpc[b] = "sleep"
  /\ timed[b]
  /\ bpc' = [bpc EXCEPT ![b] = "final"]
  /\ UNCHANGED <<pools, flags, mutex, timed, held, hpc, opc>>

SpuriousWakeup(b) ==
  /\ bpc[b] = "sleep"
  /\ bpc' = [bpc EXCEPT ![b] = "lock"]
  /\ UNCHANGED <<pools, flags, mutex, timed, held, hpc, opc>>

GetStep(b) == Take(b) \/ GiveUp(b) \/ NotReady(b) \/ GetSleep(b)

-----------------------------------------------------------------------------
(* returnConnection; a ConnectionGuard calls it when its scope ends. *)

\* Thread b is done, and condition_.notify_one wakes any one thread that sleeps,
\* be it a borrower or the health check.
BackAndNotifyOne(b) ==
  LET home == [bpc EXCEPT ![b] = "idle"] IN
  \/ \E w \in Sleepers : bpc' = [home EXCEPT ![w] = "lock"] /\ UNCHANGED hpc
  \/ hpc = "sleep" /\ hpc' = "lock" /\ bpc' = home
  \/ Sleepers = {} /\ hpc # "sleep" /\ bpc' = home /\ UNCHANGED hpc

Back(b) == bpc' = [bpc EXCEPT ![b] = "idle"] /\ UNCHANGED hpc

KeepsIt(b) == UNCHANGED held             \* variant: reset() without conn_.reset()
Drop(b) == held' = [held EXCEPT ![b] = NoConn]

Returning(b) ==
  /\ bpc[b] = "hold"
  /\ mutex = NoThread
  /\ Drop(b)
  /\ UNCHANGED <<flags, mutex, timed, opc>>

ReturnAfterShutdown(b) ==
  /\ Returning(b)
  /\ shutdown
  /\ state' = [state EXCEPT ![held[b]] = "down"]
  /\ Back(b)
  /\ UNCHANGED <<availableConnections, allConnections>>

ReturnConnected(b) ==
  /\ Returning(b)
  /\ ~shutdown /\ held[b] \in allConnections /\ state[held[b]] = "up"
  /\ availableConnections' = Append(availableConnections, held[b])
  /\ BackAndNotifyOne(b)
  /\ UNCHANGED <<allConnections, state>>

Unrecorded(c, new) == allConnections     \* variant: not replaced in allConnections_
Replaced(c, new) == (allConnections \ {c}) \cup {new}

\* A broken connection: a new one takes its place ...
ReturnBroken(b) ==
  /\ Returning(b)
  /\ ~shutdown /\ held[b] \in allConnections /\ state[held[b]] = "down"
  /\ Fresh # {}
  /\ LET new == New(1)[1] IN
       /\ state' = [state EXCEPT ![new] = "up"]
       /\ availableConnections' = Append(availableConnections, new)
       /\ allConnections' = Replaced(held[b], new)
  /\ BackAndNotifyOne(b)

\* ... or cannot be connected, and nothing does.
ReturnIgnored(b) ==
  /\ Returning(b)
  /\ ~shutdown /\ held[b] \in allConnections /\ state[held[b]] = "down"
  /\ Back(b)
  /\ UNCHANGED pools

\* A connection that is not in allConnections_ is not taken back: the borrower had the last
\* pointer to it, and its destructor closes it.
ReturnUnknown(b) ==
  /\ Returning(b)
  /\ ~shutdown /\ held[b] \notin allConnections
  /\ state' = [state EXCEPT ![held[b]] = "down"]
  /\ Back(b)
  /\ UNCHANGED <<availableConnections, allConnections>>

ReturnStep(b) ==
  \/ ReturnAfterShutdown(b) \/ ReturnConnected(b) \/ ReturnBroken(b) \/ ReturnIgnored(b)
  \/ ReturnUnknown(b)

\* The server, or the network, closes a connection.
LoseConnection(c) ==
  /\ state[c] = "up"
  /\ state' = [state EXCEPT ![c] = "down"]
  /\ UNCHANGED <<availableConnections, allConnections, flags, mutex, bpc, timed, held,
                 hpc, opc>>

-----------------------------------------------------------------------------
(* healthCheckLoop. *)

people == <<bpc, timed, held, opc>>

HealthTop ==
  /\ hpc = "lock"
  /\ mutex = NoThread
  /\ IF healthCheckRunning THEN hpc' = "block" /\ mutex' = Health
                           ELSE hpc' = "exited" /\ UNCHANGED mutex
  /\ UNCHANGED <<pools, flags, people>>

HealthSleep ==
  /\ hpc = "block"
  /\ mutex' = NoThread
  /\ hpc' = "sleep"
  /\ UNCHANGED <<pools, flags, people>>

\* 30 seconds have passed.
HealthTimeout ==
  /\ hpc = "sleep"
  /\ mutex = NoThread
  /\ hpc' = IF healthCheckRunning THEN "tick" ELSE "exited"
  /\ UNCHANGED <<pools, flags, mutex, people>>

HealthWakeup ==
  /\ hpc = "sleep"
  /\ hpc' = "lock"
  /\ UNCHANGED <<pools, flags, mutex, people>>

\* healthCheckRunning_ is read again between the two critical sections.
HealthTick ==
  /\ hpc = "tick"
  /\ hpc' = IF healthCheckRunning THEN "check" ELSE "lock"
  /\ UNCHANGED <<pools, flags, mutex, people>>

AllOfThem == allConnections              \* variant: borrowed ones are checked too
Checked == InQueue(availableConnections)

\* healthCheck: the idle connections found closed are connected again, or not.
Check ==
  /\ mutex = NoThread
  /\ \E S \in SUBSET {c \in Checked : state[c] = "down"} :
       state' = [c \in Conn |-> IF c \in S THEN "up" ELSE state[c]]
  /\ UNCHANGED <<availableConnections, allConnections, flags, mutex, people>>

HealthCheck ==
  /\ hpc = "check"
  /\ Check
  /\ hpc' = "lock"

\* healthCheck is public too.
HealthCheckCall == Check /\ UNCHANGED hpc

HealthStep == HealthTop \/ HealthSleep \/ HealthTimeout \/ HealthTick \/ HealthCheck

-----------------------------------------------------------------------------
(* The owner: initialize and shutdown. *)

\* How many connections a call of initialize may open; bound: as many as are unused.
MayOpen == {n \in 0..maxConnections : n <= Cardinality(Fresh)}

\* Those that come up enter the queue and then the record, one after the other.
Open(q, recorded) ==
  /\ availableConnections' = availableConnections \o q
  /\ allConnections' = allConnections \cup {q[i] : i \in 1..recorded}
  /\ state' = [c \in Conn |-> IF c \in InQueue(q) THEN "up" ELSE state[c]]

\* Without an idle connection in the end the call fails, and may be repeated.
Initialize ==
  /\ opc = "new"
  /\ mutex = NoThread
  /\ \E n \in MayOpen : Open(New(n), n)
  /\ IF availableConnections' = <<>>
     THEN UNCHANGED <<hpc, healthCheckRunning, opc>>
     ELSE hpc' = "lock" /\ healthCheckRunning' = TRUE /\ opc' = "up"
  /\ UNCHANGED <<shutdown, leftovers, mutex, bpc, timed, held>>

\* An exception ends the call: the next connection cannot be created, or the last one, already
\* queued, cannot be recorded, or the thread cannot be started.  It fails, may be repeated,
\* and what it has opened stays.
InitializeThrows ==
  /\ opc = "new"
  /\ mutex = NoThread
  /\ \E n \in MayOpen :
       /\ \/ n < maxConnections /\ Open(New(n), n) /\ UNCHANGED <<healthCheckRunning, offRecord>>
          \/ /\ n > 0 /\ Open(New(n), n - 1)
             /\ offRecord' = offRecord \cup {New(n)[n]}
             /\ UNCHANGED healthCheckRunning
          \/ /\ Open(New(n), n) /\ availableConnections' # <<>>
             /\ healthCheckRunning' = TRUE
             /\ UNCHANGED offRecord
       /\ IF n = 0 THEN UNCHANGED thrown ELSE thrown < MaxThrown /\ thrown' = thrown + 1
  /\ UNCHANGED <<shutdown, mutex, bpc, timed, held, hpc, opc>>

\* shutdown_.exchange(true); there is a thread to stop if initialize has succeeded.
ShutdownCall ==
  /\ opc \in {"new", "up"}
  /\ shutdown' = TRUE
  /\ opc' = IF opc = "up" THEN "stop" ELSE "close"
  /\ UNCHANGED <<pools, healthCheckRunning, leftovers, mutex, bpc, timed, held, hpc>>

NotCleared == UNCHANGED healthCheckRunning  \* variant: the loop is not told to end
Clear == healthCheckRunning' = FALSE

StopHealthCheck ==
  /\ opc = "stop"
  /\ Clear
  /\ opc' = "notify"
  /\ UNCHANGED <<pools, shutdown, leftovers, mutex, bpc, timed, held, hpc>>

\* condition_.notify_all, without the mutex
NotifyAll ==
  /\ opc = "notify"
  /\ bpc' = [b \in Borrower |-> IF bpc[b] = "sleep" THEN "lock" ELSE bpc[b]]
  /\ hpc' = IF hpc = "sleep" THEN "lock" ELSE hpc
  /\ opc' = "join"
  /\ UNCHANGED <<pools, flags, mutex, timed, held>>

JoinHealth ==
  /\ opc = "join"
  /\ hpc = "exited"
  /\ opc' = "close"
  /\ UNCHANGED <<pools, flags, mutex, bpc, timed, held, hpc>>

OnlyIdle == InQueue(availableConnections) \* variant: borrowed ones are left open
Closing == InQueue(availableConnections) \cup allConnections

\* Every connection is disconnected, the borrowed ones too.
CloseConnections ==
  /\ opc = "close"
  /\ mutex = NoThread
  /\ state' = [c \in Conn |-> IF c \in Closing THEN "down" ELSE state[c]]
  /\ availableConnections' = <<>>
  /\ allConnections' = {}
  /\ opc' = "down"
  /\ UNCHANGED <<flags, mutex, bpc, timed, held, hpc>>

OwnerStep == StopHealthCheck \/ NotifyAll \/ JoinHealth \/ CloseConnections

Next ==
  \/ \E b \in Borrower : \/ \E t \in BOOLEAN : GetCall(b, t)
                         \/ GetStep(b) \/ GetTimeout(b) \/ SpuriousWakeup(b)
                         \/ ReturnStep(b)
  \/ \E c \in Conn : LoseConnection(c)
  \/ HealthStep \/ HealthWakeup \/ HealthCheckCall
  \/ Initialize \/ InitializeThrows \/ ShutdownCall \/ OwnerStep

Spec == Init /\ [][Next]_vars

(***************************************************************************)
(* Fairness: threads inside the pool's code go on and get the mutex, time  *)
(* passes, and whoever has borrowed a connection returns it.  A deadline   *)
(* is fixed before the first wait, so wakeups do not put it off: its       *)
(* fairness is strong.  Nobody has to call the pool and no wakeup has to   *)
(* be spurious.                                                            *)
(***************************************************************************)
FairSpec ==
  /\ Spec
  /\ \A b \in Borrower : /\ SF_vars(GetStep(b) \/ ReturnStep(b))
                         /\ SF_vars(GetTimeout(b))
  /\ SF_vars(HealthStep)
  /\ SF_vars(OwnerStep)

-----------------------------------------------------------------------------
(* Properties. *)

\* Every variable stays in its range.
TypeOK ==
  /\ availableConnections \in Seq(Conn)
  /\ allConnections \subseteq Conn
  /\ state \in [Conn -> {"unused", "up", "down"}]
  /\ shutdown \in BOOLEAN /\ healthCheckRunning \in BOOLEAN
  /\ thrown \in Nat /\ offRecord \subseteq Conn
  /\ mutex \in Borrower \cup {Health, NoThread}
  /\ bpc \in [Borrower -> BorrowerPC]
  /\ timed \in [Borrower -> BOOLEAN]
  /\ held \in [Borrower -> Conn \cup {NoConn}]
  /\ hpc \in HealthPC
  /\ opc \in OwnerPC
  /\ \A b \in Borrower : bpc[b] = "hold" <=> held[b] # NoConn

\* A connection is never in two hands: it is in the queue once, or with one
\* borrower, however returns, replacements, health checks and shutdown interleave.
OneHolder ==
  /\ \A i, j \in 1..Len(availableConnections) :
       availableConnections[i] = availableConnections[j] => i = j
  /\ \A a, b \in Borrower : held[a] = held[b] /\ held[a] # NoConn => a = b
  /\ \A b \in Borrower : held[b] \notin InQueue(availableConnections)

\* The pool keeps account of what it has opened: until it is shut down, whatever is
\* idle or borrowed is in allConnections_, so that shutdown can close it, and there
\* are never more than maxConnections_.  Each call of initialize that an exception has
\* ended (DbConnectionPool.cpp:123) costs one exception from either: one connection may
\* be missing in allConnections_, and the next call opens maxConnections_ more.
Accounted ==
  /\ Cardinality(allConnections) <= (thrown + 1) * maxConnections
  /\ Cardinality(offRecord) <= thrown
  /\ ~shutdown =>
       /\ InQueue(availableConnections) \subseteq allConnections \cup offRecord
       /\ \A b \in Borrower : bpc[b] = "hold" => held[b] \in allConnections \cup offRecord

\* M13: a borrowed connection belongs to its borrower, who uses it without a lock:
\* one that breaks in its hands is not connected again under it.
HealthSparesBorrowed ==
  [][\A b \in Borrower :
       bpc[b] = "hold" /\ state[held[b]] = "down" => state'[held[b]] = "down"]_vars

\* No connection outlives the pool: after shutdown none is open, whoever held it, but one
\* that an exception kept off the record, until its borrower returns it.
Lent(c) == \E b \in Borrower : held[b] = c
NoneLeftOpen ==
  opc = "down" => \A c \in Conn : state[c] = "up" => c \in offRecord /\ Lent(c)

\* shutdown() returns: the health-check thread may miss the notification, which
\* only costs the rest of its 30 seconds.
ShutdownReturns == (opc = "stop") ~> (opc = "down")

\* getConnection(timeout) returns, with or without a connection (M13).
TimedGetReturns ==
  \A b \in Borrower :
    (bpc[b] = "lock" /\ timed[b]) ~> (bpc[b] \in {"idle", "hold"})

(* What the repository says and the code does not do. *)

\* DbConnectionPool.h:26: getConnection() waits for a connection, and returns nullptr
\* when the pool is closed: whoever sleeps although the predicate holds is woken.
GetReturns ==
  \A b \in Borrower : (bpc[b] = "sleep" /\ Ready) ~> (bpc[b] # "sleep" \/ ~Ready)

\* test_http_db.cpp:98: when initialize has failed, there are no connections.
FailedIsEmpty == opc = "new" => allConnections = {}
=============================================================================
