--------------------------- MODULE ServerLifecycle ---------------------------
(***************************************************************************)
(* http::HttpServer from start() to its destruction: the I/O threads that  *)
(* submit request tasks, the tasks that use the server object while they   *)
(* run, and stop(), which has to outlast them before it gives up the fds,  *)
(* the pool and the tables.  The pool is the server's own, or shared and   *)
(* shut down by whoever owns it.                                           *)
(*                                                                         *)
(* Connections and responses are in Reactor.tla, the inside of the pool in *)
(* ThreadPool.tla.                                                         *)
(***************************************************************************)
EXTENDS Integers, FiniteSets

CONSTANTS
  Reactor,     \* the sub reactor threads
  Task,        \* request tasks, each submitted once
  Stopper,     \* threads that call stop()
  MaxStarts,   \* bound: calls of start() that get as far as the threads
  OwnPool,     \* which constructors: the set of values of "ownedPool_ is set"
  NoTask, NoThread

ASSUME LifecycleAssumption ==
  /\ IsFiniteSet(Task)
  /\ MaxStarts \in Nat
  /\ OwnPool \subseteq BOOLEAN
  /\ NoTask \notin Task
  /\ NoThread \notin Stopper

VARIABLES
  owned,          \* the server has made its own pool
  pool,           \* threadPool_: "open", "shut", or "none" (nullptr)
  running,        \* running_
  starts,         \* how often start() has succeeded
  listenFd,       \* "none" (-1), "open", or "dead": still set after its close
  eventFds,       \* epoll, wake and timer fds of the sub reactors: "none", "open"
  io,             \* per reactor: where its thread is
  submitting,     \* per reactor: the task in enqueueRequestTask
  task,           \* per task: how far it has got
  inFlightTasks,  \* inFlightTasks_
  drainMutex,     \* the stopper that holds drainMutex_ across steps
  spc,            \* per stopper: where it is in stop()
  alive,          \* the server object exists
  timedOut,       \* history: a drain has been given up
  faults          \* history: what must never happen

vars == <<owned, pool, running, starts, listenFd, eventFds, io, submitting, task,
          inFlightTasks, drainMutex, spc, alive, timedOut, faults>>

IoPC == {"none", "loop", "handle", "submit", "exited"}
TaskPC == {"new", "counted", "refused", "queued", "running", "answered", "last",
           "done", "dropped"}
StopPC == {"idle", "join", "drain", "lock", "block", "sleep", "release", "pool",
           "joinPool", "clear"}
Fault == {"doubleClose", "nullPool", "lateWrite", "useAfterFree"}

Init ==
  /\ owned \in OwnPool
  /\ pool = "open"
  /\ running = FALSE
  /\ starts = 0
  /\ listenFd = "none"
  /\ eventFds = "none"
  /\ io = [r \in Reactor |-> "none"]
  /\ submitting = [r \in Reactor |-> NoTask]
  /\ task = [t \in Task |-> "new"]
  /\ inFlightTasks = 0
  /\ drainMutex = NoThread
  /\ spc = [s \in Stopper |-> "idle"]
  /\ alive = TRUE
  /\ timedOut = FALSE
  /\ faults = {}

Fail(f, bad) == faults' = IF bad THEN faults \cup {f} ELSE faults

NobodyStops == \A s \in Stopper : spc[s] = "idle"
Joined == \A r \in Reactor : io[r] = "none"

-----------------------------------------------------------------------------
(***************************************************************************)
(* start().  It is called by the thread that owns the server, while nobody *)
(* is in stop(): the thread objects it assigns have been joined.           *)
(***************************************************************************)
CanStart == alive /\ ~running /\ NobodyStops /\ Joined /\ starts < MaxStarts

\* A pool of its own that has been shut down is made anew, if there is one left.
NewPool == IF owned /\ pool = "shut" THEN "open" ELSE pool

StartSucceeds ==
  /\ CanStart
  /\ pool' = NewPool
  /\ listenFd' = "open"
  /\ eventFds' = "open"
  /\ running' = TRUE
  /\ io' = [r \in Reactor |-> "loop"]
  /\ starts' = starts + 1
  /\ UNCHANGED <<owned, submitting, task, inFlightTasks, drainMutex, spc, alive,
                 timedOut, faults>>

\* setsockopt, fcntl, bind or listen fails: listenFd_ is closed and stays set.  A
\* later failure ends in releaseFds, and socket() failing sets it to -1.
StartFails ==
  /\ CanStart
  /\ pool' = NewPool
  /\ listenFd' \in {"dead", "none"}
  /\ UNCHANGED <<owned, running, starts, eventFds, io, submitting, task, inFlightTasks,
                 drainMutex, spc, alive, timedOut, faults>>

-----------------------------------------------------------------------------
(***************************************************************************)
(* The I/O threads: subReactorLoop and enqueueRequestTask.                 *)
(***************************************************************************)
outsideIo == <<owned, pool, starts, listenFd, eventFds, running, drainMutex, spc, alive,
               timedOut>>

\* while (running_)
LoopTop(r) ==
  /\ io[r] = "loop"
  /\ io' = [io EXCEPT ![r] = IF running THEN "handle" ELSE "exited"]
  /\ UNCHANGED <<outsideIo, submitting, task, inFlightTasks, faults>>

\* The events of one epoll_wait, which takes a second at most, are done.
EndHandling(r) ==
  /\ io[r] = "handle"
  /\ io' = [io EXCEPT ![r] = "loop"]
  /\ UNCHANGED <<outsideIo, submitting, task, inFlightTasks, faults>>

NotCounted == UNCHANGED inFlightTasks  \* variant: counted when it begins to run
CountTask == inFlightTasks' = inFlightTasks + 1

\* inFlightTasks_.fetch_add, before the task is submitted
CountIn(r, t) ==
  /\ io[r] = "handle"
  /\ task[t] = "new"
  /\ CountTask
  /\ task' = [task EXCEPT ![t] = "counted"]
  /\ submitting' = [submitting EXCEPT ![r] = t]
  /\ io' = [io EXCEPT ![r] = "submit"]
  /\ UNCHANGED <<outsideIo, faults>>

Submit(r) ==
  /\ io[r] = "submit"
  /\ pool = "open"
  /\ task' = [task EXCEPT ![submitting[r]] = "queued"]
  /\ submitting' = [submitting EXCEPT ![r] = NoTask]
  /\ io' = [io EXCEPT ![r] = "handle"]
  /\ UNCHANGED <<outsideIo, inFlightTasks, faults>>

RefusedForgets(r) ==                \* variant: the catch block does not count down
  /\ io[r] = "submit"
  /\ pool = "shut"
  /\ task' = [task EXCEPT ![submitting[r]] = "done"]
  /\ UNCHANGED <<outsideIo, io, submitting, inFlightTasks, faults>>

\* enqueueDetached throws: the catch block takes the count back, as a task does.
SubmitRefused(r) ==
  /\ io[r] = "submit"
  /\ pool = "shut"
  /\ task[submitting[r]] = "counted"
  /\ task' = [task EXCEPT ![submitting[r]] = "refused"]
  /\ UNCHANGED <<outsideIo, io, submitting, inFlightTasks, faults>>

SubmitToNothing(r) ==
  /\ io[r] = "submit"
  /\ pool = "none"
  /\ Fail("nullPool", TRUE)
  /\ UNCHANGED <<outsideIo, io, submitting, task, inFlightTasks>>

\* The catch block is left.
EndRefused(r) ==
  /\ io[r] = "submit"
  /\ task[submitting[r]] = "done"
  /\ submitting' = [submitting EXCEPT ![r] = NoTask]
  /\ io' = [io EXCEPT ![r] = "handle"]
  /\ UNCHANGED <<outsideIo, task, inFlightTasks, faults>>

IoStep(r) ==
  \/ LoopTop(r) \/ EndHandling(r) \/ Submit(r) \/ SubmitRefused(r) \/ SubmitToNothing(r)
  \/ EndRefused(r)

-----------------------------------------------------------------------------
(***************************************************************************)
(* The tasks, on the pool's workers.  Each step uses the server object.    *)
(***************************************************************************)
outsideTask == <<owned, pool, starts, listenFd, eventFds, running, drainMutex, io,
                 submitting, alive, timedOut>>

\* A pool that is shut down may still begin a task a worker was about to take.
Begin(t) ==
  /\ task[t] = "queued"
  /\ pool # "none"
  /\ task' = [task EXCEPT ![t] = "running"]
  /\ UNCHANGED <<outsideTask, inFlightTasks, spc, faults>>

\* execute(): notifyConnectionReady writes the reactor's eventfd; a handler that
\* throws something foreign does not get that far.
Answer(t) ==
  /\ task[t] = "running"
  /\ task' = [task EXCEPT ![t] = "answered"]
  /\ \E writes \in BOOLEAN :
       IF alive THEN Fail("lateWrite", writes /\ eventFds # "open")
       ELSE Fail("useAfterFree", TRUE)
  /\ UNCHANGED <<outsideTask, inFlightTasks, spc>>

\* finishInFlightTask: fetch_sub ...
CountDown(t) ==
  /\ task[t] \in {"answered", "refused"}
  /\ inFlightTasks' = inFlightTasks - 1
  /\ task' = [task EXCEPT ![t] = IF inFlightTasks = 1 THEN "last" ELSE "done"]
  /\ Fail("useAfterFree", ~alive)
  /\ UNCHANGED <<outsideTask, spc>>

DrainLock == drainMutex = NoThread

\* ... and, when it was the last one, drainCv_.notify_all under drainMutex_
NotifyDrain(t) ==
  /\ task[t] = "last"
  /\ DrainLock
  /\ task' = [task EXCEPT ![t] = "done"]
  /\ spc' = [s \in Stopper |-> IF spc[s] = "sleep" THEN "lock" ELSE spc[s]]
  /\ Fail("useAfterFree", ~alive)
  /\ UNCHANGED <<outsideTask, inFlightTasks>>

TaskStep(t) == Begin(t) \/ Answer(t) \/ CountDown(t) \/ NotifyDrain(t)

-----------------------------------------------------------------------------
(* stop(). *)

outsideStop == <<owned, starts, io, submitting, inFlightTasks, alive>>

Goto(s, from, to) == spc[s] = from /\ spc' = [spc EXCEPT ![s] = to]

\* running_.exchange(false); only the call that found it true joins and drains.
StopCall(s) ==
  /\ alive
  /\ Goto(s, "idle", IF running THEN "join" ELSE "release")
  /\ running' = FALSE
  /\ UNCHANGED <<outsideStop, pool, listenFd, eventFds, task, drainMutex, timedOut, faults>>

JoinThreads(s) ==
  /\ Goto(s, "join", "drain")
  /\ \A r \in Reactor : io[r] = "exited"
  /\ io' = [r \in Reactor |-> "none"]
  /\ UNCHANGED <<owned, starts, submitting, inFlightTasks, alive, running, pool, listenFd,
                 eventFds, task, drainMutex, timedOut, faults>>

SkipDrain(s) ==                     \* variant: stop() does not wait for the tasks
  /\ Goto(s, "drain", "release")
  /\ UNCHANGED <<outsideStop, running, pool, listenFd, eventFds, task, drainMutex, timedOut,
                 faults>>

\* waitForInFlightTasks: the first look is without the mutex.
DrainFast(s) ==
  /\ Goto(s, "drain", IF inFlightTasks = 0 THEN "release" ELSE "lock")
  /\ UNCHANGED <<outsideStop, running, pool, listenFd, eventFds, task, drainMutex, timedOut,
                 faults>>

Drained(s) ==
  /\ drainMutex = NoThread
  /\ inFlightTasks = 0
  /\ Goto(s, "lock", "release")
  /\ UNCHANGED <<outsideStop, running, pool, listenFd, eventFds, task, drainMutex, timedOut,
                 faults>>

NotDrained(s) ==
  /\ drainMutex = NoThread
  /\ inFlightTasks # 0
  /\ Goto(s, "lock", "block")
  /\ drainMutex' = s
  /\ UNCHANGED <<outsideStop, running, pool, listenFd, eventFds, task, timedOut, faults>>

DrainSleep(s) ==
  /\ Goto(s, "block", "sleep")
  /\ drainMutex' = NoThread
  /\ UNCHANGED <<outsideStop, running, pool, listenFd, eventFds, task, timedOut, faults>>

DrainWakeup(s) ==
  /\ Goto(s, "sleep", "lock")
  /\ UNCHANGED <<outsideStop, running, pool, listenFd, eventFds, task, drainMutex, timedOut,
                 faults>>

\* wait_until has come to its deadline: the predicate has the last word.
DrainTimeout(s) ==
  /\ drainMutex = NoThread
  /\ Goto(s, "sleep", "release")
  /\ timedOut' = (timedOut \/ inFlightTasks # 0)
  /\ UNCHANGED <<outsideStop, running, pool, listenFd, eventFds, task, drainMutex, faults>>

ReleaseFds(s) ==
  /\ Goto(s, "release", "pool")
  /\ listenFd' = "none"
  /\ eventFds' = "none"
  /\ Fail("doubleClose", listenFd = "dead")
  /\ UNCHANGED <<outsideStop, running, pool, task, drainMutex, timedOut>>

\* Only a pool of its own is shut down ...
ShutPool(s) ==
  /\ IF owned /\ pool # "none"
     THEN Goto(s, "pool", "joinPool") /\ pool' = "shut"
     ELSE Goto(s, "pool", "clear") /\ UNCHANGED pool
  /\ UNCHANGED <<outsideStop, running, listenFd, eventFds, task, drainMutex, timedOut, faults>>

NoJoin == TRUE                      \* variant: the workers are not joined
WorkersJoined == \A t \in Task : task[t] \notin {"running", "answered", "last"}

\* ... joined and destroyed, with the tasks it has not begun.
JoinPool(s) ==
  /\ Goto(s, "joinPool", "clear")
  /\ WorkersJoined
  /\ pool' = "none"
  /\ task' = [t \in Task |-> IF task[t] = "queued" THEN "dropped" ELSE task[t]]
  /\ UNCHANGED <<outsideStop, running, listenFd, eventFds, drainMutex, timedOut, faults>>

\* contexts, conns_ and the memory pool are cleared, and stop() returns.
Clear(s) ==
  /\ Goto(s, "clear", "idle")
  /\ UNCHANGED <<outsideStop, running, pool, listenFd, eventFds, task, drainMutex, timedOut,
                 faults>>

StopStep(s) ==
  \/ JoinThreads(s) \/ DrainFast(s) \/ Drained(s) \/ NotDrained(s) \/ DrainSleep(s)
  \/ ReleaseFds(s) \/ ShutPool(s) \/ JoinPool(s) \/ Clear(s)

-----------------------------------------------------------------------------
(***************************************************************************)
(* The owner of the server destroys it after a stop().  The destructor's   *)
(* own stop() finds running_ false, nothing to join and nothing to drain.  *)
(***************************************************************************)
Destroy ==
  /\ alive /\ ~running /\ NobodyStops /\ Joined
  /\ pool = "none" \/ ~owned
  /\ alive' = FALSE
  /\ listenFd' = "none"
  /\ Fail("doubleClose", listenFd = "dead")
  /\ UNCHANGED <<owned, pool, running, starts, eventFds, io, submitting, task,
                 inFlightTasks, drainMutex, spc, timedOut>>

\* Whoever owns a shared pool may shut it down at any time.
OwnerShutsPool ==
  /\ ~owned
  /\ pool = "open"
  /\ pool' = "shut"
  /\ UNCHANGED <<owned, running, starts, listenFd, eventFds, io, submitting, task,
                 inFlightTasks, drainMutex, spc, alive, timedOut, faults>>

Next ==
  \/ StartSucceeds \/ StartFails \/ Destroy \/ OwnerShutsPool
  \/ \E r \in Reactor : IoStep(r) \/ \E t \in Task : CountIn(r, t)
  \/ \E t \in Task : TaskStep(t)
  \/ \E s \in Stopper : StopCall(s) \/ StopStep(s) \/ DrainWakeup(s) \/ DrainTimeout(s)

Spec == Init /\ [][Next]_vars

(***************************************************************************)
(* Fairness: I/O threads and workers do not stop inside a handler, an open *)
(* pool begins its tasks, and a thread that keeps asking for drainMutex_   *)
(* gets it.  Nothing is assumed of the drain's deadline (5 s by default)   *)
(* nor of spurious wakeups.                                                *)
(***************************************************************************)
FairSpec ==
  /\ Spec
  /\ \A r \in Reactor : WF_vars(IoStep(r))
  /\ \A t \in Task : /\ SF_vars(pool = "open" /\ Begin(t))
                     /\ SF_vars(Answer(t) \/ CountDown(t) \/ NotifyDrain(t))
  /\ \A s \in Stopper : SF_vars(StopStep(s))

-----------------------------------------------------------------------------
(* Properties. *)

\* Every variable stays in its range.
TypeOK ==
  /\ owned \in BOOLEAN /\ running \in BOOLEAN /\ alive \in BOOLEAN /\ timedOut \in BOOLEAN
  /\ pool \in {"open", "shut", "none"}
  /\ starts \in Nat
  /\ listenFd \in {"none", "open", "dead"}
  /\ eventFds \in {"none", "open"}
  /\ io \in [Reactor -> IoPC]
  /\ submitting \in [Reactor -> Task \cup {NoTask}]
  /\ task \in [Task -> TaskPC]
  /\ inFlightTasks \in Nat
  /\ drainMutex \in Stopper \cup {NoThread}
  /\ spc \in [Stopper -> StopPC]
  /\ faults \subseteq Fault

\* inFlightTasks_ counts exactly the tasks that are on their way through the pool,
\* also when a submission was refused, and those a destroyed pool has dropped.
OnTheWay == {t \in Task : task[t] \in {"counted", "refused", "queued", "running",
                                       "answered", "dropped"}}
CountExact == inFlightTasks = Cardinality(OnTheWay)

\* No task writes a response to an eventfd that stop() has closed (the number may
\* be another file by then), unless a drain has been given up at its deadline.
NoLateWrite == "lateWrite" \in faults => timedOut

\* A server with its own pool is never used by a task after its destruction, not
\* even when the drain was given up: the pool is joined before the members go.
OwnPoolOutlives == owned => "useAfterFree" \notin faults


(* What the repository says and the code does not do. *)

\* HttpServer.cpp:133-136, README.md:388: once stop() has drained the tasks, none
\* of them uses the server any more, whoever owns the pool.
DrainedTasksEnd == "useAfterFree" \in faults => timedOut

\* HttpServer.cpp:140: releasing the fds is idempotent.
FdsClosedOnce == "doubleClose" \notin faults

\* HttpServer.cpp:74: a server that is started again after stop() has a pool.
RestartHasPool == "nullPool" \notin faults
=============================================================================
