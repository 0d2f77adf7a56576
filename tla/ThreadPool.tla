----------------------------- MODULE ThreadPool -----------------------------
(***************************************************************************)
(* utils::ThreadPool: worker threads, one mutex (queueMutex_), the         *)
(* condition variable condition_ the workers sleep on, finishedCondition_  *)
(* the callers of waitForAllTasks sleep on, and the two atomics running_   *)
(* and activeTasks_ that are also read and written without the mutex.      *)
(*                                                                         *)
(* A critical section is one step where nothing it touches can be changed  *)
(* without the mutex.  The wait predicates are not such a section: they    *)
(* read running_ (or activeTasks_), which others write without the mutex,  *)
(* so evaluating the predicate and going to sleep are two steps, with the  *)
(* mutex held in between ("block").                                        *)
(***************************************************************************)
EXTENDS Naturals, Sequences, FiniteSets

CONSTANTS
  Worker,    \* the threads of workers_
  Caller,    \* threads that submit tasks and wait for them
  Closer,    \* the callers that also call shutdown()
  Task,      \* the std::function objects submitted, each once
  EmptyTask, \* those that are an empty std::function
  NoTask, NoThread

ASSUME PoolAssumption ==
  /\ IsFiniteSet(Worker)
  /\ Closer \subseteq Caller
  /\ EmptyTask \subseteq Task
  /\ NoTask \notin Task
  /\ Worker \cap Caller = {}
  /\ NoThread \notin Worker \cup Caller

VARIABLES
  running,      \* running_
  tasks,        \* tasks_
  activeTasks,  \* activeTasks_
  mutex,        \* the thread that holds queueMutex_ across steps
  wpc,          \* where each worker is in workerFunction
  wtask,        \* the task each worker has taken
  cpc,          \* where each caller is in the call it makes
  accepted,     \* history: tasks pushed to tasks_
  refused,      \* history: tasks whose submission threw
  finished      \* history: tasks whose body has returned or thrown

vars == <<running, tasks, activeTasks, mutex, wpc, wtask, cpc,
          accepted, refused, finished>>

WorkerPC == {"check", "lock", "block", "sleep", "run", "dec", "fin", "exit"}
CallerPC == {"idle", "notify", "store", "wake", "join", "wlock", "wblock", "wsleep"}

Init ==
  /\ running = TRUE
  /\ tasks = <<>>
  /\ activeTasks = 0
  /\ mutex = NoThread
  /\ wpc = [w \in Worker |-> "check"]
  /\ wtask = [w \in Worker |-> NoTask]
  /\ cpc = [c \in Caller |-> "idle"]
  /\ accepted = {}
  /\ refused = {}
  /\ finished = {}

history == <<accepted, refused, finished>>

(***************************************************************************)
(* workerFunction.                                                         *)
(***************************************************************************)

\* while (running_.load())
CheckRunning(w) ==
  /\ wpc[w] = "check"
  /\ wpc' = [wpc EXCEPT ![w] = IF running THEN "lock" ELSE "exit"]
  /\ UNCHANGED <<running, tasks, activeTasks, mutex, wtask, cpc, history>>

NoPop == UNCHANGED tasks  \* variant: front() without pop()
Pop == tasks' = Tail(tasks)

\* The predicate of condition_.wait holds because there is a task.
TakeTask(w) ==
  /\ wpc[w] = "lock"
  /\ mutex = NoThread
  /\ tasks # <<>>
  /\ Pop
  /\ wtask' = [wtask EXCEPT ![w] = Head(tasks)]
  /\ wpc' = [wpc EXCEPT ![w] = "run"]
  /\ UNCHANGED <<running, activeTasks, mutex, cpc, history>>

\* The predicate holds because of the shutdown alone: break.
ExitLoop(w) ==
  /\ wpc[w] = "lock"
  /\ mutex = NoThread
  /\ tasks = <<>>
  /\ ~running
  /\ wpc' = [wpc EXCEPT ![w] = "exit"]
  /\ UNCHANGED <<running, tasks, activeTasks, mutex, wtask, cpc, history>>

\* The predicate is false: the worker will sleep, and still has the mutex.
PredicateFalse(w) ==
  /\ wpc[w] = "lock"
  /\ mutex = NoThread
  /\ tasks = <<>>
  /\ running
  /\ mutex' = w
  /\ wpc' = [wpc EXCEPT ![w] = "block"]
  /\ UNCHANGED <<running, tasks, activeTasks, wtask, cpc, history>>

\* condition_.wait releases the mutex and enqueues the thread atomically.
FallAsleep(w) ==
  /\ wpc[w] = "block"
  /\ mutex' = NoThread
  /\ wpc' = [wpc EXCEPT ![w] = "sleep"]
  /\ UNCHANGED <<running, tasks, activeTasks, wtask, cpc, history>>

SpuriousWakeup(w) ==
  /\ wpc[w] = "sleep"
  /\ wpc' = [wpc EXCEPT ![w] = "lock"]
  /\ UNCHANGED <<running, tasks, activeTasks, mutex, wtask, cpc, history>>

\* task() returns, or throws a std::exception that is caught.  An empty
\* std::function is neither called nor taken off the count.
RunTask(w) ==
  /\ wpc[w] = "run"
  /\ IF wtask[w] \in EmptyTask
     THEN /\ wpc' = [wpc EXCEPT ![w] = "check"]
          /\ UNCHANGED finished
     ELSE /\ wpc' = [wpc EXCEPT ![w] = "dec"]
          /\ finished' = finished \cup {wtask[w]}
  /\ UNCHANGED <<running, tasks, activeTasks, mutex, wtask, cpc, accepted, refused>>

\* activeTasks_.fetch_sub(1), outside the mutex
Decrement(w) ==
  /\ wpc[w] = "dec"
  /\ activeTasks' = activeTasks - 1
  /\ wpc' = [wpc EXCEPT ![w] = IF activeTasks = 1 THEN "fin" ELSE "check"]
  /\ wtask' = [wtask EXCEPT ![w] = NoTask]
  /\ UNCHANGED <<running, tasks, mutex, cpc, history>>

\* The count reached zero: finishedCondition_.notify_all under the mutex, so
\* not between a caller's predicate and its sleep (L2).
NoLock == TRUE  \* variant: notify_all without queueMutex_
FinishLock == mutex = NoThread

NotifyFinished(w) ==
  /\ wpc[w] = "fin"
  /\ FinishLock
  /\ wpc' = [wpc EXCEPT ![w] = "check"]
  /\ cpc' = [c \in Caller |-> IF cpc[c] = "wsleep" THEN "wlock" ELSE cpc[c]]
  /\ UNCHANGED <<running, tasks, activeTasks, mutex, wtask, history>>

WorkerStep(w) ==
  \/ CheckRunning(w) \/ TakeTask(w) \/ ExitLoop(w) \/ PredicateFalse(w)
  \/ FallAsleep(w) \/ RunTask(w) \/ Decrement(w) \/ NotifyFinished(w)

(***************************************************************************)
(* enqueue and enqueueDetached.                                            *)
(***************************************************************************)
Fresh(t) == t \notin accepted \cup refused

\* if (!task) throw std::invalid_argument, before the mutex is taken
RejectsEmpty(t) == t \in EmptyTask

EnqueueEmpty(c, t) ==
  /\ cpc[c] = "idle"
  /\ Fresh(t)
  /\ RejectsEmpty(t)
  /\ refused' = refused \cup {t}
  /\ UNCHANGED <<running, tasks, activeTasks, mutex, wpc, wtask, cpc, accepted, finished>>

NoStopCheck == TRUE               \* variant: running_ is not checked
Accepting == running

NoCount == UNCHANGED activeTasks  \* variant: the task is not counted
Count == activeTasks' = activeTasks + 1

\* running_ is read and the task is pushed and counted under one mutex section.
Enqueue(c, t) ==
  /\ cpc[c] = "idle"
  /\ Fresh(t)
  /\ ~RejectsEmpty(t)
  /\ mutex = NoThread
  /\ Accepting
  /\ tasks' = Append(tasks, t)
  /\ Count
  /\ accepted' = accepted \cup {t}
  /\ cpc' = [cpc EXCEPT ![c] = "notify"]
  /\ UNCHANGED <<running, mutex, wpc, wtask, refused, finished>>

EnqueueStopped(c, t) ==
  /\ cpc[c] = "idle"
  /\ Fresh(t)
  /\ ~RejectsEmpty(t)
  /\ mutex = NoThread
  /\ ~Accepting
  /\ refused' = refused \cup {t}
  /\ UNCHANGED <<running, tasks, activeTasks, mutex, wpc, wtask, cpc, accepted, finished>>

NoWake == UNCHANGED wpc  \* variant: notify_one is left out
WakeOne ==
  IF \E w \in Worker : wpc[w] = "sleep"
  THEN \E w \in Worker : wpc[w] = "sleep" /\ wpc' = [wpc EXCEPT ![w] = "lock"]
  ELSE UNCHANGED wpc

\* condition_.notify_one, after the mutex is released
NotifyOne(c) ==
  /\ cpc[c] = "notify"
  /\ WakeOne
  /\ cpc' = [cpc EXCEPT ![c] = "idle"]
  /\ UNCHANGED <<running, tasks, activeTasks, mutex, wtask, history>>

(***************************************************************************)
(* waitForAllTasks.                                                        *)
(***************************************************************************)
WaitCall(c) ==
  /\ cpc[c] = "idle"
  /\ cpc' = [cpc EXCEPT ![c] = "wlock"]
  /\ UNCHANGED <<running, tasks, activeTasks, mutex, wpc, wtask, history>>

QueueEmpty == tasks = <<>>  \* variant: tasks still running are not waited for
AllDone == tasks = <<>> /\ activeTasks = 0

WaitReturn(c) ==
  /\ cpc[c] = "wlock"
  /\ mutex = NoThread
  /\ AllDone
  /\ cpc' = [cpc EXCEPT ![c] = "idle"]
  /\ UNCHANGED <<running, tasks, activeTasks, mutex, wpc, wtask, history>>

WaitPredicateFalse(c) ==
  /\ cpc[c] = "wlock"
  /\ mutex = NoThread
  /\ ~AllDone
  /\ mutex' = c
  /\ cpc' = [cpc EXCEPT ![c] = "wblock"]
  /\ UNCHANGED <<running, tasks, activeTasks, wpc, wtask, history>>

WaitFallAsleep(c) ==
  /\ cpc[c] = "wblock"
  /\ mutex' = NoThread
  /\ cpc' = [cpc EXCEPT ![c] = "wsleep"]
  /\ UNCHANGED <<running, tasks, activeTasks, wpc, wtask, history>>

(***************************************************************************)
(* shutdown: no step of it takes the mutex.                                *)
(***************************************************************************)
ShutdownCall(c) ==
  /\ c \in Closer
  /\ cpc[c] = "idle"
  /\ running
  /\ cpc' = [cpc EXCEPT ![c] = "store"]
  /\ UNCHANGED <<running, tasks, activeTasks, mutex, wpc, wtask, history>>

ShutdownStore(c) ==
  /\ cpc[c] = "store"
  /\ running' = FALSE
  /\ cpc' = [cpc EXCEPT ![c] = "wake"]
  /\ UNCHANGED <<tasks, activeTasks, mutex, wpc, wtask, history>>

\* condition_.notify_all
ShutdownNotify(c) ==
  /\ cpc[c] = "wake"
  /\ wpc' = [w \in Worker |-> IF wpc[w] = "sleep" THEN "lock" ELSE wpc[w]]
  /\ cpc' = [cpc EXCEPT ![c] = "join"]
  /\ UNCHANGED <<running, tasks, activeTasks, mutex, wtask, history>>

\* join() every worker, then workers_.clear() and return
ShutdownReturn(c) ==
  /\ cpc[c] = "join"
  /\ \A w \in Worker : wpc[w] = "exit"
  /\ cpc' = [cpc EXCEPT ![c] = "idle"]
  /\ UNCHANGED <<running, tasks, activeTasks, mutex, wpc, wtask, history>>

\* The steps of a call that has begun.
CallerStep(c) ==
  \/ NotifyOne(c)
  \/ WaitReturn(c) \/ WaitPredicateFalse(c) \/ WaitFallAsleep(c)
  \/ ShutdownStore(c) \/ ShutdownNotify(c) \/ ShutdownReturn(c)

CallerBegin(c) ==
  \/ \E t \in Task : EnqueueEmpty(c, t) \/ Enqueue(c, t) \/ EnqueueStopped(c, t)
  \/ WaitCall(c)
  \/ ShutdownCall(c)

Next ==
  \/ \E w \in Worker : WorkerStep(w) \/ SpuriousWakeup(w)
  \/ \E c \in Caller : CallerStep(c) \/ CallerBegin(c)

Spec == Init /\ [][Next]_vars

\* The scheduler runs every thread that is inside the pool's code, and a thread
\* that keeps asking for the mutex gets it (strong fairness: the mutex is free
\* again and again, not continuously).  Nobody has to call the pool, and
\* spurious wakeups need not happen.
FairSpec ==
  /\ Spec
  /\ \A w \in Worker : SF_vars(WorkerStep(w))
  /\ \A c \in Caller : SF_vars(CallerStep(c))

-----------------------------------------------------------------------------
(* Properties. *)

\* Every variable stays in its range.
TypeOK ==
  /\ running \in BOOLEAN
  /\ tasks \in Seq(Task)
  /\ activeTasks \in Nat
  /\ mutex \in Worker \cup Caller \cup {NoThread}
  /\ wpc \in [Worker -> WorkerPC]
  /\ wtask \in [Worker -> Task \cup {NoTask}]
  /\ cpc \in [Caller -> CallerPC]
  /\ accepted \subseteq Task
  /\ refused \subseteq Task
  /\ finished \subseteq Task

\* waitForAllTasks never returns early: when it returns, the body of every
\* task submitted so far has run, whoever submitted it.  The count and the
\* queue are changed at different moments, so neither alone says so.
WaitMeansDone ==
  [][\A c \in Caller :
       cpc[c] = "wlock" /\ cpc'[c] = "idle" => accepted \subseteq finished]_vars

\* No task is lost or run twice: an accepted task is in exactly one place, once:
\* a position of the queue, the hands of a worker, or among the finished ones.
Places(t) ==
  {<<"queue", i>> : i \in {j \in 1..Len(tasks) : tasks[j] = t}}
    \cup {<<"worker", w>> : w \in {v \in Worker : wpc[v] = "run" /\ wtask[v] = t}}
    \cup {<<"finished", f>> : f \in finished \cap {t}}
TaskInOnePlace == \A t \in accepted : \E p \in Places(t) : Places(t) = {p}

\* Until a shutdown every accepted task gets to run: no notify_one is lost
\* between a worker's predicate and its sleep.
AcceptedRuns == \A t \in Task : (t \in accepted) ~> (t \in finished \/ ~running)

\* Until a shutdown a sleeping waitForAllTasks returns: the last decrement is
\* made without the mutex, and its notification is not lost either.
WaiterReturns ==
  \A c \in Caller : (cpc[c] = "wsleep") ~> (cpc[c] = "idle" \/ ~running)

\* The pool implements the abstract task queue.
Queue == INSTANCE TaskQueue WITH
           open <- running,
           pending <- tasks,
           executing <- {wtask[w] : w \in {v \in Worker : wpc[v] = "run"}}
ImplementsTaskQueue == Queue!TQSpec

\* shutdown() wakes all waiting workers, joins them and returns.
ShutdownReturns == \A c \in Closer : (cpc[c] = "store") ~> (cpc[c] = "idle")
=============================================================================
