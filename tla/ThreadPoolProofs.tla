-------------------------- MODULE ThreadPoolProofs --------------------------
(***************************************************************************)
(* Proofs about ThreadPool, for any finite set of workers, any callers and *)
(* any tasks.  The invariant behind all of them says where the accepted    *)
(* tasks are and that activeTasks_ counts those not yet taken off it.      *)
(***************************************************************************)
EXTENDS ThreadPool, FiniteSetTheorems, TLAPS

Running == {w \in Worker : wpc[w] = "run"}
Busy == {w \in Worker : wpc[w] \in {"run", "dec"}}

\* activeTasks_ is the length of the queue plus the workers that have a task
\* they have not counted off.
Account == activeTasks = Len(tasks) + Cardinality(Busy)

\* The pool holds only tasks that were accepted, and no empty function.
Known ==
  /\ accepted \cap EmptyTask = {}
  /\ finished \subseteq accepted
  /\ \A i \in 1..Len(tasks) : tasks[i] \in accepted
  /\ \A w \in Worker : wpc[w] = "run" => wtask[w] \in accepted

\* No task is in two places.
Once ==
  /\ \A i, j \in 1..Len(tasks) : tasks[i] = tasks[j] => i = j
  /\ \A i \in 1..Len(tasks) : tasks[i] \notin finished
  /\ \A v, w \in Worker : wpc[v] = "run" /\ wpc[w] = "run" /\ wtask[v] = wtask[w] => v = w
  /\ \A w \in Worker : wpc[w] = "run" =>
       wtask[w] \notin finished /\ \A i \in 1..Len(tasks) : wtask[w] # tasks[i]

\* Every accepted task is in some place.
Covered ==
  \A t \in accepted : \/ \E i \in 1..Len(tasks) : tasks[i] = t
                      \/ \E w \in Worker : wpc[w] = "run" /\ wtask[w] = t
                      \/ t \in finished

IInv == TypeOK /\ Account /\ Known /\ Once /\ Covered

-----------------------------------------------------------------------------
\* The set of busy workers is finite, and empty when its cardinality is zero.
LEMMA BusyFinite ==
  IsFiniteSet(Busy) /\ Cardinality(Busy) \in Nat /\ (Cardinality(Busy) = 0 => Busy = {})
<1>1. IsFiniteSet(Worker) /\ Busy \subseteq Worker
  BY PoolAssumption DEF Busy
<1>2. IsFiniteSet(Busy)
  BY <1>1, FS_Subset
<1> QED
  BY <1>2, FS_CardinalityType, FS_EmptySet

\* What the operators of Sequences do to the positions of a queue.
LEMMA QueueFacts ==
  ASSUME NEW S, NEW q \in Seq(S)
  PROVE  /\ Len(q) \in Nat
         /\ \A i \in 1..Len(q) : q[i] \in S
         /\ q = <<>> <=> Len(q) = 0
         /\ \A x \in S : /\ Append(q, x) \in Seq(S)
                         /\ Len(Append(q, x)) = Len(q) + 1
                         /\ Append(q, x)[Len(q) + 1] = x
                         /\ \A i \in 1..Len(q) : Append(q, x)[i] = q[i]
         /\ q # <<>> => /\ Tail(q) \in Seq(S)
                        /\ Head(q) = q[1] /\ 1 \in 1..Len(q)
                        /\ Len(Tail(q)) = Len(q) - 1
                        /\ \A i \in 1..Len(Tail(q)) : Tail(q)[i] = q[i + 1]
<1>1. q # <<>> => /\ Tail(q) \in Seq(S)
                  /\ Head(q) = q[1] /\ 1 \in 1..Len(q)
                  /\ Len(Tail(q)) = Len(q) - 1
                  /\ \A i \in 1..Len(Tail(q)) : Tail(q)[i] = q[i + 1]
  OBVIOUS
<1>2. q = <<>> <=> Len(q) = 0
  OBVIOUS
<1> QED
  BY <1>1, <1>2

\* A step that touches neither the tasks nor the workers that have one.
LEMMA QuietStep ==
  ASSUME Account, Known, Once, Covered,
         UNCHANGED <<tasks, activeTasks, wtask, accepted, finished>>,
         \A w \in Worker : /\ wpc'[w] = "run" <=> wpc[w] = "run"
                           /\ wpc'[w] = "dec" <=> wpc[w] = "dec"
  PROVE  Account' /\ Known' /\ Once' /\ Covered'
<1>1. Busy' = Busy
  BY DEF Busy
<1>2. Account'
  BY <1>1 DEF Account
<1>3. Known'
  BY DEF Known
<1>4. Once'
  BY DEF Once
<1>5. Covered'
  BY DEF Covered
<1> QED
  BY <1>2, <1>3, <1>4, <1>5

-----------------------------------------------------------------------------
\* Initially the queue is empty, no worker is busy and nothing was accepted.
LEMMA InitInv == Init => IInv
<1> SUFFICES ASSUME Init PROVE IInv
  OBVIOUS
<1>1. TypeOK
  BY DEF Init, TypeOK, WorkerPC, CallerPC
<1>2. Busy = {} /\ Len(tasks) = 0
  BY DEF Init, Busy
<1>3. Account
  BY <1>2, FS_EmptySet DEF Init, Account
<1>4. Known /\ Once /\ Covered
  BY <1>2 DEF Init, Known, Once, Covered
<1> QED
  BY <1>1, <1>3, <1>4 DEF IInv

\* A task moves from the head of the queue to the hands of worker w.
LEMMA TakeTaskInv ==
  ASSUME IInv, NEW w \in Worker, TakeTask(w)
  PROVE  IInv'
<1> USE DEF IInv
<1>1. tasks \in Seq(Task) /\ tasks # <<>> /\ tasks' = Tail(tasks)
  BY DEF TypeOK, TakeTask, Pop
<1>2. /\ Tail(tasks) \in Seq(Task)
      /\ Len(tasks) \in Nat /\ Len(tasks') = Len(tasks) - 1
      /\ Head(tasks) = tasks[1] /\ 1 \in 1..Len(tasks) /\ tasks[1] \in Task
      /\ \A i \in 1..Len(tasks') : tasks'[i] = tasks[i + 1] /\ i + 1 \in 1..Len(tasks)
  BY <1>1, QueueFacts
<1>3. /\ wpc[w] = "lock" /\ wpc' = [wpc EXCEPT ![w] = "run"]
      /\ wtask' = [wtask EXCEPT ![w] = tasks[1]]
      /\ wpc'[w] = "run" /\ wtask'[w] = tasks[1]
      /\ \A v \in Worker : v # w => wpc'[v] = wpc[v] /\ wtask'[v] = wtask[v]
      /\ UNCHANGED <<running, activeTasks, mutex, cpc, accepted, refused, finished>>
  BY <1>2 DEF TakeTask, TypeOK, history
<1>4. TypeOK'
  BY <1>1, <1>2, <1>3 DEF TypeOK, WorkerPC
<1>5. Account'
  <2>1. Busy' = Busy \cup {w} /\ w \notin Busy
    BY <1>3 DEF Busy
  <2>2. Cardinality(Busy') = Cardinality(Busy) + 1
    BY <2>1, BusyFinite, FS_AddElement
  <2> QED
    BY <2>2, <1>2, <1>3, BusyFinite DEF Account
<1>6. Known'
  BY <1>2, <1>3 DEF Known
<1>7. Once'
  <2>1. \A i, j \in 1..Len(tasks') : tasks'[i] = tasks'[j] => i = j
    BY <1>2 DEF Once
  <2>2. \A i \in 1..Len(tasks') : tasks'[i] \notin finished /\ tasks'[i] # tasks[1]
    BY <1>2 DEF Once
  <2>3. \A v \in Worker : wpc'[v] = "run" => v = w \/ wpc[v] = "run"
    BY <1>3
  <2>4. tasks[1] \notin finished /\ \A v \in Worker : wpc[v] = "run" => wtask[v] # tasks[1]
    BY <1>2 DEF Once
  <2>5. \A v \in Worker : wpc'[v] = "run" =>
          wtask'[v] \notin finished /\ \A i \in 1..Len(tasks') : wtask'[v] # tasks'[i]
    BY <2>2, <2>3, <2>4, <1>2, <1>3 DEF Once
  <2>6. \A u, v \in Worker :
          wpc'[u] = "run" /\ wpc'[v] = "run" /\ wtask'[u] = wtask'[v] => u = v
    BY <2>3, <2>4, <1>3 DEF Once
  <2> QED
    BY <2>1, <2>2, <2>5, <2>6, <1>3 DEF Once
<1>8. Covered'
  <2> SUFFICES ASSUME NEW t \in accepted
               PROVE  \/ \E i \in 1..Len(tasks') : tasks'[i] = t
                      \/ \E v \in Worker : wpc'[v] = "run" /\ wtask'[v] = t
                      \/ t \in finished
    BY <1>3 DEF Covered
  <2>1. CASE \E i \in 1..Len(tasks) : tasks[i] = t
    <3>1. PICK i \in 1..Len(tasks) : tasks[i] = t
      BY <2>1
    <3>2. CASE i = 1
      BY <3>1, <3>2, <1>3
    <3>3. CASE i # 1
      <4>1. i - 1 \in 1..Len(tasks') /\ (i - 1) + 1 = i
        BY <3>3, <1>2
      <4> QED
        BY <3>1, <4>1, <1>2
    <3> QED
      BY <3>2, <3>3
  <2>2. CASE \E v \in Worker : wpc[v] = "run" /\ wtask[v] = t
    BY <2>2, <1>3
  <2> QED
    BY <2>1, <2>2 DEF Covered
<1> QED
  BY <1>4, <1>5, <1>6, <1>7, <1>8

\* The task worker w has run joins the finished ones.
LEMMA RunTaskInv ==
  ASSUME IInv, NEW w \in Worker, RunTask(w)
  PROVE  IInv'
<1> USE DEF IInv
<1>1. wpc[w] = "run" /\ wtask[w] \in accepted /\ wtask[w] \notin EmptyTask
  BY DEF RunTask, Known
<1>2. /\ wpc' = [wpc EXCEPT ![w] = "dec"]
      /\ wpc'[w] = "dec" /\ \A v \in Worker : v # w => wpc'[v] = wpc[v]
      /\ finished' = finished \cup {wtask[w]}
      /\ UNCHANGED <<running, tasks, activeTasks, mutex, wtask, cpc, accepted, refused>>
  BY <1>1 DEF RunTask, TypeOK
<1>3. TypeOK'
  BY <1>1, <1>2 DEF TypeOK, WorkerPC
<1>4. Account'
  <2>1. Busy' = Busy
    BY <1>1, <1>2 DEF Busy
  <2> QED
    BY <2>1, <1>2 DEF Account
<1>5. Known'
  BY <1>1, <1>2 DEF Known
<1>6. \A v \in Worker : wpc'[v] = "run" => v # w /\ wpc[v] = "run" /\ wtask[v] # wtask[w]
  BY <1>1, <1>2 DEF Once
<1>7. Once'
  BY <1>1, <1>2, <1>6 DEF Once
<1>8. Covered'
  BY <1>1, <1>2 DEF Covered
<1> QED
  BY <1>3, <1>4, <1>5, <1>7, <1>8

\* Worker w counts its task off: it is one of the busy ones, so the count was
\* at least one.
LEMMA DecrementInv ==
  ASSUME IInv, NEW w \in Worker, Decrement(w)
  PROVE  IInv'
<1> USE DEF IInv
<1>1. /\ wpc[w] = "dec" /\ activeTasks' = activeTasks - 1
      /\ wpc'[w] \in {"fin", "check"} /\ wpc' \in [Worker -> WorkerPC]
      /\ \A v \in Worker : v # w => wpc'[v] = wpc[v] /\ wtask'[v] = wtask[v]
      /\ wtask' \in [Worker -> Task \cup {NoTask}]
      /\ UNCHANGED <<running, tasks, mutex, cpc, accepted, refused, finished>>
  BY DEF Decrement, TypeOK, WorkerPC, history
<1>2. Busy' = Busy \ {w} /\ w \in Busy
  BY <1>1 DEF Busy
<1>3. Cardinality(Busy') = Cardinality(Busy) - 1
  BY <1>2, BusyFinite, FS_RemoveElement
<1>4. Len(tasks) \in Nat /\ Cardinality(Busy) \in Nat /\ Cardinality(Busy) # 0
  BY <1>2, BusyFinite, QueueFacts DEF TypeOK
<1>5. Account'
  BY <1>1, <1>3, <1>4 DEF Account
<1>6. TypeOK'
  BY <1>1, <1>4 DEF TypeOK, Account
<1>7. \A v \in Worker : /\ wpc'[v] = "run" <=> wpc[v] = "run"
                        /\ wpc[v] = "run" => wtask'[v] = wtask[v]
  BY <1>1
<1>8. Known' /\ Once'
  BY <1>1, <1>7 DEF Known, Once
<1>9. Covered'
  BY <1>1, <1>7 DEF Covered
<1> QED
  BY <1>5, <1>6, <1>8, <1>9

\* A fresh task is counted and put at the end of the queue.
LEMMA EnqueueInv ==
  ASSUME IInv, NEW c \in Caller, NEW t \in Task, Enqueue(c, t)
  PROVE  IInv'
<1> USE DEF IInv
<1>1. /\ t \notin accepted /\ t \notin EmptyTask
      /\ activeTasks' = activeTasks + 1 /\ tasks' = Append(tasks, t)
      /\ accepted' = accepted \cup {t} /\ cpc' = [cpc EXCEPT ![c] = "notify"]
      /\ UNCHANGED <<running, mutex, wpc, wtask, refused, finished>>
  BY DEF Enqueue, Fresh, RejectsEmpty, Count
<1>2. /\ tasks' \in Seq(Task) /\ Len(tasks) \in Nat
      /\ Len(tasks') = Len(tasks) + 1 /\ tasks'[Len(tasks) + 1] = t
      /\ \A i \in 1..Len(tasks) : tasks'[i] = tasks[i]
  BY <1>1, QueueFacts DEF TypeOK
<1>3. TypeOK'
  BY <1>1, <1>2 DEF TypeOK, CallerPC
<1>4. Account'
  <2>1. Busy' = Busy
    BY <1>1 DEF Busy
  <2> QED
    BY <2>1, <1>1, <1>2, BusyFinite DEF Account
<1>5. \A i \in 1..Len(tasks') : \/ i \in 1..Len(tasks) /\ tasks'[i] = tasks[i]
                                \/ i = Len(tasks) + 1 /\ tasks'[i] = t
  BY <1>2
<1>6. Known'
  BY <1>1, <1>5 DEF Known
<1>7. Once'
  BY <1>1, <1>2, <1>5 DEF Once, Known
<1>8. Covered'
  <2> SUFFICES ASSUME NEW u \in accepted'
               PROVE  \/ \E i \in 1..Len(tasks') : tasks'[i] = u
                      \/ \E w \in Worker : wpc[w] = "run" /\ wtask[w] = u
                      \/ u \in finished
    BY <1>1 DEF Covered
  <2>1. CASE u = t
    BY <2>1, <1>2
  <2>2. CASE u # t
    BY <2>2, <1>1, <1>2 DEF Covered
  <2> QED
    BY <2>1, <2>2
<1> QED
  BY <1>3, <1>4, <1>6, <1>7, <1>8

\* The steps of a worker that leave its task alone.
LEMMA QuietWorkerInv ==
  ASSUME IInv, NEW w \in Worker,
         \/ CheckRunning(w) \/ ExitLoop(w) \/ PredicateFalse(w) \/ FallAsleep(w)
         \/ SpuriousWakeup(w) \/ NotifyFinished(w)
  PROVE  IInv'
<1> USE DEF IInv
<1>1. /\ UNCHANGED <<tasks, activeTasks, wtask, accepted, refused, finished, running>>
      /\ wpc' \in [Worker -> WorkerPC] /\ cpc' \in [Caller -> CallerPC]
      /\ mutex' \in Worker \cup Caller \cup {NoThread}
      /\ wpc[w] \notin {"run", "dec"} /\ wpc'[w] \notin {"run", "dec"}
      /\ \A v \in Worker : v # w => wpc'[v] = wpc[v]
  <2>1. CASE CheckRunning(w)
    BY <2>1 DEF CheckRunning, TypeOK, WorkerPC, history
  <2>2. CASE ExitLoop(w)
    BY <2>2 DEF ExitLoop, TypeOK, WorkerPC, history
  <2>3. CASE PredicateFalse(w)
    BY <2>3 DEF PredicateFalse, TypeOK, WorkerPC, history
  <2>4. CASE FallAsleep(w)
    BY <2>4 DEF FallAsleep, TypeOK, WorkerPC, history
  <2>5. CASE SpuriousWakeup(w)
    BY <2>5 DEF SpuriousWakeup, TypeOK, WorkerPC, history
  <2>6. CASE NotifyFinished(w)
    BY <2>6 DEF NotifyFinished, TypeOK, WorkerPC, CallerPC, history
  <2> QED
    BY <2>1, <2>2, <2>3, <2>4, <2>5, <2>6
<1>2. TypeOK'
  BY <1>1 DEF TypeOK
<1>3. \A v \in Worker : /\ wpc'[v] = "run" <=> wpc[v] = "run"
                        /\ wpc'[v] = "dec" <=> wpc[v] = "dec"
  BY <1>1
<1> QED
  BY <1>1, <1>2, <1>3, QuietStep

\* The steps of a caller other than pushing a task.
LEMMA QuietCallerInv ==
  ASSUME IInv, NEW c \in Caller,
         \/ CallerStep(c) \/ WaitCall(c) \/ ShutdownCall(c)
         \/ \E t \in Task : EnqueueEmpty(c, t) \/ EnqueueStopped(c, t)
  PROVE  IInv'
<1> USE DEF IInv
<1>1. /\ UNCHANGED <<tasks, activeTasks, wtask, accepted, finished>>
      /\ running' \in BOOLEAN /\ refused' \subseteq Task
      /\ wpc' \in [Worker -> WorkerPC] /\ cpc' \in [Caller -> CallerPC]
      /\ mutex' \in Worker \cup Caller \cup {NoThread}
      /\ \A v \in Worker : wpc'[v] = wpc[v] \/ (wpc[v] = "sleep" /\ wpc'[v] = "lock")
  <2>1. CASE NotifyOne(c)
    <3>1. CASE \E w \in Worker : wpc[w] = "sleep"
      BY <2>1, <3>1 DEF NotifyOne, WakeOne, TypeOK, WorkerPC, CallerPC, history
    <3>2. CASE ~\E w \in Worker : wpc[w] = "sleep"
      BY <2>1, <3>2 DEF NotifyOne, WakeOne, TypeOK, CallerPC, history
    <3> QED
      BY <3>1, <3>2
  <2>2. CASE WaitReturn(c) \/ WaitPredicateFalse(c) \/ WaitFallAsleep(c) \/ WaitCall(c)
    BY <2>2 DEF WaitReturn, WaitPredicateFalse, WaitFallAsleep, WaitCall,
                TypeOK, CallerPC, history
  <2>3. CASE ShutdownCall(c) \/ ShutdownStore(c) \/ ShutdownReturn(c)
    BY <2>3 DEF ShutdownCall, ShutdownStore, ShutdownReturn, TypeOK, CallerPC, history
  <2>4. CASE ShutdownNotify(c)
    BY <2>4 DEF ShutdownNotify, TypeOK, WorkerPC, CallerPC, history
  <2>5. CASE \E t \in Task : EnqueueEmpty(c, t) \/ EnqueueStopped(c, t)
    BY <2>5 DEF EnqueueEmpty, EnqueueStopped, TypeOK
  <2> QED
    BY <2>1, <2>2, <2>3, <2>4, <2>5 DEF CallerStep
<1>2. TypeOK'
  BY <1>1 DEF TypeOK
<1>3. \A v \in Worker : /\ wpc'[v] = "run" <=> wpc[v] = "run"
                        /\ wpc'[v] = "dec" <=> wpc[v] = "dec"
  BY <1>1
<1> QED
  BY <1>1, <1>2, <1>3, QuietStep

\* Every step preserves the invariant.
LEMMA StepInv == IInv /\ [Next]_vars => IInv'
<1> SUFFICES ASSUME IInv, [Next]_vars PROVE IInv'
  OBVIOUS
<1>1. ASSUME NEW w \in Worker, WorkerStep(w) \/ SpuriousWakeup(w) PROVE IInv'
  BY <1>1, QuietWorkerInv, TakeTaskInv, RunTaskInv, DecrementInv DEF WorkerStep
<1>2. ASSUME NEW c \in Caller, CallerStep(c) \/ CallerBegin(c) PROVE IInv'
  BY <1>2, QuietCallerInv, EnqueueInv DEF CallerBegin
<1>3. CASE UNCHANGED vars
  BY <1>3, QuietStep DEF vars, IInv, TypeOK
<1> QED
  BY <1>1, <1>2, <1>3 DEF Next

\* IInv is an invariant of the thread pool.
THEOREM Invariance == Spec => []IInv
  BY InitInv, StepInv, PTL DEF Spec

\* Every variable of the pool stays in its range; in particular activeTasks_, an
\* unsigned counter in the code, never goes below zero.
THEOREM TypeCorrect == Spec => []TypeOK
<1>1. IInv => TypeOK
  BY DEF IInv
<1> QED
  BY Invariance, <1>1, PTL

-----------------------------------------------------------------------------
\* No accepted task is lost, duplicated or run twice.
THEOREM TasksInOnePlace == Spec => []TaskInOnePlace
<1>1. ASSUME IInv PROVE TaskInOnePlace
  <2> SUFFICES ASSUME NEW t \in accepted
               PROVE  \E p \in Places(t) : Places(t) = {p}
    BY DEF TaskInOnePlace
  <2>1. CASE \E i \in 1..Len(tasks) : tasks[i] = t
    <3>1. PICK i \in 1..Len(tasks) : tasks[i] = t
      BY <2>1
    <3>2. Places(t) = {<<"queue", i>>}
      BY <1>1, <3>1 DEF Places, IInv, Once
    <3> QED
      BY <3>2
  <2>2. CASE \E w \in Worker : wpc[w] = "run" /\ wtask[w] = t
    <3>1. PICK w \in Worker : wpc[w] = "run" /\ wtask[w] = t
      BY <2>2
    <3>2. Places(t) = {<<"worker", w>>}
      BY <1>1, <3>1 DEF Places, IInv, Once
    <3> QED
      BY <3>2
  <2>3. CASE t \in finished
    <3>1. Places(t) = {<<"finished", t>>}
      BY <1>1, <2>3 DEF Places, IInv, Once
    <3> QED
      BY <3>1
  <2> QED
    BY <1>1, <2>1, <2>2, <2>3 DEF IInv, Covered
<1> QED
  BY Invariance, <1>1, PTL

\* When waitForAllTasks returns, everything accepted has been run: an empty
\* queue and a zero count leave no busy worker, so every task is finished.
THEOREM WaitForAllTasks == Spec => WaitMeansDone
<1>1. ASSUME IInv, AllDone PROVE accepted \subseteq finished
  <2>1. Cardinality(Busy) = 0 /\ Len(tasks) = 0
    BY <1>1, BusyFinite, QueueFacts DEF IInv, Account, AllDone, TypeOK
  <2>2. Busy = {}
    BY <2>1, BusyFinite
  <2> QED
    BY <1>1, <2>1, <2>2 DEF IInv, Covered, Busy
<1>2. ASSUME IInv, [Next]_vars, NEW c \in Caller, cpc[c] = "wlock", cpc'[c] = "idle"
      PROVE  accepted \subseteq finished
  <2>1. ASSUME NEW w \in Worker, WorkerStep(w) \/ SpuriousWakeup(w) PROVE FALSE
    BY <1>2, <2>1 DEF WorkerStep, SpuriousWakeup, CheckRunning, TakeTask, ExitLoop,
         PredicateFalse, FallAsleep, RunTask, Decrement, NotifyFinished
  <2>2. ASSUME NEW d \in Caller, CallerStep(d) \/ CallerBegin(d) PROVE d = c /\ WaitReturn(d)
    <3>1. ASSUME d # c PROVE cpc'[c] = cpc[c]
      BY <1>2, <2>2, <3>1 DEF CallerStep, CallerBegin, NotifyOne, WaitReturn,
           WaitPredicateFalse, WaitFallAsleep, ShutdownStore, ShutdownNotify,
           ShutdownReturn, EnqueueEmpty, Enqueue, EnqueueStopped, WaitCall,
           ShutdownCall, IInv, TypeOK
    <3>2. d = c
      BY <1>2, <3>1
    <3> QED
      BY <1>2, <2>2, <3>2 DEF CallerStep, CallerBegin, NotifyOne, WaitPredicateFalse,
           WaitFallAsleep, ShutdownStore, ShutdownNotify, ShutdownReturn,
           EnqueueEmpty, Enqueue, EnqueueStopped, WaitCall, ShutdownCall, IInv, TypeOK
  <2>3. CASE UNCHANGED vars
    BY <1>2, <2>3 DEF vars
  <2> QED
    BY <1>1, <1>2, <2>1, <2>2, <2>3 DEF Next, WaitReturn
<1>3. ASSUME IInv, [Next]_vars
      PROVE  [\A c \in Caller :
                cpc[c] = "wlock" /\ cpc'[c] = "idle" => accepted \subseteq finished]_vars
  BY <1>2, <1>3
<1> QED
  BY Invariance, <1>3, PTL DEF Spec, WaitMeansDone

-----------------------------------------------------------------------------
\* The abstract queue's set of running tasks.
Executing == {wtask[w] : w \in {v \in Worker : wpc[v] = "run"}}

\* Pushing a task is Submit, taking it Start, running it Finish, storing false in
\* running_ Close; every other step of the pool changes nothing of the queue's.
LEMMA StepRefines ==
  ASSUME IInv, [Next]_vars
  PROVE  [Queue!TQNext]_(Queue!tqVars)
<1> USE DEF IInv
<1>1. ASSUME NEW w \in Worker, TakeTask(w) PROVE Queue!Start
  <2>1. /\ tasks # <<>> /\ tasks' = Tail(tasks) /\ wpc[w] = "lock"
        /\ wpc' = [wpc EXCEPT ![w] = "run"] /\ wtask' = [wtask EXCEPT ![w] = Head(tasks)]
        /\ UNCHANGED <<running, finished>>
    BY <1>1 DEF TakeTask, Pop, history
  <2>2. Executing' = Executing \cup {Head(tasks)}
    BY <2>1 DEF Executing, TypeOK
  <2> QED
    BY <2>1, <2>2 DEF Queue!Start, Executing
<1>2. ASSUME NEW w \in Worker, RunTask(w) PROVE \E t \in Task : Queue!Finish(t)
  <2>1. /\ wpc[w] = "run" /\ wpc' = [wpc EXCEPT ![w] = "dec"] /\ wtask[w] \in accepted
        /\ finished' = finished \cup {wtask[w]} /\ UNCHANGED <<running, tasks, wtask>>
    BY <1>2 DEF RunTask, Known
  <2>2. Executing' = Executing \ {wtask[w]} /\ wtask[w] \in Executing
    BY <2>1 DEF Executing, TypeOK, Once
  <2> QED
    BY <2>1, <2>2 DEF Queue!Finish, Executing, TypeOK
<1>3. ASSUME NEW c \in Caller, NEW t \in Task, Enqueue(c, t) PROVE Queue!Submit(t)
  <2>1. /\ running /\ t \notin accepted /\ tasks' = Append(tasks, t)
        /\ UNCHANGED <<running, wpc, wtask, finished>>
    BY <1>3 DEF Enqueue, Fresh, Accepting
  <2>2. t \notin Executing \cup finished /\ \A i \in 1..Len(tasks) : tasks[i] # t
    BY <2>1 DEF Executing, Known
  <2> QED
    BY <2>1, <2>2 DEF Queue!Submit, Executing
<1>4. ASSUME NEW c \in Caller, ShutdownStore(c) PROVE Queue!Close
  BY <1>4 DEF ShutdownStore, Queue!Close, history
<1>5. ASSUME UNCHANGED <<running, tasks, wtask, finished>>,
             \A w \in Worker : wpc'[w] = "run" <=> wpc[w] = "run"
      PROVE  UNCHANGED Queue!tqVars
  <2>1. Executing' = Executing
    BY <1>5 DEF Executing
  <2> QED
    BY <1>5, <2>1 DEF Queue!tqVars, Executing
<1>6. ASSUME NEW w \in Worker, Decrement(w) PROVE UNCHANGED Queue!tqVars
  <2>1. /\ wpc[w] = "dec" /\ wpc'[w] # "run"
        /\ \A v \in Worker : v # w => wpc'[v] = wpc[v] /\ wtask'[v] = wtask[v]
        /\ UNCHANGED <<running, tasks, finished>>
    BY <1>6 DEF Decrement, TypeOK, history
  <2>2. Executing' = Executing
    BY <2>1 DEF Executing
  <2> QED
    BY <2>1, <2>2 DEF Queue!tqVars, Executing
<1>7. ASSUME NEW w \in Worker,
             \/ CheckRunning(w) \/ ExitLoop(w) \/ PredicateFalse(w) \/ FallAsleep(w)
             \/ SpuriousWakeup(w) \/ NotifyFinished(w)
      PROVE  UNCHANGED Queue!tqVars
  <2>1. UNCHANGED <<running, tasks, wtask, finished>>
    BY <1>7 DEF CheckRunning, ExitLoop, PredicateFalse, FallAsleep, SpuriousWakeup,
         NotifyFinished, history
  <2>2. \A v \in Worker : wpc'[v] = "run" <=> wpc[v] = "run"
    BY <1>7 DEF CheckRunning, ExitLoop, PredicateFalse, FallAsleep, SpuriousWakeup,
         NotifyFinished, TypeOK
  <2> QED
    BY <1>5, <2>1, <2>2
<1>8. ASSUME NEW c \in Caller,
             \/ NotifyOne(c) \/ WaitReturn(c) \/ WaitPredicateFalse(c)
             \/ WaitFallAsleep(c) \/ ShutdownNotify(c) \/ ShutdownReturn(c)
             \/ WaitCall(c) \/ ShutdownCall(c)
             \/ \E t \in Task : EnqueueEmpty(c, t) \/ EnqueueStopped(c, t)
      PROVE  UNCHANGED Queue!tqVars
  <2>1. UNCHANGED <<running, tasks, wtask, finished>>
    BY <1>8 DEF NotifyOne, WaitReturn, WaitPredicateFalse, WaitFallAsleep,
         ShutdownNotify, ShutdownReturn, WaitCall, ShutdownCall, EnqueueEmpty,
         EnqueueStopped, history
  <2>2. \A v \in Worker : wpc'[v] = "run" <=> wpc[v] = "run"
    <3>1. CASE NotifyOne(c)
      <4>1. CASE \E w \in Worker : wpc[w] = "sleep"
        BY <3>1, <4>1 DEF NotifyOne, WakeOne, TypeOK
      <4> QED
        BY <3>1, <4>1 DEF NotifyOne, WakeOne
    <3>2. CASE ~NotifyOne(c)
      BY <1>8, <3>2 DEF WaitReturn, WaitPredicateFalse, WaitFallAsleep,
         ShutdownNotify, ShutdownReturn, WaitCall, ShutdownCall, EnqueueEmpty,
         EnqueueStopped, TypeOK
    <3> QED
      BY <3>1, <3>2
  <2> QED
    BY <1>5, <2>1, <2>2
<1>9. CASE UNCHANGED vars
  BY <1>5, <1>9 DEF vars
<1>10. ASSUME NEW w \in Worker, WorkerStep(w) \/ SpuriousWakeup(w)
       PROVE  Queue!TQNext \/ UNCHANGED Queue!tqVars
  <2>1. CASE TakeTask(w)
    BY <1>1, <2>1 DEF Queue!TQNext
  <2>2. CASE RunTask(w)
    BY <1>2, <2>2 DEF Queue!TQNext
  <2> QED
    BY <1>6, <1>7, <1>10, <2>1, <2>2 DEF WorkerStep
<1>11. ASSUME NEW c \in Caller, CallerStep(c) \/ CallerBegin(c)
       PROVE  Queue!TQNext \/ UNCHANGED Queue!tqVars
  <2>1. CASE ShutdownStore(c)
    BY <1>4, <2>1 DEF Queue!TQNext
  <2>2. CASE \E t \in Task : Enqueue(c, t)
    BY <1>3, <2>2 DEF Queue!TQNext
  <2> QED
    BY <1>8, <1>11, <2>1, <2>2 DEF CallerStep, CallerBegin
<1> QED
  BY <1>9, <1>10, <1>11 DEF Next

\* The pool implements the abstract task queue: tasks are accepted only until
\* the shutdown, started in the order of submission, and run once.
THEOREM Refinement == Spec => ImplementsTaskQueue
<1>1. Init => Queue!TQInit
  <2> SUFFICES ASSUME Init PROVE Queue!TQInit
    OBVIOUS
  <2>1. Executing = {}
    BY DEF Init, Executing
  <2> QED
    BY <2>1 DEF Init, Queue!TQInit, Executing
<1>2. IInv /\ [Next]_vars => [Queue!TQNext]_(Queue!tqVars)
  BY StepRefines
<1> QED
  BY Invariance, <1>1, <1>2, PTL DEF Spec, ImplementsTaskQueue, Queue!TQSpec
=============================================================================
