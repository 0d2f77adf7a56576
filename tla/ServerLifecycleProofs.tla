------------------------ MODULE ServerLifecycleProofs ------------------------
(***************************************************************************)
(* Proofs about ServerLifecycle, for any reactors, any finite set of tasks *)
(* and any number of restarts.  Two inductive invariants: one for any      *)
(* number of threads in stop(), which says who is responsible for a task   *)
(* and what is left of a server that is gone, and on top of it one for a   *)
(* single caller of stop(), which says what the drain has achieved.        *)
(***************************************************************************)
EXTENDS ServerLifecycle, FiniteSetTheorems, TLAPS

\* An I/O thread in enqueueRequestTask has a task of its own.  As long as the pool is
\* open the catch block is not entered, and a refused task is with the thread that
\* was refused it.
Submitting ==
  /\ \A r \in Reactor : io[r] = "submit" =>
       /\ submitting[r] \in Task
       /\ task[submitting[r]] \in {"counted", "refused", "last", "done"}
       /\ pool = "open" => task[submitting[r]] = "counted"
  /\ \A q, r \in Reactor :
       io[q] = "submit" /\ io[r] = "submit" /\ submitting[q] = submitting[r] => q = r
  /\ \A t \in Task : task[t] = "refused" => \E r \in Reactor : io[r] = "submit" /\ submitting[r] = t

\* A pool that has been joined and destroyed runs nothing: whoever still has to count
\* a task down is an I/O thread.  A server that is gone has neither threads nor a pool
\* of its own.
Outlived ==
  /\ pool = "none" => \A t \in Task :
       /\ task[t] \notin {"running", "answered"}
       /\ task[t] = "last" => \E r \in Reactor : io[r] = "submit" /\ submitting[r] = t
  /\ ~alive => Joined /\ (owned => pool = "none")

IInv == TypeOK /\ Submitting /\ CountExact /\ Outlived /\ OwnPoolOutlives

-----------------------------------------------------------------------------
(* Counting. *)

\* The tasks on their way are finite in number, and none when the number is zero.
LEMMA OnTheWayFinite ==
  /\ IsFiniteSet(OnTheWay) /\ Cardinality(OnTheWay) \in Nat
  /\ Cardinality(OnTheWay) = 0 => OnTheWay = {}
<1>1. IsFiniteSet(Task) /\ OnTheWay \subseteq Task
  BY LifecycleAssumption DEF OnTheWay
<1>2. IsFiniteSet(OnTheWay)
  BY <1>1, FS_Subset
<1> QED
  BY <1>2, FS_CardinalityType, FS_EmptySet

\* A step that changes neither the counter nor which tasks are on their way.
LEMMA SameCount ==
  ASSUME CountExact, UNCHANGED inFlightTasks,
         \A t \in Task : t \in OnTheWay' <=> t \in OnTheWay
  PROVE  CountExact'
<1>1. OnTheWay' = OnTheWay
  BY DEF OnTheWay
<1> QED
  BY <1>1 DEF CountExact

\* The counter is up by one with one task more on its way ...
LEMMA CountedIn ==
  ASSUME CountExact, NEW t \in Task, t \notin OnTheWay,
         OnTheWay' = OnTheWay \cup {t}, inFlightTasks' = inFlightTasks + 1
  PROVE  CountExact'
BY OnTheWayFinite, FS_AddElement DEF CountExact

\* ... and down by one, and not below zero, with one less.
LEMMA CountedDown ==
  ASSUME CountExact, NEW t \in Task, t \in OnTheWay,
         OnTheWay' = OnTheWay \ {t}, inFlightTasks' = inFlightTasks - 1
  PROVE  CountExact' /\ inFlightTasks' \in Nat
<1>1. Cardinality(OnTheWay') = Cardinality(OnTheWay) - 1
  BY OnTheWayFinite, FS_RemoveElement
<1>2. Cardinality(OnTheWay) # 0
  BY OnTheWayFinite
<1> QED
  BY <1>1, <1>2, OnTheWayFinite DEF CountExact

-----------------------------------------------------------------------------
\* Initially no task has been submitted.
LEMMA InitInv == Init => IInv
<1> SUFFICES ASSUME Init PROVE IInv
  OBVIOUS
<1>1. TypeOK
  BY LifecycleAssumption DEF Init, TypeOK, IoPC, TaskPC, StopPC
<1>2. OnTheWay = {}
  BY DEF Init, OnTheWay
<1>3. CountExact
  BY <1>2, FS_EmptySet DEF Init, CountExact
<1>4. Submitting /\ Outlived /\ OwnPoolOutlives
  BY DEF Init, Submitting, Outlived, OwnPoolOutlives, Joined
<1> QED
  BY <1>1, <1>3, <1>4 DEF IInv

\* start() and the destruction of the server.
LEMMA OwnerInv ==
  ASSUME IInv, StartSucceeds \/ StartFails \/ Destroy \/ OwnerShutsPool
  PROVE  IInv'
<1> USE DEF IInv
<1>1. UNCHANGED <<task, submitting, inFlightTasks>>
  BY DEF StartSucceeds, StartFails, Destroy, OwnerShutsPool
<1>2. CountExact'
  BY <1>1, SameCount DEF OnTheWay
<1>3. CASE StartSucceeds
  BY <1>1, <1>2, <1>3, LifecycleAssumption DEF StartSucceeds, CanStart, NewPool, Joined, TypeOK, IoPC,
     Submitting, Outlived, OwnPoolOutlives
<1>4. CASE StartFails
  BY <1>1, <1>2, <1>4 DEF StartFails, CanStart, NewPool, Joined, TypeOK, Submitting, Outlived,
     OwnPoolOutlives
<1>5. CASE Destroy
  BY <1>1, <1>2, <1>5 DEF Destroy, Fail, Fault, Joined, TypeOK, Submitting, Outlived,
     OwnPoolOutlives
<1>6. CASE OwnerShutsPool
  BY <1>1, <1>2, <1>6 DEF OwnerShutsPool, Joined, TypeOK, Submitting, Outlived, OwnPoolOutlives
<1> QED
  BY <1>3, <1>4, <1>5, <1>6

\* The loop of an I/O thread, outside enqueueRequestTask.
LEMMA LoopInv ==
  ASSUME IInv, NEW r \in Reactor, LoopTop(r) \/ EndHandling(r)
  PROVE  IInv'
<1> USE DEF IInv
<1>1. /\ io[r] \in {"loop", "handle"} /\ io'[r] \in IoPC \ {"submit", "none"}
      /\ io' = [io EXCEPT ![r] = io'[r]]
      /\ UNCHANGED <<outsideIo, submitting, task, inFlightTasks, faults>>
  BY DEF LoopTop, EndHandling, TypeOK, IoPC
<1>2. CountExact'
  BY <1>1, SameCount DEF OnTheWay
<1>3. TypeOK'
  BY <1>1 DEF TypeOK, outsideIo
<1>4. Submitting'
  BY <1>1 DEF Submitting, outsideIo, TypeOK, IoPC
<1>5. Outlived' /\ OwnPoolOutlives'
  BY <1>1 DEF Outlived, Joined, OwnPoolOutlives, outsideIo, TypeOK, IoPC
<1> QED
  BY <1>2, <1>3, <1>4, <1>5

\* A new task is counted before it is submitted.
LEMMA CountInInv ==
  ASSUME IInv, NEW r \in Reactor, NEW t \in Task, CountIn(r, t)
  PROVE  IInv'
<1> USE DEF IInv
<1>1. /\ io[r] = "handle" /\ task[t] = "new"
      /\ task' = [task EXCEPT ![t] = "counted"]
      /\ submitting' = [submitting EXCEPT ![r] = t]
      /\ io' = [io EXCEPT ![r] = "submit"]
      /\ inFlightTasks' = inFlightTasks + 1
      /\ UNCHANGED <<outsideIo, faults>>
  BY DEF CountIn, CountTask
<1>2. CountExact'
  <2>1. t \notin OnTheWay /\ OnTheWay' = OnTheWay \cup {t}
    BY <1>1 DEF OnTheWay, TypeOK
  <2> QED
    BY <2>1, <1>1, CountedIn
<1>3. TypeOK'
  BY <1>1 DEF TypeOK, outsideIo, IoPC, TaskPC
<1>4. Submitting'
  BY <1>1 DEF Submitting, outsideIo, TypeOK
<1>5. Outlived' /\ OwnPoolOutlives'
  BY <1>1 DEF Outlived, Joined, OwnPoolOutlives, outsideIo, TypeOK
<1> QED
  BY <1>2, <1>3, <1>4, <1>5

\* enqueueRequestTask hands the task to the pool, or is refused.
LEMMA SubmitInv ==
  ASSUME IInv, NEW r \in Reactor,
         Submit(r) \/ SubmitRefused(r) \/ SubmitToNothing(r) \/ EndRefused(r)
  PROVE  IInv'
<1> USE DEF IInv
<1>0. /\ io[r] = "submit" /\ submitting[r] \in Task
      /\ UNCHANGED <<outsideIo, inFlightTasks>>
  BY DEF Submit, SubmitRefused, SubmitToNothing, EndRefused, Submitting
<1>1. TypeOK'
  BY <1>0 DEF Submit, SubmitRefused, SubmitToNothing, EndRefused, TypeOK, outsideIo, IoPC, TaskPC,
     Fail, Fault
<1>2. CASE Submit(r)
  <2>1. /\ task[submitting[r]] = "counted" /\ task' = [task EXCEPT ![submitting[r]] = "queued"]
        /\ io' = [io EXCEPT ![r] = "handle"] /\ submitting' = [submitting EXCEPT ![r] = NoTask]
        /\ pool = "open" /\ UNCHANGED faults
    BY <1>2 DEF Submit, Submitting
  <2>2. CountExact'
    BY <2>1, <1>0, SameCount DEF OnTheWay, TypeOK
  <2>3. Submitting'
    BY <2>1, <1>0 DEF Submitting, TypeOK, outsideIo
  <2>4. Outlived' /\ OwnPoolOutlives'
    BY <2>1, <1>0 DEF Outlived, OwnPoolOutlives, Joined, TypeOK, outsideIo
  <2> QED
    BY <1>1, <2>2, <2>3, <2>4
<1>3. CASE SubmitRefused(r)
  <2>1. /\ task[submitting[r]] = "counted" /\ task' = [task EXCEPT ![submitting[r]] = "refused"]
        /\ pool = "shut" /\ UNCHANGED <<faults, io, submitting>>
    BY <1>3 DEF SubmitRefused
  <2>2. CountExact'
    BY <2>1, <1>0, SameCount DEF OnTheWay, TypeOK
  <2>3. Submitting'
    BY <2>1, <1>0 DEF Submitting, TypeOK, outsideIo
  <2>4. Outlived' /\ OwnPoolOutlives'
    BY <2>1, <1>0 DEF Outlived, OwnPoolOutlives, Joined, TypeOK, outsideIo
  <2> QED
    BY <1>1, <2>2, <2>3, <2>4
<1>4. CASE SubmitToNothing(r)
  <2>1. UNCHANGED <<io, submitting, task>> /\ faults' = faults \cup {"nullPool"}
    BY <1>4 DEF SubmitToNothing, Fail
  <2>2. CountExact'
    BY <2>1, <1>0, SameCount DEF OnTheWay
  <2>3. Submitting' /\ Outlived' /\ OwnPoolOutlives'
    BY <2>1, <1>0 DEF Submitting, Outlived, OwnPoolOutlives, Joined, outsideIo
  <2> QED
    BY <1>1, <2>2, <2>3
<1>5. CASE EndRefused(r)
  <2>1. /\ task[submitting[r]] = "done" /\ submitting' = [submitting EXCEPT ![r] = NoTask]
        /\ io' = [io EXCEPT ![r] = "handle"] /\ UNCHANGED <<task, faults>>
    BY <1>5 DEF EndRefused
  <2>2. CountExact'
    BY <2>1, <1>0, SameCount DEF OnTheWay
  <2>3. Submitting'
    BY <2>1, <1>0 DEF Submitting, TypeOK, outsideIo
  <2>4. Outlived' /\ OwnPoolOutlives'
    BY <2>1, <1>0 DEF Outlived, OwnPoolOutlives, Joined, TypeOK, outsideIo
  <2> QED
    BY <1>1, <2>2, <2>3, <2>4
<1> QED
  BY <1>2, <1>3, <1>4, <1>5

\* A worker begins a task and runs its handler.
LEMMA RunInv ==
  ASSUME IInv, NEW t \in Task, Begin(t) \/ Answer(t)
  PROVE  IInv'
<1> USE DEF IInv
<1>1. UNCHANGED <<outsideTask, inFlightTasks, spc>>
  BY DEF Begin, Answer
<1>2. /\ task[t] \in {"queued", "running"} /\ task'[t] \in {"running", "answered"}
      /\ task' = [task EXCEPT ![t] = task'[t]] /\ pool # "none"
  BY DEF Begin, Answer, TypeOK, Outlived
<1>3. CountExact'
  BY <1>1, <1>2, SameCount DEF OnTheWay, TypeOK
<1>4. TypeOK'
  BY <1>1, <1>2 DEF TypeOK, outsideTask, TaskPC, Begin, Answer, Fail, Fault
<1>5. Submitting'
  BY <1>1, <1>2 DEF Submitting, outsideTask, TypeOK
<1>6. Outlived'
  BY <1>1, <1>2 DEF Outlived, outsideTask, Joined, TypeOK
<1>7. OwnPoolOutlives'
  BY <1>1, <1>2 DEF OwnPoolOutlives, outsideTask, Outlived, Begin, Answer, Fail
<1> QED
  BY <1>3, <1>4, <1>5, <1>6, <1>7

\* finishInFlightTask: the count, and for the last task the notification.
LEMMA FinishInv ==
  ASSUME IInv, NEW t \in Task, CountDown(t) \/ NotifyDrain(t)
  PROVE  IInv'
<1> USE DEF IInv
<1>1. UNCHANGED outsideTask
  BY DEF CountDown, NotifyDrain
<1>2. /\ task[t] \in {"answered", "refused", "last"} /\ task'[t] \in {"last", "done"}
      /\ task' = [task EXCEPT ![t] = task'[t]]
      /\ task[t] = "answered" => pool # "none"
      /\ task'[t] = "last" => task[t] # "last"
  BY DEF CountDown, NotifyDrain, TypeOK, Outlived
<1>3. CountExact' /\ inFlightTasks' \in Nat
  <2>1. CASE CountDown(t)
    <3>1. t \in OnTheWay /\ OnTheWay' = OnTheWay \ {t}
      BY <2>1, <1>2 DEF OnTheWay, TypeOK, CountDown
    <3> QED
      BY <3>1, <2>1, CountedDown DEF CountDown
  <2>2. CASE NotifyDrain(t)
    BY <2>2, SameCount DEF NotifyDrain, OnTheWay, TypeOK
  <2> QED
    BY <2>1, <2>2
<1>4. spc' \in [Stopper -> StopPC]
  BY DEF CountDown, NotifyDrain, TypeOK, StopPC
<1>5. TypeOK'
  BY <1>1, <1>2, <1>3, <1>4 DEF TypeOK, outsideTask, TaskPC, CountDown, NotifyDrain, Fail, Fault
<1>6. Submitting'
  BY <1>1, <1>2 DEF Submitting, outsideTask, TypeOK
<1>7. Outlived'
  BY <1>1, <1>2 DEF Outlived, outsideTask, Joined, TypeOK, Submitting
<1>8. OwnPoolOutlives'
  <2>1. ~(owned /\ ~alive)
    BY <1>2 DEF Outlived, Submitting, Joined
  <2> QED
    BY <2>1, <1>1 DEF OwnPoolOutlives, outsideTask, CountDown, NotifyDrain, Fail
<1> QED
  BY <1>3, <1>5, <1>6, <1>7, <1>8

\* The steps of stop() that leave the pool and the tasks alone.
LEMMA QuietStopInv ==
  ASSUME IInv, NEW s \in Stopper,
         \/ StopCall(s) \/ JoinThreads(s) \/ DrainFast(s) \/ Drained(s) \/ NotDrained(s)
         \/ DrainSleep(s) \/ DrainWakeup(s) \/ DrainTimeout(s) \/ ReleaseFds(s) \/ Clear(s)
  PROVE  IInv'
<1> USE DEF IInv
<1>1. UNCHANGED <<owned, pool, starts, submitting, inFlightTasks, alive, task>>
  BY DEF StopCall, JoinThreads, DrainFast, Drained, NotDrained, DrainSleep, DrainWakeup,
     DrainTimeout, ReleaseFds, Clear, outsideStop
<1>2. CountExact'
  BY <1>1, SameCount DEF OnTheWay
<1>3. /\ \A r \in Reactor : io'[r] = io[r] \/ (io'[r] = "none" /\ io[r] = "exited")
      /\ io' \in [Reactor -> IoPC]
  BY DEF StopCall, JoinThreads, DrainFast, Drained, NotDrained, DrainSleep, DrainWakeup,
     DrainTimeout, ReleaseFds, Clear, outsideStop, TypeOK, IoPC
<1>4. faults' \in SUBSET (faults \cup {"doubleClose"})
  BY DEF StopCall, JoinThreads, DrainFast, Drained, NotDrained, DrainSleep, DrainWakeup,
     DrainTimeout, ReleaseFds, Clear, outsideStop, Fail
<1>5. spc' \in [Stopper -> StopPC]
  BY DEF StopCall, JoinThreads, DrainFast, Drained, NotDrained, DrainSleep, DrainWakeup,
     DrainTimeout, ReleaseFds, Clear, outsideStop, Goto, TypeOK, StopPC
<1>6. /\ running' \in BOOLEAN /\ timedOut' \in BOOLEAN
      /\ listenFd' \in {"none", "open", "dead"} /\ eventFds' \in {"none", "open"}
      /\ drainMutex' \in Stopper \cup {NoThread}
  BY DEF StopCall, JoinThreads, DrainFast, Drained, NotDrained, DrainSleep, DrainWakeup,
     DrainTimeout, ReleaseFds, Clear, outsideStop, TypeOK
<1>7. TypeOK'
  BY <1>1, <1>3, <1>4, <1>5, <1>6 DEF TypeOK, Fault
<1>8. Submitting' /\ Outlived' /\ OwnPoolOutlives'
  BY <1>1, <1>3, <1>4 DEF Submitting, Outlived, Joined, OwnPoolOutlives
<1> QED
  BY <1>2, <1>7, <1>8

\* The pool of the server's own is shut down, joined and destroyed.
LEMMA PoolInv ==
  ASSUME IInv, NEW s \in Stopper, ShutPool(s) \/ JoinPool(s)
  PROVE  IInv'
<1> USE DEF IInv
<1>1. UNCHANGED <<owned, running, starts, io, submitting, inFlightTasks, alive, listenFd, eventFds,
                  drainMutex, timedOut, faults>>
  BY DEF ShutPool, JoinPool, outsideStop
<1>2. spc' \in [Stopper -> StopPC]
  BY DEF ShutPool, JoinPool, Goto, TypeOK, StopPC
<1>3. CASE ShutPool(s)
  <2>1. UNCHANGED task /\ (pool' = pool \/ (owned /\ pool # "none" /\ pool' = "shut"))
    BY <1>3 DEF ShutPool
  <2>2. CountExact'
    BY <1>1, <2>1, SameCount DEF OnTheWay
  <2>3. TypeOK'
    BY <1>1, <1>2, <2>1 DEF TypeOK
  <2>4. Submitting' /\ Outlived' /\ OwnPoolOutlives'
    BY <1>1, <2>1 DEF Submitting, Outlived, Joined, OwnPoolOutlives
  <2> QED
    BY <2>2, <2>3, <2>4
<1>4. CASE JoinPool(s)
  <2>1. /\ pool' = "none" /\ WorkersJoined
        /\ task' = [t \in Task |-> IF task[t] = "queued" THEN "dropped" ELSE task[t]]
    BY <1>4 DEF JoinPool
  <2>2. CountExact'
    BY <1>1, <2>1, SameCount DEF OnTheWay
  <2>3. TypeOK'
    BY <1>1, <1>2, <2>1 DEF TypeOK, TaskPC
  <2>4. Submitting' /\ Outlived' /\ OwnPoolOutlives'
    BY <1>1, <2>1 DEF Submitting, Outlived, Joined, OwnPoolOutlives, WorkersJoined
  <2> QED
    BY <2>2, <2>3, <2>4
<1> QED
  BY <1>3, <1>4

\* Every step preserves the invariant, however many threads are in stop().
LEMMA NextInv == IInv /\ [Next]_vars => IInv'
<1> SUFFICES ASSUME IInv, [Next]_vars PROVE IInv'
  OBVIOUS
<1>1. CASE StartSucceeds \/ StartFails \/ Destroy \/ OwnerShutsPool
  BY <1>1, OwnerInv
<1>2. ASSUME NEW r \in Reactor, IoStep(r) \/ \E t \in Task : CountIn(r, t) PROVE IInv'
  BY <1>2, LoopInv, SubmitInv, CountInInv DEF IoStep
<1>3. ASSUME NEW t \in Task, TaskStep(t) PROVE IInv'
  BY <1>3, RunInv, FinishInv DEF TaskStep
<1>4. ASSUME NEW s \in Stopper,
             StopCall(s) \/ StopStep(s) \/ DrainWakeup(s) \/ DrainTimeout(s)
      PROVE  IInv'
  BY <1>4, QuietStopInv, PoolInv DEF StopStep
<1>5. CASE UNCHANGED vars
  BY <1>5, SameCount DEF vars, IInv, TypeOK, Submitting, CountExact, Outlived, Joined,
     OwnPoolOutlives, OnTheWay
<1> QED
  BY <1>1, <1>2, <1>3, <1>4, <1>5 DEF Next

-----------------------------------------------------------------------------
\* The invariant holds throughout the life of a server.
THEOREM Invariance == Spec => []IInv
BY InitInv, NextInv, PTL DEF Spec

\* Every variable stays in its range; in particular inFlightTasks_ never goes below zero.
THEOREM TypeCorrect == Spec => []TypeOK
<1>1. IInv => TypeOK
  BY DEF IInv
<1> QED
  BY <1>1, Invariance, PTL

\* inFlightTasks_ counts the tasks on their way, whatever is refused, dropped or restarted.
THEOREM CountsTasks == Spec => []CountExact
<1>1. IInv => CountExact
  BY DEF IInv
<1> QED
  BY <1>1, Invariance, PTL

\* A server with its own pool is not used by a task after its destruction, also when
\* several threads stop it at once and when a drain was given up.
THEOREM OwnPoolIsSafe == Spec => []OwnPoolOutlives
<1>1. IInv => OwnPoolOutlives
  BY DEF IInv
<1> QED
  BY <1>1, Invariance, PTL

-----------------------------------------------------------------------------
(***************************************************************************)
(* A single caller of stop().                                              *)
(***************************************************************************)
OneStopper == \A a, b \in Stopper : a = b

\* From the flag to the join there is a thread in "join"; afterwards there are no I/O
\* threads.  While the eventfds are open, the server runs or its stop() has not come to
\* releasing them.
Sequenced ==
  /\ running => NobodyStops /\ eventFds = "open"
  /\ ~running /\ (\A s \in Stopper : spc[s] # "join") => Joined
  /\ \A s \in Stopper : spc[s] = "join" => eventFds = "open"
  /\ eventFds = "open" /\ ~running =>
       \E s \in Stopper : spc[s] \in {"join", "drain", "lock", "block", "sleep", "release"}

\* When the eventfds are released, and as long as they stay so, nothing is on its way,
\* unless a drain was given up.
DrainedFirst ==
  ~timedOut /\ (eventFds = "none" \/ \E s \in Stopper : spc[s] = "release") => inFlightTasks = 0

SInv == IInv /\ Sequenced /\ DrainedFirst /\ NoLateWrite

LEMMA InitSInv == Init => SInv
BY InitInv DEF SInv, Init, Sequenced, DrainedFirst, NoLateWrite, NobodyStops, Joined

\* A step outside stop(), once nothing is on its way: only a running server adds a task.
LEMMA ServeSInv ==
  ASSUME SInv, IInv', OneStopper,
         \/ StartSucceeds \/ StartFails \/ Destroy \/ OwnerShutsPool
         \/ \E r \in Reactor : IoStep(r) \/ \E t \in Task : CountIn(r, t)
         \/ \E t \in Task : TaskStep(t)
  PROVE  SInv'
<1> USE DEF SInv
<1>1. CASE StartSucceeds \/ StartFails \/ Destroy \/ OwnerShutsPool
  <2>1. CASE StartSucceeds
    BY <2>1 DEF StartSucceeds, CanStart, NobodyStops, Sequenced, DrainedFirst, NoLateWrite, Joined
  <2>2. CASE StartFails \/ Destroy \/ OwnerShutsPool
    BY <2>2 DEF StartFails, Destroy, OwnerShutsPool, Fail, Sequenced, DrainedFirst,
       NoLateWrite, NobodyStops, Joined
  <2> QED
    BY <1>1, <2>1, <2>2
<1>2. ASSUME NEW r \in Reactor, IoStep(r) \/ \E t \in Task : CountIn(r, t) PROVE SInv'
  <2>1. UNCHANGED outsideIo
    BY <1>2 DEF IoStep, LoopTop, EndHandling, Submit, SubmitRefused, SubmitToNothing, EndRefused,
       CountIn
  <2>2. io[r] # "none" /\ \A q \in Reactor : q # r => io'[q] = io[q]
    BY <1>2 DEF IoStep, LoopTop, EndHandling, Submit, SubmitRefused, SubmitToNothing, EndRefused,
       CountIn, IInv, TypeOK
  <2>3. "lateWrite" \in faults' => "lateWrite" \in faults
    BY <1>2 DEF IoStep, LoopTop, EndHandling, Submit, SubmitRefused, SubmitToNothing, EndRefused,
       CountIn, Fail
  <2>4. ~Joined
    BY <2>2 DEF Joined
  <2>5. Sequenced'
    BY <2>1, <2>4 DEF Sequenced, outsideIo, NobodyStops
  <2>6. DrainedFirst'
    <3>1. CASE \E t \in Task : CountIn(r, t)
      BY <3>1, <2>1, <2>4 DEF DrainedFirst, Sequenced, OneStopper, outsideIo, NobodyStops, CountIn
    <3>2. CASE IoStep(r)
      BY <3>2, <2>1 DEF DrainedFirst, outsideIo, IoStep, LoopTop, EndHandling, Submit, SubmitRefused,
         SubmitToNothing, EndRefused
    <3> QED
      BY <1>2, <3>1, <3>2
  <2> QED
    BY <1>2, <2>1, <2>3, <2>5, <2>6 DEF NoLateWrite, outsideIo
<1>3. ASSUME NEW t \in Task, TaskStep(t) PROVE SInv'
  <2>1. UNCHANGED outsideTask
    BY <1>3 DEF TaskStep, Begin, Answer, CountDown, NotifyDrain
  <2>2. \A s \in Stopper : spc'[s] = spc[s] \/ (spc[s] = "sleep" /\ spc'[s] = "lock")
    BY <1>3 DEF TaskStep, Begin, Answer, CountDown, NotifyDrain
  <2>3. Sequenced'
    BY <2>1, <2>2 DEF Sequenced, outsideTask, NobodyStops, Joined
  <2>4. inFlightTasks = 0 => inFlightTasks' = 0 /\ t \notin OnTheWay
    <3>1. inFlightTasks = 0 => OnTheWay = {}
      BY OnTheWayFinite DEF IInv, CountExact
    <3> QED
      BY <3>1, <1>3 DEF TaskStep, Begin, Answer, CountDown, NotifyDrain, OnTheWay
  <2>5. DrainedFirst'
    BY <2>1, <2>2, <2>4 DEF DrainedFirst, outsideTask
  <2>6. NoLateWrite'
    BY <2>1, <2>4, <1>3 DEF NoLateWrite, outsideTask, DrainedFirst, TaskStep, Begin, Answer,
       CountDown, NotifyDrain, Fail, OnTheWay, IInv, TypeOK
  <2> QED
    BY <2>3, <2>5, <2>6
<1> QED
  BY <1>1, <1>2, <1>3

\* stop(), called by one thread: flag, join, drain, release, in this order.
LEMMA StopSInv ==
  ASSUME SInv, IInv', OneStopper, NEW s \in Stopper,
         StopCall(s) \/ StopStep(s) \/ DrainWakeup(s) \/ DrainTimeout(s)
  PROVE  SInv'
<1> USE DEF SInv
<1>1. \A a \in Stopper : a = s
  BY DEF OneStopper
<1>2. /\ spc \in [Stopper -> StopPC]
      /\ UNCHANGED inFlightTasks /\ inFlightTasks \in Nat
      /\ "lateWrite" \in faults' => "lateWrite" \in faults
      /\ timedOut => timedOut'
  BY DEF IInv, TypeOK, StopCall, StopStep, JoinThreads, DrainFast, Drained, NotDrained, DrainSleep,
     DrainWakeup, DrainTimeout, ReleaseFds, ShutPool, JoinPool, Clear, outsideStop, Fail
<1>3. NoLateWrite'
  BY <1>2 DEF NoLateWrite
<1>4. CASE StopCall(s)
  <2>1. /\ spc[s] = "idle" /\ spc'[s] = (IF running THEN "join" ELSE "release")
        /\ running' = FALSE /\ UNCHANGED <<eventFds, io, timedOut>>
    BY <1>2, <1>4 DEF StopCall, Goto, outsideStop
  <2>2. eventFds \in {"none", "open"}
    BY DEF IInv, TypeOK
  <2>3. CASE running
    BY <2>1, <2>3, <1>1, <1>2, <1>3 DEF Sequenced, DrainedFirst, NobodyStops, Joined
  <2>4. CASE ~running
    BY <2>1, <2>2, <2>4, <1>1, <1>2, <1>3 DEF Sequenced, DrainedFirst, NobodyStops, Joined
  <2> QED
    BY <2>3, <2>4
<1>5. CASE JoinThreads(s)
  BY <1>1, <1>2, <1>3, <1>5 DEF JoinThreads, Goto, Sequenced, DrainedFirst, NobodyStops, Joined
<1>6. CASE DrainFast(s) \/ Drained(s) \/ NotDrained(s) \/ DrainSleep(s) \/ DrainWakeup(s)
  <2>1. /\ spc[s] \in {"drain", "lock", "block", "sleep"}
        /\ spc'[s] \in {"lock", "block", "sleep", "release"}
        /\ spc'[s] = "release" => inFlightTasks = 0
        /\ UNCHANGED <<running, eventFds, io, timedOut>>
    BY <1>2, <1>6 DEF DrainFast, Drained, NotDrained, DrainSleep, DrainWakeup, Goto, outsideStop
  <2> QED
    BY <2>1, <1>1, <1>2, <1>3 DEF Sequenced, DrainedFirst, NobodyStops, Joined
<1>7. CASE DrainTimeout(s)
  <2>1. /\ spc[s] = "sleep" /\ spc'[s] = "release" /\ UNCHANGED <<running, eventFds, io>>
        /\ timedOut' = (timedOut \/ inFlightTasks # 0)
    BY <1>2, <1>7 DEF DrainTimeout, Goto, outsideStop
  <2> QED
    BY <2>1, <1>1, <1>2, <1>3 DEF Sequenced, DrainedFirst, NobodyStops, Joined
<1>8. CASE ReleaseFds(s)
  <2>1. /\ spc[s] = "release" /\ spc'[s] = "pool" /\ eventFds' = "none"
        /\ UNCHANGED <<running, io, timedOut>>
    BY <1>2, <1>8 DEF ReleaseFds, Goto, outsideStop
  <2> QED
    BY <2>1, <1>1, <1>2, <1>3 DEF Sequenced, DrainedFirst, NobodyStops, Joined
<1>9. CASE ShutPool(s) \/ JoinPool(s) \/ Clear(s)
  <2>1. /\ spc[s] \in {"pool", "joinPool", "clear"} /\ spc'[s] \in {"joinPool", "clear", "idle"}
        /\ UNCHANGED <<running, eventFds, io, timedOut>>
    BY <1>2, <1>9 DEF ShutPool, JoinPool, Clear, Goto, outsideStop
  <2> QED
    BY <2>1, <1>1, <1>2, <1>3 DEF Sequenced, DrainedFirst, NobodyStops, Joined
<1> QED
  BY <1>4, <1>5, <1>6, <1>7, <1>8, <1>9 DEF StopStep

LEMMA NextSInv == ASSUME OneStopper PROVE SInv /\ [Next]_vars => SInv'
<1> SUFFICES ASSUME SInv, [Next]_vars PROVE SInv'
  OBVIOUS
<1>1. IInv'
  BY NextInv DEF SInv
<1>2. CASE UNCHANGED vars
  BY <1>1, <1>2 DEF vars, SInv, Sequenced, DrainedFirst, NoLateWrite, NobodyStops, Joined
<1> QED
  BY <1>1, <1>2, ServeSInv, StopSInv DEF Next

\* With one caller of stop(), no task writes to an eventfd that has been closed, through
\* any number of restarts, unless a drain was given up at its deadline.  (With two the
\* second one does not wait for the tasks: section 11 of the README.)
THEOREM WritesInTime == OneStopper => (Spec => []NoLateWrite)
<1> SUFFICES ASSUME OneStopper PROVE Spec => []NoLateWrite
  OBVIOUS
<1>1. Init => SInv
  BY InitSInv
<1>2. SInv /\ [Next]_vars => SInv'
  BY NextSInv
<1>3. SInv => NoLateWrite
  BY DEF SInv
<1> QED
  BY <1>1, <1>2, <1>3, PTL DEF Spec
=============================================================================
