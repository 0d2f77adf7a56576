----------------------------- MODULE TaskQueue -----------------------------
(***************************************************************************)
(* What a thread pool promises to the code that submits work to it: a task *)
(* is accepted only while the pool is open, accepted tasks are started in  *)
(* the order of their acceptance, and a started task runs exactly once.    *)
(* ThreadPool.tla is the detailed specification that implements this one.  *)
(***************************************************************************)
EXTENDS Naturals, Sequences

CONSTANT Task

VARIABLES
  open,       \* submissions are accepted
  pending,    \* accepted, not started: a FIFO queue
  executing,  \* started, not finished
  finished

tqVars == <<open, pending, executing, finished>>

TQInit ==
  /\ open = TRUE
  /\ pending = <<>>
  /\ executing = {}
  /\ finished = {}

Submit(t) ==
  /\ open
  /\ t \notin executing \cup finished
  /\ \A i \in 1..Len(pending) : pending[i] # t
  /\ pending' = Append(pending, t)
  /\ UNCHANGED <<open, executing, finished>>

Start ==
  /\ pending # <<>>
  /\ executing' = executing \cup {Head(pending)}
  /\ pending' = Tail(pending)
  /\ UNCHANGED <<open, finished>>

Finish(t) ==
  /\ t \in executing
  /\ executing' = executing \ {t}
  /\ finished' = finished \cup {t}
  /\ UNCHANGED <<open, pending>>

Close ==
  /\ open' = FALSE
  /\ UNCHANGED <<pending, executing, finished>>

TQNext ==
  \/ \E t \in Task : Submit(t) \/ Finish(t)
  \/ Start
  \/ Close

TQSpec == TQInit /\ [][TQNext]_tqVars
=============================================================================
