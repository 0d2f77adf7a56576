\* Two workers; two callers, one of which may shut the pool down at any moment;
\* e1 is an empty std::function.
SPECIFICATION FairSpec
CONSTANTS
  Worker = {w1, w2}
  Caller = {c1, c2}
  Closer = {c1}
  Task = {t1, t2, e1}
  EmptyTask = {e1}
  NoTask = NoTask
  NoThread = NoThread
INVARIANTS TypeOK TaskInOnePlace
PROPERTIES WaitMeansDone ImplementsTaskQueue AcceptedRuns WaiterReturns
\* After a shutdown a lost wakeup, or a queue that no worker serves any more,
\* may leave threads asleep for ever (see ShutdownReturns).
CHECK_DEADLOCK FALSE
