\* Either kind of pool, one caller of stop(), a restart, and two tasks.
SPECIFICATION FairSpec
CONSTANTS
  Reactor = {r1, r2}
  Task = {t1, t2}
  Stopper = {s1}
  MaxStarts = 2
  OwnPool = {TRUE, FALSE}
  NoTask = NoTask
  NoThread = NoThread
INVARIANTS TypeOK CountExact NoLateWrite OwnPoolOutlives
 
\* A destroyed server has nothing left to do.
CHECK_DEADLOCK FALSE
