\* Two borrowers of a pool of one connection, another one to replace a broken one or to be
\* opened by a second initialize after an exception has ended the first.
SPECIFICATION FairSpec
CONSTANTS
  Borrower = {b1, b2}
  Conn = {k1, k2}
  maxConnections = 1
  MaxThrown = 1
  NoConn = NoConn
  Health = Health
  NoThread = NoThread
INVARIANTS TypeOK OneHolder Accounted NoneLeftOpen
PROPERTIES HealthSparesBorrowed ShutdownReturns TimedGetReturns
