\* One browser with two requests under way, a lifetime of two seconds.
SPECIFICATION FairSpec
CONSTANTS
  Id = {i1, i2}
  Worker = {w1, w2}
  Expiration = 2
  NoId = NoId
  NoThread = NoThread
  Cleaner = Cleaner
INVARIANTS CookieLasts
PROPERTIES GrantKept Collected StopReturns
