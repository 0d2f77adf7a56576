\* One fd number, used twice, with and without the idle timer.
SPECIFICATION FairSpec
CONSTANTS
  SubReactorCount = 1
  Fd = {1}
  MaxGen = 2
  Token = {"keep", "bad"}
  MaxTokens = 1
  MaxRequest = {1}
  MaxConnections = {0}
  IdleTimeout = {TRUE, FALSE}
PROPERTIES Served Reclaimed
