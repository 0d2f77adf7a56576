\* One client that sends three requests without waiting for the answers.
SPECIFICATION Spec
CONSTANTS
  SubReactorCount = 1
  Fd = {1}
  MaxGen = 1
  Token = {"keep"}
  MaxTokens = 3
  MaxRequest = {3}
  MaxConnections = {0}
  IdleTimeout = {FALSE}
INVARIANT RequestsInOrder
