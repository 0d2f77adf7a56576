\* Two reactors and two fd numbers, with and without a limit of one connection.
SPECIFICATION Spec
CONSTANTS
  SubReactorCount = 2
  Fd = {1, 2}
  MaxGen = 2
  Token = {"keep", "close"}
  MaxTokens = 1
  MaxRequest = {1}
  MaxConnections = {0, 1}
  IdleTimeout = {TRUE}
INVARIANTS TablesAgree ActiveExact
