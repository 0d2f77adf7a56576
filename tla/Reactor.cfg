\* One reactor and one fd number, which a second connection takes over while events,
\* tasks and responses of the first one are still on their way.
SPECIFICATION Spec
CONSTANTS
  SubReactorCount = 1
  Fd = {1}
  MaxGen = 2
  Token = {"keep", "part"}
  MaxTokens = 2
  MaxRequest = {1, 2}
  MaxConnections = {0}
  IdleTimeout = {TRUE}
INVARIANTS TypeOK NoCrossTalk StrictInOrder NotStranded
PROPERTIES TimerSparesRunning NoEarlyClose
