\* Two connections, one block; limits between the lengths of the requests sent.
SPECIFICATION Spec
CONSTANTS
  Conn = {1, 2}
  Block = {k1}
  Streams <- MCStreams
  Settings <- MCSettings
  maxBodySize = 2
  maxRequestBytes = 30
  maxRequestHeaderBytes = 20
  NoBlock = NoBlock
INVARIANTS Framed AwaitsRest RefusalTrue PoolExact
