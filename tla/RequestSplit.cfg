\* One connection without the pool: a request line or a header cut by a segment.
SPECIFICATION Spec
CONSTANTS
  Conn = {1}
  Block = {k1}
  Streams <- MCStreams
  Settings <- StringSettings
  maxBodySize = 2
  maxRequestBytes = 30
  maxRequestHeaderBytes = 20
  NoBlock = NoBlock
INVARIANT HalfPacketWaits
