----------------------------- MODULE RequestPath -----------------------------
(***************************************************************************)
(* The way of a request's bytes from the socket to its handler: the read   *)
(* event, the connection's buffer (a block of HttpMemoryPool or a string), *)
(* the parser, and the task that is handed to the thread pool or the error *)
(* response that ends the connection.                                      *)
(*                                                                         *)
(* Reactor.tla has the threads, epoll and the responses of the same        *)
(* connections and leaves the bytes out; here the bytes are what matters.  *)
(* One read event, and one response written, are one step of the           *)
(* connection's reactor; the pool of blocks, which all reactors share, is  *)
(* used inside such a step under its own mutex.                            *)
(***************************************************************************)
EXTENDS RequestParse

CONSTANTS
  Conn,                  \* connections, each with a peer
  Block,                 \* the blocks of the pool
  Streams,               \* per connection: the sequences of requests its peer may send
  Settings,              \* [pooled, capacity, waits]: enableMemoryPool, the size of a block,
                         \* and whether peers wait for an answer before the next request
  maxRequestBytes, maxRequestHeaderBytes,
  NoBlock

ASSUME RequestPathAssumption ==
  /\ IsFiniteSet(Block) /\ NoBlock \notin Block
  /\ {maxBodySize, maxRequestBytes, maxRequestHeaderBytes} \subseteq Nat
  /\ Settings \subseteq [pooled : BOOLEAN, capacity : Nat, waits : BOOLEAN]

VARIABLES
  settings,     \* the server's settings
  free,         \* freeBlocks_
  isUsed,       \* the blocks whose isUsed is set
  usedBlocks,   \* usedBlocks_
  conn          \* per connection: its context, its one-shot registration, its tasks

vars == <<settings, free, isUsed, usedBlocks, conn>>
pool == <<free, isUsed, usedBlocks>>

----------------------------------------------------------------------------
(* What a peer sends. A request is [line, eol, fields, body, content,      *)
(* fault]: fault says what is wrong with it, content what its body means.  *)

Field(r, i) == <<r.fields[i][1], ":">> \o r.fields[i][2] \o r.eol
HeadOf(r) ==
  LET upTo[i \in 0..Len(r.fields)] == IF i = 0 THEN r.line \o r.eol ELSE upTo[i - 1] \o Field(r, i)
  IN  upTo[Len(r.fields)] \o r.eol
Wire(r) == HeadOf(r) \o r.body

\* The bytes of the first n requests of a stream.
Bytes(stream, n) ==
  LET upTo[i \in 0..n] == IF i = 0 THEN <<>> ELSE upTo[i - 1] \o Wire(stream[i])
  IN  upTo[n]

\* Peers send finitely many requests, none of them empty.
ASSUME StreamsAssumption ==
  \A c \in Conn : \A stream \in Streams[c] :
    /\ Len(stream) \in Nat
    /\ \A i \in 1..Len(stream) : Wire(stream[i]) \in Seq(STRING) /\ Wire(stream[i]) # <<>>

Sent(k) == SubSeq(Bytes(k.stream, Len(k.stream)), 1, k.pos)

\* Where the request after those already taken begins and ends in the stream.
Start(k) == Len(Bytes(k.stream, Len(k.taken)))
End(k) == Len(Bytes(k.stream, Min({Len(k.taken) + 1, Len(k.stream)})))

----------------------------------------------------------------------------
(* HttpContext *)

Context(stream) ==
  [open |-> TRUE, stream |-> stream, pos |-> 0, armed |-> TRUE,
   buffer |-> <<>>, readPos |-> 0, pooled |-> FALSE, block |-> NoBlock,
   truncated |-> FALSE, allocationFailed |-> FALSE, requestTooLarge |-> FALSE,
   tasks |-> <<>>, taken |-> <<>>, refused |-> {}]

Closed == [Context(<<>>) EXCEPT !.open = FALSE, !.armed = FALSE]

PeekData(k) == SubSeq(k.buffer, k.readPos + 1, Len(k.buffer))

\* consumeData only moves the read cursor, or clears a buffer used up.
ConsumeData(k, n) ==
  IF n >= Len(PeekData(k))
  THEN [k EXCEPT !.buffer = <<>>, !.readPos = 0]
  ELSE [k EXCEPT !.readPos = @ + n]

\* A bug to catch: the cursor goes back and the consumed part is read again.
Rewound(k) == [k EXCEPT !.readPos = 0]
\* appendData: the consumed part goes, the new bytes follow, as many as a block holds.
Compacted(k) == [k EXCEPT !.buffer = PeekData(k), !.readPos = 0]
Room(k) == settings.capacity - Len(PeekData(k))
AppendPooled(k, data) ==
  IF k.block = NoBlock
  THEN [k EXCEPT !.allocationFailed = TRUE]
  ELSE [Compacted(k) EXCEPT !.buffer = @ \o SubSeq(data, 1, Min({Room(k), Len(data)})),
                            !.truncated = @ \/ Len(data) > Room(k)]
AppendString(k, data) ==
  [Compacted(k) EXCEPT !.buffer = @ \o data,
                       !.requestTooLarge = @ \/ Len(PeekData(k)) + Len(data) > maxRequestBytes]

\* resetForNextRequest: the flags go, the bytes stay.
ResetForNextRequest(k) ==
  [k EXCEPT !.truncated = FALSE, !.allocationFailed = FALSE, !.requestTooLarge = FALSE]

----------------------------------------------------------------------------
(* HttpServer: dispatchBufferedRequests and what leads to it *)

\* An error response, handed to the thread pool as a task that will end the connection.
Refuse(k, why) ==
  [k EXCEPT !.tasks = Append(@, [keep |-> FALSE]),
            !.refused = @ \cup {[why |-> why, after |-> Len(k.taken)]}]

\* A bug to catch: the whole buffer is consumed, pipelined requests with it.
Everything(k, request) == Len(PeekData(k))
\* Only the bytes of this request are consumed.
Consumed(k, request) == request.length

Take(k, request) ==
  [ConsumeData(k, Consumed(k, request)) EXCEPT
      !.tasks = Append(@, [keep |-> request.keep]),
      !.taken = Append(@, [line |-> request.line, content |-> request.body])]

\* A bug to catch: a head of exactly the limit is refused.
HeadAtLimit(k, request) ==
  CASE request.verdict = "ok"   -> request.head >= maxRequestHeaderBytes
    [] request.verdict = "more" -> Len(PeekData(k)) >= maxRequestHeaderBytes
    [] OTHER                    -> FALSE
HeadTooLong(k, request) ==
  CASE request.verdict = "ok"   -> request.head > maxRequestHeaderBytes
    [] request.verdict = "more" -> Len(PeekData(k)) > maxRequestHeaderBytes
    [] OTHER                    -> FALSE

\* What becomes of a connection whose buffer parses to `request`.
Handle(k, request) ==
  CASE request.verdict \notin {"ok", "more"} -> Refuse(k, request.verdict)
    [] HeadTooLong(k, request)               -> Refuse(k, "header")
    [] request.verdict = "ok" /\ ~HeadTooLong(k, request)   -> Take(k, request)
    [] request.verdict = "more" /\ ~HeadTooLong(k, request) -> [k EXCEPT !.armed = TRUE]

Dispatch(k) == Handle(k, Parse(PeekData(k)))

\* The rest of handleRead, once the bytes are in the buffer.
AfterRead(k) ==
  IF k.requestTooLarge THEN Refuse(k, "large request")
  ELSE IF k.allocationFailed THEN Refuse(k, "exhausted")
  ELSE IF k.truncated THEN Refuse(k, "truncated")
  ELSE Dispatch(k)

----------------------------------------------------------------------------
(* HttpMemoryPool *)

Init ==
  /\ settings \in Settings
  /\ \E order \in [1..Cardinality(Block) -> Block] :
       /\ \A b \in Block : \E i \in DOMAIN order : order[i] = b
       /\ free = order
  /\ isUsed = {}
  /\ usedBlocks = 0
  /\ conn = [c \in Conn |-> Closed]

Allocate ==
  IF free = <<>>
  THEN UNCHANGED pool
  ELSE /\ free' = Tail(free)
       /\ isUsed' = isUsed \cup {Head(free)}
       /\ usedBlocks' = usedBlocks + 1
Allocated == IF free = <<>> THEN NoBlock ELSE Head(free)

Deallocate(b) ==
  IF b \notin isUsed
  THEN UNCHANGED pool
  ELSE /\ free' = Append(free, b)
       /\ isUsed' = isUsed \ {b}
       /\ usedBlocks' = usedBlocks - 1

----------------------------------------------------------------------------
(* The steps *)

\* handleAccept: a context for a new peer, with the pool's settings and no block yet.
Accept(c) ==
  /\ ~conn[c].open
  /\ \E stream \in Streams[c] : conn' = [conn EXCEPT ![c] = Context(stream)]
  /\ UNCHANGED <<settings, pool>>

\* How far the peer has written by now: a peer that waits sends one request at a time.
Written(k) ==
  IF ~settings.waits THEN k.pos + 1..Len(Bytes(k.stream, Len(k.stream)))
  ELSE IF k.tasks = <<>> THEN k.pos + 1..End(k) ELSE {}

\* A read event with data, with the pool: the first one takes a block.
ReadPooled(c) ==
  /\ settings.pooled
  /\ conn[c].open /\ conn[c].armed
  /\ \E pos \in Written(conn[c]) :
       LET k    == conn[c]
           data == SubSeq(Bytes(k.stream, Len(k.stream)), k.pos + 1, pos)
           ctx  == [k EXCEPT !.armed = FALSE, !.pos = pos, !.pooled = TRUE,
                             !.block = IF k.pooled THEN @ ELSE Allocated]
       IN  conn' = [conn EXCEPT ![c] = AfterRead(AppendPooled(ctx, data))]
  /\ IF conn[c].pooled THEN UNCHANGED pool ELSE Allocate
  /\ UNCHANGED settings

\* A read event with data, without the pool.
ReadString(c) ==
  /\ ~settings.pooled
  /\ conn[c].open /\ conn[c].armed
  /\ \E pos \in Written(conn[c]) :
       LET k    == conn[c]
           data == SubSeq(Bytes(k.stream, Len(k.stream)), k.pos + 1, pos)
       IN  conn' = [conn EXCEPT ![c] =
             AfterRead(AppendString([k EXCEPT !.armed = FALSE, !.pos = pos], data))]
  /\ UNCHANGED <<settings, pool>>

\* A bug to catch: the block is not returned.
KeepsBlock(k) == UNCHANGED pool
\* The context goes with the connection, and its buffer's block with the context.
Release(k) == Deallocate(k.block)
Close(c) ==
  /\ conn' = [conn EXCEPT ![c] = Closed]
  /\ Release(conn[c])
  /\ UNCHANGED settings

\* End of stream, a broken connection or the idle timer.
HangUp(c) ==
  /\ conn[c].open /\ conn[c].armed
  /\ Close(c)

WithoutTask(k, i) ==
  [k EXCEPT !.tasks = SubSeq(@, 1, i - 1) \o SubSeq(@, i + 1, Len(@))]

\* A response is written: the connection goes on with what is already buffered...
Respond(c) ==
  /\ \E i \in DOMAIN conn[c].tasks :
       /\ conn[c].tasks[i].keep
       /\ LET k == [ResetForNextRequest(WithoutTask(conn[c], i)) EXCEPT !.armed = TRUE]
          IN  conn' = [conn EXCEPT ![c] = IF PeekData(k) = <<>> THEN k ELSE Dispatch(k)]
  /\ UNCHANGED <<settings, pool>>

\* ... or ends.
RespondAndClose(c) ==
  /\ \E i \in DOMAIN conn[c].tasks : ~conn[c].tasks[i].keep
  /\ Close(c)

Next == \E c \in Conn :
  Accept(c) \/ ReadPooled(c) \/ ReadString(c) \/ HangUp(c) \/ Respond(c) \/ RespondAndClose(c)

Spec == Init /\ [][Next]_vars

----------------------------------------------------------------------------
(* What must hold *)

\* The requests handed to the handlers of a connection are the first ones its peer sent,
\* each once, in order and with its own body, however the bytes were cut into segments
\* and whatever followed them in the same segment (dispatchBufferedRequests, parse).
Framed ==
  \A c \in Conn : \A i \in DOMAIN conn[c].taken :
    /\ i <= Len(conn[c].stream)
    /\ conn[c].stream[i].fault = "none"
    /\ conn[c].taken[i] = [line |-> conn[c].stream[i].line, content |-> conn[c].stream[i].content]

\* A connection without a task waits for input, and its buffer is exactly the beginning of
\* the next request of its peer and not the whole of it: nothing complete is held back,
\* nothing is left over from the request before, no byte is lost.
AwaitsRest ==
  \A c \in Conn : (conn[c].open /\ conn[c].tasks = <<>>) =>
    /\ conn[c].armed
    /\ PeekData(conn[c]) = SubSeq(Sent(conn[c]), Start(conn[c]) + 1, conn[c].pos)
    /\ conn[c].pos < End(conn[c]) \/ conn[c].pos = Start(conn[c])

\* A refusal names a defect the peer's next request really has: conflicting framing, a body
\* or a length that is not allowed, or more bytes than the limit that is named.
Deserved(k, refusal) ==
  CASE refusal.why \in {"conflict", "large", "length"} ->
         /\ refusal.after < Len(k.stream)
         /\ k.stream[refusal.after + 1].fault = refusal.why
    [] refusal.why = "large request" -> k.pos - Len(Bytes(k.stream, refusal.after)) > maxRequestBytes
    [] refusal.why = "header"        -> k.pos - Len(Bytes(k.stream, refusal.after)) > maxRequestHeaderBytes
    [] refusal.why = "truncated"     -> k.pos - Len(Bytes(k.stream, refusal.after)) > settings.capacity
    [] refusal.why = "exhausted"     -> k.block = NoBlock
    [] OTHER                         -> TRUE
RefusalTrue == \A c \in Conn : \A refusal \in conn[c].refused : Deserved(conn[c], refusal)

\* What the three owe to the parser, stated of Parse alone: on what has come of a stream
\* from the beginning of a request on, it accepts that request, whole and with its own
\* bytes, or waits for more of it, or names what is wrong with it.
Right(stream, n, to, request) ==
  LET from == Len(Bytes(stream, n))
      next == Len(Bytes(stream, n + 1))
      r    == stream[n + 1]
  IN  /\ request.verdict \in {"ok", "more", "malformed", "conflict", "large", "length"}
      /\ request.verdict = "ok" =>
           /\ next <= to /\ request.length = next - from
           /\ request.line = r.line /\ request.body = r.content
           /\ request.head \in 0..request.length
           /\ r.fault # "none" => request.head > maxRequestHeaderBytes
      /\ request.verdict = "more" => to < next
      /\ request.verdict \in {"conflict", "large", "length"} => r.fault = request.verdict
ParsesRight ==
  \A c \in Conn : \A stream \in Streams[c] : \A n \in 0..(Len(stream) - 1) :
    LET from == Len(Bytes(stream, n))
        all  == Bytes(stream, Len(stream))
    IN  \A to \in from..Len(all) : Right(stream, n, to, Parse(SubSeq(all, from + 1, to)))

\* And to the settings: a block holds all that a peer sends that does not wait.
Roomy ==
  \A s \in Settings : \A c \in Conn : \A stream \in Streams[c] :
    s.pooled => s.waits \/ Len(Bytes(stream, Len(stream))) <= s.capacity

\* Every block is free, once, or in the buffer of one connection, and usedBlocks_ counts
\* the latter: no block is lost with a closed connection or lent twice.
Held == {c \in Conn : conn[c].block # NoBlock}
PoolExact ==
  /\ isUsed = {conn[c].block : c \in Held}
  /\ Cardinality(Held) = usedBlocks
  /\ usedBlocks = Cardinality(isUsed)
  /\ {free[i] : i \in DOMAIN free} = Block \ isUsed
  /\ Len(free) = Cardinality(Block \ isUsed)

\* README.md:371 and the comment at HttpRequest.cpp:76 promise that a request of which only
\* a part has arrived waits for the rest: only a request that is malformed is called so.
HalfPacketWaits ==
  \A c \in Conn : \A refusal \in conn[c].refused :
    refusal.why = "malformed" => /\ refusal.after < Len(conn[c].stream)
                                 /\ conn[c].stream[refusal.after + 1].fault = "malformed"

\* The comment at HttpServer.cpp:874: 431 is for a head that is too long.
OnlyLongHeads ==
  \A c \in Conn : \A refusal \in conn[c].refused :
    refusal.why = "header" =>
      Len(HeadOf(conn[c].stream[refusal.after + 1])) > maxRequestHeaderBytes

\* The comment at HttpServer.cpp:800: a connection whose request was truncated is not used
\* for another one.
TruncatedNotReused ==
  [][\A c \in Conn :
       (\E refusal \in conn[c].refused : refusal.why = "truncated") /\ conn'[c].open
         => conn'[c].taken = conn[c].taken]_vars
=============================================================================
