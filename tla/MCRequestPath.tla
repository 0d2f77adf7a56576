---------------------------- MODULE MCRequestPath ----------------------------
(***************************************************************************)
(* RequestPath for TLC: what the peers send.  The first connection's peer  *)
(* sends one of several streams, the second one short request, so that two *)
(* connections compete for one block.                                      *)
(***************************************************************************)
EXTENDS RequestPath

Request(target, eol, fields, body, content, fault) ==
  [line |-> <<"GET", target, "HTTP/1.1">>, eol |-> eol, fields |-> fields,
   body |-> body, content |-> content, fault |-> fault]

Length(value) == <<"content-length", <<value>>>>
Chunked == <<"transfer-encoding", <<"chunked">>>>

Get(target, eol) == Request(target, eol, <<>>, <<>>, <<>>, "none")
Post(target, eol, body) == Request(target, eol, <<Length("2")>>, body, body, "none")
Wrong(target, fields, body, fault) == Request(target, CRLF, fields, body, <<>>, fault)
Last(target, connection) ==
  Request(target, CRLF, <<<<"connection", <<connection>>>>>>, <<>>, <<>>, "none")

\* Two chunks, the first with an extension, and a trailer; a chunk ends like a head.
InChunks(target) ==
  Request(target, CRLF, <<Chunked>>,
          <<"1", ";", "x">> \o CRLF \o <<"cr">> \o CRLF \o
          <<"1">> \o CRLF \o <<"lf">> \o CRLF \o <<"0">> \o CRLF \o <<"t", ":", "x">> \o CRLF \o CRLF,
          <<"cr", "lf">>, "none")

Pipelines ==
  {<<Post("a1", CRLF, <<"b", "c">>), Get("a2", CRLF), Post("a3", CRLF, <<"lf", "lf">>)>>,
   <<Get("a1", CRLF), InChunks("a2"), Get("a3", CRLF)>>,
   <<Post("a1", <<"lf">>, <<"b", "c">>), Get("a2", <<"lf">>), Post("a3", <<"lf">>, <<"c", "b">>)>>,
   <<Last("a1", "keep-alive"), Last("a2", "close"), Get("a3", CRLF)>>}

Faulty ==
  {Wrong("a2", <<Length("2"), Chunked>>, <<"0">> \o CRLF \o CRLF, "conflict"),
   Wrong("a2", <<Length("9")>>, <<>>, "large"),
   Wrong("a2", <<Length("bad")>>, <<>>, "length"),
   Wrong("a2", <<Chunked>>, <<"x">> \o CRLF, "malformed"),
   Wrong("a2", <<Chunked>>, <<"1">> \o CRLF \o <<"b">> \o CRLF \o <<"2">> \o CRLF, "large"),
   Wrong("a2", <<<<"x", <<"y", "y", "y", "y", "y">>>>, <<"z", <<"y", "y", "y", "y", "y">>>>>>, <<>>, "header")}

MCStreams ==
  [c \in Conn |-> IF c = 1 THEN Pipelines \cup {<<Get("a1", CRLF), r, Get("a3", CRLF)>> : r \in Faulty}
                           ELSE {<<Post("b1", CRLF, <<"b", "b">>)>>}]

Small == [pooled |-> TRUE, capacity |-> 14, waits |-> TRUE]
Large == [pooled |-> TRUE, capacity |-> 50, waits |-> FALSE]
String == [pooled |-> FALSE, capacity |-> 0, waits |-> FALSE]

\* Settings under which a connection is not read while it has a task, or loses no byte.
MCSettings == {Small, Large, String}

\* Five short requests, and a pool whose block holds two of them.
ShortStreams ==
  [c \in Conn |-> {[i \in 1..5 |-> Get(<<"a1", "a2", "a3", "a4", "a5">>[i], CRLF)]}]
\* Requests of one peer with different line ends.
MixedStreams == [c \in Conn |-> {<<Get("a1", <<"lf">>), Get("a2", CRLF), Get("a3", CRLF)>>}]
TightSettings == {[pooled |-> TRUE, capacity |-> 14, waits |-> FALSE]}
StringSettings == {String}

\* What the proofs take for granted of the parser and of the settings.
ASSUME MCParsesRight == Streams = MCStreams => ParsesRight
ASSUME MCRoomy == Settings = MCSettings => Roomy
=============================================================================
