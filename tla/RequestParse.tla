---------------------------- MODULE RequestParse ----------------------------
(***************************************************************************)
(* HttpRequest::parse: what one call makes of the bytes a connection has   *)
(* buffered.                                                               *)
(*                                                                         *)
(* A buffer is a sequence of tokens, each standing for one byte wherever   *)
(* the code counts bytes: the words of a request line, the name, ":" and   *)
(* value of a header, "cr", "lf", a digit, ";" or a byte of a body.  What  *)
(* the framing depends on is kept: lines end at "lf" with one "cr"         *)
(* stripped, the headers end at the first empty line, the body begins      *)
(* after a separate search for CR LF CR LF or, failing that, LF LF.        *)
(* Numbers have one digit: sizes whose sum exceeds 64 bits are left out.   *)
(***************************************************************************)
EXTENDS Naturals, Sequences, FiniteSetsExt

CONSTANTS
  maxBodySize    \* maxBodySize_

CRLF == <<"cr", "lf">>
Versions == {"HTTP/1.0", "HTTP/1.1"}
DigitValue == [d \in {"0", "1", "2", "9"} |->
                 CASE d = "0" -> 0 [] d = "1" -> 1 [] d = "2" -> 2 [] d = "9" -> 9]

\* std::string::find: the first place at or after `from` where pat begins, 0 for none.
Find(s, pat, from) ==
  LET at == {i \in from..(Len(s) + 1 - Len(pat)) : SubSeq(s, i, i + Len(pat) - 1) = pat}
  IN  IF at = {} THEN 0 ELSE Min(at)

----------------------------------------------------------------------------
(* The head: the request line and the header lines. *)

LineStarts(s) == {1} \cup {i + 1 : i \in {j \in 1..(Len(s) - 1) : s[j] = "lf"}}

\* std::getline, then the trailing '\r' goes.
Line(s, start) ==
  LET lf   == Find(s, <<"lf">>, start)
      line == SubSeq(s, start, IF lf = 0 THEN Len(s) ELSE lf - 1)
  IN  IF line # <<>> /\ line[Len(line)] = "cr" THEN SubSeq(line, 1, Len(line) - 1) ELSE line

\* The header lines: from the second line to the first empty one.
HeaderLines(s) ==
  LET later == LineStarts(s) \ {1}
      empty == {i \in later : Line(s, i) = <<>>}
  IN  {i \in later : \A e \in empty : i < e}

RequestLineOk(s) ==
  LET line == Line(s, 1) IN Len(line) >= 3 /\ line[3] \in Versions

\* A line with a ":" after a name that is not empty.
HeaderLineOk(line) == line[1] # ":" /\ \E i \in DOMAIN line : line[i] = ":"

\* The later of two headers of the same name wins; none reads as the empty value.
HeaderAt(s, name) == {i \in HeaderLines(s) : Line(s, i)[1] = name}
HasHeader(s, name) == HeaderAt(s, name) # {}
HeaderValue(s, name) ==
  IF HasHeader(s, name)
  THEN LET line == Line(s, Max(HeaderAt(s, name))) IN SubSeq(line, 3, Len(line))
  ELSE <<>>

\* Where the body begins, or 0 while the end of the head has not arrived.
BodyStart(s) ==
  LET crlf == Find(s, CRLF \o CRLF, 1)
      lf   == Find(s, <<"lf", "lf">>, 1)
  IN  CASE crlf # 0          -> crlf + 4
        [] crlf = 0 /\ lf # 0 -> lf + 2
        [] OTHER             -> 0

KeepAlive(s) ==
  LET connection == HeaderValue(s, "connection")
  IN  IF Line(s, 1)[3] = "HTTP/1.1" THEN connection # <<"close">> ELSE connection = <<"keep-alive">>

----------------------------------------------------------------------------
(* The body. *)

TooLarge(n) == n > maxBodySize

\* The chunk-size line without its extension.
SizeOf(line) ==
  LET semi == Find(line, <<";">>, 1)
  IN  IF semi = 0 THEN line ELSE SubSeq(line, 1, semi - 1)
IsSize(size) == Len(size) = 1 /\ size[1] \in DOMAIN DigitValue

\* From the line after the last chunk to the empty line: where the message ends, 0 while
\* it has not.
TrailerEnd(s, start) ==
  LET end[p \in 1..(Len(s) + 1)] ==
        LET e == Find(s, CRLF, p)
        IN  CASE e = 0 -> 0
              [] e = p -> p + 2
              [] OTHER -> end[e + 2]
  IN  end[start]

\* scanChunkedEnd: <<outcome, first position after the message>>.
ScanChunkedEnd(s, start) ==
  LET scan[p \in 1..(Len(s) + 1), total \in 0..maxBodySize] ==
        LET e    == Find(s, CRLF, p)
            size == SizeOf(SubSeq(s, p, e - 1))
            n    == DigitValue[size[1]]
        IN  IF e = 0 THEN <<"more", 0>>
            ELSE IF ~IsSize(size) THEN <<"malformed", 0>>
            ELSE IF n = 0 THEN LET end == TrailerEnd(s, e + 2)
                               IN  <<IF end = 0 THEN "more" ELSE "ok", end>>
            ELSE IF TooLarge(total + n) THEN <<"large", 0>>
            ELSE IF e + 1 + n + 2 > Len(s) THEN <<"more", 0>>
            ELSE scan[e + 2 + n + 2, total + n]
  IN  scan[start, 0]

\* decodeChunkedBody: the data of the chunks, of a message ScanChunkedEnd found complete.
DecodeChunkedBody(s, start) ==
  LET data[p \in 1..(Len(s) + 1)] ==
        LET e == Find(s, CRLF, p)
            n == DigitValue[SizeOf(SubSeq(s, p, e - 1))[1]]
        IN  IF n = 0 THEN <<>> ELSE SubSeq(s, e + 2, e + 1 + n) \o data[e + 2 + n + 2]
  IN  data[start]

ContentLengthValid(s) ==
  HasHeader(s, "content-length") => IsSize(HeaderValue(s, "content-length"))
ContentLength(s) ==
  IF HasHeader(s, "content-length") THEN DigitValue[HeaderValue(s, "content-length")[1]] ELSE 0

\* The body of a Content-Length request, without the next request that follows it.
CutBody(s, start, n) == SubSeq(s, start, start + n - 1)

----------------------------------------------------------------------------
(* The verdict on a buffer: "ok", "more" (incomplete), or why it can never *)
(* become a request.  length is headEnd_ + headerEndSepLen_ + bodyConsumed_ *)
(* and head its part before the body.                                      *)

Verdict(v) == [verdict |-> v, line |-> <<>>, body |-> <<>>, head |-> 0, length |-> 0, keep |-> FALSE]
Accepted(s, start, body, end) ==
  [verdict |-> "ok", line |-> Line(s, 1), body |-> body,
   head |-> start - 1, length |-> end - 1, keep |-> KeepAlive(s)]

ParseChunked(s, start) ==
  LET scan == ScanChunkedEnd(s, start)
  IN  IF scan[1] = "ok"
      THEN Accepted(s, start, DecodeChunkedBody(s, start), scan[2])
      ELSE Verdict(scan[1])

ParseLength(s, start) ==
  LET n == ContentLength(s)
  IN  IF ~ContentLengthValid(s) THEN Verdict("length")
      ELSE IF TooLarge(n) THEN Verdict("large")
      ELSE IF start + n - 1 > Len(s) THEN Verdict("more")
      ELSE Accepted(s, start, CutBody(s, start, n), start + n)

Parse(s) ==
  LET start   == BodyStart(s)
      chunked == HeaderValue(s, "transfer-encoding") = <<"chunked">>
  IN  IF s = <<>> THEN Verdict("more")
      ELSE IF ~RequestLineOk(s) THEN Verdict("malformed")
      ELSE IF \E i \in HeaderLines(s) : ~HeaderLineOk(Line(s, i)) THEN Verdict("malformed")
      ELSE IF start = 0 THEN Verdict("more")
      ELSE IF chunked /\ HasHeader(s, "content-length") THEN Verdict("conflict")
      ELSE IF chunked THEN ParseChunked(s, start) ELSE ParseLength(s, start)
=============================================================================
