--------------------------- MODULE MCSessionFiles --------------------------
(***************************************************************************)
(* SessionFiles for TLC: two contents of a session, of which the second,   *)
(* with a line feed in a value, reads back as the first.                   *)
(***************************************************************************)
EXTENDS SessionFiles, SequencesExt

MCPiece == {"a", "b", "x", "y", ":", "DATA_END"}

keyA == << <<"a">> >>
keyB == << <<"b">> >>
justX == << <<"x">> >>
justY == << <<"y">> >>

PlainData == (keyA :> justX) @@ (keyB :> justY)
MCData == {PlainData, keyA :> << <<"x">>, <<"b", ":", "y">> >>}

\* Sessions and threads differ in nothing but their name.
Symmetry == Permutations(Id) \cup Permutations(Caller)

\* readSessionFromFile, line after line: what it has collected when it comes to the end.
RECURSIVE Collected(_, _)
Collected(lines, found) ==
  IF lines = <<>> \/ Head(lines) = EndMark THEN found
  ELSE LET l == Head(lines)
           at == {i \in 1..Len(l) : l[i] = ":"}
           first == CHOOSE i \in at : \A j \in at : i <= j
       IN  Collected(Tail(lines),
             IF at = {} THEN found
             ELSE (<<SubSeq(l, 1, first - 1)>> :> <<SubSeq(l, first + 1, Len(l))>>) @@ found)

\* The keys in every order, each with its lines.
Files(d) ==
  {FlattenSeq([n \in 1..Len(o) |-> LinesOf(o[n], d[o[n]])]) : o \in SetToSeqs(DOMAIN d)}

Keys == {keyA, << <<"a", ":">> >>, << <<"DATA_END">>, <<"b">> >>, << <<>> >>}
Values == {justX, << <<"x">>, <<"a", ":", "y">> >>, << <<>>, EndMark, <<"b", ":">> >>}
Samples == UNION {[S -> Values] : S \in SUBSET Keys}
ASSUME ReadsLineByLine ==
  \A d \in Samples : /\ IsData(d)
                     /\ Readings(d) = {Collected(f, NoData) : f \in Files(d)}
                     /\ Plain(d) => Readings(d) = {d}
=============================================================================
