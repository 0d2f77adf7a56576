---------------------------- MODULE SessionText ----------------------------
(***************************************************************************)
(* The data of a session as text: "key:value" lines, written without an    *)
(* escape and read back line by line.  A text is the sequence of its       *)
(* lines, and a line is a sequence of pieces, of which ":" and the end     *)
(* mark matter: whatever follows a line feed in a key or in a value stands *)
(* on a line of its own.                                                   *)
(***************************************************************************)
EXTENDS Naturals, Sequences, FiniteSets

CONSTANT Piece  \* what lines are made of: ":" and strings that have none

ASSUME PieceAssumption == ":" \in Piece

Line == Seq(Piece)
Text == Seq(Line) \ {<<>>}

\* The data of a session is a map from keys to values.
Typed(d) == DOMAIN d \subseteq Text /\ d \in [DOMAIN d -> Text]
IsData(d) == Typed(d) /\ IsFiniteSet(DOMAIN d)
NoData == <<>>

\* What is written for one key: "key:value" and a line feed.
LinesOf(k, v) == [k EXCEPT ![Len(k)] = @ \o <<":">> \o Head(v)] \o Tail(v)

\* Where the lines are: the a-th line of key k.  The keys follow each other in any order r.
Spots(d) == UNION {{k} \X (1..Len(LinesOf(k, d[k]))) : k \in DOMAIN d}
LineAt(d, p) == LinesOf(p[1], d[p[1]])[p[2]]
Orders(d) == {r \in [DOMAIN d -> 1..Cardinality(DOMAIN d)] :
                \A j, k \in DOMAIN d : r[j] = r[k] => j = k}
Before(r, p, q) == r[p[1]] < r[q[1]] \/ (p[1] = q[1] /\ p[2] < q[2])

\* The reading ends at a line that looks like the end mark ...
EndMark == <<"DATA_END">>
Reached(d, r) == {p \in Spots(d) : \A q \in Spots(d) : LineAt(d, q) = EndMark => Before(r, p, q)}

\* ... and takes from every other line what is before and what is behind the first ":", if any.
FirstColon(l) == {i \in 1..Len(l) : l[i] = ":" /\ \A j \in 1..(i - 1) : l[j] # ":"}
Pairs(l) == {[key |-> <<SubSeq(l, 1, i - 1)>>, value |-> <<SubSeq(l, i + 1, Len(l))>>] :
               i \in FirstColon(l)}
Found(d, r) == UNION {Pairs(LineAt(d, p)) : p \in Reached(d, r)}

\* Of two lines with the same key the later one holds.
Holds(d, r, k, v) ==
  \E p \in Reached(d, r) :
    /\ [key |-> k, value |-> v] \in Pairs(LineAt(d, p))
    /\ \A q \in Reached(d, r) : Before(r, p, q) => \A s \in Pairs(LineAt(d, q)) : s.key # k

\* What can be read where d was written.
ReadIn(d, r) ==
  {e \in [{s.key : s \in Found(d, r)} -> {s.value : s \in Found(d, r)}] :
     \A k \in DOMAIN e : Holds(d, r, k, e[k])}
Readings(d) == UNION {ReadIn(d, r) : r \in Orders(d)}

\* Data that the lines can hold: no line feed anywhere, no ":" in a key.
Plain(d) ==
  \A k \in DOMAIN d : /\ Len(k) = 1 /\ Len(d[k]) = 1
                      /\ \A i \in 1..Len(k[1]) : k[1][i] # ":"
=============================================================================
