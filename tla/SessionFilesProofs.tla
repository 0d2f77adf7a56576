-------------------------- MODULE SessionFilesProofs --------------------------
(***************************************************************************)
(* Proofs about SessionFiles, for any sessions, callers and contents and   *)
(* any lifetime.  The process may crash at every step, and opening and     *)
(* renaming may fail; what needs a disk that takes what is written, or a   *)
(* file that can be read, says so.                                         *)
(***************************************************************************)
EXTENDS SessionFiles, FiniteSetTheorems, TLAPS

Writing == {"stamp", "data", "close", "rename"}

\* How far a call has come, and what it then knows.  A save keeps the mutex from the
\* opening of the temporary file to its renaming, so that at the end the file holds what
\* the save has read, with all the lines that reached the disk; and as nobody makes a
\* session older than the clock does, what it has read is at least as old as the session.
Course(c) ==
  /\ call[c].op = "none" <=> step[c].at = "idle"
  /\ step[c].at = "idle" => call[c] = NoCall
  /\ call[c].op \in {"none", "cleanup"} <=> call[c].id = NoId
  /\ call[c].answer = "open" <=> step[c].at # "done"
  /\ step[c].at \in Writing => call[c].op = "save"
  /\ step[c].at = "lock" => call[c].op \in {"load", "delete", "has"}
  /\ step[c].at = "clean" => call[c].op = "cleanup"
  /\ mutex = c <=> step[c].at \in Writing \cup {"clean"}
  /\ call[c].op = "save" => session[call[c].id] # Nothing
  /\ step[c].at \in {"data", "close", "rename"} => call[c].read # Nothing
  /\ step[c].at = "data" => call[c].read.age >= session[call[c].id].age
  /\ step[c].at = "rename" =>
       \E n \in Written :
         tmp[call[c].id] = [data |-> call[c].read.data, age |-> call[c].read.age, lines |-> n]

IInv == TypeOK /\ (\A c \in Caller : Course(c)) /\ ("write" \notin Faults => WholeFiles)

-----------------------------------------------------------------------------
(* The data of a session as text. *)

\* One sequence after another.
LEMMA Joined ==
  ASSUME NEW S, NEW q \in Seq(S), NEW r \in Seq(S)
  PROVE  /\ q \o r \in Seq(S) /\ Len(q \o r) = Len(q) + Len(r)
         /\ \A i \in 1..Len(q) : (q \o r)[i] = q[i]
         /\ \A i \in 1..Len(r) : (q \o r)[Len(q) + i] = r[i]
<1>1. /\ q \o r \in Seq(S) /\ Len(q) \in Nat /\ Len(r) \in Nat
      /\ Len(q \o r) = Len(q) + Len(r)
      /\ \A i \in 1..Len(q) : (q \o r)[i] = q[i]
  OBVIOUS
<1>2. \A i \in 1..Len(r) : (q \o r)[Len(q) + i] = r[i]
  BY <1>1
<1> QED
  BY <1>1, <1>2

\* The lines of a key and its value are lines.
LEMMA LinesType ==
  ASSUME NEW k \in Text, NEW v \in Text
  PROVE  LinesOf(k, v) \in Seq(Line)
<1> DEFINE l == k[Len(k)] \o <<":">> \o Head(v)
           f == [k EXCEPT ![Len(k)] = l]
<1>1. /\ k \in Seq(Line) /\ Len(k) \in Nat \ {0} /\ Len(k) \in 1..Len(k)
      /\ k[Len(k)] \in Seq(Piece) /\ Head(v) \in Seq(Piece) /\ Tail(v) \in Seq(Line)
  BY DEF Text, Line
<1>2. l \in Line
  <2>1. k[Len(k)] \o <<":">> \in Seq(Piece)
    BY <1>1, PieceAssumption
  <2> QED
    BY <1>1, <2>1 DEF Line
<1> HIDE DEF l
<1>3. f \in Seq(Line)
  BY <1>1, <1>2
<1> HIDE DEF f
<1>4. f \o Tail(v) \in Seq(Line)
  BY <1>1, <1>3
<1> QED
  BY <1>4 DEF LinesOf, f, l

\* What a line says is data that lines can hold.
LEMMA PairsPlain ==
  ASSUME NEW l \in Line, NEW s \in Pairs(l)
  PROVE  /\ s = [key |-> s.key, value |-> s.value]
         /\ s.key \in Text /\ Len(s.key) = 1 /\ \A i \in 1..Len(s.key[1]) : s.key[1][i] # ":"
         /\ s.value \in Text /\ Len(s.value) = 1
<1>1. PICK i \in FirstColon(l) :
        s = [key |-> <<SubSeq(l, 1, i - 1)>>, value |-> <<SubSeq(l, i + 1, Len(l))>>]
  BY DEF Pairs
<1> DEFINE k == SubSeq(l, 1, i - 1)
           v == SubSeq(l, i + 1, Len(l))
<1>2. /\ l \in Seq(Piece) /\ Len(l) \in Nat /\ i \in 1..Len(l)
      /\ \A j \in 1..(i - 1) : l[j] # ":"
  BY DEF FirstColon, Line
<1>3. /\ k \in Seq(Piece) /\ Len(k) = i - 1 /\ \A j \in 1..(i - 1) : k[j] = l[j]
  BY <1>2
<1>4. v \in Seq(Piece)
  BY <1>2
<1>5. s.key = <<k>> /\ s.value = <<v>>
  BY <1>1
<1> HIDE DEF k, v
<1>6. <<k>> \in Text /\ Len(<<k>>) = 1 /\ <<k>>[1] = k /\ <<v>> \in Text /\ Len(<<v>>) = 1
  BY <1>3, <1>4 DEF Text, Line
<1>7. \A j \in 1..Len(k) : k[j] # ":"
  BY <1>2, <1>3
<1> QED
  BY <1>1, <1>5, <1>6, <1>7

\* Data that lines can hold takes one line for each key, which says just that.
LEMMA PlainLine ==
  ASSUME NEW k \in Text, NEW v \in Text, Len(k) = 1, Len(v) = 1,
         \A i \in 1..Len(k[1]) : k[1][i] # ":"
  PROVE  /\ Len(LinesOf(k, v)) = 1
         /\ LinesOf(k, v)[1] # EndMark
         /\ Pairs(LinesOf(k, v)[1]) = {[key |-> k, value |-> v]}
<1> DEFINE a == k[1]
           b == v[1]
           l == a \o <<":">> \o b
<1>1. /\ a \in Seq(Piece) /\ b \in Seq(Piece) /\ k = <<a>> /\ v = <<b>>
      /\ Len(a) \in Nat /\ Len(b) \in Nat
  BY DEF Text, Line
<1>2. Head(v) = b /\ Tail(v) = <<>> /\ k[Len(k)] = a
  <2>1. Head(<<b>>) = b /\ Len(Tail(<<b>>)) = 0 /\ Tail(<<b>>) \in Seq(Line)
    BY <1>1 DEF Line
  <2>2. Tail(<<b>>) = <<>>
    BY <2>1
  <2>3. k[Len(k)] = a
    OBVIOUS
  <2> QED
    BY <1>1, <2>1, <2>2, <2>3
<1>3. [k EXCEPT ![Len(k)] = l] = <<l>>
  BY <1>1
<1>4. LinesOf(k, v) = <<l>>
  <2>1. LinesOf(k, v) = <<l>> \o <<>>
    BY <1>2, <1>3 DEF LinesOf
  <2> QED
    BY <2>1
<1>5. \A i \in 1..Len(a) : a[i] # ":"
  OBVIOUS
<1>6. /\ l \in Seq(Piece) /\ Len(l) = Len(a) + 1 + Len(b)
      /\ l[Len(a) + 1] = ":"
      /\ \A i \in 1..Len(a) : l[i] = a[i]
      /\ \A i \in 1..Len(b) : l[Len(a) + 1 + i] = b[i]
  <2> DEFINE c == a \o <<":">>
  <2>1. /\ c \in Seq(Piece) /\ Len(c) = Len(a) + 1 /\ c[Len(a) + 1] = ":"
        /\ \A i \in 1..Len(a) : c[i] = a[i]
    <3>1. <<":">> \in Seq(Piece) /\ Len(<<":">>) = 1 /\ <<":">>[1] = ":" /\ Len(a) \in Nat
      BY <1>1, PieceAssumption
    <3> QED
      BY <1>1, <3>1, Joined
  <2> HIDE DEF c
  <2>2. c \in Seq(Piece) /\ b \in Seq(Piece)
    BY <1>1, <2>1
  <2> HIDE DEF a, b
  <2>3. /\ c \o b \in Seq(Piece) /\ Len(c \o b) = Len(c) + Len(b)
        /\ \A i \in 1..Len(c) : (c \o b)[i] = c[i]
        /\ \A i \in 1..Len(b) : (c \o b)[Len(c) + i] = b[i]
    BY <2>2, Joined
  <2>4. /\ 1..Len(a) \subseteq 1..Len(c) /\ Len(a) + 1 \in 1..Len(c)
    BY <1>1, <2>1
  <2> QED
    BY <1>1, <2>1, <2>3, <2>4 DEF c
<1> HIDE DEF l, a, b
<1>7. l # EndMark
  BY <1>1, <1>6 DEF EndMark
<1>8. FirstColon(l) = {Len(a) + 1}
  <2>1. Len(a) + 1 \in FirstColon(l)
    <3>1. Len(a) + 1 \in 1..Len(l)
      BY <1>1, <1>6
    <3>2. \A j \in 1..((Len(a) + 1) - 1) : l[j] # ":"
      BY <1>1, <1>5, <1>6
    <3> QED
      BY <1>6, <3>1, <3>2 DEF FirstColon
  <2>2. ASSUME NEW i \in FirstColon(l) PROVE i = Len(a) + 1
    <3>1. i \in 1..Len(l) /\ l[i] = ":" /\ \A j \in 1..(i - 1) : l[j] # ":"
      BY DEF FirstColon
    <3>2. ~(i \in 1..Len(a))
      BY <1>5, <1>6, <3>1
    <3>3. ~(Len(a) + 1 \in 1..(i - 1))
      BY <1>6, <3>1
    <3> QED
      BY <1>1, <1>6, <3>1, <3>2, <3>3
  <2> QED
    BY <2>1, <2>2
<1>9. SubSeq(l, 1, (Len(a) + 1) - 1) = a
  <2> DEFINE w == SubSeq(l, 1, (Len(a) + 1) - 1)
  <2>1. w \in Seq(Piece) /\ Len(w) = Len(a) /\ \A i \in 1..Len(a) : w[i] = l[i]
    BY <1>1, <1>6
  <2> HIDE DEF w
  <2>2. \A i \in 1..Len(a) : w[i] = a[i]
    BY <1>6, <2>1
  <2>3. w = a
    BY <1>1, <2>1, <2>2
  <2> QED
    BY <2>3 DEF w
<1>10. SubSeq(l, (Len(a) + 1) + 1, Len(l)) = b
  <2> DEFINE w == SubSeq(l, (Len(a) + 1) + 1, Len(l))
  <2>1. w \in Seq(Piece) /\ Len(w) = Len(b) /\ \A i \in 1..Len(b) : w[i] = l[Len(a) + 1 + i]
    BY <1>1, <1>6
  <2> HIDE DEF w
  <2>2. w = b
    BY <1>1, <1>6, <2>1
  <2> QED
    BY <2>2 DEF w
<1>11. Pairs(l) = {[key |-> k, value |-> v]}
  BY <1>1, <1>8, <1>9, <1>10 DEF Pairs
<1> QED
  BY <1>4, <1>7, <1>11

\* The places of a line, and what is there.
LEMMA SpotsType ==
  ASSUME NEW d, Typed(d), NEW p \in Spots(d)
  PROVE  /\ p[1] \in DOMAIN d /\ p[2] \in 1..Len(LinesOf(p[1], d[p[1]]))
         /\ p = <<p[1], p[2]>> /\ LineAt(d, p) \in Line
<1>1. /\ p[1] \in DOMAIN d /\ p[2] \in 1..Len(LinesOf(p[1], d[p[1]]))
      /\ p = <<p[1], p[2]>>
  BY DEF Spots
<1>2. LinesOf(p[1], d[p[1]]) \in Seq(Line)
  BY <1>1, LinesType DEF Typed
<1> QED
  BY <1>1, <1>2 DEF LineAt

\* Whatever is read is data that lines can hold.
LEMMA ReadingsPlain ==
  ASSUME NEW d, Typed(d), NEW e \in Readings(d)
  PROVE  Typed(e) /\ Plain(e)
<1>1. PICK r \in Orders(d) : e \in ReadIn(d, r)
  BY DEF Readings
<1> DEFINE K == {s.key : s \in Found(d, r)}
           V == {s.value : s \in Found(d, r)}
<1>2. e \in [K -> V]
  BY <1>1 DEF ReadIn
<1>3. ASSUME NEW s \in Found(d, r)
      PROVE  /\ s.key \in Text /\ Len(s.key) = 1 /\ \A i \in 1..Len(s.key[1]) : s.key[1][i] # ":"
             /\ s.value \in Text /\ Len(s.value) = 1
  <2>1. PICK p \in Reached(d, r) : s \in Pairs(LineAt(d, p))
    BY DEF Found
  <2>2. LineAt(d, p) \in Line
    BY SpotsType DEF Reached
  <2> QED
    BY <2>1, <2>2, PairsPlain
<1>4. /\ \A k \in K : k \in Text /\ Len(k) = 1 /\ \A i \in 1..Len(k[1]) : k[1][i] # ":"
      /\ \A v \in V : v \in Text /\ Len(v) = 1
  BY <1>3
<1> HIDE DEF K, V
<1> QED
  BY <1>2, <1>4 DEF Typed, Plain

\* Where every key has one line, all of them are reached, and each says what the data says.
LEMMA PlainFound ==
  ASSUME NEW d, Typed(d), Plain(d), NEW r \in Orders(d)
  PROVE  /\ Reached(d, r) = {<<k, 1>> : k \in DOMAIN d}
         /\ \A k \in DOMAIN d : Pairs(LineAt(d, <<k, 1>>)) = {[key |-> k, value |-> d[k]]}
         /\ Found(d, r) = {[key |-> k, value |-> d[k]] : k \in DOMAIN d}
<1>1. ASSUME NEW k \in DOMAIN d
      PROVE  /\ Len(LinesOf(k, d[k])) = 1
             /\ LineAt(d, <<k, 1>>) # EndMark
             /\ Pairs(LineAt(d, <<k, 1>>)) = {[key |-> k, value |-> d[k]]}
  <2>1. k \in Text /\ d[k] \in Text
    BY DEF Typed
  <2> QED
    BY <2>1, PlainLine DEF Plain, LineAt
<1>2. Spots(d) = {<<k, 1>> : k \in DOMAIN d}
  <2>1. ASSUME NEW k \in DOMAIN d PROVE {k} \X (1..Len(LinesOf(k, d[k]))) = {<<k, 1>>}
    <3>1. Len(LinesOf(k, d[k])) = 1
      BY <1>1
    <3>2. \A i : i \in 1..1 <=> i = 1
      OBVIOUS
    <3> QED
      BY <3>1, <3>2
  <2> QED
    BY <2>1 DEF Spots
<1>3. Reached(d, r) = Spots(d)
  BY <1>1, <1>2 DEF Reached
<1>4. Found(d, r) = {[key |-> k, value |-> d[k]] : k \in DOMAIN d}
  <2>1. Found(d, r) = UNION {Pairs(LineAt(d, <<k, 1>>)) : k \in DOMAIN d}
    BY <1>2, <1>3 DEF Found
  <2>2. ASSUME NEW s \in Found(d, r) PROVE \E k \in DOMAIN d : s = [key |-> k, value |-> d[k]]
    <3>1. PICK k \in DOMAIN d : s \in Pairs(LineAt(d, <<k, 1>>))
      BY <2>1
    <3>2. s \in {[key |-> k, value |-> d[k]]}
      BY <1>1, <3>1
    <3> QED
      BY <3>2
  <2>3. ASSUME NEW k \in DOMAIN d PROVE [key |-> k, value |-> d[k]] \in Found(d, r)
    <3>1. [key |-> k, value |-> d[k]] \in Pairs(LineAt(d, <<k, 1>>))
      BY <1>1
    <3> QED
      BY <2>1, <3>1
  <2> QED
    BY <2>2, <2>3
<1> QED
  BY <1>1, <1>2, <1>3, <1>4

\* Data without a line feed, and without a ":" in a key, is read back as it was written.
LEMMA PlainComesBack ==
  ASSUME NEW d, Typed(d), Plain(d), NEW e \in Readings(d)
  PROVE  e = d
<1>1. PICK r \in Orders(d) : e \in ReadIn(d, r)
  BY DEF Readings
<1>2. /\ e \in [{s.key : s \in Found(d, r)} -> {s.value : s \in Found(d, r)}]
      /\ \A k \in DOMAIN e : Holds(d, r, k, e[k])
  BY <1>1 DEF ReadIn
<1>3. {s.key : s \in Found(d, r)} = DOMAIN d
  <2>1. \A k \in DOMAIN d : [key |-> k, value |-> d[k]] \in Found(d, r)
    BY PlainFound
  <2>2. \A s \in Found(d, r) : s.key \in DOMAIN d
    BY PlainFound
  <2>3. \A k \in DOMAIN d : [key |-> k, value |-> d[k]].key = k
    OBVIOUS
  <2> QED
    BY <2>1, <2>2, <2>3
<1>4. DOMAIN e = DOMAIN d
  BY <1>2, <1>3
<1>5. ASSUME NEW k \in DOMAIN d PROVE e[k] = d[k]
  <2>1. PICK p \in Reached(d, r) : [key |-> k, value |-> e[k]] \in Pairs(LineAt(d, p))
    BY <1>2, <1>4 DEF Holds
  <2>2. PICK j \in DOMAIN d : p = <<j, 1>> /\ Pairs(LineAt(d, p)) = {[key |-> j, value |-> d[j]]}
    BY PlainFound
  <2>3. [key |-> k, value |-> e[k]] = [key |-> j, value |-> d[j]]
    BY <2>1, <2>2
  <2> QED
    BY <2>3
<1> QED
  BY <1>2, <1>4, <1>5 DEF Typed

\* ... and it can be read.
LEMMA PlainReadable ==
  ASSUME NEW d, IsData(d), Plain(d)
  PROVE  d \in Readings(d)
<1> DEFINE n == Cardinality(DOMAIN d)
<1>1. Typed(d) /\ IsFiniteSet(DOMAIN d)
  BY DEF IsData
<1>2. n \in Nat /\ ExistsBijection(1..n, DOMAIN d)
  BY <1>1, FS_CardinalityType
<1>3. PICK r : r \in Orders(d)
  <2>1. PICK f \in Bijection(1..n, DOMAIN d) : TRUE
    BY <1>2 DEF ExistsBijection
  <2> DEFINE r == [k \in DOMAIN d |-> CHOOSE i \in 1..n : f[i] = k]
  <2>2. \A k \in DOMAIN d : \E i \in 1..n : f[i] = k
    BY <2>1 DEF Bijection, Surjection
  <2>3. \A k \in DOMAIN d : r[k] \in 1..n /\ f[r[k]] = k
    BY <2>2
  <2>4. r \in Orders(d)
    BY <2>3 DEF Orders
  <2> QED
    BY <2>4
<1>4. ASSUME NEW k \in DOMAIN d PROVE Holds(d, r, k, d[k])
  <2> DEFINE p == <<k, 1>>
  <2>1. p \in Reached(d, r) /\ [key |-> k, value |-> d[k]] \in Pairs(LineAt(d, p))
    BY <1>1, <1>3, PlainFound
  <2>2. ASSUME NEW q \in Reached(d, r), Before(r, p, q), NEW s \in Pairs(LineAt(d, q))
        PROVE  s.key # k
    <3>1. PICK j \in DOMAIN d : q = <<j, 1>> /\ Pairs(LineAt(d, q)) = {[key |-> j, value |-> d[j]]}
      BY <1>1, <1>3, PlainFound
    <3>2. s.key = j
      BY <2>2, <3>1
    <3>3. r[k] \in Nat /\ (r[k] < r[j] \/ (k = j /\ 1 < 1))
      BY <1>2, <1>3, <2>2, <3>1 DEF Before, Orders
    <3> QED
      BY <3>2, <3>3
  <2> QED
    BY <2>1, <2>2 DEF Holds
<1>5. Found(d, r) = {[key |-> k, value |-> d[k]] : k \in DOMAIN d}
  BY <1>1, <1>3, PlainFound
<1>6. d \in [{s.key : s \in Found(d, r)} -> {s.value : s \in Found(d, r)}]
  <2>1. \A k \in DOMAIN d : /\ [key |-> k, value |-> d[k]] \in Found(d, r)
                           /\ [key |-> k, value |-> d[k]].key = k
                           /\ [key |-> k, value |-> d[k]].value = d[k]
    BY <1>5
  <2>2. \A s \in Found(d, r) : s.key \in DOMAIN d
    BY <1>5
  <2>3. {s.key : s \in Found(d, r)} = DOMAIN d
    BY <2>1, <2>2
  <2>4. \A k \in DOMAIN d : d[k] \in {s.value : s \in Found(d, r)}
    BY <2>1
  <2> QED
    BY <1>1, <2>3, <2>4 DEF Typed
<1> QED
  BY <1>3, <1>4, <1>6 DEF ReadIn, Readings

\* Data without a line feed, and without a ":" in a key, comes back as it was written, in
\* whatever order its keys are written; of other data SessionFilesText.cfg shows what comes.
THEOREM PlainReadsBack == \A d : IsData(d) /\ Plain(d) => Readings(d) = {d}
<1> SUFFICES ASSUME NEW d, IsData(d), Plain(d) PROVE Readings(d) = {d}
  OBVIOUS
<1>1. Typed(d)
  BY DEF IsData
<1> QED
  BY <1>1, PlainComesBack, PlainReadable

\* What the program stores, and what becomes of it, is data; what is read where it was
\* stored is such data again.
LEMMA NoDataPlain == IsData(NoData) /\ Plain(NoData)
<1>1. DOMAIN NoData = {} /\ IsFiniteSet({})
  BY FS_EmptySet DEF NoData
<1>2. NoData \in [{} -> Text]
  BY <1>1 DEF NoData
<1> QED
  BY <1>1, <1>2 DEF IsData, Typed, Plain

LEMMA AllDataTyped == ASSUME NEW d \in AllData PROVE Typed(d)
<1>1. CASE d \in Data
  BY <1>1, FilesAssumption DEF IsData
<1>2. CASE d = NoData
  BY <1>2, NoDataPlain DEF IsData
<1>3. CASE \E c \in Data : d \in Readings(c)
  BY <1>3, FilesAssumption, ReadingsPlain DEF IsData
<1> QED
  BY <1>1, <1>2, <1>3 DEF AllData

LEMMA AllDataClosed == ASSUME NEW d \in AllData, NEW e \in Readings(d) PROVE e \in AllData
<1>1. CASE d \in Data
  BY <1>1 DEF AllData
<1>2. CASE Plain(d)
  BY <1>2, AllDataTyped, PlainComesBack
<1>3. CASE d = NoData
  BY <1>2, <1>3, NoDataPlain
<1>4. CASE \E c \in Data : d \in Readings(c)
  BY <1>2, <1>4, FilesAssumption, ReadingsPlain DEF IsData
<1> QED
  BY <1>1, <1>3, <1>4 DEF AllData

\* What a load can make of data is what can be read where it was written.
LEMMA ReturnedReadings ==
  ASSUME NEW d \in AllData, NEW e \in Readings(d)
  PROVE  e \in Returned[d]
BY AllDataTyped, PlainComesBack DEF Returned

-----------------------------------------------------------------------------
(* A second passes. *)

LEMMA OlderEntry ==
  ASSUME NEW s \in Entries \cup {Nothing}
  PROVE  /\ Older(s) \in Entries \cup {Nothing}
         /\ Older(s) = Nothing <=> s = Nothing
         /\ s # Nothing => /\ Older(s).data = s.data
                           /\ Older(s).age = IF s.age = Expiration THEN s.age ELSE s.age + 1
BY FilesAssumption DEF Older, Entries, Ages

LEMMA OlderContents ==
  ASSUME NEW f \in Contents \cup {Nothing}
  PROVE  /\ Older(f) \in Contents \cup {Nothing}
         /\ Older(f) = Nothing <=> f = Nothing
         /\ f # Nothing => /\ Older(f).data = f.data /\ Older(f).lines = f.lines
                           /\ Older(f).age = IF f.age = Expiration THEN f.age ELSE f.age + 1
BY FilesAssumption DEF Older, Contents, Ages

\* What a file holds when it is read: a session, or nothing that can be used.
LEMMA ReadEntry ==
  ASSUME NEW f \in Contents \cup {Nothing}, NEW s \in ReadSession(f)
  PROVE  s \in Entries \cup {Nothing}
<1>1. CASE s = Nothing
  BY <1>1
<1>2. CASE s # Nothing
  <2>1. f \in Contents /\ s \in Parsed(f)
    BY <1>2 DEF ReadSession
  <2>2. f.data \in AllData /\ f.age \in Ages /\ NoData \in AllData /\ 0 \in Ages
    BY <2>1, FilesAssumption DEF Contents, AllData, Ages
  <2>3. \/ \E d \in Readings(f.data) : s = [data |-> d, age |-> IF d = NoData THEN f.age ELSE 0]
        \/ \E a \in Ages : s = [data |-> NoData, age |-> a]
    BY <1>2, <2>1, <2>2 DEF Parsed
  <2> QED
    BY <2>2, <2>3, AllDataClosed DEF Entries
<1> QED
  BY <1>1, <1>2

-----------------------------------------------------------------------------
\* Nobody has called, and there is no file.
LEMMA InitInv == Init => IInv
<1> SUFFICES ASSUME Init PROVE IInv
  OBVIOUS
<1>1. TypeOK
  BY DEF Init, TypeOK, NoCall, NoStep, Calls, Steps, Places
<1>2. ASSUME NEW c \in Caller PROVE Course(c)
  <2>1. call[c] = NoCall /\ step[c] = NoStep /\ mutex # c
    BY FilesAssumption DEF Init
  <2> QED
    BY <2>1 DEF Course, NoCall, NoStep, Writing
<1> QED
  BY <1>1, <1>2 DEF IInv, Init, WholeFiles

\* What caller c does is none of another caller's business: the temporary file of a save
\* is touched by the holder of the mutex alone.
LEMMA Others ==
  ASSUME IInv, NEW c \in Caller, NEW d \in Caller, d # c,
         call'[d] = call[d], step'[d] = step[d],
         \A i \in Id : session[i] # Nothing => session'[i] = session[i],
         \/ mutex' = mutex /\ tmp' = tmp
         \/ {mutex, mutex'} \subseteq {c, NoCaller}
  PROVE  Course(d)'
<1>1. Course(d) /\ d # NoCaller
  BY FilesAssumption DEF IInv
<1>2. call[d].op = "save" => call[d].id \in Id
  BY <1>1 DEF Course, IInv, TypeOK, Calls
<1>3. mutex' = d <=> mutex = d
  BY <1>1
<1>4. step[d].at = "rename" => tmp' = tmp
  BY <1>1 DEF Course, Writing
<1> QED
  BY <1>1, <1>2, <1>3, <1>4 DEF Course, Writing, Written

\* The three ways in which a step changes what is known of one call: the whole call,
\* the session it has read, its answer.
LEMMA NewCall ==
  ASSUME TypeOK, NEW c \in Caller, NEW k \in Calls, call' = [call EXCEPT ![c] = k]
  PROVE  call' \in [Caller -> Calls] /\ call'[c] = k /\ \A d \in Caller \ {c} : call'[d] = call[d]
<1>1. call \in [Caller -> Calls]
  BY DEF TypeOK
<1> QED
  BY <1>1

LEMMA HasRead ==
  ASSUME TypeOK, NEW c \in Caller, NEW r \in Entries \cup {Nothing},
         call' = [call EXCEPT ![c].read = r]
  PROVE  /\ call' \in [Caller -> Calls] /\ \A d \in Caller \ {c} : call'[d] = call[d]
         /\ call'[c] = [op |-> call[c].op, id |-> call[c].id, read |-> r, answer |-> call[c].answer]
<1>1. call \in [Caller -> Calls] /\ call[c] \in Calls
  BY DEF TypeOK
<1>2. /\ [call[c] EXCEPT !.read = r]
           = [op |-> call[c].op, id |-> call[c].id, read |-> r, answer |-> call[c].answer]
      /\ [call[c] EXCEPT !.read = r] \in Calls
  BY <1>1 DEF Calls
<1> QED
  BY <1>1, <1>2

LEMMA Answers ==
  ASSUME TypeOK, NEW c \in Caller, NEW a \in {"yes", "no"}, Answer(c, a)
  PROVE  /\ call' \in [Caller -> Calls] /\ \A d \in Caller \ {c} : call'[d] = call[d]
         /\ call'[c] = [op |-> call[c].op, id |-> call[c].id, read |-> Nothing, answer |-> a]
<1>1. call \in [Caller -> Calls] /\ call[c] \in Calls
  BY DEF TypeOK
<1> DEFINE k1 == [call[c] EXCEPT !.answer = a]
           k == [k1 EXCEPT !.read = Nothing]
<1>2. k1 \in Calls /\ k1.op = call[c].op /\ k1.id = call[c].id /\ k1.answer = a
  BY <1>1 DEF Calls
<1>3. call' = [call EXCEPT ![c] = k]
  BY <1>1 DEF Answer
<1> HIDE DEF k1
<1>4. k \in Calls
  BY <1>2 DEF Calls
<1>5. k = [op |-> call[c].op, id |-> call[c].id, read |-> Nothing, answer |-> a]
  BY <1>2 DEF Calls
<1> QED
  BY <1>1, <1>3, <1>4, <1>5

\* ... and the place it has come to.
LEMMA Moves ==
  ASSUME TypeOK, NEW c \in Caller, NEW w \in Places, Goes(c, w)
  PROVE  /\ step' \in [Caller -> Steps] /\ step'[c].at = w
         /\ \A d \in Caller \ {c} : step'[d] = step[d]
<1>1. step \in [Caller -> Steps] /\ step[c] \in Steps
  BY DEF TypeOK
<1>2. [step[c] EXCEPT !.at = w] \in Steps /\ [step[c] EXCEPT !.at = w].at = w
  BY <1>1 DEF Steps
<1> QED
  BY <1>1, <1>2 DEF Goes

LEMMA PlaceNames ==
  {"called", "stamp", "data", "close", "rename", "lock", "clean", "done"} \subseteq Places
BY DEF Places

\* A call that is answered without the mutex is over, whatever it was.
LEMMA Done ==
  ASSUME IInv, NEW c \in Caller, UNCHANGED session, mutex' # c, step[c].at # "idle",
         step'[c].at = "done", call'[c].op = call[c].op, call'[c].id = call[c].id,
         call'[c].answer # "open"
  PROVE  Course(c)'
BY DEF IInv, Course, Writing

-----------------------------------------------------------------------------
(* The steps of one caller.  In each lemma the first step says what becomes of the      *)
(* caller's own call; the others keep their course by the lemma above.                  *)

\* A call begins.
LEMMA BeginInv == ASSUME IInv, NEW c \in Caller, Begin(c) PROVE IInv'
<1> USE DEF IInv
<1>0. ASSUME NEW op \in {"save", "load", "delete", "has", "cleanup"}, NEW i \in Id \cup {NoId}
      PROVE  [NoCall EXCEPT !.op = op, !.id = i]
               = [op |-> op, id |-> i, read |-> Nothing, answer |-> "open"]
  <2> DEFINE k == [NoCall EXCEPT !.op = op]
  <2>1. /\ k \in Calls /\ k.op = op /\ k.read = Nothing /\ k.answer = "open"
        /\ [NoCall EXCEPT !.op = op, !.id = i] = [k EXCEPT !.id = i]
    BY DEF NoCall, Calls
  <2> HIDE DEF k
  <2>2. [k EXCEPT !.id = i] = [op |-> op, id |-> i, read |-> Nothing, answer |-> "open"]
    BY <2>1 DEF Calls
  <2> QED
    BY <2>1, <2>2
<1>1. PICK op \in {"save", "load", "delete", "has", "cleanup"}, i \in Id \cup {NoId} :
        /\ call[c] = NoCall
        /\ (op = "cleanup") = (i = NoId)
        /\ op = "save" => session[i] # Nothing
        /\ call' = [call EXCEPT ![c] = [op |-> op, id |-> i, read |-> Nothing, answer |-> "open"]]
        /\ Goes(c, "called")
        /\ UNCHANGED <<session, file, tmp, mutex>>
  <2>1. PICK op \in {"save", "load", "delete", "has", "cleanup"}, i \in Id \cup {NoId} :
          /\ (op = "cleanup") = (i = NoId)
          /\ op = "save" => session[i] # Nothing
          /\ call' = [call EXCEPT ![c] = [NoCall EXCEPT !.op = op, !.id = i]]
    BY DEF Begin
  <2>2. call' = [call EXCEPT ![c] = [op |-> op, id |-> i, read |-> Nothing, answer |-> "open"]]
    BY <1>0, <2>1
  <2>3. call[c] = NoCall /\ Goes(c, "called") /\ UNCHANGED <<session, file, tmp, mutex>>
    BY DEF Begin
  <2> QED
    BY <2>1, <2>2, <2>3
<1>2. [op |-> op, id |-> i, read |-> Nothing, answer |-> "open"] \in Calls
  BY DEF Calls
<1>3. /\ call' \in [Caller -> Calls]
      /\ call'[c] = [op |-> op, id |-> i, read |-> Nothing, answer |-> "open"]
      /\ \A d \in Caller \ {c} : call'[d] = call[d]
  BY <1>1, <1>2, NewCall
<1>4. /\ step' \in [Caller -> Steps] /\ step'[c].at = "called"
      /\ \A d \in Caller \ {c} : step'[d] = step[d]
  BY <1>1, Moves, PlaceNames
<1>5. mutex # c
  BY <1>1 DEF Course, NoCall, Writing
<1>6. TypeOK'
  BY <1>1, <1>3, <1>4 DEF TypeOK
<1>7. Course(c)'
  BY <1>1, <1>3, <1>4, <1>5, FilesAssumption DEF Course, Writing
<1>8. ASSUME NEW d \in Caller, d # c PROVE Course(d)'
  BY <1>1, <1>3, <1>4, <1>8, Others
<1> QED
  BY <1>1, <1>6, <1>7, <1>8 DEF WholeFiles

\* A call returns; a loaded session that the program takes over replaces no other.
LEMMA ReturnInv == ASSUME IInv, NEW c \in Caller, Return(c) PROVE IInv'
<1> USE DEF IInv
<1>1. /\ call' = [call EXCEPT ![c] = NoCall] /\ step' = [step EXCEPT ![c] = NoStep]
      /\ step[c].at = "done" /\ UNCHANGED <<file, tmp, mutex>>
  BY DEF Return, Course
<1>2. /\ call'[c] = NoCall /\ step'[c] = NoStep /\ mutex # c
      /\ \A d \in Caller \ {c} : call'[d] = call[d] /\ step'[d] = step[d]
  BY <1>1 DEF TypeOK, Course, Writing
<1>3. /\ session' \in [Id -> Entries \cup {Nothing}]
      /\ \A i \in Id : session[i] # Nothing => session'[i] = session[i]
  BY DEF Return, TypeOK, Calls
<1>4. TypeOK'
  <2>1. NoCall \in Calls /\ NoStep \in Steps
    BY DEF NoCall, NoStep, Calls, Steps, Places
  <2> QED
    BY <1>1, <1>3, <2>1 DEF TypeOK
<1>5. Course(c)'
  BY <1>1, <1>2 DEF Course, Writing, NoCall, NoStep
<1>6. ASSUME NEW d \in Caller, d # c PROVE Course(d)'
  BY <1>1, <1>2, <1>3, <1>6, Others
<1> QED
  BY <1>1, <1>4, <1>5, <1>6 DEF WholeFiles

\* saveSession takes the mutex and opens the temporary file ...
LEMMA OpenTmpInv == ASSUME IInv, NEW c \in Caller, OpenTmp(c) PROVE IInv'
<1> USE DEF IInv
<1>1. /\ call[c].op = "save" /\ step[c].at = "called" /\ mutex = NoCaller /\ mutex' = c
      /\ tmp' = [tmp EXCEPT ![call[c].id] = [data |-> NoData, age |-> Expiration, lines |-> 0]]
      /\ UNCHANGED <<session, file, call>>
  BY DEF OpenTmp, At, MutexFree
<1>2. /\ step' \in [Caller -> Steps] /\ step'[c].at = "stamp"
      /\ \A d \in Caller \ {c} : step'[d] = step[d]
  BY Moves, PlaceNames DEF OpenTmp
<1>3. [data |-> NoData, age |-> Expiration, lines |-> 0] \in Contents
  BY FilesAssumption DEF Contents, Ages, Whole, AllData
<1>4. TypeOK'
  BY <1>1, <1>2, <1>3 DEF TypeOK
<1>5. Course(c)'
  BY <1>1, <1>2 DEF Course, Writing
<1>6. ASSUME NEW d \in Caller, d # c PROVE Course(d)'
  BY <1>1, <1>2, <1>6, Others
<1> QED
  BY <1>1, <1>4, <1>5, <1>6 DEF WholeFiles

\* ... reads the session's times ...
LEMMA ReadStampInv == ASSUME IInv, NEW c \in Caller, ReadStamp(c) PROVE IInv'
<1> USE DEF IInv
<1> DEFINE s == session[call[c].id]
<1>1. /\ call[c].op = "save" /\ step[c].at = "stamp" /\ mutex = c
      /\ call' = [call EXCEPT ![c].read = s]
      /\ UNCHANGED <<session, file, tmp, mutex>>
  BY DEF ReadStamp, At, Course, Writing
<1>2. call[c].id \in Id /\ s \in Entries /\ s # Nothing
  BY <1>1 DEF Course, TypeOK, Calls
<1>3. /\ call' \in [Caller -> Calls] /\ \A d \in Caller \ {c} : call'[d] = call[d]
      /\ call'[c] = [op |-> call[c].op, id |-> call[c].id, read |-> s, answer |-> call[c].answer]
  BY <1>1, <1>2, HasRead
<1>4. /\ step' \in [Caller -> Steps] /\ step'[c].at = "data"
      /\ \A d \in Caller \ {c} : step'[d] = step[d]
  BY Moves, PlaceNames DEF ReadStamp
<1>5. s.age >= s.age
  BY <1>2, FilesAssumption DEF Entries, Ages
<1>6. TypeOK'
  BY <1>1, <1>3, <1>4 DEF TypeOK
<1>9. /\ call'[c].op = "save" /\ call'[c].id = call[c].id /\ call'[c].read = s
      /\ call'[c].answer = "open" /\ session'[call'[c].id] = s
  <2>1. call[c].answer = "open"
    BY <1>1 DEF Course
  <2> QED
    BY <1>1, <1>3, <2>1
<1>7. Course(c)'
  BY <1>1, <1>2, <1>4, <1>5, <1>9, FilesAssumption DEF Course, Writing
<1>8. ASSUME NEW d \in Caller, d # c PROVE Course(d)'
  BY <1>1, <1>3, <1>4, <1>8, Others
<1> QED
  BY <1>1, <1>6, <1>7, <1>8 DEF WholeFiles

\* ... then its data ...
LEMMA ReadDataInv == ASSUME IInv, NEW c \in Caller, ReadData(c) PROVE IInv'
<1> USE DEF IInv
<1> DEFINE r == [call[c].read EXCEPT !.data = session[call[c].id].data]
<1>1. /\ call[c].op = "save" /\ step[c].at = "data" /\ mutex = c
      /\ UNCHANGED <<session, file, tmp, mutex>>
  BY DEF ReadData, At, Course, Writing
<1>2. call[c].id \in Id /\ session[call[c].id] \in Entries /\ call[c].read \in Entries
  BY <1>1 DEF Course, TypeOK, Calls
<1>3. r \in Entries /\ r # Nothing
  BY <1>2, FilesAssumption DEF Entries
<1>4. call' = [call EXCEPT ![c].read = r]
  BY DEF ReadData, TypeOK
<1> HIDE DEF r
<1>5. /\ call' \in [Caller -> Calls] /\ \A d \in Caller \ {c} : call'[d] = call[d]
      /\ call'[c] = [op |-> call[c].op, id |-> call[c].id, read |-> r, answer |-> call[c].answer]
  BY <1>3, <1>4, HasRead
<1>6. /\ step' \in [Caller -> Steps] /\ step'[c].at = "close"
      /\ \A d \in Caller \ {c} : step'[d] = step[d]
  BY Moves, PlaceNames DEF ReadData
<1>7. TypeOK'
  BY <1>1, <1>5, <1>6 DEF TypeOK
<1>8. Course(c)'
  BY <1>1, <1>3, <1>5, <1>6 DEF Course, Writing
<1>9. ASSUME NEW d \in Caller, d # c PROVE Course(d)'
  BY <1>1, <1>5, <1>6, <1>9, Others
<1> QED
  BY <1>1, <1>7, <1>8, <1>9 DEF WholeFiles

\* ... and closes the file, which then holds what was read, as far as it was written.
LEMMA CloseTmpInv == ASSUME IInv, NEW c \in Caller, CloseTmp(c) PROVE IInv'
<1> USE DEF IInv
<1>1. PICK n \in Written :
        /\ call[c].op = "save" /\ step[c].at = "close" /\ mutex = c
        /\ tmp' = [tmp EXCEPT ![call[c].id] =
                     [data |-> call[c].read.data, age |-> call[c].read.age, lines |-> n]]
        /\ UNCHANGED <<session, file, mutex, call>>
  BY DEF CloseTmp, At, Course, Writing
<1> DEFINE f == [data |-> call[c].read.data, age |-> call[c].read.age, lines |-> n]
<1>2. call[c].id \in Id /\ call[c].read \in Entries /\ call[c].read # Nothing
  BY <1>1 DEF Course, TypeOK, Calls
<1>3. f \in Contents
  BY <1>2 DEF Contents, Entries, Written, Whole
<1> HIDE DEF f
<1>4. tmp' \in [Id -> Contents \cup {Nothing}] /\ tmp'[call[c].id] = f
  BY <1>1, <1>2, <1>3 DEF TypeOK, f
<1>5. /\ step' \in [Caller -> Steps] /\ step'[c].at = "rename"
      /\ \A d \in Caller \ {c} : step'[d] = step[d]
  BY Moves, PlaceNames DEF CloseTmp
<1>6. TypeOK'
  BY <1>1, <1>4, <1>5 DEF TypeOK
<1>7. Course(c)'
  BY <1>1, <1>2, <1>4, <1>5 DEF Course, Writing, Written, f
<1>8. ASSUME NEW d \in Caller, d # c PROVE Course(d)'
  BY <1>1, <1>5, <1>8, Others
<1> QED
  BY <1>1, <1>6, <1>7, <1>8 DEF WholeFiles

\* The save is over: the temporary file takes the place of the old one, or is removed,
\* or was never opened.
LEMMA SavedInv ==
  ASSUME IInv, NEW c \in Caller, OpenFails(c) \/ Rename(c) \/ RenameFails(c)
  PROVE  IInv'
<1> USE DEF IInv
<1>1. PICK a \in {"yes", "no"} : Answer(c, a)
  BY DEF OpenFails, Rename, RenameFails
<1>2. /\ call' \in [Caller -> Calls] /\ \A d \in Caller \ {c} : call'[d] = call[d]
      /\ call'[c] = [op |-> call[c].op, id |-> call[c].id, read |-> Nothing, answer |-> a]
  BY <1>1, Answers
<1>3. Goes(c, "done")
  BY DEF OpenFails, Rename, RenameFails
<1>4. /\ step' \in [Caller -> Steps] /\ step'[c].at = "done"
      /\ \A d \in Caller \ {c} : step'[d] = step[d]
  BY <1>3, Moves, PlaceNames
<1>5. /\ call[c].op = "save" /\ step[c].at # "idle" /\ UNCHANGED session
      /\ call[c].id \in Id
      /\ \/ mutex' = mutex /\ tmp' = tmp
         \/ mutex = c /\ mutex' = NoCaller
      /\ mutex' # c /\ mutex' \in Caller \cup {NoCaller}
      /\ tmp' = tmp \/ tmp' = [tmp EXCEPT ![call[c].id] = Nothing]
      /\ \/ file' = file
         \/ step[c].at = "rename" /\ file' = [file EXCEPT ![call[c].id] = tmp[call[c].id]]
  BY FilesAssumption
     DEF OpenFails, Rename, RenameFails, At, MutexFree, Course, Writing, TypeOK, Calls
<1>6. TypeOK'
  BY <1>2, <1>4, <1>5 DEF TypeOK
<1>7. Course(c)'
  BY <1>2, <1>4, <1>5, Done
<1>8. ASSUME NEW d \in Caller, d # c PROVE Course(d)'
  BY <1>2, <1>4, <1>5, <1>8, Others
<1>9. "write" \notin Faults => WholeFiles'
  <2>1. CASE file' = file
    BY <2>1 DEF WholeFiles
  <2>2. CASE step[c].at = "rename" /\ file' = [file EXCEPT ![call[c].id] = tmp[call[c].id]]
    <3>1. "write" \notin Faults => tmp[call[c].id].lines = Whole
      <4>1. PICK n \in Written :
              tmp[call[c].id] = [data |-> call[c].read.data, age |-> call[c].read.age, lines |-> n]
        BY <2>2 DEF Course
      <4> QED
        BY <4>1 DEF Written
    <3> QED
      BY <1>5, <2>2, <3>1 DEF WholeFiles, TypeOK
  <2> QED
    BY <1>5, <2>1, <2>2
<1> QED
  BY <1>6, <1>7, <1>8, <1>9

\* load, delete and has find the file, and go for the mutex.
LEMMA ExistsInv == ASSUME IInv, NEW c \in Caller, Exists(c) PROVE IInv'
<1> USE DEF IInv
<1>1. /\ call[c].op \in {"load", "delete", "has"} /\ step[c].at = "called"
      /\ Goes(c, "lock") /\ UNCHANGED <<session, file, tmp, mutex, call>>
  BY DEF Exists, At
<1>2. /\ step' \in [Caller -> Steps] /\ step'[c].at = "lock"
      /\ \A d \in Caller \ {c} : step'[d] = step[d]
  BY <1>1, Moves, PlaceNames
<1>3. TypeOK'
  BY <1>1, <1>2 DEF TypeOK
<1>4. Course(c)'
  BY <1>1, <1>2 DEF Course, Writing
<1>5. ASSUME NEW d \in Caller, d # c PROVE Course(d)'
  BY <1>1, <1>2, <1>5, Others
<1> QED
  BY <1>1, <1>3, <1>4, <1>5 DEF WholeFiles

\* An answer: no file has changed unless it is gone, and the mutex is not the caller's.
LEMMA AnswerInv ==
  ASSUME IInv, NEW c \in Caller, NEW a \in {"yes", "no"}, Answer(c, a), Goes(c, "done"),
         UNCHANGED <<session, tmp>>, step[c].at # "idle",
         \/ mutex' = mutex /\ mutex # c
         \/ mutex = c /\ mutex' = NoCaller,
         file' = file \/ \E i \in Id : file' = [file EXCEPT ![i] = Nothing]
  PROVE  IInv'
<1> USE DEF IInv
<1>1. /\ call' \in [Caller -> Calls] /\ \A d \in Caller \ {c} : call'[d] = call[d]
      /\ call'[c] = [op |-> call[c].op, id |-> call[c].id, read |-> Nothing, answer |-> a]
  BY Answers
<1>2. /\ step' \in [Caller -> Steps] /\ step'[c].at = "done"
      /\ \A d \in Caller \ {c} : step'[d] = step[d]
  BY Moves, PlaceNames
<1>3. /\ mutex' # c /\ mutex' \in Caller \cup {NoCaller}
      /\ file' \in [Id -> Contents \cup {Nothing}]
      /\ \A i \in Id : file'[i] \in {file[i], Nothing}
  BY FilesAssumption DEF TypeOK
<1>4. TypeOK'
  BY <1>1, <1>2, <1>3 DEF TypeOK
<1>5. Course(c)'
  BY <1>1, <1>2, <1>3, Done
<1>6. ASSUME NEW d \in Caller, d # c PROVE Course(d)'
  BY <1>1, <1>2, <1>6, Others
<1>7. "write" \notin Faults => WholeFiles'
  BY <1>3 DEF WholeFiles
<1> QED
  BY <1>4, <1>5, <1>6, <1>7

\* deleteSession, hasSession, the end of a cleanup, and whatever finds no file.
LEMMA AnsweredInv ==
  ASSUME IInv, NEW c \in Caller,
         Missing(c) \/ DeleteSession(c) \/ HasSession(c) \/ EndCleanup(c)
  PROVE  IInv'
<1>1. PICK a \in {"yes", "no"} : Answer(c, a)
  BY DEF Missing, DeleteSession, HasSession, EndCleanup
<1>2. Goes(c, "done") /\ UNCHANGED <<session, tmp>> /\ step[c].at # "idle"
  BY DEF Missing, DeleteSession, HasSession, EndCleanup, At
<1>3. \/ mutex' = mutex /\ mutex # c
      \/ mutex = c /\ mutex' = NoCaller
  BY FilesAssumption
     DEF Missing, DeleteSession, HasSession, EndCleanup, At, MutexFree, IInv, Course, Writing
<1>4. call[c].op \in {"load", "delete", "has"} => call[c].id \in Id
  BY DEF IInv, TypeOK, Calls, Course
<1>5. file' = file \/ \E i \in Id : file' = [file EXCEPT ![i] = Nothing]
  BY <1>4 DEF Missing, DeleteSession, HasSession, EndCleanup, At
<1> QED
  BY <1>1, <1>2, <1>3, <1>5, AnswerInv

\* loadSession answers with what it has read.
LEMMA LoadInv == ASSUME IInv, NEW c \in Caller, LoadSession(c) PROVE IInv'
<1> USE DEF IInv
<1>1. PICK s \in ReadSession(File(c)), a \in {"yes", "no"} :
        /\ call[c].op = "load" /\ step[c].at = "lock" /\ mutex = NoCaller
        /\ call' = [call EXCEPT ![c].read = s, ![c].answer = a]
        /\ Goes(c, "done") /\ UNCHANGED <<session, file, tmp, mutex>>
  BY DEF LoadSession, At, MutexFree
<1>2. s \in Entries \cup {Nothing}
  <2>1. File(c) \in Contents \cup {Nothing}
    BY <1>1 DEF File, TypeOK, Calls, Course
  <2> QED
    BY <1>1, <2>1, ReadEntry
<1> DEFINE k1 == [call[c] EXCEPT !.read = s]
           k == [k1 EXCEPT !.answer = a]
<1>3. call[c] \in Calls /\ call' = [call EXCEPT ![c] = k]
  BY <1>1 DEF TypeOK
<1>4. k1 \in Calls /\ k1.op = call[c].op /\ k1.id = call[c].id
  BY <1>2, <1>3 DEF Calls
<1> HIDE DEF k1
<1>5. k \in Calls /\ k.op = call[c].op /\ k.id = call[c].id /\ k.answer = a
  BY <1>4 DEF Calls
<1> HIDE DEF k
<1>6. /\ call' \in [Caller -> Calls] /\ call'[c] = k
      /\ \A d \in Caller \ {c} : call'[d] = call[d]
  BY <1>3, <1>5, NewCall
<1>7. /\ step' \in [Caller -> Steps] /\ step'[c].at = "done"
      /\ \A d \in Caller \ {c} : step'[d] = step[d]
  BY <1>1, Moves, PlaceNames
<1>8. TypeOK'
  BY <1>1, <1>6, <1>7 DEF TypeOK
<1>9. Course(c)'
  BY <1>1, <1>5, <1>6, <1>7, Done, FilesAssumption
<1>10. ASSUME NEW d \in Caller, d # c PROVE Course(d)'
  BY <1>1, <1>6, <1>7, <1>10, Others
<1> QED
  BY <1>1, <1>8, <1>9, <1>10 DEF WholeFiles

\* cleanupExpiredSessions takes the mutex, and takes one file after the other.
LEMMA CleanInv == ASSUME IInv, NEW c \in Caller, BeginCleanup(c) \/ CleanOne(c) PROVE IInv'
<1> USE DEF IInv
<1>1. PICK t \in SUBSET Id : step' = [step EXCEPT ![c] = [at |-> "clean", todo |-> t]]
  <2>1. CASE BeginCleanup(c)
    <3>1. {i \in Id : file[i] # Nothing} \in SUBSET Id
      OBVIOUS
    <3> QED
      BY <2>1, <3>1 DEF BeginCleanup
  <2>2. CASE CleanOne(c)
    <3>1. PICK i \in step[c].todo : step' = [step EXCEPT ![c].todo = @ \ {i}]
      BY <2>2 DEF CleanOne
    <3>2. step[c] \in Steps /\ step[c].at = "clean"
      BY <2>2 DEF CleanOne, At, TypeOK
    <3>3. [step[c] EXCEPT !.todo = @ \ {i}] = [at |-> "clean", todo |-> step[c].todo \ {i}]
      BY <3>2 DEF Steps
    <3>4. step[c].todo \ {i} \in SUBSET Id
      BY <3>2 DEF Steps
    <3> QED
      BY <3>1, <3>3, <3>4
  <2> QED
    BY <2>1, <2>2
<1>2. /\ step' \in [Caller -> Steps] /\ step'[c].at = "clean"
      /\ \A d \in Caller \ {c} : step'[d] = step[d]
  <2>1. [at |-> "clean", todo |-> t] \in Steps
    BY PlaceNames DEF Steps
  <2> QED
    BY <1>1, <2>1 DEF TypeOK
<1>3. /\ call[c].op = "cleanup" /\ step[c].at \in {"called", "clean"}
      /\ mutex' = c /\ mutex \in {c, NoCaller} /\ UNCHANGED <<session, tmp, call>>
  BY DEF BeginCleanup, CleanOne, At, MutexFree, Course
<1>4. file' = file \/ \E i \in Id : file' = [file EXCEPT ![i] = Nothing]
  BY DEF BeginCleanup, CleanOne, TypeOK, Steps
<1>5. /\ file' \in [Id -> Contents \cup {Nothing}]
      /\ \A i \in Id : file'[i] \in {file[i], Nothing}
  BY <1>4 DEF TypeOK
<1>6. TypeOK'
  BY <1>2, <1>3, <1>5 DEF TypeOK
<1>7. Course(c)'
  BY <1>2, <1>3 DEF Course, Writing
<1>8. ASSUME NEW d \in Caller, d # c PROVE Course(d)'
  BY <1>2, <1>3, <1>8, Others
<1>9. "write" \notin Faults => WholeFiles'
  BY <1>5 DEF WholeFiles
<1> QED
  BY <1>6, <1>7, <1>8, <1>9

-----------------------------------------------------------------------------
(* What happens around the calls. *)

\* The program changes a session, which makes it no older.
LEMMA ChangeInv == ASSUME IInv, NEW i \in Id, Change(i) PROVE IInv'
<1> USE DEF IInv
<1>1. PICK e \in Entries : /\ e.age = 0 /\ session' = [session EXCEPT ![i] = e]
                           /\ UNCHANGED <<file, tmp, mutex, call, step>>
  <2>1. \A d \in Data \cup {NoData} : [data |-> d, age |-> 0] \in Entries
    BY FilesAssumption DEF Entries, Ages, AllData
  <2> QED
    BY <2>1 DEF Change
<1>2. e # Nothing
  BY FilesAssumption
<1>3. TypeOK'
  BY <1>1 DEF TypeOK
<1>4. ASSUME NEW c \in Caller PROVE Course(c)'
  <2>1. CASE call[c].op = "save" /\ call[c].id = i
    <3>1. session'[i] = e
      BY <1>1 DEF TypeOK
    <3>2. step[c].at = "data" => call[c].read.age >= 0
      BY FilesAssumption DEF Course, TypeOK, Calls, Entries, Ages
    <3> QED
      BY <1>1, <1>2, <2>1, <3>1, <3>2 DEF Course, Writing, Written
  <2>2. CASE ~(call[c].op = "save" /\ call[c].id = i)
    <3>1. call[c].op = "save" => session'[call[c].id] = session[call[c].id]
      BY <1>1, <2>2 DEF Course, TypeOK, Calls
    <3>2. step[c].at = "data" => call[c].op = "save"
      BY DEF Course, Writing
    <3> QED
      BY <1>1, <3>1, <3>2 DEF Course, Writing, Written
  <2> QED
    BY <2>1, <2>2
<1> QED
  BY <1>1, <1>3, <1>4 DEF WholeFiles

\* A crash ends all calls and leaves the files.
LEMMA CrashInv == ASSUME IInv, Crash PROVE IInv'
<1> USE DEF IInv
<1>1. TypeOK'
  BY DEF Crash, TypeOK, NoCall, NoStep, Calls, Steps, Places
<1>2. ASSUME NEW c \in Caller PROVE Course(c)'
  <2>1. call'[c] = NoCall /\ step'[c] = NoStep /\ mutex' # c
    BY FilesAssumption DEF Crash
  <2> QED
    BY <2>1 DEF Course, NoCall, NoStep, Writing
<1> QED
  BY <1>1, <1>2 DEF Crash, WholeFiles

\* A second makes everything older alike.
LEMMA TickInv == ASSUME IInv, Tick PROVE IInv'
<1> USE DEF IInv
<1>1. /\ \A i \in Id : session'[i] = Older(session[i]) /\ file'[i] = Older(file[i])
                        /\ tmp'[i] = Older(tmp[i])
      /\ session' \in [Id -> Entries \cup {Nothing}]
      /\ file' \in [Id -> Contents \cup {Nothing}] /\ tmp' \in [Id -> Contents \cup {Nothing}]
      /\ UNCHANGED <<mutex, step>>
  BY OlderEntry, OlderContents DEF Tick, TypeOK
<1>2. ASSUME NEW c \in Caller
      PROVE  /\ call'[c] \in Calls /\ call'[c].read = Older(call[c].read)
             /\ call'[c].op = call[c].op /\ call'[c].id = call[c].id
             /\ call'[c].answer = call[c].answer
  <2>1. call[c] \in Calls /\ call'[c] = [call[c] EXCEPT !.read = Older(@)]
    BY DEF Tick, TypeOK
  <2>2. Older(call[c].read) \in Entries \cup {Nothing}
    BY <2>1, OlderEntry DEF Calls
  <2> QED
    BY <2>1, <2>2 DEF Calls
<1>3. TypeOK'
  <2>1. call' \in [Caller -> Calls]
    BY <1>2 DEF Tick
  <2> QED
    BY <1>1, <2>1 DEF TypeOK
<1>4. ASSUME NEW c \in Caller PROVE Course(c)'
  <2> DEFINE i == call[c].id
             r == call[c].read
  <2>1. /\ r \in Entries \cup {Nothing} /\ (call[c].op = "save" => i \in Id)
        /\ \A j \in Id : session[j] \in Entries \cup {Nothing} /\ tmp[j] \in Contents \cup {Nothing}
    BY DEF TypeOK, Calls, Course
  <2>2. call[c].op = "save" => session'[i] # Nothing
    BY <1>1, <2>1, OlderEntry DEF Course
  <2>3. step[c].at \in {"data", "close", "rename"} => Older(r) # Nothing
    BY <2>1, OlderEntry DEF Course
  <2>4. step[c].at = "data" => Older(r).age >= session'[i].age
    <3> SUFFICES ASSUME step[c].at = "data" PROVE Older(r).age >= session'[i].age
      OBVIOUS
    <3>1. /\ r \in Entries /\ session[i] \in Entries /\ r.age >= session[i].age
          /\ session'[i] = Older(session[i]) /\ r # Nothing /\ session[i] # Nothing
      BY <1>1, <2>1 DEF Course, Writing
    <3>2. /\ Older(r).age = IF r.age = Expiration THEN r.age ELSE r.age + 1
          /\ session'[i].age
               = IF session[i].age = Expiration THEN session[i].age ELSE session[i].age + 1
      BY <3>1, OlderEntry
    <3>3. r.age \in 0..Expiration /\ session[i].age \in 0..Expiration
      BY <3>1 DEF Entries, Ages
    <3> QED
      BY <3>1, <3>2, <3>3, FilesAssumption
  <2>5. step[c].at = "rename" =>
          \E n \in Written : tmp'[i] = [data |-> Older(r).data, age |-> Older(r).age, lines |-> n]
    <3> SUFFICES ASSUME step[c].at = "rename"
                 PROVE  \E n \in Written :
                          tmp'[i] = [data |-> Older(r).data, age |-> Older(r).age, lines |-> n]
      OBVIOUS
    <3>1. PICK n \in Written : tmp[i] = [data |-> r.data, age |-> r.age, lines |-> n]
      BY DEF Course
    <3>2. /\ r # Nothing /\ r \in Entries /\ i \in Id /\ n \in 0..Whole
      BY <2>1, <3>1 DEF Course, Writing, Written, Whole
    <3>3. tmp[i] \in Contents /\ tmp[i] # Nothing
      BY <3>1, <3>2, FilesAssumption DEF Entries, Contents
    <3>4. /\ tmp'[i] \in Contents /\ tmp'[i].data = r.data /\ tmp'[i].lines = n
          /\ tmp'[i].age = IF r.age = Expiration THEN r.age ELSE r.age + 1
      BY <1>1, <3>1, <3>2, <3>3, OlderContents
    <3>5. /\ Older(r).data = r.data
          /\ Older(r).age = IF r.age = Expiration THEN r.age ELSE r.age + 1
      BY <3>2, OlderEntry
    <3> QED
      BY <3>4, <3>5 DEF Contents
  <2>6. step[c].at = "idle" => call'[c] = NoCall
    <3>1. call'[c] = [call[c] EXCEPT !.read = Older(@)]
      BY DEF Tick
    <3>2. step[c].at = "idle" => Older(call[c].read) = Nothing /\ call[c] = NoCall
      BY DEF Course, NoCall, Older
    <3> QED
      BY <3>1, <3>2 DEF NoCall
  <2> QED
    BY <1>1, <1>2, <2>2, <2>3, <2>4, <2>5, <2>6 DEF Course, Writing, Written
<1>5. "write" \notin Faults => WholeFiles'
  BY <1>1, OlderContents DEF WholeFiles, TypeOK
<1> QED
  BY <1>3, <1>4, <1>5

-----------------------------------------------------------------------------
\* The invariant is inductive.
LEMMA NextInv == ASSUME IInv, [Next]_vars PROVE IInv'
<1>1. ASSUME NEW c \in Caller, Begin(c) \/ SaveStep(c) PROVE IInv'
  BY <1>1, BeginInv, OpenTmpInv, ReadStampInv, ReadDataInv, CloseTmpInv, SavedInv DEF SaveStep
<1>2. ASSUME NEW c \in Caller, ReadStep(c) \/ CleanupStep(c) \/ Return(c) PROVE IInv'
  BY <1>2, ExistsInv, AnsweredInv, LoadInv, CleanInv, ReturnInv DEF ReadStep, CleanupStep
<1>3. CASE \E i \in Id : Change(i)
  BY <1>3, ChangeInv
<1>4. CASE Crash \/ Tick
  BY <1>4, CrashInv, TickInv
<1>5. CASE UNCHANGED vars
  BY <1>5 DEF vars, IInv, TypeOK, WholeFiles, Course, Written
<1> QED
  BY <1>1, <1>2, <1>3, <1>4, <1>5 DEF Next

\* How far every call has come, what it knows, and who holds storageMutex_.
THEOREM Invariance == Spec => []IInv
<1>1. Init => IInv
  BY InitInv
<1>2. IInv /\ [Next]_vars => IInv'
  BY NextInv
<1> QED
  BY <1>1, <1>2, PTL DEF Spec

\* Every variable of the storage stays in its range.
THEOREM TypeCorrect == Spec => []TypeOK
<1>1. IInv => TypeOK
  BY DEF IInv
<1> QED
  BY <1>1, Invariance, PTL

\* The atomic write of SessionStorage.cpp:191: as long as the disk takes what is written,
\* every session file is whole, however many saves of a session run at once, wherever the
\* process crashes, and whether or not opening, renaming and reading files succeed.
THEOREM FilesAreWhole == "write" \notin Faults => (Spec => []WholeFiles)
<1> SUFFICES ASSUME "write" \notin Faults PROVE Spec => []WholeFiles
  OBVIOUS
<1>1. IInv => WholeFiles
  BY DEF IInv
<1> QED
  BY <1>1, Invariance, PTL

-----------------------------------------------------------------------------
(* The files implement SessionArchive, if what is written reaches the disk and what is  *)
(* there can be read; opening and renaming may fail.                                    *)

Reliable == "write" \notin Faults /\ "read" \notin Faults

\* The stored session that a whole file is.
Image(f) == IF f = Nothing THEN Nothing ELSE [data |-> f.data, age |-> f.age]

LEMMA StoredImage ==
  ASSUME WholeFiles
  PROVE  Stored = [i \in Id |-> Image(file[i])]
BY DEF Stored, WholeFiles, Image

LEMMA ImageEntry ==
  ASSUME NEW f \in Contents \cup {Nothing}
  PROVE  /\ Image(f) \in Entries \cup {Nothing}
         /\ Image(f) = Nothing <=> f = Nothing
         /\ f # Nothing => Image(f).data = f.data /\ Image(f).age = f.age
         /\ Image(Older(f)) = Older(Image(f))
<1>1. /\ Image(f) \in Entries \cup {Nothing}
      /\ Image(f) = Nothing <=> f = Nothing
      /\ f # Nothing => Image(f).data = f.data /\ Image(f).age = f.age
  BY FilesAssumption DEF Image, Entries, Contents
<1>2. Image(Older(f)) = Older(Image(f))
  <2>1. CASE f = Nothing
    BY <2>1 DEF Image, Older
  <2>2. CASE f # Nothing
    <3>1. /\ Older(f) # Nothing /\ Older(f).data = f.data
          /\ Older(f).age = IF f.age = Expiration THEN f.age ELSE f.age + 1
      BY <2>2, OlderContents
    <3>2. /\ Older(Image(f)) \in Entries /\ Older(Image(f)).data = f.data
          /\ Older(Image(f)).age = IF f.age = Expiration THEN f.age ELSE f.age + 1
      BY <1>1, <2>2, OlderEntry
    <3>3. Image(Older(f)) = [data |-> Older(f).data, age |-> Older(f).age]
      BY <3>1 DEF Image
    <3> QED
      BY <3>1, <3>2, <3>3 DEF Entries
  <2> QED
    BY <2>1, <2>2
<1> QED
  BY <1>1, <1>2

\* One file changes, or none.
LEMMA OneFile ==
  ASSUME TypeOK, WholeFiles, WholeFiles', NEW i \in Id, NEW f,
         file' = [file EXCEPT ![i] = f]
  PROVE  Stored' = [Stored EXCEPT ![i] = Image(f)]
<1>1. Stored = [j \in Id |-> Image(file[j])]
  BY StoredImage
<1>2. Stored' = [j \in Id |-> Image(file'[j])]
  BY DEF Stored, WholeFiles, Image
<1>3. \A j \in Id : file'[j] = IF j = i THEN f ELSE file[j]
  BY DEF TypeOK
<1>4. Stored' = [j \in Id |-> IF j = i THEN Image(f) ELSE Image(file[j])]
  BY <1>2, <1>3
<1> QED
  BY <1>1, <1>4

LEMMA NoFile == ASSUME UNCHANGED file PROVE UNCHANGED Stored
BY DEF Stored

\* A whole file that can be read is a session: with what can be read where its data was
\* written, which makes it young, or without any, of the age it had.
LEMMA ReadWhole ==
  ASSUME Reliable, NEW f \in Contents \cup {Nothing}, f # Nothing => f.lines = Whole,
         NEW s \in ReadSession(f)
  PROVE  /\ s = Nothing <=> f = Nothing
         /\ f # Nothing => /\ s = [data |-> s.data, age |-> s.age]
                           /\ s.data \in Returned[Image(f).data]
                           /\ s.age \in {0, f.age} /\ s.age \in 0..f.age
<1>1. CASE f = Nothing
  BY <1>1 DEF ReadSession, Reliable
<1>2. CASE f # Nothing
  <2>1. f.data \in AllData /\ f.age \in 0..Expiration /\ f.lines = 4
    BY <1>2 DEF Contents, Ages, Whole
  <2>2. PICK d \in Readings(f.data) : s = [data |-> d, age |-> IF d = NoData THEN f.age ELSE 0]
    BY <1>2, <2>1 DEF ReadSession, Parsed, Reliable, Whole
  <2>3. d \in Returned[f.data] /\ s.data = d /\ s.age \in {0, f.age}
    BY <2>1, <2>2, ReturnedReadings
  <2>4. s # Nothing
    <3>1. d \in AllData
      BY <2>1, AllDataClosed
    <3>2. s \in Entries
      BY <2>1, <2>2, <3>1, FilesAssumption DEF Entries, Ages
    <3> QED
      BY <3>2, FilesAssumption
  <2>5. Image(f) = [data |-> f.data, age |-> f.age]
    BY <1>2 DEF Image
  <2>6. s.age \in 0..f.age
    BY <2>1, <2>3, FilesAssumption
  <2> QED
    BY <1>2, <2>2, <2>3, <2>4, <2>5, <2>6
<1> QED
  BY <1>1, <1>2

\* Initially nothing is stored.
LEMMA InitRefines == Init => Archive!ArchiveInit
BY DEF Init, Archive!ArchiveInit, Stored, NoCall, Archive!NoCall

\* What a call has in hand when it takes effect.
LEMMA InHand ==
  ASSUME IInv, Reliable, NEW c \in Caller, call[c].op \notin {"none", "cleanup"}
  PROVE  /\ WholeFiles /\ call[c].id \in Id /\ File(c) = file[call[c].id]
         /\ File(c) \in Contents \cup {Nothing}
         /\ File(c) # Nothing => File(c).lines = Whole
         /\ Stored[call[c].id] = Image(File(c))
         /\ step[c].at \notin {"idle", "done"} => call[c].answer = "open"
BY StoredImage DEF IInv, Course, TypeOK, Calls, Reliable, WholeFiles, File

\* A save: reading the session captures it, twice; the renaming commits it; the failures
\* refuse it; what happens to the temporary file does not show.
LEMMA SaveRefines ==
  ASSUME IInv, IInv', Reliable, NEW c \in Caller, SaveStep(c)
  PROVE  \/ Archive!Capture(c) \/ Archive!Commit(c) \/ Archive!Refuse(c)
         \/ UNCHANGED Archive!archiveVars
<1> DEFINE i == call[c].id
<1>0. call[c].op = "save" /\ step[c].at \notin {"idle", "done"}
  BY DEF SaveStep, OpenTmp, OpenFails, ReadStamp, ReadData, CloseTmp, Rename, RenameFails, At
<1>1. /\ i \in Id /\ Archive!Asks(c, "save") /\ WholeFiles /\ WholeFiles' /\ TypeOK
      /\ session[i] # Nothing /\ session[i] \in Entries
  BY <1>0, InHand DEF Archive!Asks, IInv, Course, TypeOK, Reliable
<1>2. CASE OpenTmp(c) \/ CloseTmp(c)
  BY <1>2, NoFile DEF OpenTmp, CloseTmp, Archive!archiveVars
<1>3. CASE OpenFails(c) \/ RenameFails(c)
  BY <1>1, <1>3, NoFile DEF OpenFails, RenameFails, Answer, Archive!Refuse, Archive!Answer
<1>4. CASE ReadStamp(c)
  <2>1. /\ session[i].age \in session[i].age..Expiration
        /\ [session[i] EXCEPT !.age = session[i].age] = session[i]
    BY <1>1, FilesAssumption DEF Entries, Ages
  <2>2. /\ call' = [call EXCEPT ![c].read = [session[i] EXCEPT !.age = session[i].age]]
        /\ UNCHANGED <<session, Stored>>
    BY <1>4, <2>1, NoFile DEF ReadStamp
  <2> QED
    BY <1>1, <2>1, <2>2 DEF Archive!Capture
<1>5. CASE ReadData(c)
  <2> DEFINE r == call[c].read
  <2>1. r \in Entries /\ r # Nothing /\ r.age >= session[i].age
    BY <1>5 DEF ReadData, At, IInv, Course, TypeOK, Calls
  <2>2. r.age \in session[i].age..Expiration
    BY <1>1, <2>1, FilesAssumption DEF Entries, Ages
  <2>3. [r EXCEPT !.data = session[i].data] = [session[i] EXCEPT !.age = r.age]
    BY <1>1, <2>1 DEF Entries
  <2>4. call' = [call EXCEPT ![c].read = [r EXCEPT !.data = session[i].data]]
    BY <1>5 DEF ReadData, IInv, TypeOK
  <2>5. /\ call' = [call EXCEPT ![c].read = [session[i] EXCEPT !.age = r.age]]
        /\ UNCHANGED <<session, Stored>>
    BY <1>5, <2>3, <2>4, NoFile DEF ReadData
  <2> QED
    BY <1>1, <2>2, <2>5 DEF Archive!Capture
<1>6. CASE Rename(c)
  <2>1. /\ call[c].read # Nothing /\ call[c].read \in Entries
        /\ tmp[i] = [data |-> call[c].read.data, age |-> call[c].read.age, lines |-> Whole]
    BY <1>6 DEF Rename, At, IInv, Course, TypeOK, Calls, Written, Reliable
  <2>2. tmp[i] # Nothing
    BY <2>1, FilesAssumption DEF Entries, Contents, Whole
  <2>3. Image(tmp[i]) = call[c].read
    BY <2>1, <2>2 DEF Image, Entries
  <2>4. Stored' = [Stored EXCEPT ![i] = call[c].read]
    BY <1>1, <1>6, <2>3, OneFile DEF Rename
  <2> QED
    BY <1>1, <1>6, <2>1, <2>4 DEF Rename, Answer, Archive!Commit, Archive!Answer
<1> QED
  BY <1>2, <1>3, <1>4, <1>5, <1>6 DEF SaveStep

\* It makes no difference in which order two fields of a call are set.
LEMMA AnyOrder ==
  ASSUME NEW k \in Calls
  PROVE  [[k EXCEPT !.read = Nothing] EXCEPT !.answer = "no"]
           = [[k EXCEPT !.answer = "no"] EXCEPT !.read = Nothing]
<1> DEFINE k1 == [k EXCEPT !.read = Nothing]
           k2 == [k EXCEPT !.answer = "no"]
<1>1. /\ k1 \in Calls /\ k1.op = k.op /\ k1.id = k.id /\ k1.read = Nothing
      /\ k2 \in Calls /\ k2.op = k.op /\ k2.id = k.id /\ k2.answer = "no"
  BY DEF Calls
<1> HIDE DEF k1, k2
<1>2. [k1 EXCEPT !.answer = "no"] = [op |-> k.op, id |-> k.id, read |-> Nothing, answer |-> "no"]
  BY <1>1 DEF Calls
<1>3. [k2 EXCEPT !.read = Nothing] = [op |-> k.op, id |-> k.id, read |-> Nothing, answer |-> "no"]
  BY <1>1 DEF Calls
<1> QED
  BY <1>2, <1>3 DEF k1, k2

\* load, delete and has take effect when they find no file, or under the mutex.
LEMMA ReadRefines ==
  ASSUME IInv, IInv', Reliable, NEW c \in Caller, ReadStep(c)
  PROVE  \/ Archive!Load(c) \/ Archive!Delete(c) \/ Archive!Has(c)
         \/ UNCHANGED Archive!archiveVars
<1> DEFINE i == call[c].id
           f == File(c)
<1>0. call[c].op \in {"load", "delete", "has"} /\ step[c].at \notin {"idle", "done"}
  BY DEF ReadStep, Exists, Missing, LoadSession, DeleteSession, HasSession, At
<1>1. /\ i \in Id /\ Archive!Asks(c, call[c].op) /\ WholeFiles /\ WholeFiles' /\ TypeOK
      /\ f = file[i] /\ f \in Contents \cup {Nothing} /\ (f # Nothing => f.lines = Whole)
      /\ Stored[i] = Image(f) /\ (Image(f) = Nothing <=> f = Nothing)
      /\ f # Nothing => Image(f).age = f.age
  BY <1>0, InHand, ImageEntry DEF Archive!Asks, IInv, Reliable
<1>2. CASE Exists(c)
  BY <1>2, NoFile DEF Exists, Archive!archiveVars
<1>3. CASE Missing(c)
  <2>1. Stored[i] = Nothing /\ Stored' = Stored /\ Stored' = [Stored EXCEPT ![i] = Nothing]
    BY <1>1, <1>3, NoFile DEF Missing, Stored
  <2>2. Archive!Answer(c, "no") /\ UNCHANGED session
    BY <1>3 DEF Missing, Answer, Archive!Answer
  <2> QED
    BY <1>0, <1>1, <2>1, <2>2 DEF Archive!Load, Archive!Delete, Archive!Has
<1>4. CASE LoadSession(c)
  <2>1. PICK s \in ReadSession(f) :
          /\ call' = [call EXCEPT ![c].read = s,
                                  ![c].answer = IF s = Nothing THEN "no" ELSE "yes"]
          /\ call[c].op = "load" /\ UNCHANGED <<session, file>>
    BY <1>4 DEF LoadSession, At
  <2>2. CASE f = Nothing
    <3>1. s = Nothing /\ Stored[i] = Nothing
      BY <1>1, <2>2, ReadWhole
    <3>2. call' = [call EXCEPT ![c].answer = "no", ![c].read = Nothing]
      <4>1. call \in [Caller -> Calls] /\ call[c] \in Calls
        BY <1>1 DEF TypeOK
      <4>2. call' = [call EXCEPT ![c] = [[call[c] EXCEPT !.read = Nothing] EXCEPT !.answer = "no"]]
        BY <2>1, <3>1, <4>1
      <4>3. [[call[c] EXCEPT !.read = Nothing] EXCEPT !.answer = "no"]
              = [[call[c] EXCEPT !.answer = "no"] EXCEPT !.read = Nothing]
        BY <4>1, AnyOrder
      <4> QED
        BY <4>1, <4>2, <4>3
    <3> QED
      BY <1>1, <2>1, <3>1, <3>2, NoFile DEF Archive!Load, Archive!Answer
  <2>3. CASE f # Nothing
    <3>1. /\ s # Nothing /\ Stored[i] # Nothing /\ s = [data |-> s.data, age |-> s.age]
          /\ s.data \in Returned[Stored[i].data] /\ s.age \in 0..Stored[i].age
      BY <1>1, <2>3, ReadWhole
    <3>2. call' = [call EXCEPT ![c].read = [data |-> s.data, age |-> s.age],
                               ![c].answer = "yes"]
      BY <2>1, <3>1
    <3> QED
      BY <1>1, <2>1, <3>1, <3>2, NoFile DEF Archive!Load
  <2> QED
    BY <2>2, <2>3
<1>5. CASE DeleteSession(c)
  <2>1. Stored' = [Stored EXCEPT ![i] = Nothing]
    BY <1>1, <1>5, OneFile DEF DeleteSession, Image
  <2>2. /\ call[c].op = "delete" /\ UNCHANGED session
        /\ Archive!Answer(c, IF Stored[i] = Nothing THEN "no" ELSE "yes")
    BY <1>1, <1>5 DEF DeleteSession, At, Answer, Archive!Answer
  <2> QED
    BY <1>1, <2>1, <2>2 DEF Archive!Delete
<1>6. CASE HasSession(c)
  <2>1. PICK s \in ReadSession(f) :
          /\ call[c].op = "has" /\ UNCHANGED session
          /\ file' = IF s # Nothing /\ IsExpired(s) THEN [file EXCEPT ![i] = Nothing] ELSE file
          /\ Archive!Answer(c, IF s = Nothing \/ IsExpired(s) THEN "no" ELSE "yes")
    BY <1>6 DEF HasSession, At, Answer, Archive!Answer
  <2>2. CASE s = Nothing
    BY <1>1, <2>1, <2>2, ReadWhole, NoFile DEF Archive!Has
  <2>3. CASE s # Nothing /\ ~IsExpired(s)
    BY <1>1, <2>1, <2>3, ReadWhole, NoFile DEF Archive!Has
  <2>4. CASE s # Nothing /\ IsExpired(s)
    <3>1. Archive!Expired(Stored[i])
      BY <1>1, <2>4, ReadWhole, FilesAssumption DEF Archive!Expired, IsExpired
    <3>2. Stored' = [Stored EXCEPT ![i] = Nothing]
      BY <1>1, <2>1, <2>4, OneFile DEF Image
    <3> QED
      BY <1>1, <2>1, <2>4, <3>1, <3>2 DEF Archive!Has
  <2> QED
    BY <2>2, <2>3, <2>4
<1> QED
  BY <1>2, <1>3, <1>4, <1>5, <1>6 DEF ReadStep

\* A cleanup purges what has expired, one session at a time.
LEMMA CleanupRefines ==
  ASSUME IInv, IInv', Reliable, NEW c \in Caller, CleanupStep(c)
  PROVE  \/ Archive!Cleaned(c) \/ \E i \in Id : Archive!Purge(c, i)
         \/ UNCHANGED Archive!archiveVars
<1>1. /\ Archive!Asks(c, "cleanup") /\ WholeFiles /\ WholeFiles' /\ TypeOK
  BY DEF CleanupStep, BeginCleanup, CleanOne, EndCleanup, At, Archive!Asks, IInv, Course, Reliable
<1>2. CASE BeginCleanup(c)
  BY <1>2, NoFile DEF BeginCleanup, Archive!archiveVars
<1>3. CASE EndCleanup(c)
  BY <1>1, <1>3, NoFile DEF EndCleanup, Answer, Archive!Cleaned, Archive!Answer
<1>4. CASE CleanOne(c)
  <2>0. PICK i \in Id : \E s \in ReadSession(file[i]) :
          file' = IF s = Nothing \/ IsExpired(s) THEN [file EXCEPT ![i] = Nothing] ELSE file
    BY <1>1, <1>4 DEF CleanOne, TypeOK, Steps
  <2>1. PICK s \in ReadSession(file[i]) :
          /\ file' = IF s = Nothing \/ IsExpired(s) THEN [file EXCEPT ![i] = Nothing] ELSE file
          /\ UNCHANGED <<session, call>>
    BY <1>4, <2>0 DEF CleanOne
  <2>2. /\ file[i] \in Contents \cup {Nothing} /\ (file[i] # Nothing => file[i].lines = Whole)
        /\ Stored[i] = Image(file[i]) /\ (file[i] # Nothing => Image(file[i]).age = file[i].age)
        /\ Image(file[i]) = Nothing <=> file[i] = Nothing
    BY <1>1, StoredImage, ImageEntry DEF TypeOK, WholeFiles
  <2>3. CASE file[i] = Nothing \/ ~IsExpired(s)
    <3>1. file' = file
      BY <1>1, <2>1, <2>2, <2>3, ReadWhole DEF TypeOK
    <3> QED
      BY <2>1, <3>1, NoFile DEF Archive!archiveVars
  <2>4. CASE file[i] # Nothing /\ IsExpired(s)
    <3>1. Archive!Expired(Stored[i])
      BY <2>2, <2>4, ReadWhole, FilesAssumption DEF Archive!Expired, IsExpired
    <3>2. Stored' = [Stored EXCEPT ![i] = Nothing]
      BY <1>1, <2>1, <2>4, OneFile DEF Image
    <3> QED
      BY <1>1, <2>1, <3>1, <3>2 DEF Archive!Purge
  <2> QED
    BY <2>3, <2>4
<1> QED
  BY <1>2, <1>3, <1>4 DEF CleanupStep

\* The program's own steps, a crash and the clock are the archive's.
LEMMA AroundRefines ==
  ASSUME IInv, IInv', Reliable,
         \/ \E c \in Caller : Begin(c) \/ Return(c)
         \/ \E i \in Id : Change(i)
         \/ Crash \/ Tick
  PROVE  Archive!ArchiveNext
<1>1. ASSUME NEW c \in Caller, Begin(c) PROVE Archive!Begin(c)
  BY <1>1, NoFile DEF Begin, Archive!Begin, NoCall, Archive!NoCall
<1>2. ASSUME NEW c \in Caller, Return(c) PROVE Archive!Return(c)
  BY <1>2, NoFile DEF Return, Archive!Return, NoCall, Archive!NoCall
<1>3. ASSUME NEW i \in Id, Change(i) PROVE Archive!Change(i)
  BY <1>3, NoFile DEF Change, Archive!Change
<1>4. CASE Crash
  BY <1>4, NoFile DEF Crash, Archive!Crash, Archive!ArchiveNext, NoCall, Archive!NoCall
<1>5. CASE Tick
  <2>1. Stored = [i \in Id |-> Image(file[i])]
    BY StoredImage DEF IInv, Reliable
  <2>2. Stored' = [i \in Id |-> Image(file'[i])]
    BY DEF Stored, Image, IInv, Reliable, WholeFiles
  <2>3. ASSUME NEW i \in Id PROVE Image(file'[i]) = Older(Stored[i])
    <3>1. file'[i] = Older(file[i]) /\ file[i] \in Contents \cup {Nothing}
      BY <1>5 DEF Tick, IInv, TypeOK
    <3> QED
      BY <2>1, <3>1, ImageEntry
  <2>4. Stored' = [i \in Id |-> Older(Stored[i])]
    BY <2>2, <2>3
  <2>5. \A x : Archive!Older(x) = Older(x)
    BY DEF Archive!Older, Older
  <2>6. Archive!Tick
    BY <1>5, <2>4, <2>5 DEF Tick, Archive!Tick
  <2> QED
    BY <2>6 DEF Archive!ArchiveNext
<1> QED
  BY <1>1, <1>2, <1>3, <1>4, <1>5 DEF Archive!ArchiveNext

\* Every step is a step of the archive, or none.
LEMMA StepRefines ==
  ASSUME Reliable PROVE IInv /\ IInv' /\ [Next]_vars => [Archive!ArchiveNext]_(Archive!archiveVars)
<1> SUFFICES ASSUME IInv, IInv', [Next]_vars
             PROVE  Archive!ArchiveNext \/ UNCHANGED Archive!archiveVars
  OBVIOUS
<1>1. ASSUME NEW c \in Caller, SaveStep(c)
      PROVE  Archive!ArchiveNext \/ UNCHANGED Archive!archiveVars
  BY <1>1, SaveRefines DEF Archive!ArchiveNext
<1>2. ASSUME NEW c \in Caller, ReadStep(c)
      PROVE  Archive!ArchiveNext \/ UNCHANGED Archive!archiveVars
  BY <1>2, ReadRefines DEF Archive!ArchiveNext
<1>3. ASSUME NEW c \in Caller, CleanupStep(c)
      PROVE  Archive!ArchiveNext \/ UNCHANGED Archive!archiveVars
  BY <1>3, CleanupRefines DEF Archive!ArchiveNext
<1>4. CASE UNCHANGED vars
  BY <1>4, NoFile DEF vars, Archive!archiveVars
<1> QED
  BY <1>1, <1>2, <1>3, <1>4, AroundRefines DEF Next

\* The session files are an archive with atomic operations, through crashes, and through
\* saves, loads, deletes and cleanups of the same session that overlap: if the disk takes
\* what is written and the files can be read.  (If not, a run shows what is lost.)
THEOREM Refinement == Reliable => (Spec => ImplementsArchive)
<1> SUFFICES ASSUME Reliable PROVE Spec => ImplementsArchive
  OBVIOUS
<1>1. Init => Archive!ArchiveInit
  BY InitRefines
<1>2. IInv /\ IInv' /\ [Next]_vars => [Archive!ArchiveNext]_(Archive!archiveVars)
  BY StepRefines
<1> QED
  BY <1>1, <1>2, Invariance, PTL DEF Spec, ImplementsArchive, Archive!ArchiveSpec
=============================================================================
