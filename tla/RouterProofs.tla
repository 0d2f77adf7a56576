---------------------------- MODULE RouterProofs ----------------------------
(***************************************************************************)
(* Proofs about Router, for any registrars, servers, registrations and     *)
(* requests, and about the index of RouteMatch, for any table.             *)
(***************************************************************************)
EXTENDS Router, SequenceTheorems, WellFoundedInduction, TLAPS

Route == {reg.route : reg \in {r \in Registrations : r.kind = "route"}}
Middleware == {reg.middleware : reg \in {r \in Registrations : r.kind = "middleware"}}

\* A table as mutate() leaves it: what was registered, and the index of its own routes.
Table(t) ==
  /\ {"routes", "index", "middlewares", "notFoundHandler", "errorHandler"} \subseteq DOMAIN t
  /\ t.routes \in Seq(Route)
  /\ t.middlewares \in Seq(Middleware)
  /\ t.index = RebuildIndex(t.routes)

\* A request under way holds a table that was published, and the middlewares of that table.
Fields == {"at", "method", "path", "snapshot", "matched", "ran", "outcome"}
UnderWay(r) ==
  /\ DOMAIN r = Fields
  /\ r.snapshot \in published
  /\ r.matched = FindMiddlewares(r.snapshot, r.path)
  /\ r.ran \in Seq(r.matched)
  /\ InTurn(r.ran, r.matched)
Handled(r) ==
  /\ r.at \in {"idle", "chain", "done"}
  /\ r.at # "idle" => UnderWay(r)
  /\ r.at = "done" => SeesOne(r.snapshot, r)

IInv ==
  /\ table \in published
  /\ \A t \in published : Table(t)
  /\ DOMAIN copy = Registrar
  /\ \A u \in Registrar : copy[u] # NoTable => Table(copy[u].table)
  /\ DOMAIN request = Server
  /\ \A s \in Server : Handled(request[s])

-----------------------------------------------------------------------------
(* The first number of a set. *)

LEMMA Least ==
  ASSUME NEW T, T \subseteq Nat, T # {}
  PROVE  \E x \in T : \A y \in T : x <= y
<1>1. PICK x \in T : \A y \in T : ~ (<<y, x>> \in OpToRel(<, Nat))
  BY NatLessThanWellFounded, WFMin
<1>2. \A y \in T : <<y, x>> \in OpToRel(<, Nat) <=> y < x
  BY DEF OpToRel
<1>3. \A y \in T : ~ (y < x)
  BY <1>1, <1>2, Zenon
<1> QED
  BY <1>3

LEMMA MinIsLeast ==
  ASSUME NEW T, T \subseteq Nat, T # {}
  PROVE  Min(T) \in T /\ \A y \in T : Min(T) <= y
BY Least DEF Min

LEMMA LeastIsMin ==
  ASSUME NEW T, T \subseteq Nat, NEW x \in T, \A y \in T : x <= y
  PROVE  Min(T) = x
<1>1. Min(T) \in T /\ Min(T) <= x /\ x <= Min(T)
  BY MinIsLeast
<1>2. Min(T) \in Nat /\ x \in Nat
  BY <1>1
<1> QED
  BY <1>1, <1>2

\* Induction from n down to 1: what holds of i when it holds of all above, holds of all.
LEMMA Downward ==
  ASSUME NEW n \in Nat, NEW T, \A i \in 1..n : (\A j \in (i + 1)..n : j \in T) => i \in T
  PROVE  \A i \in 1..n : i \in T
<1> DEFINE Out == {n - i : i \in {j \in 1..n : j \notin T}}
<1> SUFFICES ASSUME Out # {} PROVE FALSE
  OBVIOUS
<1>1. Out \subseteq Nat
  OBVIOUS
<1> HIDE DEF Out
<1>2. PICK x \in Out : \A y \in Out : x <= y
  BY <1>1, Least
<1>3. PICK i \in 1..n : i \notin T /\ x = n - i
  BY DEF Out
<1>4. ASSUME NEW j \in (i + 1)..n, j \notin T PROVE FALSE
  <2>1. n - j \in Out
    BY <1>3, <1>4 DEF Out
  <2> QED
    BY <1>2, <1>3, <2>1
<1> QED
  BY <1>3, <1>4

\* A nonempty set of numbers up to b has a greatest one.
LEMMA MaxIsGreatest ==
  ASSUME NEW b \in Nat, NEW T, T \subseteq 1..b, T # {}
  PROVE  Max(T) \in T
<1> DEFINE Out == {b - x : x \in T}
<1>1. Out \subseteq Nat /\ Out # {}
  <2>1. PICK x \in T : x \in 1..b
    OBVIOUS
  <2>2. b - x \in Out
    OBVIOUS
  <2>3. \A y \in Out : y \in Nat
    OBVIOUS
  <2> QED
    BY <2>2, <2>3
<1>2. PICK y \in Out : \A z \in Out : y <= z
  BY <1>1, Least
<1>3. PICK x \in T : y = b - x
  OBVIOUS
<1>4. \A z \in T : x >= z
  BY <1>2, <1>3
<1> QED
  BY <1>3, <1>4 DEF Max

-----------------------------------------------------------------------------
(* The recursive functions of RouteMatch and their equations. *)

\* One step of RegexMatch, given what the rest of the pattern matches from each place.
Step(pattern, path, i, from, rest) ==
  IF i > Len(pattern)
  THEN [ok |-> from > Len(path), groups |-> <<>>]
  ELSE LET fits == {next \in from..(Len(path) + 1) :
                      /\ StandsFor(pattern[i], SubSeq(path, from, next - 1))
                      /\ rest[next].ok}
           next == Max(fits)
       IN  IF fits = {} THEN NoMatch
           ELSE [ok |-> TRUE,
                 groups |-> (IF Captures(pattern[i]) THEN <<SubSeq(path, from, next - 1)>> ELSE <<>>)
                            \o rest[next].groups]
IsMatch(match, pattern, path, first) ==
  match = [i \in first..(Len(pattern) + 1) |-> [from \in 1..(Len(path) + 1) |->
             Step(pattern, path, i, from, match[i + 1])]]
Match(pattern, path) == CHOOSE match : IsMatch(match, pattern, path, 1)

LEMMA RegexIs ==
  ASSUME NEW pattern, NEW path
  PROVE  RegexMatch(pattern, path) = Match(pattern, path)[1][1]
BY DEF RegexMatch, Match, IsMatch, Step

\* Each place refers to the next one only, so the recursion has a solution.
LEMMA MatchExists ==
  ASSUME NEW pattern, NEW path, Len(pattern) \in Nat
  PROVE  \E match : IsMatch(match, pattern, path, 1)
<1> DEFINE n == Len(pattern) + 1
           T == {i \in 1..n : \E match : IsMatch(match, pattern, path, i)}
           row(i, rest) == [from \in 1..(Len(path) + 1) |-> Step(pattern, path, i, from, rest)]
<1>1. n \in Nat /\ 1 \in 1..n
  OBVIOUS
<1>2. ASSUME NEW a, NEW b PROVE row(n, a) = row(n, b)
  <2>1. \A from : Step(pattern, path, n, from, a) = Step(pattern, path, n, from, b)
    BY DEF Step
  <2> QED
    BY <2>1
<1>3. ASSUME NEW i \in 1..n, \A j \in (i + 1)..n : j \in T PROVE i \in T
  <2>1. PICK f : i < n => IsMatch(f, pattern, path, i + 1)
    BY <1>3
  <2> DEFINE g == [j \in i..n |-> IF j = i THEN row(i, f[i + 1]) ELSE f[j]]
  <2>2. ASSUME NEW j \in i..n PROVE g[j] = row(j, g[j + 1])
    <3>1. CASE j = n
      <4>1. g[n] = row(n, f[n + 1])
        <5>1. CASE i = n
          BY <5>1
        <5>2. CASE i # n
          <6>1. i < n /\ n \in (i + 1)..n
            BY <5>2
          <6>2. f[n] = row(n, f[n + 1])
            BY <2>1, <6>1 DEF IsMatch
          <6> QED
            BY <6>1, <6>2
        <5> QED
          BY <5>1, <5>2
      <4> HIDE DEF g, row
      <4> QED
        BY <1>2, <3>1, <4>1
    <3>2. CASE j < n
      <4>1. i < n /\ g[j + 1] = f[j + 1]
        BY <3>2
      <4>2. CASE j = i
        BY <4>1, <4>2
      <4>3. CASE j # i
        <5>1. j \in (i + 1)..n
          BY <4>3
        <5>2. f[j] = row(j, f[j + 1])
          BY <2>1, <4>1, <5>1 DEF IsMatch
        <5> QED
          BY <4>1, <4>3, <5>2
      <4> QED
        BY <4>2, <4>3
    <3> QED
      BY <3>1, <3>2
  <2>3. g = [j \in i..n |-> g[j]]
    OBVIOUS
  <2> HIDE DEF g
  <2>4. IsMatch(g, pattern, path, i)
    BY <2>2, <2>3 DEF IsMatch
  <2> QED
    BY <2>4
<1> HIDE DEF T, n
<1>4. \A i \in 1..n : i \in T
  BY <1>1, <1>3, Downward
<1> QED
  BY <1>1, <1>4 DEF T

LEMMA MatchIs ==
  ASSUME NEW pattern, NEW path, Len(pattern) \in Nat, Len(path) \in Nat,
         NEW i \in 1..(Len(pattern) + 1), NEW from \in 1..(Len(path) + 1)
  PROVE  Match(pattern, path)[i][from] = Step(pattern, path, i, from, Match(pattern, path)[i + 1])
<1>1. IsMatch(Match(pattern, path), pattern, path, 1)
  BY MatchExists DEF Match
<1> DEFINE M == Match(pattern, path)
<1> HIDE DEF M
<1>2. M[i] = [f \in 1..(Len(path) + 1) |-> Step(pattern, path, i, f, M[i + 1])]
  <2>1. M = [j \in 1..(Len(pattern) + 1) |-> [f \in 1..(Len(path) + 1) |->
              Step(pattern, path, j, f, M[j + 1])]]
    BY <1>1 DEF IsMatch, M
  <2> QED
    BY <2>1
<1> QED
  BY <1>2 DEF M

\* splitPath from a place on.
IsSegs(segs, path, first) ==
  segs = [start \in first..(Len(path) + 1) |->
            <<SubSeq(path, start, SegEnd(path, start) - 1)>>
            \o (IF SegEnd(path, start) > Len(path) THEN <<>> ELSE segs[SegEnd(path, start) + 1])]
Segs(path) == CHOOSE segs : IsSegs(segs, path, 1)

LEMMA SplitIs ==
  ASSUME NEW path
  PROVE  SplitPath(path) = Segs(path)[1]
BY DEF SplitPath, Segs, IsSegs

\* A segment goes up to the next slash, or to the end.
LEMMA SegEndIs ==
  ASSUME NEW path, Len(path) \in Nat, NEW start \in 1..(Len(path) + 1)
  PROVE  /\ SegEnd(path, start) \in start..(Len(path) + 1)
         /\ \A i \in start..(SegEnd(path, start) - 1) : path[i] # "/"
         /\ SegEnd(path, start) <= Len(path) => path[SegEnd(path, start)] = "/"
<1> DEFINE T == {i \in start..Len(path) : path[i] = "/"} \cup {Len(path) + 1}
<1>1. T \subseteq Nat /\ T # {} /\ SegEnd(path, start) = Min(T)
  BY DEF SegEnd
<1>2. /\ \A i \in T : i \in start..(Len(path) + 1) /\ (i <= Len(path) => path[i] = "/")
      /\ \A i \in start..Len(path) : path[i] = "/" => i \in T
  OBVIOUS
<1> HIDE DEF T
<1>3. PICK m \in T : m = SegEnd(path, start) /\ \A i \in T : m <= i
  BY <1>1, MinIsLeast
<1>4. m \in start..(Len(path) + 1) /\ (m <= Len(path) => path[m] = "/")
  BY <1>2, <1>3
<1>5. ASSUME NEW i \in start..(m - 1) PROVE path[i] # "/"
  <2>1. i \in start..Len(path) /\ ~(m <= i)
    BY <1>4, <1>5
  <2> QED
    BY <1>2, <1>3, <2>1
<1> QED
  BY <1>3, <1>4, <1>5

LEMMA SegsExists ==
  ASSUME NEW path, Len(path) \in Nat
  PROVE  \E segs : IsSegs(segs, path, 1)
<1> DEFINE n == Len(path) + 1
           T == {i \in 1..n : \E segs : IsSegs(segs, path, i)}
           rest(i, segs) == IF SegEnd(path, i) > Len(path) THEN <<>> ELSE segs[SegEnd(path, i) + 1]
           row(i, segs) == <<SubSeq(path, i, SegEnd(path, i) - 1)>> \o rest(i, segs)
<1>1. n \in Nat /\ 1 \in 1..n
  OBVIOUS
<1>2. ASSUME NEW i \in 1..n, \A j \in (i + 1)..n : j \in T PROVE i \in T
  <2>1. PICK f : i < n => IsSegs(f, path, i + 1)
    BY <1>2
  <2> DEFINE g == [j \in i..n |-> IF j = i THEN row(i, f) ELSE f[j]]
  <2>2. ASSUME NEW j \in i..n PROVE g[j] = row(j, g)
    <3>1. rest(j, g) = rest(j, f)
      <4>1. SegEnd(path, j) >= j
        BY <2>2, SegEndIs
      <4>2. SegEnd(path, j) \in Nat
        BY <2>2, SegEndIs
      <4>3. CASE SegEnd(path, j) > Len(path)
        BY <4>3
      <4>4. CASE ~(SegEnd(path, j) > Len(path))
        <5>1. SegEnd(path, j) + 1 \in i..n /\ SegEnd(path, j) + 1 # i
          BY <4>1, <4>2, <4>4
        <5>2. g[SegEnd(path, j) + 1] = f[SegEnd(path, j) + 1]
          BY <5>1
        <5> QED
          BY <4>4, <5>2
      <4> QED
        BY <4>3, <4>4
    <3>2. CASE j = i
      BY <3>1, <3>2
    <3>3. CASE j # i
      <4>1. j \in (i + 1)..n /\ i < n
        BY <3>3
      <4>2. f[j] = row(j, f)
        BY <2>1, <4>1 DEF IsSegs
      <4>3. g[j] = f[j]
        BY <3>3
      <4> HIDE DEF g, rest
      <4> QED
        BY <3>1, <4>2, <4>3
    <3> QED
      BY <3>2, <3>3
  <2>3. g = [j \in i..n |-> g[j]]
    OBVIOUS
  <2> HIDE DEF g
  <2>4. IsSegs(g, path, i)
    BY <2>2, <2>3 DEF IsSegs
  <2> QED
    BY <2>4
<1> HIDE DEF T, n
<1>3. \A i \in 1..n : i \in T
  BY <1>1, <1>2, Downward
<1> QED
  BY <1>1, <1>3 DEF T

LEMMA SegsIs ==
  ASSUME NEW path, Len(path) \in Nat, NEW start \in 1..(Len(path) + 1)
  PROVE  Segs(path)[start] =
           <<SubSeq(path, start, SegEnd(path, start) - 1)>>
           \o (IF SegEnd(path, start) > Len(path) THEN <<>> ELSE Segs(path)[SegEnd(path, start) + 1])
<1> DEFINE S == Segs(path)
<1>1. IsSegs(S, path, 1)
  BY SegsExists DEF Segs
<1> HIDE DEF S
<1>2. S[start] = <<SubSeq(path, start, SegEnd(path, start) - 1)>>
           \o (IF SegEnd(path, start) > Len(path) THEN <<>> ELSE S[SegEnd(path, start) + 1])
  BY <1>1 DEF IsSegs
<1> QED
  BY <1>2 DEF S

\* The values matchMethod reads, from a segment on.
IsValues(values, patternSegs, pathSegs, first) ==
  values = [i \in first..(Len(patternSegs) + 1) |->
    IF i > Len(patternSegs) THEN <<>>
    ELSE (IF IsPureParamSeg(patternSegs[i]) THEN <<pathSegs[i]>> ELSE <<>>) \o values[i + 1]]
Values(patternSegs, pathSegs) == CHOOSE values : IsValues(values, patternSegs, pathSegs, 1)
\* matchSegments: the segments one by one.
Fits(patternSeg, pathSeg) ==
  IF IsPureParamSeg(patternSeg) THEN pathSeg # <<>> ELSE patternSeg = pathSeg
AllFit(patternSegs, pathSegs) ==
  /\ Len(patternSegs) = Len(pathSegs)
  /\ \A i \in DOMAIN patternSegs : Fits(patternSegs[i], pathSegs[i])

LEMMA SegmentsIs ==
  ASSUME NEW pattern, NEW path
  PROVE  MatchSegments(pattern, path) =
           LET hit == AllFit(SplitPath(pattern), SplitPath(path))
           IN  <<hit, IF hit THEN Assigned(ParamNames(pattern),
                                           Values(SplitPath(pattern), SplitPath(path))[1])
                      ELSE <<>>>>
BY DEF MatchSegments, AllFit, Fits, Values, IsValues

LEMMA ValuesExists ==
  ASSUME NEW p, NEW q, Len(p) \in Nat
  PROVE  \E values : IsValues(values, p, q, 1)
<1> DEFINE n == Len(p) + 1
           T == {i \in 1..n : \E values : IsValues(values, p, q, i)}
           own(i) == IF IsPureParamSeg(p[i]) THEN <<q[i]>> ELSE <<>>
           row(i, values) == IF i > Len(p) THEN <<>> ELSE own(i) \o values[i + 1]
<1>1. n \in Nat /\ 1 \in 1..n
  OBVIOUS
<1>2. ASSUME NEW i \in 1..n, \A j \in (i + 1)..n : j \in T PROVE i \in T
  <2>1. PICK f : i < n => IsValues(f, p, q, i + 1)
    BY <1>2
  <2> DEFINE g == [j \in i..n |-> IF j = i THEN row(i, f) ELSE f[j]]
  <2>2. ASSUME NEW j \in i..n PROVE g[j] = row(j, g)
    <3>1. row(j, g) = row(j, f)
      <4>1. j < n => g[j + 1] = f[j + 1]
        OBVIOUS
      <4> HIDE DEF g
      <4> QED
        BY <4>1
    <3>2. CASE j = i
      BY <3>1, <3>2
    <3>3. CASE j # i
      <4>1. j \in (i + 1)..n /\ i < n
        BY <3>3
      <4>2. f[j] = row(j, f)
        BY <2>1, <4>1 DEF IsValues
      <4> QED
        BY <3>1, <3>3, <4>1, <4>2
    <3> QED
      BY <3>2, <3>3
  <2>3. g = [j \in i..n |-> g[j]]
    OBVIOUS
  <2> HIDE DEF g
  <2>4. IsValues(g, p, q, i)
    BY <2>2, <2>3 DEF IsValues
  <2> QED
    BY <2>4
<1> HIDE DEF T, n
<1>3. \A i \in 1..n : i \in T
  BY <1>1, <1>2, Downward
<1> QED
  BY <1>1, <1>3 DEF T

LEMMA ValuesIs ==
  ASSUME NEW p, NEW q, Len(p) \in Nat, NEW i \in 1..(Len(p) + 1)
  PROVE  Values(p, q)[i] =
           IF i > Len(p) THEN <<>>
           ELSE (IF IsPureParamSeg(p[i]) THEN <<q[i]>> ELSE <<>>) \o Values(p, q)[i + 1]
<1> DEFINE V == Values(p, q)
<1>1. IsValues(V, p, q, 1)
  BY ValuesExists DEF Values
<1> HIDE DEF V
<1>2. V[i] = IF i > Len(p) THEN <<>>
             ELSE (IF IsPureParamSeg(p[i]) THEN <<q[i]>> ELSE <<>>) \o V[i + 1]
  BY <1>1 DEF IsValues
<1> QED
  BY <1>2 DEF V

-----------------------------------------------------------------------------
(* Matching a pattern as a whole. *)

\* Where the next pieces may begin.
Continues(pattern, path, i, from) ==
  {next \in from..(Len(path) + 1) :
     /\ StandsFor(pattern[i], SubSeq(path, from, next - 1))
     /\ Match(pattern, path)[i + 1][next].ok}

\* An exhausted pattern matches an exhausted path only.
LEMMA EndStep ==
  ASSUME NEW S, NEW pattern \in Seq(S), NEW path \in Seq(S), NEW from \in 1..(Len(path) + 1)
  PROVE  /\ Match(pattern, path)[Len(pattern) + 1][from].ok <=> from = Len(path) + 1
         /\ Match(pattern, path)[Len(pattern) + 1][from].groups = <<>>
         /\ Match(pattern, path)[Len(pattern) + 1][from].ok \in BOOLEAN
<1>1. Len(pattern) \in Nat /\ Len(path) \in Nat /\ Len(pattern) + 1 \in 1..(Len(pattern) + 1)
  OBVIOUS
<1>2. Match(pattern, path)[Len(pattern) + 1][from]
      = Step(pattern, path, Len(pattern) + 1, from, Match(pattern, path)[Len(pattern) + 2])
  BY <1>1, MatchIs
<1>3. Match(pattern, path)[Len(pattern) + 1][from] = [ok |-> from > Len(path), groups |-> <<>>]
  BY <1>1, <1>2 DEF Step
<1> DEFINE m == Match(pattern, path)[Len(pattern) + 1][from]
<1> HIDE DEF m
<1>4. m.ok = (from > Len(path)) /\ m.groups = <<>>
  BY <1>3 DEF m
<1>5. from > Len(path) <=> from = Len(path) + 1
  BY <1>1
<1>6. (from > Len(path)) \in BOOLEAN
  OBVIOUS
<1>7. m.ok \in BOOLEAN /\ (m.ok <=> from = Len(path) + 1)
  BY <1>4, <1>5, <1>6, Zenon
<1> QED
  BY <1>4, <1>7 DEF m

\* A piece takes as much as it can of what lets the rest of the pattern match.
LEMMA PieceStep ==
  ASSUME NEW S, NEW pattern \in Seq(S), NEW path \in Seq(S), NEW i \in 1..Len(pattern),
         NEW from \in 1..(Len(path) + 1)
  PROVE  LET fits == Continues(pattern, path, i, from)
             m == Match(pattern, path)[i][from]
         IN  /\ m.ok <=> fits # {}
             /\ m.ok \in BOOLEAN
             /\ fits = {} => m.groups = <<>>
             /\ fits # {} =>
                  /\ Max(fits) \in fits
                  /\ m.groups = (IF Captures(pattern[i]) THEN <<SubSeq(path, from, Max(fits) - 1)>> ELSE <<>>)
                                \o Match(pattern, path)[i + 1][Max(fits)].groups
<1> DEFINE fits == Continues(pattern, path, i, from)
           m == Match(pattern, path)[i][from]
           groups == (IF Captures(pattern[i]) THEN <<SubSeq(path, from, Max(fits) - 1)>> ELSE <<>>)
                     \o Match(pattern, path)[i + 1][Max(fits)].groups
<1>1. Len(pattern) \in Nat /\ Len(path) \in Nat /\ i \in 1..(Len(pattern) + 1) /\ ~(i > Len(pattern))
  OBVIOUS
<1>2. m = Step(pattern, path, i, from, Match(pattern, path)[i + 1])
  BY <1>1, MatchIs
<1>3. m = IF fits = {} THEN NoMatch ELSE [ok |-> TRUE, groups |-> groups]
  BY <1>1, <1>2 DEF Step, Continues
<1>4. fits \subseteq 1..(Len(path) + 1)
  BY <1>1 DEF Continues
<1>5. fits # {} => Max(fits) \in fits
  <2>1. Len(path) + 1 \in Nat
    BY <1>1
  <2> HIDE DEF fits
  <2> QED
    BY <1>4, <2>1, MaxIsGreatest
<1> HIDE DEF fits, m, groups
<1>6. /\ m.ok <=> fits # {}
      /\ m.ok \in BOOLEAN
      /\ fits = {} => m.groups = <<>>
      /\ fits # {} => m.groups = groups
  BY <1>3 DEF NoMatch
<1> QED
  BY <1>5, <1>6 DEF fits, m, groups

LEMMA MatchShape ==
  ASSUME NEW S, NEW pattern \in Seq(S), NEW path \in Seq(S), NEW i \in 1..(Len(pattern) + 1),
         NEW from \in 1..(Len(path) + 1)
  PROVE  /\ Match(pattern, path)[i][from].ok \in BOOLEAN
         /\ Match(pattern, path)[i][from].groups \in Seq(Seq(S))
<1> DEFINE n == Len(pattern) + 1
           T == {j \in 1..n : \A f \in 1..(Len(path) + 1) :
                   /\ Match(pattern, path)[j][f].ok \in BOOLEAN
                   /\ Match(pattern, path)[j][f].groups \in Seq(Seq(S))}
<1>1. n \in Nat
  OBVIOUS
<1>2. ASSUME NEW j \in 1..n, \A k \in (j + 1)..n : k \in T PROVE j \in T
  <2> SUFFICES ASSUME NEW f \in 1..(Len(path) + 1)
               PROVE  /\ Match(pattern, path)[j][f].ok \in BOOLEAN
                      /\ Match(pattern, path)[j][f].groups \in Seq(Seq(S))
    OBVIOUS
  <2>1. CASE j = n
    BY <2>1, EndStep, EmptySeq
  <2>2. CASE j # n
    <3> DEFINE fits == Continues(pattern, path, j, f)
               own == IF Captures(pattern[j]) THEN <<SubSeq(path, f, Max(fits) - 1)>> ELSE <<>>
    <3>1. j \in 1..Len(pattern) /\ j + 1 \in (j + 1)..n
      BY <2>2
    <3>2. /\ Match(pattern, path)[j][f].ok \in BOOLEAN
          /\ fits = {} => Match(pattern, path)[j][f].groups = <<>>
          /\ fits # {} =>
               /\ Max(fits) \in fits
               /\ Match(pattern, path)[j][f].groups = own \o Match(pattern, path)[j + 1][Max(fits)].groups
      BY <3>1, PieceStep
    <3>3. CASE fits = {}
      BY <3>2, <3>3, EmptySeq
    <3>4. CASE fits # {}
      <4>1. Max(fits) \in f..(Len(path) + 1)
        BY <3>2, <3>4 DEF Continues
      <4>2. Match(pattern, path)[j + 1][Max(fits)].groups \in Seq(Seq(S))
        BY <1>2, <3>1, <4>1
      <4>3. own \in Seq(Seq(S))
        <5>1. SubSeq(path, f, Max(fits) - 1) \in Seq(S)
          BY <4>1
        <5> QED
          BY <5>1
      <4> HIDE DEF own, fits
      <4>4. own \o Match(pattern, path)[j + 1][Max(fits)].groups \in Seq(Seq(S))
        BY <4>2, <4>3, ConcatProperties
      <4> QED
        BY <3>2, <3>4, <4>4
    <3> QED
      BY <3>3, <3>4
  <2> QED
    BY <2>1, <2>2
<1> HIDE DEF T
<1>3. \A j \in 1..n : j \in T
  BY <1>1, <1>2, Downward
<1> QED
  BY <1>3 DEF T

Literal(piece) == piece \notin Placeholder \cup {Star}

\* A piece that stands for itself takes itself.
LEMMA LiteralStep ==
  ASSUME NEW S, NEW pattern \in Seq(S), NEW path \in Seq(S), NEW i \in 1..Len(pattern),
         NEW from \in 1..(Len(path) + 1), Literal(pattern[i])
  PROVE  LET m == Match(pattern, path)[i][from]
             r == Match(pattern, path)[i + 1][from + 1]
         IN  /\ m.ok <=> from <= Len(path) /\ path[from] = pattern[i] /\ r.ok
             /\ m.ok => m.groups = r.groups
<1> DEFINE fits == Continues(pattern, path, i, from)
           m == Match(pattern, path)[i][from]
           r == Match(pattern, path)[i + 1][from + 1]
<1>1. \A text : StandsFor(pattern[i], text) <=> text = <<pattern[i]>>
  BY DEF StandsFor, Literal, Star
<1>2. \A next \in from..(Len(path) + 1) :
        SubSeq(path, from, next - 1) = <<pattern[i]>>
        <=> next = from + 1 /\ path[from] = pattern[i]
  <2> SUFFICES ASSUME NEW next \in from..(Len(path) + 1)
               PROVE  SubSeq(path, from, next - 1) = <<pattern[i]>>
                      <=> next = from + 1 /\ path[from] = pattern[i]
    OBVIOUS
  <2> DEFINE text == SubSeq(path, from, next - 1)
  <2>1. /\ text \in Seq(S)
        /\ Len(text) = next - from
        /\ \A j \in 1..(next - from) : text[j] = path[from + j - 1]
    BY SubSeqProperties
  <2>2. Len(<<pattern[i]>>) = 1 /\ <<pattern[i]>>[1] = pattern[i] /\ <<pattern[i]>> \in Seq(S)
    OBVIOUS
  <2> HIDE DEF text
  <2>3. ASSUME text = <<pattern[i]>>
        PROVE  next = from + 1 /\ path[from] = pattern[i]
    <3>1. Len(text) = 1 /\ text[1] = pattern[i]
      BY <2>2, <2>3
    <3>2. next \in Int /\ from \in Int
      OBVIOUS
    <3>3. Len(text) = next - from
      BY <2>1, Zenon
    <3>4. next - from = 1
      BY <3>1, <3>3, Zenon
    <3>5. next = from + 1
      BY <3>2, <3>4
    <3> QED
      BY <2>1, <3>1, <3>5
  <2>4. ASSUME next = from + 1, path[from] = pattern[i]
        PROVE  text = <<pattern[i]>>
    <3>1. Len(text) = 1 /\ text[1] = pattern[i]
      BY <2>1, <2>4
    <3>2. \A j \in 1..1 : text[j] = <<pattern[i]>>[j]
      BY <2>2, <3>1
    <3> QED
      BY <2>1, <2>2, <3>1, <3>2, SeqEqual
  <2> QED
    BY <2>3, <2>4 DEF text
<1>3. fits = IF from <= Len(path) /\ path[from] = pattern[i] /\ r.ok THEN {from + 1} ELSE {}
  <2>1. \A next : next \in fits <=>
          /\ next \in from..(Len(path) + 1)
          /\ SubSeq(path, from, next - 1) = <<pattern[i]>>
          /\ Match(pattern, path)[i + 1][next].ok
    BY <1>1 DEF Continues
  <2> HIDE DEF fits
  <2>2. ASSUME NEW next \in fits
        PROVE  next = from + 1 /\ from <= Len(path) /\ path[from] = pattern[i] /\ r.ok
    <3>1. next \in from..(Len(path) + 1) /\ next = from + 1 /\ path[from] = pattern[i]
      BY <1>2, <2>1
    <3>2. Match(pattern, path)[i + 1][next].ok
      BY <2>1
    <3> QED
      BY <3>1, <3>2
  <2>3. ASSUME from <= Len(path), path[from] = pattern[i], r.ok PROVE from + 1 \in fits
    <3>1. from + 1 \in from..(Len(path) + 1)
      BY <2>3
    <3>2. SubSeq(path, from, (from + 1) - 1) = <<pattern[i]>>
      BY <1>2, <2>3, <3>1
    <3> QED
      BY <2>1, <2>3, <3>1, <3>2
  <2> QED
    BY <2>2, <2>3
<1>4. \A x \in Nat : Max({x}) = x
  BY DEF Max
<1>5. from <= Len(path) => r.groups \in Seq(Seq(S))
  BY MatchShape
<1>6. ~Captures(pattern[i])
  BY DEF Captures, Literal
<1>7. /\ m.ok <=> fits # {}
      /\ fits # {} => m.groups = <<>> \o Match(pattern, path)[i + 1][Max(fits)].groups
  BY <1>6, PieceStep
<1> HIDE DEF fits, m
<1>8. m.ok <=> from <= Len(path) /\ path[from] = pattern[i] /\ r.ok
  BY <1>3, <1>7
<1>9. ASSUME m.ok PROVE m.groups = r.groups
  <2>1. fits = {from + 1} /\ from <= Len(path)
    BY <1>3, <1>8, <1>9
  <2>2. m.groups = <<>> \o r.groups
    BY <1>4, <1>7, <2>1
  <2> HIDE DEF r
  <2> QED
    BY <1>5, <2>1, <2>2
<1> QED
  BY <1>8, <1>9 DEF m

\* The pieces from first to before end match if the path has the same ones, and then what
\* follows them decides.
Runs(pattern, path, first, from, end, to) ==
  LET m == Match(pattern, path)[first][from]
      last == Match(pattern, path)[end][to]
  IN  /\ m.ok <=> /\ to <= Len(path) + 1
                  /\ \A k \in first..(end - 1) : path[k + (to - end)] = pattern[k]
                  /\ last.ok
      /\ m.ok => m.groups = last.groups

\* Pieces that stand for themselves take as many pieces, the same ones.
LEMMA LiteralRun ==
  ASSUME NEW S, NEW pattern \in Seq(S), NEW path \in Seq(S), NEW end \in 1..(Len(pattern) + 1),
         NEW first \in 1..end, \A k \in first..(end - 1) : Literal(pattern[k]),
         NEW d \in Int, NEW from \in 1..(Len(path) + 1), from = first + d
  PROVE  Runs(pattern, path, first, from, end, end + d)
<1> DEFINE last == Match(pattern, path)[end][end + d]
           Good(i) ==
             LET m == Match(pattern, path)[i][i + d]
             IN  /\ m.ok <=> /\ end + d <= Len(path) + 1
                             /\ \A k \in i..(end - 1) : path[k + d] = pattern[k]
                             /\ last.ok
                 /\ m.ok => m.groups = last.groups
           T == {i \in 1..end : i >= first /\ i + d <= Len(path) + 1 => Good(i)}
<1>1. ASSUME NEW i \in 1..end, \A j \in (i + 1)..end : j \in T PROVE i \in T
  <2> SUFFICES ASSUME i >= first, i + d <= Len(path) + 1 PROVE Good(i)
    OBVIOUS
  <2>1. i + d \in 1..(Len(path) + 1)
    OBVIOUS
  <2>2. CASE i = end
    <3>1. i..(end - 1) = {}
      BY <2>2
    <3>2. Match(pattern, path)[i][i + d].ok \in BOOLEAN
      BY <2>1, MatchShape
    <3> QED
      BY <2>1, <2>2, <3>1, <3>2
  <2>3. CASE i # end
    <3> DEFINE m == Match(pattern, path)[i][i + d]
               r == Match(pattern, path)[i + 1][(i + 1) + d]
    <3>1. i \in 1..Len(pattern) /\ i + 1 \in (i + 1)..end /\ (i + d) + 1 = (i + 1) + d
      BY <2>3
    <3>2. Literal(pattern[i])
      BY <2>3
    <3>3. /\ m.ok <=> i + d <= Len(path) /\ path[i + d] = pattern[i] /\ r.ok
          /\ m.ok => m.groups = r.groups
      BY <2>1, <3>1, <3>2, LiteralStep
    <3>4. i + d <= Len(path) => Good(i + 1)
      BY <1>1, <3>1
    <3>5. end + d <= Len(path) + 1 => i + d <= Len(path)
      BY <2>3
    <3>6. (\A k \in i..(end - 1) : path[k + d] = pattern[k])
          <=> path[i + d] = pattern[i] /\ \A k \in (i + 1)..(end - 1) : path[k + d] = pattern[k]
      <4>1. i..(end - 1) = {i} \cup ((i + 1)..(end - 1))
        BY <3>1
      <4> QED
        BY <4>1
    <3> HIDE DEF m, r, last
    <3>7. i + d <= Len(path) =>
            /\ r.ok <=> /\ end + d <= Len(path) + 1
                        /\ \A k \in (i + 1)..(end - 1) : path[k + d] = pattern[k]
                        /\ last.ok
            /\ r.ok => r.groups = last.groups
      BY <3>4 DEF r
    <3>8. /\ m.ok <=> /\ end + d <= Len(path) + 1
                      /\ \A k \in i..(end - 1) : path[k + d] = pattern[k]
                      /\ last.ok
          /\ m.ok => m.groups = last.groups
      BY <3>3, <3>5, <3>6, <3>7
    <3> QED
      BY <3>8 DEF m
  <2> QED
    BY <2>2, <2>3
<1>2. end \in Nat
  OBVIOUS
<1> HIDE DEF T
<1>3. \A i \in 1..end : i \in T
  BY <1>1, <1>2, Downward
<1>4. Good(first)
  BY <1>3 DEF T
<1>5. (end + d) - end = d
  OBVIOUS
<1> QED
  BY <1>4, <1>5 DEF Runs

\* A placeholder before a slash or at the end takes the rest of the segment.
LEMMA PlaceholderStep ==
  ASSUME NEW S, NEW pattern \in Seq(S), NEW path \in Seq(S), NEW i \in 1..Len(pattern), NEW from \in 1..(Len(path) + 1),
         pattern[i] \in Placeholder, i < Len(pattern) => pattern[i + 1] = "/"
  PROVE  LET m == Match(pattern, path)[i][from]
             pos == SegEnd(path, from)
             r == Match(pattern, path)[i + 1][pos]
         IN  /\ m.ok <=> pos # from /\ r.ok
             /\ m.ok => m.groups = <<SubSeq(path, from, pos - 1)>> \o r.groups
<1> DEFINE fits == Continues(pattern, path, i, from)
           m == Match(pattern, path)[i][from]
           pos == SegEnd(path, from)
           r == Match(pattern, path)[i + 1][pos]
<1>1. Len(path) \in Nat /\ Len(pattern) \in Nat
  OBVIOUS
<1>2. /\ pos \in from..(Len(path) + 1)
      /\ \A k \in from..(pos - 1) : path[k] # "/"
      /\ pos <= Len(path) => path[pos] = "/"
  BY <1>1, SegEndIs
<1>3. ASSUME NEW next \in from..(Len(path) + 1)
      PROVE  StandsFor(pattern[i], SubSeq(path, from, next - 1))
             <=> next # from /\ \A k \in from..(next - 1) : path[k] # "/"
  <2> DEFINE text == SubSeq(path, from, next - 1)
  <2>1. /\ text \in Seq(S)
        /\ Len(text) = next - from
        /\ \A j \in 1..(next - from) : text[j] = path[from + j - 1]
    BY SubSeqProperties
  <2>2. text # <<>> <=> next # from
    BY <2>1, EmptySeq
  <2>3. DOMAIN text = 1..(next - from)
    BY <2>1
  <2> HIDE DEF text
  <2>4. (\A j \in DOMAIN text : text[j] # "/") <=> \A k \in from..(next - 1) : path[k] # "/"
    <3>1. ASSUME \A j \in DOMAIN text : text[j] # "/", NEW k \in from..(next - 1)
          PROVE  path[k] # "/"
      <4>1. k - from + 1 \in 1..(next - from) /\ from + (k - from + 1) - 1 = k
        OBVIOUS
      <4> QED
        BY <2>1, <2>3, <3>1, <4>1
    <3>2. ASSUME \A k \in from..(next - 1) : path[k] # "/", NEW j \in DOMAIN text
          PROVE  text[j] # "/"
      <4>1. from + j - 1 \in from..(next - 1) /\ j \in 1..(next - from)
        BY <2>3
      <4> QED
        BY <2>1, <3>2, <4>1
    <3> QED
      BY <3>1, <3>2
  <2>5. StandsFor(pattern[i], text) <=> text # <<>> /\ \A j \in DOMAIN text : text[j] # "/"
    BY PiecesDiffer DEF StandsFor
  <2> QED
    BY <2>2, <2>4, <2>5 DEF text
<1>4. ASSUME NEW next \in from..(Len(path) + 1), Match(pattern, path)[i + 1][next].ok
      PROVE  next = Len(path) + 1 \/ (next <= Len(path) /\ path[next] = "/")
  <2>1. CASE i = Len(pattern)
    BY <1>4, <2>1, EndStep
  <2>2. CASE i # Len(pattern)
    <3>1. i + 1 \in 1..Len(pattern) /\ next \in 1..(Len(path) + 1) /\ pattern[i + 1] = "/"
      BY <2>2
    <3>2. Literal(pattern[i + 1])
      BY <3>1, PiecesDiffer DEF Literal, Star
    <3> QED
      BY <1>4, <3>1, <3>2, LiteralStep
  <2> QED
    BY <2>1, <2>2
<1>5. \A next : next \in fits <=> next = pos /\ pos # from /\ r.ok
  <2>1. \A next : next \in fits <=>
          /\ next \in from..(Len(path) + 1)
          /\ StandsFor(pattern[i], SubSeq(path, from, next - 1))
          /\ Match(pattern, path)[i + 1][next].ok
    BY DEF Continues
  <2>2. ASSUME NEW next \in fits PROVE next = pos /\ pos # from /\ r.ok
    <3>1. /\ next \in from..(Len(path) + 1) /\ next # from
          /\ \A k \in from..(next - 1) : path[k] # "/"
          /\ next = Len(path) + 1 \/ (next <= Len(path) /\ path[next] = "/")
          /\ Match(pattern, path)[i + 1][next].ok
      BY <1>3, <1>4, <2>1, <2>2
    <3> HIDE DEF pos, fits
    <3>2. ~(pos < next)
      BY <1>2, <3>1
    <3>3. ~(next < pos)
      BY <1>2, <3>1
    <3>4. next = pos
      BY <1>2, <3>1, <3>2, <3>3
    <3> QED
      BY <3>1, <3>4
  <2>3. ASSUME pos # from, r.ok PROVE pos \in fits
    BY <1>2, <1>3, <2>1, <2>3
  <2> QED
    BY <2>2, <2>3
<1>6. \A x \in Nat : Max({x}) = x
  BY DEF Max
<1>7. Captures(pattern[i])
  BY DEF Captures
<1>8. /\ m.ok <=> fits # {}
      /\ fits # {} => m.groups = <<SubSeq(path, from, Max(fits) - 1)>>
                                 \o Match(pattern, path)[i + 1][Max(fits)].groups
  BY <1>7, PieceStep
<1>9. pos \in Nat
  BY <1>1, <1>2
<1> HIDE DEF fits, m, pos
<1>10. fits # {} => fits = {pos}
  BY <1>5
<1> QED
  BY <1>5, <1>6, <1>8, <1>9, <1>10 DEF m, pos

-----------------------------------------------------------------------------
(* Matching it by segments. *)

LEMMA ConsIs ==
  ASSUME NEW S, NEW x \in S, NEW s \in Seq(S)
  PROVE  /\ <<x>> \o s \in Seq(S) /\ Len(<<x>> \o s) = Len(s) + 1
         /\ (<<x>> \o s)[1] = x /\ \A i \in 1..Len(s) : (<<x>> \o s)[i + 1] = s[i]
<1>1. <<x>> \in Seq(S) /\ Len(<<x>>) = 1 /\ <<x>>[1] = x
  OBVIOUS
<1> DEFINE t == <<x>>
<1>2. /\ t \o s \in Seq(S)
      /\ Len(t \o s) = Len(t) + Len(s)
      /\ \A i \in 1..(Len(t) + Len(s)) : (t \o s)[i] = IF i <= Len(t) THEN t[i] ELSE s[i - Len(t)]
  BY <1>1, ConcatProperties
<1>3. t \in Seq(S) /\ Len(t) = 1 /\ t[1] = x
  BY <1>1
<1> HIDE DEF t
<1>4. Len(s) \in Nat
  OBVIOUS
<1>5. \A i \in 1..Len(s) : i + 1 \in 1..(1 + Len(s)) /\ ~(i + 1 <= 1) /\ (i + 1) - 1 = i
  BY <1>4
<1> QED
  BY <1>2, <1>3, <1>4, <1>5 DEF t

\* Comparing the first segments, then the others.
LEMMA FitCons ==
  ASSUME NEW S, NEW p \in S, NEW q \in S, NEW ps \in Seq(S), NEW qs \in Seq(S)
  PROVE  AllFit(<<p>> \o ps, <<q>> \o qs) <=> Fits(p, q) /\ AllFit(ps, qs)
<1> DEFINE P == <<p>> \o ps
           Q == <<q>> \o qs
<1>1. /\ P \in Seq(S) /\ Len(P) = Len(ps) + 1 /\ P[1] = p /\ \A i \in 1..Len(ps) : P[i + 1] = ps[i]
      /\ Q \in Seq(S) /\ Len(Q) = Len(qs) + 1 /\ Q[1] = q /\ \A i \in 1..Len(qs) : Q[i + 1] = qs[i]
  BY ConsIs
<1> HIDE DEF P, Q
<1>2. Len(ps) \in Nat /\ Len(qs) \in Nat /\ DOMAIN ps = 1..Len(ps) /\ DOMAIN P = 1..(Len(ps) + 1)
  BY <1>1
<1>3. Len(P) = Len(Q) <=> Len(ps) = Len(qs)
  BY <1>1, <1>2
<1>4. ASSUME Len(ps) = Len(qs)
      PROVE  (\A i \in DOMAIN P : Fits(P[i], Q[i]))
             <=> Fits(p, q) /\ \A i \in DOMAIN ps : Fits(ps[i], qs[i])
  <2>1. ASSUME \A i \in DOMAIN P : Fits(P[i], Q[i])
        PROVE  Fits(p, q) /\ \A i \in DOMAIN ps : Fits(ps[i], qs[i])
    <3>1. 1 \in DOMAIN P /\ \A i \in DOMAIN ps : i + 1 \in DOMAIN P
      BY <1>2
    <3> QED
      BY <1>1, <1>2, <1>4, <2>1, <3>1
  <2>2. ASSUME Fits(p, q), \A i \in DOMAIN ps : Fits(ps[i], qs[i]), NEW i \in DOMAIN P
        PROVE  Fits(P[i], Q[i])
    <3>1. CASE i = 1
      BY <1>1, <2>2, <3>1
    <3>2. CASE i # 1
      <4>1. i - 1 \in 1..Len(ps) /\ (i - 1) + 1 = i
        BY <1>2, <3>2
      <4>2. P[i] = ps[i - 1] /\ Q[i] = qs[i - 1]
        BY <1>1, <1>4, <4>1
      <4> QED
        BY <1>2, <2>2, <4>1, <4>2
    <3> QED
      BY <3>1, <3>2
  <2> QED
    BY <2>1, <2>2
<1>5. AllFit(P, Q) <=> Len(P) = Len(Q) /\ \A i \in DOMAIN P : Fits(P[i], Q[i])
  BY DEF AllFit
<1>6. AllFit(ps, qs) <=> Len(ps) = Len(qs) /\ \A i \in DOMAIN ps : Fits(ps[i], qs[i])
  BY DEF AllFit
<1> QED
  BY <1>3, <1>4, <1>5, <1>6 DEF P, Q

Own(patternSeg, pathSeg) == IF IsPureParamSeg(patternSeg) THEN <<pathSeg>> ELSE <<>>

ValuesSplit(p, q, ps, qs) ==
  Values(<<p>> \o ps, <<q>> \o qs)[1] = Own(p, q) \o Values(ps, qs)[1]

LEMMA ValuesCons ==
  ASSUME NEW S, NEW p \in S, NEW q \in S, NEW ps \in Seq(S), NEW qs \in Seq(S),
         Len(ps) = Len(qs)
  PROVE  ValuesSplit(p, q, ps, qs)
<1> DEFINE P == <<p>> \o ps
           Q == <<q>> \o qs
           V == Values(P, Q)
           W == Values(ps, qs)
           n == Len(ps) + 1
           T == {i \in 1..n : V[i + 1] = W[i]}
<1>1. /\ P \in Seq(S) /\ Len(P) = n /\ P[1] = p /\ \A i \in 1..Len(ps) : P[i + 1] = ps[i]
      /\ Q \in Seq(S) /\ Len(Q) = n /\ Q[1] = q /\ \A i \in 1..Len(ps) : Q[i + 1] = qs[i]
  BY ConsIs
<1> HIDE DEF P, Q
<1>2. Len(ps) \in Nat /\ n \in Nat
  OBVIOUS
<1>3. \A i \in 1..(n + 1) : V[i] = IF i > n THEN <<>> ELSE Own(P[i], Q[i]) \o V[i + 1]
  <2>1. Len(P) \in Nat /\ n = Len(P)
    BY <1>1, <1>2
  <2>2. \A i \in 1..(Len(P) + 1) :
          V[i] = IF i > Len(P) THEN <<>> ELSE Own(P[i], Q[i]) \o V[i + 1]
    BY <2>1, ValuesIs DEF Own
  <2> QED
    BY <2>1, <2>2
<1>4. \A i \in 1..n : W[i] = IF i > Len(ps) THEN <<>> ELSE Own(ps[i], qs[i]) \o W[i + 1]
  BY <1>2, ValuesIs DEF Own
<1> HIDE DEF V, W
<1>5. ASSUME NEW i \in 1..n, \A j \in (i + 1)..n : j \in T PROVE i \in T
  <2>1. CASE i = n
    BY <1>2, <1>3, <1>4, <2>1
  <2>2. CASE i # n
    <3>1. i \in 1..Len(ps) /\ i + 1 \in 1..(n + 1) /\ ~(i + 1 > n) /\ ~(i > Len(ps)) /\ i + 1 \in (i + 1)..n
      BY <1>2, <2>2
    <3>2. V[i + 1] = Own(P[i + 1], Q[i + 1]) \o V[(i + 1) + 1] /\ W[i] = Own(ps[i], qs[i]) \o W[i + 1]
      BY <1>3, <1>4, <3>1
    <3>3. V[(i + 1) + 1] = W[i + 1] /\ P[i + 1] = ps[i] /\ Q[i + 1] = qs[i]
      BY <1>1, <1>5, <3>1
    <3> QED
      BY <3>2, <3>3
  <2> QED
    BY <2>1, <2>2
<1> HIDE DEF T
<1>6. \A i \in 1..n : i \in T
  BY <1>2, <1>5, Downward
<1>7. V[1 + 1] = W[1]
  BY <1>2, <1>6 DEF T
<1>8. V[1] = Own(p, q) \o V[1 + 1]
  <2>1. 1 \in 1..(n + 1) /\ ~(1 > n)
    BY <1>2
  <2>2. V[1] = Own(P[1], Q[1]) \o V[1 + 1]
    BY <1>3, <2>1
  <2> QED
    BY <1>1, <2>2
<1> QED
  BY <1>7, <1>8 DEF ValuesSplit, V, W, P, Q

\* Splitting gives at least one segment, an empty one for an empty path.
LEMMA SegsShape ==
  ASSUME NEW S, NEW path \in Seq(S), NEW start \in 1..(Len(path) + 1)
  PROVE  Segs(path)[start] \in Seq(Seq(S)) /\ Len(Segs(path)[start]) > 0
<1> DEFINE n == Len(path) + 1
           T == {i \in 1..n : Segs(path)[i] \in Seq(Seq(S)) /\ Len(Segs(path)[i]) > 0}
<1>1. Len(path) \in Nat /\ n \in Nat
  OBVIOUS
<1>2. ASSUME NEW i \in 1..n, \A j \in (i + 1)..n : j \in T PROVE i \in T
  <2> DEFINE e == SegEnd(path, i)
             rest == IF e > Len(path) THEN <<>> ELSE Segs(path)[e + 1]
  <2>1. e \in i..n
    BY <1>1, SegEndIs
  <2>2. SubSeq(path, i, e - 1) \in Seq(S)
    BY <2>1
  <2>3. rest \in Seq(Seq(S))
    <3>1. CASE e > Len(path)
      BY <3>1, EmptySeq
    <3>2. CASE ~(e > Len(path))
      <4>1. e + 1 \in (i + 1)..n
        BY <2>1, <3>2
      <4> QED
        BY <1>2, <3>2, <4>1
    <3> QED
      BY <3>1, <3>2
  <2>4. Segs(path)[i] = <<SubSeq(path, i, e - 1)>> \o rest
    BY <1>1, SegsIs
  <2> HIDE DEF rest, e
  <2>5. Len(<<SubSeq(path, i, e - 1)>> \o rest) = Len(rest) + 1
        /\ <<SubSeq(path, i, e - 1)>> \o rest \in Seq(Seq(S))
    BY <2>2, <2>3, ConsIs
  <2>6. Len(rest) \in Nat
    BY <2>3, LenProperties
  <2>7. Segs(path)[i] \in Seq(Seq(S)) /\ Len(Segs(path)[i]) = Len(rest) + 1
    BY <2>4, <2>5
  <2> QED
    BY <2>6, <2>7
<1> HIDE DEF T
<1>3. \A i \in 1..n : i \in T
  BY <1>1, <1>2, Downward
<1> QED
  BY <1>3 DEF T

\* A segment the comparison can be trusted with: only a placeholder, or only literals.
Plain(seg) == ~HasRegexMeta(seg) /\ (SegmentHasColon(seg) => IsPureParamSeg(seg))

\* The rest of a segment matches if the segments fit, and then what follows them decides.
SegmentRuns(pattern, path, s, t) ==
  LET m == Match(pattern, path)[s][t]
      r == Match(pattern, path)[SegEnd(pattern, s)][SegEnd(path, t)]
      p == SubSeq(pattern, s, SegEnd(pattern, s) - 1)
      q == SubSeq(path, t, SegEnd(path, t) - 1)
  IN  /\ m.ok <=> Fits(p, q) /\ r.ok
      /\ m.ok => m.groups = Own(p, q) \o r.groups

\* Up to the end of the segment, the expression takes what the comparison of the two
\* segments lets it take.
LEMMA SegmentStep ==
  ASSUME NEW S, NEW pattern \in Seq(S), NEW path \in Seq(S),
         NEW s \in 1..(Len(pattern) + 1), NEW t \in 1..(Len(path) + 1),
         Plain(SubSeq(pattern, s, SegEnd(pattern, s) - 1))
  PROVE  SegmentRuns(pattern, path, s, t)
<1> DEFINE e == SegEnd(pattern, s)
           g == SegEnd(path, t)
           m == Match(pattern, path)[s][t]
           r == Match(pattern, path)[e][g]
           p == SubSeq(pattern, s, e - 1)
           q == SubSeq(path, t, g - 1)
<1>1. Len(pattern) \in Nat /\ Len(path) \in Nat
  OBVIOUS
<1>2. /\ e \in s..(Len(pattern) + 1) /\ \A k \in s..(e - 1) : pattern[k] # "/"
      /\ e <= Len(pattern) => pattern[e] = "/"
      /\ g \in t..(Len(path) + 1) /\ \A k \in t..(g - 1) : path[k] # "/"
      /\ g <= Len(path) => path[g] = "/"
  BY <1>1, SegEndIs
<1>3. Plain(p)
  OBVIOUS
<1> HIDE DEF e, g
<1>4. /\ p \in Seq(S) /\ Len(p) = e - s /\ \A j \in 1..(e - s) : p[j] = pattern[s + j - 1]
      /\ q \in Seq(S) /\ Len(q) = g - t /\ \A j \in 1..(g - t) : q[j] = path[t + j - 1]
  <2>1. /\ p \in Seq(S) /\ Len(p) = IF s <= e - 1 THEN (e - 1) - s + 1 ELSE 0
        /\ \A j \in 1..((e - 1) - s + 1) : p[j] = pattern[s + j - 1]
    BY <1>1, <1>2, SubSeqProperties
  <2>2. /\ q \in Seq(S) /\ Len(q) = IF t <= g - 1 THEN (g - 1) - t + 1 ELSE 0
        /\ \A j \in 1..((g - 1) - t + 1) : q[j] = path[t + j - 1]
    BY <1>1, <1>2, SubSeqProperties
  <2> HIDE DEF p, q
  <2>3. e \in Int /\ s \in Int /\ e >= s /\ g \in Int /\ t \in Int /\ g >= t
    BY <1>1, <1>2
  <2> QED
    BY <2>1, <2>2, <2>3
<1> HIDE DEF p, q
<1>5. r.groups \in Seq(Seq(S))
  BY <1>1, <1>2, MatchShape
<1>6. CASE IsPureParamSeg(p)
  <2>1. Len(p) = 1 /\ p[1] \in Placeholder
    BY <1>6 DEF IsPureParamSeg
  <2>2. e = s + 1 /\ pattern[s] \in Placeholder
    <3>1. e - s = 1
      BY <1>4, <2>1, Zenon
    <3>2. e = s + 1
      BY <1>1, <1>2, <3>1
    <3>3. 1 \in 1..(e - s) /\ s + 1 - 1 = s
      BY <1>1, <3>1
    <3>4. p[1] = pattern[s]
      BY <1>4, <3>3
    <3> QED
      BY <2>1, <3>2, <3>4
  <2>3. s \in 1..Len(pattern) /\ (s < Len(pattern) => pattern[s + 1] = "/")
    BY <1>1, <1>2, <2>2
  <2>4. /\ m.ok <=> g # t /\ r.ok
        /\ m.ok => m.groups = <<q>> \o r.groups
    BY <2>2, <2>3, PlaceholderStep DEF g, q
  <2>5. q # <<>> <=> g # t
    <3>1. q # <<>> <=> Len(q) # 0
      BY <1>4, EmptySeq
    <3>2. g - t # 0 <=> g # t
      BY <1>1, <1>2
    <3> QED
      BY <1>4, <3>1, <3>2
  <2> HIDE DEF m, r
  <2>6. (Fits(p, q) <=> q # <<>>) /\ Own(p, q) = <<q>>
    BY <1>6 DEF Fits, Own
  <2> QED
    BY <2>4, <2>5, <2>6 DEF SegmentRuns, m, r, e, g, p, q
<1>7. CASE ~IsPureParamSeg(p)
  <2>1. \A k \in s..(e - 1) : Literal(pattern[k])
    <3>1. \A j \in DOMAIN p : Literal(p[j])
      BY <1>3, <1>7 DEF Plain, HasRegexMeta, SegmentHasColon, Literal
    <3>2. ASSUME NEW k \in s..(e - 1) PROVE Literal(pattern[k])
      <4>1. k - s + 1 \in 1..(e - s) /\ s + (k - s + 1) - 1 = k
        BY <1>1, <1>2
      <4>2. DOMAIN p = 1..(e - s)
        BY <1>4, LenProperties
      <4> QED
        BY <1>4, <3>1, <4>1, <4>2
    <3> QED
      BY <3>2
  <2> DEFINE d == t - s
             last == Match(pattern, path)[e][e + d]
  <2>2. d \in Int /\ s + d = t /\ s + d \in 1..(Len(path) + 1) /\ s \in 1..e /\ e \in 1..(Len(pattern) + 1)
    BY <1>1, <1>2
  <2> HIDE DEF d
  <2>3. /\ m.ok <=> /\ e + d <= Len(path) + 1
                    /\ \A k \in s..(e - 1) : path[k + d] = pattern[k]
                    /\ last.ok
        /\ m.ok => m.groups = last.groups
    <3>1. d \in Int /\ t = s + d /\ s \in 1..e /\ e \in 1..(Len(pattern) + 1)
      BY <2>2
    <3> QED
      <4>1. Runs(pattern, path, s, t, e, e + d)
        BY <2>1, <3>1, LiteralRun
      <4>2. (e + d) - e = d
        BY <1>1, <1>2, <3>1
      <4> QED
        BY <4>1, <4>2 DEF Runs
  <2> HIDE DEF m, r, last
  <2>4. ASSUME m.ok PROVE e + d = g
    <3>1. /\ e + d \in t..(Len(path) + 1) /\ \A k \in s..(e - 1) : path[k + d] = pattern[k]
          /\ last.ok
      BY <1>1, <1>2, <2>2, <2>3, <2>4
    <3>2. ~(g < e + d)
      <4> SUFFICES ASSUME g < e + d PROVE FALSE
        OBVIOUS
      <4>1. g - d \in s..(e - 1) /\ (g - d) + d = g /\ g <= Len(path)
        BY <1>1, <1>2, <2>2, <3>1
      <4> QED
        BY <1>2, <3>1, <4>1
    <3>3. e + d = Len(path) + 1 \/ path[e + d] = "/"
      <4>1. CASE e = Len(pattern) + 1
        BY <1>1, <2>2, <3>1, <4>1, EndStep DEF last
      <4>2. CASE e # Len(pattern) + 1
        <5>1. e \in 1..Len(pattern) /\ pattern[e] = "/" /\ e + d \in 1..(Len(path) + 1)
          BY <1>1, <1>2, <2>2, <3>1, <4>2
        <5>2. Literal(pattern[e])
          BY <5>1, PiecesDiffer DEF Literal, Star
        <5> QED
          BY <3>1, <5>1, <5>2, LiteralStep DEF last
      <4> QED
        BY <4>1, <4>2
    <3>4. ~(e + d < g)
      <4> SUFFICES ASSUME e + d < g PROVE FALSE
        OBVIOUS
      <4>1. e + d \in t..(g - 1) /\ e + d # Len(path) + 1
        BY <1>1, <1>2, <3>1
      <4> QED
        BY <1>2, <3>3, <4>1
    <3> QED
      BY <1>1, <1>2, <2>2, <3>2, <3>4
  <2>5. ASSUME e + d = g
        PROVE  p = q <=> \A k \in s..(e - 1) : path[k + d] = pattern[k]
    <3>1. e - s = g - t
      BY <1>1, <1>2, <2>2, <2>5 DEF d
    <3>2. ASSUME p = q, NEW k \in s..(e - 1) PROVE path[k + d] = pattern[k]
      <4>1. /\ k - s + 1 \in 1..(e - s) /\ s + (k - s + 1) - 1 = k
            /\ t + (k - s + 1) - 1 = k + d
        BY <1>1, <1>2, <2>2 DEF d
      <4> QED
        BY <1>4, <3>1, <3>2, <4>1
    <3>3. ASSUME \A k \in s..(e - 1) : path[k + d] = pattern[k] PROVE p = q
      <4>1. ASSUME NEW j \in 1..(e - s) PROVE p[j] = q[j]
        <5>1. s + j - 1 \in s..(e - 1) /\ t + j - 1 = (s + j - 1) + d
          BY <1>1, <1>2, <2>2 DEF d
        <5> QED
          BY <1>4, <3>1, <3>3, <5>1
      <4> QED
        BY <1>4, <3>1, <4>1, SeqEqual
    <3> QED
      BY <3>2, <3>3
  <2>6. p = q => e + d = g
    <3>1. p = q => e - s = g - t
      BY <1>4, Zenon
    <3> QED
      BY <1>1, <1>2, <2>2, <3>1 DEF d
  <2>7. e + d = g => last = r /\ e + d <= Len(path) + 1
    BY <1>1, <1>2 DEF last, r
  <2>8. (Fits(p, q) <=> p = q) /\ Own(p, q) = <<>>
    BY <1>7 DEF Fits, Own
  <2>9. <<>> \o r.groups = r.groups
    BY <1>5, ConcatEmptySeq DEF r
  <2>10. /\ m.ok <=> Fits(p, q) /\ r.ok
         /\ m.ok => m.groups = Own(p, q) \o r.groups
    BY <2>3, <2>4, <2>5, <2>6, <2>7, <2>8, <2>9
  <2> QED
    BY <2>10 DEF SegmentRuns, m, r, e, g, p, q
<1> QED
  BY <1>6, <1>7

AllPlain(segs) == \A k \in DOMAIN segs : Plain(segs[k])

\* From the beginning of a segment on, the regular expression matches what the segments match.
LEMMA SegmentsMatch ==
  ASSUME NEW S, NEW pattern \in Seq(S), NEW path \in Seq(S),
         NEW s \in 1..(Len(pattern) + 1), NEW t \in 1..(Len(path) + 1), AllPlain(Segs(pattern)[s])
  PROVE  LET m == Match(pattern, path)[s][t]
         IN  /\ m.ok <=> AllFit(Segs(pattern)[s], Segs(path)[t])
             /\ m.ok => m.groups = Values(Segs(pattern)[s], Segs(path)[t])[1]
<1> DEFINE n == Len(pattern) + 1
           Good(i, j) == LET m == Match(pattern, path)[i][j]
                         IN  /\ m.ok <=> AllFit(Segs(pattern)[i], Segs(path)[j])
                             /\ m.ok => m.groups = Values(Segs(pattern)[i], Segs(path)[j])[1]
           T == {i \in 1..n : AllPlain(Segs(pattern)[i]) => \A j \in 1..(Len(path) + 1) : Good(i, j)}
<1>1. Len(pattern) \in Nat /\ Len(path) \in Nat /\ n \in Nat
  OBVIOUS
<1>2. ASSUME NEW i \in 1..n, \A k \in (i + 1)..n : k \in T PROVE i \in T
  <2> SUFFICES ASSUME AllPlain(Segs(pattern)[i]), NEW j \in 1..(Len(path) + 1) PROVE Good(i, j)
    OBVIOUS
  <2> DEFINE e == SegEnd(pattern, i)
             g == SegEnd(path, j)
             p == SubSeq(pattern, i, e - 1)
             q == SubSeq(path, j, g - 1)
             ps == IF e > Len(pattern) THEN <<>> ELSE Segs(pattern)[e + 1]
             qs == IF g > Len(path) THEN <<>> ELSE Segs(path)[g + 1]
             m == Match(pattern, path)[i][j]
             r == Match(pattern, path)[e][g]
  <2>1. /\ e \in i..n /\ (e <= Len(pattern) => pattern[e] = "/")
        /\ g \in j..(Len(path) + 1) /\ (g <= Len(path) => path[g] = "/")
    BY <1>1, SegEndIs
  <2>2. Segs(pattern)[i] = <<p>> \o ps /\ Segs(path)[j] = <<q>> \o qs
    BY <1>1, SegsIs
  <2> HIDE DEF e, g
  <2>3. p \in Seq(S) /\ q \in Seq(S)
    BY <1>1, <2>1
  <2>4. /\ ps \in Seq(Seq(S)) /\ qs \in Seq(Seq(S))
        /\ e > Len(pattern) <=> Len(ps) = 0
        /\ g > Len(path) <=> Len(qs) = 0
    <3>1. e <= Len(pattern) => /\ Segs(pattern)[e + 1] \in Seq(Seq(S))
                               /\ Len(Segs(pattern)[e + 1]) > 0
      <4>1. e <= Len(pattern) => e + 1 \in 1..(Len(pattern) + 1)
        BY <1>1, <2>1
      <4> QED
        BY <4>1, SegsShape
    <3>2. g <= Len(path) => /\ Segs(path)[g + 1] \in Seq(Seq(S))
                            /\ Len(Segs(path)[g + 1]) > 0
      <4>1. g <= Len(path) => g + 1 \in 1..(Len(path) + 1)
        BY <1>1, <2>1
      <4> QED
        BY <4>1, SegsShape
    <3>3. (e > Len(pattern) <=> ~(e <= Len(pattern))) /\ (g > Len(path) <=> ~(g <= Len(path)))
      BY <1>1, <2>1
    <3> QED
      BY <3>1, <3>2, <3>3, EmptySeq
  <2> HIDE DEF p, q, ps, qs
  <2>5. Plain(p) /\ AllPlain(ps)
    <3>1. /\ <<p>> \o ps \in Seq(Seq(S)) /\ Len(<<p>> \o ps) = Len(ps) + 1
          /\ (<<p>> \o ps)[1] = p /\ \A k \in 1..Len(ps) : (<<p>> \o ps)[k + 1] = ps[k]
      BY <2>3, <2>4, ConsIs
    <3> DEFINE P == <<p>> \o ps
    <3>2. AllPlain(P)
      BY <2>2
    <3> HIDE DEF P
    <3>3. Len(ps) \in Nat /\ DOMAIN ps = 1..Len(ps) /\ DOMAIN P = 1..(Len(ps) + 1)
      BY <2>4, <3>1, LenProperties DEF P
    <3>4. Plain(P[1]) /\ \A k \in 1..Len(ps) : Plain(P[k + 1])
      BY <3>2, <3>3 DEF AllPlain
    <3> QED
      BY <3>1, <3>3, <3>4 DEF AllPlain, P
  <2>6. /\ m.ok <=> Fits(p, q) /\ r.ok
        /\ m.ok => m.groups = Own(p, q) \o r.groups
    <3>1. Plain(SubSeq(pattern, i, SegEnd(pattern, i) - 1))
      BY <2>5 DEF p, e
    <3>2. SegmentRuns(pattern, path, i, j)
      BY <3>1, SegmentStep
    <3> QED
      BY <3>2 DEF SegmentRuns, p, q, e, g
  <2>7. AllFit(<<p>> \o ps, <<q>> \o qs) <=> Fits(p, q) /\ AllFit(ps, qs)
    BY <2>3, <2>4, FitCons
  <2>8. ASSUME Len(ps) = Len(qs)
        PROVE  Values(Segs(pattern)[i], Segs(path)[j])[1] = Own(p, q) \o Values(ps, qs)[1]
    <3> DEFINE U == Seq(S)
    <3>1. ps \in Seq(U) /\ qs \in Seq(U) /\ p \in U /\ q \in U
      BY <2>3, <2>4
    <3> HIDE DEF U
    <3>2. ValuesSplit(p, q, ps, qs)
      BY <2>8, <3>1, ValuesCons
    <3>3. Values(<<p>> \o ps, <<q>> \o qs)[1] = Own(p, q) \o Values(ps, qs)[1]
      BY <3>2 DEF ValuesSplit
    <3> QED
      BY <2>2, <3>3
  <2>9. /\ r.ok <=> AllFit(ps, qs)
        /\ r.ok => r.groups = Values(ps, qs)[1]
    <3>1. CASE e > Len(pattern)
      <4>1. e = Len(pattern) + 1 /\ g \in 1..(Len(path) + 1)
        BY <1>1, <2>1, <3>1
      <4>2. (r.ok <=> g = Len(path) + 1) /\ r.groups = <<>>
        BY <4>1, EndStep
      <4>3. g = Len(path) + 1 <=> g > Len(path)
        BY <1>1, <2>1
      <4>4. Len(ps) = 0 /\ DOMAIN ps = {}
        BY <2>4, <3>1, LenProperties
      <4>5. AllFit(ps, qs) <=> Len(qs) = 0
        BY <4>4 DEF AllFit
      <4>6. Values(ps, qs)[1] = <<>>
        <5>1. Len(ps) \in Nat /\ 1 \in 1..(Len(ps) + 1) /\ 1 > Len(ps)
          BY <4>4
        <5>2. Values(ps, qs)[1] = IF 1 > Len(ps) THEN <<>>
                ELSE (IF IsPureParamSeg(ps[1]) THEN <<qs[1]>> ELSE <<>>) \o Values(ps, qs)[1 + 1]
          BY <5>1, ValuesIs
        <5> QED
          BY <5>1, <5>2
      <4> HIDE DEF r
      <4> QED
        BY <2>4, <4>2, <4>3, <4>5, <4>6
    <3>2. CASE ~(e > Len(pattern))
      <4> DEFINE rr == Match(pattern, path)[e + 1][g + 1]
      <4>1. e \in 1..Len(pattern) /\ g \in 1..(Len(path) + 1) /\ pattern[e] = "/" /\ e + 1 \in (i + 1)..n
        BY <1>1, <2>1, <3>2
      <4>2. Literal(pattern[e])
        BY <4>1, PiecesDiffer DEF Literal, Star
      <4>3. /\ r.ok <=> g <= Len(path) /\ path[g] = pattern[e] /\ rr.ok
            /\ r.ok => r.groups = rr.groups
        BY <4>1, <4>2, LiteralStep, SMTT(30)
      <4>4. CASE g > Len(path)
        <5>1. ~(g <= Len(path))
          BY <1>1, <2>1, <4>4
        <5>2. Len(qs) = 0 /\ Len(ps) # 0
          BY <2>4, <3>2, <4>4
        <5> QED
          BY <4>3, <5>1, <5>2 DEF AllFit
      <4>5. CASE ~(g > Len(path))
        <5>1. g <= Len(path) /\ path[g] = pattern[e] /\ g + 1 \in 1..(Len(path) + 1)
          BY <1>1, <2>1, <4>1, <4>5
        <5>2. ps = Segs(pattern)[e + 1] /\ qs = Segs(path)[g + 1]
          BY <3>2, <4>5 DEF ps, qs
        <5>3. Good(e + 1, g + 1)
          BY <1>2, <2>5, <4>1, <5>1, <5>2
        <5> HIDE DEF r
        <5> QED
          BY <4>3, <5>1, <5>2, <5>3
      <4> QED
        BY <4>4, <4>5
    <3> QED
      BY <3>1, <3>2
  <2>10. AllFit(ps, qs) => Len(ps) = Len(qs)
    BY DEF AllFit
  <2> HIDE DEF m, r
  <2>11. /\ m.ok <=> AllFit(Segs(pattern)[i], Segs(path)[j])
         /\ m.ok => m.groups = Values(Segs(pattern)[i], Segs(path)[j])[1]
    BY <2>2, <2>6, <2>7, <2>8, <2>9, <2>10
  <2> QED
    BY <2>11 DEF m
<1> HIDE DEF T
<1>3. \A i \in 1..n : i \in T
  BY <1>1, <1>2, Downward
<1> QED
  BY <1>3 DEF T

\* No piece of a static pattern stands for anything but itself.
LEMMA StaticLiteral ==
  ASSUME NEW S, NEW pattern \in Seq(S), IsStatic(pattern), NEW k \in 1..Len(pattern)
  PROVE  Literal(pattern[k])
<1> DEFINE n == Len(pattern) + 1
           Bare(segs) == \A i \in DOMAIN segs : ~SegmentHasColon(segs[i]) /\ ~HasRegexMeta(segs[i])
           T == {i \in 1..n : Bare(Segs(pattern)[i]) => \A j \in i..Len(pattern) : Literal(pattern[j])}
<1>1. Len(pattern) \in Nat /\ n \in Nat
  OBVIOUS
<1>2. ASSUME NEW i \in 1..n, \A j \in (i + 1)..n : j \in T PROVE i \in T
  <2> SUFFICES ASSUME Bare(Segs(pattern)[i]), NEW j \in i..Len(pattern) PROVE Literal(pattern[j])
    OBVIOUS
  <2> DEFINE e == SegEnd(pattern, i)
             p == SubSeq(pattern, i, e - 1)
             ps == IF e > Len(pattern) THEN <<>> ELSE Segs(pattern)[e + 1]
  <2>1. e \in i..n /\ (e <= Len(pattern) => pattern[e] = "/")
    BY <1>1, SegEndIs
  <2>2. Segs(pattern)[i] = <<p>> \o ps
    BY <1>1, SegsIs
  <2> HIDE DEF e
  <2>3. p \in Seq(S)
    BY <1>1, <2>1
  <2>4. ps \in Seq(Seq(S))
    <3>1. ~(e > Len(pattern)) => e + 1 \in 1..(Len(pattern) + 1)
      BY <1>1, <2>1
    <3>2. ~(e > Len(pattern)) => Segs(pattern)[e + 1] \in Seq(Seq(S))
      BY <3>1, SegsShape
    <3> QED
      BY <3>2, EmptySeq
  <2>5. /\ Len(p) = e - i /\ \A x \in 1..(e - i) : p[x] = pattern[i + x - 1]
    <3>1. /\ Len(p) = IF i <= e - 1 THEN (e - 1) - i + 1 ELSE 0
          /\ \A x \in 1..((e - 1) - i + 1) : p[x] = pattern[i + x - 1]
      BY <1>1, <2>1, SubSeqProperties
    <3> HIDE DEF p
    <3> QED
      BY <1>1, <2>1, <3>1
  <2> HIDE DEF p, ps
  <2>6. ~SegmentHasColon(p) /\ ~HasRegexMeta(p) /\ Bare(ps)
    <3>1. /\ <<p>> \o ps \in Seq(Seq(S)) /\ Len(<<p>> \o ps) = Len(ps) + 1
          /\ (<<p>> \o ps)[1] = p /\ \A x \in 1..Len(ps) : (<<p>> \o ps)[x + 1] = ps[x]
      BY <2>3, <2>4, ConsIs
    <3> DEFINE P == <<p>> \o ps
    <3>2. Bare(P)
      BY <2>2
    <3> HIDE DEF P
    <3>3. Len(ps) \in Nat /\ DOMAIN ps = 1..Len(ps) /\ DOMAIN P = 1..(Len(ps) + 1)
      BY <2>4, <3>1, LenProperties DEF P
    <3>4. /\ ~SegmentHasColon(P[1]) /\ ~HasRegexMeta(P[1])
          /\ \A x \in 1..Len(ps) : ~SegmentHasColon(P[x + 1]) /\ ~HasRegexMeta(P[x + 1])
      BY <3>2, <3>3
    <3> QED
      BY <3>1, <3>3, <3>4 DEF P
  <2>7. CASE j < e
    <3>1. j - i + 1 \in 1..(e - i) /\ i + (j - i + 1) - 1 = j
      BY <1>1, <2>1, <2>7
    <3>2. DOMAIN p = 1..(e - i)
      BY <2>3, <2>5, LenProperties
    <3>3. Literal(p[j - i + 1])
      BY <2>6, <3>1, <3>2 DEF SegmentHasColon, HasRegexMeta, Literal
    <3> QED
      BY <2>5, <3>1, <3>3
  <2>8. CASE j = e
    BY <1>1, <2>1, <2>8, PiecesDiffer DEF Literal, Star
  <2>9. CASE j > e
    <3>1. ~(e > Len(pattern)) /\ e + 1 \in (i + 1)..n /\ j \in (e + 1)..Len(pattern)
      BY <1>1, <2>1, <2>9
    <3>2. Bare(Segs(pattern)[e + 1])
      BY <2>6, <3>1 DEF ps
    <3> QED
      BY <1>2, <3>1, <3>2
  <2> QED
    BY <1>1, <2>1, <2>7, <2>8, <2>9
<1>3. 1 \in 1..n /\ k \in 1..Len(pattern)
  BY <1>1
<1>4. Bare(Segs(pattern)[1])
  BY SplitIs DEF IsStatic, PatternSegs
<1> HIDE DEF T, Bare
<1>5. \A i \in 1..n : i \in T
  BY <1>1, <1>2, Downward
<1> QED
  BY <1>3, <1>4, <1>5 DEF T

LEMMA NothingAssigned ==
  ASSUME NEW names
  PROVE  Assigned(names, <<>>) = <<>>
<1>1. DOMAIN <<>> = {}
  OBVIOUS
<1>2. {i \in DOMAIN names : i \in DOMAIN <<>>} = {}
  BY <1>1
<1> DEFINE pairs == {i \in DOMAIN names : i \in DOMAIN <<>>}
           dom == {names[i] : i \in pairs}
<1>3. dom = {}
  BY <1>2
<1> HIDE DEF dom
<1>4. Assigned(names, <<>>) = [name \in dom |-> <<>>[Max({i \in pairs : names[i] = name})]]
  BY DEF Assigned, dom
<1> QED
  BY <1>3, <1>4

\* A pattern of literals matches itself and captures nothing.
LEMMA StaticMatch ==
  ASSUME NEW S, NEW pattern \in Seq(S), NEW path \in Seq(S), IsStatic(pattern)
  PROVE  LET m == Match(pattern, path)[1][1]
         IN  /\ m.ok <=> path = pattern
             /\ m.ok => m.groups = <<>>
<1> DEFINE n == Len(pattern) + 1
           m == Match(pattern, path)[1][1]
           last == Match(pattern, path)[n][n]
<1>1. /\ Len(pattern) \in Nat /\ Len(path) \in Nat
      /\ n \in 1..(Len(pattern) + 1) /\ 1 \in 1..n /\ 1 \in 1..(Len(path) + 1)
      /\ 0 \in Int /\ 1 = 1 + 0
  OBVIOUS
<1>2. \A k \in 1..(n - 1) : Literal(pattern[k])
  BY StaticLiteral
<1>3. Runs(pattern, path, 1, 1, n, n + 0)
  BY <1>1, <1>2, LiteralRun
<1>4. n + 0 = n /\ n - n = 0 /\ n - 1 = Len(pattern)
  BY <1>1
<1> HIDE DEF m, last
<1>5. /\ m.ok <=> /\ n <= Len(path) + 1
                  /\ \A k \in 1..Len(pattern) : path[k + 0] = pattern[k]
                  /\ last.ok
      /\ m.ok => m.groups = last.groups
  <2> HIDE DEF n
  <2> QED
    BY <1>3, <1>4 DEF Runs, m, last
<1>6. n <= Len(path) + 1 => (last.ok <=> Len(pattern) = Len(path)) /\ last.groups = <<>>
  <2>1. n <= Len(path) + 1 => n \in 1..(Len(path) + 1)
    BY <1>1
  <2>2. n <= Len(path) + 1 => (last.ok <=> n = Len(path) + 1) /\ last.groups = <<>>
    BY <2>1, EndStep DEF last
  <2> QED
    BY <1>1, <2>2
<1>7. \A k \in 1..Len(pattern) : k + 0 = k
  BY <1>1
<1>8. path = pattern <=> Len(pattern) = Len(path) /\ \A k \in 1..Len(pattern) : path[k] = pattern[k]
  BY <1>1, SeqEqual
<1>9. Len(pattern) = Len(path) => n <= Len(path) + 1
  BY <1>1
<1> HIDE DEF n
<1>10. m.ok <=> path = pattern
  BY <1>5, <1>6, <1>7, <1>8, <1>9
<1> QED
  BY <1>5, <1>6, <1>10 DEF m

\* RouteMatch's Agrees, for every pattern and path.
LEMMA PatternAgrees ==
  ASSUME NEW S, NEW pattern \in Seq(S), NEW path \in Seq(S)
  PROVE  Agrees(pattern, path)
<1> DEFINE m == Match(pattern, path)[1][1]
           names == ParamNames(pattern)
<1>1. 1 \in 1..(Len(pattern) + 1) /\ 1 \in 1..(Len(path) + 1) /\ Len(path) \in Nat /\ Len(pattern) \in Nat
  OBVIOUS
<1>2. RegexMatch(pattern, path) = m
  BY RegexIs
<1>3. MatchPath(pattern, path) = <<m.ok, IF m.ok THEN Assigned(names, m.groups) ELSE <<>>>>
  BY <1>2 DEF MatchPath
<1>4. m.ok \in BOOLEAN
  BY <1>1, MatchShape
<1> HIDE DEF names
<1>5. ASSUME IsStatic(pattern)
      PROVE  /\ MatchPath(pattern, path)[1] <=> path = pattern
             /\ path = pattern => MatchPath(pattern, path)[2] = <<>>
  <2>1. (m.ok <=> path = pattern) /\ (m.ok => m.groups = <<>>)
    BY <1>5, StaticMatch
  <2> HIDE DEF m
  <2>2. Assigned(names, <<>>) = <<>>
    BY NothingAssigned
  <2> QED
    BY <1>3, <1>4, <2>1, <2>2
<1>6. ASSUME ~NeedsRegex(pattern)
      PROVE  MatchSegments(pattern, path) = MatchPath(pattern, path)
  <2> DEFINE P == Segs(pattern)[1]
             Q == Segs(path)[1]
  <2>1. SplitPath(pattern) = P /\ SplitPath(path) = Q
    BY SplitIs
  <2>2. AllPlain(P)
    BY <1>6, <2>1 DEF NeedsRegex, PatternSegs, AllPlain, Plain
  <2>3. (m.ok <=> AllFit(P, Q)) /\ (m.ok => m.groups = Values(P, Q)[1])
    BY <1>1, <2>2, SegmentsMatch
  <2> HIDE DEF P, Q
  <2>4. MatchSegments(pattern, path) =
          <<AllFit(P, Q), IF AllFit(P, Q) THEN Assigned(names, Values(P, Q)[1]) ELSE <<>>>>
    BY <2>1, SegmentsIs DEF names
  <2>5. AllFit(P, Q) = m.ok
    <3>1. AllFit(P, Q) \in BOOLEAN
      BY DEF AllFit
    <3> HIDE DEF m
    <3> QED
      BY <1>4, <2>3, <3>1
  <2> HIDE DEF m
  <2>6. CASE m.ok
    BY <1>3, <2>3, <2>4, <2>5, <2>6
  <2>7. CASE ~m.ok
    BY <1>3, <2>4, <2>5, <2>7
  <2> QED
    BY <2>6, <2>7
<1>7. MatchPath(pattern, path)[1] \in BOOLEAN
  <2> HIDE DEF m
  <2> QED
    BY <1>3, <1>4
<1> QED
  BY <1>5, <1>6, <1>7 DEF Agrees

-----------------------------------------------------------------------------
(* The chain of middlewares. *)

LEMMA PlacesDiffer ==
  ASSUME NEW t, NEW path, Table(t)
  PROVE  /\ \A m \in FindMiddlewares(t, path) : m.place \in Nat
         /\ \A m, o \in FindMiddlewares(t, path) : m.place = o.place => m = o
<1>1. DOMAIN t.middlewares \subseteq Nat
  BY DEF Table
<1> QED
  BY <1>1 DEF FindMiddlewares

LEMMA RangeIs ==
  ASSUME NEW S, NEW q \in Seq(S)
  PROVE  Range(q) = {q[j] : j \in 1..Len(q)} /\ Range(q) \subseteq S
BY DEF Range

\* The next in turn is the first of those that have not run.
LEMMA NextInTurn ==
  ASSUME NEW own, \A m \in own : m.place \in Nat,
         \A m, o \in own : m.place = o.place => m = o,
         NEW ran \in Seq(own), InTurn(ran, own),
         NEW m \in own \ Range(ran), \A o \in own \ Range(ran) : m.place <= o.place
  PROVE  Append(ran, m) \in Seq(own) /\ InTurn(Append(ran, m), own)
<1> DEFINE after == Append(ran, m)
<1>1. /\ after \in Seq(own) /\ Len(ran) \in Nat
      /\ DOMAIN ran = 1..Len(ran) /\ DOMAIN after = 1..(Len(ran) + 1)
      /\ after[Len(ran) + 1] = m
      /\ \A i \in 1..Len(ran) : after[i] = ran[i]
  OBVIOUS
<1> HIDE DEF after
<1>2. Range(after) \subseteq own
  BY <1>1, RangeIs
<1>3. ASSUME NEW i \in 1..Len(ran)
      PROVE  {o \in own : o.place < after[i].place} = {after[j] : j \in 1..(i - 1)}
  <2>1. {o \in own : o.place < ran[i].place} = {ran[j] : j \in 1..(i - 1)}
    BY <1>1 DEF InTurn
  <2>2. \A j \in 1..(i - 1) : after[j] = ran[j]
    BY <1>1
  <2>3. {after[j] : j \in 1..(i - 1)} = {ran[j] : j \in 1..(i - 1)}
    BY <2>2
  <2>4. after[i] = ran[i]
    BY <1>1
  <2> QED
    BY <2>1, <2>3, <2>4
<1>4. {o \in own : o.place < m.place} = Range(ran)
  <2>1. ASSUME NEW o \in own, o.place < m.place PROVE o \in Range(ran)
    BY <2>1
  <2>2. ASSUME NEW o \in Range(ran) PROVE o \in own /\ o.place < m.place
    <3>1. PICK i \in 1..Len(ran) : o = ran[i]
      BY <2>2, RangeIs
    <3>2. o \in own
      BY <2>2, RangeIs
    <3>3. {n \in own : n.place < o.place} = {ran[j] : j \in 1..(i - 1)}
      BY <1>1, <3>1 DEF InTurn
    <3>4. \A j \in 1..(i - 1) : ran[j] \in Range(ran)
      BY <1>1, RangeIs
    <3>5. ~ (m.place < o.place)
      BY <3>3, <3>4
    <3>6. m.place # o.place
      BY <2>2, <3>2
    <3> QED
      BY <3>2, <3>5, <3>6
  <2> QED
    BY <2>1, <2>2
<1>5. {after[j] : j \in 1..Len(ran)} = Range(ran)
  BY <1>1, RangeIs
<1>6. ASSUME NEW i \in 1..(Len(ran) + 1), i = Len(ran) + 1
      PROVE  {o \in own : o.place < after[i].place} = {after[j] : j \in 1..(i - 1)}
  <2>1. i - 1 = Len(ran) /\ after[i] = m
    BY <1>1, <1>6
  <2> QED
    BY <1>4, <1>5, <2>1
<1>7. \A i \in 1..(Len(ran) + 1) : i \in 1..Len(ran) \/ i = Len(ran) + 1
  BY <1>1
<1>8. \A i \in DOMAIN after : {o \in own : o.place < after[i].place} = {after[j] : j \in 1..(i - 1)}
  BY <1>1, <1>3, <1>6, <1>7
<1> QED
  BY <1>1, <1>2, <1>8 DEF InTurn, after

-----------------------------------------------------------------------------
(* The invariant. *)

LEMMA InitInvariant == Init => IInv
<1>1. Table(FirstTable)
  BY DEF Table, FirstTable
<1> QED
  BY <1>1 DEF Init, IInv, Handled, Idle

LEMMA ChangedIsTable ==
  ASSUME NEW t, Table(t), NEW reg \in Registrations
  PROVE  Table(Indexed(Changed(t, reg)))
<1> DEFINE u == Changed(t, reg)
<1>1. /\ {"routes", "index", "middlewares", "notFoundHandler", "errorHandler"} \subseteq DOMAIN u
      /\ u.routes \in Seq(Route)
      /\ u.middlewares \in Seq(Middleware)
  <2>1. reg.kind \in {"route", "middleware", "notFound", "error"}
    BY RouterAssumption
  <2>2. CASE reg.kind = "route"
    <3>1. reg.route \in Route
      BY <2>2 DEF Route
    <3> QED
      BY <2>2, <3>1 DEF Changed, Table
  <2>3. CASE reg.kind = "middleware"
    <3>1. reg.middleware \in Middleware
      BY <2>3 DEF Middleware
    <3> QED
      BY <2>3, <3>1 DEF Changed, Table
  <2>4. CASE reg.kind \in {"notFound", "error"}
    BY <2>4 DEF Changed, Table
  <2> QED
    BY <2>1, <2>2, <2>3, <2>4
<1> HIDE DEF u
<1> QED
  BY <1>1 DEF Table, Indexed, u

\* A request whose table is still among the published ones.
LEMMA StillHandled ==
  ASSUME NEW r, Handled(r), published \subseteq published'
  PROVE  Handled(r)'
BY DEF Handled, UnderWay

LEMMA OneRequest ==
  ASSUME IInv, NEW s \in Server, NEW r, Handled(r),
         request' = [request EXCEPT ![s] = r],
         UNCHANGED <<table, copy, published>>
  PROVE  IInv'
<1>1. \A u \in Server : request'[u] = (IF u = s THEN r ELSE request[u])
  BY DEF IInv
<1>2. \A u \in Server : Handled(request'[u])
  BY <1>1 DEF IInv
<1>3. (\A u \in Server : Handled(request[u]))'
  BY <1>2 DEF Handled, UnderWay
<1> QED
  BY <1>3 DEF IInv

LEMMA NextInvariant == IInv /\ [Next]_vars => IInv'
<1> SUFFICES ASSUME IInv, [Next]_vars PROVE IInv'
  OBVIOUS
<1>1. CASE UNCHANGED vars
  BY <1>1 DEF vars, IInv, Handled, UnderWay
<1>2. ASSUME NEW u \in Registrar, Load(u) PROVE IInv'
  <2>1. PICK reg \in Registrations :
          copy' = [copy EXCEPT ![u] = [table |-> Indexed(Changed(table, reg)), reg |-> reg]]
    BY <1>2 DEF Load
  <2>2. Table(Indexed(Changed(table, reg)))
    BY ChangedIsTable DEF IInv
  <2>3. UNCHANGED <<table, request, published>>
    BY <1>2 DEF Load
  <2>4. DOMAIN copy' = Registrar
    BY <2>1 DEF IInv
  <2>5. \A v \in Registrar : copy'[v] # NoTable => Table(copy'[v].table)
    BY <2>1, <2>2 DEF IInv
  <2> QED
    BY <2>3, <2>4, <2>5 DEF IInv, Table, Handled, UnderWay
<1>3. ASSUME NEW u \in Registrar, Store(u) PROVE IInv'
  <2>1. /\ copy[u] # NoTable /\ table' = copy[u].table
        /\ published' = published \cup {copy[u].table}
        /\ copy' = [copy EXCEPT ![u] = NoTable] /\ request' = request
    BY <1>3 DEF Store
  <2>2. table' \in published' /\ \A t \in published' : Table(t)
    BY <2>1 DEF IInv
  <2>3. DOMAIN copy' = Registrar /\ \A v \in Registrar : copy'[v] # NoTable => Table(copy'[v].table)
    BY <2>1 DEF IInv
  <2>4. \A s \in Server : Handled(request[s])'
    BY <2>1 DEF IInv, Handled, UnderWay
  <2> QED
    BY <2>1, <2>2, <2>3, <2>4 DEF IInv, Table
<1>4. ASSUME NEW s \in Server, Begin(s) PROVE IInv'
  <2> DEFINE r(q) == [at |-> "chain", method |-> q.method, path |-> q.path, snapshot |-> table,
                      matched |-> FindMiddlewares(table, q.path), ran |-> <<>>, outcome |-> <<>>]
  <2>1. PICK q \in Requests : request' = [request EXCEPT ![s] = r(q)]
    BY <1>4 DEF Begin
  <2>2. InTurn(<<>>, FindMiddlewares(table, q.path))
    BY DEF InTurn, Range
  <2>3. Handled(r(q))
    BY <2>2 DEF Handled, UnderWay, Fields, IInv
  <2> QED
    BY <1>4, <2>1, <2>3, OneRequest DEF Begin
<1>5. ASSUME NEW s \in Server, RunMiddleware(s) PROVE IInv'
  <2> DEFINE r == request[s]
             after(m) == [r EXCEPT !.ran = Append(@, m)]
             failed == <<"error", r.snapshot.errorHandler>>
  <2>1. r.at = "chain" /\ UNCHANGED <<table, copy, published>>
    BY <1>5 DEF RunMiddleware
  <2>2. PICK m \in Left(r) :
          /\ \A other \in Left(r) : m.place <= other.place
          /\ \/ request' = [request EXCEPT ![s] = after(m)]
             \/ request' = [request EXCEPT ![s] = Finish(after(m), <<"answered">>)]
             \/ request' = [request EXCEPT ![s] = Finish(after(m), failed)]
    BY <1>5, Zenon DEF RunMiddleware
  <2>3. UnderWay(r) /\ Table(r.snapshot)
    BY <2>1 DEF IInv, Handled, UnderWay
  <2>4. Append(r.ran, m) \in Seq(r.matched) /\ InTurn(Append(r.ran, m), r.matched)
    <3> DEFINE own == r.matched
               ran == r.ran
    <3>1. /\ \A n \in own : n.place \in Nat
          /\ \A n, o \in own : n.place = o.place => n = o
      BY <2>3, PlacesDiffer DEF UnderWay
    <3>2. ran \in Seq(own) /\ InTurn(ran, own)
      BY <2>3 DEF UnderWay
    <3>3. m \in own \ Range(ran) /\ \A o \in own \ Range(ran) : m.place <= o.place
      BY <2>2 DEF Left
    <3> HIDE DEF own, ran
    <3>4. Append(ran, m) \in Seq(own) /\ InTurn(Append(ran, m), own)
      BY <3>1, <3>2, <3>3, NextInTurn
    <3> QED
      BY <3>4 DEF own, ran
  <2>5. /\ after(m).at = "chain" /\ DOMAIN after(m) = Fields
        /\ after(m).ran = Append(r.ran, m) /\ after(m).path = r.path
        /\ after(m).snapshot = r.snapshot /\ after(m).matched = r.matched
    BY <2>1, <2>3 DEF UnderWay, Fields
  <2>6. UnderWay(after(m))
    BY <2>3, <2>4, <2>5 DEF UnderWay
  <2> HIDE DEF after
  <2>7. ASSUME NEW outcome, outcome \in {<<"answered">>, failed}
        PROVE  Handled(Finish(after(m), outcome))
    <3> DEFINE f == Finish(after(m), outcome)
    <3>1. /\ f.at = "done" /\ DOMAIN f = Fields /\ f.outcome = outcome
          /\ f.ran = after(m).ran /\ f.path = r.path
          /\ f.snapshot = r.snapshot /\ f.matched = r.matched
      BY <2>5 DEF Finish, Fields
    <3> HIDE DEF f
    <3>2. UnderWay(f)
      BY <2>5, <2>6, <3>1 DEF UnderWay
    <3>3. SeesOne(f.snapshot, f)
      BY <2>7, <3>1, <3>2 DEF SeesOne, UnderWay
    <3> QED
      BY <3>1, <3>2, <3>3 DEF Handled, f
  <2>8. Handled(after(m))
    BY <2>5, <2>6 DEF Handled
  <2>9. \E q : Handled(q) /\ request' = [request EXCEPT ![s] = q]
    <3> HIDE DEF failed, r
    <3> QED
      BY <2>2, <2>7, <2>8
  <2> QED
    BY <2>1, <2>9, OneRequest
<1>6. ASSUME NEW s \in Server, DispatchRoute(s) PROVE IInv'
  <2> DEFINE r == request[s]
             failed == <<"error", r.snapshot.errorHandler>>
             reached == Target(TableOf(r), r)
  <2>1. /\ r.at = "chain" /\ Left(r) = {} /\ UNCHANGED <<table, copy, published>>
        /\ \/ request' = [request EXCEPT ![s] = Finish(r, reached)]
           \/ request' = [request EXCEPT ![s] = Finish(r, failed)]
    BY <1>6 DEF DispatchRoute
  <2>2. UnderWay(r)
    BY <2>1 DEF IInv, Handled
  <2>3. Range(r.ran) = r.matched
    BY <2>1, <2>2 DEF Left, UnderWay, InTurn
  <2>4. ASSUME NEW outcome, outcome \in {reached, failed}
        PROVE  Handled(Finish(r, outcome))
    <3> DEFINE f == Finish(r, outcome)
    <3>1. /\ f.at = "done" /\ DOMAIN f = Fields /\ f.outcome = outcome
          /\ f.ran = r.ran /\ f.path = r.path /\ f.method = r.method
          /\ f.snapshot = r.snapshot /\ f.matched = r.matched
      BY <2>2 DEF Finish, Fields, UnderWay
    <3> HIDE DEF f
    <3>2. UnderWay(f)
      BY <2>2, <3>1 DEF UnderWay
    <3>3. Target(f.snapshot, f) = reached
      BY <3>1 DEF Target, TableOf
    <3>4. SeesOne(f.snapshot, f)
      BY <2>3, <2>4, <3>1, <3>2, <3>3 DEF SeesOne, UnderWay
    <3> QED
      BY <3>1, <3>2, <3>4 DEF Handled, f
  <2>5. \E q : Handled(q) /\ request' = [request EXCEPT ![s] = q]
    <3> HIDE DEF failed, reached, r
    <3> QED
      BY <2>1, <2>4
  <2> QED
    BY <2>1, <2>5, OneRequest
<1>7. ASSUME NEW s \in Server, Return(s) PROVE IInv'
  <2>1. Handled(Idle)
    BY DEF Handled, Idle
  <2> QED
    BY <1>7, <2>1, OneRequest DEF Return
<1> QED
  BY <1>1, <1>2, <1>3, <1>4, <1>5, <1>6, <1>7 DEF Next

\* Every published table has the index of its own routes, and every request under way runs
\* the middlewares of one published table in turn: mutate, handleRequest.
THEOREM Invariance == Spec => []IInv
<1>1. Init => IInv
  BY InitInvariant
<1>2. IInv /\ [Next]_vars => IInv'
  BY NextInvariant
<1> QED
  BY <1>1, <1>2, PTL DEF Spec

\* A request sees one table that was published, whatever is registered meanwhile, with any
\* number of threads that register and that handle requests (handleRequest).
THEOREM SeesOneTable == Spec => []OneTable
<1>1. IInv => OneTable
  BY DEF IInv, Handled, UnderWay, OneTable
<1> QED
  BY <1>1, Invariance, PTL

-----------------------------------------------------------------------------
(* The index. *)

\* One method's part of FindRoute and of Scan.
HitsOf(routes, method, path) ==
  {i \in DOMAIN routes : routes[i].method = method /\ MatchPath(routes[i].path, path)[1]}
FirstOf(routes, method, path) ==
  LET hits == HitsOf(routes, method, path)
  IN  IF hits = {} THEN Nothing ELSE Found(Min(hits), MatchPath(routes[Min(hits)].path, path)[2])
Under(routes, method, path) ==
  LET index == RebuildIndex(routes)
  IN  IF method \in DOMAIN index THEN MatchMethod(routes, index[method], path) ELSE Nothing

\* rebuildIndex and matchMethod, for the routes of one method.
LEMMA MethodIsScan ==
  ASSUME NEW routes, DOMAIN routes \subseteq Nat \ {0}, NEW path, NEW method,
         \A i \in DOMAIN routes : Agrees(routes[i].path, path)
  PROVE  Under(routes, method, path) = FirstOf(routes, method, path)
<1> DEFINE index   == RebuildIndex(routes)
           hits    == HitsOf(routes, method, path)
           own     == {i \in DOMAIN routes : routes[i].method = method}
           static  == {i \in own : IsStatic(routes[i].path)}
           same    == {i \in static : routes[i].path = path}
           dynamic == {i \in own \ static : Hit(routes[i], path)[1]}
<1>1. hits = same \cup dynamic /\ same \cap dynamic = {}
  BY DEF Agrees, Hit, HitsOf
<1>2. \A i \in dynamic : Hit(routes[i], path)[2] = MatchPath(routes[i].path, path)[2]
  BY DEF Agrees, Hit
<1>3. \A i \in same : MatchPath(routes[i].path, path)[2] = <<>>
  BY DEF Agrees
<1>4. CASE own = {}
  <2>1. method \notin DOMAIN index
    BY <1>4 DEF RebuildIndex
  <2>2. hits = {}
    BY <1>4 DEF HitsOf
  <2> QED
    BY <2>1, <2>2 DEF Under, FirstOf
<1>5. CASE own # {}
  <2> DEFINE exact == IF same = {} THEN 0 ELSE Min(same)
             best  == IF hits = {} THEN 0 ELSE Min(hits)
  <2>1. method \in DOMAIN index
    BY <1>5 DEF RebuildIndex
  <2>2. /\ index[method].exact = [p \in {routes[i].path : i \in static} |->
                                    Min({i \in static : routes[i].path = p})]
        /\ index[method].dynamicRoutes = own \ static
    BY <2>1 DEF RebuildIndex
  <2>3. exact = IF path \in DOMAIN index[method].exact THEN index[method].exact[path] ELSE 0
    BY <2>2
  <2>4. dynamic = {i \in index[method].dynamicRoutes : Hit(routes[i], path)[1]}
    BY <2>2
  <2>5. same \subseteq Nat \ {0} /\ dynamic \subseteq Nat \ {0} /\ hits \subseteq Nat \ {0}
    BY DEF HitsOf
  <2>6. MatchMethod(routes, index[method], path) =
          LET b == Preferred(dynamic, exact)
          IN  CASE b = 0 -> Nothing
                [] b # 0 /\ b = exact -> Found(b, <<>>)
                [] OTHER -> Found(b, Hit(routes[b], path)[2])
    BY <2>3, <2>4 DEF MatchMethod
  <2> HIDE DEF index, hits, own, static, same, dynamic
  <2>7. Preferred(dynamic, exact) = best
    <3> DEFINE earlier == {i \in dynamic : exact = 0 \/ i < exact}
    <3>1. same # {} => exact \in same /\ \A i \in same : exact <= i
      BY <2>5, MinIsLeast
    <3>2. CASE earlier = {}
      <4>1. CASE same = {}
        BY <1>1, <3>2, <4>1 DEF Preferred
      <4>2. CASE same # {}
        <5>1. \A i \in hits : exact <= i
          <6>1. exact \in Nat \ {0} /\ \A i \in same : exact <= i
            BY <2>5, <3>1, <4>2
          <6>2. \A i \in dynamic : i \in Nat /\ ~ (i < exact)
            BY <2>5, <3>2
          <6>3. \A i \in dynamic : exact <= i
            BY <6>1, <6>2
          <6> QED
            BY <1>1, <6>1, <6>3
        <5>2. best = exact
          BY <1>1, <2>5, <3>1, <4>2, <5>1, LeastIsMin
        <5> QED
          BY <3>2, <5>2 DEF Preferred
      <4> QED
        BY <4>1, <4>2
    <3>3. CASE earlier # {}
      <4>1. Min(earlier) \in earlier /\ \A i \in earlier : Min(earlier) <= i
        BY <2>5, <3>3, MinIsLeast
      <4>2. \A i \in hits : Min(earlier) <= i
        <5> DEFINE m == Min(earlier)
        <5>1. m \in Nat /\ (exact = 0 \/ m < exact) /\ \A i \in earlier : m <= i
          BY <2>5, <4>1
        <5> HIDE DEF m
        <5>2. ASSUME NEW i \in same PROVE m <= i
          <6>1. exact \in Nat \ {0} /\ i \in Nat /\ exact <= i
            BY <2>5, <3>1, <5>2
          <6> QED
            BY <5>1, <6>1
        <5>3. ASSUME NEW i \in dynamic PROVE m <= i
          <6>1. i \in Nat /\ exact \in Nat
            BY <2>5, <3>1
          <6>2. i \in earlier \/ (exact # 0 /\ exact <= i)
            BY <6>1
          <6> QED
            BY <5>1, <6>1, <6>2
        <5> QED
          BY <1>1, <5>2, <5>3 DEF m
      <4>3. best = Min(earlier)
        BY <1>1, <2>5, <4>1, <4>2, LeastIsMin
      <4> QED
        BY <3>3, <4>3 DEF Preferred
    <3> QED
      BY <3>2, <3>3
  <2>8. CASE hits = {}
    BY <2>1, <2>6, <2>7, <2>8 DEF index, hits, Under, FirstOf
  <2>9. CASE hits # {}
    <3>1. best \in hits /\ best # 0
      BY <2>5, <2>9, MinIsLeast
    <3>2. CASE best = exact
      <4>1. best \in same
        BY <2>5, <3>1, <3>2, MinIsLeast
      <4> QED
        BY <1>3, <2>1, <2>6, <2>7, <2>9, <3>1, <3>2, <4>1 DEF index, hits, Under, FirstOf
    <3>3. CASE best # exact
      <4>1. best \in dynamic
        <5>1. ASSUME best \in same PROVE FALSE
          <6>1. \A i \in same : best <= i
            BY <1>1, <2>5, <2>9, MinIsLeast
          <6> QED
            BY <2>5, <3>3, <5>1, <6>1, LeastIsMin
        <5> QED
          BY <1>1, <3>1, <5>1
      <4> QED
        BY <1>2, <2>1, <2>6, <2>7, <2>9, <3>1, <3>3, <4>1 DEF index, hits, Under, FirstOf
    <3> QED
      BY <3>2, <3>3
  <2> QED
    BY <2>8, <2>9
<1> QED
  BY <1>4, <1>5

LEMMA IndexIsScan ==
  ASSUME NEW routes, DOMAIN routes \subseteq Nat \ {0}, NEW path, NEW method,
         \A i \in DOMAIN routes : Agrees(routes[i].path, path)
  PROVE  FindRoute(routes, RebuildIndex(routes), method, path) = Scan(routes, method, path)
<1> DEFINE first(m) == FirstOf(routes, m, path)
           under(m) == Under(routes, m, path)
<1>1. under(method) = first(method) /\ under("GET") = first("GET")
  BY MethodIsScan
<1>2. FindRoute(routes, RebuildIndex(routes), method, path) =
        IF method = "HEAD" /\ under(method) = Nothing THEN under("GET") ELSE under(method)
  BY DEF FindRoute, Under
<1>3. Scan(routes, method, path) =
        IF method = "HEAD" /\ first(method) = Nothing THEN first("GET") ELSE first(method)
  BY DEF Scan, FirstOf, HitsOf
<1> HIDE DEF under, first
<1> QED
  BY <1>1, <1>2, <1>3

\* For every pattern and every path: a route without a placeholder or a special character
\* matches its own path only, and where Route::Route decides that the regular expression is
\* not needed, comparing segment by segment finds the same match with the same parameters
\* (the claim of RouterHandler.cpp:53 and :117).
THEOREM SegmentsAreEnough == PatternsAgree
<1> SUFFICES ASSUME NEW reg \in Registrations, NEW l \in Lookups, reg.kind = "route"
             PROVE  Agrees(reg.route.path, l.path)
  BY DEF PatternsAgree
<1>1. reg.route.path \in Seq(STRING) /\ l.path \in Seq(STRING)
  BY RouterAssumption
<1> QED
  BY <1>1, PatternAgrees

\* The index, rebuilt with every registration, finds the route that the first regular
\* expression to match belongs to, with its parameters, in whatever order the routes were
\* registered (RouterHandler.h:25 and :119).
THEOREM IndexFindsFirst == Spec => []FindsWhatScanFinds
<1>1. IInv => FindsWhatScanFinds
  <2> SUFFICES ASSUME IInv, NEW l \in Lookups
               PROVE  FindRoute(table.routes, table.index, l.method, l.path)
                      = Scan(table.routes, l.method, l.path)
    BY DEF FindsWhatScanFinds
  <2> DEFINE routes == table.routes
  <2>1. routes \in Seq(Route) /\ table.index = RebuildIndex(routes)
    BY DEF IInv, Table
  <2>2. DOMAIN routes \subseteq Nat \ {0} /\ \A i \in DOMAIN routes : routes[i] \in Route
    BY <2>1
  <2>3. \A i \in DOMAIN routes : Agrees(routes[i].path, l.path)
    BY <2>2, SegmentsAreEnough DEF PatternsAgree, Route
  <2> HIDE DEF routes
  <2>4. FindRoute(routes, RebuildIndex(routes), l.method, l.path) = Scan(routes, l.method, l.path)
    BY <2>2, <2>3, IndexIsScan
  <2> QED
    BY <2>1, <2>4 DEF routes
<1> QED
  BY <1>1, Invariance, PTL
=============================================================================
