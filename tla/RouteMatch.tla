----------------------------- MODULE RouteMatch -----------------------------
(***************************************************************************)
(* How RouterHandler finds the route of a request: the plan each Route     *)
(* makes of its pattern, the index of a table, and the matching itself,    *)
(* beside the search the index replaces: one regular expression after the  *)
(* other, in the order of registration.                                    *)
(*                                                                         *)
(* A path is a sequence of pieces: "/" and the texts between, a text being *)
(* cut further where a pattern can tell its parts apart ("x", ".json").  A *)
(* pattern has also placeholders (":id") and "*".  A route is              *)
(* [method, path, handler].  Paths have no line breaks, which "." in a     *)
(* regular expression does not match.                                      *)
(***************************************************************************)
EXTENDS Naturals, Sequences, FiniteSetsExt

CONSTANTS
  Placeholder,  \* pieces ":identifier"
  Meta          \* other pieces with characters special in a regular expression

Star == "*"

ASSUME PiecesDiffer == Placeholder \cap {"/", Star} = {}

NoMatch == [ok |-> FALSE, groups |-> <<>>]

----------------------------------------------------------------------------
(* pathToRegex and std::regex_match *)

\* What a piece of a pattern may stand for: "([^/]+)", "(.*)" or itself.
Captures(piece) == piece \in Placeholder \cup {Star}
StandsFor(piece, text) ==
  CASE piece \in Placeholder -> text # <<>> /\ \A i \in DOMAIN text : text[i] # "/"
    [] piece = Star          -> TRUE
    [] OTHER                 -> text = <<piece>>

\* Matching a pattern against a path: each group takes as much as the rest allows.
RegexMatch(pattern, path) ==
  LET match[i \in 1..(Len(pattern) + 1)] == [from \in 1..(Len(path) + 1) |->
        IF i > Len(pattern)
        THEN [ok |-> from > Len(path), groups |-> <<>>]
        ELSE LET fits == {next \in from..(Len(path) + 1) :
                            /\ StandsFor(pattern[i], SubSeq(path, from, next - 1))
                            /\ match[i + 1][next].ok}
                 next == Max(fits)
             IN  IF fits = {} THEN NoMatch
                 ELSE [ok |-> TRUE,
                       groups |-> (IF Captures(pattern[i]) THEN <<SubSeq(path, from, next - 1)>> ELSE <<>>)
                                  \o match[i + 1][next].groups]]
  IN  match[1][1]

ParamNames(pattern) == SelectSeq(pattern, LAMBDA piece : piece \in Placeholder)

\* Values of the names in order; the last of a repeated name remains.
Assigned(names, values) ==
  LET pairs == {i \in DOMAIN names : i \in DOMAIN values}
  IN  [name \in {names[i] : i \in pairs} |-> values[Max({i \in pairs : names[i] = name})]]

\* matchPath: <<hit, params>>; the i-th name gets the i-th group.
MatchPath(pattern, path) ==
  LET match == RegexMatch(pattern, path)
  IN  <<match.ok, IF match.ok THEN Assigned(ParamNames(pattern), match.groups) ELSE <<>>>>

----------------------------------------------------------------------------
(* The plan of a route *)

\* splitPath: the texts between the slashes, empty ones included.
SegEnd(path, start) == Min({i \in start..Len(path) : path[i] = "/"} \cup {Len(path) + 1})
SplitPath(path) ==
  LET from[start \in 1..(Len(path) + 1)] ==
        LET pos == SegEnd(path, start)
        IN  <<SubSeq(path, start, pos - 1)>> \o (IF pos > Len(path) THEN <<>> ELSE from[pos + 1])
  IN  from[1]

IsPureParamSeg(seg) == Len(seg) = 1 /\ seg[1] \in Placeholder
SegmentHasColon(seg) == \E i \in DOMAIN seg : seg[i] \in Placeholder
HasRegexMeta(seg) == \E i \in DOMAIN seg : seg[i] \in Meta \cup {Star}

PatternSegs(path) == {SplitPath(path)[i] : i \in DOMAIN SplitPath(path)}
IsStatic(path) == \A seg \in PatternSegs(path) : ~SegmentHasColon(seg) /\ ~HasRegexMeta(seg)

\* A bug to catch: a segment that only contains a placeholder passes for one.
AnyColonIsParam(path) == \E seg \in PatternSegs(path) : HasRegexMeta(seg)
NeedsRegex(path) ==
  \E seg \in PatternSegs(path) : HasRegexMeta(seg) \/ (SegmentHasColon(seg) /\ ~IsPureParamSeg(seg))

\* matchSegments and the parameters read from the segments.
MatchSegments(pattern, path) ==
  LET patternSegs == SplitPath(pattern)
      pathSegs    == SplitPath(path)
      hit == /\ Len(patternSegs) = Len(pathSegs)
             /\ \A i \in DOMAIN patternSegs :
                  IF IsPureParamSeg(patternSegs[i]) THEN pathSegs[i] # <<>>
                  ELSE patternSegs[i] = pathSegs[i]
      values[i \in 1..(Len(patternSegs) + 1)] ==
        IF i > Len(patternSegs) THEN <<>>
        ELSE (IF IsPureParamSeg(patternSegs[i]) THEN <<pathSegs[i]>> ELSE <<>>) \o values[i + 1]
  IN  <<hit, IF hit THEN Assigned(ParamNames(pattern), values[1]) ELSE <<>>>>

----------------------------------------------------------------------------
(* The index of a table and the search in it *)

\* rebuildIndex: per method, the first route of each static path and the other routes.
RebuildIndex(routes) ==
  [method \in {routes[i].method : i \in DOMAIN routes} |->
     LET own     == {i \in DOMAIN routes : routes[i].method = method}
         static  == {i \in own : IsStatic(routes[i].path)}
     IN  [exact |-> [path \in {routes[i].path : i \in static} |->
                       Min({i \in static : routes[i].path = path})],
          dynamicRoutes |-> own \ static]]

Hit(route, path) ==
  IF NeedsRegex(route.path) THEN MatchPath(route.path, path) ELSE MatchSegments(route.path, path)

\* A bug to catch: a static route wins over a dynamic one registered before it.
ExactFirst(dynamic, exact) == IF exact # 0 THEN exact ELSE IF dynamic = {} THEN 0 ELSE Min(dynamic)
Preferred(dynamic, exact) ==
  LET earlier == {i \in dynamic : exact = 0 \/ i < exact}
  IN  IF earlier = {} THEN exact ELSE Min(earlier)

Found(i, params) == [route |-> i, params |-> params]
Nothing == Found(0, <<>>)

MatchMethod(routes, index, path) ==
  LET exact == IF path \in DOMAIN index.exact THEN index.exact[path] ELSE 0
      hits  == {i \in index.dynamicRoutes : Hit(routes[i], path)[1]}
      best  == Preferred(hits, exact)
  IN  CASE best = 0                -> Nothing
        [] best # 0 /\ best = exact -> Found(best, <<>>)
        [] OTHER                   -> Found(best, Hit(routes[best], path)[2])

FindRoute(routes, index, method, path) ==
  LET under(m) == IF m \in DOMAIN index THEN MatchMethod(routes, index[m], path) ELSE Nothing
  IN  IF method = "HEAD" /\ under(method) = Nothing THEN under("GET") ELSE under(method)

\* The search the index stands for: the first route of the method whose expression matches,
\* and for HEAD, when there is none, the first one of GET.
Scan(routes, method, path) ==
  LET first(m) == LET hits == {i \in DOMAIN routes :
                                 routes[i].method = m /\ MatchPath(routes[i].path, path)[1]}
                  IN  IF hits = {} THEN Nothing
                      ELSE Found(Min(hits), MatchPath(routes[Min(hits)].path, path)[2])
  IN  IF method = "HEAD" /\ first(method) = Nothing THEN first("GET") ELSE first(method)

\* What the index relies on, for one pattern and one path: a static pattern matches itself and
\* nothing else, and comparing segment by segment finds what the regular expression finds.
Agrees(pattern, path) ==
  /\ MatchPath(pattern, path)[1] \in BOOLEAN
  /\ IsStatic(pattern) => /\ MatchPath(pattern, path)[1] <=> path = pattern
                          /\ path = pattern => MatchPath(pattern, path)[2] = <<>>
  /\ ~IsStatic(pattern) /\ ~NeedsRegex(pattern) => MatchSegments(pattern, path) = MatchPath(pattern, path)
=============================================================================
