------------------------------ MODULE MCRouter ------------------------------
(***************************************************************************)
(* Router for TLC: patterns of every kind the route plan distinguishes,    *)
(* overlapping so that the order of registration decides.                  *)
(***************************************************************************)
EXTENDS Router

MCPlaceholder == {":id"}
MCMeta == {".json"}

Patterns ==
  {<<"/", "a">>, <<"/", "a", "/", "b">>, <<"/", ":id">>, <<"/", "a", "/", ":id">>,
   <<"/", "a", "/", ":id", ".json">>, <<"/", "a", ":id">>, <<"/", "a", "/", "*">>}
Paths ==
  {<<"/", "a">>, <<"/", "a", "/", "b">>, <<"/", "b">>, <<"/", "a", "/">>, <<"/", "a", "b">>,
   <<"/", "a", "/", "b", ".json">>, <<"/", "a", "/", "b", "/", "c">>}

GetRoutes == {[kind |-> "route", route |-> [method |-> "GET", path |-> p, handler |-> p]] : p \in Patterns}
HeadRoutes == {[kind |-> "route", route |-> [method |-> "HEAD", path |-> p, handler |-> <<"head">>]] :
                 p \in {<<"/", "a", "/", "b">>, <<"/", ":id">>}}
Others == {[kind |-> "middleware", middleware |-> [path |-> p, name |-> p]] : p \in {<<>>, <<"/", "a", "/", "*">>}}
          \cup {[kind |-> "notFound", handler |-> "mine"], [kind |-> "error", handler |-> "mine"]}

MCRegistrations == GetRoutes \cup HeadRoutes \cup Others
MCRequests == {[method |-> "HEAD", path |-> <<"/", "a", "/", "b">>]}
MCLookups == [method : {"GET"}, path : Paths]
             \cup [method : {"HEAD"}, path : {<<"/", "a", "/", "b">>, <<"/", "b">>, <<"/", "a", "b">>}]

\* A "*" before a placeholder.
StarRegistrations ==
  {[kind |-> "route", route |-> [method |-> "GET", path |-> <<"/", "*", "/", ":id">>, handler |-> "h"]]}
\* What the proof about the index assumes of the patterns, evaluated on these.
ASSUME MCPatternsAgree == PatternsAgree
=============================================================================
