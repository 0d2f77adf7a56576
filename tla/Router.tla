------------------------------- MODULE Router -------------------------------
(***************************************************************************)
(* RouterHandler: a table of routes, middlewares and two fallback handlers *)
(* that is never changed in place.  mutate() reads the current table,      *)
(* changes a copy and publishes it, in two atomic accesses; a request      *)
(* reads the table once and runs its middlewares and its handler from it.  *)
(* A middleware calls next() at most once, before it returns, and does     *)
(* nothing after it.                                                       *)
(***************************************************************************)
EXTENDS RouteMatch, Functions

CONSTANTS
  Registrar,       \* threads that register
  Server,          \* worker threads that handle requests
  Registrations,   \* what may be registered: [kind, ...], see Apply
  Requests,        \* the requests that arrive: [method, path]
  Lookups,         \* the [method, path] the index is tried with
  MaxRegistered,   \* bound: registrations in a behaviour
  NoTable

ASSUME RouterAssumption ==
  /\ \A reg \in Registrations :
       /\ reg.kind \in {"route", "middleware", "notFound", "error"}
       /\ reg.kind = "route" => reg.route.path \in Seq(STRING)
  /\ \A l \in Lookups : l.path \in Seq(STRING)

VARIABLES
  table,      \* table_: the published table
  copy,       \* per registrar: what it is about to publish, or NoTable
  returned,   \* the registrations that have returned, in order
  request,    \* per server: the request it handles, its snapshot and how far it is
  published   \* history: every table ever published

vars == <<table, copy, returned, request, published>>

FirstTable == [routes |-> <<>>, index |-> RebuildIndex(<<>>), middlewares |-> <<>>,
               notFoundHandler |-> "404", errorHandler |-> "500"]
Idle == [at |-> "idle"]

Init ==
  /\ table = FirstTable
  /\ copy = [t \in Registrar |-> NoTable]
  /\ returned = <<>>
  /\ request = [s \in Server |-> Idle]
  /\ published = {FirstTable}

----------------------------------------------------------------------------
(* Registration *)

\* What addRoute, addMiddleware, setNotFoundHandler and setErrorHandler do to the copy.
Changed(t, reg) ==
  CASE reg.kind = "route"      -> [t EXCEPT !.routes = Append(@, reg.route)]
    [] reg.kind = "middleware" -> [t EXCEPT !.middlewares = Append(@, reg.middleware)]
    [] reg.kind = "notFound"   -> [t EXCEPT !.notFoundHandler = reg.handler]
    [] reg.kind = "error"      -> [t EXCEPT !.errorHandler = reg.handler]
Indexed(t) == [t EXCEPT !.index = RebuildIndex(t.routes)]

Load(t) ==
  /\ copy[t] = NoTable
  /\ Len(returned) + Cardinality({u \in Registrar : copy[u] # NoTable}) < MaxRegistered
  /\ \E reg \in Registrations :
       copy' = [copy EXCEPT ![t] = [table |-> Indexed(Changed(table, reg)), reg |-> reg]]
  /\ UNCHANGED <<table, returned, request, published>>

Store(t) ==
  /\ copy[t] # NoTable
  /\ table' = copy[t].table
  /\ published' = published \cup {copy[t].table}
  /\ returned' = Append(returned, copy[t].reg)
  /\ copy' = [copy EXCEPT ![t] = NoTable]
  /\ UNCHANGED request

----------------------------------------------------------------------------
(* handleRequest *)

\* findMiddlewares: those that apply, each with its place among the registered ones.  One
\* registered without a path is for every request.
FindMiddlewares(t, path) ==
  {[place |-> i, middleware |-> t.middlewares[i]] : i \in
     {j \in DOMAIN t.middlewares :
        t.middlewares[j].path = <<>> \/ MatchPath(t.middlewares[j].path, path)[1]}}

Begin(s) ==
  /\ request[s].at = "idle"
  /\ \E r \in Requests :
       request' = [request EXCEPT ![s] =
         [at |-> "chain", method |-> r.method, path |-> r.path, snapshot |-> table,
          matched |-> FindMiddlewares(table, r.path), ran |-> <<>>, outcome |-> <<>>]]
  /\ UNCHANGED <<table, copy, returned, published>>

Finish(r, outcome) == [r EXCEPT !.at = "done", !.outcome = outcome]

\* One link of the chain, the first that has not run: the middleware calls next(), answers
\* itself, or throws.
Left(r) == r.matched \ Range(r.ran)
RunMiddleware(s) ==
  LET r == request[s]
  IN  /\ r.at = "chain"
      /\ \E m \in Left(r) :
           /\ \A other \in Left(r) : m.place <= other.place
           /\ LET after == [r EXCEPT !.ran = Append(@, m)]
              IN  \/ request' = [request EXCEPT ![s] = after]
                  \/ request' = [request EXCEPT ![s] = Finish(after, <<"answered">>)]
                  \/ request' = [request EXCEPT ![s] = Finish(after, <<"error", r.snapshot.errorHandler>>)]
      /\ UNCHANGED <<table, copy, returned, published>>

\* A bug to catch: the route is looked up in the table of the moment.
CurrentTable(r) == table
TableOf(r) == r.snapshot

\* dispatchRoute: the handler of the route, or the fallback.
Target(t, r) ==
  LET found == FindRoute(t.routes, t.index, r.method, r.path)
  IN  IF found.route = 0 THEN <<"notFound", t.notFoundHandler>>
      ELSE <<"handler", t.routes[found.route].handler, found.params>>

DispatchRoute(s) ==
  LET r == request[s]
  IN  /\ r.at = "chain" /\ Left(r) = {}
      /\ \/ request' = [request EXCEPT ![s] = Finish(r, Target(TableOf(r), r))]
         \/ request' = [request EXCEPT ![s] = Finish(r, <<"error", r.snapshot.errorHandler>>)]
      /\ UNCHANGED <<table, copy, returned, published>>

Return(s) ==
  /\ request[s].at = "done"
  /\ request' = [request EXCEPT ![s] = Idle]
  /\ UNCHANGED <<table, copy, returned, published>>

Next ==
  \/ \E t \in Registrar : Load(t) \/ Store(t)
  \/ \E s \in Server : Begin(s) \/ RunMiddleware(s) \/ DispatchRoute(s) \/ Return(s)

Spec == Init /\ [][Next]_vars

----------------------------------------------------------------------------
(* What must hold *)

\* RouterHandler.h:25 and :119: the index and the segment-wise comparison find the route, with
\* the parameters, that trying each route's regular expression in the order of registration
\* finds, and HEAD falls back to GET only when HEAD has no route.
FindsWhatScanFinds ==
  \A l \in Lookups :
    FindRoute(table.routes, table.index, l.method, l.path) = Scan(table.routes, l.method, l.path)

\* The same of single patterns, where no index is needed.
PatternsAgree ==
  \A reg \in Registrations, l \in Lookups :
    reg.kind = "route" => Agrees(reg.route.path, l.path)

\* A request sees one table: the middlewares it ran, each once and in the order of their
\* registration, and the handler it reached are the ones of a table that was published,
\* whatever is registered meanwhile (handleRequest).
InTurn(ran, own) ==
  /\ Range(ran) \subseteq own
  /\ \A i \in DOMAIN ran : {m \in own : m.place < ran[i].place} = {ran[j] : j \in 1..(i - 1)}
SeesOne(t, r) ==
  LET own == FindMiddlewares(t, r.path)
  IN  /\ InTurn(r.ran, own)
      /\ \/ r.outcome = <<"answered">>
         \/ r.outcome = <<"error", t.errorHandler>>
         \/ r.outcome = Target(t, r) /\ Range(r.ran) = own
OneTable ==
  \A s \in Server : request[s].at = "done" => \E t \in published : SeesOne(t, request[s])

\* What has been registered is in the table, in the order in which the calls returned.
Registered(kind) == SelectSeq(returned, LAMBDA reg : reg.kind = kind)
NothingLost ==
  /\ table.routes = [i \in DOMAIN Registered("route") |-> Registered("route")[i].route]
  /\ table.middlewares = [i \in DOMAIN Registered("middleware") |-> Registered("middleware")[i].middleware]

\* A parameter's value is what its own placeholder stood for: between the pieces of the
\* pattern before it and after it, and never what a "*" stood for (README.md:297).
ParamsMean ==
  \A l \in Lookups :
    LET found == FindRoute(table.routes, table.index, l.method, l.path)
    IN  found.route # 0 =>
          \A name \in DOMAIN found.params :
            \A i \in DOMAIN found.params[name] : found.params[name][i] # "/"
=============================================================================
