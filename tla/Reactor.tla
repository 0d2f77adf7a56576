------------------------------ MODULE Reactor ------------------------------
(***************************************************************************)
(* http::HttpServer in service: the main reactor thread that accepts, the  *)
(* sub reactor threads that own the connections (EPOLLET | EPOLLONESHOT),  *)
(* and the worker threads that run the requests and hand the responses     *)
(* back through pendingResponses and an eventfd.                           *)
(*                                                                         *)
(* A connection is named by its generation (net::nextConnectionGeneration).*)
(* The code's tables are indexed by fd, and an fd number is reused as soon *)
(* as it is closed, so every lookup below goes through the fd, as in the   *)
(* code.  A step is a piece of a handler between two points where another  *)
(* thread's work can make a difference.                                    *)
(*                                                                         *)
(* Bytes are abstracted to tokens of the request stream: a complete        *)
(* request that keeps or closes the connection, a first part of a request  *)
(* that the next token completes, and bytes the parser rejects.            *)
(***************************************************************************)
EXTENDS Integers, Sequences, FiniteSets

CONSTANTS
  SubReactorCount, \* subReactorCount_
  Fd,              \* fd numbers the kernel can hand out
  MaxGen,          \* bound: connections accepted
  Token,           \* kinds of input a client sends
  MaxTokens,       \* bound: tokens a client sends on one connection
  MaxRequest,      \* values of maxRequestBytes_, in tokens
  MaxConnections,  \* values of maxConnections_ (0: no limit)
  IdleTimeout      \* values of idleTimeoutSec_ > 0

Sub == 0..(SubReactorCount - 1)
Gen == 1..MaxGen
Kind == {"keep", "close", "part", "bad"}

ASSUME ReactorAssumption ==
  /\ SubReactorCount \in Nat /\ SubReactorCount # 0
  /\ \A fd \in Fd : fd \in Nat /\ fd # 0
  /\ MaxGen \in Nat
  /\ Token \subseteq Kind
  /\ MaxTokens \in Nat
  /\ MaxRequest \subseteq Nat \ {0}      \* setMaxRequestBytes
  /\ MaxConnections \subseteq Nat
  /\ IdleTimeout \subseteq BOOLEAN

VARIABLES
  config,             \* what the setters have fixed before start()
  conn,               \* per generation: the socket, its HttpContext, its client
  conns,              \* conns_: fd -> generation, owner, context
  contexts,           \* SubReactor::contexts: per reactor, fd -> generation (0: none)
  pendingResponses,   \* SubReactor::pendingResponses
  wakeFd,             \* SubReactor::wakeFd has been written
  batch,              \* events of the last epoll_wait not yet handled
  items,              \* handleWake: responses taken and not yet written
  half,               \* the handler that is half done: an ERR/HUP event, handleWake
  tasks,              \* request tasks in the thread pool
  acceptor,           \* handleAccept: step and the connection it is registering
  nextGen,            \* nextConnectionGeneration()
  nextSubReactor,     \* nextSubReactor_, modulo the number of reactors
  activeConnections,  \* stats_.activeConnections (below zero: wrapped around)
  misfired            \* history: an ERR/HUP event closed another connection

vars == <<config, conn, conns, contexts, pendingResponses, wakeFd, batch, items, half,
          tasks, acceptor, nextGen, nextSubReactor, activeConnections, misfired>>

Config == [maxRequest : MaxRequest, limit : MaxConnections, timed : IdleTimeout]

NoResponse == [gen |-> 0, req |-> 0]
Whole == [fd |-> 0, gen |-> 0]      \* half: nothing is half done
Emptied == [fd |-> 0, gen |-> 1]    \* half: handleWake has read the eventfd
Idle == [pc |-> "accept", gen |-> 0]
Wake == [gen |-> 0, io |-> "wake", hup |-> FALSE]
Timer == [gen |-> 0, io |-> "timer", hup |-> FALSE]

(***************************************************************************)
(* A connection: fd and sub are fixed when it is registered; peer, rx,     *)
(* asked and strict describe the client's side; armed is the epoll         *)
(* interest; the rest is HttpContext.  dispatched numbers the requests,    *)
(* answered lists the responses that reached the client, mute says that a  *)
(* handler ended without producing one.                                    *)
(***************************************************************************)
Unused == [fd |-> 0, sub |-> 0, peer |-> "none", rx |-> <<>>, asked |-> 0,
           tokens |-> 0, strict |-> TRUE, armed |-> "off", buf |-> <<>>,
           inFlight |-> 0, resp |-> NoResponse, keep |-> FALSE, idle |-> FALSE,
           slow |-> FALSE, dispatched |-> 0, answered |-> <<>>, mute |-> FALSE]

Open(o) == o.peer \in {"open", "fin", "reset"}
FreeFds == {fd \in Fd : \A g \in Gen : Open(conn[g]) => conn[g].fd # fd}

Init ==
  /\ config \in Config
  /\ conn = [g \in Gen |-> Unused]
  /\ conns = [fd \in Fd |-> [generation |-> 0, owner |-> 0, context |-> FALSE]]
  /\ contexts = [r \in Sub |-> [fd \in Fd |-> 0]]
  /\ pendingResponses = [r \in Sub |-> {}]
  /\ wakeFd = [r \in Sub |-> FALSE]
  /\ batch = [r \in Sub |-> {}]
  /\ items = [r \in Sub |-> {}]
  /\ half = [r \in Sub |-> Whole]
  /\ tasks = {}
  /\ acceptor = Idle
  /\ nextGen = 1
  /\ nextSubReactor = 0
  /\ activeConnections = 0
  /\ misfired = FALSE

-----------------------------------------------------------------------------
(***************************************************************************)
(* The handlers of one connection as functions of its state.  The result   *)
(* is the new state, the request handed to the pool (if any) and whether   *)
(* the handler ends in closeConnection.                                    *)
(***************************************************************************)
Plain(o) == [o |-> o, job |-> "none", shut |-> FALSE]
Shut(o) == [o |-> o, job |-> "none", shut |-> TRUE]
Arm(o, io) == [o EXCEPT !.armed = io]

\* enqueueRequestTask: the in-flight count goes up before the pool sees the task.
Enqueue(o, kind) ==
  [o |-> [o EXCEPT !.inFlight = @ + 1, !.dispatched = @ + 1],
   job |-> kind, shut |-> FALSE]

\* The request at the front of the buffer ends with token number Ends(b).
EndsAtOnce(b) == 1                  \* variant: a first part passes for a request
Ends(b) == IF b[1] = "part" THEN 2 ELSE 1
Incomplete(b) == Len(b) < Ends(b)

Unarmed(o) == Plain(o)              \* variant: ONESHOT is not armed again
AwaitMore(o) == Plain(Arm(o, "in"))

ReadTwice(b) == b                   \* variant: consumeData is forgotten
Rest(b) == SubSeq(b, Ends(b) + 1, Len(b))

\* dispatchBufferedRequests.  What the parser rejects stays in the buffer: the
\* response to it is final and closes the connection.
Dispatch(o) ==
  IF o.resp # NoResponse THEN Plain(o)
  ELSE IF o.buf = <<>> \/ Incomplete(o.buf) THEN AwaitMore(o)
  ELSE IF o.buf[Ends(o.buf)] = "bad" THEN Enqueue(o, "bad")
  ELSE Enqueue([o EXCEPT !.buf = Rest(@)], o.buf[Ends(o.buf)])

EndFirst(o) == o.peer # "open"      \* variant: EOF wins over the bytes before it
SawEnd(o) == o.rx = <<>> /\ o.peer # "open"

\* handleRead, with readAllData: everything the socket holds is appended, and an
\* end of stream met after some bytes is left for the next read event.
Read(o) ==
  IF SawEnd(o) THEN Shut(o)
  ELSE IF o.rx = <<>> THEN AwaitMore(o)
  ELSE LET p == [o EXCEPT !.buf = @ \o o.rx, !.rx = <<>>, !.idle = FALSE,
                          !.slow = IF o.buf = <<>> THEN FALSE ELSE @]
       IN IF Len(p.buf) > config.maxRequest THEN Enqueue(p, "bad") ELSE Dispatch(p)

\* writeCurrentResponse when the last byte has been sent: the read side is armed
\* first, then a request already in the buffer is dispatched.
Sent(o) ==
  LET p == [o EXCEPT !.answered = Append(@, o.resp), !.resp = NoResponse]
      q == Arm([p EXCEPT !.idle = FALSE], "in")
  IN IF ~o.keep THEN Shut(p)
     ELSE IF q.buf # <<>> THEN Dispatch(q) ELSE Plain(q)

\* A write to a reset socket fails; otherwise it completes, or part of the
\* response stays unsent and EPOLLOUT is armed.
WriteOutcomes(o) ==
  IF o.peer = "reset" THEN {Shut(o)} ELSE {Sent(o), Plain(Arm(o, "out"))}

-----------------------------------------------------------------------------
(***************************************************************************)
(* closeConnectionId on a set of connections: only those the table conns_  *)
(* still names are closed; their fds leave every table, and responses      *)
(* waiting for these fds are dropped.  c is the connection state the       *)
(* handler has computed so far.                                            *)
(***************************************************************************)
Closed(o) == [o EXCEPT !.peer = "closed", !.armed = "off", !.rx = <<>>, !.buf = <<>>,
                       !.inFlight = 0, !.resp = NoResponse, !.keep = FALSE,
                       !.idle = FALSE, !.slow = FALSE]

Current(g) == LET fd == conn[g].fd
              IN conns[fd].context /\ conns[fd].generation = g

NoRelease(D) == activeConnections   \* variant: the count is not taken down
Release(D) == activeConnections - Cardinality(D)

CloseAll(S, c) ==
  LET D == {g \in S : Current(g)}
      Gone(r, fd) == \E g \in D : conn[g].sub = r /\ conn[g].fd = fd
  IN /\ conn' = [g \in Gen |-> IF g \in D THEN Closed(c[g]) ELSE c[g]]
     /\ conns' = [fd \in Fd |->
                    IF \E g \in D : conn[g].fd = fd
                    THEN [conns[fd] EXCEPT !.context = FALSE] ELSE conns[fd]]
     /\ contexts' = [r \in Sub |-> [fd \in Fd |->
                       IF Gone(r, fd) THEN 0 ELSE contexts[r][fd]]]
     /\ pendingResponses' = [r \in Sub |->
                       {p \in pendingResponses[r] : ~Gone(r, conn[p.gen].fd)}]
     /\ activeConnections' = Release(D)

\* What a handler of connection g does to the server.
Effect(g, e) ==
  /\ tasks' = IF e.job = "none" THEN tasks
              ELSE tasks \cup {[gen |-> g, req |-> e.o.dispatched,
                                kind |-> e.job, phase |-> "queued"]}
  /\ IF e.shut
     THEN CloseAll({g}, [conn EXCEPT ![g] = e.o])
     ELSE /\ conn' = [conn EXCEPT ![g] = e.o]
          /\ UNCHANGED <<conns, contexts, pendingResponses, activeConnections>>

\* ownsConnection
Owns(r, g) ==
  LET fd == conn[g].fd
  IN conns[fd].context /\ conns[fd].owner = r /\ conns[fd].generation = g

-----------------------------------------------------------------------------
(***************************************************************************)
(* Main reactor: handleAccept.  A connection refused by the limit leaves   *)
(* no trace.                                                               *)
(***************************************************************************)
Full == config.limit > 0
          /\ (activeConnections < 0 \/ activeConnections >= config.limit)

\* accept4, the choice of a sub reactor, dropPendingResponses, registerConnection
Accept(fd) ==
  /\ acceptor.pc = "accept"
  /\ nextGen <= MaxGen
  /\ fd \in FreeFds
  /\ ~Full
  /\ LET r == nextSubReactor IN
     /\ conn' = [conn EXCEPT ![nextGen] =
                   [Unused EXCEPT !.peer = "open", !.fd = fd, !.sub = r]]
     /\ conns' = [conns EXCEPT ![fd] =
                   [generation |-> nextGen, owner |-> r, context |-> TRUE]]
     /\ pendingResponses' = [pendingResponses EXCEPT ![r] =
                   {p \in @ : conn[p.gen].fd # fd}]
  /\ acceptor' = [pc |-> "insert", gen |-> nextGen]
  /\ nextGen' = nextGen + 1
  /\ nextSubReactor' = (nextSubReactor + 1) % SubReactorCount
  /\ UNCHANGED <<config, contexts, wakeFd, batch, items, half, tasks, activeConnections,
                 misfired>>

\* sr->contexts[clientFd] = std::move(ctx)
InsertContext ==
  /\ acceptor.pc = "insert"
  /\ LET o == conn[acceptor.gen]
     IN contexts' = [contexts EXCEPT ![o.sub][o.fd] = acceptor.gen]
  /\ acceptor' = [acceptor EXCEPT !.pc = "add"]
  /\ UNCHANGED <<config, conn, conns, pendingResponses, wakeFd, batch, items, half, tasks,
                 nextGen, nextSubReactor, activeConnections, misfired>>

\* epoll_ctl(EPOLL_CTL_ADD) of an fd that is still open
AddToEpoll ==
  /\ acceptor.pc = "add"
  /\ Open(conn[acceptor.gen])
  /\ conn' = [conn EXCEPT ![acceptor.gen].armed = "in"]
  /\ acceptor' = [acceptor EXCEPT !.pc = "count"]
  /\ UNCHANGED <<config, conns, contexts, pendingResponses, wakeFd, batch, items, half,
                 tasks, nextGen, nextSubReactor, activeConnections, misfired>>

NoRollback(r, fd) == contexts       \* variant: the context stays in the table
Rollback(r, fd) == [contexts EXCEPT ![r][fd] = 0]

\* It fails (it must, when the fd has been closed meanwhile): roll back, close.
AddFails ==
  /\ acceptor.pc = "add"
  /\ LET o == conn[acceptor.gen] IN
     /\ contexts' = Rollback(o.sub, o.fd)
     /\ conns' = [conns EXCEPT ![o.fd] =
                    [generation |-> 0, owner |-> 0, context |-> FALSE]]
     /\ conn' = [conn EXCEPT ![acceptor.gen] = Closed(o)]
  /\ acceptor' = Idle
  /\ UNCHANGED <<config, pendingResponses, wakeFd, batch, items, half, tasks,
                 nextGen, nextSubReactor, activeConnections, misfired>>

CountConnection ==
  /\ acceptor.pc = "count"
  /\ activeConnections' = activeConnections + 1
  /\ acceptor' = Idle
  /\ UNCHANGED <<config, conn, conns, contexts, pendingResponses, wakeFd, batch, items,
                 half, tasks, nextGen, nextSubReactor, misfired>>

MainStep == InsertContext \/ AddToEpoll \/ AddFails \/ CountConnection

accepting == <<config, acceptor, nextGen, nextSubReactor>>

-----------------------------------------------------------------------------
(***************************************************************************)
(* Sub reactor: subReactorLoop.  The events of one epoll_wait may be       *)
(* handled in any order.  EPOLLOUT is reported whether or not the socket   *)
(* can take more bytes: the write that follows may stay incomplete.        *)
(***************************************************************************)
Ready(r) ==
  {g \in Gen : /\ Open(conn[g]) /\ conn[g].sub = r
               /\ \/ conn[g].armed = "in" /\ (conn[g].rx # <<>> \/ conn[g].peer # "open")
                  \/ conn[g].armed = "out"}

EventOf(g) == [gen |-> g, io |-> conn[g].armed, hup |-> conn[g].peer = "reset"]

Resting(r) == batch[r] = {} /\ items[r] = {} /\ half[r] = Whole

\* epoll_wait returns; ONESHOT disarms every connection it reports.
Poll(r, timers) ==
  /\ Resting(r)
  /\ batch' = [batch EXCEPT ![r] = {EventOf(g) : g \in Ready(r)} \cup timers
                                     \cup (IF wakeFd[r] THEN {Wake} ELSE {})]
  /\ batch'[r] # {}
  /\ conn' = [g \in Gen |-> IF g \in Ready(r) THEN Arm(conn[g], "off") ELSE conn[g]]
  /\ UNCHANGED <<conns, contexts, pendingResponses, wakeFd, items, half, tasks,
                 activeConnections, misfired, accepting>>

PollTimer(r) == Poll(r, {Timer})

\* The next event of the batch, while no other handler is half done.
Take(r, e) ==
  /\ e \in batch[r]
  /\ items[r] = {}
  /\ half[r] = Whole
  /\ batch' = [batch EXCEPT ![r] = @ \ {e}]

\* The fd of the event has no connection here, or another one than the event's.
DropEvent(r, e) ==
  /\ Take(r, e)
  /\ e.io \in {"in", "out"}
  /\ ~Owns(r, e.gen)
  /\ UNCHANGED <<conn, conns, contexts, pendingResponses, wakeFd, items, half, tasks,
                 activeConnections, misfired, accepting>>

\* EPOLLIN: handleRead
HandleRead(r, e) ==
  /\ Take(r, e)
  /\ e.io = "in" /\ ~e.hup
  /\ Owns(r, e.gen)
  /\ LET g == contexts[r][conn[e.gen].fd] IN Effect(g, Read(conn[g]))
  /\ UNCHANGED <<wakeFd, items, half, misfired, accepting>>

\* EPOLLOUT: handleWrite
HandleWrite(r, e) ==
  /\ Take(r, e)
  /\ e.io = "out" /\ ~e.hup
  /\ Owns(r, e.gen)
  /\ LET g == contexts[r][conn[e.gen].fd]
         o == conn[g]
     IN IF o.resp = NoResponse
        THEN Effect(g, AwaitMore(o))
        ELSE \E e2 \in WriteOutcomes(o) : Effect(g, e2)
  /\ UNCHANGED <<wakeFd, items, half, misfired, accepting>>

\* EPOLLERR / EPOLLHUP: what can be read is read first ...
HandleHup(r, e) ==
  /\ Take(r, e)
  /\ e.hup
  /\ Owns(r, e.gen)
  /\ LET g == contexts[r][conn[e.gen].fd]
     IN IF e.io = "in" THEN Effect(g, Read(conn[g]))
        ELSE UNCHANGED <<conn, conns, contexts, pendingResponses, tasks, activeConnections>>
  /\ half' = [half EXCEPT ![r] = [fd |-> conn[e.gen].fd, gen |-> e.gen]]
  /\ UNCHANGED <<wakeFd, items, misfired, accepting>>

\* ... then the connection is looked up again, by fd, and closed by fd unless a
\* request is in flight or a response is being written.
FinishHup(r) ==
  /\ half[r].fd # 0
  /\ LET g == contexts[r][half[r].fd] IN
     IF g = 0 \/ conn[g].inFlight > 0 \/ conn[g].resp # NoResponse
     THEN UNCHANGED <<conn, conns, contexts, pendingResponses, activeConnections, misfired>>
     ELSE /\ CloseAll({g}, conn)
          /\ misfired' = (misfired \/ g # half[r].gen)
  /\ half' = [half EXCEPT ![r] = Whole]
  /\ UNCHANGED <<wakeFd, batch, items, tasks, accepting>>

\* handleTimer: lastActive, or the start of a partial request, is too old.
IdleAnyway(o) ==                    \* variant: requests in flight are not looked at
  o.idle \/ (o.buf # <<>> /\ o.slow)
UnsentSpared(o) ==                  \* variant: a response being written is skipped
  o.inFlight = 0 /\ o.resp = NoResponse /\ (o.idle \/ (o.buf # <<>> /\ o.slow))
Stale(o) == o.inFlight = 0 /\ (o.idle \/ (o.buf # <<>> /\ o.slow))

HandleTimer(r, e) ==
  /\ Take(r, e)
  /\ e = Timer
  /\ LET found == {g \in {contexts[r][fd] : fd \in Fd} \ {0} : Stale(conn[g])}
     IN CloseAll(IF config.timed THEN found ELSE {}, conn)
  /\ UNCHANGED <<wakeFd, items, half, tasks, misfired, accepting>>

\* handleWake: read the eventfd ...
HandleWake(r, e) ==
  /\ Take(r, e)
  /\ e = Wake
  /\ wakeFd' = [wakeFd EXCEPT ![r] = FALSE]
  /\ half' = [half EXCEPT ![r] = Emptied]
  /\ UNCHANGED <<conn, conns, contexts, pendingResponses, items, tasks,
                 activeConnections, misfired, accepting>>

\* ... take every waiting response ...
TakeResponses(r) ==
  /\ half[r] = Emptied
  /\ half' = [half EXCEPT ![r] = Whole]
  /\ items' = [items EXCEPT ![r] = pendingResponses[r]]
  /\ pendingResponses' = [pendingResponses EXCEPT ![r] = {}]
  /\ UNCHANGED <<conn, conns, contexts, wakeFd, batch, tasks, activeConnections,
                 misfired, accepting>>

AnyContext(r, g) ==                 \* variant: whatever connection has the fd now
  contexts[r][conn[g].fd] # 0
Deliverable(r, g) == Owns(r, g) /\ contexts[r][conn[g].fd] = g

\* ... then write each to its connection, if that is still the one it is for.
Deliver(r, i) ==
  /\ i \in items[r]
  /\ items' = [items EXCEPT ![r] = @ \ {i}]
  /\ LET g == contexts[r][conn[i.gen].fd]
     IN IF Deliverable(r, i.gen)
        THEN \E e \in WriteOutcomes([conn[g] EXCEPT !.keep = i.keep,
                                       !.resp = [gen |-> i.gen, req |-> i.req]]) :
               Effect(g, e)
        ELSE UNCHANGED <<conn, conns, contexts, pendingResponses, tasks, activeConnections>>
  /\ UNCHANGED <<wakeFd, batch, half, misfired, accepting>>

HandleEvent(r) ==
  \/ \E e \in batch[r] : \/ DropEvent(r, e) \/ HandleRead(r, e) \/ HandleWrite(r, e)
                         \/ HandleHup(r, e) \/ HandleTimer(r, e) \/ HandleWake(r, e)
  \/ FinishHup(r) \/ TakeResponses(r)
  \/ \E i \in items[r] : Deliver(r, i)

SubStep(r) == HandleEvent(r) \/ Poll(r, {}) \/ PollTimer(r)

-----------------------------------------------------------------------------
(***************************************************************************)
(* Workers.  The pool (ThreadPool.tla) may run any accepted task, and      *)
(* several at once.                                                        *)
(***************************************************************************)

\* processHttpRequest: the handler returns (ok) or throws a std::exception.  Only
\* a keep-alive request whose handler returned keeps the connection.
\* notifyConnectionReady queues the response at the connection's reactor ...
Respond(t, ok) ==
  /\ t.phase = "queued"
  /\ pendingResponses' = [pendingResponses EXCEPT ![conn[t.gen].sub] = @ \cup
          {[gen |-> t.gen, req |-> t.req, keep |-> ok /\ t.kind = "keep"]}]
  /\ tasks' = (tasks \ {t}) \cup {[t EXCEPT !.phase = "posted"]}
  /\ UNCHANGED <<conn, conns, contexts, wakeFd, batch, items, half, activeConnections,
                 misfired, accepting>>

NoSignal(r) == wakeFd               \* variant: nothing is written to the eventfd
Signal(r) == [wakeFd EXCEPT ![r] = TRUE]

\* ... and writes the reactor's eventfd.
Notify(t) ==
  /\ t.phase = "posted"
  /\ wakeFd' = Signal(conn[t.gen].sub)
  /\ tasks' = (tasks \ {t}) \cup {[t EXCEPT !.phase = "done"]}
  /\ UNCHANGED <<conn, conns, contexts, pendingResponses, batch, items, half,
                 activeConnections, misfired, accepting>>

\* The handler throws something else: caught around execute(), no response.
ThrowForeign(t) ==
  /\ t.phase = "queued" /\ t.kind # "bad"
  /\ conn' = [conn EXCEPT ![t.gen].mute = TRUE]
  /\ tasks' = (tasks \ {t}) \cup {[t EXCEPT !.phase = "done"]}
  /\ UNCHANGED <<conns, contexts, pendingResponses, wakeFd, batch, items, half,
                 activeConnections, misfired, accepting>>

\* markInFlight(.., false): only if the connection is still there
Leave(t) ==
  /\ t.phase = "done"
  /\ tasks' = tasks \ {t}
  /\ LET o == conn[t.gen] IN
     conn' = IF contexts[o.sub][o.fd] = t.gen /\ o.inFlight > 0
             THEN [conn EXCEPT ![t.gen].inFlight = @ - 1] ELSE conn
  /\ UNCHANGED <<conns, contexts, pendingResponses, wakeFd, batch, items, half,
                 activeConnections, misfired, accepting>>

WorkerStep(t) ==
  \/ Respond(t, TRUE) \/ Respond(t, FALSE) \/ Notify(t)
  \/ ThrowForeign(t) \/ Leave(t)

-----------------------------------------------------------------------------
(* Clients and time. *)

server == <<conns, contexts, pendingResponses, wakeFd, batch, items, half, tasks,
            activeConnections, misfired, accepting>>

Partial(g) == LET s == conn[g].buf \o conn[g].rx
              IN s # <<>> /\ s[Len(s)] = "part"

\* strict: no request is sent before the previous one has been answered.
Send(g, k) ==
  /\ conn[g].peer = "open"
  /\ conn[g].tokens < MaxTokens
  /\ ~(k = "part" /\ Partial(g))
  /\ conn' = [conn EXCEPT ![g] =
       [conn[g] EXCEPT !.rx = Append(@, k), !.tokens = @ + 1,
                       !.asked = IF k = "part" THEN @ ELSE @ + 1,
                       !.strict = @ /\ conn[g].asked = Len(conn[g].answered)]]
  /\ UNCHANGED server

\* shutdown(SHUT_WR), or close after reading everything
Finish(g) ==
  /\ conn[g].peer = "open"
  /\ conn' = [conn EXCEPT ![g].peer = "fin"]
  /\ UNCHANGED server

Reset(g) ==
  /\ conn[g].peer \in {"open", "fin"}
  /\ conn' = [conn EXCEPT ![g].peer = "reset"]
  /\ UNCHANGED server

\* idleTimeoutSec_ go by without I/O on the connection (handleAccept needs less
\* than that to register it) ...
Elapse(g) ==
  /\ config.timed /\ Open(conn[g]) /\ ~conn[g].idle /\ acceptor.gen # g
  /\ conn' = [conn EXCEPT ![g].idle = TRUE]
  /\ UNCHANGED server

\* ... or since the first byte of the buffered request.
Drag(g) ==
  /\ config.timed /\ Open(conn[g]) /\ conn[g].buf # <<>> /\ ~conn[g].slow
  /\ conn' = [conn EXCEPT ![g].slow = TRUE]
  /\ UNCHANGED server

ClientStep(g) ==
  \/ \E k \in Token : Send(g, k)
  \/ Finish(g) \/ Reset(g) \/ Elapse(g) \/ Drag(g)

Next ==
  \/ \E fd \in Fd : Accept(fd)
  \/ MainStep
  \/ \E r \in Sub : SubStep(r)
  \/ \E t \in tasks : WorkerStep(t)
  \/ \E g \in Gen : ClientStep(g)

Spec == Init /\ [][Next]_vars

(***************************************************************************)
(* Fairness.  No thread stops for ever inside a handler, tasks are run by  *)
(* the pool, the timerfd expires again and again, and time passes.  A      *)
(* client that keeps reading empties the socket buffer, so a write that is *)
(* tried again and again succeeds.  Clients owe nothing else.              *)
(***************************************************************************)
Written(g) == Len(conn'[g].answered) > Len(conn[g].answered)

FairSpec ==
  /\ Spec
  /\ WF_vars(MainStep)
  /\ \A r \in Sub :
       /\ WF_vars(HandleEvent(r) \/ Poll(r, {}))
       /\ SF_vars(PollTimer(r))
       /\ \A g \in Gen : SF_vars(HandleEvent(r) /\ Written(g))
  /\ \A g \in Gen : /\ WF_vars(\E t \in tasks : t.gen = g /\ WorkerStep(t))
                   /\ WF_vars(Elapse(g))

-----------------------------------------------------------------------------
(* Properties *)

Response == [gen : Gen, req : Nat \ {0}]
Request == [gen : Gen, req : Nat \ {0}, keep : BOOLEAN]

Connection ==
  [fd : Fd \cup {0}, sub : Sub, peer : {"none", "open", "fin", "reset", "closed"},
   rx : Seq(Token), asked : Nat, tokens : Nat, strict : BOOLEAN,
   armed : {"off", "in", "out"}, buf : Seq(Token), inFlight : Nat,
   resp : Response \cup {NoResponse}, keep : BOOLEAN, idle : BOOLEAN,
   slow : BOOLEAN, dispatched : Nat, answered : Seq(Response), mute : BOOLEAN]

Event == [gen : Gen, io : {"in", "out"}, hup : BOOLEAN] \cup {Wake, Timer}

Job == [gen : Gen, req : Nat \ {0}, kind : {"keep", "close", "bad"},
        phase : {"queued", "posted", "done"}]

\* Types.  The generations used so far are exactly those with a socket.
TypeOK ==
  /\ config \in Config
  /\ conn \in [Gen -> Connection]
  /\ conns \in [Fd -> [generation : Gen \cup {0}, owner : Sub, context : BOOLEAN]]
  /\ contexts \in [Sub -> [Fd -> Gen \cup {0}]]
  /\ pendingResponses \in [Sub -> SUBSET Request]
  /\ wakeFd \in [Sub -> BOOLEAN]
  /\ batch \in [Sub -> SUBSET Event]
  /\ items \in [Sub -> SUBSET Request]
  /\ half \in [Sub -> [fd : Fd, gen : Gen] \cup {Whole, Emptied}]
  /\ tasks \in SUBSET Job
  /\ acceptor \in [pc : {"accept", "insert", "add", "count"}, gen : Gen \cup {0}]
  /\ nextGen \in 1..(MaxGen + 1) /\ nextSubReactor \in Sub
  /\ activeConnections \in Int /\ misfired \in BOOLEAN
  /\ \A g \in Gen : conn[g].peer = "none" <=> g >= nextGen

\* A response that reaches a client answers a request of that client, whatever
\* has happened meanwhile to the fd number both connections used (handleWake).
NoCrossTalk ==
  \A g \in Gen : \A i \in 1..Len(conn[g].answered) : conn[g].answered[i].gen = g

\* conns_ and the reactors' tables tell the same story: a context belongs to the
\* open connection that conns_ records for its fd, and every open socket has its
\* record, and its context once handleAccept has inserted it (no fd is leaked).
TablesAgree ==
  /\ \A r \in Sub : \A fd \in Fd :
       LET g == contexts[r][fd]
       IN g # 0 => /\ conns[fd] = [generation |-> g, owner |-> r, context |-> TRUE]
                   /\ Open(conn[g]) /\ conn[g].fd = fd /\ conn[g].sub = r
  /\ \A g \in Gen : Open(conn[g]) =>
       /\ Current(g)
       /\ \/ contexts[conn[g].sub][conn[g].fd] = g
          \/ acceptor = [pc |-> "insert", gen |-> g]

\* A client that waits for each answer gets one answer per request, in order, on
\* whatever mixture of whole, split and oversized requests it sends.
StrictInOrder ==
  \A g \in Gen : conn[g].strict =>
    /\ Len(conn[g].answered) <= conn[g].asked
    /\ \A i \in 1..Len(conn[g].answered) : conn[g].answered[i].req = i

\* The eventfd of reactor r will still wake it for what is queued there.
WillWake(r, g) ==
  \/ wakeFd[r] \/ Wake \in batch[r] \/ half[r] = Emptied
  \/ \E t \in tasks : t.gen = g /\ t.phase = "posted"

\* No connection is forgotten: something is still on its way that arms its epoll
\* interest again (EPOLLONESHOT), closes it or answers it.  Excepted are reset
\* connections and those whose handler ended without a response.
NotStranded ==
  \A r \in Sub : \A fd \in Fd :
    LET g == contexts[r][fd]
        o == conn[g]
    IN /\ g # 0 /\ acceptor # [pc |-> "add", gen |-> g]
       /\ o.peer \in {"open", "fin"} /\ ~o.mute
       =>
         \/ o.armed # "off"
         \/ \E e \in batch[r] : e.gen = g
         \/ \E t \in tasks : t.gen = g /\ t.phase = "queued"
         \/ (\E p \in pendingResponses[r] : p.gen = g) /\ WillWake(r, g)
         \/ \E i \in items[r] : i.gen = g

\* stats_.activeConnections counts the registered connections but the one being
\* accepted, and maxConnections_ is never exceeded: for as long as no ERR/HUP
\* event has closed a connection it was not for.
ActiveExact ==
  ~misfired =>
    /\ activeConnections = Cardinality({fd \in Fd : conns[fd].context})
                             - (IF acceptor = Idle THEN 0 ELSE 1)
    /\ config.limit > 0 =>
         Cardinality({g \in Gen : Open(conn[g])}) <= config.limit

Closes(g) == Open(conn[g]) /\ conn'[g].peer = "closed"
TimerStep == \E r \in Sub : Timer \in batch[r] /\ Timer \notin batch'[r]
HupStep == \E r \in Sub : half[r].fd # 0 /\ half'[r] = Whole

\* The idle timer never closes a connection one of whose requests is queued in
\* the pool or being run (H4).
TimerSparesRunning ==
  [][\A g \in Gen : TimerStep /\ Closes(g) => ~\E t \in tasks : t.gen = g]_vars

\* A client that waits for each answer is not cut off with a request unanswered,
\* also after shutdown(SHUT_WR), unless the idle timer, a failed registration or
\* an ERR/HUP event (of another connection, as this one is not reset) closes it.
NoEarlyClose ==
  [][\A g \in Gen :
       /\ Closes(g)
       /\ conn[g].strict /\ conn[g].peer # "reset"
       /\ ~TimerStep /\ ~HupStep /\ UNCHANGED acceptor
       => Len(conn'[g].answered) = conn[g].asked]_vars

\* Once its client has gone, a connection is reclaimed, by its own events or in
\* the end by the idle timer.
Reclaimed ==
  \A g \in Gen : config.timed /\ conn[g].peer \in {"fin", "reset"}
                   ~> conn[g].peer = "closed"

\* Without an idle timer, a request of a client that waits for its answers is
\* answered, unless the connection is reset or closed (NoEarlyClose says when) or
\* the handler ends without a response.
Served ==
  \A g \in Gen : \A n \in 1..MaxTokens :
    ~config.timed /\ conn[g].asked >= n
                       ~> \/ Len(conn[g].answered) >= n
                          \/ conn[g].peer \in {"reset", "closed"}
                          \/ ~conn[g].strict \/ conn[g].mute

(* What the repository says and the code does not do. *)

\* README.md:257, HttpServer.cpp:828: one request at a time on a connection, so
\* that pipelined responses keep the order of their requests.
RequestsInOrder ==
  \A g \in Gen : \A i \in 1..Len(conn[g].answered) : conn[g].answered[i].req = i

\* HttpContext.h:79-83: a connection whose request has been dispatched and whose
\* response has not been sent is skipped by the idle timer.
TimerSparesUnsent ==
  [][\A g \in Gen : TimerStep /\ Closes(g) =>
       \A r \in Sub : \A p \in pendingResponses[r] \cup items[r] : p.gen # g]_vars

\* HttpServer.cpp:675 and 1174: an event for an old connection never closes the
\* one that has got its fd number since.
NeverMisfires == ~misfired

=============================================================================
