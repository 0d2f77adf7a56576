--------------------------- MODULE ReactorProofs ---------------------------
(***************************************************************************)
(* Proofs about Reactor, for any number of reactors, fd numbers, clients   *)
(* and bytes, with and without a limit of connections and an idle timer.   *)
(***************************************************************************)
EXTENDS Reactor, FiniteSetTheorems, SequenceTheorems, TLAPS

\* What a client sends never has two first parts of a request in a row.
NoTwoParts(s) == \A i \in 1..(Len(s) - 1) : ~ (s[i] = "part" /\ s[i + 1] = "part")
\* The responses of a connection are its own.
Own(g, o) ==
  /\ o.resp # NoResponse => o.resp.gen = g
  /\ \A i \in 1..Len(o.answered) : o.answered[i].gen = g
Sound(g, o) == NoTwoParts(o.buf \o o.rx) /\ Own(g, o)

\* Whoever is named anywhere has been accepted, and has an fd.
Named(g) == g \in Gen /\ g < nextGen
Registered ==
  /\ \A g \in Gen : g < nextGen => conn[g].fd \in Fd
  /\ acceptor.pc = "accept" <=> acceptor.gen = 0
  /\ acceptor.pc # "accept" => acceptor.gen \in Gen /\ acceptor.gen = nextGen - 1
  /\ \A r \in Sub : /\ \A e \in batch[r] : e \notin {Wake, Timer} => Named(e.gen)
                    /\ \A p \in pendingResponses[r] \cup items[r] : Named(p.gen)
                    /\ half[r].fd # 0 => Named(half[r].gen)
  /\ \A t \in tasks : Named(t.gen)

\* What conns_ records is an open connection: with TablesAgree, each one has its record.
Recorded ==
  \A fd \in Fd : conns[fd].context =>
    LET g == conns[fd].generation
    IN /\ g \in Gen /\ Open(conn[g])
       /\ conn[g].fd = fd /\ conn[g].sub = conns[fd].owner

\* A connection that handleAccept has not yet added to epoll is unknown to the other
\* threads, and no other connection can have its fd: closed or not, none is accepted meanwhile.
Unknown(g) ==
  /\ \A r \in Sub : /\ \A e \in batch[r] : e.gen # g
                    /\ \A p \in pendingResponses[r] \cup items[r] : p.gen # g
                    /\ half[r].fd # 0 => half[r].gen # g
  /\ \A t \in tasks : t.gen # g
Fresh(o) == o.armed = "off" /\ ~o.idle /\ o.buf = <<>>
Early == acceptor.pc \in {"insert", "add"}
Registering ==
  /\ Early => /\ Unknown(acceptor.gen) /\ Fresh(conn[acceptor.gen])
              /\ ~misfired => Open(conn[acceptor.gen])
              /\ \A g \in Gen : Open(conn[g]) /\ conn[g].fd = conn[acceptor.gen].fd
                                => g = acceptor.gen
  /\ acceptor.pc = "insert" => /\ Open(conn[acceptor.gen])
                               /\ \A r \in Sub, fd \in Fd : contexts[r][fd] # acceptor.gen

InTable == {fd \in Fd : conns[fd].context}
Counted ==
  ~misfired =>
    /\ activeConnections = Cardinality(InTable) - (IF acceptor = Idle THEN 0 ELSE 1)
    /\ config.limit > 0 => Cardinality(InTable) <= config.limit

Tables == Recorded /\ TablesAgree /\ Counted
IInv ==
  /\ TypeOK
  /\ \A g \in Gen : Sound(g, conn[g])
  /\ Registered /\ Tables /\ Registering

-----------------------------------------------------------------------------
(* The handlers of one connection. *)

JobKind == {"keep", "close", "bad"}

\* What a handler may make of connection g.
Good(g, o, e) ==
  /\ e.o \in Connection /\ Sound(g, e.o)
  /\ e.o.fd = o.fd /\ e.o.sub = o.sub /\ e.o.peer = o.peer
  /\ e.job \in JobKind \cup {"none"}
  /\ e.job # "none" => e.o.dispatched # 0
  /\ e.shut \in BOOLEAN

LEMMA ArmGood ==
  ASSUME NEW g, NEW o \in Connection, Sound(g, o), NEW io \in {"off", "in", "out"}
  PROVE  /\ Good(g, o, Plain(Arm(o, io))) /\ Good(g, o, Plain(o)) /\ Good(g, o, Shut(o))
         /\ Arm(o, io) \in Connection /\ Sound(g, Arm(o, io))
<1> DEFINE p == Arm(o, io)
<1>1. p \in Connection
  BY DEF Arm, Connection
<1>2. /\ p.buf = o.buf /\ p.rx = o.rx /\ p.resp = o.resp /\ p.answered = o.answered
      /\ p.fd = o.fd /\ p.sub = o.sub /\ p.peer = o.peer
  BY DEF Arm, Connection
<1> HIDE DEF p
<1>3. Sound(g, p)
  BY <1>2 DEF Sound, Own
<1>4. Good(g, o, Plain(p)) /\ Good(g, o, Plain(o)) /\ Good(g, o, Shut(o))
  BY <1>1, <1>2, <1>3 DEF Good, Plain, Shut, JobKind
<1> QED
  BY <1>1, <1>3, <1>4 DEF p

LEMMA EnqueueGood ==
  ASSUME NEW g, NEW o \in Connection, Sound(g, o), NEW kind \in JobKind
  PROVE  Good(g, o, Enqueue(o, kind))
<1> DEFINE p == [o EXCEPT !.inFlight = @ + 1, !.dispatched = @ + 1]
<1>0. /\ o.inFlight \in Nat /\ o.inFlight + 1 \in Nat
      /\ o.dispatched \in Nat /\ o.dispatched + 1 \in Nat /\ o.dispatched + 1 # 0
  BY DEF Connection
<1>1. p \in Connection
  BY <1>0 DEF Connection
<1>5. p.dispatched # 0
  BY <1>0 DEF Connection
<1>2. /\ p.buf = o.buf /\ p.rx = o.rx /\ p.resp = o.resp /\ p.answered = o.answered
      /\ p.fd = o.fd /\ p.sub = o.sub /\ p.peer = o.peer
  BY DEF Connection
<1>3. Enqueue(o, kind) = [o |-> p, job |-> kind, shut |-> FALSE]
  BY DEF Enqueue
<1> HIDE DEF p
<1>4. Sound(g, p)
  BY <1>2 DEF Sound, Own
<1> QED
  BY <1>1, <1>2, <1>3, <1>4, <1>5 DEF Good

\* The request taken from the buffer is one, and what stays has no two first parts in a row.
LEMMA RestGood ==
  ASSUME NEW b \in Seq(Token), NEW x \in Seq(Token), NoTwoParts(b \o x),
         b # <<>>, ~Incomplete(b)
  PROVE  /\ b[Ends(b)] \in JobKind
         /\ Rest(b) \in Seq(Token) /\ NoTwoParts(Rest(b) \o x)
<1> DEFINE n == Ends(b)
<1>1. n \in {1, 2} /\ n <= Len(b) /\ Len(b) \in Nat /\ (n = 1 <=> b[1] # "part")
  BY DEF Ends, Incomplete
<1> HIDE DEF n
<1>2. b[n] # "part"
  <2>1. CASE n = 1
    BY <1>1, <2>1
  <2>2. CASE n = 2
    <3>1. b[1] = "part" /\ 1 \in 1..(Len(b \o x) - 1)
      BY <1>1, <2>2
    <3>2. (b \o x)[1] = b[1] /\ (b \o x)[2] = b[2]
      BY <1>1, <2>2
    <3> QED
      BY <2>2, <3>1, <3>2 DEF NoTwoParts
  <2> QED
    BY <1>1, <2>1, <2>2
<1>3. b[n] \in JobKind
  <2>1. b[n] \in Token
    BY <1>1
  <2> QED
    BY <1>2, <2>1, ReactorAssumption DEF JobKind, Kind
<1> DEFINE s == SubSeq(b, n + 1, Len(b))
<1>4. /\ s \in Seq(Token) /\ Len(s) = Len(b) - n
      /\ \A i \in 1..Len(s) : s[i] = b[i + n]
  BY <1>1
<1> HIDE DEF s
<1>5. /\ Len(s \o x) = Len(b \o x) - n
      /\ \A i \in 1..Len(s \o x) : (s \o x)[i] = (b \o x)[i + n]
  <2>1. /\ Len(s) \in Nat /\ Len(x) \in Nat /\ Len(s \o x) = Len(s) + Len(x)
        /\ Len(b \o x) = Len(b) + Len(x)
    BY <1>4
  <2>2. ASSUME NEW i \in 1..Len(s \o x) PROVE (s \o x)[i] = (b \o x)[i + n]
    <3>1. CASE i <= Len(s)
      <4>1. (s \o x)[i] = s[i] /\ s[i] = b[i + n]
        BY <1>4, <2>1, <3>1
      <4>2. i + n \in 1..Len(b)
        BY <1>1, <1>4, <2>1, <3>1
      <4>3. (b \o x)[i + n] = b[i + n]
        BY <4>2
      <4> QED
        BY <4>1, <4>3
    <3>2. CASE i > Len(s)
      <4>1. (s \o x)[i] = x[i - Len(s)]
        BY <1>4, <2>1, <3>2
      <4>2. i + n \in (Len(b) + 1)..(Len(b) + Len(x)) /\ (i + n) - Len(b) = i - Len(s)
        BY <1>1, <1>4, <2>1, <3>2
      <4>3. (b \o x)[i + n] = x[(i + n) - Len(b)]
        BY <1>1, <4>2
      <4> QED
        BY <4>1, <4>2, <4>3
    <3>3. i \in Nat /\ Len(s) \in Nat
      BY <2>1
    <3>4. i <= Len(s) \/ i > Len(s)
      BY <3>3
    <3> QED
      BY <3>1, <3>2, <3>4
  <2> QED
    BY <1>1, <1>4, <2>1, <2>2
<1>6. NoTwoParts(s \o x)
  <2> SUFFICES ASSUME NEW i \in 1..(Len(s \o x) - 1)
               PROVE  ~ ((s \o x)[i] = "part" /\ (s \o x)[i + 1] = "part")
    BY DEF NoTwoParts
  <2>1. Len(b \o x) \in Nat
    OBVIOUS
  <2>2. i + n \in 1..(Len(b \o x) - 1) /\ (i + 1) + n = (i + n) + 1 /\ i + 1 \in 1..Len(s \o x) /\ i \in 1..Len(s \o x)
    BY <1>1, <1>5, <2>1
  <2> QED
    BY <1>5, <2>2 DEF NoTwoParts
<1> QED
  BY <1>3, <1>4, <1>6 DEF n, s, Rest

LEMMA BufferGood ==
  ASSUME NEW g, NEW o \in Connection, Own(g, o), NEW b \in Seq(Token), NoTwoParts(b \o o.rx)
  PROVE  LET p == [o EXCEPT !.buf = b]
         IN  /\ p \in Connection /\ Sound(g, p)
             /\ p.fd = o.fd /\ p.sub = o.sub /\ p.peer = o.peer
<1> DEFINE p == [o EXCEPT !.buf = b]
<1>1. p \in Connection
  BY DEF Connection
<1>2. /\ p.buf = b /\ p.rx = o.rx /\ p.resp = o.resp /\ p.answered = o.answered
      /\ p.fd = o.fd /\ p.sub = o.sub /\ p.peer = o.peer
  BY DEF Connection
<1> HIDE DEF p
<1>3. Sound(g, p)
  BY <1>2 DEF Sound, Own
<1> QED
  BY <1>1, <1>2, <1>3 DEF p

LEMMA DispatchGood ==
  ASSUME NEW g, NEW o \in Connection, Sound(g, o)
  PROVE  Good(g, o, Dispatch(o))
<1>1. CASE o.resp # NoResponse
  BY <1>1, ArmGood DEF Dispatch
<1>2. CASE o.resp = NoResponse /\ (o.buf = <<>> \/ Incomplete(o.buf))
  BY <1>2, ArmGood DEF Dispatch, AwaitMore
<1>3. CASE o.resp = NoResponse /\ o.buf # <<>> /\ ~Incomplete(o.buf)
  <2>1. o.buf \in Seq(Token) /\ o.rx \in Seq(Token)
    BY DEF Connection
  <2>2. /\ o.buf[Ends(o.buf)] \in JobKind
        /\ Rest(o.buf) \in Seq(Token) /\ NoTwoParts(Rest(o.buf) \o o.rx)
    BY <1>3, <2>1, RestGood DEF Sound
  <2>3. CASE o.buf[Ends(o.buf)] = "bad"
    BY <1>3, <2>3, EnqueueGood DEF Dispatch, JobKind
  <2>4. CASE o.buf[Ends(o.buf)] # "bad"
    <3> DEFINE p == [o EXCEPT !.buf = Rest(o.buf)]
    <3>1. /\ p \in Connection /\ Sound(g, p)
          /\ p.fd = o.fd /\ p.sub = o.sub /\ p.peer = o.peer
      BY <2>2, BufferGood DEF Sound
    <3>2. Dispatch(o) = Enqueue(p, o.buf[Ends(o.buf)])
      BY <1>3, <2>4 DEF Dispatch
    <3> HIDE DEF p
    <3>3. Good(g, p, Dispatch(o))
      BY <2>2, <3>1, <3>2, EnqueueGood
    <3> QED
      BY <3>1, <3>3 DEF Good
  <2> QED
    BY <2>3, <2>4
<1> QED
  BY <1>1, <1>2, <1>3

LEMMA ReadGood ==
  ASSUME NEW g, NEW o \in Connection, Sound(g, o)
  PROVE  Good(g, o, Read(o))
<1>1. CASE SawEnd(o)
  BY <1>1, ArmGood DEF Read
<1>2. CASE ~SawEnd(o) /\ o.rx = <<>>
  BY <1>2, ArmGood DEF Read, AwaitMore
<1>3. CASE ~SawEnd(o) /\ o.rx # <<>>
  <2> DEFINE p == [o EXCEPT !.buf = @ \o o.rx, !.rx = <<>>, !.idle = FALSE,
                            !.slow = IF o.buf = <<>> THEN FALSE ELSE @]
  <2>1. o.buf \o o.rx \in Seq(Token) /\ <<>> \in Seq(Token)
    BY DEF Connection
  <2>2. p \in Connection
    BY <2>1 DEF Connection
  <2>3. /\ p.buf = o.buf \o o.rx /\ p.rx = <<>> /\ p.resp = o.resp /\ p.answered = o.answered
        /\ p.fd = o.fd /\ p.sub = o.sub /\ p.peer = o.peer
    BY DEF Connection
  <2>4. Read(o) = IF Len(p.buf) > config.maxRequest THEN Enqueue(p, "bad") ELSE Dispatch(p)
    BY <1>3 DEF Read
  <2> HIDE DEF p
  <2>5. p.buf \o p.rx = o.buf \o o.rx
    BY <2>1, <2>3
  <2>6. Sound(g, p)
    BY <2>3, <2>5 DEF Sound, Own
  <2>7. Good(g, p, Read(o))
    BY <2>2, <2>4, <2>6, EnqueueGood, DispatchGood DEF JobKind
  <2> QED
    BY <2>3, <2>7 DEF Good
<1> QED
  BY <1>1, <1>2, <1>3

LEMMA SentGood ==
  ASSUME NEW g, NEW o \in Connection, Sound(g, o), o.resp # NoResponse
  PROVE  Good(g, o, Sent(o))
<1> DEFINE p == [o EXCEPT !.answered = Append(@, o.resp), !.resp = NoResponse]
           q == [p EXCEPT !.idle = FALSE]
           a == Arm(q, "in")
<1>1. Append(o.answered, o.resp) \in Seq(Response)
  BY DEF Connection
<1>2. p \in Connection
  BY <1>1 DEF Connection
<1>3. /\ p.buf = o.buf /\ p.rx = o.rx /\ p.resp = NoResponse
      /\ p.answered = Append(o.answered, o.resp)
      /\ p.fd = o.fd /\ p.sub = o.sub /\ p.peer = o.peer
  BY DEF Connection
<1> HIDE DEF p
<1>4. o.answered \in Seq(Response)
  BY DEF Connection
<1>5. Sound(g, p)
  BY <1>3, <1>4 DEF Sound, Own
<1>6. q \in Connection
  BY <1>2 DEF Connection
<1>7. /\ q.buf = p.buf /\ q.rx = p.rx /\ q.resp = p.resp /\ q.answered = p.answered
      /\ q.fd = p.fd /\ q.sub = p.sub /\ q.peer = p.peer
  BY <1>2 DEF Connection
<1> HIDE DEF q
<1>8. Sound(g, q)
  BY <1>5, <1>7 DEF Sound, Own
<1>9. /\ a \in Connection /\ Sound(g, a)
      /\ a.fd = q.fd /\ a.sub = q.sub /\ a.peer = q.peer
  BY <1>6, <1>8, ArmGood DEF Good, Plain
<1>10. Sent(o) = IF ~o.keep THEN Shut(p) ELSE IF a.buf # <<>> THEN Dispatch(a) ELSE Plain(a)
  BY DEF Sent, p, q
<1> HIDE DEF a
<1>11. \/ Good(g, p, Sent(o)) \/ Good(g, a, Sent(o))
  BY <1>2, <1>5, <1>9, <1>10, ArmGood, DispatchGood
<1> QED
  BY <1>3, <1>7, <1>9, <1>11 DEF Good

LEMMA WriteGood ==
  ASSUME NEW g, NEW o \in Connection, Sound(g, o), o.resp # NoResponse,
         NEW e \in WriteOutcomes(o)
  PROVE  Good(g, o, e)
BY ArmGood, SentGood DEF WriteOutcomes

-----------------------------------------------------------------------------
(* The tables. *)

\* For the tables a connection is its fd, its reactor and whether it is open.
Like(o, p) ==
  /\ p.fd = o.fd /\ p.sub = o.sub
  /\ Open(p) <=> Open(o)
  /\ p.peer = "none" <=> o.peer = "none"

LEMMA GenFinite == IsFiniteSet(Gen)
BY ReactorAssumption, FS_Interval DEF Gen

\* A context that is found belongs to an open connection with its record.
LEMMA FoundContext ==
  ASSUME IInv, NEW r \in Sub, NEW fd \in Fd, contexts[r][fd] # 0
  PROVE  LET g == contexts[r][fd]
         IN  /\ g \in Gen /\ Open(conn[g]) /\ conn[g].fd = fd /\ conn[g].sub = r
             /\ Current(g) /\ conns[fd].generation = g /\ g < nextGen
<1>1. contexts[r][fd] \in Gen
  BY DEF IInv, TypeOK
<1>2. /\ conns[fd] = [generation |-> contexts[r][fd], owner |-> r, context |-> TRUE]
      /\ Open(conn[contexts[r][fd]]) /\ conn[contexts[r][fd]].fd = fd
      /\ conn[contexts[r][fd]].sub = r
  BY DEF IInv, Tables, TablesAgree
<1>3. conn[contexts[r][fd]].peer # "none"
  BY <1>2 DEF Open
<1>4. contexts[r][fd] < nextGen
  BY <1>1, <1>3 DEF IInv, TypeOK, Gen
<1> QED
  BY <1>1, <1>2, <1>4 DEF Current

LEMMA InTableFinite ==
  ASSUME IInv
  PROVE  /\ IsFiniteSet(InTable) /\ Cardinality(InTable) \in Nat
         /\ Cardinality({g \in Gen : Open(conn[g])}) = Cardinality(InTable)
<1> DEFINE O == {g \in Gen : Open(conn[g])}
           f == [g \in O |-> conn[g].fd]
<1>1. IsFiniteSet(O)
  BY GenFinite, FS_Subset
<1>2. \A g \in O : /\ conn[g].fd \in InTable /\ conns[conn[g].fd].generation = g
  <2> SUFFICES ASSUME NEW g \in O
               PROVE  conn[g].fd \in InTable /\ conns[conn[g].fd].generation = g
    OBVIOUS
  <2>1. g < nextGen
    BY DEF IInv, TypeOK, Gen, Open
  <2>2. conn[g].fd \in Fd
    BY <2>1 DEF IInv, Registered
  <2>3. Current(g)
    BY DEF IInv, Tables, TablesAgree
  <2> QED
    BY <2>2, <2>3 DEF Current, InTable
<1>3. f \in [O -> InTable]
  BY <1>2
<1>4. f \in Surjection(O, InTable)
  <2>1. ASSUME NEW fd \in InTable PROVE \E g \in O : f[g] = fd
    BY <2>1 DEF IInv, Tables, Recorded, InTable
  <2> QED
    BY <1>3, <2>1 DEF Surjection
<1>5. f \in Injection(O, InTable)
  BY <1>2, <1>3 DEF Injection, IsInjective
<1>6. IsFiniteSet(InTable) /\ Cardinality(InTable) = Cardinality(O)
  BY <1>1, <1>4, <1>5, FS_Surjection
<1> QED
  BY <1>6, FS_CardinalityType

\* closeConnectionId without the responses it drops, for connections that have a context.
CloseTables(S, c) ==
  LET Gone(r, fd) == \E g \in S : conn[g].sub = r /\ conn[g].fd = fd
  IN /\ conn' = [g \in Gen |-> IF g \in S THEN Closed(c[g]) ELSE c[g]]
     /\ conns' = [fd \in Fd |-> IF \E g \in S : conn[g].fd = fd
                                THEN [conns[fd] EXCEPT !.context = FALSE] ELSE conns[fd]]
     /\ contexts' = [r \in Sub |-> [fd \in Fd |-> IF Gone(r, fd) THEN 0 ELSE contexts[r][fd]]]
     /\ activeConnections' = activeConnections - Cardinality(S)
Found(S) == \A g \in S : \E r \in Sub, fd \in Fd : contexts[r][fd] = g

LEMMA FoundOnes ==
  ASSUME IInv, NEW S \in SUBSET Gen, Found(S)
  PROVE  \A g \in S : /\ Current(g) /\ Open(conn[g]) /\ conn[g].fd \in Fd /\ conn[g].sub \in Sub
                      /\ conns[conn[g].fd].generation = g /\ conns[conn[g].fd].context
                      /\ contexts[conn[g].sub][conn[g].fd] = g
<1> SUFFICES ASSUME NEW g \in S
             PROVE  /\ Current(g) /\ Open(conn[g]) /\ conn[g].fd \in Fd /\ conn[g].sub \in Sub
                    /\ conns[conn[g].fd].generation = g /\ conns[conn[g].fd].context
                    /\ contexts[conn[g].sub][conn[g].fd] = g
  OBVIOUS
<1>1. PICK r \in Sub, fd \in Fd : contexts[r][fd] = g
  BY DEF Found
<1>2. g # 0
  BY DEF Gen
<1>3. /\ g \in Gen /\ Open(conn[g]) /\ conn[g].fd = fd /\ conn[g].sub = r
      /\ Current(g) /\ conns[fd].generation = g
  BY <1>1, <1>2, FoundContext
<1> QED
  BY <1>1, <1>3 DEF Current

LEMMA CloseAllTables ==
  ASSUME IInv, NEW S \in SUBSET Gen, Found(S), NEW c, CloseAll(S, c)
  PROVE  /\ CloseTables(S, c)
         /\ pendingResponses' \in [Sub -> SUBSET Request]
         /\ \A r \in Sub : pendingResponses'[r] \subseteq pendingResponses[r]
<1> DEFINE Gone(r, fd) == \E g \in S : conn[g].sub = r /\ conn[g].fd = fd
<1>1. {g \in S : Current(g)} = S
  BY FoundOnes
<1>2. /\ CloseTables(S, c)
      /\ pendingResponses' = [r \in Sub |->
                                {p \in pendingResponses[r] : ~Gone(r, conn[p.gen].fd)}]
  BY <1>1, Zenon DEF CloseAll, CloseTables, Release
<1> QED
  BY <1>2 DEF IInv, TypeOK

\* Closing the connections of S: conns_, contexts and the count keep agreeing.
LEMMA Closing ==
  ASSUME IInv, NEW S \in SUBSET Gen, Found(S),
         NEW c, c \in [Gen -> Connection],
         \A g \in Gen : Sound(g, c[g]) /\ Like(conn[g], c[g]),
         CloseTables(S, c),
         UNCHANGED <<config, acceptor>>, misfired' \in BOOLEAN, misfired => misfired'
  PROVE  /\ conn' = [g \in Gen |-> IF g \in S THEN Closed(c[g]) ELSE c[g]]
         /\ conn' \in [Gen -> Connection] /\ \A g \in Gen : Sound(g, conn'[g])
         /\ \A g \in Gen : /\ conn'[g].fd = conn[g].fd /\ conn'[g].sub = conn[g].sub
                           /\ conn'[g].peer = "none" <=> conn[g].peer = "none"
                           /\ Open(conn'[g]) <=> Open(conn[g]) /\ g \notin S
         /\ conns' \in [Fd -> [generation : Gen \cup {0}, owner : Sub, context : BOOLEAN]]
         /\ contexts' \in [Sub -> [Fd -> Gen \cup {0}]]
         /\ \A r \in Sub, fd \in Fd : contexts'[r][fd] \in {0, contexts[r][fd]}
         /\ activeConnections' \in Int
         /\ Tables'
<1> DEFINE Gone(r, fd) == \E g \in S : conn[g].sub = r /\ conn[g].fd = fd
<1>1. \A g \in S : /\ Current(g) /\ Open(conn[g]) /\ conn[g].fd \in Fd /\ conn[g].sub \in Sub
                   /\ conns[conn[g].fd].generation = g /\ conns[conn[g].fd].context
                   /\ contexts[conn[g].sub][conn[g].fd] = g
  BY FoundOnes
<1>3. /\ conn' = [g \in Gen |-> IF g \in S THEN Closed(c[g]) ELSE c[g]]
      /\ conns' = [fd \in Fd |-> IF \E g \in S : conn[g].fd = fd
                                 THEN [conns[fd] EXCEPT !.context = FALSE] ELSE conns[fd]]
      /\ contexts' = [r \in Sub |-> [fd \in Fd |-> IF Gone(r, fd) THEN 0 ELSE contexts[r][fd]]]
      /\ activeConnections' = activeConnections - Cardinality(S)
  BY DEF CloseTables
<1>4. \A g \in S : /\ Closed(c[g]) \in Connection /\ Sound(g, Closed(c[g]))
                   /\ Closed(c[g]).fd = c[g].fd /\ Closed(c[g]).sub = c[g].sub
                   /\ Closed(c[g]).peer = "closed"
  <2> SUFFICES ASSUME NEW g \in Gen, NEW o, o = c[g]
               PROVE  /\ Closed(o) \in Connection /\ Sound(g, Closed(o))
                      /\ Closed(o).fd = o.fd /\ Closed(o).sub = o.sub
                      /\ Closed(o).peer = "closed"
    BY Zenon
  <2>1. o \in Connection /\ Sound(g, o)
    OBVIOUS
  <2>2. <<>> \in Seq(Token) /\ NoResponse \in Response \cup {NoResponse} /\ 0 \in Nat
    OBVIOUS
  <2>3. Closed(o) \in Connection
    BY <2>1, <2>2 DEF Closed, Connection
  <2>4. /\ Closed(o).buf = <<>> /\ Closed(o).rx = <<>> /\ Closed(o).resp = NoResponse
        /\ Closed(o).answered = o.answered /\ Closed(o).fd = o.fd /\ Closed(o).sub = o.sub
        /\ Closed(o).peer = "closed"
    BY <2>1 DEF Closed, Connection
  <2>5. Sound(g, Closed(o))
    <3> HIDE DEF Closed
    <3>1. NoTwoParts(Closed(o).buf \o Closed(o).rx)
      BY <2>4 DEF NoTwoParts
    <3>2. Own(g, Closed(o))
      BY <2>1, <2>4 DEF Sound, Own
    <3> QED
      BY <3>1, <3>2 DEF Sound
  <2> QED
    BY <2>3, <2>4, <2>5
<1>5. conn' \in [Gen -> Connection] /\ \A g \in Gen : Sound(g, conn'[g])
  BY <1>3, <1>4, Zenon
<1>6. \A g \in Gen : /\ conn'[g].fd = conn[g].fd /\ conn'[g].sub = conn[g].sub
                     /\ conn'[g].peer = "none" <=> conn[g].peer = "none"
                     /\ Open(conn'[g]) <=> Open(conn[g]) /\ g \notin S
  <2> SUFFICES ASSUME NEW g \in Gen
               PROVE  /\ conn'[g].fd = conn[g].fd /\ conn'[g].sub = conn[g].sub
                      /\ conn'[g].peer = "none" <=> conn[g].peer = "none"
                      /\ Open(conn'[g]) <=> Open(conn[g]) /\ g \notin S
    OBVIOUS
  <2>1. CASE g \in S
    <3>1. conn'[g] = Closed(c[g])
      BY <1>3, <2>1
    <3>2. conn[g].peer # "none"
      BY <1>1, <2>1 DEF Open
    <3> QED
      BY <1>4, <2>1, <3>1, <3>2 DEF Like, Open
  <2>2. CASE g \notin S
    <3>1. conn'[g] = c[g]
      BY <1>3, <2>2
    <3> QED
      BY <2>2, <3>1 DEF Like
  <2> QED
    BY <2>1, <2>2
<1>7. \A fd \in Fd : /\ (\E g \in S : conn[g].fd = fd) => ~conns'[fd].context
                     /\ ~(\E g \in S : conn[g].fd = fd) => conns'[fd] = conns[fd]
  BY <1>3 DEF IInv, TypeOK
<1>8. conns' \in [Fd -> [generation : Gen \cup {0}, owner : Sub, context : BOOLEAN]]
  <2> DEFINE Rec == [generation : Gen \cup {0}, owner : Sub, context : BOOLEAN]
  <2>1. \A k \in Rec : [k EXCEPT !.context = FALSE] \in Rec
    OBVIOUS
  <2>2. conns \in [Fd -> Rec]
    BY DEF IInv, TypeOK
  <2> HIDE DEF Rec
  <2>3. conns' \in [Fd -> Rec]
    BY <1>3, <2>1, <2>2
  <2> QED
    BY <2>3 DEF Rec
<1>9. /\ contexts' \in [Sub -> [Fd -> Gen \cup {0}]]
      /\ \A r \in Sub, fd \in Fd : contexts'[r][fd] = IF Gone(r, fd) THEN 0 ELSE contexts[r][fd]
  BY <1>3 DEF IInv, TypeOK
<1>11. IsFiniteSet(S) /\ Cardinality(S) \in Nat
  BY GenFinite, FS_Subset, FS_CardinalityType
<1>12. activeConnections' \in Int
  BY <1>3, <1>11 DEF IInv, TypeOK
<1>13. Recorded'
  <2> SUFFICES ASSUME NEW fd \in Fd, conns'[fd].context
               PROVE  LET g == conns'[fd].generation
                      IN /\ g \in Gen /\ Open(conn'[g])
                         /\ conn'[g].fd = fd /\ conn'[g].sub = conns'[fd].owner
    BY DEF Recorded
  <2> DEFINE g == conns[fd].generation
  <2>1. conns'[fd] = conns[fd] /\ ~ \E h \in S : conn[h].fd = fd
    BY <1>7
  <2>2. /\ g \in Gen /\ Open(conn[g]) /\ conn[g].fd = fd /\ conn[g].sub = conns[fd].owner
    BY <2>1 DEF IInv, Tables, Recorded
  <2> QED
    BY <1>6, <2>1, <2>2
<1>14. TablesAgree'
  <2>1. ASSUME NEW r \in Sub, NEW fd \in Fd, contexts'[r][fd] # 0
        PROVE  LET g == contexts'[r][fd]
               IN  /\ conns'[fd] = [generation |-> g, owner |-> r, context |-> TRUE]
                   /\ Open(conn'[g]) /\ conn'[g].fd = fd /\ conn'[g].sub = r
    <3> DEFINE g == contexts[r][fd]
    <3>1. contexts'[r][fd] = g /\ ~Gone(r, fd) /\ g # 0
      BY <1>9, <2>1
    <3>2. /\ g \in Gen /\ Open(conn[g]) /\ conn[g].fd = fd /\ conn[g].sub = r
          /\ conns[fd].generation = g
      BY <3>1, FoundContext
    <3>3. conns[fd] = [generation |-> g, owner |-> r, context |-> TRUE]
      BY <3>1 DEF IInv, Tables, TablesAgree
    <3> HIDE DEF g
    <3>4. g \notin S
      BY <3>1, <3>2
    <3>5. ~ \E h \in S : conn[h].fd = fd
      BY <1>1, <3>2, <3>4
    <3>6. conns'[fd] = conns[fd]
      BY <1>7, <3>5
    <3> QED
      BY <1>6, <3>1, <3>2, <3>3, <3>4, <3>6
  <2>2. ASSUME NEW g \in Gen, Open(conn'[g])
        PROVE  /\ Current(g)'
               /\ \/ contexts'[conn'[g].sub][conn'[g].fd] = g
                  \/ acceptor' = [pc |-> "insert", gen |-> g]
    <3>1. /\ Open(conn[g]) /\ g \notin S
          /\ conn'[g].fd = conn[g].fd /\ conn'[g].sub = conn[g].sub
      BY <1>6, <2>2
    <3>2. /\ Current(g)
          /\ \/ contexts[conn[g].sub][conn[g].fd] = g
             \/ acceptor = [pc |-> "insert", gen |-> g]
      BY <3>1 DEF IInv, Tables, TablesAgree
    <3>3. g < nextGen
      BY <3>1 DEF IInv, TypeOK, Gen, Open
    <3>4. conn[g].fd \in Fd /\ conn[g].sub \in Sub
      BY <3>3 DEF IInv, Registered, TypeOK, Connection
    <3>5. ~ \E h \in S : conn[h].fd = conn[g].fd
      BY <1>1, <3>1, <3>2 DEF Current
    <3>6. conns'[conn[g].fd] = conns[conn[g].fd]
      BY <1>7, <3>4, <3>5
    <3>7. contexts'[conn[g].sub][conn[g].fd] = contexts[conn[g].sub][conn[g].fd]
      BY <1>9, <3>4, <3>5
    <3> QED
      BY <3>1, <3>2, <3>6, <3>7 DEF Current
  <2> QED
    BY <2>1, <2>2 DEF TablesAgree
<1>15. Counted'
  <2> SUFFICES ASSUME ~misfired'
               PROVE  /\ activeConnections' = Cardinality(InTable')
                                               - (IF acceptor' = Idle THEN 0 ELSE 1)
                      /\ config'.limit > 0 => Cardinality(InTable') <= config'.limit
    BY DEF Counted
  <2> DEFINE F == {conn[g].fd : g \in S}
             f == [g \in S |-> conn[g].fd]
  <2>1. f \in [S -> F] /\ f \in Surjection(S, F)
    BY DEF Surjection
  <2>2. f \in Injection(S, F)
    BY <1>1, <2>1 DEF Injection, IsInjective
  <2>3. IsFiniteSet(F) /\ Cardinality(F) = Cardinality(S)
    BY <1>11, <2>1, <2>2, FS_Surjection
  <2>4. F \subseteq InTable /\ F \cap InTable = F /\ InTable \cap F = F
    BY <1>1 DEF InTable
  <2>5. InTable' = InTable \ F
    BY <1>7 DEF InTable
  <2>6. Cardinality(InTable \ F) = Cardinality(InTable) - Cardinality(InTable \cap F)
    BY InTableFinite, FS_Difference
  <2>7. Cardinality(InTable') = Cardinality(InTable) - Cardinality(S)
    BY <2>3, <2>4, <2>5, <2>6
  <2>8. /\ activeConnections = Cardinality(InTable) - (IF acceptor = Idle THEN 0 ELSE 1)
        /\ config.limit > 0 => Cardinality(InTable) <= config.limit
    BY DEF IInv, Tables, Counted
  <2>9. config.limit \in Nat
    BY ReactorAssumption DEF IInv, TypeOK, Config
  <2> HIDE DEF F, f
  <2>10. activeConnections' = Cardinality(InTable') - (IF acceptor' = Idle THEN 0 ELSE 1)
    BY <1>3, <1>11, <2>7, <2>8, InTableFinite
  <2>11. config'.limit > 0 => Cardinality(InTable') <= config'.limit
    BY <1>11, <2>7, <2>8, <2>9, InTableFinite
  <2> QED
    BY <2>10, <2>11
<1> QED
  BY <1>3, <1>5, <1>6, <1>8, <1>9, <1>12, <1>13, <1>14, <1>15 DEF Tables
\* Connections that tasks, events and responses may name.
Known(g) == Named(g) /\ (Early => g # acceptor.gen)

LEMMA AllKnown ==
  ASSUME IInv
  PROVE  /\ \A r \in Sub : /\ \A e \in batch[r] : e \notin {Wake, Timer} => Known(e.gen)
                           /\ \A p \in pendingResponses[r] \cup items[r] : Known(p.gen)
                           /\ half[r].fd # 0 => Known(half[r].gen)
         /\ \A t \in tasks : Known(t.gen)
BY DEF IInv, Registered, Registering, Unknown, Known

\* A step of a reactor, a worker or a client: some connections change, some are closed,
\* and events, responses and tasks name only connections they may name.
LEMMA Onwards ==
  ASSUME IInv, NEW S \in SUBSET Gen, Found(S),
         NEW c, c \in [Gen -> Connection],
         \A g \in Gen : Sound(g, c[g]) /\ Like(conn[g], c[g]),
         CloseTables(S, c),
         UNCHANGED accepting, misfired' \in BOOLEAN, misfired => misfired',
         Early => Fresh(c[acceptor.gen]),
         Early /\ ~misfired' => acceptor.gen \notin S,
         wakeFd' \in [Sub -> BOOLEAN],
         batch' \in [Sub -> SUBSET Event],
         pendingResponses' \in [Sub -> SUBSET Request], items' \in [Sub -> SUBSET Request],
         half' \in [Sub -> [fd : Fd, gen : Gen] \cup {Whole, Emptied}],
         tasks' \in SUBSET Job,
         \A r \in Sub : /\ \A e \in batch'[r] : e \notin {Wake, Timer} => Known(e.gen)
                        /\ \A p \in pendingResponses'[r] \cup items'[r] : Known(p.gen)
                        /\ half'[r].fd # 0 => Known(half'[r].gen),
         \A t \in tasks' : Known(t.gen)
  PROVE  IInv'
<1>1. UNCHANGED <<config, acceptor, nextGen, nextSubReactor>>
  BY DEF accepting
<1>2. /\ conn' = [g \in Gen |-> IF g \in S THEN Closed(c[g]) ELSE c[g]]
      /\ conn' \in [Gen -> Connection] /\ \A g \in Gen : Sound(g, conn'[g])
      /\ \A g \in Gen : /\ conn'[g].fd = conn[g].fd /\ conn'[g].sub = conn[g].sub
                        /\ conn'[g].peer = "none" <=> conn[g].peer = "none"
                        /\ Open(conn'[g]) <=> Open(conn[g]) /\ g \notin S
      /\ conns' \in [Fd -> [generation : Gen \cup {0}, owner : Sub, context : BOOLEAN]]
      /\ contexts' \in [Sub -> [Fd -> Gen \cup {0}]]
      /\ \A r \in Sub, fd \in Fd : contexts'[r][fd] \in {0, contexts[r][fd]}
      /\ activeConnections' \in Int
      /\ Tables'
  BY <1>1, Closing
<1>3. TypeOK'
  BY <1>1, <1>2 DEF IInv, TypeOK
<1>4. Registered'
  BY <1>1, <1>2 DEF IInv, Registered, Known, Named
<1>5. Registering'
  <2> DEFINE a == acceptor.gen
  <2>1. Early => a \in Gen /\ a # 0
    BY DEF IInv, Registered, Early, Gen
  <2>2. Early => Unknown(a)'
    BY <1>1, <2>1 DEF Unknown, Known, Wake, Timer
  <2>3. Early => Fresh(conn'[a])
    <3> SUFFICES ASSUME Early PROVE Fresh(conn'[a])
      OBVIOUS
    <3>1. c[a] \in Connection /\ Fresh(c[a])
      BY <2>1
    <3>2. Fresh(Closed(c[a]))
      BY <3>1 DEF Fresh, Closed, Connection
    <3>3. conn'[a] = IF a \in S THEN Closed(c[a]) ELSE c[a]
      BY <1>2, <2>1
    <3> QED
      BY <3>1, <3>2, <3>3
  <2>4. Early /\ ~misfired' => Open(conn'[a])
    BY <1>2, <2>1 DEF IInv, Registering
  <2>5. acceptor.pc = "insert" =>
          Open(conn'[a]) /\ \A r \in Sub, fd \in Fd : contexts'[r][fd] # a
    <3> SUFFICES ASSUME acceptor.pc = "insert"
                 PROVE  Open(conn'[a]) /\ \A r \in Sub, fd \in Fd : contexts'[r][fd] # a
      OBVIOUS
    <3>1. Open(conn[a]) /\ \A r \in Sub, fd \in Fd : contexts[r][fd] # a
      BY DEF IInv, Registering
    <3>2. a \notin S
      BY <3>1 DEF Found
    <3>3. a \in Gen /\ a # 0
      BY <2>1 DEF Early
    <3>4. Open(conn'[a])
      BY <1>2, <3>1, <3>2, <3>3
    <3>5. ASSUME NEW r \in Sub, NEW fd \in Fd PROVE contexts'[r][fd] # a
      <4>1. contexts'[r][fd] \in {0, contexts[r][fd]}
        BY <1>2
      <4> QED
        BY <3>1, <3>3, <4>1
    <3> QED
      BY <3>4, <3>5
  <2>6. acceptor' = acceptor /\ Early' = Early
    BY <1>1 DEF Early
  <2>7. Early => \A g \in Gen : Open(conn'[g]) /\ conn'[g].fd = conn'[a].fd => g = a
    BY <1>2, <2>1 DEF IInv, Registering
  <2> QED
    BY <2>2, <2>3, <2>4, <2>5, <2>6, <2>7 DEF Registering
<1> QED
  BY <1>2, <1>3, <1>4, <1>5 DEF IInv
\* The same when nothing is closed.
LEMMA Moves ==
  ASSUME IInv,
         NEW c, c \in [Gen -> Connection],
         \A g \in Gen : Sound(g, c[g]) /\ Like(conn[g], c[g]),
         conn' = c, UNCHANGED <<conns, contexts, activeConnections, misfired, accepting>>,
         Early => Fresh(c[acceptor.gen]),
         wakeFd' \in [Sub -> BOOLEAN],
         batch' \in [Sub -> SUBSET Event],
         pendingResponses' \in [Sub -> SUBSET Request], items' \in [Sub -> SUBSET Request],
         half' \in [Sub -> [fd : Fd, gen : Gen] \cup {Whole, Emptied}],
         tasks' \in SUBSET Job,
         \A r \in Sub : /\ \A e \in batch'[r] : e \notin {Wake, Timer} => Known(e.gen)
                        /\ \A p \in pendingResponses'[r] \cup items'[r] : Known(p.gen)
                        /\ half'[r].fd # 0 => Known(half'[r].gen),
         \A t \in tasks' : Known(t.gen)
  PROVE  IInv'
<1>1. CloseTables({}, c)
  <2>1. conns' = [fd \in Fd |-> conns[fd]] /\ contexts' = [r \in Sub |-> [fd \in Fd |-> contexts[r][fd]]]
    BY DEF IInv, TypeOK
  <2>2. activeConnections' = activeConnections - Cardinality({})
    BY FS_EmptySet DEF IInv, TypeOK
  <2> QED
    BY <2>1, <2>2 DEF CloseTables
<1>2. Found({}) /\ misfired' \in BOOLEAN
  BY DEF Found, IInv, TypeOK
<1> QED
  BY <1>1, <1>2, Onwards

\* A handler of the connection that has the context of reactor r for fd.
LEMMA Handles ==
  ASSUME IInv, NEW r \in Sub, NEW fd \in Fd, NEW g, g = contexts[r][fd], g # 0,
         Early => g # acceptor.gen,
         NEW e, Good(g, conn[g], e), Effect(g, e),
         UNCHANGED <<misfired, accepting>>,
         wakeFd' \in [Sub -> BOOLEAN],
         batch' \in [Sub -> SUBSET Event], items' \in [Sub -> SUBSET Request],
         half' \in [Sub -> [fd : Fd, gen : Gen] \cup {Whole, Emptied}],
         \A s \in Sub : /\ batch'[s] \subseteq batch[s] /\ items'[s] \subseteq items[s]
                        /\ half'[s].fd # 0 => Known(half'[s].gen)
  PROVE  IInv'
<1> DEFINE c == [conn EXCEPT ![g] = e.o]
<1>1. g \in Gen /\ g < nextGen
  BY FoundContext
<1>2. conn \in [Gen -> Connection] /\ \A h \in Gen : Sound(h, conn[h])
  BY DEF IInv, TypeOK
<1>3. c \in [Gen -> Connection] /\ \A h \in Gen : c[h] = IF h = g THEN e.o ELSE conn[h]
  BY <1>1, <1>2 DEF Good
<1>4. \A h \in Gen : Sound(h, c[h]) /\ Like(conn[h], c[h])
  BY <1>2, <1>3 DEF Good, Like, Open
<1>5. Early => Fresh(c[acceptor.gen])
  BY <1>3 DEF IInv, Registered, Registering, Early
<1>6. tasks' \in SUBSET Job /\ \A t \in tasks' : Known(t.gen)
  <2>1. Known(g)
    BY <1>1 DEF Known, Named
  <2>2. tasks \in SUBSET Job /\ \A t \in tasks : Known(t.gen)
    BY AllKnown DEF IInv, TypeOK
  <2>3. CASE e.job = "none"
    BY <2>2, <2>3 DEF Effect
  <2>4. CASE e.job # "none"
    <3> DEFINE t == [gen |-> g, req |-> e.o.dispatched, kind |-> e.job, phase |-> "queued"]
    <3>1. e.o.dispatched \in Nat \ {0} /\ e.job \in {"keep", "close", "bad"}
      BY <2>4 DEF Good, Connection, JobKind
    <3>2. t \in Job /\ t.gen = g
      BY <1>1, <3>1 DEF Job
    <3>3. tasks' = tasks \cup {t}
      BY <2>4 DEF Effect
    <3> HIDE DEF t
    <3> QED
      BY <2>1, <2>2, <3>2, <3>3
  <2> QED
    BY <2>3, <2>4
<1>7. misfired' \in BOOLEAN /\ (misfired => misfired')
  BY DEF IInv, TypeOK
<1>8. \A s \in Sub : /\ \A x \in batch'[s] : x \notin {Wake, Timer} => Known(x.gen)
                     /\ \A p \in pendingResponses[s] \cup items'[s] : Known(p.gen)
                     /\ half'[s].fd # 0 => Known(half'[s].gen)
  BY AllKnown
<1>9. CASE e.shut
  <2>1. CloseAll({g}, c)
    BY <1>9 DEF Effect
  <2>2. Found({g}) /\ {g} \in SUBSET Gen
    BY <1>1 DEF Found
  <2> HIDE DEF c
  <2>3. /\ CloseTables({g}, c) /\ pendingResponses' \in [Sub -> SUBSET Request]
        /\ \A s \in Sub : pendingResponses'[s] \subseteq pendingResponses[s]
    BY <2>1, <2>2, CloseAllTables
  <2>4. \A s \in Sub : \A p \in pendingResponses'[s] \cup items'[s] : Known(p.gen)
    BY <1>8, <2>3
  <2>5. Early /\ ~misfired' => acceptor.gen \notin {g}
    OBVIOUS
  <2> QED
    BY <1>3, <1>4, <1>5, <1>6, <1>7, <1>8, <2>2, <2>3, <2>4, <2>5, Onwards
<1>10. CASE ~e.shut
  <2>1. conn' = c /\ UNCHANGED <<conns, contexts, pendingResponses, activeConnections>>
    BY <1>10 DEF Effect
  <2>2. pendingResponses' \in [Sub -> SUBSET Request]
    BY <2>1 DEF IInv, TypeOK
  <2> HIDE DEF c
  <2>3. \A s \in Sub : \A p \in pendingResponses'[s] \cup items'[s] : Known(p.gen)
    BY <1>8, <2>1
  <2> QED
    BY <1>3, <1>4, <1>5, <1>6, <1>8, <2>1, <2>2, <2>3, Moves
<1> QED
  BY <1>9, <1>10 DEF Good

\* What a reactor owns by the table of fds, and is not being registered, has its context.
LEMMA OwnsContext ==
  ASSUME IInv, NEW r \in Sub, NEW g, Known(g), Owns(r, g)
  PROVE  /\ conn[g].fd \in Fd /\ contexts[r][conn[g].fd] = g /\ g \in Gen /\ g # 0
         /\ Early => g # acceptor.gen
<1>1. g \in Gen /\ g # 0 /\ conn[g].fd \in Fd /\ (Early => g # acceptor.gen)
  BY DEF Known, Named, IInv, Registered, Gen
<1>2. Open(conn[g]) /\ conn[g].sub = r
  BY <1>1 DEF Owns, IInv, Tables, Recorded
<1>3. acceptor # [pc |-> "insert", gen |-> g]
  BY <1>1 DEF Early
<1>4. contexts[r][conn[g].fd] = g
  BY <1>1, <1>2, <1>3 DEF IInv, Tables, TablesAgree
<1> QED
  BY <1>1, <1>4

LEMMA TakesEvent ==
  ASSUME IInv, NEW r \in Sub, NEW e, Take(r, e)
  PROVE  /\ batch' \in [Sub -> SUBSET Event]
         /\ \A s \in Sub : batch'[s] \subseteq batch[s]
         /\ e \in Event /\ (e \notin {Wake, Timer} => Known(e.gen))
<1>1. batch \in [Sub -> SUBSET Event] /\ e \in batch[r]
  BY DEF IInv, TypeOK, Take
<1>2. batch' = [batch EXCEPT ![r] = @ \ {e}]
  BY DEF Take
<1> QED
  BY <1>1, <1>2, AllKnown

-----------------------------------------------------------------------------
(* The steps of a reactor. *)

LEMMA TypesNow ==
  ASSUME IInv
  PROVE  /\ conn \in [Gen -> Connection] /\ \A g \in Gen : Sound(g, conn[g]) /\ Like(conn[g], conn[g])
         /\ Early => Fresh(conn[acceptor.gen])
         /\ wakeFd \in [Sub -> BOOLEAN] /\ batch \in [Sub -> SUBSET Event]
         /\ pendingResponses \in [Sub -> SUBSET Request] /\ items \in [Sub -> SUBSET Request]
         /\ half \in [Sub -> [fd : Fd, gen : Gen] \cup {Whole, Emptied}]
         /\ tasks \in SUBSET Job
BY DEF IInv, TypeOK, Like, Registering

LEMMA DropEventKeeps ==
  ASSUME IInv, NEW r \in Sub, NEW e, DropEvent(r, e) PROVE IInv'
<1>1. /\ batch' \in [Sub -> SUBSET Event] /\ \A s \in Sub : batch'[s] \subseteq batch[s]
  BY TakesEvent DEF DropEvent
<1>2. UNCHANGED <<conn, conns, contexts, pendingResponses, wakeFd, items, half, tasks,
                  activeConnections, misfired, accepting>>
  BY DEF DropEvent
<1> QED
  BY <1>1, <1>2, TypesNow, AllKnown, Moves

LEMMA HandleReadKeeps ==
  ASSUME IInv, NEW r \in Sub, NEW e, HandleRead(r, e) PROVE IInv'
<1>1. Take(r, e) /\ e.io = "in" /\ Owns(r, e.gen)
  BY DEF HandleRead
<1>2. Known(e.gen)
  BY <1>1, TakesEvent DEF Wake, Timer
<1> DEFINE fd == conn[e.gen].fd
           g == contexts[r][fd]
<1>3. fd \in Fd /\ g \in Gen /\ g # 0 /\ (Early => g # acceptor.gen)
  BY <1>1, <1>2, OwnsContext
<1>4. Effect(g, Read(conn[g])) /\ UNCHANGED <<wakeFd, items, half, misfired, accepting>>
  BY DEF HandleRead
<1>5. Good(g, conn[g], Read(conn[g]))
  BY <1>3, TypesNow, ReadGood
<1>6. batch' \in [Sub -> SUBSET Event] /\ \A s \in Sub : batch'[s] \subseteq batch[s]
  BY <1>1, TakesEvent
<1>7. \A s \in Sub : half[s].fd # 0 => Known(half[s].gen)
  BY AllKnown
<1> HIDE DEF g, fd
<1> QED
  BY <1>3, <1>4, <1>5, <1>6, <1>7, TypesNow, Handles DEF g

LEMMA HandleWriteKeeps ==
  ASSUME IInv, NEW r \in Sub, NEW e, HandleWrite(r, e) PROVE IInv'
<1>1. Take(r, e) /\ e.io = "out" /\ Owns(r, e.gen)
  BY DEF HandleWrite
<1>2. Known(e.gen)
  BY <1>1, TakesEvent DEF Wake, Timer
<1> DEFINE fd == conn[e.gen].fd
           g == contexts[r][fd]
<1>3. fd \in Fd /\ g \in Gen /\ g # 0 /\ (Early => g # acceptor.gen)
  BY <1>1, <1>2, OwnsContext
<1>4. /\ IF conn[g].resp = NoResponse THEN Effect(g, AwaitMore(conn[g]))
         ELSE \E e2 \in WriteOutcomes(conn[g]) : Effect(g, e2)
      /\ UNCHANGED <<wakeFd, items, half, misfired, accepting>>
  BY DEF HandleWrite
<1>5. \E e2 : Effect(g, e2) /\ Good(g, conn[g], e2)
  <2>1. conn[g] \in Connection /\ Sound(g, conn[g])
    BY <1>3, TypesNow
  <2>2. CASE conn[g].resp = NoResponse
    BY <1>4, <2>1, <2>2, ArmGood DEF AwaitMore
  <2>3. CASE conn[g].resp # NoResponse
    <3>1. PICK e2 \in WriteOutcomes(conn[g]) : Effect(g, e2)
      BY <1>4, <2>3
    <3> QED
      BY <2>1, <2>3, <3>1, WriteGood
  <2> QED
    BY <2>2, <2>3
<1>6. batch' \in [Sub -> SUBSET Event] /\ \A s \in Sub : batch'[s] \subseteq batch[s]
  BY <1>1, TakesEvent
<1>7. \A s \in Sub : half[s].fd # 0 => Known(half[s].gen)
  BY AllKnown
<1> HIDE DEF g, fd
<1> QED
  BY <1>3, <1>4, <1>5, <1>6, <1>7, TypesNow, Handles DEF g

LEMMA HandleHupKeeps ==
  ASSUME IInv, NEW r \in Sub, NEW e, HandleHup(r, e) PROVE IInv'
<1>1. Take(r, e) /\ e.hup /\ Owns(r, e.gen)
  BY DEF HandleHup
<1>2. Known(e.gen)
  BY <1>1, TakesEvent DEF Wake, Timer
<1> DEFINE fd == conn[e.gen].fd
           g == contexts[r][fd]
           mine == [fd |-> fd, gen |-> e.gen]
<1>3. fd \in Fd /\ g \in Gen /\ g # 0 /\ (Early => g # acceptor.gen)
  BY <1>1, <1>2, OwnsContext
<1>4. /\ IF e.io = "in" THEN Effect(g, Read(conn[g]))
         ELSE UNCHANGED <<conn, conns, contexts, pendingResponses, tasks, activeConnections>>
      /\ half' = [half EXCEPT ![r] = mine]
      /\ UNCHANGED <<wakeFd, items, misfired, accepting>>
  BY DEF HandleHup
<1>5. Good(g, conn[g], Read(conn[g]))
  BY <1>3, TypesNow, ReadGood
<1>6. batch' \in [Sub -> SUBSET Event] /\ \A s \in Sub : batch'[s] \subseteq batch[s]
  BY <1>1, TakesEvent
<1>7. /\ half' \in [Sub -> [fd : Fd, gen : Gen] \cup {Whole, Emptied}]
      /\ \A s \in Sub : half'[s].fd # 0 => Known(half'[s].gen)
  <2>1. mine \in [fd : Fd, gen : Gen] /\ mine.gen = e.gen
    BY <1>2, <1>3 DEF Known, Named
  <2>2. half \in [Sub -> [fd : Fd, gen : Gen] \cup {Whole, Emptied}]
    BY TypesNow
  <2>3. Known(mine.gen)
    BY <1>2, <2>1
  <2> HIDE DEF mine
  <2> QED
    BY <1>4, <2>1, <2>2, <2>3, AllKnown
<1> HIDE DEF g, fd, mine
<1>8. CASE e.io = "in"
  BY <1>3, <1>4, <1>5, <1>6, <1>7, <1>8, TypesNow, Handles DEF g
<1>9. CASE e.io # "in"
  BY <1>4, <1>6, <1>7, <1>9, TypesNow, AllKnown, Moves
<1> QED
  BY <1>8, <1>9

LEMMA DeliverKeeps ==
  ASSUME IInv, NEW r \in Sub, NEW i, Deliver(r, i) PROVE IInv'
<1>1. /\ i \in items[r] /\ items' = [items EXCEPT ![r] = @ \ {i}]
      /\ UNCHANGED <<wakeFd, batch, half, misfired, accepting>>
  BY DEF Deliver
<1>2. /\ items' \in [Sub -> SUBSET Request] /\ i \in Request /\ Known(i.gen)
      /\ \A s \in Sub : items'[s] \subseteq items[s]
  BY <1>1, TypesNow, AllKnown
<1> DEFINE fd == conn[i.gen].fd
           g == contexts[r][fd]
           o == [conn[g] EXCEPT !.keep = i.keep, !.resp = [gen |-> i.gen, req |-> i.req]]
<1>3. CASE Deliverable(r, i.gen)
  <2>1. PICK e \in WriteOutcomes(o) : Effect(g, e)
    BY <1>3 DEF Deliver
  <2>2. fd \in Fd /\ g = i.gen /\ g \in Gen /\ g # 0 /\ (Early => g # acceptor.gen)
    BY <1>2, <1>3, OwnsContext DEF Deliverable
  <2>3. conn[g] \in Connection /\ Sound(g, conn[g])
    BY <2>2, TypesNow
  <2>4. /\ [gen |-> i.gen, req |-> i.req] \in Response
        /\ [gen |-> i.gen, req |-> i.req] # NoResponse /\ i.keep \in BOOLEAN
    BY <1>2, <2>2 DEF Request, Response, NoResponse
  <2>5. /\ o \in Connection /\ o.resp # NoResponse /\ o.resp.gen = i.gen
        /\ o.buf = conn[g].buf /\ o.rx = conn[g].rx /\ o.answered = conn[g].answered
        /\ o.fd = conn[g].fd /\ o.sub = conn[g].sub /\ o.peer = conn[g].peer
    <3> DEFINE p == [gen |-> i.gen, req |-> i.req]
    <3>1. p \in Response /\ p # NoResponse /\ p.gen = i.gen
      BY <2>4
    <3> HIDE DEF p
    <3>2. ASSUME NEW k \in Connection, NEW l, l = [k EXCEPT !.keep = i.keep, !.resp = p]
          PROVE  /\ l \in Connection /\ l.resp = p
                 /\ l.buf = k.buf /\ l.rx = k.rx /\ l.answered = k.answered
                 /\ l.fd = k.fd /\ l.sub = k.sub /\ l.peer = k.peer
      BY <2>4, <3>1, <3>2 DEF Connection
    <3>3. o = [conn[g] EXCEPT !.keep = i.keep, !.resp = p]
      BY DEF p
    <3> HIDE DEF o, g
    <3> QED
      BY <2>3, <3>1, <3>2, <3>3
  <2> HIDE DEF o
  <2>6. Sound(g, o)
    BY <2>2, <2>3, <2>5 DEF Sound, Own
  <2>7. Good(g, o, e)
    BY <2>1, <2>5, <2>6, WriteGood
  <2>8. Good(g, conn[g], e)
    BY <2>5, <2>7 DEF Good
  <2>9. \A s \in Sub : half[s].fd # 0 => Known(half[s].gen)
    BY AllKnown
  <2> HIDE DEF g, fd
  <2> QED
    BY <1>1, <1>2, <2>1, <2>2, <2>8, <2>9, TypesNow, Handles DEF g
<1>4. CASE ~Deliverable(r, i.gen)
  <2>1. UNCHANGED <<conn, conns, contexts, pendingResponses, tasks, activeConnections>>
    BY <1>4 DEF Deliver
  <2> QED
    BY <1>1, <1>2, <2>1, TypesNow, AllKnown, Moves
<1> QED
  BY <1>3, <1>4

LEMMA FinishHupKeeps ==
  ASSUME IInv, NEW r \in Sub, FinishHup(r) PROVE IInv'
<1> DEFINE fd == half[r].fd
           g == contexts[r][fd]
<1>1. half[r] \in [fd : Fd, gen : Gen] /\ fd \in Fd
  <2>1. half[r] \in [fd : Fd, gen : Gen] \cup {Whole, Emptied}
    BY TypesNow
  <2>2. half[r].fd # 0
    BY DEF FinishHup
  <2>3. half[r] # Whole /\ half[r] # Emptied
    BY <2>2 DEF Whole, Emptied
  <2> QED
    BY <2>1, <2>3
<1>2. half' = [half EXCEPT ![r] = Whole] /\ UNCHANGED <<wakeFd, batch, items, tasks, accepting>>
  BY DEF FinishHup
<1>3. /\ half' \in [Sub -> [fd : Fd, gen : Gen] \cup {Whole, Emptied}]
      /\ \A s \in Sub : half'[s].fd # 0 => Known(half'[s].gen)
  BY <1>2, TypesNow, AllKnown DEF Whole
<1>4. CASE g = 0 \/ conn[g].inFlight > 0 \/ conn[g].resp # NoResponse
  <2>1. UNCHANGED <<conn, conns, contexts, pendingResponses, activeConnections, misfired>>
    BY <1>4 DEF FinishHup
  <2> QED
    BY <1>2, <1>3, <2>1, TypesNow, AllKnown, Moves
<1>5. CASE ~ (g = 0 \/ conn[g].inFlight > 0 \/ conn[g].resp # NoResponse)
  <2>1. CloseAll({g}, conn) /\ misfired' = (misfired \/ g # half[r].gen)
    BY <1>5 DEF FinishHup
  <2>2. g \in Gen /\ {g} \in SUBSET Gen /\ Found({g})
    BY <1>1, <1>5, FoundContext DEF Found
  <2> HIDE DEF g, fd
  <2>3. /\ CloseTables({g}, conn) /\ pendingResponses' \in [Sub -> SUBSET Request]
        /\ \A s \in Sub : pendingResponses'[s] \subseteq pendingResponses[s]
    BY <2>1, <2>2, CloseAllTables
  <2>4. misfired' \in BOOLEAN /\ (misfired => misfired')
    BY <2>1
  <2>5. Early /\ ~misfired' => acceptor.gen \notin {g}
    BY <1>1, <2>1, AllKnown DEF FinishHup, Known
  <2>6. \A s \in Sub : /\ \A e \in batch'[s] : e \notin {Wake, Timer} => Known(e.gen)
                       /\ \A p \in pendingResponses'[s] \cup items'[s] : Known(p.gen)
    BY <1>2, <2>3, AllKnown
  <2>7. \A t \in tasks' : Known(t.gen)
    BY <1>2, AllKnown
  <2> QED
    BY <1>2, <1>3, <2>2, <2>3, <2>4, <2>5, <2>6, <2>7, TypesNow, Onwards
<1> QED
  BY <1>4, <1>5

LEMMA HandleTimerKeeps ==
  ASSUME IInv, NEW r \in Sub, NEW e, HandleTimer(r, e) PROVE IInv'
<1> DEFINE found == {g \in {contexts[r][fd] : fd \in Fd} \ {0} : Stale(conn[g])}
           S == IF config.timed THEN found ELSE {}
<1>1. /\ Take(r, e) /\ CloseAll(S, conn)
      /\ UNCHANGED <<wakeFd, items, half, tasks, misfired, accepting>>
  BY DEF HandleTimer
<1>2. S \in SUBSET Gen /\ Found(S) /\ \A g \in S : Stale(conn[g])
  <2>1. \A fd \in Fd : contexts[r][fd] \in Gen \cup {0}
    BY DEF IInv, TypeOK
  <2> QED
    BY <2>1 DEF Found
<1> HIDE DEF S
<1>3. /\ CloseTables(S, conn) /\ pendingResponses' \in [Sub -> SUBSET Request]
      /\ \A s \in Sub : pendingResponses'[s] \subseteq pendingResponses[s]
  BY <1>1, <1>2, CloseAllTables
<1>4. Early => acceptor.gen \notin S
  BY <1>2 DEF IInv, Registering, Fresh, Stale
<1>5. batch' \in [Sub -> SUBSET Event] /\ \A s \in Sub : batch'[s] \subseteq batch[s]
  BY <1>1, TakesEvent
<1>6. /\ \A s \in Sub : /\ \A x \in batch'[s] : x \notin {Wake, Timer} => Known(x.gen)
                        /\ \A p \in pendingResponses'[s] \cup items'[s] : Known(p.gen)
                        /\ half'[s].fd # 0 => Known(half'[s].gen)
      /\ \A t \in tasks' : Known(t.gen)
  BY <1>1, <1>3, <1>5, AllKnown
<1>7. misfired' \in BOOLEAN /\ (misfired => misfired')
  BY <1>1 DEF IInv, TypeOK
<1>8. /\ wakeFd' \in [Sub -> BOOLEAN] /\ items' \in [Sub -> SUBSET Request]
      /\ half' \in [Sub -> [fd : Fd, gen : Gen] \cup {Whole, Emptied}] /\ tasks' \in SUBSET Job
  BY <1>1, TypesNow
<1> QED
  BY <1>1, <1>2, <1>3, <1>4, <1>5, <1>6, <1>7, <1>8, TypesNow, Onwards

LEMMA HandleWakeKeeps ==
  ASSUME IInv, NEW r \in Sub, NEW e, HandleWake(r, e) PROVE IInv'
<1>1. /\ Take(r, e)
      /\ wakeFd' = [wakeFd EXCEPT ![r] = FALSE] /\ half' = [half EXCEPT ![r] = Emptied]
      /\ UNCHANGED <<conn, conns, contexts, pendingResponses, items, tasks,
                     activeConnections, misfired, accepting>>
  BY DEF HandleWake
<1>2. batch' \in [Sub -> SUBSET Event] /\ \A s \in Sub : batch'[s] \subseteq batch[s]
  BY <1>1, TakesEvent
<1>3. /\ half' \in [Sub -> [fd : Fd, gen : Gen] \cup {Whole, Emptied}]
      /\ \A s \in Sub : half'[s].fd # 0 => Known(half'[s].gen)
      /\ wakeFd' \in [Sub -> BOOLEAN]
  BY <1>1, TypesNow, AllKnown DEF Emptied
<1>4. /\ \A s \in Sub : /\ \A x \in batch'[s] : x \notin {Wake, Timer} => Known(x.gen)
                        /\ \A p \in pendingResponses'[s] \cup items'[s] : Known(p.gen)
      /\ \A t \in tasks' : Known(t.gen)
  BY <1>1, <1>2, AllKnown
<1> QED
  BY <1>1, <1>2, <1>3, <1>4, TypesNow, Moves

LEMMA TakeResponsesKeeps ==
  ASSUME IInv, NEW r \in Sub, TakeResponses(r) PROVE IInv'
<1>1. /\ half' = [half EXCEPT ![r] = Whole]
      /\ items' = [items EXCEPT ![r] = pendingResponses[r]]
      /\ pendingResponses' = [pendingResponses EXCEPT ![r] = {}]
      /\ UNCHANGED <<conn, conns, contexts, wakeFd, batch, tasks, activeConnections,
                     misfired, accepting>>
  BY DEF TakeResponses
<1>2. /\ half' \in [Sub -> [fd : Fd, gen : Gen] \cup {Whole, Emptied}]
      /\ items' \in [Sub -> SUBSET Request] /\ pendingResponses' \in [Sub -> SUBSET Request]
  BY <1>1, TypesNow
<1>3. \A s \in Sub : half'[s].fd # 0 => Known(half'[s].gen)
  BY <1>1, TypesNow, AllKnown DEF Whole
<1>4. \A s \in Sub : \A p \in pendingResponses'[s] \cup items'[s] : Known(p.gen)
  BY <1>1, TypesNow, AllKnown
<1>5. /\ \A s \in Sub : \A x \in batch'[s] : x \notin {Wake, Timer} => Known(x.gen)
      /\ \A t \in tasks' : Known(t.gen)
  BY <1>1, AllKnown
<1> QED
  BY <1>1, <1>2, <1>3, <1>4, <1>5, TypesNow, Moves

LEMMA PollKeeps ==
  ASSUME IInv, NEW r \in Sub, NEW timers \in {{}, {Timer}}, Poll(r, timers) PROVE IInv'
<1> DEFINE c == [g \in Gen |-> IF g \in Ready(r) THEN Arm(conn[g], "off") ELSE conn[g]]
<1>1. /\ batch' = [batch EXCEPT ![r] = {EventOf(g) : g \in Ready(r)} \cup timers
                                         \cup (IF wakeFd[r] THEN {Wake} ELSE {})]
      /\ conn' = c
      /\ UNCHANGED <<conns, contexts, pendingResponses, wakeFd, items, half, tasks,
                     activeConnections, misfired, accepting>>
  BY DEF Poll
<1>2. \A g \in Ready(r) : /\ EventOf(g) \in [gen : Gen, io : {"in", "out"}, hup : BOOLEAN]
                          /\ EventOf(g).gen = g /\ Known(g)
  <2> SUFFICES ASSUME NEW g \in Ready(r)
               PROVE  /\ EventOf(g) \in [gen : Gen, io : {"in", "out"}, hup : BOOLEAN]
                      /\ EventOf(g).gen = g /\ Known(g)
    OBVIOUS
  <2>1. g \in Gen /\ Open(conn[g]) /\ conn[g].armed \in {"in", "out"}
    BY DEF Ready
  <2>2. g < nextGen
    BY <2>1 DEF IInv, TypeOK, Gen, Open
  <2>3. Early => g # acceptor.gen
    BY <2>1 DEF IInv, Registering, Fresh
  <2> QED
    BY <2>1, <2>2, <2>3 DEF EventOf, Known, Named
<1>3. batch' \in [Sub -> SUBSET Event]
  BY <1>1, <1>2, TypesNow DEF Event
<1>4. \A s \in Sub : \A x \in batch'[s] : x \notin {Wake, Timer} => Known(x.gen)
  BY <1>1, <1>2, TypesNow, AllKnown
<1>5. \A g \in Gen : c[g] \in Connection /\ Sound(g, c[g]) /\ Like(conn[g], c[g])
  <2> SUFFICES ASSUME NEW g \in Gen, NEW o, o = conn[g], NEW a, a = Arm(o, "off")
               PROVE  a \in Connection /\ Sound(g, a) /\ Like(o, a)
    BY TypesNow
  <2>1. o \in Connection /\ Sound(g, o)
    BY TypesNow
  <2> QED
    BY <2>1, ArmGood DEF Good, Plain, Like, Open
<1>6. Early => Fresh(c[acceptor.gen])
  <2> SUFFICES ASSUME Early PROVE Fresh(c[acceptor.gen])
    OBVIOUS
  <2>1. acceptor.gen \in Gen /\ acceptor.gen \notin Ready(r)
    BY <1>2 DEF IInv, Registered, Early, Known
  <2> QED
    BY <2>1, TypesNow
<1>7. c \in [Gen -> Connection] /\ \A g \in Gen : Sound(g, c[g]) /\ Like(conn[g], c[g])
  BY <1>5
<1> HIDE DEF c
<1>8. /\ \A s \in Sub : /\ \A p \in pendingResponses'[s] \cup items'[s] : Known(p.gen)
                        /\ half'[s].fd # 0 => Known(half'[s].gen)
      /\ \A t \in tasks' : Known(t.gen)
  BY <1>1, AllKnown
<1> QED
  BY <1>1, <1>3, <1>4, <1>6, <1>7, <1>8, TypesNow, Moves

-----------------------------------------------------------------------------
(* The workers and the clients. *)

\* A task goes on to its next phase.
LEMMA TaskGoesOn ==
  ASSUME IInv, NEW t \in tasks, NEW phase \in {"queued", "posted", "done"}
  PROVE  /\ (tasks \ {t}) \cup {[t EXCEPT !.phase = phase]} \in SUBSET Job
         /\ \A u \in (tasks \ {t}) \cup {[t EXCEPT !.phase = phase]} : Known(u.gen)
         /\ Known(t.gen) /\ t.gen \in Gen /\ t \in Job /\ conn[t.gen].sub \in Sub
<1>1. t \in Job /\ Known(t.gen) /\ t.gen \in Gen
  BY AllKnown DEF IInv, TypeOK, Known, Named
<1>2. conn[t.gen].sub \in Sub
  BY <1>1, TypesNow DEF Connection
<1> DEFINE u == [t EXCEPT !.phase = phase]
<1>3. u \in Job /\ u.gen = t.gen
  BY <1>1 DEF Job
<1> HIDE DEF u
<1>4. (tasks \ {t}) \cup {u} \in SUBSET Job /\ \A v \in (tasks \ {t}) \cup {u} : Known(v.gen)
  BY <1>1, <1>3, TypesNow, AllKnown
<1> QED
  BY <1>1, <1>2, <1>4 DEF u

LEMMA RespondKeeps ==
  ASSUME IInv, NEW t \in tasks, NEW ok \in BOOLEAN, Respond(t, ok) PROVE IInv'
<1> DEFINE r == conn[t.gen].sub
           p == [gen |-> t.gen, req |-> t.req, keep |-> ok /\ t.kind = "keep"]
<1>1. /\ pendingResponses' = [pendingResponses EXCEPT ![r] = @ \cup {p}]
      /\ tasks' = (tasks \ {t}) \cup {[t EXCEPT !.phase = "posted"]}
      /\ UNCHANGED <<conn, conns, contexts, wakeFd, batch, items, half, activeConnections,
                     misfired, accepting>>
  BY DEF Respond
<1>2. /\ tasks' \in SUBSET Job /\ \A u \in tasks' : Known(u.gen)
      /\ Known(t.gen) /\ t.gen \in Gen /\ t \in Job /\ r \in Sub
  BY <1>1, TaskGoesOn
<1>3. p \in Request /\ p.gen = t.gen
  BY <1>2 DEF Request, Job
<1> HIDE DEF p, r
<1>4. pendingResponses' \in [Sub -> SUBSET Request]
  BY <1>1, <1>2, <1>3, TypesNow
<1>5. \A s \in Sub : /\ \A x \in batch'[s] : x \notin {Wake, Timer} => Known(x.gen)
                     /\ \A q \in pendingResponses'[s] \cup items'[s] : Known(q.gen)
                     /\ half'[s].fd # 0 => Known(half'[s].gen)
  BY <1>1, <1>2, <1>3, TypesNow, AllKnown
<1> QED
  BY <1>1, <1>2, <1>4, <1>5, TypesNow, Moves

LEMMA NotifyKeeps ==
  ASSUME IInv, NEW t \in tasks, Notify(t) PROVE IInv'
<1>1. /\ wakeFd' = [wakeFd EXCEPT ![conn[t.gen].sub] = TRUE]
      /\ tasks' = (tasks \ {t}) \cup {[t EXCEPT !.phase = "done"]}
      /\ UNCHANGED <<conn, conns, contexts, pendingResponses, batch, items, half,
                     activeConnections, misfired, accepting>>
  BY DEF Notify, Signal
<1>2. tasks' \in SUBSET Job /\ \A u \in tasks' : Known(u.gen)
  BY <1>1, TaskGoesOn
<1>3. wakeFd' \in [Sub -> BOOLEAN]
  BY <1>1, TypesNow
<1>4. \A s \in Sub : /\ \A x \in batch'[s] : x \notin {Wake, Timer} => Known(x.gen)
                     /\ \A q \in pendingResponses'[s] \cup items'[s] : Known(q.gen)
                     /\ half'[s].fd # 0 => Known(half'[s].gen)
  BY <1>1, AllKnown
<1> QED
  BY <1>1, <1>2, <1>3, <1>4, TypesNow, Moves

\* One connection that is open, or named by a task, changes; its fd, reactor and state do not.
LEMMA OneMoves ==
  ASSUME IInv, NEW g \in Gen, NEW p \in Connection, Sound(g, p), Like(conn[g], p),
         Early => g # acceptor.gen \/ Fresh(p)
  PROVE  LET c == [conn EXCEPT ![g] = p]
         IN  /\ c \in [Gen -> Connection]
             /\ \A h \in Gen : Sound(h, c[h]) /\ Like(conn[h], c[h])
             /\ Early => Fresh(c[acceptor.gen])
<1> DEFINE c == [conn EXCEPT ![g] = p]
<1>1. c \in [Gen -> Connection] /\ \A h \in Gen : c[h] = IF h = g THEN p ELSE conn[h]
  BY TypesNow
<1> HIDE DEF c
<1>2. \A h \in Gen : Sound(h, c[h]) /\ Like(conn[h], c[h])
  BY <1>1, TypesNow
<1>3. Early => acceptor.gen \in Gen
  BY DEF IInv, Registered, Early
<1>4. Early => Fresh(c[acceptor.gen])
  BY <1>1, <1>3, TypesNow
<1> QED
  BY <1>1, <1>2, <1>4 DEF c

LEMMA ThrowForeignKeeps ==
  ASSUME IInv, NEW t \in tasks, ThrowForeign(t) PROVE IInv'
<1> DEFINE g == t.gen
           p == [conn[g] EXCEPT !.mute = TRUE]
<1>1. /\ conn' = [conn EXCEPT ![g].mute = TRUE]
      /\ tasks' = (tasks \ {t}) \cup {[t EXCEPT !.phase = "done"]}
      /\ UNCHANGED <<conns, contexts, pendingResponses, wakeFd, batch, items, half,
                     activeConnections, misfired, accepting>>
  BY DEF ThrowForeign
<1>2. tasks' \in SUBSET Job /\ \A u \in tasks' : Known(u.gen)
  BY <1>1, TaskGoesOn
<1>3. g \in Gen /\ Known(g) /\ conn[g] \in Connection /\ Sound(g, conn[g])
  BY TaskGoesOn, TypesNow
<1>4. p \in Connection /\ Sound(g, p) /\ Like(conn[g], p)
  <2> SUFFICES ASSUME NEW o \in Connection, Sound(g, o), NEW q, q = [o EXCEPT !.mute = TRUE]
               PROVE  q \in Connection /\ Sound(g, q) /\ Like(o, q)
    BY <1>3
  <2>1. /\ q \in Connection /\ q.buf = o.buf /\ q.rx = o.rx /\ q.resp = o.resp
        /\ q.answered = o.answered /\ q.fd = o.fd /\ q.sub = o.sub /\ q.peer = o.peer
    BY DEF Connection
  <2> QED
    BY <2>1 DEF Sound, Own, Like, Open
<1>5. conn' = [conn EXCEPT ![g] = p]
  BY <1>1, <1>3, TypesNow
<1> HIDE DEF p
<1>6. /\ conn' \in [Gen -> Connection]
      /\ \A h \in Gen : Sound(h, conn'[h]) /\ Like(conn[h], conn'[h])
      /\ Early => Fresh(conn'[acceptor.gen])
  BY <1>3, <1>4, <1>5, OneMoves DEF Known
<1>7. \A s \in Sub : /\ \A x \in batch'[s] : x \notin {Wake, Timer} => Known(x.gen)
                     /\ \A q \in pendingResponses'[s] \cup items'[s] : Known(q.gen)
                     /\ half'[s].fd # 0 => Known(half'[s].gen)
  BY <1>1, AllKnown
<1> QED
  BY <1>1, <1>2, <1>6, <1>7, TypesNow, Moves

LEMMA LeaveKeeps ==
  ASSUME IInv, NEW t \in tasks, Leave(t) PROVE IInv'
<1> DEFINE g == t.gen
           o == conn[g]
           p == [o EXCEPT !.inFlight = @ - 1]
<1>1. /\ tasks' = tasks \ {t}
      /\ conn' = IF contexts[o.sub][o.fd] = g /\ o.inFlight > 0
                 THEN [conn EXCEPT ![g].inFlight = @ - 1] ELSE conn
      /\ UNCHANGED <<conns, contexts, pendingResponses, wakeFd, batch, items, half,
                     activeConnections, misfired, accepting>>
  BY DEF Leave
<1>2. tasks' \in SUBSET Job /\ \A u \in tasks' : Known(u.gen)
  BY <1>1, TypesNow, AllKnown
<1>3. g \in Gen /\ Known(g) /\ conn[g] \in Connection /\ Sound(g, conn[g])
  BY TaskGoesOn, TypesNow
<1>4. \A s \in Sub : /\ \A x \in batch'[s] : x \notin {Wake, Timer} => Known(x.gen)
                     /\ \A q \in pendingResponses'[s] \cup items'[s] : Known(q.gen)
                     /\ half'[s].fd # 0 => Known(half'[s].gen)
  BY <1>1, AllKnown
<1>5. CASE contexts[o.sub][o.fd] = g /\ o.inFlight > 0
  <2>1. p \in Connection /\ Sound(g, p) /\ Like(o, p)
    <3> SUFFICES ASSUME NEW k \in Connection, Sound(g, k), k.inFlight > 0,
                        NEW q, q = [k EXCEPT !.inFlight = @ - 1]
                 PROVE  q \in Connection /\ Sound(g, q) /\ Like(k, q)
      BY <1>3, <1>5
    <3>1. k.inFlight \in Nat /\ k.inFlight - 1 \in Nat
      BY DEF Connection
    <3>2. /\ q \in Connection /\ q.buf = k.buf /\ q.rx = k.rx /\ q.resp = k.resp
          /\ q.answered = k.answered /\ q.fd = k.fd /\ q.sub = k.sub /\ q.peer = k.peer
      BY <3>1 DEF Connection
    <3> QED
      BY <3>2 DEF Sound, Own, Like, Open
  <2>2. conn' = [conn EXCEPT ![g] = p]
    BY <1>1, <1>3, <1>5, TypesNow
  <2> HIDE DEF p
  <2>3. /\ conn' \in [Gen -> Connection]
        /\ \A h \in Gen : Sound(h, conn'[h]) /\ Like(conn[h], conn'[h])
        /\ Early => Fresh(conn'[acceptor.gen])
    BY <1>3, <2>1, <2>2, OneMoves DEF Known
  <2> QED
    BY <1>1, <1>2, <1>4, <2>3, TypesNow, Moves
<1>6. CASE ~ (contexts[o.sub][o.fd] = g /\ o.inFlight > 0)
  <2>1. conn' = conn
    BY <1>1, <1>6
  <2> QED
    BY <1>1, <1>2, <1>4, <2>1, TypesNow, Moves
<1> QED
  BY <1>5, <1>6

LEMMA AppendAfter ==
  ASSUME NEW S, NEW s \in Seq(S), NEW t \in Seq(S), NEW k \in S
  PROVE  s \o t \in Seq(S) /\ s \o Append(t, k) = Append(s \o t, k)
<1>1. s \o t \in Seq(S) /\ <<k>> \in Seq(S)
  OBVIOUS
<1>2. Append(t, k) = t \o <<k>> /\ Append(s \o t, k) = (s \o t) \o <<k>>
  BY <1>1, AppendIsConcat
<1>3. (s \o t) \o <<k>> = s \o (t \o <<k>>)
  BY <1>1, ConcatAssociative
<1> QED
  BY <1>1, <1>2, <1>3

\* What a client or the passing of time does to its connection.
LEMMA ClientMoves ==
  ASSUME IInv, NEW g \in Gen, NEW p \in Connection, Sound(g, p), Like(conn[g], p),
         Early => g # acceptor.gen \/ Fresh(p),
         conn' = [conn EXCEPT ![g] = p], UNCHANGED server
  PROVE  IInv'
<1>1. /\ conn' \in [Gen -> Connection]
      /\ \A h \in Gen : Sound(h, conn'[h]) /\ Like(conn[h], conn'[h])
      /\ Early => Fresh(conn'[acceptor.gen])
  BY OneMoves
<1>2. UNCHANGED <<conns, contexts, pendingResponses, wakeFd, batch, items, half, tasks,
                  activeConnections, misfired, accepting>>
  BY DEF server
<1> QED
  BY <1>1, <1>2, TypesNow, AllKnown, Moves

LEMMA ClientKeeps ==
  ASSUME IInv, NEW g \in Gen, ClientStep(g) PROVE IInv'
<1> DEFINE o == conn[g]
<1>1. o \in Connection /\ Sound(g, o)
  BY TypesNow
<1>2. Early /\ g = acceptor.gen => Fresh(o)
  BY TypesNow
<1>3. ASSUME NEW k \in Token, Send(g, k) PROVE IInv'
  <2> DEFINE rx == Append(o.rx, k)
             p == [o EXCEPT !.rx = Append(@, k), !.tokens = @ + 1,
                            !.asked = IF k = "part" THEN @ ELSE @ + 1,
                            !.strict = @ /\ conn[g].asked = Len(conn[g].answered)]
  <2>1. /\ o.peer = "open" /\ ~ (k = "part" /\ Partial(g))
        /\ conn' = [conn EXCEPT ![g] =
              [conn[g] EXCEPT !.rx = Append(@, k), !.tokens = @ + 1,
                              !.asked = IF k = "part" THEN @ ELSE @ + 1,
                              !.strict = @ /\ conn[g].asked = Len(conn[g].answered)]]
        /\ UNCHANGED server
    BY <1>3 DEF Send
  <2>2. conn' = [conn EXCEPT ![g] = p]
    BY <2>1, Zenon
  <2>3. /\ o.rx \in Seq(Token) /\ o.buf \in Seq(Token) /\ rx \in Seq(Token)
        /\ rx = Append(o.rx, k) /\ o.asked \in Nat /\ o.asked + 1 \in Nat /\ o.tokens + 1 \in Nat
    BY <1>1 DEF Connection
  <2>4. /\ p \in Connection /\ p.rx = rx /\ p.buf = o.buf /\ p.resp = o.resp
        /\ p.answered = o.answered /\ p.fd = o.fd /\ p.sub = o.sub /\ p.peer = o.peer
        /\ p.armed = o.armed /\ p.idle = o.idle
    <3> DEFINE a == IF k = "part" THEN o.asked ELSE o.asked + 1
               b == o.strict /\ o.asked = Len(o.answered)
               n == o.tokens + 1
    <3>1. a \in Nat /\ b \in BOOLEAN /\ n \in Nat
      BY <2>3
    <3>2. p = [o EXCEPT !.rx = rx, !.tokens = n, !.asked = a, !.strict = b]
      BY Zenon
    <3> HIDE DEF a, b, n, p, rx, o
    <3> QED
      BY <1>1, <2>3, <3>1, <3>2 DEF Connection
  <2>5. NoTwoParts(o.buf \o rx)
    <3> DEFINE s == o.buf \o o.rx
    <3>1. s \in Seq(Token) /\ o.buf \o rx = Append(s, k)
      <4>1. \A x, y \in Seq(Token) : x \o y \in Seq(Token) /\ x \o Append(y, k) = Append(x \o y, k)
        BY AppendAfter
      <4> HIDE DEF o, rx, p
      <4> QED
        BY <2>3, <4>1, Zenon
    <3>2. NoTwoParts(s) /\ ~ (k = "part" /\ s # <<>> /\ s[Len(s)] = "part")
      BY <1>1, <2>1 DEF Sound, Partial
    <3> HIDE DEF s
    <3>3. ASSUME NEW i \in 1..(Len(Append(s, k)) - 1)
          PROVE  ~ (Append(s, k)[i] = "part" /\ Append(s, k)[i + 1] = "part")
      <4>1. Len(s) \in Nat /\ Len(Append(s, k)) = Len(s) + 1 /\ i \in 1..Len(s)
        BY <3>1
      <4>2. Append(s, k)[i] = s[i]
        BY <3>1, <4>1
      <4>3. CASE i = Len(s)
        <5>1. Append(s, k)[i + 1] = k /\ s # <<>>
          BY <3>1, <4>1, <4>3
        <5> QED
          BY <3>2, <4>2, <4>3, <5>1
      <4>4. CASE i # Len(s)
        <5>1. i \in 1..(Len(s) - 1) /\ Append(s, k)[i + 1] = s[i + 1]
          BY <3>1, <4>1, <4>4
        <5> QED
          BY <3>2, <4>2, <5>1 DEF NoTwoParts
      <4> QED
        BY <4>3, <4>4
    <3> QED
      BY <3>1, <3>3 DEF NoTwoParts
  <2> HIDE DEF rx, p
  <2>6. Sound(g, p) /\ Like(o, p)
    BY <1>1, <2>4, <2>5 DEF Sound, Own, Like, Open
  <2>7. Early => g # acceptor.gen \/ Fresh(p)
    BY <1>2, <2>4 DEF Fresh
  <2> QED
    BY <2>1, <2>2, <2>4, <2>6, <2>7, ClientMoves
<1>4. ASSUME Finish(g) \/ Reset(g) PROVE IInv'
  <2>1. PICK peer \in {"fin", "reset"} : conn' = [conn EXCEPT ![g].peer = peer]
    BY <1>4 DEF Finish, Reset
  <2>2. o.peer \in {"open", "fin"} /\ UNCHANGED server
    BY <1>4 DEF Finish, Reset
  <2> DEFINE p == [o EXCEPT !.peer = peer]
  <2>3. conn' = [conn EXCEPT ![g] = p]
    BY <2>1
  <2>4. /\ p \in Connection /\ p.rx = o.rx /\ p.buf = o.buf /\ p.resp = o.resp
        /\ p.answered = o.answered /\ p.fd = o.fd /\ p.sub = o.sub /\ p.peer = peer
        /\ p.armed = o.armed /\ p.idle = o.idle
    BY <1>1 DEF Connection
  <2> HIDE DEF p
  <2>5. Sound(g, p) /\ Like(o, p)
    BY <1>1, <2>2, <2>4 DEF Sound, Own, Like, Open
  <2>6. Early => g # acceptor.gen \/ Fresh(p)
    BY <1>2, <2>4 DEF Fresh
  <2> QED
    BY <2>2, <2>3, <2>4, <2>5, <2>6, ClientMoves
<1>5. ASSUME Elapse(g) PROVE IInv'
  <2> DEFINE p == [o EXCEPT !.idle = TRUE]
  <2>1. acceptor.gen # g /\ conn' = [conn EXCEPT ![g] = p] /\ UNCHANGED server
    BY <1>5 DEF Elapse
  <2>2. /\ p \in Connection /\ p.rx = o.rx /\ p.buf = o.buf /\ p.resp = o.resp
        /\ p.answered = o.answered /\ p.fd = o.fd /\ p.sub = o.sub /\ p.peer = o.peer
    BY <1>1 DEF Connection
  <2> HIDE DEF p
  <2>3. Sound(g, p) /\ Like(o, p)
    BY <1>1, <2>2 DEF Sound, Own, Like, Open
  <2> QED
    BY <2>1, <2>2, <2>3, ClientMoves
<1>6. ASSUME Drag(g) PROVE IInv'
  <2> DEFINE p == [o EXCEPT !.slow = TRUE]
  <2>1. conn' = [conn EXCEPT ![g] = p] /\ UNCHANGED server
    BY <1>6 DEF Drag
  <2>2. /\ p \in Connection /\ p.rx = o.rx /\ p.buf = o.buf /\ p.resp = o.resp
        /\ p.answered = o.answered /\ p.fd = o.fd /\ p.sub = o.sub /\ p.peer = o.peer
        /\ p.armed = o.armed /\ p.idle = o.idle
    BY <1>1 DEF Connection
  <2> HIDE DEF p
  <2>3. Sound(g, p) /\ Like(o, p)
    BY <1>1, <2>2 DEF Sound, Own, Like, Open
  <2>4. Early => g # acceptor.gen \/ Fresh(p)
    BY <1>2, <2>2 DEF Fresh
  <2> QED
    BY <2>1, <2>2, <2>3, <2>4, ClientMoves
<1> QED
  BY <1>3, <1>4, <1>5, <1>6 DEF ClientStep

-----------------------------------------------------------------------------
(* The steps of handleAccept. *)

LEMMA AcceptorNow ==
  ASSUME IInv
  PROVE  /\ acceptor.pc \in {"accept", "insert", "add", "count"}
         /\ acceptor = [pc |-> acceptor.pc, gen |-> acceptor.gen]
         /\ acceptor.pc = "accept" <=> acceptor = Idle
         /\ acceptor.pc # "accept" =>
              LET o == conn[acceptor.gen]
              IN  /\ acceptor.gen \in Gen /\ acceptor.gen # 0 /\ acceptor.gen < nextGen
                  /\ o \in Connection /\ o.fd \in Fd /\ o.sub \in Sub
<1>1. /\ acceptor.pc \in {"accept", "insert", "add", "count"}
      /\ acceptor = [pc |-> acceptor.pc, gen |-> acceptor.gen]
  BY DEF IInv, TypeOK
<1>2. acceptor.pc = "accept" <=> acceptor = Idle
  BY <1>1 DEF IInv, Registered, Idle
<1>3. ASSUME acceptor.pc # "accept"
      PROVE  /\ acceptor.gen \in Gen /\ acceptor.gen # 0 /\ acceptor.gen < nextGen
             /\ conn[acceptor.gen] \in Connection
             /\ conn[acceptor.gen].fd \in Fd /\ conn[acceptor.gen].sub \in Sub
  <2>1. acceptor.gen \in Gen /\ acceptor.gen = nextGen - 1 /\ nextGen \in Nat
    BY <1>3, ReactorAssumption DEF IInv, Registered, TypeOK
  <2>2. acceptor.gen # 0 /\ acceptor.gen < nextGen
    BY <2>1 DEF Gen
  <2> QED
    BY <2>1, <2>2, TypesNow DEF IInv, Registered, Connection
<1> QED
  BY <1>1, <1>2, <1>3

LEMMA AddToEpollKeeps ==
  ASSUME IInv, AddToEpoll PROVE IInv'
<1> DEFINE g == acceptor.gen
           p == [conn[g] EXCEPT !.armed = "in"]
<1>1. /\ acceptor.pc = "add" /\ Open(conn[g])
      /\ conn' = [conn EXCEPT ![g].armed = "in"]
      /\ acceptor' = [acceptor EXCEPT !.pc = "count"]
      /\ UNCHANGED <<config, conns, contexts, pendingResponses, wakeFd, batch, items, half,
                     tasks, nextGen, nextSubReactor, activeConnections, misfired>>
  BY DEF AddToEpoll
<1>2. g \in Gen /\ g # 0 /\ g < nextGen /\ conn[g] \in Connection /\ Sound(g, conn[g])
  BY <1>1, AcceptorNow, TypesNow
<1>3. acceptor'.pc = "count" /\ acceptor'.gen = g
      /\ acceptor' \in [pc : {"accept", "insert", "add", "count"}, gen : Gen \cup {0}]
  BY <1>1, <1>2, AcceptorNow
<1>4. conn' = [conn EXCEPT ![g] = p]
  BY <1>1, <1>2, TypesNow
<1>5. /\ p = Arm(conn[g], "in") /\ p \in Connection /\ Sound(g, p) /\ Like(conn[g], p)
  <2>1. p = Arm(conn[g], "in")
    BY DEF Arm
  <2> HIDE DEF p
  <2> QED
    BY <1>2, <2>1, ArmGood DEF Good, Plain, Like, Open
<1> HIDE DEF p
<1>6. conn' \in [Gen -> Connection] /\ \A h \in Gen : Sound(h, conn'[h]) /\ Like(conn[h], conn'[h])
  BY <1>2, <1>4, <1>5, TypesNow
<1>7. TypeOK'
  BY <1>1, <1>3, <1>6 DEF IInv, TypeOK, Like
<1>8. Registered'
  BY <1>1, <1>2, <1>3, <1>6 DEF IInv, Registered, Named, Like
<1>9. Recorded'
  BY <1>1, <1>6 DEF IInv, Tables, Recorded, Like
<1>10. TablesAgree'
  <2>1. \A h \in Gen : Current(h)' <=> Current(h)
    BY <1>1, <1>6 DEF Current, Like
  <2>2. \A r \in Sub, fd \in Fd : contexts[r][fd] \in Gen \cup {0}
    BY DEF IInv, TypeOK
  <2>3. \A h : acceptor # [pc |-> "insert", gen |-> h]
    BY <1>1
  <2> QED
    BY <1>1, <1>6, <2>1, <2>2, <2>3 DEF IInv, Tables, TablesAgree, Like
<1>11. Counted'
  BY <1>1, <1>3 DEF IInv, Tables, Counted, InTable, Idle
<1>12. Registering'
  BY <1>3 DEF Registering, Early
<1> QED
  BY <1>6, <1>7, <1>8, <1>9, <1>10, <1>11, <1>12 DEF IInv, Tables

LEMMA CountConnectionKeeps ==
  ASSUME IInv, CountConnection PROVE IInv'
<1>1. /\ acceptor.pc = "count" /\ activeConnections' = activeConnections + 1
      /\ acceptor' = Idle
      /\ UNCHANGED <<config, conn, conns, contexts, pendingResponses, wakeFd, batch, items,
                     half, tasks, nextGen, nextSubReactor, misfired>>
  BY DEF CountConnection
<1>2. acceptor'.pc = "accept" /\ acceptor'.gen = 0 /\ acceptor # Idle
  BY <1>1 DEF Idle
<1>3. TypeOK'
  BY <1>1 DEF IInv, TypeOK, Idle
<1>4. Registered' /\ \A g \in Gen : Sound(g, conn'[g])
  BY <1>1, <1>2 DEF IInv, Registered, Named
<1>5. Recorded'
  BY <1>1 DEF IInv, Tables, Recorded
<1>6. TablesAgree'
  <2>1. \A h : acceptor # [pc |-> "insert", gen |-> h]
    BY <1>1
  <2> QED
    BY <1>1, <2>1 DEF IInv, Tables, TablesAgree, Current
<1>7. Counted'
  <2>1. Cardinality(InTable) \in Nat /\ InTable' = InTable
    BY <1>1, InTableFinite DEF InTable
  <2> HIDE DEF InTable
  <2> QED
    BY <1>1, <1>2, <2>1 DEF IInv, Tables, Counted
<1>8. Registering'
  BY <1>2 DEF Registering, Early
<1> QED
  BY <1>3, <1>4, <1>5, <1>6, <1>7, <1>8 DEF IInv, Tables

LEMMA InsertContextKeeps ==
  ASSUME IInv, InsertContext PROVE IInv'
<1> DEFINE g == acceptor.gen
           o == conn[g]
<1>1. /\ acceptor.pc = "insert"
      /\ contexts' = [contexts EXCEPT ![o.sub][o.fd] = g]
      /\ acceptor' = [acceptor EXCEPT !.pc = "add"]
      /\ UNCHANGED <<config, conn, conns, pendingResponses, wakeFd, batch, items, half, tasks,
                     nextGen, nextSubReactor, activeConnections, misfired>>
  BY DEF InsertContext
<1>2. g \in Gen /\ g # 0 /\ g < nextGen /\ o \in Connection /\ o.fd \in Fd /\ o.sub \in Sub
  BY <1>1, AcceptorNow
<1>3. acceptor'.pc = "add" /\ acceptor'.gen = g
      /\ acceptor' \in [pc : {"accept", "insert", "add", "count"}, gen : Gen \cup {0}]
  BY <1>1, <1>2, AcceptorNow
<1>4. Open(o) /\ \A h \in Gen : Open(conn[h]) /\ conn[h].fd = o.fd => h = g
  BY <1>1 DEF IInv, Registering, Early
<1>5. /\ contexts' \in [Sub -> [Fd -> Gen \cup {0}]]
      /\ \A r \in Sub, fd \in Fd :
           contexts'[r][fd] = IF r = o.sub /\ fd = o.fd THEN g ELSE contexts[r][fd]
  BY <1>1, <1>2 DEF IInv, TypeOK
<1>6. TypeOK'
  BY <1>1, <1>3, <1>5 DEF IInv, TypeOK
<1>7. Registered' /\ \A h \in Gen : Sound(h, conn'[h])
  BY <1>1, <1>2, <1>3 DEF IInv, Registered, Named
<1>8. Recorded'
  BY <1>1 DEF IInv, Tables, Recorded
<1>9. TablesAgree'
  <2>1. conns[o.fd] = [generation |-> g, owner |-> o.sub, context |-> TRUE]
    <3>1. Current(g)
      BY <1>2, <1>4 DEF IInv, Tables, TablesAgree
    <3>2. conns[o.fd].context /\ conns[o.fd].generation = g
      BY <3>1 DEF Current
    <3>3. conns[o.fd].owner = o.sub
      BY <1>2, <3>2 DEF IInv, Tables, Recorded
    <3>4. conns[o.fd] \in [generation : Gen \cup {0}, owner : Sub, context : BOOLEAN]
      BY <1>2 DEF IInv, TypeOK
    <3> QED
      BY <3>2, <3>3, <3>4
  <2>2. ASSUME NEW r \in Sub, NEW fd \in Fd, contexts'[r][fd] # 0
        PROVE  LET h == contexts'[r][fd]
               IN  /\ conns'[fd] = [generation |-> h, owner |-> r, context |-> TRUE]
                   /\ Open(conn'[h]) /\ conn'[h].fd = fd /\ conn'[h].sub = r
    <3>1. CASE r = o.sub /\ fd = o.fd
      BY <1>1, <1>4, <1>5, <2>1, <3>1
    <3>2. CASE ~ (r = o.sub /\ fd = o.fd)
      <4>1. contexts'[r][fd] = contexts[r][fd]
        BY <1>5, <3>2
      <4> QED
        BY <1>1, <2>2, <4>1 DEF IInv, Tables, TablesAgree
    <3> QED
      BY <3>1, <3>2
  <2>3. ASSUME NEW h \in Gen, Open(conn'[h])
        PROVE  /\ Current(h)'
               /\ \/ contexts'[conn'[h].sub][conn'[h].fd] = h
                  \/ acceptor' = [pc |-> "insert", gen |-> h]
    <3>1. Open(conn[h]) /\ conn' = conn
      BY <1>1, <2>3
    <3>2. Current(h)'
      BY <1>1, <3>1 DEF IInv, Tables, TablesAgree, Current
    <3>3. CASE h = g
      BY <1>2, <1>5, <3>1, <3>2, <3>3
    <3>4. CASE h # g
      <4>1. conn[h].fd # o.fd
        BY <1>4, <3>1, <3>4
      <4>2. acceptor # [pc |-> "insert", gen |-> h]
        BY <3>4
      <4>3. contexts[conn[h].sub][conn[h].fd] = h
        BY <3>1, <4>2 DEF IInv, Tables, TablesAgree
      <4>4. h < nextGen
        BY <3>1 DEF IInv, TypeOK, Gen, Open
      <4>5. conn[h].sub \in Sub /\ conn[h].fd \in Fd
        BY <4>4, TypesNow DEF Connection, IInv, Registered
      <4> QED
        BY <1>5, <3>1, <3>2, <4>1, <4>3, <4>5
    <3> QED
      BY <3>3, <3>4
  <2> QED
    BY <2>2, <2>3 DEF TablesAgree
<1>10. Counted'
  BY <1>1, <1>3 DEF IInv, Tables, Counted, InTable, Idle
<1>11. Registering'
  BY <1>1, <1>3, <1>4 DEF IInv, Registering, Early, Unknown
<1> QED
  BY <1>6, <1>7, <1>8, <1>9, <1>10, <1>11 DEF IInv, Tables

\* The state of a connection that closes it: sound, and for the tables only not open any more.
LEMMA ClosedGood ==
  ASSUME NEW g, NEW o \in Connection, Sound(g, o)
  PROVE  /\ Closed(o) \in Connection /\ Sound(g, Closed(o))
         /\ Closed(o).fd = o.fd /\ Closed(o).sub = o.sub /\ Closed(o).peer = "closed"
<1>1. <<>> \in Seq(Token) /\ NoResponse \in Response \cup {NoResponse} /\ 0 \in Nat
  OBVIOUS
<1>2. Closed(o) \in Connection
  BY <1>1 DEF Closed, Connection
<1>3. /\ Closed(o).buf = <<>> /\ Closed(o).rx = <<>> /\ Closed(o).resp = NoResponse
      /\ Closed(o).answered = o.answered /\ Closed(o).fd = o.fd /\ Closed(o).sub = o.sub
      /\ Closed(o).peer = "closed"
  BY DEF Closed, Connection
<1> HIDE DEF Closed
<1>4. NoTwoParts(Closed(o).buf \o Closed(o).rx)
  BY <1>3 DEF NoTwoParts
<1>5. Own(g, Closed(o))
  BY <1>3 DEF Sound, Own
<1> QED
  BY <1>2, <1>3, <1>4, <1>5 DEF Sound

LEMMA AddFailsKeeps ==
  ASSUME IInv, AddFails PROVE IInv'
<1> DEFINE g == acceptor.gen
           o == conn[g]
           blank == [generation |-> 0, owner |-> 0, context |-> FALSE]
<1>1. /\ acceptor.pc = "add"
      /\ contexts' = [contexts EXCEPT ![o.sub][o.fd] = 0]
      /\ conns' = [conns EXCEPT ![o.fd] = blank]
      /\ conn' = [conn EXCEPT ![g] = Closed(o)]
      /\ acceptor' = Idle
      /\ UNCHANGED <<config, pendingResponses, wakeFd, batch, items, half, tasks,
                     nextGen, nextSubReactor, activeConnections, misfired>>
  BY DEF AddFails, Rollback
<1>2. /\ g \in Gen /\ g # 0 /\ g < nextGen /\ o \in Connection /\ o.fd \in Fd /\ o.sub \in Sub
      /\ Sound(g, o) /\ o.peer # "none" /\ acceptor # Idle
  BY <1>1, AcceptorNow, TypesNow DEF IInv, TypeOK, Gen
<1>3. \A h \in Gen : Open(conn[h]) /\ conn[h].fd = o.fd => h = g
  BY <1>1 DEF IInv, Registering, Early
<1>4. /\ Closed(o) \in Connection /\ Sound(g, Closed(o))
      /\ Closed(o).fd = o.fd /\ Closed(o).sub = o.sub /\ Closed(o).peer = "closed"
  BY <1>2, ClosedGood
<1>5. /\ conn' \in [Gen -> Connection]
      /\ \A h \in Gen : conn'[h] = IF h = g THEN Closed(o) ELSE conn[h]
  BY <1>1, <1>2, <1>4, TypesNow
<1>6. \A h \in Gen : /\ conn'[h].fd = conn[h].fd /\ conn'[h].sub = conn[h].sub
                     /\ conn'[h].peer = "none" <=> conn[h].peer = "none"
                     /\ Open(conn'[h]) <=> Open(conn[h]) /\ h # g
  BY <1>2, <1>4, <1>5 DEF Open
<1>7. /\ contexts' \in [Sub -> [Fd -> Gen \cup {0}]]
      /\ \A r \in Sub, fd \in Fd :
           contexts'[r][fd] = IF r = o.sub /\ fd = o.fd THEN 0 ELSE contexts[r][fd]
  BY <1>1, <1>2 DEF IInv, TypeOK
<1>8. /\ conns' \in [Fd -> [generation : Gen \cup {0}, owner : Sub, context : BOOLEAN]]
      /\ \A fd \in Fd : conns'[fd] = IF fd = o.fd THEN blank ELSE conns[fd]
  <2>1. blank \in [generation : Gen \cup {0}, owner : Sub, context : BOOLEAN]
    BY ReactorAssumption DEF Sub
  <2> HIDE DEF blank
  <2> QED
    BY <1>1, <1>2, <2>1 DEF IInv, TypeOK
<1>9. ~conns'[o.fd].context
  BY <1>2, <1>8
<1>10. acceptor'.pc = "accept" /\ acceptor'.gen = 0
  BY <1>1 DEF Idle
<1> HIDE DEF blank
<1>11. TypeOK'
  BY <1>1, <1>5, <1>6, <1>7, <1>8 DEF IInv, TypeOK, Idle
<1>12. Registered' /\ \A h \in Gen : Sound(h, conn'[h])
  <2>1. \A h \in Gen : Sound(h, conn'[h])
    BY <1>4, <1>5, TypesNow
  <2> QED
    BY <1>1, <1>6, <1>10, <2>1 DEF IInv, Registered, Named
<1>13. Recorded'
  <2> SUFFICES ASSUME NEW fd \in Fd, conns'[fd].context
               PROVE  LET h == conns'[fd].generation
                      IN /\ h \in Gen /\ Open(conn'[h])
                         /\ conn'[h].fd = fd /\ conn'[h].sub = conns'[fd].owner
    BY DEF Recorded
  <2> DEFINE h == conns[fd].generation
  <2>1. fd # o.fd /\ conns'[fd] = conns[fd]
    BY <1>8, <1>9
  <2>2. h \in Gen /\ Open(conn[h]) /\ conn[h].fd = fd /\ conn[h].sub = conns[fd].owner
    BY <2>1 DEF IInv, Tables, Recorded
  <2>3. h # g
    BY <2>1, <2>2
  <2> QED
    BY <1>6, <2>1, <2>2, <2>3
<1>14. TablesAgree'
  <2>1. ASSUME NEW r \in Sub, NEW fd \in Fd, contexts'[r][fd] # 0
        PROVE  LET h == contexts'[r][fd]
               IN  /\ conns'[fd] = [generation |-> h, owner |-> r, context |-> TRUE]
                   /\ Open(conn'[h]) /\ conn'[h].fd = fd /\ conn'[h].sub = r
    <3> DEFINE h == contexts[r][fd]
    <3>1. h # 0 /\ contexts'[r][fd] = h /\ ~ (r = o.sub /\ fd = o.fd)
      BY <1>7, <2>1
    <3>2. h \in Gen /\ Open(conn[h]) /\ conn[h].fd = fd /\ conn[h].sub = r
      BY <3>1, FoundContext
    <3>3. h # g
      BY <3>1, <3>2
    <3>4. fd # o.fd
      BY <1>3, <3>2, <3>3
    <3>5. conns'[fd] = [generation |-> h, owner |-> r, context |-> TRUE]
      <4>1. conns[fd] = [generation |-> h, owner |-> r, context |-> TRUE]
        BY <3>1 DEF IInv, Tables, TablesAgree
      <4>2. conns'[fd] = conns[fd]
        BY <1>8, <3>4
      <4> QED
        BY <4>1, <4>2
    <3> HIDE DEF h
    <3> QED
      BY <1>6, <3>1, <3>2, <3>3, <3>5
  <2>2. ASSUME NEW h \in Gen, Open(conn'[h])
        PROVE  /\ Current(h)'
               /\ \/ contexts'[conn'[h].sub][conn'[h].fd] = h
                  \/ acceptor' = [pc |-> "insert", gen |-> h]
    <3>1. /\ Open(conn[h]) /\ h # g
          /\ conn'[h].fd = conn[h].fd /\ conn'[h].sub = conn[h].sub
      BY <1>6, <2>2
    <3>2. conn[h].fd # o.fd
      BY <1>3, <3>1
    <3>3. acceptor # [pc |-> "insert", gen |-> h]
      BY <3>1
    <3>4. Current(h) /\ contexts[conn[h].sub][conn[h].fd] = h
      BY <3>1, <3>3 DEF IInv, Tables, TablesAgree
    <3>5. h < nextGen
      BY <3>1 DEF IInv, TypeOK, Gen, Open
    <3>6. conn[h].sub \in Sub /\ conn[h].fd \in Fd
      BY <3>5, TypesNow DEF Connection, IInv, Registered
    <3> QED
      BY <1>7, <1>8, <3>1, <3>2, <3>4, <3>6 DEF Current
  <2> QED
    BY <2>1, <2>2 DEF TablesAgree
<1>15. Counted'
  <2> SUFFICES ASSUME ~misfired
               PROVE  /\ activeConnections = Cardinality(InTable')
                      /\ config.limit > 0 => Cardinality(InTable') <= config.limit
    <3>1. Cardinality(InTable') - (IF acceptor' = Idle THEN 0 ELSE 1) = Cardinality(InTable') - 0
      BY <1>1
    <3>2. activeConnections \in Int
      BY DEF IInv, TypeOK
    <3> HIDE DEF InTable
    <3> QED
      BY <1>1, <3>1, <3>2 DEF Counted
  <2>1. Open(o)
    BY <1>1 DEF IInv, Registering, Early
  <2>2. o.fd \in InTable
    BY <1>2, <2>1 DEF IInv, Tables, TablesAgree, Current, InTable
  <2>3. InTable' = InTable \ {o.fd}
    BY <1>8, <1>9 DEF InTable
  <2>4. /\ IsFiniteSet(InTable) /\ Cardinality(InTable) \in Nat
        /\ Cardinality(InTable') = Cardinality(InTable) - 1
    BY <2>2, <2>3, InTableFinite, FS_RemoveElement
  <2>5. /\ activeConnections = Cardinality(InTable) - 1
        /\ config.limit > 0 => Cardinality(InTable) <= config.limit
    BY <1>2 DEF IInv, Tables, Counted
  <2>6. config.limit \in Nat
    BY ReactorAssumption DEF IInv, TypeOK, Config
  <2> HIDE DEF InTable
  <2> QED
    BY <2>4, <2>5, <2>6
<1>16. Registering'
  BY <1>10 DEF Registering, Early
<1> QED
  BY <1>11, <1>12, <1>13, <1>14, <1>15, <1>16 DEF IInv, Tables

LEMMA NextReactor ==
  ASSUME IInv PROVE (nextSubReactor + 1) % SubReactorCount \in Sub
<1>1. SubReactorCount \in Nat /\ SubReactorCount > 0 /\ nextSubReactor + 1 \in Nat
  BY ReactorAssumption DEF IInv, TypeOK, Sub
<1> QED
  BY <1>1 DEF Sub

LEMMA UnusedGood ==
  /\ Unused \in Connection
  /\ Unused.buf = <<>> /\ Unused.rx = <<>> /\ Unused.resp = NoResponse
  /\ Unused.answered = <<>> /\ Unused.armed = "off" /\ ~Unused.idle /\ Unused.peer = "none"
<1>1. <<>> \in Seq(Token) /\ <<>> \in Seq(Response) /\ NoResponse \in Response \cup {NoResponse}
  OBVIOUS
<1>2. 0 \in Nat /\ 0 \in Sub /\ 0 \in Fd \cup {0}
  BY ReactorAssumption DEF Sub
<1> QED
  BY <1>1, <1>2 DEF Unused, Connection

LEMMA AcceptKeeps ==
  ASSUME IInv, NEW fd \in Fd, Accept(fd) PROVE IInv'
<1> DEFINE g == nextGen
           r == nextSubReactor
           new == [Unused EXCEPT !.peer = "open", !.fd = fd, !.sub = r]
           entry == [generation |-> g, owner |-> r, context |-> TRUE]
<1>1. /\ acceptor.pc = "accept" /\ g <= MaxGen /\ fd \in FreeFds /\ ~Full
      /\ conn' = [conn EXCEPT ![g] = new]
      /\ conns' = [conns EXCEPT ![fd] = entry]
      /\ pendingResponses' = [pendingResponses EXCEPT ![r] = {p \in @ : conn[p.gen].fd # fd}]
      /\ acceptor' = [pc |-> "insert", gen |-> g]
      /\ nextGen' = g + 1
      /\ nextSubReactor' = (r + 1) % SubReactorCount
      /\ UNCHANGED <<config, contexts, wakeFd, batch, items, half, tasks, activeConnections,
                     misfired>>
  BY DEF Accept
<1>2. /\ g \in Gen /\ g # 0 /\ g \in Nat /\ MaxGen \in Nat /\ r \in Sub
      /\ conn[g].peer = "none" /\ acceptor = Idle
  BY <1>1, ReactorAssumption, AcceptorNow DEF IInv, TypeOK, Gen
<1>3. /\ new \in Connection /\ new.fd = fd /\ new.sub = r /\ new.peer = "open"
      /\ new.buf = <<>> /\ new.rx = <<>> /\ new.resp = NoResponse /\ new.answered = <<>>
      /\ new.armed = "off" /\ ~new.idle
  <2>1. /\ Unused \in Connection
        /\ Unused.buf = <<>> /\ Unused.rx = <<>> /\ Unused.resp = NoResponse
        /\ Unused.answered = <<>> /\ Unused.armed = "off" /\ ~Unused.idle
    BY UnusedGood
  <2>2. ASSUME NEW o \in Connection, NEW p, p = [o EXCEPT !.peer = "open", !.fd = fd, !.sub = r]
        PROVE  /\ p \in Connection /\ p.fd = fd /\ p.sub = r /\ p.peer = "open"
               /\ p.buf = o.buf /\ p.rx = o.rx /\ p.resp = o.resp /\ p.answered = o.answered
               /\ p.armed = o.armed /\ p.idle = o.idle
    BY <1>2, <2>2 DEF Connection
  <2> QED
    BY <2>1, <2>2
<1>4. entry \in [generation : Gen \cup {0}, owner : Sub, context : BOOLEAN]
  BY <1>2
<1>5. /\ acceptor'.pc = "insert" /\ acceptor'.gen = g /\ acceptor' # Idle
      /\ acceptor' \in [pc : {"accept", "insert", "add", "count"}, gen : Gen \cup {0}]
  BY <1>1, <1>2 DEF Idle
<1>6. Sound(g, new)
  <2> HIDE DEF new
  <2>1. NoTwoParts(new.buf \o new.rx)
    BY <1>3 DEF NoTwoParts
  <2>2. Own(g, new)
    BY <1>3 DEF Own
  <2> QED
    BY <2>1, <2>2 DEF Sound
<1> HIDE DEF new, entry
<1>7. /\ conn' \in [Gen -> Connection]
      /\ \A h \in Gen : conn'[h] = IF h = g THEN new ELSE conn[h]
  BY <1>1, <1>3, TypesNow
<1>8. /\ conns' \in [Fd -> [generation : Gen \cup {0}, owner : Sub, context : BOOLEAN]]
      /\ \A f \in Fd : conns'[f] = IF f = fd THEN entry ELSE conns[f]
  BY <1>1, <1>4 DEF IInv, TypeOK
<1>9. /\ pendingResponses' \in [Sub -> SUBSET Request]
      /\ \A s \in Sub : pendingResponses'[s] \subseteq pendingResponses[s]
  BY <1>1, <1>2, TypesNow
<1>10. \A h \in Gen : Open(conn[h]) => h # g /\ conn[h].fd # fd /\ h < g /\ h < nextGen'
  BY <1>1, <1>2 DEF FreeFds, Open, IInv, TypeOK, Gen
<1>11. ~conns[fd].context /\ \A s \in Sub : contexts[s][fd] = 0
  <2>1. ~conns[fd].context
    BY <1>10 DEF IInv, Tables, Recorded
  <2>2. ASSUME NEW s \in Sub, contexts[s][fd] # 0 PROVE FALSE
    BY <1>10, <2>2, FoundContext
  <2> QED
    BY <2>1, <2>2
<1>12. TypeOK'
  <2>1. \A h \in Gen : conn'[h].peer = "none" <=> h >= nextGen'
    <3> SUFFICES ASSUME NEW h \in Gen PROVE conn'[h].peer = "none" <=> h >= g + 1
      BY <1>1
    <3>1. h \in Nat /\ (conn[h].peer = "none" <=> h >= g)
      BY DEF IInv, TypeOK, Gen
    <3> QED
      BY <1>2, <1>3, <1>7, <3>1
  <2>2. nextGen' \in 1..(MaxGen + 1)
    BY <1>1, <1>2
  <2>3. nextSubReactor' \in Sub
    BY <1>1, NextReactor
  <2> QED
    BY <1>1, <1>5, <1>7, <1>8, <1>9, <2>1, <2>2, <2>3 DEF IInv, TypeOK
<1>13. Registered' /\ \A h \in Gen : Sound(h, conn'[h])
  <2>1. \A h \in Gen : Sound(h, conn'[h])
    BY <1>6, <1>7, TypesNow
  <2>2. \A h : Named(h) => h \in Gen /\ h < nextGen'
    BY <1>1, <1>2 DEF Named, Gen
  <2>3. \A h \in Gen : h < nextGen' => conn'[h].fd \in Fd
    <3> SUFFICES ASSUME NEW h \in Gen, h < g + 1 PROVE conn'[h].fd \in Fd
      BY <1>1
    <3>1. h = g \/ h < g
      BY <1>2 DEF Gen
    <3> QED
      BY <1>3, <1>7, <3>1 DEF IInv, Registered
  <2>4. acceptor'.gen = nextGen' - 1 /\ acceptor'.gen \in Gen /\ acceptor'.gen # 0
    BY <1>1, <1>2, <1>5
  <2>5. ASSUME NEW s \in Sub
        PROVE  /\ \A e \in batch'[s] :
                    e \notin {Wake, Timer} => e.gen \in Gen /\ e.gen < nextGen'
               /\ \A p \in pendingResponses'[s] \cup items'[s] : p.gen \in Gen /\ p.gen < nextGen'
               /\ half'[s].fd # 0 => half'[s].gen \in Gen /\ half'[s].gen < nextGen'
    <3>1. /\ batch' = batch /\ items' = items /\ half' = half
          /\ pendingResponses'[s] \subseteq pendingResponses[s]
      BY <1>1, <1>9
    <3> QED
      BY <2>2, <3>1 DEF IInv, Registered
  <2>6. \A t \in tasks' : t.gen \in Gen /\ t.gen < nextGen'
    BY <1>1, <2>2 DEF IInv, Registered
  <2>7. Registered'
    BY <1>5, <2>3, <2>4, <2>5, <2>6 DEF Registered, Named
  <2> QED
    BY <2>1, <2>7
<1>14. Recorded'
  <2> SUFFICES ASSUME NEW f \in Fd, conns'[f].context
               PROVE  LET h == conns'[f].generation
                      IN /\ h \in Gen /\ Open(conn'[h])
                         /\ conn'[h].fd = f /\ conn'[h].sub = conns'[f].owner
    BY DEF Recorded
  <2>1. CASE f = fd
    BY <1>2, <1>3, <1>7, <1>8, <2>1 DEF entry, Open
  <2>2. CASE f # fd
    <3> DEFINE h == conns[f].generation
    <3>1. conns'[f] = conns[f]
      BY <1>8, <2>2
    <3>2. h \in Gen /\ Open(conn[h]) /\ conn[h].fd = f /\ conn[h].sub = conns[f].owner
      BY <3>1 DEF IInv, Tables, Recorded
    <3> QED
      BY <1>7, <1>10, <3>1, <3>2
  <2> QED
    BY <2>1, <2>2
<1>15. TablesAgree'
  <2>1. ASSUME NEW s \in Sub, NEW f \in Fd, contexts'[s][f] # 0
        PROVE  LET h == contexts'[s][f]
               IN  /\ conns'[f] = [generation |-> h, owner |-> s, context |-> TRUE]
                   /\ Open(conn'[h]) /\ conn'[h].fd = f /\ conn'[h].sub = s
    <3> DEFINE h == contexts[s][f]
    <3>1. h # 0 /\ contexts'[s][f] = h /\ f # fd
      BY <1>1, <1>11, <2>1
    <3>2. h \in Gen /\ Open(conn[h]) /\ conn[h].fd = f /\ conn[h].sub = s
      BY <3>1, FoundContext
    <3>3. conns'[f] = [generation |-> h, owner |-> s, context |-> TRUE]
      BY <1>8, <3>1 DEF IInv, Tables, TablesAgree
    <3> HIDE DEF h
    <3> QED
      BY <1>7, <1>10, <3>1, <3>2, <3>3
  <2>2. ASSUME NEW h \in Gen, Open(conn'[h])
        PROVE  /\ Current(h)'
               /\ \/ contexts'[conn'[h].sub][conn'[h].fd] = h
                  \/ acceptor' = [pc |-> "insert", gen |-> h]
    <3>1. CASE h = g
      BY <1>1, <1>2, <1>3, <1>7, <1>8, <3>1 DEF Current, entry
    <3>2. CASE h # g
      <4>1. conn'[h] = conn[h] /\ Open(conn[h])
        BY <1>7, <2>2, <3>2
      <4>2. conn[h].fd # fd /\ h < nextGen
        BY <1>10, <4>1
      <4>3. acceptor # [pc |-> "insert", gen |-> h]
        BY <1>1
      <4>4. Current(h) /\ contexts[conn[h].sub][conn[h].fd] = h
        BY <4>1, <4>3 DEF IInv, Tables, TablesAgree
      <4>5. conn[h].fd \in Fd
        BY <4>2 DEF IInv, Registered
      <4> QED
        BY <1>1, <1>8, <4>1, <4>2, <4>4, <4>5 DEF Current
    <3> QED
      BY <3>1, <3>2
  <2> QED
    BY <2>1, <2>2 DEF TablesAgree
<1>16. Counted'
  <2> SUFFICES ASSUME ~misfired
               PROVE  /\ activeConnections = Cardinality(InTable') - 1
                      /\ config.limit > 0 => Cardinality(InTable') <= config.limit
    BY <1>1, <1>5 DEF Counted
  <2>1. InTable' = InTable \cup {fd} /\ fd \notin InTable
    BY <1>8, <1>11 DEF InTable, entry
  <2>2. /\ IsFiniteSet(InTable) /\ Cardinality(InTable) \in Nat
        /\ Cardinality(InTable') = Cardinality(InTable) + 1
    BY <2>1, InTableFinite, FS_AddElement
  <2>3. activeConnections = Cardinality(InTable) - 0
    BY <1>2 DEF IInv, Tables, Counted
  <2>4. config.limit \in Nat
    BY ReactorAssumption DEF IInv, TypeOK, Config
  <2>5. config.limit > 0 => activeConnections < config.limit
    <3> HIDE DEF InTable
    <3> QED
      BY <1>1, <2>2, <2>3, <2>4 DEF Full
  <2> HIDE DEF InTable
  <2> QED
    BY <2>2, <2>3, <2>4, <2>5
<1>17. Registering'
  <2>1. /\ \A s \in Sub : /\ \A e \in batch[s] : e.gen # g
                          /\ \A p \in pendingResponses[s] \cup items[s] : p.gen # g
                          /\ half[s].fd # 0 => half[s].gen # g
        /\ \A t \in tasks : t.gen # g
    <3>1. ~ Named(g)
      BY <1>2 DEF Named
    <3>2. Wake.gen # g /\ Timer.gen # g
      BY <1>2 DEF Wake, Timer
    <3> QED
      BY <3>1, <3>2 DEF IInv, Registered
  <2>2. Unknown(acceptor.gen)'
    BY <1>1, <1>5, <1>9, <2>1 DEF Unknown
  <2>3. Open(conn'[g]) /\ Fresh(conn'[g]) /\ conn'[g].fd = fd
    BY <1>2, <1>3, <1>7 DEF Fresh, Open
  <2>4. \A h \in Gen : Open(conn'[h]) /\ conn'[h].fd = fd => h = g
    BY <1>7, <1>10
  <2>5. \A s \in Sub, f \in Fd : contexts'[s][f] # g
    <3> SUFFICES ASSUME NEW s \in Sub, NEW f \in Fd, contexts[s][f] = g PROVE FALSE
      BY <1>1
    <3>1. Open(conn[g])
      BY <1>2, FoundContext
    <3> QED
      BY <1>2, <3>1 DEF Open
  <2> QED
    BY <1>5, <2>2, <2>3, <2>4, <2>5 DEF Registering, Unknown
<1> QED
  BY <1>12, <1>13, <1>14, <1>15, <1>16, <1>17 DEF IInv, Tables

-----------------------------------------------------------------------------
LEMMA InitInvariant == Init => IInv
<1> SUFFICES ASSUME Init PROVE IInv
  OBVIOUS
<1>1. \A g \in Gen : conn[g] = Unused
  BY DEF Init
<1>2. /\ Unused \in Connection /\ Unused.peer = "none"
      /\ Unused.buf = <<>> /\ Unused.rx = <<>> /\ Unused.resp = NoResponse
      /\ Unused.answered = <<>>
  BY UnusedGood
<1>3. 0 \in Sub /\ SubReactorCount \in Nat /\ MaxGen \in Nat
  BY ReactorAssumption DEF Sub
<1>4. \A g \in Gen : ~Open(conn[g])
  BY <1>1, <1>2 DEF Open
<1>5. TypeOK
  <2>1. conn \in [Gen -> Connection] /\ \A g \in Gen : conn[g].peer = "none" /\ g >= 1
    BY <1>1, <1>2 DEF Init, Gen
  <2>2. conns \in [Fd -> [generation : Gen \cup {0}, owner : Sub, context : BOOLEAN]]
    BY <1>3 DEF Init
  <2>3. acceptor \in [pc : {"accept", "insert", "add", "count"}, gen : Gen \cup {0}]
    BY DEF Init, Idle
  <2>4. /\ config \in Config /\ contexts \in [Sub -> [Fd -> Gen \cup {0}]]
        /\ pendingResponses \in [Sub -> SUBSET Request] /\ items \in [Sub -> SUBSET Request]
        /\ wakeFd \in [Sub -> BOOLEAN] /\ batch \in [Sub -> SUBSET Event]
        /\ half \in [Sub -> [fd : Fd, gen : Gen] \cup {Whole, Emptied}]
        /\ tasks \in SUBSET Job
    BY DEF Init
  <2>5. /\ nextGen \in 1..(MaxGen + 1) /\ nextSubReactor \in Sub
        /\ activeConnections \in Int /\ misfired \in BOOLEAN /\ nextGen = 1
    <3>1. nextGen = 1 /\ nextSubReactor = 0 /\ activeConnections = 0
      BY DEF Init
    <3>2. misfired \in BOOLEAN
      BY DEF Init
    <3>3. 1 \in 1..(MaxGen + 1)
      BY <1>3
    <3> QED
      BY <1>3, <3>1, <3>2, <3>3
  <2> QED
    BY <2>1, <2>2, <2>3, <2>4, <2>5 DEF TypeOK
<1>6. \A g \in Gen : Sound(g, conn[g])
  <2>1. \A g \in Gen : NoTwoParts(conn[g].buf \o conn[g].rx)
    <3>1. NoTwoParts(<<>> \o <<>>)
      BY DEF NoTwoParts
    <3> QED
      BY <1>1, <1>2, <3>1, Zenon
  <2>2. \A g \in Gen : Own(g, conn[g])
    BY <1>1, <1>2 DEF Own
  <2> QED
    BY <2>1, <2>2 DEF Sound
<1>7. acceptor.pc = "accept" /\ acceptor.gen = 0 /\ acceptor = Idle
  BY DEF Init, Idle
<1>8. Registered
  BY <1>7 DEF Init, Registered, Gen, Whole
<1>9. InTable = {}
  BY DEF Init, InTable
<1>10. Recorded
  BY <1>9 DEF Recorded, InTable
<1>11. TablesAgree
  BY <1>4 DEF Init, TablesAgree
<1>12. Counted
  <2>1. activeConnections = 0 /\ Cardinality(InTable) = 0 /\ config.limit \in Nat
    BY <1>9, FS_EmptySet, ReactorAssumption DEF Init, Config
  <2> HIDE DEF InTable
  <2> QED
    BY <1>7, <2>1 DEF Counted
<1>13. Registering
  BY <1>7 DEF Registering, Early
<1> QED
  BY <1>5, <1>6, <1>8, <1>10, <1>11, <1>12, <1>13 DEF IInv, Tables

LEMMA SubStepKeeps ==
  ASSUME IInv, NEW r \in Sub, SubStep(r) PROVE IInv'
<1>1. CASE \E e \in batch[r] : \/ DropEvent(r, e) \/ HandleRead(r, e) \/ HandleWrite(r, e)
                              \/ HandleHup(r, e) \/ HandleTimer(r, e) \/ HandleWake(r, e)
  BY <1>1, DropEventKeeps, HandleReadKeeps, HandleWriteKeeps, HandleHupKeeps,
     HandleTimerKeeps, HandleWakeKeeps
<1>2. CASE FinishHup(r)
  BY <1>2, FinishHupKeeps
<1>3. CASE TakeResponses(r)
  BY <1>3, TakeResponsesKeeps
<1>4. CASE \E i \in items[r] : Deliver(r, i)
  BY <1>4, DeliverKeeps
<1>5. CASE Poll(r, {}) \/ PollTimer(r)
  BY <1>5, PollKeeps DEF PollTimer
<1> QED
  BY <1>1, <1>2, <1>3, <1>4, <1>5 DEF SubStep, HandleEvent

LEMMA StutterKeeps == ASSUME IInv, UNCHANGED vars PROVE IInv'
<1>1. /\ UNCHANGED <<conn, conns, contexts, activeConnections, misfired, accepting>>
      /\ UNCHANGED <<wakeFd, batch, pendingResponses, items, half, tasks>>
  BY DEF vars, accepting
<1> QED
  BY <1>1, TypesNow, AllKnown, Moves

LEMMA NextInvariant == IInv /\ [Next]_vars => IInv'
<1> SUFFICES ASSUME IInv, [Next]_vars PROVE IInv'
  OBVIOUS
<1>1. CASE \E fd \in Fd : Accept(fd)
  BY <1>1, AcceptKeeps
<1>2. CASE MainStep
  BY <1>2, InsertContextKeeps, AddToEpollKeeps, AddFailsKeeps, CountConnectionKeeps DEF MainStep
<1>3. CASE \E r \in Sub : SubStep(r)
  BY <1>3, SubStepKeeps
<1>4. CASE \E t \in tasks : WorkerStep(t)
  BY <1>4, RespondKeeps, NotifyKeeps, ThrowForeignKeeps, LeaveKeeps DEF WorkerStep
<1>5. CASE \E g \in Gen : ClientStep(g)
  BY <1>5, ClientKeeps
<1>6. CASE UNCHANGED vars
  BY <1>6, StutterKeeps
<1> QED
  BY <1>1, <1>2, <1>3, <1>4, <1>5, <1>6 DEF Next

\* The inductive invariant: the tables of fds, the records of the connections and the
\* count agree at every step of every thread, through every reuse of an fd number.
THEOREM Invariance == Spec => []IInv
BY InitInvariant, NextInvariant, PTL DEF Spec

\* Types: no table, queue or batch ever names a connection or an fd that does not exist,
\* and the generations handed out are those that have had a socket.
THEOREM TypeCorrect == Spec => []TypeOK
<1>1. IInv => TypeOK
  BY DEF IInv
<1> QED
  BY <1>1, Invariance, PTL

\* A response that reaches a client answers a request of that client (handleWake looks
\* the connection up by fd and compares the generation): true for any number of reuses
\* of the fd between the request and its response.
THEOREM NoResponseAstray == Spec => []NoCrossTalk
<1>1. IInv => NoCrossTalk
  BY DEF IInv, Sound, Own, NoCrossTalk
<1> QED
  BY <1>1, Invariance, PTL

\* conns_ and the reactors' contexts agree although no lock is held over both
\* (registerConnection and contexts[fd] in handleAccept, closeConnectionId): a context
\* has the record of its connection, and every open socket has both.
THEOREM TablesAlwaysAgree == Spec => []TablesAgree
<1>1. IInv => TablesAgree
  BY DEF IInv, Tables
<1> QED
  BY <1>1, Invariance, PTL

\* stats_.activeConnections counts the connections, and never more than maxConnections_
\* are open, until an ERR/HUP event closes a connection it was not for.
THEOREM ConnectionsCounted == Spec => []ActiveExact
<1>1. ASSUME IInv PROVE ActiveExact
  <2>1. Counted
    BY <1>1 DEF IInv, Tables
  <2>2. Cardinality({g \in Gen : Open(conn[g])}) = Cardinality(InTable)
    BY <1>1, InTableFinite
  <2>3. InTable = {fd \in Fd : conns[fd].context}
    BY DEF InTable
  <2> HIDE DEF InTable
  <2> QED
    BY <2>1, <2>2, <2>3 DEF Counted, ActiveExact
<1> QED
  BY <1>1, Invariance, PTL

-----------------------------------------------------------------------------
(***************************************************************************)
(* What is on its way for a connection: its tasks, the responses waiting   *)
(* and taken, the events reported and not yet handled.  Turns says of each *)
(* open connection that something is on its way (NotStranded), that        *)
(* inFlight counts its tasks (TimerSparesRunning), and of a client that    *)
(* waits for its answers that just one thing is, with the number of the    *)
(* next answer (StrictInOrder, NoEarlyClose).                              *)
(***************************************************************************)
Work(g) == {t \in tasks : t.gen = g}
Waiting(g) == {p \in pendingResponses[conn[g].sub] : p.gen = g}
Taken(g) == {i \in items[conn[g].sub] : i.gen = g}
Reported(g) == {e \in batch[conn[g].sub] : e.gen = g}

Queued(T) == {t \in T : t.phase = "queued"}
Woken(r) == wakeFd[r] \/ Wake \in batch[r] \/ half[r] = Emptied

\* What a client has sent and the server has not dispatched: part of a request, or one.
Bit(s) == s = <<>> \/ s = <<"part">>
One(s) == s # <<>> /\ Len(s) = Ends(s) /\ s[Len(s)] # "part"

\* At most one of these things, and only one.
Alone(Q, W, K, E) ==
  /\ \A x, y \in Q : x = y
  /\ \A x, y \in W : x = y
  /\ \A x, y \in K : x = y
  /\ Q # {} => W = {} /\ K = {} /\ E = {}
  /\ W # {} => K = {} /\ E = {}
  /\ K # {} => E = {}

\* The one request of a waiting client that is being answered is number d.
Answering(d, o, Q, W, K, E) ==
  /\ \A x \in Q \cup W \cup K : x.req = d
  /\ o.resp # NoResponse => o.resp.req = d
  /\ Q \cup W \cup K # {} => o.resp = NoResponse
  /\ \/ \E t \in Q : t.kind = "keep"
     \/ \E p \in W \cup K : p.keep
     \/ o.resp # NoResponse /\ o.keep
     => o.buf \o o.rx = <<>>
  /\ o.armed # "in" /\ \A e \in E : e.io # "in"
  /\ o.armed = "out" \/ E # {} => o.resp # NoResponse

\* None is: what has come is part of a request, or one that has not been read.
Reading(n, o, Q, W, K, E) ==
  /\ Q = {} /\ W = {} /\ K = {} /\ o.resp = NoResponse
  /\ o.armed # "out" /\ \A e \in E : e.io # "out"
  /\ Bit(o.buf)
  /\ IF o.asked = n THEN Bit(o.buf \o o.rx) ELSE One(o.buf \o o.rx)

Numbered(o) ==
  /\ Len(o.answered) <= o.asked
  /\ \A i \in 1..Len(o.answered) : o.answered[i].req = i

Ordered(o, Q, W, K, E) ==
  LET n == Len(o.answered)
  IN /\ Numbered(o)
     /\ Open(o) =>
          /\ Alone(Q, W, K, E)
          /\ o.armed # "off" => Q = {} /\ W = {} /\ K = {} /\ E = {}
          /\ o.asked <= n + 1
          /\ \/ o.dispatched = n /\ Reading(n, o, Q, W, K, E)
             \/ o.dispatched = n + 1 /\ o.asked = n + 1 /\ Answering(n + 1, o, Q, W, K, E)

\* inFlight counts the tasks; each has a number of its own, up to that of the last one.
Distinct(o, T) ==
  /\ IsFiniteSet(T) /\ \A t \in T : t.req <= o.dispatched
  /\ \A x, y \in T : x.req = y.req => x = y
Tallied(o, T) == Distinct(o, T) /\ (Open(o) => o.inFlight = Cardinality(T))

\* One event at most, for something that is still to be read or written.
Witnessed(o, E) ==
  /\ \A x, y \in E : x = y
  /\ \A e \in E : /\ e.hup => o.peer = "reset"
                  /\ e.io = "in" => o.rx # <<>> \/ o.peer # "open"

\* Something is on its way; a response that is half written waits for EPOLLOUT.
Lively(o, T, W, K, E, woken) ==
  o.peer \in {"open", "fin"} =>
    /\ o.resp # NoResponse => o.armed = "out" \/ \E e \in E : e.io = "out"
    /\ \/ o.mute \/ o.armed # "off" \/ E # {} \/ Queued(T) # {} \/ K # {}
       \/ W # {} /\ (woken \/ \E t \in T : t.phase = "posted")

Turn(o, T, W, K, E) ==
  /\ o.strict => Ordered(o, Queued(T), W, K, E)
  /\ Tallied(o, T)
  /\ Open(o) => Witnessed(o, E)

Untouched(o) == o.dispatched = 0 /\ o.answered = <<>> /\ o.resp = NoResponse
AtRegistration(g) == Early /\ g = acceptor.gen

InHand(g) ==
  /\ Turn(conn[g], Work(g), Waiting(g), Taken(g), Reported(g))
  /\ AtRegistration(g) => Untouched(conn[g])
  /\ ~AtRegistration(g) =>
       Lively(conn[g], Work(g), Waiting(g), Taken(g), Reported(g), Woken(conn[g].sub))

Turns ==
  /\ \A g \in Gen : InHand(g)
  /\ \A r \in Sub : half[r] = Emptied => items[r] = {}

-----------------------------------------------------------------------------
(* What the handlers make of the fields of a connection. *)

\* The client's side, and what no handler but the write path touches.
Alike(o, p) ==
  /\ p.asked = o.asked /\ p.strict = o.strict /\ p.mute = o.mute /\ p.peer = o.peer
Unsent(o, p) == p.answered = o.answered /\ p.resp = o.resp /\ p.keep = o.keep

\* A request is handed to the pool, or none is.
Counts(o, e) ==
  IF e.job = "none"
  THEN e.o.dispatched = o.dispatched /\ e.o.inFlight = o.inFlight
  ELSE e.o.dispatched = o.dispatched + 1 /\ e.o.inFlight = o.inFlight + 1

LEMMA ArmFields ==
  ASSUME NEW o \in Connection, NEW io \in {"off", "in", "out"}
  PROVE  LET p == Arm(o, io)
         IN  /\ Alike(o, p) /\ Unsent(o, p) /\ p.armed = io /\ p.buf = o.buf /\ p.rx = o.rx
             /\ p.dispatched = o.dispatched /\ p.inFlight = o.inFlight
             /\ p.fd = o.fd /\ p.sub = o.sub
BY DEF Arm, Connection, Alike, Unsent

LEMMA EnqueueFields ==
  ASSUME NEW o \in Connection, NEW kind \in JobKind
  PROVE  LET e == Enqueue(o, kind)
         IN  /\ Alike(o, e.o) /\ Unsent(o, e.o) /\ e.o.armed = o.armed
             /\ e.o.buf = o.buf /\ e.o.rx = o.rx
             /\ e.job = kind /\ e.job # "none" /\ ~e.shut /\ Counts(o, e)
BY DEF Enqueue, Connection, Alike, Unsent, Counts, JobKind

\* Dispatch with no response being written: EPOLLIN, or the request at the front.
Dispatched(o, e) ==
  /\ ~e.shut /\ Alike(o, e.o) /\ Unsent(o, e.o) /\ Counts(o, e) /\ e.o.rx = o.rx
  /\ \/ /\ e.job = "none" /\ e.o.armed = "in" /\ e.o.buf = o.buf
        /\ o.buf = <<>> \/ Incomplete(o.buf)
     \/ /\ e.job # "none" /\ e.o.armed = o.armed /\ o.buf # <<>> /\ ~Incomplete(o.buf)
        /\ \/ e.job = "bad" /\ e.o.buf = o.buf
           \/ e.job # "bad" /\ e.o.buf = Rest(o.buf)

LEMMA DispatchFields ==
  ASSUME NEW g, NEW o \in Connection, Sound(g, o), o.resp = NoResponse
  PROVE  Dispatched(o, Dispatch(o))
<1>1. CASE o.buf = <<>> \/ Incomplete(o.buf)
  <2>1. Dispatch(o) = Plain(Arm(o, "in"))
    BY <1>1 DEF Dispatch, AwaitMore
  <2> QED
    BY <1>1, <2>1, ArmFields DEF Dispatched, Plain, Counts
<1>2. CASE o.buf # <<>> /\ ~Incomplete(o.buf)
  <2> DEFINE kind == o.buf[Ends(o.buf)]
  <2>1. o.buf \in Seq(Token) /\ o.rx \in Seq(Token)
    BY DEF Connection
  <2>2. kind \in JobKind /\ Rest(o.buf) \in Seq(Token)
    BY <1>2, <2>1, RestGood DEF Sound
  <2>3. CASE kind = "bad"
    <3>1. Dispatch(o) = Enqueue(o, "bad")
      BY <1>2, <2>3 DEF Dispatch
    <3> QED
      BY <1>2, <3>1, EnqueueFields DEF Dispatched, JobKind
  <2>4. CASE kind # "bad"
    <3> DEFINE q == [o EXCEPT !.buf = Rest(o.buf)]
    <3>1. Dispatch(o) = Enqueue(q, kind)
      BY <1>2, <2>4 DEF Dispatch
    <3>2. /\ q \in Connection /\ q.buf = Rest(o.buf) /\ q.rx = o.rx /\ q.armed = o.armed
          /\ Alike(o, q) /\ Unsent(o, q)
          /\ q.dispatched = o.dispatched /\ q.inFlight = o.inFlight
      BY <2>2 DEF Connection, Alike, Unsent
    <3> HIDE DEF q, kind
    <3>3. LET e == Enqueue(q, kind)
          IN  /\ Alike(q, e.o) /\ Unsent(q, e.o) /\ e.o.armed = q.armed
              /\ e.o.buf = q.buf /\ e.o.rx = q.rx
              /\ e.job = kind /\ e.job # "none" /\ ~e.shut /\ Counts(q, e)
      BY <2>2, <3>2, EnqueueFields
    <3> QED
      BY <1>2, <2>4, <3>1, <3>2, <3>3 DEF Dispatched, Alike, Unsent, Counts
  <2> QED
    BY <2>3, <2>4
<1> QED
  BY <1>1, <1>2

\* What handleRead does with bytes: s is the buffer with what the socket held.
ReadDone(o, e, s) ==
  /\ ~e.shut /\ Alike(o, e.o) /\ Unsent(o, e.o) /\ Counts(o, e) /\ e.o.rx = <<>>
  /\ \/ e.job = "none" /\ o.resp # NoResponse /\ e.o.armed = o.armed
     \/ /\ e.job = "none" /\ o.resp = NoResponse /\ e.o.armed = "in" /\ e.o.buf = s
        /\ s = <<>> \/ Incomplete(s)
     \/ /\ e.job # "none" /\ e.o.armed = o.armed /\ s # <<>>
        /\ Incomplete(s) => Len(s) > config.maxRequest
        /\ \/ e.job = "bad"
           \/ e.job # "bad" /\ e.o.buf = Rest(s)

LEMMA ReadFields ==
  ASSUME NEW g, NEW o \in Connection, Sound(g, o), o.rx # <<>>
  PROVE  ReadDone(o, Read(o), o.buf \o o.rx)
<1> DEFINE s == o.buf \o o.rx
           p == [o EXCEPT !.buf = @ \o o.rx, !.rx = <<>>, !.idle = FALSE,
                          !.slow = IF o.buf = <<>> THEN FALSE ELSE @]
           e == Read(o)
<1>1. o.buf \in Seq(Token) /\ o.rx \in Seq(Token) /\ s \in Seq(Token) /\ <<>> \in Seq(Token)
  BY DEF Connection
<1>2. s # <<>>
  <2>1. Len(o.rx) # 0 /\ Len(s) = Len(o.buf) + Len(o.rx)
    BY <1>1
  <2> QED
    BY <1>1, <2>1
<1>3. p \in Connection
  BY <1>1 DEF Connection
<1>4. /\ p.buf = s /\ p.rx = <<>> /\ p.armed = o.armed /\ Alike(o, p) /\ Unsent(o, p)
      /\ p.dispatched = o.dispatched /\ p.inFlight = o.inFlight
  BY DEF Connection, Alike, Unsent
<1>5. e = IF Len(p.buf) > config.maxRequest THEN Enqueue(p, "bad") ELSE Dispatch(p)
  BY DEF Read, SawEnd
<1> HIDE DEF p, e
<1>6. s \o <<>> = s
  BY <1>1
<1> HIDE DEF s
<1>7. Sound(g, p)
  BY <1>4, <1>6 DEF Sound, Own, Unsent, s
<1>8. CASE Len(s) > config.maxRequest
  <2>1. e = Enqueue(p, "bad")
    BY <1>4, <1>5, <1>8
  <2>2. /\ Alike(p, e.o) /\ Unsent(p, e.o) /\ e.o.armed = p.armed
        /\ e.o.buf = p.buf /\ e.o.rx = p.rx
        /\ e.job = "bad" /\ ~e.shut /\ Counts(p, e)
    BY <1>3, <2>1, EnqueueFields DEF JobKind
  <2> QED
    BY <1>2, <1>4, <1>8, <2>2 DEF ReadDone, Alike, Unsent, Counts, e, s
<1>9. CASE ~ (Len(s) > config.maxRequest) /\ p.resp # NoResponse
  <2>1. e = Plain(p)
    BY <1>4, <1>5, <1>9 DEF Dispatch
  <2>2. e.o = p /\ e.job = "none" /\ ~e.shut
    BY <2>1 DEF Plain
  <2> QED
    BY <1>4, <1>9, <2>2 DEF ReadDone, Alike, Unsent, Counts, e, s
<1>10. CASE ~ (Len(s) > config.maxRequest) /\ p.resp = NoResponse
  <2>1. e = Dispatch(p)
    BY <1>4, <1>5, <1>10
  <2>2. Dispatched(p, e)
    BY <1>3, <1>7, <1>10, <2>1, DispatchFields
  <2> QED
    BY <1>2, <1>4, <1>10, <2>2 DEF Dispatched, ReadDone, Alike, Unsent, Counts, e, s
<1> QED
  BY <1>8, <1>9, <1>10

\* What the write path makes of a response: all of it sent, or EPOLLOUT armed for the rest.
SentDone(o, e) ==
  /\ Alike(o, e.o) /\ e.o.answered = Append(o.answered, o.resp) /\ e.o.rx = o.rx
  /\ IF e.shut THEN e.job = "none" /\ ~o.keep /\ Counts(o, e)
     ELSE /\ o.keep /\ e.o.resp = NoResponse /\ e.o.armed = "in" /\ Counts(o, e)
          /\ o.buf = <<>> => e.job = "none" /\ e.o.buf = <<>>

LEMMA SentFields ==
  ASSUME NEW g, NEW o \in Connection, Sound(g, o), o.resp # NoResponse
  PROVE  SentDone(o, Sent(o))
<1> DEFINE p == [o EXCEPT !.answered = Append(@, o.resp), !.resp = NoResponse]
           q == [p EXCEPT !.idle = FALSE]
           a == Arm(q, "in")
<1>1. Append(o.answered, o.resp) \in Seq(Response) /\ o.answered \in Seq(Response)
  BY DEF Connection
<1>2. p \in Connection
  BY <1>1 DEF Connection
<1>3. /\ Alike(o, p) /\ p.answered = Append(o.answered, o.resp) /\ p.resp = NoResponse
      /\ p.keep = o.keep /\ p.buf = o.buf /\ p.rx = o.rx
      /\ p.dispatched = o.dispatched /\ p.inFlight = o.inFlight
  BY DEF Connection, Alike
<1> HIDE DEF p
<1>4. /\ q \in Connection /\ Alike(p, q) /\ Unsent(p, q) /\ q.buf = p.buf /\ q.rx = p.rx
      /\ q.dispatched = p.dispatched /\ q.inFlight = p.inFlight
  BY <1>2 DEF Connection, Alike, Unsent
<1> HIDE DEF q
<1>5. /\ a \in Connection /\ Alike(q, a) /\ Unsent(q, a) /\ a.armed = "in"
      /\ a.buf = q.buf /\ a.rx = q.rx /\ a.dispatched = q.dispatched /\ a.inFlight = q.inFlight
  <2>1. a \in Connection
    BY <1>4 DEF Arm, Connection
  <2> QED
    BY <1>4, <2>1, ArmFields
<1>6. Sent(o) = IF ~o.keep THEN Shut(p) ELSE IF a.buf # <<>> THEN Dispatch(a) ELSE Plain(a)
  BY DEF Sent, p, q
<1> HIDE DEF a
<1>7. CASE ~o.keep
  <2>1. Sent(o) = Shut(p)
    BY <1>6, <1>7
  <2>2. Sent(o).o = p /\ Sent(o).job = "none" /\ Sent(o).shut
    BY <2>1 DEF Shut
  <2> QED
    BY <1>3, <1>7, <2>2 DEF SentDone, Counts
<1>8. CASE o.keep /\ a.buf = <<>>
  <2>1. Sent(o) = Plain(a)
    BY <1>6, <1>8
  <2>2. Sent(o).o = a /\ Sent(o).job = "none" /\ ~Sent(o).shut
    BY <2>1 DEF Plain
  <2> QED
    BY <1>3, <1>4, <1>5, <1>8, <2>2 DEF SentDone, Counts, Alike, Unsent
<1>9. CASE o.keep /\ a.buf # <<>>
  <2>1. Sent(o) = Dispatch(a)
    BY <1>6, <1>9
  <2>2. Sound(g, a)
    <3>1. Sound(g, p)
      BY <1>1, <1>3 DEF Sound, Own
    <3> QED
      BY <1>4, <1>5, <3>1 DEF Sound, Own, Unsent
  <2>3. Dispatched(a, Sent(o))
    BY <1>3, <1>4, <1>5, <2>1, <2>2, DispatchFields DEF Unsent
  <2> QED
    BY <1>3, <1>4, <1>5, <1>9, <2>3 DEF SentDone, Dispatched, Counts, Alike, Unsent
<1> QED
  BY <1>7, <1>8, <1>9 DEF Connection

-----------------------------------------------------------------------------
(* The turns of one connection. *)

\* The task a handler's result puts into the pool.
JobOf(g, e) == [gen |-> g, req |-> e.o.dispatched, kind |-> e.job, phase |-> "queued"]
JobsOf(g, T, e) == IF e.job = "none" THEN T ELSE T \cup {JobOf(g, e)}

LEMMA TallyOn ==
  ASSUME NEW g, NEW o \in Connection, NEW e, e.o \in Connection, Open(o), Alike(o, e.o),
         Counts(o, e), NEW T, \A t \in T : t.req \in Nat, Tallied(o, T)
  PROVE  Tallied(e.o, JobsOf(g, T, e))
<1>1. Open(e.o)
  BY DEF Alike, Open
<1>2. CASE e.job = "none"
  BY <1>1, <1>2 DEF Tallied, Distinct, Counts, JobsOf
<1>3. CASE e.job # "none"
  <2> DEFINE t == JobOf(g, e)
  <2>1. t.req = o.dispatched + 1 /\ o.dispatched \in Nat /\ e.o.dispatched = o.dispatched + 1
    BY <1>3 DEF Counts, Connection, JobOf
  <2> HIDE DEF t
  <2>2. t \notin T /\ \A u \in T : u.req # t.req
    BY <2>1 DEF Tallied, Distinct
  <2>3. IsFiniteSet(T \cup {t}) /\ Cardinality(T \cup {t}) = Cardinality(T) + 1
    BY <2>2, FS_AddElement DEF Tallied, Distinct
  <2>4. /\ \A u \in T \cup {t} : u.req <= e.o.dispatched
        /\ \A x, y \in T \cup {t} : x.req = y.req => x = y
    BY <2>1, <2>2 DEF Tallied, Distinct
  <2>5. e.o.inFlight = Cardinality(T) + 1
    BY <1>3 DEF Tallied, Counts
  <2> QED
    BY <1>1, <1>3, <2>3, <2>4, <2>5 DEF Tallied, Distinct, JobsOf, t
<1> QED
  BY <1>2, <1>3

\* Less on its way disturbs no order, and nothing can disturb the order of a closed connection.
LEMMA OrderedLess ==
  ASSUME NEW o, NEW Q, NEW W, NEW K, NEW E, Ordered(o, Q, W, K, E),
         NEW Q2 \in SUBSET Q, NEW W2 \in SUBSET W, NEW K2 \in SUBSET K, NEW E2 \in SUBSET E
  PROVE  Ordered(o, Q2, W2, K2, E2)
<1> DEFINE n == Len(o.answered)
<1>1. ASSUME Open(o)
      PROVE  /\ Alone(Q2, W2, K2, E2)
             /\ o.armed # "off" => Q2 = {} /\ W2 = {} /\ K2 = {} /\ E2 = {}
             /\ \/ o.dispatched = n /\ Reading(n, o, Q2, W2, K2, E2)
                \/ /\ o.dispatched = n + 1 /\ o.asked = n + 1
                   /\ Answering(n + 1, o, Q2, W2, K2, E2)
  <2>1. Alone(Q2, W2, K2, E2)
    BY <1>1 DEF Ordered, Alone
  <2>2. o.armed # "off" => Q2 = {} /\ W2 = {} /\ K2 = {} /\ E2 = {}
    BY <1>1 DEF Ordered
  <2>3. Reading(n, o, Q, W, K, E) => Reading(n, o, Q2, W2, K2, E2)
    BY DEF Reading
  <2>4. Answering(n + 1, o, Q, W, K, E) => Answering(n + 1, o, Q2, W2, K2, E2)
    <3> DEFINE d == n + 1
    <3> HIDE DEF d
    <3> SUFFICES Answering(d, o, Q, W, K, E) => Answering(d, o, Q2, W2, K2, E2)
      BY DEF d
    <3> QED
      BY DEF Answering
  <2> QED
    BY <1>1, <2>1, <2>2, <2>3, <2>4 DEF Ordered
<1> QED
  BY <1>1 DEF Ordered

LEMMA ClosedTurn ==
  ASSUME NEW g, NEW o \in Connection, NEW T, NEW W, NEW K, NEW E,
         o.strict => Numbered(o), Distinct(o, T)
  PROVE  /\ Turn(Closed(o), T, W, K, E) /\ Lively(Closed(o), T, W, K, E, TRUE)
         /\ ~Open(Closed(o)) /\ Closed(o).asked = o.asked
<1>1. /\ Closed(o).peer = "closed" /\ Closed(o).strict = o.strict
      /\ Closed(o).answered = o.answered /\ Closed(o).asked = o.asked
      /\ Closed(o).dispatched = o.dispatched
  BY DEF Closed, Connection
<1>2. ~Open(Closed(o)) /\ Closed(o).peer \notin {"open", "fin"}
  BY <1>1 DEF Open
<1> QED
  BY <1>1, <1>2 DEF Turn, Ordered, Numbered, Tallied, Distinct, Lively

\* The request of a waiting client is read: handed to the pool, or there is more to come.
LEMMA ReadOrdered ==
  ASSUME NEW g, NEW o \in Connection, Sound(g, o), config \in Config, Open(o), o.rx # <<>>,
         NEW Q, NEW W, NEW K, NEW E, Ordered(o, Q, W, K, E), NEW x \in E, x.io = "in"
  PROVE  LET e == Read(o)
         IN  /\ Q = {} /\ e.job = "none" => Ordered(e.o, {}, W, K, {})
             /\ Q = {} /\ e.job # "none" =>
                  \A t : t.req = e.o.dispatched /\ t.kind = e.job => Ordered(e.o, {t}, W, K, {})
             /\ Q = {}
<1> DEFINE e == Read(o)
           s == o.buf \o o.rx
           n == Len(o.answered)
           m == config.maxRequest
<1>1. ReadDone(o, e, s)
  BY ReadFields
<1>2. n \in Nat /\ m \in Nat \ {0} /\ o.asked \in Nat /\ s \in Seq(Token)
  <2>1. o.buf \in Seq(Token) /\ o.rx \in Seq(Token) /\ o.answered \in Seq(Response)
    BY DEF Connection
  <2>2. m \in MaxRequest
    BY DEF Config
  <2>3. m \in Nat \ {0}
    BY <2>2, ReactorAssumption
  <2>4. o.asked \in Nat
    BY DEF Connection
  <2> QED
    BY <2>1, <2>3, <2>4
<1>3. /\ o.dispatched = n /\ Reading(n, o, Q, W, K, E) /\ o.armed = "off" /\ o.asked <= n + 1
      /\ Numbered(o) /\ n <= o.asked
  BY DEF Ordered, Answering, Numbered
<1>4. Q = {} /\ W = {} /\ K = {} /\ o.resp = NoResponse
  BY <1>3 DEF Reading
<1>5. IF o.asked = n THEN Bit(s) ELSE o.asked = n + 1 /\ One(s)
  <2>1. IF o.asked = n THEN Bit(s) ELSE One(s)
    BY <1>3 DEF Reading
  <2> HIDE DEF s, n
  <2> QED
    BY <1>2, <1>3, <2>1
<1>6. Open(e.o) /\ e.o.asked = o.asked /\ e.o.answered = o.answered /\ e.o.resp = NoResponse
  BY <1>1, <1>4 DEF ReadDone, Alike, Unsent, Open
<1>7. Numbered(e.o) /\ e.o.rx = <<>>
  BY <1>1, <1>3, <1>6 DEF Numbered, ReadDone
<1> HIDE DEF e, s, n, m
<1>8. ASSUME Bit(s), s # <<>> PROVE Incomplete(s) /\ Len(s) = 1
  <2>1. s = <<"part">>
    BY <1>8 DEF Bit
  <2>2. Len(s) = 1 /\ s[1] = "part"
    BY <2>1
  <2>3. Ends(s) = 2
    BY <2>2 DEF Ends
  <2> QED
    BY <2>2, <2>3 DEF Incomplete
<1>9. One(s) => ~Incomplete(s) /\ s # <<>> /\ Rest(s) = <<>>
  <2>1. Ends(s) \in Nat
    BY DEF Ends
  <2>2. One(s) => s # <<>> /\ Len(s) = Ends(s)
    BY DEF One
  <2>3. One(s) => ~Incomplete(s)
    BY <2>1, <2>2 DEF Incomplete
  <2>4. \A k \in Nat : k = Len(s) => SubSeq(s, k + 1, Len(s)) = <<>>
    BY <1>2
  <2> QED
    BY <2>1, <2>2, <2>3, <2>4 DEF Rest
<1>10. CASE e.job = "none"
  <2>1. e.o.armed = "in" /\ e.o.buf = s /\ (s = <<>> \/ Incomplete(s)) /\ e.o.dispatched = n
    BY <1>1, <1>3, <1>4, <1>10 DEF ReadDone, Counts
  <2>2. o.asked = n /\ Bit(s)
    BY <1>5, <1>9, <2>1
  <2>3. e.o.buf \o e.o.rx = s
    BY <1>2, <1>7, <2>1
  <2>4. Reading(n, e.o, {}, W, K, {})
    BY <1>4, <1>6, <2>1, <2>2, <2>3 DEF Reading
  <2>5. Alone({}, W, K, {})
    BY <1>4 DEF Alone
  <2>6. Len(e.o.answered) = n
    BY <1>6 DEF n
  <2>7. Ordered(e.o, {}, W, K, {})
    BY <1>3, <1>4, <1>6, <1>7, <2>1, <2>4, <2>5, <2>6 DEF Ordered
  <2> QED
    BY <1>4, <1>10, <2>7 DEF e
<1>11. CASE e.job # "none"
  <2>1. /\ e.o.armed = "off" /\ s # <<>> /\ (Incomplete(s) => Len(s) > m)
        /\ e.job = "bad" \/ e.o.buf = Rest(s)
        /\ e.o.dispatched = n + 1
    BY <1>1, <1>3, <1>11 DEF ReadDone, Counts, m
  <2>2. o.asked = n + 1 /\ Rest(s) = <<>>
    <3>1. CASE o.asked = n
      <4>1. Incomplete(s) /\ Len(s) = 1
        BY <1>5, <1>8, <2>1, <3>1
      <4>2. 1 > m
        BY <2>1, <4>1
      <4> QED
        BY <1>2, <4>2
    <3>2. CASE o.asked # n
      BY <1>5, <1>9, <3>2
    <3> QED
      BY <3>1, <3>2
  <2>3. ASSUME NEW t, t.req = e.o.dispatched, t.kind = e.job
        PROVE  Ordered(e.o, {t}, W, K, {})
    <3>1. e.job = "keep" => e.o.buf \o e.o.rx = <<>>
      BY <1>7, <2>1, <2>2
    <3>2. Answering(n + 1, e.o, {t}, W, K, {})
      BY <1>4, <1>6, <2>1, <2>3, <3>1 DEF Answering
    <3>3. Alone({t}, W, K, {})
      BY <1>4 DEF Alone
    <3>4. Len(e.o.answered) = n
      BY <1>6 DEF n
    <3> QED
      BY <1>2, <1>6, <1>7, <2>1, <2>2, <3>2, <3>3, <3>4 DEF Ordered
  <2> QED
    BY <1>4, <1>11, <2>3 DEF e
<1> QED
  BY <1>10, <1>11

\* handleRead that finds only the end of the stream has no request left to answer.
LEMMA EndSettled ==
  ASSUME NEW o \in Connection, Open(o), o.rx = <<>>,
         NEW Q, NEW W, NEW K, NEW E, Ordered(o, Q, W, K, E), NEW x \in E, x.io = "in"
  PROVE  Len(o.answered) = o.asked
<1> DEFINE n == Len(o.answered)
<1>1. o.buf \in Seq(Token) /\ n \in Nat /\ o.asked \in Nat
  BY DEF Connection
<1>2. o.buf \o o.rx = o.buf
  BY <1>1
<1>3. Reading(n, o, Q, W, K, E)
  BY DEF Ordered, Answering
<1>4. ~One(o.buf)
  <2>1. Bit(o.buf)
    BY <1>3 DEF Reading
  <2> QED
    BY <2>1 DEF Bit, One
<1> QED
  BY <1>2, <1>3, <1>4 DEF Reading

\* The response of a waiting client: all of it is sent, EPOLLOUT is armed, or the write fails.
LEMMA WriteOrdered ==
  ASSUME NEW g, NEW o \in Connection, Sound(g, o), Open(o), o.resp # NoResponse,
         Ordered(o, {}, {}, {}, {}), NEW e \in WriteOutcomes(o)
  PROVE  /\ Numbered(e.o) /\ e.job = "none"
         /\ e.shut /\ o.peer # "reset" => Len(e.o.answered) = o.asked
         /\ ~e.shut => Ordered(e.o, {}, {}, {}, {})
<1> DEFINE n == Len(o.answered)
<1>1. n \in Nat /\ o.answered \in Seq(Response) /\ o.resp \in Response /\ o.asked \in Nat
  BY DEF Connection
<1>2. /\ o.dispatched = n + 1 /\ o.asked = n + 1 /\ o.resp.req = n + 1 /\ Numbered(o)
      /\ o.keep => o.buf \o o.rx = <<>>
  BY DEF Ordered, Reading, Answering
<1>3. CASE o.peer = "reset"
  <2>1. e = Shut(o)
    BY <1>3 DEF WriteOutcomes
  <2> QED
    BY <1>2, <1>3, <2>1 DEF Shut
<1>4. CASE o.peer # "reset" /\ e = Plain(Arm(o, "out"))
  <2> DEFINE p == Arm(o, "out")
  <2>1. /\ Alike(o, p) /\ Unsent(o, p) /\ p.armed = "out" /\ p.buf = o.buf /\ p.rx = o.rx
        /\ p.dispatched = o.dispatched
    BY ArmFields
  <2>2. e.o = p /\ ~e.shut /\ e.job = "none"
    BY <1>4 DEF Plain
  <2> HIDE DEF p
  <2>3. Numbered(p)
    BY <1>2, <2>1 DEF Numbered, Alike, Unsent
  <2>4. Answering(n + 1, p, {}, {}, {}, {})
    BY <1>2, <2>1 DEF Answering, Alike, Unsent
  <2>5. Len(p.answered) = n /\ p.asked = n + 1 /\ p.dispatched = n + 1
    BY <1>2, <2>1 DEF Alike, Unsent
  <2>6. Ordered(p, {}, {}, {}, {})
    BY <1>1, <2>3, <2>4, <2>5 DEF Ordered, Alone
  <2> QED
    BY <1>2, <1>4, <2>2, <2>3, <2>6
<1>5. CASE o.peer # "reset" /\ e = Sent(o)
  <2>1. SentDone(o, e)
    BY <1>5, SentFields
  <2>2. e.o.answered = Append(o.answered, o.resp) /\ e.o.asked = n + 1
    BY <1>2, <2>1 DEF SentDone, Alike
  <2>3. /\ Len(e.o.answered) = n + 1 /\ e.o.answered[n + 1] = o.resp
        /\ \A i \in 1..n : e.o.answered[i] = o.answered[i]
    BY <1>1, <2>2
  <2>4. Numbered(e.o)
    <3> SUFFICES ASSUME NEW i \in 1..(n + 1) PROVE e.o.answered[i].req = i
      BY <1>1, <2>2, <2>3 DEF Numbered
    <3> QED
      BY <1>1, <1>2, <2>3 DEF Numbered
  <2>5. CASE e.shut
    BY <1>2, <1>5, <2>1, <2>3, <2>4, <2>5 DEF SentDone
  <2>6. CASE ~e.shut
    <3>1. o.keep /\ e.o.resp = NoResponse /\ e.o.armed = "in" /\ e.o.rx = o.rx
      BY <2>1, <2>6 DEF SentDone
    <3>2. o.buf = <<>> /\ o.rx = <<>>
      <4>1. o.buf \in Seq(Token) /\ o.rx \in Seq(Token)
        BY DEF Connection
      <4>2. o.buf \o o.rx = <<>>
        BY <1>2, <3>1
      <4>3. Len(o.buf \o o.rx) = Len(o.buf) + Len(o.rx) /\ Len(o.buf) \in Nat /\ Len(o.rx) \in Nat
        BY <4>1
      <4>4. Len(o.buf) = 0 /\ Len(o.rx) = 0
        BY <4>2, <4>3
      <4> QED
        BY <4>1, <4>4, EmptySeq
    <3>3. e.job = "none" /\ e.o.buf = <<>>
      BY <2>1, <2>6, <3>2 DEF SentDone
    <3>4. e.o.dispatched = n + 1
      BY <1>2, <2>1, <2>6, <3>3 DEF SentDone, Counts
    <3>5. e.o.buf \o e.o.rx = <<>>
      BY <3>1, <3>2, <3>3
    <3>6. Reading(n + 1, e.o, {}, {}, {}, {})
      BY <2>2, <3>1, <3>3, <3>5 DEF Reading, Bit
    <3>7. Ordered(e.o, {}, {}, {}, {})
      BY <1>1, <2>2, <2>3, <2>4, <3>4, <3>6 DEF Ordered, Alone
    <3> QED
      BY <2>4, <2>6, <3>3, <3>7
  <2> QED
    BY <2>5, <2>6
<1> QED
  BY <1>3, <1>4, <1>5 DEF WriteOutcomes

\* What a handler of connection g makes of it, when W, K and E are still on their way.
Outcome(g, o, e, T, W, K, E, woken) ==
  /\ Alike(o, e.o)
  /\ o.strict => Numbered(e.o)
  /\ Tallied(e.o, JobsOf(g, T, e))
  /\ ~e.shut => /\ Turn(e.o, JobsOf(g, T, e), W, K, E)
                /\ Lively(e.o, JobsOf(g, T, e), W, K, E, woken)
  /\ e.shut /\ o.strict /\ o.peer # "reset" => Len(e.o.answered) = o.asked

LEMMA JobQueued ==
  ASSUME NEW g, NEW e, NEW T
  PROVE  /\ e.job = "none" => JobsOf(g, T, e) = T
         /\ e.job # "none" => /\ Queued(JobsOf(g, T, e)) = Queued(T) \cup {JobOf(g, e)}
                              /\ JobOf(g, e).req = e.o.dispatched /\ JobOf(g, e).kind = e.job
BY DEF JobsOf, JobOf, Queued

LEMMA ReadOutcome ==
  ASSUME NEW g, NEW o \in Connection, Sound(g, o), config \in Config, Open(o),
         NEW T, NEW W, NEW K, NEW E, NEW woken, NEW woken2,
         \A t \in T : t.req \in Nat, NEW x \in E, x.io = "in",
         Turn(o, T, W, K, E), Lively(o, T, W, K, E, woken)
  PROVE  Outcome(g, o, Read(o), T, W, K, E \ {x}, woken2)
<1> DEFINE e == Read(o)
<1>1. E \ {x} = {} /\ (o.rx # <<>> \/ o.peer # "open") /\ \A y \in E : y.io = "in"
  BY DEF Turn, Witnessed
<1>2. Witnessed(e.o, {})
  BY DEF Witnessed
<1>3. CASE o.rx = <<>>
  <2>1. e = Shut(o)
    BY <1>1, <1>3 DEF Read, SawEnd
  <2>2. e.o = o /\ e.job = "none" /\ e.shut
    BY <2>1 DEF Shut
  <2>3. Tallied(o, T) /\ (o.strict => Ordered(o, Queued(T), W, K, E))
    BY DEF Turn
  <2>4. o.strict => Numbered(o) /\ Len(o.answered) = o.asked
    BY <1>3, <2>3, EndSettled DEF Ordered
  <2> QED
    BY <2>2, <2>3, <2>4 DEF Outcome, JobsOf, Alike
<1>4. CASE o.rx # <<>>
  <2>1. ReadDone(o, e, o.buf \o o.rx)
    BY <1>4, ReadFields
  <2>2. Alike(o, e.o) /\ Unsent(o, e.o) /\ Counts(o, e) /\ ~e.shut /\ Open(e.o)
    BY <2>1 DEF ReadDone, Alike, Open
  <2>3. e.o \in Connection
    BY ReadGood DEF Good
  <2>4. Tallied(e.o, JobsOf(g, T, e))
    BY <2>2, <2>3, TallyOn DEF Turn
  <2>5. ASSUME o.strict PROVE Ordered(e.o, Queued(JobsOf(g, T, e)), W, K, {})
    <3>1. Ordered(o, Queued(T), W, K, E)
      BY <2>5 DEF Turn
    <3>2. /\ e.job = "none" => Ordered(e.o, {}, W, K, {})
          /\ e.job # "none" =>
               \A t : t.req = e.o.dispatched /\ t.kind = e.job => Ordered(e.o, {t}, W, K, {})
          /\ Queued(T) = {}
      BY <1>4, <3>1, ReadOrdered
    <3> QED
      BY <3>2, JobQueued
  <2>6. Lively(e.o, JobsOf(g, T, e), W, K, {}, woken2)
    <3> SUFFICES ASSUME o.peer \in {"open", "fin"}
                 PROVE  /\ e.o.resp # NoResponse => e.o.armed = "out"
                        /\ e.o.armed # "off" \/ Queued(JobsOf(g, T, e)) # {}
      BY <2>2 DEF Lively, Alike
    <3>1. o.resp # NoResponse => o.armed = "out"
      BY <1>1 DEF Lively
    <3>2. CASE e.job = "none"
      BY <2>1, <3>1, <3>2 DEF ReadDone, Unsent
    <3>3. CASE e.job # "none"
      BY <2>1, <3>1, <3>3, JobQueued DEF ReadDone, Unsent
    <3> QED
      BY <3>2, <3>3
  <2> HIDE DEF e
  <2>7. o.strict => Numbered(e.o)
    BY <2>5 DEF Ordered
  <2> QED
    BY <1>1, <1>2, <2>2, <2>4, <2>5, <2>6, <2>7 DEF Outcome, Turn, Alike, e
<1> QED
  BY <1>3, <1>4

\* The response o.resp is written; what the client still has to read stays as it was.
LEMMA WriteOutcome ==
  ASSUME NEW g, NEW o \in Connection, Sound(g, o), Open(o), o.resp # NoResponse,
         NEW T, NEW W, NEW K, NEW E, NEW woken, \A t \in T : t.req \in Nat,
         o.strict => /\ Ordered(o, {}, {}, {}, {})
                     /\ Queued(T) = {} /\ W = {} /\ K = {} /\ E = {},
         Tallied(o, T), Witnessed(o, E), NEW e \in WriteOutcomes(o)
  PROVE  Outcome(g, o, e, T, W, K, E, woken)
<1>1. e = Shut(o) \/ e = Sent(o) \/ e = Plain(Arm(o, "out"))
  BY DEF WriteOutcomes
<1>2. /\ Alike(o, e.o) /\ Counts(o, e) /\ e.o.rx = o.rx
      /\ ~e.shut => \/ e.o.armed = "out"
                    \/ e.o.armed = "in" /\ e.o.resp = NoResponse
  <2>1. CASE e = Shut(o)
    BY <2>1 DEF Shut, Alike, Counts
  <2>2. CASE e = Sent(o)
    <3>1. SentDone(o, e)
      BY <2>2, SentFields
    <3> QED
      BY <3>1 DEF SentDone
  <2>3. CASE e = Plain(Arm(o, "out"))
    BY <2>3, ArmFields DEF Plain, Counts
  <2> QED
    BY <1>1, <2>1, <2>2, <2>3
<1>3. e.o \in Connection /\ Open(e.o)
  BY <1>2, WriteGood DEF Good, Alike, Open
<1>4. Tallied(e.o, JobsOf(g, T, e))
  BY <1>2, <1>3, TallyOn
<1>5. Witnessed(e.o, E)
  BY <1>2 DEF Witnessed, Alike
<1>6. o.strict => /\ Numbered(e.o) /\ e.job = "none"
                  /\ e.shut /\ o.peer # "reset" => Len(e.o.answered) = o.asked
                  /\ ~e.shut => Ordered(e.o, {}, {}, {}, {})
  BY WriteOrdered
<1>7. o.strict /\ ~e.shut => Ordered(e.o, Queued(JobsOf(g, T, e)), W, K, E)
  BY <1>6, JobQueued
<1>8. ~e.shut => Lively(e.o, JobsOf(g, T, e), W, K, E, woken)
  BY <1>2 DEF Lively
<1> QED
  BY <1>2, <1>4, <1>5, <1>6, <1>7, <1>8 DEF Outcome, Turn, Alike

\* handleWrite with nothing to write: only a client that does not wait can be there.
LEMMA AwaitOutcome ==
  ASSUME NEW g, NEW o \in Connection, o.resp = NoResponse, Open(o),
         NEW T, NEW W, NEW K, NEW E, NEW woken, \A t \in T : t.req \in Nat,
         NEW x \in E, x.io = "out", Turn(o, T, W, K, E)
  PROVE  Outcome(g, o, AwaitMore(o), T, W, K, E \ {x}, woken)
<1> DEFINE p == Arm(o, "in")
<1>1. /\ Alike(o, p) /\ Unsent(o, p) /\ p.armed = "in" /\ p.rx = o.rx
      /\ p.dispatched = o.dispatched /\ p.inFlight = o.inFlight
  BY ArmFields
<1>2. AwaitMore(o).o = p /\ AwaitMore(o).job = "none" /\ ~AwaitMore(o).shut
  BY DEF AwaitMore, Plain
<1>3. ~o.strict
  <2>1. ~Reading(Len(o.answered), o, Queued(T), W, K, E)
    BY DEF Reading
  <2>2. ~Answering(Len(o.answered) + 1, o, Queued(T), W, K, E)
    BY DEF Answering
  <2>3. ~Ordered(o, Queued(T), W, K, E)
    BY <2>1, <2>2 DEF Ordered
  <2> QED
    BY <2>3 DEF Turn
<1> HIDE DEF p
<1>4. Tallied(p, T)
  BY <1>1 DEF Turn, Tallied, Distinct, Alike, Open
<1>5. Witnessed(p, E \ {x})
  BY <1>1 DEF Turn, Witnessed, Alike
<1>6. Lively(p, T, W, K, E \ {x}, woken)
  BY <1>1 DEF Lively, Unsent
<1> QED
  BY <1>1, <1>2, <1>3, <1>4, <1>5, <1>6 DEF Outcome, Turn, Alike, JobsOf

\* handleWrite that goes on with a response.
LEMMA FlushOutcome ==
  ASSUME NEW g, NEW o \in Connection, Sound(g, o), o.resp # NoResponse, Open(o),
         NEW T, NEW W, NEW K, NEW E, NEW woken, \A t \in T : t.req \in Nat,
         NEW x \in E, x.io = "out", Turn(o, T, W, K, E), NEW e \in WriteOutcomes(o)
  PROVE  Outcome(g, o, e, T, W, K, E \ {x}, woken)
<1>1. E \ {x} = {} /\ Witnessed(o, E \ {x}) /\ Tallied(o, T)
  BY DEF Turn, Witnessed
<1>2. ASSUME o.strict
      PROVE  Ordered(o, {}, {}, {}, {}) /\ Queued(T) = {} /\ W = {} /\ K = {}
  <2>1. Ordered(o, Queued(T), W, K, E)
    BY <1>2 DEF Turn
  <2>2. Alone(Queued(T), W, K, E)
    BY <2>1 DEF Ordered
  <2>3. Queued(T) = {} /\ W = {} /\ K = {}
    BY <2>2 DEF Alone
  <2> QED
    BY <2>1, <2>3, OrderedLess
<1> QED
  BY <1>1, <1>2, WriteOutcome

\* handleWake: response i becomes the one that is written.
LEMMA DeliverOutcome ==
  ASSUME NEW g, NEW o \in Connection, Open(o),
         NEW T, NEW W, NEW K, NEW E, NEW woken, \A t \in T : t.req \in Nat,
         Turn(o, T, W, K, E), NEW i \in K,
         NEW p \in Connection, Sound(g, p), p.resp # NoResponse, p.resp.req = i.req, p.keep = i.keep,
         Alike(o, p), p.answered = o.answered, p.rx = o.rx, p.buf = o.buf, p.armed = o.armed,
         p.dispatched = o.dispatched, p.inFlight = o.inFlight,
         NEW e \in WriteOutcomes(p)
  PROVE  Outcome(g, o, e, T, W, K \ {i}, E, woken)
<1>1. Open(p) /\ p.strict = o.strict /\ Tallied(p, T) /\ Witnessed(p, E)
  BY DEF Turn, Tallied, Distinct, Witnessed, Alike, Open
<1>2. ASSUME o.strict
      PROVE  Ordered(p, {}, {}, {}, {}) /\ Queued(T) = {} /\ W = {} /\ K = {i} /\ E = {}
  <2> DEFINE n == Len(o.answered)
  <2>1. Ordered(o, Queued(T), W, K, E)
    BY <1>2 DEF Turn
  <2>2. Alone(Queued(T), W, K, E)
    BY <2>1 DEF Ordered
  <2>3. Queued(T) = {} /\ W = {} /\ K = {i} /\ E = {}
    BY <2>2 DEF Alone
  <2>4. ~Reading(n, o, Queued(T), W, K, E)
    BY DEF Reading
  <2>5. /\ o.dispatched = n + 1 /\ o.asked = n + 1 /\ Answering(n + 1, o, Queued(T), W, K, E)
        /\ Numbered(o) /\ o.armed = "off"
    BY <2>1, <2>4 DEF Ordered
  <2>6. i.req = n + 1 /\ (i.keep => o.buf \o o.rx = <<>>)
    BY <2>5 DEF Answering
  <2>7. Answering(n + 1, p, {}, {}, {}, {})
    BY <2>5, <2>6 DEF Answering
  <2>8. Numbered(p) /\ p.dispatched = n + 1 /\ p.asked = n + 1 /\ Len(p.answered) = n
    BY <2>5 DEF Numbered, Alike
  <2>9. n \in Nat
    BY DEF Connection
  <2>10. Ordered(p, {}, {}, {}, {})
    BY <2>5, <2>7, <2>8, <2>9 DEF Ordered, Alone
  <2> QED
    BY <2>3, <2>10
<1>3. Outcome(g, p, e, T, W, K \ {i}, E, woken)
  BY <1>1, <1>2, WriteOutcome
<1> QED
  BY <1>3 DEF Outcome, Alike

-----------------------------------------------------------------------------
(* Turns is kept by a step of a reactor, a worker, a client and the acceptor. *)

\* What is on its way for other connections than g stays where it is.
Elsewhere(g) ==
  \A h \in Gen \ {g} : \A r \in Sub :
    /\ {i \in items'[r] : i.gen = h} = {i \in items[r] : i.gen = h}
    /\ {x \in batch'[r] : x.gen = h} = {x \in batch[r] : x.gen = h}
WokenOn == \A r \in Sub : Woken(r) => Woken(r)'

\* For a connection that a step does not touch, or only closes, nothing changes.
LEMMA Aside ==
  ASSUME conn \in [Gen -> Connection], NEW h \in Gen, InHand(h),
         \A r \in Sub : r = conn[h].sub /\ Woken(r) => Woken(r)',
         Work(h)' = Work(h), conn'[h] = conn[h] \/ conn'[h] = Closed(conn[h]),
         AtRegistration(h)' => AtRegistration(h),
         AtRegistration(h) /\ ~AtRegistration(h)' => conn'[h] = Closed(conn[h]),
         Open(conn[h]) /\ conn'[h] = conn[h] =>
           Waiting(h)' = Waiting(h) /\ Taken(h)' = Taken(h) /\ Reported(h)' = Reported(h)
  PROVE  InHand(h)'
<1> DEFINE o == conn[h]
<1>1. o \in Connection /\ o.sub \in Sub
  BY DEF Connection
<1>3. Turn(o, Work(h), Waiting(h), Taken(h), Reported(h))
  BY DEF InHand
<1>4. CASE conn'[h] = o /\ Open(o)
  <2>1. Woken(o.sub) => Woken(o.sub)'
    BY <1>1, <1>4 DEF Woken
  <2>2. Lively(o, Work(h), Waiting(h), Taken(h), Reported(h), Woken(o.sub)) =>
          Lively(o, Work(h), Waiting(h), Taken(h), Reported(h), Woken(o.sub)')
    BY <2>1 DEF Lively
  <2>3. conn'[h] # Closed(o)
    BY <1>1, <1>4 DEF Closed, Connection, Open
  <2> QED
    BY <1>3, <1>4, <2>2, <2>3 DEF InHand
<1>5. CASE conn'[h] = o /\ ~Open(o)
  <2>1. \A W, K, E : Turn(o, Work(h), W, K, E)
    BY <1>3, <1>5 DEF Turn, Ordered
  <2>2. \A W, K, E, woken : Lively(o, Work(h), W, K, E, woken)
    BY <1>5 DEF Lively, Open
  <2> QED
    BY <1>5, <2>1, <2>2 DEF InHand
<1>6. CASE conn'[h] = Closed(o)
  <2>1. o.strict => Numbered(o)
    BY <1>3 DEF Turn, Ordered
  <2>2. Distinct(o, Work(h))
    BY <1>3 DEF Turn, Tallied
  <2>3. /\ \A W, K, E : Turn(Closed(o), Work(h), W, K, E)
        /\ ~Open(Closed(o))
    BY <1>1, <2>1, <2>2, ClosedTurn
  <2>4. \A W, K, E, woken : Lively(Closed(o), Work(h), W, K, E, woken)
    BY <2>3 DEF Lively, Open
  <2>5. Untouched(o) => Untouched(Closed(o))
    BY <1>1 DEF Untouched, Closed, Connection
  <2> QED
    BY <1>6, <2>3, <2>4, <2>5 DEF InHand
<1> QED
  BY <1>4, <1>5, <1>6

\* closeConnectionId drops no response but those of the connections it closes.
LEMMA Dropped ==
  ASSUME IInv, NEW S \in SUBSET Gen, Found(S), NEW c, CloseAll(S, c),
         NEW h \in Gen \ S, Open(conn[h]), conn[h].sub \in Sub
  PROVE  {p \in pendingResponses'[conn[h].sub] : p.gen = h} = Waiting(h)
<1> DEFINE r == conn[h].sub
           Gone(s, fd) == \E g \in S : conn[g].sub = s /\ conn[g].fd = fd
<1>1. {g \in S : Current(g)} = S
  BY FoundOnes
<1>2. pendingResponses'[r] = {p \in pendingResponses[r] : ~Gone(r, conn[p.gen].fd)}
  BY <1>1 DEF CloseAll
<1>3. Current(h)
  BY DEF IInv, Tables, TablesAgree
<1>4. ~Gone(r, conn[h].fd)
  <2> SUFFICES ASSUME NEW g \in S, conn[g].fd = conn[h].fd PROVE FALSE
    OBVIOUS
  <2>1. Current(g)
    BY FoundOnes
  <2> QED
    BY <1>3, <2>1 DEF Current
<1> QED
  BY <1>2, <1>4 DEF Waiting

\* A handler of connection g, which is in no table but those of reactor r.
Handled(r, g, e) ==
  /\ g \in Gen /\ Known(g) /\ Open(conn[g]) /\ conn[g].sub = r /\ Found({g})
  /\ Good(g, conn[g], e) /\ Effect(g, e)
  /\ UNCHANGED <<wakeFd, acceptor>> /\ Elsewhere(g) /\ WokenOn
  /\ \A s \in Sub : half'[s] = Emptied => items'[s] = {}
  /\ Outcome(g, conn[g], e, Work(g), Waiting(g),
             {i \in items'[r] : i.gen = g}, {x \in batch'[r] : x.gen = g}, Woken(r)')

\* Its effect on the connections.
LEMMA HandledConn ==
  ASSUME IInv, NEW r \in Sub, NEW g, NEW e, Handled(r, g, e)
  PROVE  /\ conn'[g] = IF e.shut THEN Closed(e.o) ELSE e.o
         /\ \A h \in Gen \ {g} : conn'[h] = conn[h]
         /\ tasks' = IF e.job = "none" THEN tasks ELSE tasks \cup {JobOf(g, e)}
         /\ \A h \in Gen : Open(conn[h]) /\ (h = g => ~e.shut) =>
              {p \in pendingResponses'[conn[h].sub] : p.gen = h} = Waiting(h)
<1>1. g \in Gen /\ Effect(g, e) /\ conn \in [Gen -> Connection] /\ Found({g})
  BY TypesNow DEF Handled
<1>2. tasks' = IF e.job = "none" THEN tasks ELSE tasks \cup {JobOf(g, e)}
  BY <1>1 DEF Effect, JobOf
<1>3. CASE e.shut
  <2> DEFINE c == [conn EXCEPT ![g] = e.o]
  <2>1. CloseAll({g}, c)
    BY <1>1, <1>3 DEF Effect
  <2>2. c[g] = e.o /\ \A h \in Gen \ {g} : c[h] = conn[h]
    BY <1>1
  <2> HIDE DEF c
  <2>3. CloseTables({g}, c)
    BY <1>1, <2>1, CloseAllTables
  <2>4. conn' = [h \in Gen |-> IF h \in {g} THEN Closed(c[h]) ELSE c[h]]
    BY <2>3 DEF CloseTables
  <2>5. \A h \in Gen \ {g} : conn[h].sub \in Sub
    BY <1>1 DEF Connection
  <2>6. \A h \in Gen \ {g} : Open(conn[h]) =>
          {p \in pendingResponses'[conn[h].sub] : p.gen = h} = Waiting(h)
    BY <1>1, <2>1, <2>5, Dropped
  <2> QED
    BY <1>1, <1>2, <1>3, <2>2, <2>4, <2>6
<1>4. CASE ~e.shut
  <2>1. conn' = [conn EXCEPT ![g] = e.o] /\ UNCHANGED pendingResponses
    BY <1>1, <1>4 DEF Effect
  <2> QED
    BY <1>1, <1>2, <1>4, <2>1 DEF Waiting
<1> QED
  BY <1>3, <1>4

LEMMA HandledTurns ==
  ASSUME IInv, Turns, NEW r \in Sub, NEW g, NEW e, Handled(r, g, e)
  PROVE  Turns'
<1>1. /\ conn'[g] = IF e.shut THEN Closed(e.o) ELSE e.o
      /\ \A h \in Gen \ {g} : conn'[h] = conn[h]
      /\ tasks' = IF e.job = "none" THEN tasks ELSE tasks \cup {JobOf(g, e)}
      /\ \A h \in Gen : Open(conn[h]) /\ (h = g => ~e.shut) =>
           {p \in pendingResponses'[conn[h].sub] : p.gen = h} = Waiting(h)
  BY HandledConn
<1>2. /\ g \in Gen /\ Known(g) /\ Open(conn[g]) /\ conn[g].sub = r /\ Good(g, conn[g], e)
      /\ UNCHANGED acceptor /\ Elsewhere(g) /\ WokenOn
      /\ \A s \in Sub : half'[s] = Emptied => items'[s] = {}
      /\ Outcome(g, conn[g], e, Work(g), Waiting(g),
                 {i \in items'[r] : i.gen = g}, {x \in batch'[r] : x.gen = g}, Woken(r)')
  BY DEF Handled
<1>3. JobOf(g, e).gen = g
  BY DEF JobOf
<1>4. Work(g)' = JobsOf(g, Work(g), e) /\ \A h \in Gen \ {g} : Work(h)' = Work(h)
  BY <1>1, <1>3 DEF Work, JobsOf
<1>5. ASSUME NEW h \in Gen \ {g} PROVE InHand(h)'
  <2>1. conn'[h] = conn[h] /\ InHand(h) /\ Work(h)' = Work(h)
    BY <1>1, <1>4 DEF Turns
  <2>2. conn[h].sub \in Sub
    BY TypesNow DEF Connection
  <2>3. Open(conn[h]) => Waiting(h)' = Waiting(h)
    BY <1>1, <2>1 DEF Waiting
  <2>4. Taken(h)' = Taken(h) /\ Reported(h)' = Reported(h)
    BY <1>2, <2>1, <2>2 DEF Elsewhere, Taken, Reported
  <2>5. AtRegistration(h)' <=> AtRegistration(h)
    BY <1>2 DEF AtRegistration, Early
  <2>6. \A s \in Sub : s = conn[h].sub /\ Woken(s) => Woken(s)'
    BY <1>2 DEF WokenOn
  <2> QED
    BY <2>1, <2>3, <2>4, <2>5, <2>6, TypesNow, Aside
<1>6. ~AtRegistration(g)'
  BY <1>2 DEF AtRegistration, Known, Early
<1>7. CASE ~e.shut
  <2>1. conn'[g] = e.o /\ e.o.sub = r
    BY <1>1, <1>2, <1>7 DEF Good
  <2>2. Waiting(g)' = Waiting(g)
    BY <1>1, <1>2, <1>7, <2>1 DEF Waiting
  <2>3. /\ Taken(g)' = {i \in items'[r] : i.gen = g}
        /\ Reported(g)' = {x \in batch'[r] : x.gen = g}
    BY <2>1 DEF Taken, Reported
  <2>4. Woken(conn[g].sub)' = Woken(r)'
    BY <2>1 DEF Woken
  <2>5. /\ Turn(e.o, Work(g)', Waiting(g)', Taken(g)', Reported(g)')
        /\ Lively(e.o, Work(g)', Waiting(g)', Taken(g)', Reported(g)', Woken(r)')
    BY <1>2, <1>4, <1>7, <2>2, <2>3 DEF Outcome
  <2>6. InHand(g)'
    BY <1>6, <2>1, <2>4, <2>5 DEF InHand
  <2> QED
    BY <1>2, <1>5, <2>6 DEF Turns
<1>8. CASE e.shut
  <2>1. conn'[g] = Closed(e.o) /\ e.o \in Connection
    BY <1>1, <1>2, <1>8 DEF Good
  <2>2. (e.o.strict => Numbered(e.o)) /\ Distinct(e.o, Work(g)')
    BY <1>2, <1>4 DEF Outcome, Tallied, Alike
  <2>3. \A W, K, E : /\ Turn(Closed(e.o), Work(g)', W, K, E)
                     /\ ~Open(Closed(e.o))
    BY <2>1, <2>2, ClosedTurn
  <2>4. \A W, K, E, woken : Lively(Closed(e.o), Work(g)', W, K, E, woken)
    BY <2>3 DEF Lively, Open
  <2>5. InHand(g)'
    BY <1>6, <2>1, <2>3, <2>4 DEF InHand
  <2> QED
    BY <1>2, <1>5, <2>5 DEF Turns
<1> QED
  BY <1>7, <1>8

\* A handler that closes its connection has answered all a waiting client asked.
LEMMA HandledCloses ==
  ASSUME IInv, NEW r \in Sub, NEW g, NEW e, Handled(r, g, e),
         NEW h \in Gen, Closes(h), conn[h].strict, conn[h].peer # "reset"
  PROVE  Len(conn'[h].answered) = conn[h].asked
<1>1. /\ conn'[g] = IF e.shut THEN Closed(e.o) ELSE e.o
      /\ \A k \in Gen \ {g} : conn'[k] = conn[k]
  BY HandledConn
<1>2. /\ g \in Gen /\ Good(g, conn[g], e)
      /\ Alike(conn[g], e.o)
      /\ e.shut /\ conn[g].strict /\ conn[g].peer # "reset" => Len(e.o.answered) = conn[g].asked
  BY DEF Handled, Outcome
<1>3. Open(conn[h]) /\ conn'[h].peer = "closed" /\ conn[h].peer # "closed"
  BY DEF Closes, Open
<1>4. h = g
  BY <1>1, <1>3
<1>5. e.shut
  BY <1>1, <1>2, <1>3, <1>4 DEF Alike
<1>6. e.o \in Connection
  BY <1>2 DEF Good
<1>7. Closed(e.o).answered = e.o.answered
  BY <1>6 DEF Closed, Connection
<1> QED
  BY <1>1, <1>2, <1>4, <1>5, <1>7

\* What is known of a connection that reactor r owns.
Mine(r, g) ==
  /\ g \in Gen /\ Known(g) /\ Open(conn[g]) /\ conn[g].sub = r /\ Found({g})
  /\ conn[g] \in Connection /\ Sound(g, conn[g]) /\ contexts[r][conn[g].fd] = g
  /\ \A t \in Work(g) : t.req \in Nat
  /\ Turn(conn[g], Work(g), Waiting(g), Taken(g), Reported(g))
  /\ Lively(conn[g], Work(g), Waiting(g), Taken(g), Reported(g), Woken(r))

LEMMA OwnsMine ==
  ASSUME IInv, Turns, NEW r \in Sub, NEW g, Known(g), Owns(r, g)
  PROVE  Mine(r, g)
<1>1. conn[g].fd \in Fd /\ contexts[r][conn[g].fd] = g /\ g \in Gen /\ g # 0
  BY OwnsContext
<1>2. Open(conn[g]) /\ conn[g].sub = r /\ conn[g].fd \in Fd
  BY <1>1, FoundContext
<1>3. Found({g})
  BY <1>1, <1>2 DEF Found
<1>4. conn[g] \in Connection /\ Sound(g, conn[g])
  BY <1>1, TypesNow
<1>5. \A t \in Work(g) : t.req \in Nat
  BY TypesNow DEF Work, Job
<1>6. InHand(g) /\ ~AtRegistration(g)
  BY <1>1 DEF Turns, AtRegistration, Known
<1> QED
  BY <1>1, <1>2, <1>3, <1>4, <1>5, <1>6 DEF Mine, InHand

\* Taking an event of a connection from the batch moves nothing else.
LEMMA TakesOne ==
  ASSUME IInv, Turns, NEW r \in Sub, NEW x, Take(r, x), x.gen \in Gen,
         UNCHANGED <<wakeFd, items>>,
         NEW mine, mine # Emptied, half' = [half EXCEPT ![r] = mine]
  PROVE  /\ Elsewhere(x.gen) /\ WokenOn
         /\ \A s \in Sub : half'[s] = Emptied => items'[s] = {}
         /\ {y \in batch'[r] : y.gen = x.gen} = {y \in batch[r] : y.gen = x.gen} \ {x}
         /\ x \in batch[r]
<1>1. /\ x \in batch[r] /\ batch' = [batch EXCEPT ![r] = @ \ {x}] /\ half[r] = Whole
      /\ batch \in [Sub -> SUBSET Event]
      /\ half \in [Sub -> [fd : Fd, gen : Gen] \cup {Whole, Emptied}]
  BY TypesNow DEF Take
<1>2. \A s \in Sub : half'[s] = Emptied <=> half[s] = Emptied
  <2>1. Whole # Emptied
    BY DEF Whole, Emptied
  <2> QED
    BY <1>1, <2>1
<1>3. x # Wake
  BY DEF Wake, Gen
<1>4. \A s \in Sub : batch'[s] = IF s = r THEN batch[r] \ {x} ELSE batch[s]
  BY <1>1
<1>5. Elsewhere(x.gen)
  BY <1>4 DEF Elsewhere
<1>6. WokenOn
  BY <1>2, <1>3, <1>4 DEF WokenOn, Woken
<1> QED
  BY <1>1, <1>2, <1>4, <1>5, <1>6 DEF Turns

LEMMA ReadHandled ==
  ASSUME IInv, Turns, NEW r \in Sub, NEW x, Take(r, x), Known(x.gen), x.io = "in", Owns(r, x.gen),
         Effect(x.gen, Read(conn[x.gen])), UNCHANGED <<wakeFd, items, accepting>>,
         NEW mine, mine # Emptied, half' = [half EXCEPT ![r] = mine]
  PROVE  Handled(r, x.gen, Read(conn[x.gen]))
<1> DEFINE g == x.gen
           e == Read(conn[g])
<1>1. Mine(r, g)
  BY OwnsMine
<1>2. Good(g, conn[g], e)
  BY <1>1, TypesNow, ReadGood DEF Mine
<1>3. /\ Elsewhere(g) /\ WokenOn
      /\ \A s \in Sub : half'[s] = Emptied => items'[s] = {}
      /\ {y \in batch'[r] : y.gen = g} = {y \in batch[r] : y.gen = g} \ {x}
      /\ x \in batch[r]
  BY <1>1, TakesOne DEF Mine
<1>4. {i \in items'[r] : i.gen = g} = Taken(g) /\ {y \in batch'[r] : y.gen = g} = Reported(g) \ {x}
      /\ x \in Reported(g)
  BY <1>1, <1>3 DEF Mine, Taken, Reported
<1>5. config \in Config
  BY DEF IInv, TypeOK
<1> HIDE DEF g
<1>6. Outcome(g, conn[g], e, Work(g), Waiting(g), Taken(g), Reported(g) \ {x}, Woken(r)')
  BY <1>1, <1>4, <1>5, ReadOutcome DEF Mine
<1> HIDE DEF e
<1>7. Effect(g, e) /\ UNCHANGED acceptor
  BY DEF g, e, accepting
<1>8. Handled(r, g, e)
  BY <1>1, <1>2, <1>3, <1>4, <1>6, <1>7 DEF Mine, Handled
<1> QED
  BY <1>8 DEF e, g

LEMMA HandleReadHandled ==
  ASSUME IInv, Turns, NEW r \in Sub, NEW x, HandleRead(r, x)
  PROVE  \E g, e : Handled(r, g, e)
<1>1. /\ Take(r, x) /\ x.io = "in" /\ Owns(r, x.gen)
      /\ UNCHANGED <<wakeFd, items, half, misfired, accepting>>
  BY DEF HandleRead
<1>2. Known(x.gen)
  BY <1>1, TakesEvent DEF Wake, Timer
<1>3. contexts[r][conn[x.gen].fd] = x.gen
  BY <1>1, <1>2, OwnsContext
<1>4. Effect(x.gen, Read(conn[x.gen]))
  BY <1>3 DEF HandleRead
<1>5. half' = [half EXCEPT ![r] = Whole] /\ Whole # Emptied
  BY <1>1, TypesNow DEF Take, Whole, Emptied
<1>6. Handled(r, x.gen, Read(conn[x.gen]))
  BY <1>1, <1>2, <1>4, <1>5, ReadHandled
<1> QED
  BY <1>6

LEMMA HandleWriteHandled ==
  ASSUME IInv, Turns, NEW r \in Sub, NEW x, HandleWrite(r, x)
  PROVE  \E g, e : Handled(r, g, e)
<1> DEFINE g == x.gen
           o == conn[g]
<1>1. /\ Take(r, x) /\ x.io = "out" /\ Owns(r, g)
      /\ UNCHANGED <<wakeFd, items, half, misfired, accepting>>
  BY DEF HandleWrite
<1>2. Known(g)
  BY <1>1, TakesEvent DEF Wake, Timer
<1>3. Mine(r, g) /\ contexts[r][conn[g].fd] = g
  BY <1>1, <1>2, OwnsMine, OwnsContext
<1>4. half' = [half EXCEPT ![r] = Whole] /\ Whole # Emptied
  BY <1>1, TypesNow DEF Take, Whole, Emptied
<1>5. /\ Elsewhere(g) /\ WokenOn
      /\ \A s \in Sub : half'[s] = Emptied => items'[s] = {}
      /\ {y \in batch'[r] : y.gen = g} = {y \in batch[r] : y.gen = g} \ {x}
      /\ x \in batch[r]
  <2>1. x.gen \in Gen /\ UNCHANGED <<wakeFd, items>>
    BY <1>1, <1>3 DEF Mine
  <2> DEFINE mine == Whole
  <2>2. mine # Emptied /\ half' = [half EXCEPT ![r] = mine]
    BY <1>4
  <2> HIDE DEF mine
  <2> QED
    BY <1>1, <2>1, <2>2, TakesOne
<1>6. {i \in items'[r] : i.gen = g} = Taken(g) /\ {y \in batch'[r] : y.gen = g} = Reported(g) \ {x}
      /\ x \in Reported(g)
  BY <1>1, <1>3, <1>5 DEF Mine, Taken, Reported
<1>7. IF o.resp = NoResponse THEN Effect(g, AwaitMore(o)) ELSE \E e2 \in WriteOutcomes(o) : Effect(g, e2)
  BY <1>3 DEF HandleWrite
<1>8. /\ g \in Gen /\ o \in Connection /\ Sound(g, o) /\ Open(o) /\ \A t \in Work(g) : t.req \in Nat
      /\ Turn(o, Work(g), Waiting(g), Taken(g), Reported(g))
  BY <1>3 DEF Mine
<1> HIDE DEF g, o
<1>9. PICK e : /\ Effect(g, e) /\ Good(g, o, e)
               /\ Outcome(g, o, e, Work(g), Waiting(g), Taken(g), Reported(g) \ {x}, Woken(r)')
  <2>1. CASE o.resp = NoResponse
    <3>1. Good(g, o, AwaitMore(o))
      BY <1>8, ArmGood DEF AwaitMore
    <3>2. Outcome(g, o, AwaitMore(o), Work(g), Waiting(g), Taken(g), Reported(g) \ {x}, Woken(r)')
      BY <1>1, <1>6, <1>8, <2>1, AwaitOutcome
    <3> QED
      BY <1>7, <2>1, <3>1, <3>2
  <2>2. CASE o.resp # NoResponse
    <3>1. PICK e2 \in WriteOutcomes(o) : Effect(g, e2)
      BY <1>7, <2>2
    <3>2. Good(g, o, e2)
      BY <1>8, <2>2, <3>1, WriteGood
    <3>3. Outcome(g, o, e2, Work(g), Waiting(g), Taken(g), Reported(g) \ {x}, Woken(r)')
      BY <1>1, <1>6, <1>8, <2>2, FlushOutcome
    <3> QED
      BY <3>1, <3>2, <3>3
  <2> QED
    BY <2>1, <2>2
<1>10. UNCHANGED acceptor /\ o = conn[g]
  BY <1>1 DEF accepting, o
<1>11. Handled(r, g, e)
  BY <1>1, <1>3, <1>5, <1>6, <1>9, <1>10 DEF Mine, Handled
<1> QED
  BY <1>11

LEMMA DeliverHandled ==
  ASSUME IInv, Turns, NEW r \in Sub, NEW i, Deliver(r, i), Deliverable(r, i.gen)
  PROVE  \E g, e : Handled(r, g, e)
<1> DEFINE g == i.gen
           o == conn[g]
           p == [o EXCEPT !.keep = i.keep, !.resp = [gen |-> g, req |-> i.req]]
<1>1. /\ i \in items[r] /\ items' = [items EXCEPT ![r] = @ \ {i}]
      /\ UNCHANGED <<wakeFd, batch, half, misfired, accepting>>
  BY DEF Deliver
<1>2. i \in Request /\ Known(g) /\ items \in [Sub -> SUBSET Request]
  BY <1>1, TypesNow, AllKnown
<1>3. Mine(r, g) /\ contexts[r][conn[g].fd] = g
  BY <1>2, OwnsMine, OwnsContext DEF Deliverable
<1>4. \A s \in Sub : items'[s] = IF s = r THEN items[r] \ {i} ELSE items[s]
  BY <1>1, <1>2
<1>5. /\ Elsewhere(g) /\ WokenOn
      /\ \A s \in Sub : half'[s] = Emptied => items'[s] = {}
  BY <1>1, <1>4 DEF Elsewhere, WokenOn, Woken, Turns
<1>6. /\ {y \in items'[r] : y.gen = g} = Taken(g) \ {i} /\ i \in Taken(g)
      /\ {y \in batch'[r] : y.gen = g} = Reported(g)
  BY <1>1, <1>3, <1>4 DEF Mine, Taken, Reported
<1>7. PICK e \in WriteOutcomes(p) : Effect(g, e)
  BY <1>3 DEF Deliver
<1>8. /\ g \in Gen /\ o \in Connection /\ Sound(g, o) /\ Open(o) /\ \A t \in Work(g) : t.req \in Nat
      /\ Turn(o, Work(g), Waiting(g), Taken(g), Reported(g))
  BY <1>3 DEF Mine
<1>9. /\ p \in Connection /\ p.resp # NoResponse /\ p.resp.gen = g /\ p.resp.req = i.req
      /\ p.keep = i.keep /\ Alike(o, p) /\ p.answered = o.answered /\ p.rx = o.rx
      /\ p.buf = o.buf /\ p.armed = o.armed /\ p.dispatched = o.dispatched
      /\ p.inFlight = o.inFlight /\ p.fd = o.fd /\ p.sub = o.sub /\ p.peer = o.peer
  <2> DEFINE s == [gen |-> g, req |-> i.req]
  <2>1. s \in Response /\ s # NoResponse /\ s.gen = g /\ s.req = i.req /\ i.keep \in BOOLEAN
    BY <1>2, <1>8 DEF Request, Response, NoResponse
  <2> HIDE DEF s
  <2>2. ASSUME NEW l, l = [o EXCEPT !.keep = i.keep, !.resp = s]
        PROVE  /\ l \in Connection /\ l.resp = s
               /\ l.keep = i.keep /\ l.answered = o.answered /\ l.rx = o.rx
               /\ l.buf = o.buf /\ l.armed = o.armed /\ l.dispatched = o.dispatched
               /\ l.inFlight = o.inFlight /\ l.fd = o.fd /\ l.sub = o.sub /\ l.peer = o.peer
               /\ l.asked = o.asked /\ l.strict = o.strict /\ l.mute = o.mute
    BY <1>8, <2>1, <2>2 DEF Connection
  <2>3. p = [o EXCEPT !.keep = i.keep, !.resp = s]
    BY DEF s
  <2> HIDE DEF p, o, g
  <2> QED
    BY <2>1, <2>2, <2>3 DEF Alike
<1> HIDE DEF p, o, g
<1>10. Sound(g, p)
  BY <1>8, <1>9 DEF Sound, Own
<1>11. Good(g, p, e)
  BY <1>7, <1>9, <1>10, <1>8, WriteGood
<1>12. Good(g, o, e)
  BY <1>9, <1>11 DEF Good
<1>13. Outcome(g, o, e, Work(g), Waiting(g), Taken(g) \ {i}, Reported(g), Woken(r)')
  BY <1>6, <1>7, <1>8, <1>9, <1>10, DeliverOutcome
<1>14. UNCHANGED acceptor /\ o = conn[g]
  BY <1>1 DEF accepting, o
<1>15. Handled(r, g, e)
  BY <1>1, <1>3, <1>5, <1>6, <1>7, <1>12, <1>13, <1>14 DEF Mine, Handled
<1> QED
  BY <1>15

\* A step that only closes connections, and keeps what is on its way for the others.
LEMMA Quiet ==
  ASSUME IInv, Turns, UNCHANGED <<tasks, acceptor>>, WokenOn,
         \A r \in Sub : half'[r] = Emptied => items'[r] = {},
         \A h \in Gen :
           /\ conn'[h] = conn[h] \/ conn'[h] = Closed(conn[h])
           /\ Open(conn[h]) /\ conn'[h] = conn[h] =>
                Waiting(h)' = Waiting(h) /\ Taken(h)' = Taken(h) /\ Reported(h)' = Reported(h)
  PROVE  Turns'
<1>1. ASSUME NEW h \in Gen PROVE InHand(h)'
  <2>1. InHand(h) /\ conn \in [Gen -> Connection]
    BY TypesNow DEF Turns
  <2>2. Work(h)' = Work(h)
    BY DEF Work
  <2>3. AtRegistration(h)' <=> AtRegistration(h)
    BY DEF AtRegistration, Early
  <2>4. \A s \in Sub : s = conn[h].sub /\ Woken(s) => Woken(s)'
    BY DEF WokenOn
  <2> QED
    BY <2>1, <2>2, <2>3, <2>4, Aside
<1> QED
  BY <1>1 DEF Turns

\* An open connection is owned by its reactor.
LEMMA OpenOwned ==
  ASSUME IInv, NEW h \in Gen, Open(conn[h])
  PROVE  Owns(conn[h].sub, h) /\ conn[h].sub \in Sub /\ conn[h].fd \in Fd
<1>1. h < nextGen
  BY DEF IInv, TypeOK, Gen, Open
<1>2. conn[h].fd \in Fd /\ conn[h].sub \in Sub
  BY <1>1, TypesNow DEF IInv, Registered, Connection
<1>3. Current(h)
  BY DEF IInv, Tables, TablesAgree
<1>4. conns[conn[h].fd].owner = conn[h].sub
  BY <1>2, <1>3 DEF Current, IInv, Tables, Recorded
<1> QED
  BY <1>2, <1>3, <1>4 DEF Owns, Current

\* Taking an event that is for no open connection moves nothing.
LEMMA TakesNone ==
  ASSUME IInv, Turns, NEW r \in Sub, NEW x, Take(r, x), x = Wake => half'[r] = Emptied,
         UNCHANGED items, \A s \in Sub : wakeFd[s] = wakeFd'[s] \/ half'[s] = Emptied,
         \A s \in Sub : half'[s] = half[s] \/ (s = r /\ half'[s] = Emptied)
  PROVE  /\ WokenOn
         /\ \A s \in Sub : half'[s] = Emptied => items'[s] = {}
         /\ \A s \in Sub : \A h \in Gen :
              h # x.gen \/ s # r => {y \in batch'[s] : y.gen = h} = {y \in batch[s] : y.gen = h}
<1>1. /\ x \in batch[r] /\ batch' = [batch EXCEPT ![r] = @ \ {x}] /\ half[r] = Whole /\ items[r] = {}
      /\ batch \in [Sub -> SUBSET Event]
  BY TypesNow DEF Take
<1>2. \A s \in Sub : batch'[s] = IF s = r THEN batch[r] \ {x} ELSE batch[s]
  BY <1>1
<1>3. \A s \in Sub : half'[s] = Emptied => items'[s] = {}
  BY <1>1 DEF Turns
<1>4. \A s \in Sub : \A h \in Gen :
        h # x.gen \/ s # r => {y \in batch'[s] : y.gen = h} = {y \in batch[s] : y.gen = h}
  BY <1>2
<1>5. ASSUME NEW s \in Sub, Woken(s) PROVE Woken(s)'
  <2>1. half[r] # Emptied
    BY <1>1 DEF Whole, Emptied
  <2>2. CASE half'[s] = Emptied
    BY <2>2 DEF Woken
  <2>3. CASE half'[s] # Emptied
    BY <1>2, <1>5, <2>1, <2>3 DEF Woken
  <2> QED
    BY <2>2, <2>3
<1> QED
  BY <1>3, <1>4, <1>5 DEF WokenOn

LEMMA DropEventTurns ==
  ASSUME IInv, Turns, NEW r \in Sub, NEW x, DropEvent(r, x) PROVE Turns'
<1>1. /\ Take(r, x) /\ x.io \in {"in", "out"} /\ ~Owns(r, x.gen)
      /\ UNCHANGED <<conn, conns, contexts, pendingResponses, wakeFd, items, half, tasks,
                     activeConnections, misfired, accepting>>
  BY DEF DropEvent
<1>2. /\ WokenOn /\ \A s \in Sub : half'[s] = Emptied => items'[s] = {}
      /\ \A s \in Sub : \A h \in Gen :
           h # x.gen \/ s # r => {y \in batch'[s] : y.gen = h} = {y \in batch[s] : y.gen = h}
  <2>1. x # Wake
    BY <1>1 DEF Wake
  <2>2. UNCHANGED items /\ Take(r, x)
    BY <1>1
  <2>3. x = Wake => half'[r] = Emptied
    BY <2>1
  <2>4. \A s \in Sub : wakeFd[s] = wakeFd'[s] \/ half'[s] = Emptied
    BY <1>1
  <2>5. \A s \in Sub : half'[s] = half[s] \/ (s = r /\ half'[s] = Emptied)
    BY <1>1
  <2> QED
    BY <2>2, <2>3, <2>4, <2>5, TakesNone
<1>3. ASSUME NEW h \in Gen, Open(conn[h])
      PROVE  Waiting(h)' = Waiting(h) /\ Taken(h)' = Taken(h) /\ Reported(h)' = Reported(h)
  <2>1. Owns(conn[h].sub, h) /\ conn[h].sub \in Sub
    BY <1>3, OpenOwned
  <2>2. h # x.gen \/ conn[h].sub # r
    BY <1>1, <2>1
  <2> QED
    BY <1>1, <1>2, <2>1, <2>2 DEF Waiting, Taken, Reported
<1> QED
  BY <1>1, <1>2, <1>3, Quiet DEF accepting

\* An event on a connection that has been reset, when there is nothing to read.
LEMMA ResetHandled ==
  ASSUME IInv, Turns, NEW r \in Sub, NEW x, Take(r, x), Known(x.gen), x.hup, Owns(r, x.gen),
         UNCHANGED <<conn, conns, contexts, pendingResponses, tasks, activeConnections>>,
         UNCHANGED <<wakeFd, items, accepting>>,
         NEW mine, mine # Emptied, half' = [half EXCEPT ![r] = mine]
  PROVE  Handled(r, x.gen, Plain(conn[x.gen]))
<1> DEFINE g == x.gen
           o == conn[g]
           e == Plain(o)
<1>1. Mine(r, g)
  BY OwnsMine
<1>2. /\ Elsewhere(g) /\ WokenOn
      /\ \A s \in Sub : half'[s] = Emptied => items'[s] = {}
      /\ {y \in batch'[r] : y.gen = g} = {y \in batch[r] : y.gen = g} \ {x}
      /\ x \in batch[r]
  BY <1>1, TakesOne DEF Mine
<1>3. {i \in items'[r] : i.gen = g} = Taken(g) /\ {y \in batch'[r] : y.gen = g} = Reported(g) \ {x}
      /\ x \in Reported(g)
  BY <1>1, <1>2 DEF Mine, Taken, Reported
<1>4. e.o = o /\ e.job = "none" /\ ~e.shut /\ e.shut \in BOOLEAN
  BY DEF Plain
<1>5. /\ g \in Gen /\ o \in Connection /\ Sound(g, o) /\ Open(o)
      /\ Turn(o, Work(g), Waiting(g), Taken(g), Reported(g))
  BY <1>1 DEF Mine
<1>6. Effect(g, e)
  <2>1. conn' = [conn EXCEPT ![g] = o]
    BY <1>5, TypesNow
  <2> QED
    BY <1>4, <2>1 DEF Effect
<1> HIDE DEF e, o, g
<1>7. Good(g, o, e)
  BY <1>4, <1>5 DEF Good
<1>8. Outcome(g, o, e, Work(g), Waiting(g), Taken(g), Reported(g) \ {x}, Woken(r)')
  <2>1. Witnessed(o, Reported(g)) /\ Tallied(o, Work(g))
    BY <1>5 DEF Turn
  <2>2. o.peer = "reset"
    BY <1>3, <2>1 DEF Witnessed
  <2>3. Witnessed(o, Reported(g) \ {x})
    BY <2>1 DEF Witnessed
  <2>4. o.strict => Ordered(o, Queued(Work(g)), Waiting(g), Taken(g), Reported(g) \ {x})
    BY <1>5, OrderedLess DEF Turn
  <2>5. o.strict => Numbered(o)
    BY <2>4 DEF Ordered
  <2> QED
    BY <1>4, <2>1, <2>2, <2>3, <2>4, <2>5 DEF Outcome, Turn, Lively, Alike, JobsOf
<1>9. UNCHANGED acceptor /\ o = conn[g]
  BY DEF accepting, o
<1>10. Handled(r, g, e)
  BY <1>1, <1>2, <1>3, <1>6, <1>7, <1>8, <1>9 DEF Mine, Handled
<1> QED
  BY <1>10 DEF e, o, g

LEMMA HandleHupHandled ==
  ASSUME IInv, Turns, NEW r \in Sub, NEW x, HandleHup(r, x)
  PROVE  \E g, e : Handled(r, g, e)
<1>1. Take(r, x) /\ x.hup /\ Owns(r, x.gen) /\ UNCHANGED <<wakeFd, items, misfired, accepting>>
  BY DEF HandleHup
<1>2. Known(x.gen)
  BY <1>1, TakesEvent DEF Wake, Timer
<1>3. contexts[r][conn[x.gen].fd] = x.gen /\ conn[x.gen].fd \in Fd
  BY <1>1, <1>2, OwnsContext
<1>4. PICK mine : half' = [half EXCEPT ![r] = mine] /\ mine # Emptied
  <2> DEFINE m == [fd |-> conn[x.gen].fd, gen |-> x.gen]
  <2>1. conn[x.gen].fd # 0
    BY <1>3, ReactorAssumption
  <2>2. m.fd # 0 /\ Emptied.fd = 0
    BY <2>1 DEF Emptied
  <2>3. half' = [half EXCEPT ![r] = m]
    BY DEF HandleHup
  <2> QED
    BY <2>2, <2>3
<1>5. CASE x.io = "in"
  <2>1. Effect(x.gen, Read(conn[x.gen]))
    BY <1>3, <1>5 DEF HandleHup
  <2>2. Handled(r, x.gen, Read(conn[x.gen]))
    BY <1>1, <1>2, <1>4, <1>5, <2>1, ReadHandled
  <2> QED
    BY <2>2
<1>6. CASE x.io # "in"
  <2>1. UNCHANGED <<conn, conns, contexts, pendingResponses, tasks, activeConnections>>
    BY <1>6 DEF HandleHup
  <2>2. Handled(r, x.gen, Plain(conn[x.gen]))
    BY <1>1, <1>2, <1>4, <2>1, ResetHandled
  <2> QED
    BY <2>2
<1> QED
  BY <1>5, <1>6

\* closeConnectionId on connections that have a context keeps what is on its way for the rest.
LEMMA ClosesTurns ==
  ASSUME IInv, Turns, NEW S \in SUBSET Gen, Found(S), CloseAll(S, conn),
         UNCHANGED <<items, tasks, accepting>>, WokenOn,
         \A r \in Sub : half'[r] = Emptied => items'[r] = {},
         \A r \in Sub : \A h \in Gen :
           {x \in batch'[r] : x.gen = h} = {x \in batch[r] : x.gen = h}
  PROVE  /\ Turns'
         /\ \A h \in Gen : Closes(h) => h \in S
<1>1. conn' = [g \in Gen |-> IF g \in S THEN Closed(conn[g]) ELSE conn[g]]
  BY CloseAllTables DEF CloseTables
<1>2. ASSUME NEW h \in Gen, h \notin S, Open(conn[h])
      PROVE  Waiting(h)' = Waiting(h) /\ Taken(h)' = Taken(h) /\ Reported(h)' = Reported(h)
  <2>1. conn[h].sub \in Sub /\ conn'[h] = conn[h] /\ h \in Gen \ S
    BY <1>1, <1>2, TypesNow DEF Connection
  <2>2. {p \in pendingResponses'[conn[h].sub] : p.gen = h} = Waiting(h)
    BY <1>2, <2>1, Dropped
  <2> QED
    BY <2>1, <2>2 DEF Waiting, Taken, Reported
<1>3. \A h \in S : Open(conn[h]) /\ conn[h] \in Connection
  BY FoundOnes, TypesNow
<1>4. \A h \in S : Closed(conn[h]) # conn[h]
  BY <1>3 DEF Closed, Connection, Open
<1>5. \A h \in Gen :
        /\ conn'[h] = conn[h] \/ conn'[h] = Closed(conn[h])
        /\ Open(conn[h]) /\ conn'[h] = conn[h] =>
             Waiting(h)' = Waiting(h) /\ Taken(h)' = Taken(h) /\ Reported(h)' = Reported(h)
  BY <1>1, <1>2, <1>4
<1>6. Turns'
  BY <1>5, Quiet DEF accepting
<1>7. \A h \in Gen : Closes(h) => h \in S
  BY <1>1 DEF Closes, Open
<1> QED
  BY <1>6, <1>7

LEMMA FinishHupTurns ==
  ASSUME IInv, Turns, NEW r \in Sub, FinishHup(r) PROVE Turns'
<1> DEFINE fd == half[r].fd
           g == contexts[r][fd]
<1>1. half[r] \in [fd : Fd, gen : Gen] \cup {Whole, Emptied} /\ fd # 0
  BY TypesNow DEF FinishHup
<1>2. half[r] # Emptied /\ Whole # Emptied /\ fd \in Fd
  BY <1>1 DEF Whole, Emptied
<1>3. half' = [half EXCEPT ![r] = Whole] /\ UNCHANGED <<wakeFd, batch, items, tasks, accepting>>
  BY DEF FinishHup
<1>4. \A s \in Sub : half'[s] = Emptied <=> half[s] = Emptied
  BY <1>2, <1>3, TypesNow
<1>5. WokenOn /\ \A s \in Sub : half'[s] = Emptied => items'[s] = {}
  BY <1>3, <1>4 DEF WokenOn, Woken, Turns
<1>6. CASE g = 0 \/ conn[g].inFlight > 0 \/ conn[g].resp # NoResponse
  <2>1. UNCHANGED <<conn, pendingResponses>>
    BY <1>6 DEF FinishHup
  <2> QED
    BY <1>3, <1>5, <2>1, Quiet DEF Waiting, Taken, Reported, accepting
<1>7. CASE ~ (g = 0 \/ conn[g].inFlight > 0 \/ conn[g].resp # NoResponse)
  <2>1. CloseAll({g}, conn)
    BY <1>7 DEF FinishHup
  <2>2. {g} \in SUBSET Gen /\ Found({g})
    BY <1>2, <1>7, FoundContext DEF Found
  <2> HIDE DEF g, fd
  <2> QED
    BY <1>3, <1>5, <2>1, <2>2, ClosesTurns
<1> QED
  BY <1>6, <1>7

\* The idle timer closes only connections that have a context and no request in flight.
LEMMA HandleTimerTurns ==
  ASSUME IInv, Turns, NEW r \in Sub, NEW x, HandleTimer(r, x)
  PROVE  Turns' /\ \A h \in Gen : Closes(h) => Stale(conn[h])
<1> DEFINE found == {g \in {contexts[r][fd] : fd \in Fd} \ {0} : Stale(conn[g])}
           S == IF config.timed THEN found ELSE {}
<1>1. /\ Take(r, x) /\ x = Timer /\ CloseAll(S, conn)
      /\ UNCHANGED <<wakeFd, items, half, tasks, misfired, accepting>>
  BY DEF HandleTimer
<1>2. S \in SUBSET Gen /\ Found(S) /\ \A g \in S : Stale(conn[g])
  <2>1. \A fd \in Fd : contexts[r][fd] \in Gen \cup {0}
    BY DEF IInv, TypeOK
  <2> QED
    BY <2>1 DEF Found
<1> HIDE DEF S
<1>3. x # Wake /\ x.gen = 0
  BY <1>1 DEF Wake, Timer
<1>4. /\ WokenOn /\ \A s \in Sub : half'[s] = Emptied => items'[s] = {}
      /\ \A s \in Sub : \A h \in Gen :
           h # x.gen \/ s # r => {y \in batch'[s] : y.gen = h} = {y \in batch[s] : y.gen = h}
  <2>1. UNCHANGED items /\ Take(r, x) /\ (x = Wake => half'[r] = Emptied)
    BY <1>1, <1>3
  <2>2. \A s \in Sub : wakeFd[s] = wakeFd'[s] \/ half'[s] = Emptied
    BY <1>1
  <2>3. \A s \in Sub : half'[s] = half[s] \/ (s = r /\ half'[s] = Emptied)
    BY <1>1
  <2> QED
    BY <2>1, <2>2, <2>3, TakesNone
<1>5. \A s \in Sub : \A h \in Gen :
        {y \in batch'[s] : y.gen = h} = {y \in batch[s] : y.gen = h}
  BY <1>3, <1>4 DEF Gen
<1>6. Turns' /\ \A h \in Gen : Closes(h) => h \in S
  BY <1>1, <1>2, <1>4, <1>5, ClosesTurns
<1> QED
  BY <1>2, <1>6

LEMMA HandleWakeTurns ==
  ASSUME IInv, Turns, NEW r \in Sub, NEW x, HandleWake(r, x) PROVE Turns'
<1>1. /\ Take(r, x) /\ x = Wake
      /\ wakeFd' = [wakeFd EXCEPT ![r] = FALSE] /\ half' = [half EXCEPT ![r] = Emptied]
      /\ UNCHANGED <<conn, conns, contexts, pendingResponses, items, tasks,
                     activeConnections, misfired, accepting>>
  BY DEF HandleWake
<1>2. /\ half'[r] = Emptied
      /\ \A s \in Sub : wakeFd[s] = wakeFd'[s] \/ half'[s] = Emptied
      /\ \A s \in Sub : half'[s] = half[s] \/ (s = r /\ half'[s] = Emptied)
  BY <1>1, TypesNow
<1>3. UNCHANGED items
  BY <1>1
<1>4. /\ WokenOn /\ \A s \in Sub : half'[s] = Emptied => items'[s] = {}
      /\ \A s \in Sub : \A h \in Gen :
           h # x.gen \/ s # r => {y \in batch'[s] : y.gen = h} = {y \in batch[s] : y.gen = h}
  <2>1. Take(r, x) /\ (x = Wake => half'[r] = Emptied)
    BY <1>1, <1>2
  <2> QED
    BY <1>2, <1>3, <2>1, TakesNone
<1>5. \A s \in Sub : \A h \in Gen :
        {y \in batch'[s] : y.gen = h} = {y \in batch[s] : y.gen = h}
  BY <1>1, <1>4 DEF Gen, Wake
<1>6. ASSUME NEW h \in Gen
      PROVE  Waiting(h)' = Waiting(h) /\ Taken(h)' = Taken(h) /\ Reported(h)' = Reported(h)
  <2>1. conn[h].sub \in Sub
    BY TypesNow DEF Connection
  <2> QED
    BY <1>1, <1>5, <2>1 DEF Waiting, Taken, Reported
<1> QED
  BY <1>1, <1>4, <1>6, Quiet DEF accepting

\* The responses of a waiting client are taken.
LEMMA OrderedTaken ==
  ASSUME NEW o, NEW Q, NEW W, NEW E, Ordered(o, Q, W, {}, E)
  PROVE  Ordered(o, Q, {}, W, E)
<1> DEFINE n == Len(o.answered)
           d == n + 1
<1>1. Alone(Q, W, {}, E) => Alone(Q, {}, W, E)
  BY DEF Alone
<1>2. Reading(n, o, Q, W, {}, E) => Reading(n, o, Q, {}, W, E)
  BY DEF Reading
<1> HIDE DEF d
<1>3. Answering(d, o, Q, W, {}, E) => Answering(d, o, Q, {}, W, E)
  BY DEF Answering
<1> QED
  BY <1>1, <1>2, <1>3 DEF Ordered, d

LEMMA TakeResponsesTurns ==
  ASSUME IInv, Turns, NEW r \in Sub, TakeResponses(r) PROVE Turns'
<1>1. /\ half[r] = Emptied /\ half' = [half EXCEPT ![r] = Whole]
      /\ items' = [items EXCEPT ![r] = pendingResponses[r]]
      /\ pendingResponses' = [pendingResponses EXCEPT ![r] = {}]
      /\ UNCHANGED <<conn, conns, contexts, wakeFd, batch, tasks, activeConnections,
                     misfired, accepting>>
  BY DEF TakeResponses
<1>2. /\ half'[r] = Whole /\ items'[r] = pendingResponses[r] /\ pendingResponses'[r] = {}
      /\ \A s \in Sub \ {r} : /\ half'[s] = half[s] /\ items'[s] = items[s]
                              /\ pendingResponses'[s] = pendingResponses[s]
  BY <1>1, TypesNow
<1>3. items[r] = {} /\ Whole # Emptied
  BY <1>1 DEF Turns, Whole, Emptied
<1>4. \A s \in Sub : half'[s] = Emptied => items'[s] = {}
  BY <1>2, <1>3 DEF Turns
<1>5. ASSUME NEW h \in Gen PROVE InHand(h)'
  <2> DEFINE o == conn[h]
  <2>1. o.sub \in Sub /\ conn'[h] = o /\ InHand(h) /\ Work(h)' = Work(h)
    BY <1>1, TypesNow DEF Connection, Turns, Work
  <2>2. Reported(h)' = Reported(h) /\ (AtRegistration(h)' <=> AtRegistration(h))
    BY <1>1 DEF Reported, AtRegistration, Early, accepting
  <2>3. CASE o.sub # r
    <3>1. Waiting(h)' = Waiting(h) /\ Taken(h)' = Taken(h)
      BY <1>2, <2>1, <2>3 DEF Waiting, Taken
    <3>2. \A s \in Sub : s = conn[h].sub /\ Woken(s) => Woken(s)'
      BY <1>1, <1>2, <2>3 DEF Woken
    <3> QED
      BY <2>1, <2>2, <3>1, <3>2, TypesNow, Aside
  <2>4. CASE o.sub = r
    <3>1. Waiting(h)' = {} /\ Taken(h)' = Waiting(h) /\ Taken(h) = {}
      BY <1>2, <1>3, <2>1, <2>4 DEF Waiting, Taken
    <3>2. Turn(o, Work(h), Waiting(h), {}, Reported(h))
      BY <2>1, <3>1 DEF InHand
    <3>3. Turn(o, Work(h), {}, Waiting(h), Reported(h))
      BY <3>2, OrderedTaken DEF Turn
    <3>4. Lively(o, Work(h), Waiting(h), {}, Reported(h), Woken(r)) =>
            \A woken : Lively(o, Work(h), {}, Waiting(h), Reported(h), woken)
      BY DEF Lively
    <3> QED
      BY <2>1, <2>2, <2>4, <3>1, <3>3, <3>4 DEF InHand
  <2> QED
    BY <2>3, <2>4
<1> QED
  BY <1>4, <1>5 DEF Turns

\* epoll_wait reports a connection that was armed, and disarms it.
LEMMA PolledTurn ==
  ASSUME NEW o \in Connection, Open(o), o.armed # "off", NEW T, NEW W, NEW K, NEW woken, NEW woken2,
         Turn(o, T, W, K, {}), Lively(o, T, W, K, {}, woken),
         NEW x, x.io = o.armed, x.hup => o.peer = "reset",
         o.armed = "in" => o.rx # <<>> \/ o.peer # "open"
  PROVE  /\ Turn(Arm(o, "off"), T, W, K, {x})
         /\ Lively(Arm(o, "off"), T, W, K, {x}, woken2)
<1> DEFINE p == Arm(o, "off")
           n == Len(o.answered)
<1>1. /\ Alike(o, p) /\ Unsent(o, p) /\ p.armed = "off" /\ p.buf = o.buf /\ p.rx = o.rx
      /\ p.dispatched = o.dispatched /\ p.inFlight = o.inFlight
  BY ArmFields
<1> HIDE DEF p
<1>2. Tallied(p, T) /\ Witnessed(p, {x})
  BY <1>1 DEF Turn, Tallied, Distinct, Witnessed, Alike, Open
<1>3. Lively(p, T, W, K, {x}, woken2)
  BY <1>1 DEF Lively, Alike, Unsent
<1>4. ASSUME o.strict PROVE Ordered(p, Queued(T), W, K, {x})
  <2>1. Ordered(o, Queued(T), W, K, {})
    BY <1>4 DEF Turn
  <2>2. Queued(T) = {} /\ W = {} /\ K = {} /\ Numbered(o) /\ o.asked <= n + 1
    BY <2>1 DEF Ordered
  <2>3. Alone({}, {}, {}, {x})
    BY DEF Alone
  <2>4. Numbered(p) /\ Len(p.answered) = n /\ p.asked = o.asked
    BY <1>1, <2>2 DEF Numbered, Alike, Unsent
  <2>5. Reading(n, o, {}, {}, {}, {}) => Reading(n, p, {}, {}, {}, {x})
    BY <1>1, <2>4 DEF Reading, Unsent
  <2>6. Answering(n + 1, o, {}, {}, {}, {}) => Answering(n + 1, p, {}, {}, {}, {x})
    <3> DEFINE d == n + 1
    <3> HIDE DEF d
    <3>1. o.armed \in {"off", "in", "out"}
      BY DEF Connection
    <3>2. Answering(d, o, {}, {}, {}, {}) => Answering(d, p, {}, {}, {}, {x})
      BY <1>1, <3>1 DEF Answering, Unsent
    <3> QED
      BY <3>2 DEF d
  <2>7. Ordered(p, {}, {}, {}, {x})
    BY <1>1, <2>1, <2>2, <2>3, <2>4, <2>5, <2>6 DEF Ordered
  <2> QED
    BY <2>2, <2>7
<1> QED
  BY <1>1, <1>2, <1>3, <1>4 DEF Turn, Alike, p

LEMMA PollTurns ==
  ASSUME IInv, Turns, NEW r \in Sub, NEW timers \in {{}, {Timer}}, Poll(r, timers) PROVE Turns'
<1>1. /\ batch[r] = {} /\ half[r] = Whole /\ items[r] = {}
      /\ batch' = [batch EXCEPT ![r] = {EventOf(g) : g \in Ready(r)} \cup timers
                                         \cup (IF wakeFd[r] THEN {Wake} ELSE {})]
      /\ conn' = [g \in Gen |-> IF g \in Ready(r) THEN Arm(conn[g], "off") ELSE conn[g]]
      /\ UNCHANGED <<conns, contexts, pendingResponses, wakeFd, items, half, tasks,
                     activeConnections, misfired, accepting>>
  BY DEF Poll, Resting
<1>2. /\ batch'[r] = {EventOf(g) : g \in Ready(r)} \cup timers
                       \cup (IF wakeFd[r] THEN {Wake} ELSE {})
      /\ \A s \in Sub \ {r} : batch'[s] = batch[s]
  BY <1>1, TypesNow
<1>3. WokenOn /\ \A s \in Sub : half'[s] = Emptied => items'[s] = {}
  <2>1. UNCHANGED <<wakeFd, half, items>>
    BY <1>1
  <2> QED
    BY <1>1, <1>2, <2>1 DEF WokenOn, Woken, Turns
<1>4. \A g \in Gen : AtRegistration(g)' <=> AtRegistration(g)
  BY <1>1 DEF AtRegistration, Early, accepting
<1>5. \A g \in Ready(r) : EventOf(g).gen = g
  BY DEF EventOf
<1>6. \A x \in timers \cup {Wake} : x.gen = 0
  BY DEF Timer, Wake
<1>7. ASSUME NEW h \in Gen \ Ready(r) PROVE InHand(h)'
  <2>1. conn'[h] = conn[h] /\ InHand(h) /\ Work(h)' = Work(h) /\ conn[h].sub \in Sub
    BY <1>1, TypesNow DEF Connection, Turns, Work
  <2>2. Waiting(h)' = Waiting(h) /\ Taken(h)' = Taken(h)
    BY <1>1, <2>1 DEF Waiting, Taken
  <2>3. h # 0
    BY DEF Gen
  <2>4. {x \in batch'[r] : x.gen = h} = {}
    BY <1>2, <1>5, <1>6, <2>3
  <2>5. Reported(h)' = Reported(h)
    BY <1>1, <1>2, <2>1, <2>4 DEF Reported
  <2>6. \A s \in Sub : s = conn[h].sub /\ Woken(s) => Woken(s)'
    BY <1>3 DEF WokenOn
  <2> QED
    BY <1>4, <2>1, <2>2, <2>5, <2>6, TypesNow, Aside
<1>8. ASSUME NEW h \in Ready(r) PROVE InHand(h)'
  <2> DEFINE o == conn[h]
             x == EventOf(h)
  <2>1. /\ h \in Gen /\ o \in Connection /\ Open(o) /\ o.sub = r /\ o.armed # "off"
        /\ o.armed = "in" => o.rx # <<>> \/ o.peer # "open"
    BY TypesNow DEF Ready
  <2>2. x.io = o.armed /\ x.gen = h /\ (x.hup => o.peer = "reset")
    BY DEF EventOf
  <2>3. conn'[h] = Arm(o, "off") /\ InHand(h) /\ Work(h)' = Work(h)
    BY <1>1, <2>1 DEF Turns, Work
  <2>4. Arm(o, "off").sub = r
    BY <2>1, ArmFields
  <2>5. ~AtRegistration(h)
    BY <2>1 DEF IInv, Registering, Fresh, AtRegistration
  <2>6. h # 0
    BY <2>1 DEF Gen
  <2>7. {y \in batch'[r] : y.gen = h} = {x}
    BY <1>2, <1>5, <1>6, <2>2, <2>6
  <2>8. /\ Waiting(h)' = Waiting(h) /\ Taken(h)' = Taken(h) /\ Reported(h) = {}
        /\ Reported(h)' = {x}
    <3>1. conn'[h].sub = conn[h].sub
      BY <2>1, <2>3, <2>4
    <3>2. pendingResponses' = pendingResponses /\ items' = items
      BY <1>1
    <3> QED
      BY <1>1, <2>1, <2>7, <3>1, <3>2 DEF Waiting, Taken, Reported
  <2> HIDE DEF x, o
  <2>9. Turn(o, Work(h), Waiting(h), Taken(h), {}) /\ Lively(o, Work(h), Waiting(h), Taken(h), {}, Woken(r))
    BY <2>1, <2>3, <2>5, <2>8 DEF InHand, o
  <2>10. /\ Turn(Arm(o, "off"), Work(h), Waiting(h), Taken(h), {x})
         /\ \A woken : Lively(Arm(o, "off"), Work(h), Waiting(h), Taken(h), {x}, woken)
    BY <2>1, <2>2, <2>9, PolledTurn
  <2> QED
    BY <1>4, <2>1, <2>3, <2>5, <2>8, <2>10 DEF InHand
<1> QED
  BY <1>3, <1>7, <1>8 DEF Turns

\* A task that goes on to another phase is still counted, once.
LEMMA TallyGoesOn ==
  ASSUME NEW o, NEW T, Tallied(o, T), NEW t \in T, NEW u, u.req = t.req
  PROVE  Tallied(o, (T \ {t}) \cup {u})
<1>1. IsFiniteSet(T) /\ \A x, y \in T : x.req = y.req => x = y
  BY DEF Tallied, Distinct
<1>2. u \notin T \ {t}
  BY <1>1
<1>3. IsFiniteSet(T \ {t}) /\ Cardinality(T \ {t}) = Cardinality(T) - 1 /\ Cardinality(T) \in Nat
  BY <1>1, FS_RemoveElement, FS_CardinalityType
<1>4. /\ IsFiniteSet((T \ {t}) \cup {u})
      /\ Cardinality((T \ {t}) \cup {u}) = Cardinality(T)
  <2> DEFINE R == T \ {t}
  <2> HIDE DEF R
  <2>1. u \notin R /\ IsFiniteSet(R) /\ Cardinality(R) = Cardinality(T) - 1
    BY <1>2, <1>3 DEF R
  <2>2. IsFiniteSet(R \cup {u}) /\ Cardinality(R \cup {u}) = Cardinality(R) + 1
    BY <2>1, FS_AddElement
  <2>3. Cardinality(R \cup {u}) = Cardinality(T)
    BY <1>3, <2>1, <2>2
  <2> QED
    BY <2>2, <2>3 DEF R
<1> QED
  BY <1>1, <1>4 DEF Tallied, Distinct

\* What a task of connection g may rely on.
LEMMA TaskTurn ==
  ASSUME IInv, Turns, NEW t \in tasks
  PROVE  /\ t.gen \in Gen /\ t \in Work(t.gen) /\ ~AtRegistration(t.gen) /\ t \in Job
         /\ conn[t.gen] \in Connection /\ conn[t.gen].sub \in Sub
         /\ Turn(conn[t.gen], Work(t.gen), Waiting(t.gen), Taken(t.gen), Reported(t.gen))
         /\ Lively(conn[t.gen], Work(t.gen), Waiting(t.gen), Taken(t.gen), Reported(t.gen),
                   Woken(conn[t.gen].sub))
<1>1. t.gen \in Gen /\ Known(t.gen) /\ t \in Job /\ conn[t.gen].sub \in Sub
  BY TaskGoesOn
<1>2. ~AtRegistration(t.gen)
  BY <1>1 DEF Known, AtRegistration
<1>3. InHand(t.gen) /\ conn[t.gen] \in Connection
  BY <1>1, TypesNow DEF Turns
<1> QED
  BY <1>1, <1>2, <1>3 DEF Work, InHand

\* The task t of a connection moves on or ends; what else is on its way stays.
LEMMA TaskAside ==
  ASSUME IInv, Turns, NEW t \in tasks,
         \A h \in Gen \ {t.gen} : /\ conn'[h] = conn[h] /\ Work(h)' = Work(h)
                                  /\ Waiting(h)' = Waiting(h),
         UNCHANGED <<batch, items, half, accepting>>, \A s \in Sub : wakeFd[s] => wakeFd'[s],
         InHand(t.gen)'
  PROVE  Turns'
<1>1. ASSUME NEW h \in Gen \ {t.gen} PROVE InHand(h)'
  <2>1. conn'[h] = conn[h] /\ InHand(h) /\ Waiting(h)' = Waiting(h)
    BY DEF Turns
  <2>2. Work(h)' = Work(h)
    OBVIOUS
  <2>3. Taken(h)' = Taken(h) /\ Reported(h)' = Reported(h)
    BY <2>1 DEF Taken, Reported
  <2>4. \A s \in Sub : s = conn[h].sub /\ Woken(s) => Woken(s)'
    BY DEF Woken
  <2>5. AtRegistration(h)' <=> AtRegistration(h)
    BY DEF AtRegistration, Early, accepting
  <2> QED
    BY <2>1, <2>2, <2>3, <2>4, <2>5, TypesNow, Aside
<1> QED
  BY <1>1 DEF Turns

\* The response of a waiting client is queued.
LEMMA OrderedPosted ==
  ASSUME NEW o \in Connection, NEW Q, NEW W, NEW K, NEW E, Ordered(o, Q, W, K, E), NEW t \in Q,
         NEW p, p.req = t.req, p.keep => t.kind = "keep"
  PROVE  Ordered(o, Q \ {t}, W \cup {p}, K, E)
<1> DEFINE n == Len(o.answered)
           d == n + 1
<1>1. ASSUME Open(o)
      PROVE  /\ Q = {t} /\ W = {} /\ K = {} /\ E = {} /\ o.armed = "off"
             /\ Alone({}, {p}, {}, {})
             /\ o.dispatched = n + 1 /\ o.asked = n + 1 /\ Answering(d, o, {t}, {}, {}, {})
  <2>1. Alone(Q, W, K, E) /\ o.armed = "off"
    BY <1>1 DEF Ordered
  <2>2. Q = {t} /\ W = {} /\ K = {} /\ E = {}
    BY <2>1 DEF Alone
  <2>3. ~Reading(n, o, Q, W, K, E)
    BY DEF Reading
  <2>4. Alone({}, {p}, {}, {})
    BY DEF Alone
  <2> QED
    BY <1>1, <2>1, <2>2, <2>3, <2>4 DEF Ordered
<1> HIDE DEF d
<1>2. Answering(d, o, {t}, {}, {}, {}) => Answering(d, o, {}, {p}, {}, {})
  BY DEF Answering
<1>3. CASE Open(o)
  <2>1. Q \ {t} = {} /\ W \cup {p} = {p} /\ K = {} /\ E = {}
    BY <1>1, <1>3
  <2>2. Ordered(o, {}, {p}, {}, {})
    BY <1>1, <1>2, <1>3 DEF Ordered, d
  <2> QED
    BY <2>1, <2>2
<1>4. CASE ~Open(o)
  BY <1>4 DEF Ordered
<1> QED
  BY <1>3, <1>4

LEMMA RespondTurns ==
  ASSUME IInv, Turns, NEW t \in tasks, NEW ok \in BOOLEAN, Respond(t, ok) PROVE Turns'
<1> DEFINE g == t.gen
           o == conn[g]
           r == o.sub
           p == [gen |-> g, req |-> t.req, keep |-> ok /\ t.kind = "keep"]
           u == [t EXCEPT !.phase = "posted"]
<1>1. /\ pendingResponses' = [pendingResponses EXCEPT ![r] = @ \cup {p}]
      /\ tasks' = (tasks \ {t}) \cup {u} /\ t.phase = "queued"
      /\ UNCHANGED <<conn, conns, contexts, wakeFd, batch, items, half, activeConnections,
                     misfired, accepting>>
  BY DEF Respond
<1>2. /\ g \in Gen /\ t \in Work(g) /\ ~AtRegistration(g) /\ t \in Job
      /\ o \in Connection /\ r \in Sub
      /\ Turn(o, Work(g), Waiting(g), Taken(g), Reported(g))
      /\ Lively(o, Work(g), Waiting(g), Taken(g), Reported(g), Woken(r))
  BY TaskTurn
<1>3. /\ p.gen = g /\ p.req = t.req /\ (p.keep => t.kind = "keep")
      /\ u.gen = g /\ u.req = t.req /\ u.phase = "posted"
  BY <1>2 DEF Job
<1> HIDE DEF p, u
<1>4. \A s \in Sub : pendingResponses'[s] = IF s = r THEN pendingResponses[r] \cup {p}
                                            ELSE pendingResponses[s]
  BY <1>1, <1>2, TypesNow
<1>5. Waiting(g)' = Waiting(g) \cup {p} /\ \A h \in Gen \ {g} : Waiting(h)' = Waiting(h)
  <2>1. \A h \in Gen : conn[h].sub \in Sub
    BY TypesNow DEF Connection
  <2>2. conn' = conn
    BY <1>1
  <2> HIDE DEF g
  <2> QED
    BY <1>2, <1>3, <1>4, <2>1, <2>2 DEF Waiting
<1>6. Work(g)' = (Work(g) \ {t}) \cup {u}
  BY <1>1, <1>3 DEF Work
<1>7. Taken(g)' = Taken(g) /\ Reported(g)' = Reported(g) /\ conn'[g] = o
  BY <1>1 DEF Taken, Reported
<1>8. ~AtRegistration(g)'
  BY <1>1, <1>2 DEF AtRegistration, Early, accepting
<1> DEFINE T == (Work(g) \ {t}) \cup {u}
           W == Waiting(g) \cup {p}
<1>9. Queued(T) = Queued(Work(g)) \ {t} /\ t \in Queued(Work(g))
  BY <1>1, <1>2, <1>3 DEF Queued
<1>10. Turn(o, T, W, Taken(g), Reported(g))
  <2>1. Tallied(o, T)
    BY <1>2, <1>3, TallyGoesOn DEF Turn
  <2> HIDE DEF g, o, r, T
  <2>2. o.strict => Ordered(o, Queued(T), W, Taken(g), Reported(g))
    BY <1>2, <1>3, <1>9, OrderedPosted DEF Turn
  <2> QED
    BY <1>2, <2>1, <2>2 DEF Turn
<1>11. \A woken : Lively(o, T, W, Taken(g), Reported(g), woken)
  <2> HIDE DEF g, o, r
  <2> QED
    BY <1>2, <1>3 DEF Lively
<1>12. InHand(g)'
  <2> HIDE DEF T, W
  <2>1. Work(g)' = T /\ Waiting(g)' = W
    BY <1>5, <1>6 DEF T, W
  <2> QED
    BY <1>7, <1>8, <1>10, <1>11, <2>1 DEF InHand
<1> QED
  <2>1. \A h \in Gen \ {t.gen} : Work(h)' = Work(h)
    BY <1>1, <1>3 DEF Work
  <2>2. \A h \in Gen \ {t.gen} : conn'[h] = conn[h] /\ Waiting(h)' = Waiting(h)
    BY <1>1, <1>5
  <2>3. \A s \in Sub : wakeFd[s] => wakeFd'[s]
    BY <1>1
  <2>4. UNCHANGED <<batch, items, half, accepting>>
    BY <1>1
  <2>5. InHand(t.gen)'
    BY <1>12
  <2> QED
    BY <2>1, <2>2, <2>3, <2>4, <2>5, TaskAside

LEMMA NotifyTurns ==
  ASSUME IInv, Turns, NEW t \in tasks, Notify(t) PROVE Turns'
<1> DEFINE g == t.gen
           o == conn[g]
           r == o.sub
           u == [t EXCEPT !.phase = "done"]
<1>1. /\ wakeFd' = [wakeFd EXCEPT ![r] = TRUE]
      /\ tasks' = (tasks \ {t}) \cup {u} /\ t.phase = "posted"
      /\ UNCHANGED <<conn, conns, contexts, pendingResponses, batch, items, half,
                     activeConnections, misfired, accepting>>
  BY DEF Notify, Signal
<1>2. /\ g \in Gen /\ t \in Work(g) /\ ~AtRegistration(g) /\ t \in Job
      /\ o \in Connection /\ r \in Sub
      /\ Turn(o, Work(g), Waiting(g), Taken(g), Reported(g))
      /\ Lively(o, Work(g), Waiting(g), Taken(g), Reported(g), Woken(r))
  BY TaskTurn
<1>3. u.gen = g /\ u.req = t.req /\ u.phase = "done"
  BY <1>2 DEF Job
<1> HIDE DEF u
<1>4. wakeFd'[r] = TRUE /\ \A s \in Sub : wakeFd[s] => wakeFd'[s]
  BY <1>1, <1>2, TypesNow
<1>5. /\ Waiting(g)' = Waiting(g) /\ Taken(g)' = Taken(g) /\ Reported(g)' = Reported(g)
      /\ conn'[g] = o
  BY <1>1 DEF Waiting, Taken, Reported
<1>6. Work(g)' = (Work(g) \ {t}) \cup {u}
  BY <1>1, <1>3 DEF Work
<1>7. ~AtRegistration(g)'
  BY <1>1, <1>2 DEF AtRegistration, Early, accepting
<1> DEFINE T == (Work(g) \ {t}) \cup {u}
<1>8. Queued(T) = Queued(Work(g))
  BY <1>1, <1>2, <1>3 DEF Queued
<1>9. Turn(o, T, Waiting(g), Taken(g), Reported(g))
  <2>1. Tallied(o, T)
    BY <1>2, <1>3, TallyGoesOn DEF Turn
  <2> QED
    BY <1>2, <1>8, <2>1 DEF Turn
<1>10. Lively(o, T, Waiting(g), Taken(g), Reported(g), TRUE)
  BY <1>2, <1>8 DEF Lively
<1>11. InHand(g)'
  <2>1. Woken(conn[g].sub)' = TRUE
    BY <1>4, <1>5 DEF Woken
  <2>2. Work(g)' = T
    BY <1>6
  <2> HIDE DEF T, o, g, r
  <2> QED
    BY <1>5, <1>7, <1>9, <1>10, <2>1, <2>2 DEF InHand
<1> QED
  <2>1. \A h \in Gen \ {t.gen} : Work(h)' = Work(h)
    BY <1>1, <1>3 DEF Work
  <2>2. \A h \in Gen \ {t.gen} : conn'[h] = conn[h] /\ Waiting(h)' = Waiting(h)
    BY <1>1 DEF Waiting
  <2>3. UNCHANGED <<batch, items, half, accepting>>
    BY <1>1
  <2>4. InHand(t.gen)'
    BY <1>11
  <2> QED
    BY <1>4, <2>1, <2>2, <2>3, <2>4, TaskAside

LEMMA ThrowForeignTurns ==
  ASSUME IInv, Turns, NEW t \in tasks, ThrowForeign(t) PROVE Turns'
<1> DEFINE g == t.gen
           o == conn[g]
           p == [o EXCEPT !.mute = TRUE]
           u == [t EXCEPT !.phase = "done"]
<1>1. /\ conn' = [conn EXCEPT ![g].mute = TRUE]
      /\ tasks' = (tasks \ {t}) \cup {u} /\ t.phase = "queued"
      /\ UNCHANGED <<conns, contexts, pendingResponses, wakeFd, batch, items, half,
                     activeConnections, misfired, accepting>>
  BY DEF ThrowForeign
<1>2. /\ g \in Gen /\ t \in Work(g) /\ ~AtRegistration(g) /\ t \in Job
      /\ o \in Connection /\ o.sub \in Sub
      /\ Turn(o, Work(g), Waiting(g), Taken(g), Reported(g))
      /\ Lively(o, Work(g), Waiting(g), Taken(g), Reported(g), Woken(o.sub))
  BY TaskTurn
<1>3. u.gen = g /\ u.req = t.req /\ u.phase = "done"
  BY <1>2 DEF Job
<1>4. conn' = [conn EXCEPT ![g] = p]
  BY <1>1, <1>2, TypesNow
<1>5. /\ p.mute = TRUE /\ p.sub = o.sub /\ p.peer = o.peer /\ p.strict = o.strict
      /\ p.asked = o.asked /\ p.answered = o.answered /\ p.resp = o.resp /\ p.keep = o.keep
      /\ p.armed = o.armed /\ p.buf = o.buf /\ p.rx = o.rx
      /\ p.dispatched = o.dispatched /\ p.inFlight = o.inFlight
  <2> HIDE DEF o
  <2> QED
    BY <1>2 DEF Connection
<1> HIDE DEF p, u
<1>6. conn'[g] = p /\ \A h \in Gen \ {g} : conn'[h] = conn[h]
  BY <1>2, <1>4, TypesNow
<1>7. /\ Waiting(g)' = Waiting(g) /\ Taken(g)' = Taken(g) /\ Reported(g)' = Reported(g)
      /\ \A h \in Gen \ {g} : Waiting(h)' = Waiting(h)
  BY <1>1, <1>5, <1>6 DEF Waiting, Taken, Reported
<1>8. Work(g)' = (Work(g) \ {t}) \cup {u}
  BY <1>1, <1>3 DEF Work
<1>9. ~AtRegistration(g)'
  BY <1>1, <1>2 DEF AtRegistration, Early, accepting
<1> DEFINE T == (Work(g) \ {t}) \cup {u}
<1>10. Queued(T) \subseteq Queued(Work(g))
  BY <1>3 DEF Queued
<1>11. Turn(p, T, Waiting(g), Taken(g), Reported(g))
  <2>1. Tallied(o, T)
    BY <1>2, <1>3, TallyGoesOn DEF Turn
  <2> HIDE DEF T, o, g
  <2>2. Tallied(p, T)
    BY <1>5, <2>1 DEF Tallied, Distinct, Open
  <2>3. o.strict => Ordered(o, Queued(T), Waiting(g), Taken(g), Reported(g))
    BY <1>2, <1>10, OrderedLess DEF Turn
  <2>4. p.strict => Ordered(p, Queued(T), Waiting(g), Taken(g), Reported(g))
    BY <1>5, <2>3 DEF Ordered, Numbered, Reading, Answering, Open
  <2>5. Open(p) => Witnessed(p, Reported(g))
    BY <1>2, <1>5 DEF Turn, Witnessed, Open
  <2> QED
    BY <2>2, <2>4, <2>5 DEF Turn
<1>12. \A woken : Lively(p, T, Waiting(g), Taken(g), Reported(g), woken)
  <2> HIDE DEF T, o, g
  <2> QED
    BY <1>2, <1>5 DEF Lively
<1>13. InHand(g)'
  <2>1. Work(g)' = T
    BY <1>8
  <2> HIDE DEF T
  <2> QED
    BY <1>6, <1>7, <1>9, <1>11, <1>12, <2>1 DEF InHand
<1> QED
  <2>1. \A h \in Gen \ {t.gen} : Work(h)' = Work(h)
    BY <1>1, <1>3 DEF Work
  <2>2. \A h \in Gen \ {t.gen} : conn'[h] = conn[h] /\ Waiting(h)' = Waiting(h)
    BY <1>6, <1>7
  <2>3. \A s \in Sub : wakeFd[s] => wakeFd'[s]
    BY <1>1
  <2>4. UNCHANGED <<batch, items, half, accepting>>
    BY <1>1
  <2>5. InHand(t.gen)'
    BY <1>13
  <2> QED
    BY <2>1, <2>2, <2>3, <2>4, <2>5, TaskAside

\* markInFlight(.., false) finds the connection if it is open, and its count above zero.
LEMMA LeaveTurns ==
  ASSUME IInv, Turns, NEW t \in tasks, Leave(t) PROVE Turns'
<1> DEFINE g == t.gen
           o == conn[g]
           p == [o EXCEPT !.inFlight = @ - 1]
           T == Work(g) \ {t}
<1>1. /\ tasks' = tasks \ {t} /\ t.phase = "done"
      /\ conn' = IF contexts[o.sub][o.fd] = g /\ o.inFlight > 0
                 THEN [conn EXCEPT ![g].inFlight = @ - 1] ELSE conn
      /\ UNCHANGED <<conns, contexts, pendingResponses, wakeFd, batch, items, half,
                     activeConnections, misfired, accepting>>
  BY DEF Leave
<1>2. /\ g \in Gen /\ t \in Work(g) /\ ~AtRegistration(g) /\ t \in Job
      /\ o \in Connection /\ o.sub \in Sub
      /\ Turn(o, Work(g), Waiting(g), Taken(g), Reported(g))
      /\ Lively(o, Work(g), Waiting(g), Taken(g), Reported(g), Woken(o.sub))
  BY TaskTurn
<1>3. /\ IsFiniteSet(Work(g)) /\ IsFiniteSet(T)
      /\ Cardinality(T) = Cardinality(Work(g)) - 1 /\ Cardinality(T) \in Nat
      /\ Cardinality(Work(g)) \in Nat
  <2>1. IsFiniteSet(Work(g))
    BY <1>2 DEF Turn, Tallied, Distinct
  <2> QED
    BY <1>2, <2>1, FS_RemoveElement, FS_CardinalityType
<1>4. Open(o) => contexts[o.sub][o.fd] = g /\ o.inFlight > 0
  <2> SUFFICES ASSUME Open(o) PROVE contexts[o.sub][o.fd] = g /\ o.inFlight > 0
    OBVIOUS
  <2>1. acceptor # [pc |-> "insert", gen |-> g]
    BY <1>2 DEF AtRegistration, Early
  <2>2. contexts[o.sub][o.fd] = g
    BY <1>2, <2>1 DEF IInv, Tables, TablesAgree
  <2>3. o.inFlight = Cardinality(Work(g))
    BY <1>2 DEF Turn, Tallied
  <2>4. o.inFlight > 0
    BY <1>3, <2>3
  <2> QED
    BY <2>2, <2>4
<1>5. contexts[o.sub][o.fd] = g => Open(o)
  <2>1. g # 0
    BY <1>2 DEF Gen
  <2>2. o.fd \in Fd
    BY <1>2, TaskGoesOn DEF IInv, Registered, Known, Named
  <2> QED
    BY <1>2, <2>1, <2>2, FoundContext
<1>6. conn' = IF Open(o) THEN [conn EXCEPT ![g] = p] ELSE conn
  BY <1>1, <1>2, <1>4, <1>5, TypesNow
<1>7. /\ p.mute = o.mute /\ p.sub = o.sub /\ p.peer = o.peer /\ p.strict = o.strict
      /\ p.asked = o.asked /\ p.answered = o.answered /\ p.resp = o.resp /\ p.keep = o.keep
      /\ p.armed = o.armed /\ p.buf = o.buf /\ p.rx = o.rx
      /\ p.dispatched = o.dispatched /\ p.inFlight = o.inFlight - 1
  <2> HIDE DEF o
  <2> QED
    BY <1>2 DEF Connection
<1> HIDE DEF p
<1>8. conn'[g] = (IF Open(o) THEN p ELSE o) /\ \A h \in Gen \ {g} : conn'[h] = conn[h]
  BY <1>2, <1>6, TypesNow
<1>9. conn'[g].sub = o.sub
  BY <1>7, <1>8
<1>10. /\ Waiting(g)' = Waiting(g) /\ Taken(g)' = Taken(g) /\ Reported(g)' = Reported(g)
       /\ \A h \in Gen \ {g} : Waiting(h)' = Waiting(h)
  BY <1>1, <1>8, <1>9 DEF Waiting, Taken, Reported
<1>11. Work(g)' = T /\ \A h \in Gen \ {g} : Work(h)' = Work(h)
  BY <1>1 DEF Work
<1>12. ~AtRegistration(g)' /\ Woken(o.sub)' = Woken(o.sub)
  BY <1>1, <1>2, <1>9 DEF AtRegistration, Early, accepting, Woken
<1>13. Woken(conn[g].sub)' = Woken(o.sub)
  BY <1>1, <1>9 DEF Woken
<1>14. Queued(T) = Queued(Work(g)) /\ T \subseteq Work(g)
       /\ \A v \in Work(g) : v.phase = "posted" => v \in T
  BY <1>1 DEF Queued
<1>15. Distinct(o, T)
  BY <1>2, <1>3, <1>14 DEF Turn, Tallied, Distinct
<1> HIDE DEF T
<1>16. ASSUME Open(o) PROVE InHand(g)'
  <2> HIDE DEF o
  <2>1. Tallied(p, T)
    BY <1>2, <1>3, <1>7, <1>15, <1>16 DEF Turn, Tallied, Distinct, Open
  <2>2. p.strict => Ordered(p, Queued(T), Waiting(g), Taken(g), Reported(g))
    BY <1>2, <1>7, <1>14 DEF Turn, Ordered, Numbered, Reading, Answering, Open
  <2>3. Open(p) => Witnessed(p, Reported(g))
    BY <1>2, <1>7 DEF Turn, Witnessed, Open
  <2>4. Turn(p, T, Waiting(g), Taken(g), Reported(g))
    BY <2>1, <2>2, <2>3 DEF Turn
  <2>5. Lively(p, T, Waiting(g), Taken(g), Reported(g), Woken(o.sub))
    BY <1>2, <1>7, <1>14 DEF Lively
  <2>6. InHand(g)'
    BY <1>8, <1>10, <1>11, <1>12, <1>13, <1>16, <2>4, <2>5 DEF InHand
  <2> QED
    BY <2>6
<1>17. ASSUME ~Open(o) PROVE InHand(g)'
  <2> HIDE DEF o
  <2>1. Turn(o, T, Waiting(g), Taken(g), Reported(g))
    BY <1>2, <1>15, <1>17 DEF Turn, Ordered, Tallied
  <2>2. \A woken : Lively(o, T, Waiting(g), Taken(g), Reported(g), woken)
    BY <1>17 DEF Lively, Open
  <2>3. InHand(g)'
    BY <1>8, <1>10, <1>11, <1>12, <1>17, <2>1, <2>2 DEF InHand
  <2> QED
    BY <2>3
<1> QED
  <2>1. \A h \in Gen \ {t.gen} : conn'[h] = conn[h] /\ Work(h)' = Work(h) /\ Waiting(h)' = Waiting(h)
    BY <1>8, <1>10, <1>11
  <2>2. UNCHANGED <<batch, items, half, accepting>> /\ \A s \in Sub : wakeFd[s] => wakeFd'[s]
    BY <1>1
  <2>3. InHand(t.gen)'
    BY <1>16, <1>17
  <2> QED
    BY <2>1, <2>2, <2>3, TaskAside

\* What no client can change.
ServerSide(o, p) ==
  /\ Open(o) /\ Open(p) /\ p.sub = o.sub /\ p.mute = o.mute /\ p.armed = o.armed /\ p.buf = o.buf
  /\ p.inFlight = o.inFlight /\ p.resp = o.resp /\ p.keep = o.keep
  /\ p.dispatched = o.dispatched /\ p.answered = o.answered
  /\ o.peer = "reset" => p.peer = "reset"
  /\ o.peer # "open" => p.peer # "open"

\* A client that goes away, or time that goes by.
LEMMA PassingTurn ==
  ASSUME NEW o, NEW p, ServerSide(o, p), p.rx = o.rx, p.asked = o.asked, p.strict = o.strict,
         NEW T, NEW W, NEW K, NEW E
  PROVE  /\ Turn(o, T, W, K, E) => Turn(p, T, W, K, E)
         /\ \A woken : Lively(o, T, W, K, E, woken) => Lively(p, T, W, K, E, woken)
         /\ Untouched(o) => Untouched(p)
<1>1. \A Q : Ordered(o, Q, W, K, E) => Ordered(p, Q, W, K, E)
  <2> TAKE Q
  <2>1. Numbered(o) => Numbered(p)
    BY DEF Numbered, ServerSide
  <2>2. Reading(Len(o.answered), o, Q, W, K, E) => Reading(Len(o.answered), p, Q, W, K, E)
    BY DEF Reading, ServerSide
  <2>3. Answering(Len(o.answered) + 1, o, Q, W, K, E) => Answering(Len(o.answered) + 1, p, Q, W, K, E)
    BY DEF Answering, ServerSide
  <2> QED
    BY <2>1, <2>2, <2>3 DEF Ordered, ServerSide
<1>2. Tallied(o, T) => Tallied(p, T)
  BY DEF Tallied, Distinct, ServerSide
<1>3. Witnessed(o, E) => Witnessed(p, E)
  BY DEF Witnessed, ServerSide
<1>4. Turn(o, T, W, K, E) => Turn(p, T, W, K, E)
  BY <1>1, <1>2, <1>3 DEF Turn, ServerSide
<1>5. \A woken : Lively(o, T, W, K, E, woken) => Lively(p, T, W, K, E, woken)
  BY DEF Lively, ServerSide, Open
<1>6. Untouched(o) => Untouched(p)
  BY DEF Untouched, ServerSide
<1> QED
  BY <1>4, <1>5, <1>6

\* A client that sends: one that waits has been answered, so this is its next request.
LEMMA SendTurn ==
  ASSUME NEW o \in Connection, NEW p, ServerSide(o, p), NEW k \in Token,
         p.rx = Append(o.rx, k), p.asked = IF k = "part" THEN o.asked ELSE o.asked + 1,
         p.strict => o.strict /\ o.asked = Len(o.answered),
         LET s == o.buf \o o.rx IN ~ (k = "part" /\ s # <<>> /\ s[Len(s)] = "part"),
         NEW T, NEW W, NEW K, NEW E
  PROVE  /\ Turn(o, T, W, K, E) => Turn(p, T, W, K, E)
         /\ \A woken : Lively(o, T, W, K, E, woken) => Lively(p, T, W, K, E, woken)
         /\ Untouched(o) => Untouched(p)
<1> DEFINE s == o.buf \o o.rx
           n == Len(o.answered)
<1>1. /\ s \in Seq(Token) /\ p.buf \o p.rx = Append(s, k) /\ p.rx # <<>>
      /\ n \in Nat /\ o.asked \in Nat
  <2>1. o.buf \in Seq(Token) /\ o.rx \in Seq(Token) /\ n \in Nat /\ o.asked \in Nat
    BY DEF Connection
  <2>2. \A x, y \in Seq(Token) : x \o y \in Seq(Token) /\ x \o Append(y, k) = Append(x \o y, k)
    BY AppendAfter
  <2>3. p.buf \o p.rx = o.buf \o Append(o.rx, k)
    BY DEF ServerSide
  <2>4. Append(o.rx, k) # <<>>
    BY <2>1
  <2> QED
    BY <2>1, <2>2, <2>3, <2>4, Zenon
<1> HIDE DEF s
<1>2. Tallied(o, T) => Tallied(p, T)
  BY DEF Tallied, Distinct, ServerSide
<1>3. Witnessed(o, E) => Witnessed(p, E)
  BY <1>1 DEF Witnessed, ServerSide
<1>4. ASSUME p.strict, Turn(o, T, W, K, E)
      PROVE  Ordered(p, Queued(T), W, K, E)
  <2>1. Ordered(o, Queued(T), W, K, E) /\ o.asked = n
    BY <1>4 DEF Turn
  <2>2. o.dispatched = n /\ Reading(n, o, Queued(T), W, K, E) /\ Numbered(o)
    BY <1>1, <2>1 DEF Ordered, ServerSide
  <2>3. Bit(s)
    BY <2>1, <2>2 DEF Reading, s
  <2>4. IF k = "part" THEN Bit(Append(s, k)) ELSE One(Append(s, k))
    <3>1. CASE s = <<>>
      <4>1. Append(s, k) = <<k>> /\ <<k>>[1] = k /\ Len(<<k>>) = 1 /\ <<k>> # <<>>
        BY <3>1
      <4>2. k # "part" => Ends(<<k>>) = 1
        BY <4>1 DEF Ends
      <4> QED
        BY <4>1, <4>2 DEF Bit, One
    <3>2. CASE s = <<"part">>
      <4>1. Len(s) = 1 /\ s[1] = "part" /\ s # <<>>
        BY <3>2
      <4>2. k # "part"
        BY <4>1 DEF s
      <4>3. /\ Append(s, k)[1] = "part" /\ Append(s, k)[2] = k /\ Len(Append(s, k)) = 2
            /\ Append(s, k) # <<>>
        <5>1. s \in Seq(Token)
          BY <1>1
        <5>2. /\ Len(Append(s, k)) = Len(s) + 1 /\ Append(s, k)[Len(s) + 1] = k
              /\ \A i \in 1..Len(s) : Append(s, k)[i] = s[i]
          BY <5>1, AppendProperties
        <5>3. Append(s, k)[1] = s[1] /\ Append(s, k)[2] = k
          BY <4>1, <5>2
        <5>4. Append(s, k) # <<>>
          BY <5>1, AppendProperties
        <5> QED
          BY <4>1, <5>2, <5>3, <5>4
      <4>4. Ends(Append(s, k)) = 2
        BY <4>3 DEF Ends
      <4> QED
        BY <4>2, <4>3, <4>4 DEF One
    <3> QED
      BY <2>3, <3>1, <3>2 DEF Bit
  <2>5. Reading(n, p, Queued(T), W, K, E)
    <3>1. IF p.asked = n THEN Bit(p.buf \o p.rx) ELSE One(p.buf \o p.rx)
      <4>1. p.asked = n <=> k = "part"
        BY <1>1, <2>1
      <4> QED
        BY <1>1, <2>4, <4>1
    <3> QED
      BY <2>2, <3>1 DEF Reading, ServerSide
  <2>6. Numbered(p) /\ p.asked <= n + 1
    <3>1. p.asked = n \/ p.asked = n + 1
      BY <1>1, <2>1
    <3>2. n <= p.asked /\ p.asked <= n + 1
      BY <1>1, <3>1
    <3> QED
      BY <2>2, <3>2 DEF Numbered, ServerSide
  <2> QED
    BY <2>1, <2>2, <2>5, <2>6 DEF Ordered, ServerSide
<1>5. Turn(o, T, W, K, E) => Turn(p, T, W, K, E)
  BY <1>2, <1>3, <1>4 DEF Turn, ServerSide
<1>6. \A woken : Lively(o, T, W, K, E, woken) => Lively(p, T, W, K, E, woken)
  BY DEF Lively, ServerSide, Open
<1>7. Untouched(o) => Untouched(p)
  BY DEF Untouched, ServerSide
<1> QED
  BY <1>5, <1>6, <1>7

LEMMA OneTurns ==
  ASSUME IInv, Turns, NEW g \in Gen, NEW p, p.sub = conn[g].sub,
         conn' = [conn EXCEPT ![g] = p], UNCHANGED server,
         \A T, W, K, E : Turn(conn[g], T, W, K, E) => Turn(p, T, W, K, E),
         \A T, W, K, E, woken : Lively(conn[g], T, W, K, E, woken) => Lively(p, T, W, K, E, woken),
         Untouched(conn[g]) => Untouched(p)
  PROVE  Turns'
<1>1. conn'[g] = p /\ \A h \in Gen \ {g} : conn'[h] = conn[h]
  BY TypesNow
<1>2. /\ UNCHANGED <<pendingResponses, items, batch, half, tasks>> /\ UNCHANGED <<wakeFd, acceptor>>
  BY DEF server, accepting
<1>3. \A h \in Gen : /\ conn'[h].sub = conn[h].sub
                     /\ Work(h)' = Work(h) /\ Waiting(h)' = Waiting(h) /\ Taken(h)' = Taken(h)
                     /\ Reported(h)' = Reported(h) /\ AtRegistration(h)' = AtRegistration(h)
                     /\ Woken(conn[h].sub)' = Woken(conn[h].sub)
  <2> TAKE h \in Gen
  <2>1. conn'[h].sub = conn[h].sub
    BY <1>1
  <2> QED
    BY <1>2, <2>1 DEF Work, Waiting, Taken, Reported, AtRegistration, Early, Woken
<1>4. InHand(g)'
  <2>1. InHand(g)
    BY DEF Turns
  <2> QED
    BY <1>1, <1>3, <2>1 DEF InHand
<1>5. ASSUME NEW h \in Gen \ {g} PROVE InHand(h)'
  <2>1. InHand(h)
    BY DEF Turns
  <2> QED
    BY <1>1, <1>3, <2>1 DEF InHand
<1> QED
  BY <1>2, <1>4, <1>5 DEF Turns

LEMMA ClientTurns ==
  ASSUME IInv, Turns, NEW g \in Gen, ClientStep(g) PROVE Turns'
<1> DEFINE o == conn[g]
<1>1. o \in Connection
  BY TypesNow
<1>2. ASSUME NEW k \in Token, Send(g, k) PROVE Turns'
  <2> DEFINE p == [o EXCEPT !.rx = Append(@, k), !.tokens = @ + 1,
                            !.asked = IF k = "part" THEN @ ELSE @ + 1,
                            !.strict = @ /\ conn[g].asked = Len(conn[g].answered)]
  <2>1. /\ o.peer = "open" /\ ~ (k = "part" /\ Partial(g))
        /\ conn' = [conn EXCEPT ![g] =
              [conn[g] EXCEPT !.rx = Append(@, k), !.tokens = @ + 1,
                              !.asked = IF k = "part" THEN @ ELSE @ + 1,
                              !.strict = @ /\ conn[g].asked = Len(conn[g].answered)]]
        /\ UNCHANGED server
    BY <1>2 DEF Send
  <2>2. conn' = [conn EXCEPT ![g] = p]
    BY <2>1, Zenon
  <2>3. /\ p.rx = Append(o.rx, k) /\ p.buf = o.buf /\ p.resp = o.resp /\ p.keep = o.keep
        /\ p.answered = o.answered /\ p.sub = o.sub /\ p.peer = o.peer /\ p.mute = o.mute
        /\ p.armed = o.armed /\ p.inFlight = o.inFlight /\ p.dispatched = o.dispatched
        /\ p.asked = (IF k = "part" THEN o.asked ELSE o.asked + 1)
        /\ p.strict => o.strict /\ o.asked = Len(o.answered)
    <3> DEFINE a == IF k = "part" THEN o.asked ELSE o.asked + 1
               b == o.strict /\ o.asked = Len(o.answered)
               n == o.tokens + 1
               rx == Append(o.rx, k)
    <3>1. p = [o EXCEPT !.rx = rx, !.tokens = n, !.asked = a, !.strict = b]
      BY Zenon
    <3>2. \A x, y, z, w : LET q == [o EXCEPT !.rx = x, !.tokens = y, !.asked = z, !.strict = w]
            IN  /\ q.rx = x /\ q.buf = o.buf /\ q.resp = o.resp /\ q.keep = o.keep
                /\ q.answered = o.answered /\ q.sub = o.sub /\ q.peer = o.peer /\ q.mute = o.mute
                /\ q.armed = o.armed /\ q.inFlight = o.inFlight /\ q.dispatched = o.dispatched
                /\ q.asked = z /\ q.strict = w
      <4> HIDE DEF o
      <4> QED
        BY <1>1 DEF Connection
    <3>3. /\ p.rx = rx /\ p.buf = o.buf /\ p.resp = o.resp /\ p.keep = o.keep
          /\ p.answered = o.answered /\ p.sub = o.sub /\ p.peer = o.peer /\ p.mute = o.mute
          /\ p.armed = o.armed /\ p.inFlight = o.inFlight /\ p.dispatched = o.dispatched
          /\ p.asked = a /\ p.strict = b
      <4> HIDE DEF a, b, n, rx, p, o
      <4> QED
        BY <3>1, <3>2
    <3> QED
      BY <3>3, Zenon
  <2>4. LET s == o.buf \o o.rx IN ~ (k = "part" /\ s # <<>> /\ s[Len(s)] = "part")
    BY <2>1 DEF Partial
  <2> HIDE DEF p
  <2>5. ServerSide(o, p)
    BY <2>1, <2>3 DEF ServerSide, Open
  <2> HIDE DEF o
  <2>6. \A T, W, K, E :
          /\ Turn(o, T, W, K, E) => Turn(p, T, W, K, E)
          /\ \A woken : Lively(o, T, W, K, E, woken) => Lively(p, T, W, K, E, woken)
          /\ Untouched(o) => Untouched(p)
    BY <1>1, <2>3, <2>4, <2>5, SendTurn
  <2> USE DEF o
  <2> QED
    BY <2>1, <2>2, <2>3, <2>6, OneTurns
<1>3. ASSUME NEW p, ServerSide(o, p), p.rx = o.rx, p.asked = o.asked, p.strict = o.strict,
             conn' = [conn EXCEPT ![g] = p], UNCHANGED server
      PROVE  Turns'
  <2>1. \A T, W, K, E :
          /\ Turn(o, T, W, K, E) => Turn(p, T, W, K, E)
          /\ \A woken : Lively(o, T, W, K, E, woken) => Lively(p, T, W, K, E, woken)
          /\ Untouched(o) => Untouched(p)
    BY <1>3, PassingTurn
  <2>2. p.sub = conn[g].sub
    BY <1>3 DEF ServerSide
  <2> QED
    BY <1>3, <2>1, <2>2, OneTurns
<1>4. ASSUME Finish(g) \/ Reset(g) PROVE Turns'
  <2>1. PICK peer \in {"fin", "reset"} : /\ conn' = [conn EXCEPT ![g].peer = peer]
                                         /\ o.peer \in {"open", "fin"} /\ UNCHANGED server
    BY <1>4 DEF Finish, Reset
  <2> DEFINE p == [o EXCEPT !.peer = peer]
  <2>2. conn' = [conn EXCEPT ![g] = p]
    BY <2>1
  <2>3. ServerSide(o, p) /\ p.rx = o.rx /\ p.asked = o.asked /\ p.strict = o.strict
    <3> HIDE DEF o
    <3> QED
      BY <1>1, <2>1 DEF Connection, ServerSide, Open
  <2> HIDE DEF p
  <2> QED
    BY <1>3, <2>1, <2>2, <2>3
<1>5. ASSUME Elapse(g) PROVE Turns'
  <2> DEFINE p == [o EXCEPT !.idle = TRUE]
  <2>1. conn' = [conn EXCEPT ![g] = p] /\ UNCHANGED server /\ Open(o)
    BY <1>5 DEF Elapse
  <2>2. ServerSide(o, p) /\ p.rx = o.rx /\ p.asked = o.asked /\ p.strict = o.strict
    <3> HIDE DEF o
    <3> QED
      BY <1>1, <2>1 DEF Connection, ServerSide, Open
  <2> HIDE DEF p
  <2> QED
    BY <1>3, <2>1, <2>2
<1>6. ASSUME Drag(g) PROVE Turns'
  <2> DEFINE p == [o EXCEPT !.slow = TRUE]
  <2>1. conn' = [conn EXCEPT ![g] = p] /\ UNCHANGED server /\ Open(o)
    BY <1>6 DEF Drag
  <2>2. ServerSide(o, p) /\ p.rx = o.rx /\ p.asked = o.asked /\ p.strict = o.strict
    <3> HIDE DEF o
    <3> QED
      BY <1>1, <2>1 DEF Connection, ServerSide, Open
  <2> HIDE DEF p
  <2> QED
    BY <1>3, <2>1, <2>2
<1> QED
  BY <1>2, <1>4, <1>5, <1>6 DEF ClientStep

-----------------------------------------------------------------------------
(* Turns and handleAccept. *)

LEMMA NothingHere ==
  ASSUME NEW h \in Gen, Unknown(h), conn[h].sub \in Sub
  PROVE  Work(h) = {} /\ Waiting(h) = {} /\ Taken(h) = {} /\ Reported(h) = {}
BY DEF Unknown, Work, Waiting, Taken, Reported

\* A connection that has just been accepted.
LEMMA FreshTurn ==
  ASSUME NEW o, Untouched(o), o.asked = 0, o.inFlight = 0,
         o.rx = <<>>, o.buf = <<>>, o.armed = "off"
  PROVE  Turn(o, {}, {}, {}, {})
<1>1. Queued({}) = {}
  BY DEF Queued
<1>2. <<>> \o <<>> = <<>> /\ Len(<<>>) = 0
  OBVIOUS
<1>3. Ordered(o, {}, {}, {}, {})
  <2>1. Numbered(o)
    BY <1>2 DEF Numbered, Untouched
  <2>2. Alone({}, {}, {}, {})
    BY DEF Alone
  <2>3. Reading(0, o, {}, {}, {}, {})
    BY <1>2 DEF Reading, Bit, Untouched
  <2> QED
    BY <1>2, <2>1, <2>2, <2>3 DEF Ordered, Untouched
<1>4. Tallied(o, {})
  BY FS_EmptySet DEF Tallied, Distinct
<1>5. Witnessed(o, {})
  BY DEF Witnessed
<1> QED
  BY <1>1, <1>3, <1>4, <1>5 DEF Turn

LEMMA AcceptTurns ==
  ASSUME IInv, Turns, NEW fd \in Fd, Accept(fd) PROVE Turns'
<1>1. PICK g, r : g = nextGen /\ r = nextSubReactor
  OBVIOUS
<1> DEFINE new == [Unused EXCEPT !.peer = "open", !.fd = fd, !.sub = r]
<1>2. /\ acceptor.pc = "accept" /\ g <= MaxGen /\ fd \in FreeFds
      /\ conn' = [conn EXCEPT ![g] = new]
      /\ pendingResponses' = [pendingResponses EXCEPT ![r] = {p \in @ : conn[p.gen].fd # fd}]
      /\ acceptor' = [pc |-> "insert", gen |-> g]
      /\ UNCHANGED <<wakeFd, batch, items, half, tasks>>
  BY <1>1 DEF Accept
<1>3. /\ g \in Gen /\ g # 0 /\ r \in Sub /\ Unknown(g) /\ ~Early
      /\ conn[g].peer = "none"
  <2>1. g \in Gen /\ g # 0 /\ r \in Sub /\ ~Early /\ conn[g].peer = "none"
    BY <1>1, <1>2, ReactorAssumption DEF IInv, TypeOK, Gen, Early
  <2>2. ~(g < nextGen)
    BY <1>1, <2>1, ReactorAssumption DEF Gen
  <2>3. \A x : Named(x) => x # g
    BY <2>2 DEF Named
  <2>4. Wake.gen = 0 /\ Timer.gen = 0
    BY DEF Wake, Timer
  <2> QED
    BY <2>1, <2>3, <2>4 DEF Unknown, IInv, Registered
<1>4. /\ new.sub = r /\ Untouched(new) /\ new.asked = 0 /\ new.inFlight = 0
      /\ new.rx = <<>> /\ new.buf = <<>> /\ new.armed = "off"
  BY DEF Unused, Untouched
<1> HIDE DEF new
<1>5. \A h \in Gen : conn'[h] = IF h = g THEN new ELSE conn[h]
  BY <1>2, TypesNow
<1>6. /\ \A s \in Sub : pendingResponses'[s] \subseteq pendingResponses[s]
      /\ \A h \in Gen, s \in Sub : \A p \in pendingResponses[s] :
           p.gen = h /\ conn[h].fd # fd => p \in pendingResponses'[s]
  BY <1>2, <1>3, TypesNow
<1>7. \A h : /\ ~AtRegistration(h)
             /\ AtRegistration(h)' <=> h = g
  BY <1>2, <1>3 DEF AtRegistration, Early
<1>8. InHand(g)'
  <2>1. Work(g)' = {} /\ Waiting(g)' = {} /\ Taken(g)' = {} /\ Reported(g)' = {}
    BY <1>2, <1>3, <1>4, <1>5, <1>6 DEF Unknown, Work, Waiting, Taken, Reported
  <2>2. Turn(new, {}, {}, {}, {})
    BY <1>4, FreshTurn
  <2> QED
    BY <1>3, <1>4, <1>5, <1>7, <2>1, <2>2 DEF InHand
<1>9. ASSUME NEW h \in Gen, h # g PROVE InHand(h)'
  <2>1. conn'[h] = conn[h] /\ Work(h)' = Work(h)
    BY <1>2, <1>5, <1>9 DEF Work
  <2>2. ASSUME Open(conn[h])
        PROVE  Waiting(h)' = Waiting(h) /\ Taken(h)' = Taken(h) /\ Reported(h)' = Reported(h)
    <3>1. conn[h].fd # fd /\ conn[h].sub \in Sub
      BY <1>2, <2>2, TypesNow DEF FreeFds, Connection
    <3>2. Waiting(h)' = Waiting(h)
      BY <1>6, <2>1, <3>1 DEF Waiting
    <3> QED
      BY <1>2, <2>1, <3>2 DEF Taken, Reported
  <2>3. \A s \in Sub : Woken(s) => Woken(s)'
    BY <1>2 DEF Woken
  <2>4. InHand(h) /\ conn \in [Gen -> Connection]
    BY TypesNow DEF Turns
  <2> QED
    BY <1>7, <1>9, <2>1, <2>2, <2>3, <2>4, Aside
<1> QED
  BY <1>2, <1>8, <1>9 DEF Turns

\* A step of the acceptor that leaves the connections alone.
LEMMA RegisteringTurns ==
  ASSUME IInv, Turns, UNCHANGED <<conn, pendingResponses, wakeFd, batch, items, half, tasks>>,
         \A h : AtRegistration(h)' <=> AtRegistration(h)
  PROVE  Turns'
<1>1. ASSUME NEW h \in Gen PROVE InHand(h)'
  <2>1. /\ conn'[h] = conn[h] /\ Work(h)' = Work(h) /\ Waiting(h)' = Waiting(h)
        /\ Taken(h)' = Taken(h) /\ Reported(h)' = Reported(h)
    BY DEF Work, Waiting, Taken, Reported
  <2>2. \A s \in Sub : Woken(s) => Woken(s)'
    BY DEF Woken
  <2>3. InHand(h) /\ conn \in [Gen -> Connection]
    BY TypesNow DEF Turns
  <2> QED
    BY <2>1, <2>2, <2>3, Aside
<1> QED
  BY <1>1 DEF Turns

LEMMA InsertContextTurns ==
  ASSUME IInv, Turns, InsertContext PROVE Turns'
<1>1. /\ UNCHANGED <<conn, pendingResponses, wakeFd, batch, items, half, tasks>>
      /\ acceptor.pc = "insert" /\ acceptor' = [acceptor EXCEPT !.pc = "add"]
  BY DEF InsertContext
<1>2. acceptor'.pc = "add" /\ acceptor'.gen = acceptor.gen
  BY <1>1, AcceptorNow
<1>3. \A h : AtRegistration(h)' <=> AtRegistration(h)
  BY <1>1, <1>2 DEF AtRegistration, Early
<1> QED
  BY <1>1, <1>3, RegisteringTurns

LEMMA CountConnectionTurns ==
  ASSUME IInv, Turns, CountConnection PROVE Turns'
<1>1. /\ UNCHANGED <<conn, pendingResponses, wakeFd, batch, items, half, tasks>>
      /\ acceptor.pc = "count" /\ acceptor' = Idle
  BY DEF CountConnection
<1>2. \A h : AtRegistration(h)' <=> AtRegistration(h)
  BY <1>1 DEF AtRegistration, Early, Idle
<1> QED
  BY <1>1, <1>2, RegisteringTurns

LEMMA AddToEpollTurns ==
  ASSUME IInv, Turns, AddToEpoll PROVE Turns'
<1>1. PICK g : g = acceptor.gen
  OBVIOUS
<1> DEFINE o == conn[g]
           p == Arm(o, "in")
<1>2. /\ acceptor.pc = "add" /\ Open(o)
      /\ conn' = [conn EXCEPT ![g].armed = "in"]
      /\ acceptor' = [acceptor EXCEPT !.pc = "count"]
      /\ UNCHANGED <<pendingResponses, wakeFd, batch, items, half, tasks>>
  BY <1>1 DEF AddToEpoll
<1>3. /\ g \in Gen /\ o \in Connection /\ o.sub \in Sub
      /\ AtRegistration(g) /\ Unknown(g) /\ Untouched(o) /\ o.armed = "off"
  BY <1>1, <1>2, AcceptorNow DEF AtRegistration, Early, IInv, Registering, Turns, InHand, Fresh
<1>4. /\ \A h \in Gen : conn'[h] = IF h = g THEN p ELSE conn[h]
      /\ p.sub = o.sub /\ p.armed = "in" /\ p.answered = o.answered /\ p.asked = o.asked
      /\ p.dispatched = o.dispatched /\ p.inFlight = o.inFlight /\ p.resp = o.resp
      /\ p.rx = o.rx /\ p.buf = o.buf /\ p.strict = o.strict /\ Open(p)
  BY <1>2, <1>3, TypesNow DEF Arm, Connection, Open
<1>5. \A h : /\ AtRegistration(h) <=> h = g
             /\ ~AtRegistration(h)'
  <2>1. acceptor'.pc = "count"
    BY <1>2, AcceptorNow
  <2> QED
    BY <1>1, <1>2, <2>1 DEF AtRegistration, Early
<1>6. /\ Work(g) = {} /\ Waiting(g) = {} /\ Taken(g) = {} /\ Reported(g) = {}
      /\ Work(g)' = {} /\ Waiting(g)' = {} /\ Taken(g)' = {} /\ Reported(g)' = {}
  BY <1>2, <1>3, <1>4, NothingHere DEF Work, Waiting, Taken, Reported
<1>7. Turn(o, {}, {}, {}, {})
  BY <1>3, <1>6 DEF Turns, InHand
<1> HIDE DEF o, p
<1>8. Turn(p, {}, {}, {}, {})
  <2>1. Queued({}) = {}
    BY DEF Queued
  <2>2. ASSUME p.strict PROVE Ordered(p, {}, {}, {}, {})
    <3>1. Ordered(o, {}, {}, {}, {}) /\ Open(o)
      BY <1>2, <1>4, <1>7, <2>1, <2>2 DEF Turn
    <3>2. \/ o.dispatched = Len(o.answered) /\ Reading(Len(o.answered), o, {}, {}, {}, {})
          \/ o.dispatched = Len(o.answered) + 1
      BY <3>1 DEF Ordered
    <3>3. o.dispatched = Len(o.answered) /\ Reading(Len(o.answered), o, {}, {}, {}, {})
      <4>1. Len(o.answered) = 0 /\ o.dispatched = 0
        BY <1>3 DEF Untouched
      <4> QED
        BY <3>2, <4>1
    <3>4. Reading(Len(p.answered), p, {}, {}, {}, {})
      BY <1>4, <3>3 DEF Reading
    <3>5. Numbered(p) /\ Alone({}, {}, {}, {}) /\ p.asked <= Len(p.answered) + 1
      BY <1>4, <3>1 DEF Ordered, Numbered
    <3> QED
      BY <1>4, <3>3, <3>4, <3>5 DEF Ordered
  <2>3. Tallied(p, {}) /\ Witnessed(p, {})
    BY <1>2, <1>4, <1>7 DEF Turn, Tallied, Distinct, Witnessed
  <2> QED
    BY <2>1, <2>2, <2>3 DEF Turn
<1>9. InHand(g)'
  <2>1. \A woken : Lively(p, {}, {}, {}, {}, woken)
    BY <1>3, <1>4 DEF Lively, Untouched
  <2> QED
    BY <1>3, <1>4, <1>5, <1>6, <1>8, <2>1 DEF InHand
<1>10. ASSUME NEW h \in Gen, h # g PROVE InHand(h)'
  <2>1. /\ conn'[h] = conn[h] /\ Work(h)' = Work(h) /\ Waiting(h)' = Waiting(h)
        /\ Taken(h)' = Taken(h) /\ Reported(h)' = Reported(h)
    BY <1>2, <1>4, <1>10 DEF Work, Waiting, Taken, Reported
  <2>2. \A s \in Sub : Woken(s) => Woken(s)'
    BY <1>2 DEF Woken
  <2>3. InHand(h) /\ conn \in [Gen -> Connection]
    BY TypesNow DEF Turns
  <2> QED
    BY <1>5, <1>10, <2>1, <2>2, <2>3, Aside
<1> QED
  BY <1>2, <1>9, <1>10 DEF Turns

LEMMA AddFailsTurns ==
  ASSUME IInv, Turns, AddFails PROVE Turns'
<1>1. PICK g : g = acceptor.gen
  OBVIOUS
<1>2. /\ acceptor.pc = "add" /\ acceptor' = Idle
      /\ conn' = [conn EXCEPT ![g] = Closed(conn[g])]
      /\ UNCHANGED <<pendingResponses, wakeFd, batch, items, half, tasks>>
  BY <1>1 DEF AddFails
<1>3. \A h : /\ AtRegistration(h) <=> h = g
             /\ ~AtRegistration(h)'
  BY <1>1, <1>2 DEF AtRegistration, Early, Idle
<1>4. \A h \in Gen : conn'[h] = IF h = g THEN Closed(conn[h]) ELSE conn[h]
  BY <1>2, TypesNow
<1>5. ASSUME NEW h \in Gen PROVE InHand(h)'
  <2>1. Work(h)' = Work(h) /\ (conn'[h] = conn[h] \/ conn'[h] = Closed(conn[h]))
    BY <1>2, <1>4 DEF Work
  <2>2. \A s \in Sub : Woken(s) => Woken(s)'
    BY <1>2 DEF Woken
  <2>3. InHand(h) /\ conn \in [Gen -> Connection]
    BY TypesNow DEF Turns
  <2>4. conn'[h] = conn[h] =>
          Waiting(h)' = Waiting(h) /\ Taken(h)' = Taken(h) /\ Reported(h)' = Reported(h)
    BY <1>2 DEF Waiting, Taken, Reported
  <2> QED
    BY <1>3, <1>4, <2>1, <2>2, <2>3, <2>4, Aside
<1> QED
  BY <1>2, <1>5 DEF Turns

-----------------------------------------------------------------------------
(* All steps. *)

\* A response for a connection that is no longer there.
LEMMA DeliverNobody ==
  ASSUME IInv, Turns, NEW r \in Sub, NEW i, Deliver(r, i), ~Deliverable(r, i.gen)
  PROVE  Turns' /\ UNCHANGED conn
<1>1. /\ i \in items[r] /\ items' = [items EXCEPT ![r] = @ \ {i}]
      /\ UNCHANGED <<conn, pendingResponses, tasks, wakeFd, batch, half, acceptor>>
  BY DEF Deliver, accepting
<1>2. Known(i.gen) /\ items \in [Sub -> SUBSET Request]
  BY <1>1, TypesNow, AllKnown
<1>3. \A s \in Sub : items'[s] = IF s = r THEN items[r] \ {i} ELSE items[s]
  BY <1>1, <1>2
<1>4. ASSUME NEW h \in Gen, Open(conn[h]) PROVE Taken(h)' = Taken(h)
  <2>1. conn[h].sub \in Sub /\ Owns(conn[h].sub, h)
    BY <1>4, OpenOwned
  <2>2. conn[h].sub # r \/ h # i.gen
    <3>1. SUFFICES ASSUME h = i.gen, Owns(r, h) PROVE FALSE
      BY <2>1
    <3>2. contexts[r][conn[h].fd] = h
      BY <1>2, <3>1, OwnsContext
    <3> QED
      BY <3>1, <3>2 DEF Deliverable
  <2> QED
    BY <1>1, <1>3, <2>1, <2>2 DEF Taken
<1>5. \A h \in Gen : Waiting(h)' = Waiting(h) /\ Reported(h)' = Reported(h)
  BY <1>1 DEF Waiting, Reported
<1>6. WokenOn /\ \A s \in Sub : half'[s] = Emptied => items'[s] = {}
  BY <1>1, <1>3 DEF WokenOn, Woken, Turns
<1>7. Turns'
  BY <1>1, <1>4, <1>5, <1>6, Quiet
<1> QED
  BY <1>1, <1>7

\* What a step of a reactor is, for the connections.
LEMMA SubStepIs ==
  ASSUME IInv, Turns, NEW r \in Sub, SubStep(r)
  PROVE  \/ \E g, e : Handled(r, g, e)
         \/ Turns' /\ \A h \in Gen : ~Closes(h)
         \/ FinishHup(r)
         \/ \E x : HandleTimer(r, x)
<1>1. ASSUME UNCHANGED conn, NEW h \in Gen PROVE ~Closes(h)
  BY <1>1 DEF Closes, Open
<1>2. ASSUME NEW x, HandleRead(r, x) \/ HandleWrite(r, x) \/ HandleHup(r, x)
      PROVE  \E g, e : Handled(r, g, e)
  BY <1>2, HandleReadHandled, HandleWriteHandled, HandleHupHandled
<1>3. ASSUME NEW x, DropEvent(r, x) \/ HandleWake(r, x)
      PROVE  Turns' /\ \A h \in Gen : ~Closes(h)
  <2>1. UNCHANGED conn
    BY <1>3 DEF DropEvent, HandleWake
  <2> QED
    BY <1>1, <1>3, <2>1, DropEventTurns, HandleWakeTurns
<1>4. ASSUME TakeResponses(r)
      PROVE  Turns' /\ \A h \in Gen : ~Closes(h)
  <2>1. UNCHANGED conn
    BY <1>4 DEF TakeResponses
  <2> QED
    BY <1>1, <1>4, <2>1, TakeResponsesTurns
<1>5. ASSUME NEW timers \in {{}, {Timer}}, Poll(r, timers)
      PROVE  Turns' /\ \A h \in Gen : ~Closes(h)
  <2>1. conn' = [g \in Gen |-> IF g \in Ready(r) THEN Arm(conn[g], "off") ELSE conn[g]]
    BY <1>5 DEF Poll
  <2>2. \A o \in Connection : Arm(o, "off").peer = o.peer
    BY DEF Arm, Connection
  <2>3. \A h \in Gen : conn'[h].peer = conn[h].peer
    BY <2>1, <2>2, TypesNow
  <2>4. \A h \in Gen : ~Closes(h)
    BY <2>3 DEF Closes, Open
  <2> QED
    BY <1>5, <2>4, PollTurns
<1>6. ASSUME NEW i, Deliver(r, i)
      PROVE  (\E g, e : Handled(r, g, e)) \/ (Turns' /\ \A h \in Gen : ~Closes(h))
  <2>1. CASE Deliverable(r, i.gen)
    BY <1>6, <2>1, DeliverHandled
  <2>2. CASE ~Deliverable(r, i.gen)
    BY <1>1, <1>6, <2>2, DeliverNobody
  <2> QED
    BY <2>1, <2>2
<1> QED
  BY <1>2, <1>3, <1>4, <1>5, <1>6 DEF SubStep, HandleEvent, PollTimer

LEMMA NextTurns == IInv /\ Turns /\ [Next]_vars => Turns'
<1> SUFFICES ASSUME IInv, Turns, [Next]_vars PROVE Turns'
  OBVIOUS
<1>1. CASE \E fd \in Fd : Accept(fd)
  BY <1>1, AcceptTurns
<1>2. CASE MainStep
  BY <1>2, InsertContextTurns, AddToEpollTurns, AddFailsTurns, CountConnectionTurns DEF MainStep
<1>3. CASE \E r \in Sub : SubStep(r)
  <2>1. PICK r \in Sub : SubStep(r)
    BY <1>3
  <2> QED
    BY <2>1, SubStepIs, HandledTurns, FinishHupTurns, HandleTimerTurns
<1>4. CASE \E t \in tasks : WorkerStep(t)
  BY <1>4, RespondTurns, NotifyTurns, ThrowForeignTurns, LeaveTurns DEF WorkerStep
<1>5. CASE \E g \in Gen : ClientStep(g)
  BY <1>5, ClientTurns
<1>6. CASE UNCHANGED vars
  <2>1. UNCHANGED <<conn, pendingResponses, wakeFd, batch, items, half, tasks, acceptor>>
    BY <1>6 DEF vars
  <2>2. \A h : AtRegistration(h)' <=> AtRegistration(h)
    BY <2>1 DEF AtRegistration, Early
  <2> QED
    BY <2>1, <2>2, RegisteringTurns
<1> QED
  BY <1>1, <1>2, <1>3, <1>4, <1>5, <1>6 DEF Next

LEMMA InitTurns == Init => Turns
<1> SUFFICES ASSUME Init PROVE Turns
  OBVIOUS
<1>1. /\ conn = [g \in Gen |-> Unused] /\ tasks = {} /\ acceptor = Idle
      /\ pendingResponses = [r \in Sub |-> {}] /\ batch = [r \in Sub |-> {}]
      /\ items = [r \in Sub |-> {}] /\ half = [r \in Sub |-> Whole]
  BY DEF Init
<1>2. /\ Unused.sub \in Sub /\ Untouched(Unused) /\ Unused.asked = 0 /\ Unused.inFlight = 0
      /\ Unused.rx = <<>> /\ Unused.buf = <<>> /\ Unused.armed = "off"
      /\ Unused.peer = "none"
  BY ReactorAssumption DEF Unused, Untouched, Sub
<1>3. ASSUME NEW h \in Gen PROVE InHand(h)
  <2>1. conn[h] = Unused /\ ~AtRegistration(h)
    BY <1>1 DEF AtRegistration, Early, Idle
  <2>2. Work(h) = {} /\ Waiting(h) = {} /\ Taken(h) = {} /\ Reported(h) = {}
    BY <1>1, <1>2, <2>1 DEF Work, Waiting, Taken, Reported
  <2>3. Turn(Unused, {}, {}, {}, {})
    BY <1>2, FreshTurn
  <2>4. \A woken : Lively(Unused, {}, {}, {}, {}, woken)
    BY <1>2 DEF Lively
  <2> QED
    BY <2>1, <2>2, <2>3, <2>4 DEF InHand
<1> QED
  BY <1>1, <1>3 DEF Turns

\* The second inductive invariant: what is on its way for each connection.
THEOREM TurnsInvariance == Spec => []Turns
<1>1. Init => Turns
  BY InitTurns
<1>2. IInv /\ Turns /\ [Next]_vars => Turns'
  BY NextTurns
<1> QED
  BY <1>1, <1>2, Invariance, PTL DEF Spec

\* A client that waits for each answer gets its answers one by one and in order, whatever
\* mixture of whole, split, rejected and oversized requests it sends and whatever closes.
THEOREM InOrder == Spec => []StrictInOrder
<1>1. Turns => StrictInOrder
  BY DEF Turns, InHand, Turn, Ordered, Numbered, StrictInOrder
<1> QED
  BY <1>1, TurnsInvariance, PTL

\* EPOLLONESHOT: no connection is left disarmed with nothing on its way for it (an event,
\* a task, a response with a wake-up), so that no request can be forgotten.
THEOREM NoneStranded == Spec => []NotStranded
<1>1. ASSUME IInv, Turns PROVE NotStranded
  <2> SUFFICES ASSUME NEW r \in Sub, NEW fd \in Fd, NEW g, g = contexts[r][fd],
                      g # 0, acceptor # [pc |-> "add", gen |-> g],
                      conn[g].peer \in {"open", "fin"}, ~conn[g].mute, conn[g].armed = "off",
                      \A e \in batch[r] : e.gen # g, \A i \in items[r] : i.gen # g,
                      ~\E t \in tasks : t.gen = g /\ t.phase = "queued"
               PROVE  (\E p \in pendingResponses[r] : p.gen = g) /\ WillWake(r, g)
    BY DEF NotStranded
  <2>1. g \in Gen /\ conn[g].sub = r
    BY <1>1, FoundContext
  <2>2. ~AtRegistration(g)
    <3>1. acceptor.pc = "insert" => contexts[r][fd] # acceptor.gen
      BY <1>1 DEF IInv, Registering
    <3>2. acceptor = [pc |-> acceptor.pc, gen |-> acceptor.gen]
      BY <1>1, AcceptorNow
    <3> QED
      BY <3>1, <3>2 DEF AtRegistration, Early
  <2>3. Lively(conn[g], Work(g), Waiting(g), Taken(g), Reported(g), Woken(r))
    BY <1>1, <2>1, <2>2 DEF Turns, InHand
  <2>4. Reported(g) = {} /\ Taken(g) = {} /\ Queued(Work(g)) = {}
    BY <2>1 DEF Reported, Taken, Queued, Work
  <2>5. Waiting(g) # {} /\ (Woken(r) \/ \E t \in Work(g) : t.phase = "posted")
    BY <2>3, <2>4 DEF Lively
  <2> QED
    BY <2>1, <2>5 DEF Waiting, Work, Woken, WillWake
<1> QED
  BY <1>1, Invariance, TurnsInvariance, PTL

\* Only handleTimer takes the timerfd's event.
LEMMA TimerOnly ==
  ASSUME IInv, [Next]_vars, TimerStep
  PROVE  \E r \in Sub : \E x : HandleTimer(r, x)
<1>1. PICK s \in Sub : Timer \in batch[s] /\ Timer \notin batch'[s]
  BY DEF TimerStep
<1>2. batch' # batch /\ batch \in [Sub -> SUBSET Event]
  BY <1>1, TypesNow
<1>3. ASSUME NEW r \in Sub, NEW x, Take(r, x) PROVE x = Timer
  <2>1. batch' = [batch EXCEPT ![r] = @ \ {x}]
    BY <1>3 DEF Take
  <2> QED
    BY <1>1, <1>2, <2>1
<1>4. Timer.io = "timer" /\ ~Timer.hup /\ Timer # Wake
  BY DEF Timer, Wake
<1>5. PICK r \in Sub : SubStep(r)
  BY <1>2 DEF Next, vars, Accept, MainStep, InsertContext, AddToEpoll, AddFails, CountConnection,
     WorkerStep, Respond, Notify, ThrowForeign, Leave,
     ClientStep, Send, Finish, Reset, Elapse, Drag, server
<1>6. ASSUME NEW timers, Poll(r, timers) PROVE FALSE
  <2>1. batch[r] = {} /\ \E B : batch' = [batch EXCEPT ![r] = B]
    BY <1>6 DEF Poll, Resting
  <2> QED
    BY <1>1, <1>2, <2>1
<1>7. \A x : ~DropEvent(r, x) /\ ~HandleRead(r, x) /\ ~HandleWrite(r, x)
             /\ ~HandleHup(r, x) /\ ~HandleWake(r, x)
  BY <1>3, <1>4 DEF DropEvent, HandleRead, HandleWrite, HandleHup, HandleWake
<1>8. ~FinishHup(r) /\ ~TakeResponses(r) /\ \A i : ~Deliver(r, i)
  BY <1>2 DEF FinishHup, TakeResponses, Deliver
<1> QED
  BY <1>5, <1>6, <1>7, <1>8 DEF SubStep, HandleEvent, PollTimer

\* handleTimer never closes a connection one of whose requests is queued or being run:
\* inFlight, which it looks at, counts the tasks of the connection exactly.
THEOREM TimerIsPatient == Spec => TimerSparesRunning
<1>1. ASSUME IInv, Turns, [Next]_vars, NEW g \in Gen, TimerStep, Closes(g)
      PROVE  ~\E t \in tasks : t.gen = g
  <2>1. PICK r \in Sub : \E x : HandleTimer(r, x)
    BY <1>1, TimerOnly
  <2>2. PICK x : HandleTimer(r, x)
    BY <1>1, <2>1
  <2>3. Stale(conn[g]) /\ Open(conn[g])
    BY <1>1, <2>2, HandleTimerTurns DEF Closes
  <2>4. IsFiniteSet(Work(g)) /\ Cardinality(Work(g)) = 0
    BY <1>1, <2>3 DEF Turns, InHand, Turn, Tallied, Distinct, Stale
  <2>5. Work(g) = {}
    BY <2>4, FS_EmptySet
  <2> QED
    BY <2>5 DEF Work
<1>2. IInv /\ Turns /\ [Next]_vars =>
        [\A g \in Gen : TimerStep /\ Closes(g) => ~\E t \in tasks : t.gen = g]_vars
  BY <1>1
<1> QED
  BY <1>2, Invariance, TurnsInvariance, PTL DEF Spec, TimerSparesRunning

\* Workers and clients close nothing.
LEMMA OthersSpare ==
  ASSUME IInv, NEW h \in Gen, Closes(h),
         (\E t \in tasks : WorkerStep(t)) \/ (\E g \in Gen : ClientStep(g)) \/ UNCHANGED vars
  PROVE  FALSE
<1>1. /\ conn[h] \in Connection /\ Open(conn[h]) /\ conn'[h].peer = "closed"
      /\ conn[h].peer # "closed" /\ conn \in [Gen -> Connection]
  BY TypesNow DEF Closes, Open
<1>2. ASSUME NEW g, NEW n, conn' = [conn EXCEPT ![g].inFlight = n] PROVE FALSE
  BY <1>1, <1>2 DEF Connection
<1>3. ASSUME NEW g, NEW b,
             (conn' = [conn EXCEPT ![g].mute = b]) \/ (conn' = [conn EXCEPT ![g].idle = b])
               \/ (conn' = [conn EXCEPT ![g].slow = b])
      PROVE  FALSE
  <2>1. CASE conn' = [conn EXCEPT ![g].mute = b]
    BY <1>1, <2>1 DEF Connection
  <2>2. CASE conn' = [conn EXCEPT ![g].idle = b]
    BY <1>1, <2>2 DEF Connection
  <2>3. CASE conn' = [conn EXCEPT ![g].slow = b]
    BY <1>1, <2>3 DEF Connection
  <2> QED
    BY <1>3, <2>1, <2>2, <2>3
<1>4. ASSUME NEW g, NEW b, b # "closed", conn' = [conn EXCEPT ![g].peer = b] PROVE FALSE
  BY <1>1, <1>4 DEF Connection
<1>5. ASSUME NEW g \in Gen, NEW k, Send(g, k) PROVE FALSE
  <2>1. \E rx, tokens, asked, strict :
          conn' = [conn EXCEPT ![g] = [conn[g] EXCEPT !.rx = rx, !.tokens = tokens,
                                                      !.asked = asked, !.strict = strict]]
    BY <1>5 DEF Send
  <2>2. conn'[g].peer = conn[g].peer /\ \A k2 \in Gen \ {g} : conn'[k2] = conn[k2]
    BY <1>1, <2>1 DEF Connection
  <2> QED
    BY <1>1, <2>2
<1>6. CASE \E t \in tasks : WorkerStep(t)
  BY <1>1, <1>2, <1>3, <1>6 DEF WorkerStep, Respond, Notify, ThrowForeign, Leave
<1>7. CASE \E g \in Gen : ClientStep(g)
  BY <1>3, <1>4, <1>5, <1>7 DEF ClientStep, Finish, Reset, Elapse, Drag
<1>8. CASE UNCHANGED vars
  BY <1>1, <1>8 DEF vars
<1> QED
  BY <1>6, <1>7, <1>8

\* A client that waits for its answers is cut off with a request unanswered only by the
\* idle timer, a registration that fails or an ERR/HUP event; the end of its own stream
\* after shutdown(SHUT_WR) is met only once everything it asked has been answered.
THEOREM NoneCutOff == Spec => NoEarlyClose
<1>1. ASSUME IInv, Turns, [Next]_vars, NEW g \in Gen, Closes(g),
             conn[g].strict, conn[g].peer # "reset",
             ~TimerStep, ~HupStep, UNCHANGED acceptor
      PROVE  Len(conn'[g].answered) = conn[g].asked
  <2>1. \A fd \in Fd : ~Accept(fd)
    BY <1>1 DEF Accept
  <2>2. ~MainStep
    BY <1>1, AcceptorNow DEF MainStep, InsertContext, AddToEpoll, AddFails, CountConnection, Idle
  <2>3. ~((\E t \in tasks : WorkerStep(t)) \/ (\E h \in Gen : ClientStep(h)) \/ UNCHANGED vars)
    BY <1>1, OthersSpare
  <2>4. PICK r \in Sub : SubStep(r)
    BY <1>1, <2>1, <2>2, <2>3 DEF Next
  <2>5. ~FinishHup(r)
    <3>1. SUFFICES ASSUME FinishHup(r) PROVE FALSE
      OBVIOUS
    <3>2. half[r].fd # 0 /\ half' = [half EXCEPT ![r] = Whole]
      BY <3>1 DEF FinishHup
    <3>3. half'[r] = Whole
      BY <1>1, <3>2, TypesNow
    <3> QED
      BY <1>1, <3>2, <3>3 DEF HupStep
  <2>6. ASSUME NEW x, HandleTimer(r, x) PROVE FALSE
    <3>1. Timer \in batch[r] /\ batch' = [batch EXCEPT ![r] = @ \ {Timer}]
      BY <2>6 DEF HandleTimer, Take
    <3>2. Timer \notin batch'[r]
      BY <1>1, <3>1, TypesNow
    <3> QED
      BY <1>1, <3>1, <3>2 DEF TimerStep
  <2>7. PICK h, e : Handled(r, h, e)
    BY <1>1, <2>4, <2>5, <2>6, SubStepIs
  <2> QED
    BY <1>1, <2>7, HandledCloses
<1>2. IInv /\ Turns /\ [Next]_vars =>
        [\A g \in Gen :
           /\ Closes(g)
           /\ conn[g].strict /\ conn[g].peer # "reset"
           /\ ~TimerStep /\ ~HupStep /\ UNCHANGED acceptor
           => Len(conn'[g].answered) = conn[g].asked]_vars
  BY <1>1
<1> QED
  BY <1>2, Invariance, TurnsInvariance, PTL DEF Spec, NoEarlyClose
=============================================================================
