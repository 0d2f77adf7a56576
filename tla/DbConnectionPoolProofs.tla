------------------------ MODULE DbConnectionPoolProofs ------------------------
(***************************************************************************)
(* Proofs about DbConnectionPool, for any borrowers, any finite supply of  *)
(* connections and any size of the pool that it can reach.                 *)
(***************************************************************************)
EXTENDS DbConnectionPool, FiniteSetTheorems, FunctionTheorems, TLAPS

\* A connection that is idle, borrowed, on record or was kept off it has been opened: a new
\* one is none of them.
Opened ==
  /\ \A c \in InQueue(availableConnections) \cup allConnections \cup offRecord : state[c] # "unused"
  /\ \A b \in Borrower : held[b] # NoConn => state[held[b]] # "unused"

\* Until the pool is down, what is connected is idle or on record, and shutdown finds it,
\* unless it is off the record and lent.
UpKnown ==
  opc # "down" => \A c \in Conn :
    state[c] = "up" => c \in Closing \/ (c \in offRecord /\ Lent(c))

\* What there is until initialize succeeds, and after shutdown.
Phases ==
  /\ shutdown <=> opc \notin {"new", "up"}
  /\ opc = "new" => Cardinality(allConnections) <= thrown * maxConnections
  /\ opc = "down" => availableConnections = <<>> /\ allConnections = {}

Safe == OneHolder /\ Accounted /\ NoneLeftOpen /\ Opened /\ UpKnown /\ Phases
IInv == TypeOK /\ Safe

Distinct(q) == \A i, j \in 1..Len(q) : q[i] = q[j] => i = j

-----------------------------------------------------------------------------
(* Queues and new connections. *)

\* append and pop as operations on the set of what a queue holds.
LEMMA QueueAppend ==
  ASSUME NEW S, NEW q \in Seq(S), NEW x \in S
  PROVE  /\ Append(q, x) \in Seq(S)
         /\ InQueue(Append(q, x)) = InQueue(q) \cup {x}
         /\ Distinct(q) /\ x \notin InQueue(q) => Distinct(Append(q, x))
<1>1. /\ Append(q, x) \in Seq(S) /\ Len(q) \in Nat
      /\ Len(Append(q, x)) = Len(q) + 1 /\ Append(q, x)[Len(q) + 1] = x
      /\ \A i \in 1..Len(q) : Append(q, x)[i] = q[i]
  OBVIOUS
<1>2. \A i \in 1..(Len(q) + 1) : i \in 1..Len(q) \/ i = Len(q) + 1
  BY <1>1
<1>3. InQueue(Append(q, x)) \subseteq InQueue(q) \cup {x}
  BY <1>1, <1>2 DEF InQueue
<1>4. InQueue(q) \cup {x} \subseteq InQueue(Append(q, x))
  <2>1. x \in InQueue(Append(q, x))
    BY <1>1 DEF InQueue
  <2>2. ASSUME NEW i \in 1..Len(q) PROVE q[i] \in InQueue(Append(q, x))
    <3>1. i \in 1..Len(Append(q, x)) /\ Append(q, x)[i] = q[i]
      BY <1>1
    <3> QED
      BY <3>1 DEF InQueue
  <2> QED
    BY <2>1, <2>2 DEF InQueue
<1>5. Distinct(q) /\ x \notin InQueue(q) => Distinct(Append(q, x))
  BY <1>1, <1>2 DEF Distinct, InQueue
<1> QED
  BY <1>1, <1>3, <1>4, <1>5

LEMMA QueueTail ==
  ASSUME NEW S, NEW q \in Seq(S), q # <<>>
  PROVE  /\ Tail(q) \in Seq(S) /\ Head(q) \in S
         /\ InQueue(q) = InQueue(Tail(q)) \cup {Head(q)}
         /\ Distinct(q) => Distinct(Tail(q)) /\ Head(q) \notin InQueue(Tail(q))
<1>1. /\ Tail(q) \in Seq(S) /\ Len(q) \in Nat /\ 1 \in 1..Len(q)
      /\ Head(q) = q[1] /\ q[1] \in S /\ Len(Tail(q)) = Len(q) - 1
      /\ \A i \in 1..Len(Tail(q)) : Tail(q)[i] = q[i + 1] /\ i + 1 \in 1..Len(q)
  OBVIOUS
<1>2. \A i \in 1..Len(q) : i = 1 \/ (i - 1 \in 1..Len(Tail(q)) /\ Tail(q)[i - 1] = q[i])
  BY <1>1
<1>3. InQueue(q) \subseteq InQueue(Tail(q)) \cup {Head(q)}
  BY <1>1, <1>2 DEF InQueue
<1>4. InQueue(Tail(q)) \cup {Head(q)} \subseteq InQueue(q)
  BY <1>1 DEF InQueue
<1>5. Distinct(q) => Distinct(Tail(q)) /\ Head(q) \notin InQueue(Tail(q))
  BY <1>1 DEF Distinct, InQueue
<1> QED
  BY <1>1, <1>3, <1>4, <1>5

\* Every element of a queue over S is in S.
LEMMA QueueMembers == ASSUME NEW S, NEW q \in Seq(S) PROVE InQueue(q) \subseteq S
BY DEF InQueue

\* The replacement of a broken connection: one that was never used.
LEMMA NewOne == ASSUME Fresh # {} PROVE New(1)[1] \in Fresh
<1>1. PICK c \in Fresh : TRUE
  OBVIOUS
<1>2. [i \in 1..1 |-> c] \in [1..1 -> Fresh] /\ \A i, j \in 1..1 : i = j
  OBVIOUS
<1>3. \E q \in [1..1 -> Fresh] : \A i, j \in 1..1 : q[i] = q[j] => i = j
  BY <1>2
<1>4. New(1) \in [1..1 -> Fresh]
  BY <1>3 DEF New
<1> QED
  BY <1>4

\* The connections initialize makes: n different ones, none of which was ever used.
LEMMA NewMany ==
  ASSUME NEW n \in MayOpen
  PROVE  /\ n \in Nat /\ n <= maxConnections
         /\ New(n) \in Seq(Conn) /\ Len(New(n)) = n /\ Distinct(New(n))
         /\ InQueue(New(n)) \subseteq Fresh
         /\ IsFiniteSet(InQueue(New(n))) /\ Cardinality(InQueue(New(n))) = n
<1> DEFINE m == Cardinality(Fresh)
<1>1. /\ IsFiniteSet(Fresh) /\ m \in Nat /\ ExistsBijection(1..m, Fresh)
      /\ maxConnections \in Nat /\ n \in Nat /\ n <= m /\ n <= maxConnections
  <2>1. IsFiniteSet(Fresh)
    BY DbPoolAssumption, FS_Subset DEF Fresh
  <2>2. m \in Nat /\ ExistsBijection(1..m, Fresh)
    BY <2>1, FS_CardinalityType
  <2>3. Cardinality(Conn) \in Nat
    BY DbPoolAssumption, FS_CardinalityType
  <2> QED
    BY <2>1, <2>2, <2>3, DbPoolAssumption DEF MayOpen
<1>2. PICK f \in Bijection(1..m, Fresh) : TRUE
  BY <1>1 DEF ExistsBijection
<1>3. f \in [1..m -> Fresh] /\ \A i, j \in 1..m : f[i] = f[j] => i = j
  BY <1>2 DEF Bijection, Injection, IsInjective
<1>4. /\ [i \in 1..n |-> f[i]] \in [1..n -> Fresh]
      /\ \A i, j \in 1..n : [k \in 1..n |-> f[k]][i] = [k \in 1..n |-> f[k]][j] => i = j
  BY <1>1, <1>3
<1>5. \E q \in [1..n -> Fresh] : \A i, j \in 1..n : q[i] = q[j] => i = j
  BY <1>4
<1>6. New(n) \in [1..n -> Fresh] /\ \A i, j \in 1..n : New(n)[i] = New(n)[j] => i = j
  BY <1>5 DEF New
<1>7. New(n) \in Seq(Conn) /\ Len(New(n)) = n
  BY <1>1, <1>6 DEF Fresh
<1>8. New(n) \in Bijection(1..n, InQueue(New(n))) /\ InQueue(New(n)) \subseteq Fresh
  BY <1>6, <1>7 DEF Bijection, Injection, Surjection, IsInjective, InQueue
<1>9. IsFiniteSet(1..n) /\ Cardinality(1..n) = n
  BY <1>1, FS_Interval
<1>10. IsFiniteSet(InQueue(New(n))) /\ Cardinality(InQueue(New(n))) = n
  BY <1>8, <1>9, FS_Bijection DEF ExistsBijection
<1> QED
  BY <1>1, <1>6, <1>7, <1>8, <1>10 DEF Distinct

\* One queue after another, as sets of what they hold.
LEMMA QueueConcat ==
  ASSUME NEW S, NEW q \in Seq(S), NEW r \in Seq(S)
  PROVE  /\ q \o r \in Seq(S)
         /\ InQueue(q \o r) = InQueue(q) \cup InQueue(r)
         /\ Distinct(q) /\ Distinct(r) /\ InQueue(q) \cap InQueue(r) = {} => Distinct(q \o r)
<1>1. /\ q \o r \in Seq(S) /\ Len(q) \in Nat /\ Len(r) \in Nat
      /\ Len(q \o r) = Len(q) + Len(r)
      /\ \A i \in 1..Len(q) : (q \o r)[i] = q[i]
  OBVIOUS
<1>2. \A i \in 1..Len(r) : /\ Len(q) + i \in 1..Len(q \o r)
                           /\ (q \o r)[Len(q) + i] = r[i]
  BY <1>1
<1>3. \A i \in 1..Len(q \o r) : \/ i \in 1..Len(q)
                               \/ /\ i - Len(q) \in 1..Len(r) /\ i = Len(q) + (i - Len(q))
                                  /\ (q \o r)[i] = r[i - Len(q)]
  BY <1>1
<1>4. InQueue(q) \cup InQueue(r) \subseteq InQueue(q \o r)
  <2>1. \A i \in 1..Len(q) : i \in 1..Len(q \o r)
    BY <1>1
  <2> QED
    BY <1>1, <1>2, <2>1 DEF InQueue
<1>5. InQueue(q \o r) \subseteq InQueue(q) \cup InQueue(r)
  BY <1>1, <1>3 DEF InQueue
<1>6. ASSUME Distinct(q), Distinct(r), InQueue(q) \cap InQueue(r) = {},
             NEW i \in 1..Len(q \o r), NEW j \in 1..Len(q \o r), (q \o r)[i] = (q \o r)[j]
      PROVE  i = j
  <2>1. CASE i \in 1..Len(q) /\ j \in 1..Len(q)
    BY <1>1, <1>6, <2>1 DEF Distinct
  <2>2. CASE i \notin 1..Len(q) /\ j \notin 1..Len(q)
    <3>1. i - Len(q) = j - Len(q)
      BY <1>3, <1>6, <2>2 DEF Distinct
    <3> QED
      BY <1>1, <3>1
  <2>3. CASE ~ (i \in 1..Len(q) <=> j \in 1..Len(q))
    <3>1. \A k \in 1..Len(q), l \in 1..Len(r) : q[k] # r[l]
      BY <1>6 DEF InQueue
    <3> QED
      BY <1>1, <1>3, <1>6, <2>3, <3>1
  <2> QED
    BY <2>1, <2>2, <2>3
<1> QED
  BY <1>1, <1>4, <1>5, <1>6 DEF Distinct

-----------------------------------------------------------------------------
\* The pool begins empty.
LEMMA InitInv == Init => IInv
<1> SUFFICES ASSUME Init PROVE IInv
  OBVIOUS
<1>1. TypeOK
  <2>1. availableConnections \in Seq(Conn)
    <3>1. <<>> \in Seq(Conn)
      OBVIOUS
    <3> QED
      BY <3>1 DEF Init
  <2>5. shutdown \in BOOLEAN /\ healthCheckRunning \in BOOLEAN
    BY DEF Init
  <2>2. hpc \in HealthPC /\ opc \in OwnerPC /\ mutex \in {NoThread}
    BY DEF Init, HealthPC, OwnerPC
  <2>6. thrown \in Nat /\ offRecord \subseteq Conn
    BY DEF Init
  <2>3. /\ state \in [Conn -> {"unused", "up", "down"}]
        /\ bpc \in [Borrower -> BorrowerPC] /\ timed \in [Borrower -> BOOLEAN]
        /\ held \in [Borrower -> Conn \cup {NoConn}]
    BY DEF Init, BorrowerPC
  <2>4. \A b \in Borrower : bpc[b] = "hold" <=> held[b] # NoConn
    BY DEF Init
  <2> QED
    BY <2>1, <2>2, <2>3, <2>4, <2>5, <2>6 DEF Init, TypeOK
<1>2. InQueue(<<>>) = {} /\ Len(<<>>) = 0
  BY DEF InQueue
<1>3. Accounted /\ Phases
  <2>1. Cardinality({}) = 0 /\ Cardinality(Conn) \in Nat /\ maxConnections \in Nat
    BY FS_EmptySet, FS_CardinalityType, DbPoolAssumption
  <2>2. 0 <= (0 + 1) * maxConnections /\ 0 <= 0 * maxConnections
    BY <2>1
  <2> QED
    BY <1>2, <2>1, <2>2 DEF Init, Accounted, Phases
<1> QED
  BY <1>1, <1>2, <1>3 DEF IInv, Safe, Init, OneHolder, NoneLeftOpen, Opened, UpKnown

\* A step that moves no connection and does not begin or end the life of the pool.
LEMMA QuietStep ==
  ASSUME Safe, UNCHANGED <<pools, held, shutdown, leftovers>>,
         \A b \in Borrower : bpc'[b] = "hold" <=> bpc[b] = "hold",
         opc' = opc \/ {opc, opc'} \subseteq {"stop", "notify", "join", "close"}
  PROVE  Safe'
<1>1. OneHolder' /\ Accounted' /\ NoneLeftOpen' /\ Opened'
  BY DEF Safe, pools, leftovers, OneHolder, Accounted, NoneLeftOpen, Lent, Opened
<1>2. UpKnown' /\ Phases'
  BY DEF Safe, pools, leftovers, UpKnown, Phases, Closing, Lent
<1> QED
  BY <1>1, <1>2 DEF Safe

\* getConnection, up to the moment a connection is there.
LEMMA WaitInv ==
  ASSUME IInv, NEW b \in Borrower,
         \/ \E t \in BOOLEAN : GetCall(b, t)
         \/ GiveUp(b) \/ NotReady(b) \/ GetSleep(b) \/ GetTimeout(b) \/ SpuriousWakeup(b)
  PROVE  IInv'
<1> USE DEF IInv
<1>1. /\ bpc[b] # "hold" /\ bpc'[b] \in BorrowerPC \ {"hold"} /\ bpc' = [bpc EXCEPT ![b] = bpc'[b]]
      /\ timed' \in [Borrower -> BOOLEAN] /\ mutex' \in Borrower \cup {NoThread, mutex}
      /\ UNCHANGED <<pools, flags, held, hpc, opc>>
  BY DEF GetCall, GiveUp, NotReady, GetSleep, GetTimeout, SpuriousWakeup, TypeOK, BorrowerPC
<1>2. TypeOK'
  BY <1>1 DEF TypeOK, pools, flags
<1>3. Safe'
  BY <1>1, QuietStep DEF flags, leftovers, TypeOK
<1> QED
  BY <1>2, <1>3

\* getConnection takes the first idle connection.
LEMMA TakeInv ==
  ASSUME IInv, NEW b \in Borrower, Take(b)
  PROVE  IInv'
<1> USE DEF IInv, Safe
<1> DEFINE c == Head(availableConnections)
<1>1. /\ bpc[b] # "hold" /\ ~shutdown /\ availableConnections \in Seq(Conn)
      /\ availableConnections # <<>> /\ availableConnections' = Tail(availableConnections)
      /\ held' = [held EXCEPT ![b] = c] /\ bpc' = [bpc EXCEPT ![b] = "hold"]
      /\ timed' \in [Borrower -> BOOLEAN]
      /\ UNCHANGED <<allConnections, state, flags, mutex, hpc, opc>>
  BY DEF Take, PopFront, TypeOK
<1>2. /\ availableConnections' \in Seq(Conn) /\ c \in Conn
      /\ InQueue(availableConnections) = InQueue(availableConnections') \cup {c}
      /\ Distinct(availableConnections') /\ c \notin InQueue(availableConnections')
  BY <1>1, QueueTail DEF OneHolder, Distinct
<1>3. c # NoConn /\ held[b] = NoConn /\ held'[b] = c
  BY <1>1, <1>2, DbPoolAssumption DEF TypeOK
<1>4. TypeOK'
  BY <1>1, <1>2, <1>3 DEF TypeOK, flags, BorrowerPC
<1>5. OneHolder'
  BY <1>1, <1>2, <1>3 DEF OneHolder, Distinct, TypeOK
<1>6. Accounted'
  BY <1>1, <1>2, <1>3 DEF Accounted, flags, TypeOK
<1>7. Opened'
  BY <1>1, <1>2, <1>3 DEF Opened, flags, TypeOK
<1>8. opc # "down" /\ opc' = opc
  BY <1>1 DEF Phases
<1>9. \A d \in Conn : Lent(d) => Lent(d)'
  BY <1>1, <1>3, DbPoolAssumption DEF Lent, TypeOK
<1>10. \A d \in Conn : d = c => Lent(d)'
  BY <1>3 DEF Lent
<1>11. UpKnown' /\ NoneLeftOpen'
  BY <1>1, <1>2, <1>8, <1>9, <1>10 DEF UpKnown, NoneLeftOpen, Closing, flags, Accounted
<1>12. Phases'
  BY <1>1, <1>8 DEF Phases, flags
<1> QED
  BY <1>4, <1>5, <1>6, <1>7, <1>11, <1>12

-----------------------------------------------------------------------------
(* returnConnection. *)

\* Whoever returns a connection has none afterwards, and nobody else gets or loses one:
\* a notification only sends a thread back to its predicate.
LEMMA HandsEmptied ==
  ASSUME TypeOK, NEW b \in Borrower, Returning(b), BackAndNotifyOne(b) \/ Back(b)
  PROVE  /\ bpc[b] = "hold" /\ held[b] \in Conn /\ held' = [held EXCEPT ![b] = NoConn]
         /\ UNCHANGED <<flags, mutex, timed, opc>>
         /\ bpc' \in [Borrower -> BorrowerPC] /\ hpc' \in HealthPC
         /\ held' \in [Borrower -> Conn \cup {NoConn}]
         /\ \A a \in Borrower : bpc'[a] = "hold" <=> bpc[a] = "hold" /\ a # b
         /\ \A a \in Borrower : bpc'[a] = "hold" <=> held'[a] # NoConn
         /\ \A d \in Conn : Lent(d) => d = held[b] \/ Lent(d)'
<1>1. /\ bpc[b] = "hold" /\ held[b] \in Conn /\ held' = [held EXCEPT ![b] = NoConn]
      /\ UNCHANGED <<flags, mutex, timed, opc>>
  BY DEF Returning, Drop, TypeOK
<1>2. /\ bpc' \in [Borrower -> BorrowerPC] /\ hpc' \in HealthPC
      /\ \A a \in Borrower : bpc'[a] = "hold" <=> bpc[a] = "hold" /\ a # b
  <2>1. CASE Back(b)
    BY <1>1, <2>1 DEF Back, TypeOK, BorrowerPC
  <2>2. CASE \E w \in Sleepers :
               bpc' = [[bpc EXCEPT ![b] = "idle"] EXCEPT ![w] = "lock"] /\ UNCHANGED hpc
    BY <1>1, <2>2 DEF Sleepers, TypeOK, BorrowerPC
  <2>3. CASE bpc' = [bpc EXCEPT ![b] = "idle"] /\ hpc' \in {hpc, "lock"}
    BY <1>1, <2>3 DEF TypeOK, BorrowerPC, HealthPC
  <2> QED
    BY <2>1, <2>2, <2>3 DEF BackAndNotifyOne
<1>3. held' \in [Borrower -> Conn \cup {NoConn}]
  BY <1>1 DEF TypeOK
<1>4. \A a \in Borrower : bpc'[a] = "hold" <=> held'[a] # NoConn
  BY <1>1, <1>2, DbPoolAssumption DEF TypeOK
<1>5. \A d \in Conn : Lent(d) => d = held[b] \/ Lent(d)'
  BY <1>1 DEF Lent, TypeOK
<1> QED
  BY <1>1, <1>2, <1>3, <1>4, <1>5

\* A connection returned after shutdown is closed, and one that the pool does not
\* know, or that cannot be replaced, is dropped.
LEMMA DiscardInv ==
  ASSUME IInv, NEW b \in Borrower,
         ReturnAfterShutdown(b) \/ ReturnIgnored(b) \/ ReturnUnknown(b)
  PROVE  IInv'
<1> USE DEF IInv, Safe
<1> DEFINE c == held[b]
<1>1. /\ bpc[b] = "hold" /\ c \in Conn /\ held' = [held EXCEPT ![b] = NoConn]
      /\ UNCHANGED <<flags, mutex, timed, opc>>
      /\ bpc' \in [Borrower -> BorrowerPC] /\ hpc' \in HealthPC
      /\ held' \in [Borrower -> Conn \cup {NoConn}]
      /\ \A a \in Borrower : bpc'[a] = "hold" <=> bpc[a] = "hold" /\ a # b
      /\ \A a \in Borrower : bpc'[a] = "hold" <=> held'[a] # NoConn
      /\ \A d \in Conn : Lent(d) => d = c \/ Lent(d)'
  BY HandsEmptied DEF ReturnAfterShutdown, ReturnIgnored, ReturnUnknown
<1>2. /\ UNCHANGED <<availableConnections, allConnections>>
      /\ state' \in [Conn -> {"unused", "up", "down"}]
      /\ \A d \in Conn : (d # c /\ state'[d] = state[d]) \/ (d = c /\ state'[d] = "down")
  BY <1>1 DEF ReturnAfterShutdown, ReturnIgnored, ReturnUnknown, pools, TypeOK
<1>3. TypeOK'
  BY <1>1, <1>2 DEF TypeOK, flags
<1>4. OneHolder'
  BY <1>1, <1>2, QueueMembers, DbPoolAssumption DEF OneHolder, InQueue, TypeOK
<1>5. Accounted'
  BY <1>1, <1>2 DEF Accounted, TypeOK, flags
<1>6. Opened'
  BY <1>1, <1>2, QueueMembers DEF Opened, TypeOK, flags
<1>7. NoneLeftOpen' /\ UpKnown'
  BY <1>1, <1>2 DEF NoneLeftOpen, UpKnown, Closing, flags
<1>8. Phases'
  BY <1>1, <1>2 DEF Phases, flags
<1> QED
  BY <1>3, <1>4, <1>5, <1>6, <1>7, <1>8

\* A connection returned in good order goes to the end of the queue.
LEMMA ReturnConnectedInv ==
  ASSUME IInv, NEW b \in Borrower, ReturnConnected(b)
  PROVE  IInv'
<1> USE DEF IInv, Safe
<1> DEFINE c == held[b]
<1>1. /\ bpc[b] = "hold" /\ c \in Conn /\ held' = [held EXCEPT ![b] = NoConn]
      /\ UNCHANGED <<flags, mutex, timed, opc>>
      /\ bpc' \in [Borrower -> BorrowerPC] /\ hpc' \in HealthPC
      /\ held' \in [Borrower -> Conn \cup {NoConn}]
      /\ \A a \in Borrower : bpc'[a] = "hold" <=> bpc[a] = "hold" /\ a # b
      /\ \A a \in Borrower : bpc'[a] = "hold" <=> held'[a] # NoConn
      /\ \A d \in Conn : Lent(d) => d = c \/ Lent(d)'
  BY HandsEmptied DEF ReturnConnected
<1>2. /\ ~shutdown /\ c \in allConnections /\ availableConnections \in Seq(Conn)
      /\ availableConnections' = Append(availableConnections, c)
      /\ UNCHANGED <<allConnections, state>>
  BY DEF ReturnConnected, TypeOK
<1>3. c \notin InQueue(availableConnections) /\ c # NoConn
  BY <1>1, DbPoolAssumption DEF OneHolder
<1>4. /\ availableConnections' \in Seq(Conn)
      /\ InQueue(availableConnections') = InQueue(availableConnections) \cup {c}
      /\ Distinct(availableConnections')
  <2>1. Distinct(availableConnections) /\ c \in Conn
    BY <1>1 DEF OneHolder, Distinct
  <2> HIDE DEF c
  <2> QED
    BY <1>2, <1>3, <2>1, QueueAppend
<1>5. TypeOK'
  BY <1>1, <1>2, <1>4 DEF TypeOK, flags
<1>6. OneHolder'
  <2>1. \A a \in Borrower : held'[a] \notin InQueue(availableConnections')
    BY <1>1, <1>2, <1>3, <1>4, QueueMembers, DbPoolAssumption DEF OneHolder, TypeOK
  <2>2. \A a, d \in Borrower : held'[a] = held'[d] /\ held'[a] # NoConn => a = d
    BY <1>1 DEF OneHolder, TypeOK
  <2> QED
    BY <1>4, <2>1, <2>2 DEF OneHolder, Distinct
<1>7. Accounted'
  BY <1>1, <1>2, <1>4 DEF Accounted, TypeOK, flags
<1>8. Opened'
  BY <1>1, <1>2, <1>4 DEF Opened, flags, TypeOK
<1>9. NoneLeftOpen' /\ UpKnown' /\ Phases'
  BY <1>1, <1>2, <1>4 DEF NoneLeftOpen, UpKnown, Phases, Closing, flags
<1> QED
  BY <1>5, <1>6, <1>7, <1>8, <1>9

\* A broken connection is replaced by a new one, in the queue and on record.
LEMMA ReturnBrokenInv ==
  ASSUME IInv, NEW b \in Borrower, ReturnBroken(b)
  PROVE  IInv'
<1> USE DEF IInv, Safe
<1> DEFINE c == held[b]
           new == New(1)[1]
<1>1. /\ bpc[b] = "hold" /\ c \in Conn /\ held' = [held EXCEPT ![b] = NoConn]
      /\ UNCHANGED <<flags, mutex, timed, opc>>
      /\ bpc' \in [Borrower -> BorrowerPC] /\ hpc' \in HealthPC
      /\ held' \in [Borrower -> Conn \cup {NoConn}]
      /\ \A a \in Borrower : bpc'[a] = "hold" <=> bpc[a] = "hold" /\ a # b
      /\ \A a \in Borrower : bpc'[a] = "hold" <=> held'[a] # NoConn
      /\ \A d \in Conn : Lent(d) => d = c \/ Lent(d)'
  BY HandsEmptied DEF ReturnBroken
<1>2. new \in Conn /\ state[new] = "unused"
  BY NewOne DEF ReturnBroken, Fresh
<1> HIDE DEF new
<1>3. /\ ~shutdown /\ c \in allConnections /\ availableConnections \in Seq(Conn)
      /\ state' = [state EXCEPT ![new] = "up"] /\ state[c] = "down"
      /\ availableConnections' = Append(availableConnections, new)
      /\ allConnections' = (allConnections \ {c}) \cup {new}
  BY DEF ReturnBroken, Replaced, TypeOK, new
<1>4. /\ new \notin InQueue(availableConnections) \cup allConnections /\ new # NoConn
      /\ \A a \in Borrower : held[a] # new
  BY <1>2, DbPoolAssumption DEF Opened
<1>5. /\ availableConnections' \in Seq(Conn)
      /\ InQueue(availableConnections') = InQueue(availableConnections) \cup {new}
      /\ Distinct(availableConnections')
  BY <1>2, <1>3, <1>4, QueueAppend DEF OneHolder, Distinct
<1>6. state' \in [Conn -> {"unused", "up", "down"}] /\ state'[new] = "up"
      /\ \A d \in Conn \ {new} : state'[d] = state[d]
  BY <1>2, <1>3 DEF TypeOK
<1>7. TypeOK'
  BY <1>1, <1>2, <1>3, <1>5, <1>6 DEF TypeOK, flags
<1>8. OneHolder'
  <2>1. \A a \in Borrower : held'[a] \notin InQueue(availableConnections')
    BY <1>1, <1>4, <1>5, QueueMembers, DbPoolAssumption DEF OneHolder, TypeOK
  <2>2. \A a, d \in Borrower : held'[a] = held'[d] /\ held'[a] # NoConn => a = d
    BY <1>1 DEF OneHolder, TypeOK
  <2> QED
    BY <1>5, <2>1, <2>2 DEF OneHolder, Distinct
<1>9. Cardinality(allConnections') = Cardinality(allConnections)
  <2>1. IsFiniteSet(allConnections)
    BY DbPoolAssumption, FS_Subset DEF TypeOK
  <2>2. /\ IsFiniteSet(allConnections \ {c})
        /\ Cardinality(allConnections \ {c}) = Cardinality(allConnections) - 1
    BY <1>3, <2>1, FS_RemoveElement
  <2>3. /\ Cardinality(allConnections) \in Nat
        /\ Cardinality((allConnections \ {c}) \cup {new})
              = Cardinality(allConnections \ {c}) + 1
    BY <1>4, <2>1, <2>2, FS_AddElement, FS_CardinalityType
  <2> QED
    BY <1>3, <2>2, <2>3
<1>10. \A a \in Borrower : bpc'[a] = "hold" => held'[a] = held[a] /\ held[a] # c
  BY <1>1 DEF OneHolder, TypeOK
<1>11. c \notin InQueue(availableConnections)
  BY DEF OneHolder
<1>12. Accounted'
  BY <1>1, <1>3, <1>5, <1>9, <1>10, <1>11 DEF Accounted, flags
<1>13. Opened'
  BY <1>1, <1>2, <1>3, <1>5, <1>6, QueueMembers DEF Opened, TypeOK, flags
<1>14. NoneLeftOpen' /\ UpKnown' /\ Phases'
  <2>1. opc # "down" /\ opc' = opc
    BY <1>1, <1>3 DEF Phases
  <2>2. UpKnown'
    BY <1>1, <1>3, <1>5, <1>6, <2>1 DEF UpKnown, Closing, flags
  <2> QED
    BY <1>1, <1>9, <2>1, <2>2 DEF NoneLeftOpen, Phases, flags
<1> QED
  BY <1>7, <1>8, <1>12, <1>13, <1>14

-----------------------------------------------------------------------------
(* The network and the health check. *)

\* A connection that breaks stays where it is.
LEMMA LoseInv ==
  ASSUME IInv, NEW c \in Conn, LoseConnection(c)
  PROVE  IInv'
<1> USE DEF IInv, Safe
<1>1. /\ state[c] = "up" /\ state' = [state EXCEPT ![c] = "down"]
      /\ UNCHANGED <<availableConnections, allConnections, flags, mutex, bpc, timed, held,
                     hpc, opc>>
      /\ state' \in [Conn -> {"unused", "up", "down"}]
      /\ \A d \in Conn : state'[d] = state[d] \/ (d = c /\ state'[d] = "down")
  BY DEF LoseConnection, TypeOK
<1>2. TypeOK' /\ OneHolder' /\ Accounted'
  BY <1>1 DEF TypeOK, OneHolder, Accounted, flags
<1>3. Opened'
  BY <1>1, QueueMembers DEF Opened, TypeOK, flags
<1>4. NoneLeftOpen' /\ UpKnown' /\ Phases'
  BY <1>1 DEF NoneLeftOpen, UpKnown, Closing, Phases, Lent, flags
<1> QED
  BY <1>2, <1>3, <1>4

\* The health check connects again what is idle, and nothing else.
LEMMA CheckInv ==
  ASSUME IInv, Check, hpc' \in {hpc, "lock"}
  PROVE  IInv'
<1> USE DEF IInv, Safe
<1>1. /\ UNCHANGED <<availableConnections, allConnections, flags, mutex, people>>
      /\ state' \in [Conn -> {"unused", "up", "down"}]
      /\ \A d \in Conn : \/ state'[d] = state[d]
                         \/ /\ state'[d] = "up" /\ state[d] = "down"
                            /\ d \in InQueue(availableConnections)
  BY DEF Check, Checked, TypeOK
<1>2. TypeOK' /\ OneHolder' /\ Accounted'
  BY <1>1 DEF TypeOK, OneHolder, Accounted, flags, people, HealthPC
<1>3. Opened'
  BY <1>1, QueueMembers DEF Opened, TypeOK, people, flags
<1>4. NoneLeftOpen' /\ UpKnown' /\ Phases'
  <2>1. InQueue(<<>>) = {}
    BY DEF InQueue
  <2>2. NoneLeftOpen' /\ UpKnown'
    BY <1>1, <2>1 DEF NoneLeftOpen, UpKnown, Closing, Phases, people, flags, Lent
  <2> QED
    BY <1>1, <2>1, <2>2 DEF Phases, flags, people
<1> QED
  BY <1>2, <1>3, <1>4

\* The health-check thread between two checks.
LEMMA HealthInv ==
  ASSUME IInv, HealthTop \/ HealthSleep \/ HealthTimeout \/ HealthWakeup \/ HealthTick
  PROVE  IInv'
<1> USE DEF IInv
<1>1. /\ hpc' \in HealthPC /\ mutex' \in {mutex, Health, NoThread}
      /\ UNCHANGED <<pools, flags, people>>
  BY DEF HealthTop, HealthSleep, HealthTimeout, HealthWakeup, HealthTick, TypeOK, HealthPC
<1>2. TypeOK'
  BY <1>1 DEF TypeOK, pools, flags, people
<1>3. Safe'
  BY <1>1, QuietStep DEF flags, leftovers, people
<1> QED
  BY <1>2, <1>3

-----------------------------------------------------------------------------
(* The owner. *)

\* What the calls of initialize have recorded: one more call opens m at most.
LEMMA OneCallMore ==
  ASSUME NEW k \in Nat, NEW t \in Nat, NEW m \in Nat, NEW n \in Nat,
         n <= m, k <= t * m
  PROVE  /\ k + n <= (t + 1) * m
         /\ k <= (t + 1) * m
<1>1. t * m \in Nat /\ (t + 1) * m = t * m + m
  OBVIOUS
<1> DEFINE p == t * m
           r == (t + 1) * m
<1>2. p \in Nat /\ r = p + m /\ k <= p
  BY <1>1
<1> HIDE DEF p, r
<1>3. k + n <= r /\ k <= r
  BY <1>2
<1> QED
  BY <1>3 DEF r

\* A call of initialize that queues n new connections and records the first r of them.
LEMMA OpenInv ==
  ASSUME TypeOK, OneHolder, Opened, NEW n \in MayOpen, NEW r \in {n, n - 1}, r \in Nat,
         Open(New(n), r), UNCHANGED held
  PROVE  /\ availableConnections' \in Seq(Conn) /\ allConnections' \subseteq Conn
         /\ state' \in [Conn -> {"unused", "up", "down"}]
         /\ OneHolder'
         /\ InQueue(availableConnections') = InQueue(availableConnections) \cup InQueue(New(n))
         /\ InQueue(New(n)) \subseteq Conn
         /\ allConnections \subseteq allConnections'
         /\ r = n => InQueue(New(n)) \subseteq allConnections'
         /\ r = n - 1 => /\ New(n)[n] \in InQueue(New(n))
                         /\ InQueue(New(n)) \subseteq allConnections' \cup {New(n)[n]}
         /\ \A c \in Conn : state'[c] = IF c \in InQueue(New(n)) THEN "up" ELSE state[c]
         /\ \A c \in InQueue(New(n)) : state[c] = "unused"
         /\ allConnections' \subseteq allConnections \cup InQueue(New(n))
         /\ Cardinality(allConnections') <= Cardinality(allConnections) + n
         /\ availableConnections' = <<>> =>
              n = 0 /\ allConnections' = allConnections /\ state' = state
<1> DEFINE q == New(n)
           W == {q[i] : i \in 1..r}
<1>1. /\ n \in Nat /\ q \in Seq(Conn) /\ Len(q) = n /\ Distinct(q)
      /\ InQueue(q) \subseteq Fresh
      /\ IsFiniteSet(InQueue(q)) /\ Cardinality(InQueue(q)) = n
  BY NewMany
<1>2. /\ availableConnections' = availableConnections \o q
      /\ allConnections' = allConnections \cup W
      /\ state' = [c \in Conn |-> IF c \in InQueue(q) THEN "up" ELSE state[c]]
  BY DEF Open
<1> HIDE DEF q
<1>3. /\ InQueue(q) \subseteq Conn /\ \A c \in InQueue(q) : state[c] = "unused"
      /\ availableConnections \in Seq(Conn) /\ W \subseteq InQueue(q)
      /\ r = n => W = InQueue(q)
  BY <1>1 DEF Fresh, InQueue, TypeOK
<1>4. r = n - 1 => q[n] \in InQueue(q) /\ InQueue(q) \subseteq W \cup {q[n]}
  <2> SUFFICES ASSUME r = n - 1
               PROVE  q[n] \in InQueue(q) /\ InQueue(q) \subseteq W \cup {q[n]}
    OBVIOUS
  <2>1. n \in 1..Len(q) /\ \A i \in 1..Len(q) : i = n \/ i \in 1..r
    BY <1>1
  <2> QED
    BY <2>1 DEF InQueue
<1>5. InQueue(availableConnections) \cap InQueue(q) = {}
  BY <1>3 DEF Opened
<1>6. /\ availableConnections' \in Seq(Conn)
      /\ InQueue(availableConnections') = InQueue(availableConnections) \cup InQueue(q)
      /\ Distinct(availableConnections')
  <2>1. Distinct(availableConnections)
    BY DEF OneHolder, Distinct
  <2> QED
    BY <1>1, <1>2, <1>3, <1>5, <2>1, QueueConcat
<1>7. OneHolder'
  <2>1. ASSUME NEW b \in Borrower PROVE held[b] \notin InQueue(q)
    BY <1>3, DbPoolAssumption DEF Opened
  <2> QED
    BY <1>6, <2>1 DEF OneHolder, Distinct
<1>8. /\ state' \in [Conn -> {"unused", "up", "down"}]
      /\ \A c \in Conn : state'[c] = IF c \in InQueue(q) THEN "up" ELSE state[c]
  BY <1>2 DEF TypeOK
<1>9. Cardinality(allConnections') <= Cardinality(allConnections) + n
  <2>1. IsFiniteSet(allConnections) /\ IsFiniteSet(W) /\ Cardinality(W) <= n
    BY <1>1, <1>3, DbPoolAssumption, FS_Subset DEF TypeOK
  <2>2. /\ Cardinality(allConnections \cup W) = Cardinality(allConnections) + Cardinality(W)
                                                 - Cardinality(allConnections \cap W)
        /\ IsFiniteSet(allConnections \cap W)
    BY <2>1, FS_Union, FS_Intersection
  <2>3. /\ Cardinality(allConnections) \in Nat /\ Cardinality(W) \in Nat
        /\ Cardinality(allConnections \cap W) \in Nat
    BY <2>1, <2>2, FS_CardinalityType
  <2> QED
    BY <1>1, <1>2, <2>1, <2>2, <2>3
<1>10. availableConnections' = <<>> => n = 0 /\ allConnections' = allConnections /\ state' = state
  <2> SUFFICES ASSUME availableConnections' = <<>>
               PROVE  n = 0 /\ allConnections' = allConnections /\ state' = state
    OBVIOUS
  <2>1. InQueue(q) = {}
    BY <1>6 DEF InQueue
  <2>2. n = 0
    BY <1>1, <2>1, FS_EmptySet
  <2> QED
    BY <1>2, <1>3, <1>8, <2>1, <2>2 DEF TypeOK
<1> QED
  BY <1>2, <1>3, <1>4, <1>6, <1>7, <1>8, <1>9, <1>10 DEF q, TypeOK

\* initialize puts as many new connections in the queue and on record as came up, and
\* leaves the phase "new" if the queue has one.
LEMMA InitializeInv == ASSUME IInv, Initialize PROVE IInv'
<1> USE DEF IInv, Safe
<1>1. PICK n \in MayOpen :
        /\ opc = "new" /\ Open(New(n), n)
        /\ \/ availableConnections' = <<>> /\ UNCHANGED <<hpc, healthCheckRunning, opc>>
           \/ /\ availableConnections' # <<>>
              /\ hpc' = "lock" /\ healthCheckRunning' = TRUE /\ opc' = "up"
        /\ UNCHANGED <<shutdown, leftovers, mutex, bpc, timed, held>>
  BY DEF Initialize
<1> DEFINE q == New(n)
<1>2. n \in Nat /\ n <= maxConnections
  BY NewMany
<1>3. /\ availableConnections' \in Seq(Conn) /\ allConnections' \subseteq Conn
      /\ state' \in [Conn -> {"unused", "up", "down"}]
      /\ OneHolder'
      /\ InQueue(availableConnections') = InQueue(availableConnections) \cup InQueue(q)
      /\ InQueue(q) \subseteq Conn
      /\ allConnections \subseteq allConnections'
      /\ InQueue(q) \subseteq allConnections'
      /\ \A c \in Conn : state'[c] = IF c \in InQueue(q) THEN "up" ELSE state[c]
      /\ allConnections' \subseteq allConnections \cup InQueue(q)
      /\ Cardinality(allConnections') <= Cardinality(allConnections) + n
      /\ availableConnections' = <<>> =>
           n = 0 /\ allConnections' = allConnections /\ state' = state
  BY <1>1, <1>2, OpenInv
<1> HIDE DEF q
<1>4. TypeOK'
  BY <1>1, <1>3 DEF TypeOK, leftovers, HealthPC, OwnerPC
<1>5. /\ ~shutdown /\ opc # "down" /\ opc' # "down"
      /\ (shutdown' <=> opc' \notin {"new", "up"})
  BY <1>1 DEF Phases
<1>6. Cardinality(allConnections) <= thrown * maxConnections /\ thrown \in Nat
      /\ maxConnections \in Nat /\ Cardinality(allConnections) \in Nat
      /\ Cardinality(allConnections') \in Nat
  BY <1>1, <1>2, <1>3, DbPoolAssumption, FS_Subset, FS_CardinalityType DEF Phases, TypeOK
<1>7. Cardinality(allConnections) + n <= (thrown + 1) * maxConnections
  BY <1>2, <1>6, OneCallMore
<1>8. (thrown + 1) * maxConnections \in Nat
  BY <1>6
<1>9. Cardinality(allConnections') <= (thrown + 1) * maxConnections
  <2> DEFINE t == (thrown + 1) * maxConnections
  <2>1. t \in Nat /\ Cardinality(allConnections) + n <= t
    BY <1>7, <1>8
  <2> HIDE DEF t
  <2>2. Cardinality(allConnections') <= t
    BY <1>2, <1>3, <1>6, <2>1
  <2> QED
    BY <2>2 DEF t
<1>10. Accounted'
  BY <1>1, <1>3, <1>5, <1>9 DEF Accounted, leftovers
<1>11. Opened'
  <2>1. \A d \in Conn : state[d] # "unused" => state'[d] # "unused"
    BY <1>3
  <2>2. \A d \in InQueue(q) : state'[d] # "unused"
    BY <1>3
  <2>3. /\ InQueue(availableConnections) \subseteq Conn
        /\ allConnections \cup offRecord \subseteq Conn
        /\ \A b \in Borrower : held[b] # NoConn => held[b] \in Conn
    BY QueueMembers DEF TypeOK
  <2>4. UNCHANGED <<held, offRecord>>
    BY <1>1 DEF leftovers
  <2> QED
    BY <1>3, <2>1, <2>2, <2>3, <2>4 DEF Opened
<1>12. UpKnown' /\ NoneLeftOpen'
  BY <1>1, <1>3, <1>5 DEF UpKnown, NoneLeftOpen, Closing, Lent, leftovers
<1>13. Phases'
  BY <1>1, <1>3, <1>5 DEF Phases, leftovers
<1> QED
  BY <1>3, <1>4, <1>10, <1>11, <1>12, <1>13

\* An exception leaves what was opened, all of it on record but for one connection, and the
\* phase is still "new".
LEMMA InitializeThrowsInv == ASSUME IInv, InitializeThrows PROVE IInv'
<1> USE DEF IInv, Safe
<1>1. PICK n \in MayOpen :
        /\ opc = "new"
        /\ \/ Open(New(n), n) /\ UNCHANGED offRecord
           \/ n > 0 /\ Open(New(n), n - 1) /\ offRecord' = offRecord \cup {New(n)[n]}
        /\ healthCheckRunning' \in {healthCheckRunning, TRUE}
        /\ IF n = 0 THEN UNCHANGED thrown ELSE thrown' = thrown + 1
        /\ UNCHANGED <<shutdown, mutex, bpc, timed, held, hpc, opc>>
  BY DEF InitializeThrows
<1> DEFINE q == New(n)
<1>2. n \in Nat /\ n <= maxConnections
  BY NewMany
<1>3. /\ availableConnections' \in Seq(Conn) /\ allConnections' \subseteq Conn
      /\ state' \in [Conn -> {"unused", "up", "down"}]
      /\ OneHolder'
      /\ InQueue(availableConnections') = InQueue(availableConnections) \cup InQueue(q)
      /\ InQueue(q) \subseteq Conn
      /\ allConnections \subseteq allConnections'
      /\ InQueue(q) \subseteq allConnections' \cup offRecord'
      /\ \A c \in Conn : state'[c] = IF c \in InQueue(q) THEN "up" ELSE state[c]
      /\ allConnections' \subseteq allConnections \cup InQueue(q)
      /\ Cardinality(allConnections') <= Cardinality(allConnections) + n
      /\ \/ UNCHANGED offRecord
         \/ n > 0 /\ q[n] \in InQueue(q) /\ offRecord' = offRecord \cup {q[n]}
  <2>1. CASE Open(New(n), n) /\ UNCHANGED offRecord
    BY <1>1, <1>2, <2>1, OpenInv
  <2>2. CASE n > 0 /\ Open(New(n), n - 1) /\ offRecord' = offRecord \cup {New(n)[n]}
    <3>1. n - 1 \in Nat
      BY <1>2, <2>2
    <3> QED
      BY <1>1, <1>2, <2>2, <3>1, OpenInv
  <2> QED
    BY <1>1, <2>1, <2>2
<1> HIDE DEF q
<1>4. /\ thrown \in Nat /\ thrown' \in Nat
      /\ n = 0 => thrown' = thrown
      /\ n # 0 => thrown' = thrown + 1
  BY <1>1 DEF TypeOK
<1>5. TypeOK'
  BY <1>1, <1>3, <1>4 DEF TypeOK
<1>6. ~shutdown /\ (shutdown' <=> opc' \notin {"new", "up"})
  BY <1>1 DEF Phases
<1>7. Cardinality(allConnections) <= thrown * maxConnections
      /\ maxConnections \in Nat /\ Cardinality(allConnections) \in Nat
      /\ Cardinality(allConnections') \in Nat
  BY <1>1, <1>2, <1>3, DbPoolAssumption, FS_Subset, FS_CardinalityType DEF Phases, TypeOK
<1>8. Cardinality(allConnections') <= thrown' * maxConnections
  <2>1. CASE n = 0
    <3> DEFINE t == thrown * maxConnections
    <3>1. t \in Nat /\ Cardinality(allConnections) <= t /\ thrown' = thrown
      BY <1>4, <1>7, <2>1
    <3> HIDE DEF t
    <3>2. Cardinality(allConnections') <= t
      BY <1>3, <1>7, <2>1, <3>1
    <3> QED
      BY <3>1, <3>2 DEF t
  <2>2. CASE n # 0
    <3> DEFINE t == (thrown + 1) * maxConnections
    <3>1. Cardinality(allConnections) + n <= t
      BY <1>2, <1>4, <1>7, OneCallMore
    <3>2. t \in Nat
      BY <1>4, <1>7
    <3> HIDE DEF t
    <3>3. Cardinality(allConnections') <= t
      BY <1>2, <1>3, <1>7, <3>1, <3>2
    <3> QED
      BY <1>4, <2>2, <3>3 DEF t
  <2> QED
    BY <2>1, <2>2
<1>9. Cardinality(allConnections') <= (thrown' + 1) * maxConnections
  BY <1>4, <1>7, <1>8, OneCallMore
<1>10. Cardinality(offRecord') <= thrown'
  <2>1. IsFiniteSet(offRecord) /\ Cardinality(offRecord) \in Nat /\ Cardinality(offRecord) <= thrown
    BY DbPoolAssumption, FS_Subset, FS_CardinalityType DEF TypeOK, Accounted
  <2>2. CASE UNCHANGED offRecord
    BY <1>4, <2>1, <2>2
  <2>3. CASE n > 0 /\ offRecord' = offRecord \cup {q[n]}
    <3>1. Cardinality(offRecord') <= Cardinality(offRecord) + 1
      <4> DEFINE x == q[n]
      <4>1. offRecord' = offRecord \cup {x}
        BY <2>3
      <4> HIDE DEF x
      <4>2. CASE x \in offRecord
        <5>1. offRecord' = offRecord
          BY <4>1, <4>2
        <5>2. Cardinality(offRecord) <= Cardinality(offRecord) + 1
          BY <2>1
        <5> QED
          BY <5>1, <5>2
      <4>3. CASE x \notin offRecord
        <5>1. Cardinality(offRecord') = Cardinality(offRecord) + 1
          BY <2>1, <4>1, <4>3, FS_AddElement
        <5> QED
          BY <2>1, <5>1
      <4> QED
        BY <4>2, <4>3
    <3>2. Cardinality(offRecord') \in Nat
      BY <1>5, DbPoolAssumption, FS_Subset, FS_CardinalityType DEF TypeOK
    <3> QED
      BY <1>2, <1>4, <2>1, <2>3, <3>1, <3>2
  <2> QED
    BY <1>3, <2>2, <2>3
<1>11. offRecord \subseteq offRecord' /\ offRecord' \subseteq offRecord \cup InQueue(q)
  BY <1>3
<1>12. Accounted'
  BY <1>1, <1>3, <1>6, <1>9, <1>10, <1>11 DEF Accounted
<1>13. Opened'
  <2>1. \A d \in Conn : state[d] # "unused" => state'[d] # "unused"
    BY <1>3
  <2>2. \A d \in InQueue(q) : state'[d] # "unused"
    BY <1>3
  <2>3. /\ InQueue(availableConnections) \subseteq Conn
        /\ allConnections \cup offRecord \subseteq Conn
        /\ \A b \in Borrower : held[b] # NoConn => held[b] \in Conn
    BY QueueMembers DEF TypeOK
  <2> QED
    BY <1>1, <1>3, <1>11, <2>1, <2>2, <2>3 DEF Opened
<1>14. UpKnown' /\ NoneLeftOpen'
  BY <1>1, <1>3, <1>6, <1>11 DEF UpKnown, NoneLeftOpen, Closing, Lent
<1>15. Phases'
  BY <1>1, <1>6, <1>8 DEF Phases
<1> QED
  BY <1>3, <1>5, <1>12, <1>13, <1>14, <1>15

\* shutdown, up to the moment the connections are closed.
LEMMA StopInv ==
  ASSUME IInv, ShutdownCall \/ StopHealthCheck \/ NotifyAll \/ JoinHealth
  PROVE  IInv'
<1> USE DEF IInv
<1>1. CASE ShutdownCall
  <2>1. /\ opc \in {"new", "up"} /\ shutdown' = TRUE /\ opc' \in {"stop", "close"}
        /\ UNCHANGED <<pools, healthCheckRunning, leftovers, mutex, bpc, timed, held, hpc>>
    BY <1>1 DEF ShutdownCall
  <2>2. TypeOK'
    BY <2>1 DEF TypeOK, pools, leftovers, OwnerPC
  <2>3. OneHolder' /\ Accounted' /\ Opened'
    BY <2>1 DEF Safe, OneHolder, Accounted, Opened, pools, leftovers
  <2>4. NoneLeftOpen' /\ UpKnown' /\ Phases'
    BY <2>1 DEF Safe, NoneLeftOpen, UpKnown, Closing, Lent, Phases, pools, leftovers
  <2> QED
    BY <2>2, <2>3, <2>4 DEF Safe
<1>2. CASE StopHealthCheck \/ NotifyAll \/ JoinHealth
  <2>1. /\ {opc, opc'} \subseteq {"stop", "notify", "join", "close"}
        /\ UNCHANGED <<pools, shutdown, leftovers, mutex, timed, held>>
        /\ healthCheckRunning' \in BOOLEAN /\ hpc' \in HealthPC
        /\ bpc' \in [Borrower -> BorrowerPC]
        /\ \A b \in Borrower : bpc'[b] = "hold" <=> bpc[b] = "hold"
    BY <1>2 DEF StopHealthCheck, NotifyAll, JoinHealth, Clear, flags, leftovers, TypeOK,
              BorrowerPC, HealthPC
  <2>2. TypeOK'
    BY <2>1 DEF TypeOK, pools, leftovers, OwnerPC
  <2>3. Safe'
    BY <2>1, QuietStep DEF leftovers
  <2> QED
    BY <2>2, <2>3
<1> QED
  BY <1>1, <1>2

\* shutdown closes what is idle and what is on record: all that is open.
LEMMA CloseInv == ASSUME IInv, CloseConnections PROVE IInv'
<1> USE DEF IInv, Safe
<1>1. /\ opc = "close" /\ opc' = "down"
      /\ state' = [c \in Conn |-> IF c \in Closing THEN "down" ELSE state[c]]
      /\ availableConnections' = <<>> /\ allConnections' = {}
      /\ UNCHANGED <<flags, mutex, bpc, timed, held, hpc>>
  BY DEF CloseConnections
<1>2. /\ state' \in [Conn -> {"unused", "up", "down"}]
      /\ \A c \in Conn : state'[c] = IF c \in Closing THEN "down" ELSE state[c]
      /\ <<>> \in Seq(Conn) /\ Len(<<>>) = 0 /\ InQueue(<<>>) = {}
  BY <1>1 DEF TypeOK, InQueue
<1>3. shutdown /\ shutdown'
  BY <1>1 DEF Phases, flags
<1>4. TypeOK'
  BY <1>1, <1>2 DEF TypeOK, OwnerPC, flags
<1>5. OneHolder'
  BY <1>1, <1>2 DEF OneHolder
<1>6. Accounted'
  <2>1. Cardinality(allConnections') = 0
    BY <1>1, FS_EmptySet
  <2>2. thrown \in Nat /\ maxConnections \in Nat
    BY DbPoolAssumption, FS_CardinalityType DEF TypeOK
  <2>3. (thrown + 1) * maxConnections \in Nat
    BY <2>2
  <2>4. 0 <= (thrown + 1) * maxConnections
    BY <2>3
  <2> QED
    BY <1>1, <1>3, <2>1, <2>4 DEF Accounted, flags
<1>7. NoneLeftOpen' /\ UpKnown' /\ Phases'
  BY <1>1, <1>2, <1>3 DEF NoneLeftOpen, UpKnown, Phases, Lent, flags
<1>8. Opened'
  BY <1>1, <1>2 DEF Opened, TypeOK, flags
<1> QED
  BY <1>4, <1>5, <1>6, <1>7, <1>8

-----------------------------------------------------------------------------
\* The invariant is inductive.
LEMMA NextInv == ASSUME IInv, [Next]_vars PROVE IInv'
<1>1. ASSUME NEW b \in Borrower,
             \/ \E t \in BOOLEAN : GetCall(b, t)
             \/ GetStep(b) \/ GetTimeout(b) \/ SpuriousWakeup(b)
      PROVE  IInv'
  BY <1>1, WaitInv, TakeInv DEF GetStep
<1>2. ASSUME NEW b \in Borrower, ReturnStep(b) PROVE IInv'
  BY <1>2, DiscardInv, ReturnConnectedInv, ReturnBrokenInv DEF ReturnStep
<1>3. ASSUME NEW c \in Conn, LoseConnection(c) PROVE IInv'
  BY <1>3, LoseInv
<1>4. CASE HealthStep \/ HealthWakeup \/ HealthCheckCall
  BY <1>4, HealthInv, CheckInv DEF HealthStep, HealthCheck, HealthCheckCall
<1>5. CASE Initialize \/ InitializeThrows \/ ShutdownCall \/ OwnerStep
  BY <1>5, InitializeInv, InitializeThrowsInv, StopInv, CloseInv DEF OwnerStep
<1>6. CASE UNCHANGED vars
  BY <1>6 DEF vars, IInv, Safe, TypeOK, OneHolder, Accounted, NoneLeftOpen, Opened, UpKnown,
              Phases, Closing, Lent
<1> QED
  BY <1>1, <1>2, <1>3, <1>4, <1>5, <1>6 DEF Next

\* Where every connection is, at all times: idle, lent once, on record until shutdown.
THEOREM Invariance == Spec => []IInv
<1>1. Init => IInv
  BY InitInv
<1>2. IInv /\ [Next]_vars => IInv'
  BY NextInv
<1> QED
  BY <1>1, <1>2, PTL DEF Spec

\* Every variable of the pool stays in its range.
THEOREM TypeCorrect == Spec => []TypeOK
<1>1. IInv => TypeOK
  BY DEF IInv
<1> QED
  BY <1>1, Invariance, PTL

\* No connection is in two hands: neither two borrowers of getConnection have it, nor a
\* borrower and the queue, nor two places of the queue.
THEOREM NeverInTwoHands == Spec => []OneHolder
<1>1. IInv => OneHolder
  BY DEF IInv, Safe
<1> QED
  BY <1>1, Invariance, PTL

\* What is lent or idle is in allConnections_, of no more than maxConnections_, through any
\* replacements of broken connections; and each call of initialize that an exception has
\* ended puts at most one connection aside and adds at most maxConnections_.
THEOREM NothingOffRecord == Spec => []Accounted
<1>1. IInv => Accounted
  BY DEF IInv, Safe
<1> QED
  BY <1>1, Invariance, PTL

\* After shutdown no connection is open, the ones lent at the time included, but for one that
\* an exception in initialize has kept off the record and whose borrower still has it.
THEOREM AllClosed == Spec => []NoneLeftOpen
<1>1. IInv => NoneLeftOpen
  BY DEF IInv, Safe
<1> QED
  BY <1>1, Invariance, PTL

\* M13: nobody connects again a connection that broke while it was lent: the health
\* check works on the queue, and a replacement and what initialize opens are objects never
\* used.
THEOREM BorrowedLeftAlone == Spec => HealthSparesBorrowed
<1> DEFINE Spared == \A b \in Borrower :
                       bpc[b] = "hold" /\ state[held[b]] = "down" => state'[held[b]] = "down"
<1>1. ASSUME IInv, [Next]_vars PROVE Spared
  <2> SUFFICES ASSUME NEW b \in Borrower, bpc[b] = "hold", state[held[b]] = "down"
               PROVE  state'[held[b]] = "down"
    OBVIOUS
  <2> DEFINE c == held[b]
  <2>1. c \in Conn /\ c \notin InQueue(availableConnections) /\ state[c] = "down"
    BY <1>1 DEF IInv, Safe, TypeOK, OneHolder
  <2>2. CASE UNCHANGED state
    BY <2>2
  <2>3. ASSUME NEW a \in Borrower, ReturnAfterShutdown(a) \/ ReturnUnknown(a)
        PROVE  state'[c] = "down"
    BY <1>1, <2>1, <2>3 DEF ReturnAfterShutdown, ReturnUnknown, IInv, TypeOK
  <2>4. ASSUME NEW a \in Borrower, ReturnBroken(a) PROVE state'[c] = "down"
    <3>1. New(1)[1] \in Fresh
      BY <2>4, NewOne DEF ReturnBroken
    <3>2. New(1)[1] # c
      BY <3>1 DEF Fresh
    <3> QED
      BY <1>1, <2>1, <2>4, <3>2 DEF ReturnBroken, IInv, TypeOK
  <2>5. ASSUME NEW d \in Conn, LoseConnection(d) PROVE state'[c] = "down"
    BY <1>1, <2>1, <2>5 DEF LoseConnection, IInv, TypeOK
  <2>6. CASE Check
    BY <2>1, <2>6 DEF Check, Checked
  <2>7. CASE CloseConnections
    BY <2>1, <2>7 DEF CloseConnections
  <2>8. CASE Initialize \/ InitializeThrows
    <3>1. PICK n \in MayOpen : \E r \in {n, n - 1} : Open(New(n), r)
      BY <2>8 DEF Initialize, InitializeThrows
    <3>2. c \notin InQueue(New(n))
      BY <2>1, NewMany DEF Fresh
    <3> QED
      BY <2>1, <3>1, <3>2 DEF Open
  <2>9. \/ UNCHANGED state
        \/ \E a \in Borrower : ReturnAfterShutdown(a) \/ ReturnUnknown(a) \/ ReturnBroken(a)
        \/ Initialize \/ InitializeThrows
        \/ \E d \in Conn : LoseConnection(d)
        \/ Check \/ CloseConnections
    BY <1>1, <2>1 DEF Next, vars, pools, GetCall, GetStep, Take, GiveUp, NotReady, GetSleep,
         GetTimeout, SpuriousWakeup, ReturnStep, ReturnConnected, ReturnIgnored, HealthStep,
         HealthTop, HealthSleep, HealthTimeout, HealthTick, HealthCheck, HealthWakeup,
         HealthCheckCall, ShutdownCall, OwnerStep, StopHealthCheck, NotifyAll,
         JoinHealth
  <2> QED
    BY <2>2, <2>3, <2>4, <2>5, <2>6, <2>7, <2>8, <2>9
<1>2. IInv /\ [Next]_vars => [Spared]_vars
  BY <1>1
<1> QED
  BY <1>2, Invariance, PTL DEF Spec, HealthSparesBorrowed
=============================================================================
