--------------------------- MODULE SessionsProofs ---------------------------
(***************************************************************************)
(* Proofs about Sessions, for any ids, any number of requests under way    *)
(* and any lifetime of a session.                                          *)
(***************************************************************************)
EXTENDS Sessions, TLAPS

\* What is known of a request: whoever erases an expired session holds sessionsMutex_,
\* and as only its holder hands sessions out, the session has not been handed out since;
\* between getSession and remainingTime no second passes; a cookie under way has a whole
\* expiration time.
Request(w) ==
  /\ mutex = w <=> worker[w].at = "erase"
  /\ worker[w].at \in {"erase", "remaining", "handler", "answer"} => worker[w].id \in Id
  /\ worker[w].at = "erase" => granted[worker[w].id] = Expiration
  /\ worker[w].at = "remaining" => age[worker[w].id] = 0
  /\ worker[w].at \in {"handler", "answer"} => worker[w].maxAge = Expiration

\* What is known of the cleanup thread, likewise; there is one at most.
Scan ==
  /\ owner = "down" => cleaner.at = "exited"
  /\ mutex = Cleaner <=> cleaner.at \in {"scan", "erase"}
  /\ cleaner.at = "erase" => cleaner.todo # {} /\ granted[Looked] = Expiration

\* Handing a session out touches it, so it is no younger for the cookie than for the table.
TouchedLast == \A i \in Id : age[i] <= granted[i]

\* The browser's cookie lasts as long as the session, or its successor is on its way, or
\* was lost.
Underway(w) ==
  worker[w].at \in {"remaining", "handler", "answer"} /\ worker[w].id = jar.id
CookieCovered ==
  jar.id \in sessions /\ ~missed =>
    jar.left >= Expiration - granted[jar.id] \/ \E w \in Worker : Underway(w)

IInv == TypeOK /\ (\A w \in Worker : Request(w)) /\ Scan /\ TouchedLast /\ CookieCovered

-----------------------------------------------------------------------------
(* How a step of a request changes what is known of it. *)

LEMMA NewRequest ==
  ASSUME TypeOK, NEW w \in Worker, NEW k \in Requests, worker' = [worker EXCEPT ![w] = k]
  PROVE  /\ worker' \in [Worker -> Requests] /\ worker'[w] = k
         /\ \A v \in Worker \ {w} : worker'[v] = worker[v]
BY DEF TypeOK

LEMMA Moves ==
  ASSUME TypeOK, NEW w \in Worker, NEW p \in Places, Goes(w, p)
  PROVE  /\ worker' \in [Worker -> Requests]
         /\ worker'[w].at = p
         /\ worker'[w].id = worker[w].id /\ worker'[w].maxAge = worker[w].maxAge
         /\ \A v \in Worker \ {w} : worker'[v] = worker[v]
<1>1. worker \in [Worker -> Requests] /\ worker[w] \in Requests
  BY DEF TypeOK
<1> DEFINE k == [worker[w] EXCEPT !.at = p]
<1>2. k \in Requests /\ k.at = p /\ k.id = worker[w].id /\ k.maxAge = worker[w].maxAge
  BY <1>1 DEF Requests
<1>3. worker' = [worker EXCEPT ![w] = k]
  BY DEF Goes
<1> HIDE DEF k
<1> QED
  BY <1>1, <1>2, <1>3

LEMMA PlaceNames ==
  {"idle", "get", "erase", "create", "remaining", "handler", "answer"} \subseteq Places
BY DEF Places

\* The other requests and the cleanup thread: they lose nothing as long as sessions are
\* handed out only when nobody holds the mutex, and touched only to make them younger.
LEMMA Others ==
  ASSUME IInv, NEW w \in Worker, NEW v \in Worker, v # w, worker'[v] = worker[v],
         \/ mutex' = mutex
         \/ {mutex, mutex'} \subseteq {w, NoThread},
         granted' = granted \/ mutex = NoThread,
         \A i \in Id : age'[i] \in {age[i], 0}
  PROVE  Request(v)'
<1>1. v # NoThread /\ Request(v)
  BY SessionsAssumption DEF IInv
<1> QED
  BY <1>1 DEF Request

LEMMA ScanKept ==
  ASSUME IInv, NEW w \in Worker, UNCHANGED <<cleaner, owner>>,
         \/ mutex' = mutex
         \/ {mutex, mutex'} \subseteq {w, NoThread},
         granted' = granted \/ mutex = NoThread
  PROVE  Scan'
BY SessionsAssumption DEF IInv, Scan, Looked

\* The cookie and the requests that bring its successor.
LEMMA CookieKept ==
  ASSUME IInv, UNCHANGED <<jar, missed, granted>>, sessions' \subseteq sessions,
         \A w \in Worker : Underway(w) => Underway(w)'
  PROVE  CookieCovered'
BY DEF IInv, CookieCovered

-----------------------------------------------------------------------------
\* Nothing has happened yet.
LEMMA InitInv == Init => IInv
<1> SUFFICES ASSUME Init PROVE IInv
  OBVIOUS
<1>1. TypeOK
  <2>1. Expiration \in Ages /\ 0 \in Ages
    BY SessionsAssumption DEF Ages
  <2>2. /\ [at |-> "idle", id |-> NoId, maxAge |-> 0] \in Requests
        /\ [id |-> NoId, left |-> 0] \in Cookies /\ [at |-> "exited", todo |-> {}] \in Cleaners
    BY <2>1 DEF Requests, Cookies, Cleaners, Places
  <2> QED
    BY <2>1, <2>2 DEF Init, TypeOK, Threads
<1>2. ASSUME NEW w \in Worker PROVE Request(w)
  <2>1. worker[w].at = "idle" /\ mutex # w
    BY SessionsAssumption DEF Init
  <2> QED
    BY <2>1 DEF Request
<1>3. Scan /\ TouchedLast /\ CookieCovered
  BY SessionsAssumption DEF Init, Scan, TouchedLast, CookieCovered
<1> QED
  BY <1>1, <1>2, <1>3 DEF IInv

-----------------------------------------------------------------------------
(* The steps of a request. *)

\* A request comes in with the browser's cookie, or finds no session.
LEMMA ArriveInv == ASSUME IInv, NEW w \in Worker, Arrive(w) PROVE IInv'
<1> USE DEF IInv
<1> DEFINE k == [[worker[w] EXCEPT !.at = "get"] EXCEPT !.id = jar.id]
<1>1. /\ worker[w].at = "idle" /\ worker' = [worker EXCEPT ![w] = k]
      /\ UNCHANGED <<sessions, age, mutex, jar, cleanup, granted, missed>>
  BY DEF Arrive, TypeOK
<1>2. worker[w] \in Requests /\ jar.id \in Id \cup {NoId}
  BY DEF TypeOK, Cookies
<1>3. k \in Requests /\ k.at = "get"
  <2> DEFINE k1 == [worker[w] EXCEPT !.at = "get"]
  <2>1. k1 \in Requests /\ k1.at = "get"
    BY <1>2, PlaceNames DEF Requests
  <2> HIDE DEF k1
  <2>2. [k1 EXCEPT !.id = jar.id] \in Requests /\ [k1 EXCEPT !.id = jar.id].at = "get"
    BY <1>2, <2>1 DEF Requests
  <2> QED
    BY <2>2 DEF k1
<1> HIDE DEF k
<1>4. /\ worker' \in [Worker -> Requests] /\ worker'[w].at = "get"
      /\ \A v \in Worker \ {w} : worker'[v] = worker[v]
  BY <1>1, <1>3, NewRequest
<1>5. TypeOK'
  BY <1>1, <1>4 DEF TypeOK, cleanup
<1>6. Request(w)'
  BY <1>1, <1>4 DEF Request
<1>7. ASSUME NEW v \in Worker, v # w PROVE Request(v)'
  BY <1>1, <1>4, <1>7, Others DEF TypeOK
<1>8. Scan' /\ TouchedLast'
  BY <1>1, ScanKept DEF cleanup, TouchedLast
<1>9. CookieCovered'
  BY <1>1, <1>4, CookieKept DEF Underway
<1> QED
  BY <1>5, <1>6, <1>7, <1>8, <1>9

\* getSession finds nothing, or something expired, which it then erases.
LEMMA GetNoneInv ==
  ASSUME IInv, NEW w \in Worker, GetNothing(w) \/ GetExpired(w) \/ EraseExpired(w)
  PROVE  IInv'
<1> USE DEF IInv
<1> DEFINE i == worker[w].id
<1>1. PICK p \in {"create", "erase"} :
        /\ Goes(w, p) /\ worker[w].at \in {"get", "erase"}
        /\ sessions' \subseteq sessions
        /\ UNCHANGED <<age, jar, cleanup, granted, missed>>
        /\ \/ p = "erase" /\ mutex = NoThread /\ mutex' = w /\ i \in sessions /\ IsExpired(i)
           \/ p = "create" /\ mutex \in {w, NoThread} /\ mutex' = NoThread
  BY DEF GetNothing, GetExpired, EraseExpired, MutexFree, Request
<1>2. /\ worker' \in [Worker -> Requests] /\ worker'[w].at = p /\ worker'[w].id = i
      /\ \A v \in Worker \ {w} : worker'[v] = worker[v]
  BY <1>1, Moves, PlaceNames
<1>3. p = "erase" => i \in Id /\ granted[i] = Expiration
  BY <1>1, SessionsAssumption DEF TypeOK, TouchedLast, IsExpired, Ages
<1>4. TypeOK'
  BY <1>1, <1>2 DEF TypeOK, cleanup, Threads
<1>5. Request(w)'
  BY <1>1, <1>2, <1>3, SessionsAssumption DEF Request
<1>6. ASSUME NEW v \in Worker, v # w PROVE Request(v)'
  BY <1>1, <1>2, <1>6, Others DEF TypeOK
<1>7. Scan' /\ TouchedLast'
  BY <1>1, ScanKept DEF cleanup, TouchedLast
<1>8. CookieCovered'
  <2>1. ASSUME NEW v \in Worker, Underway(v) PROVE Underway(v)'
    BY <1>1, <1>2, <2>1 DEF Underway
  <2> QED
    BY <1>1, <2>1, CookieKept
<1> QED
  BY <1>4, <1>5, <1>6, <1>7, <1>8

\* getSession hands a session out, young again.
LEMMA GetSessionInv == ASSUME IInv, NEW w \in Worker, GetSession(w) PROVE IInv'
<1> USE DEF IInv
<1> DEFINE i == worker[w].id
<1>1. /\ worker[w].at = "get" /\ mutex = NoThread /\ i \in Id
      /\ age' = [age EXCEPT ![i] = 0] /\ granted' = [granted EXCEPT ![i] = 0]
      /\ UNCHANGED <<sessions, mutex, jar, cleanup, missed>>
  BY DEF GetSession, MutexFree, Touch, Touched, Granted, TypeOK
<1>2. /\ worker' \in [Worker -> Requests] /\ worker'[w].at = "remaining" /\ worker'[w].id = i
      /\ \A v \in Worker \ {w} : worker'[v] = worker[v]
  BY Moves, PlaceNames DEF GetSession
<1>3. /\ age' \in [Id -> Ages] /\ granted' \in [Id -> Ages]
      /\ age'[i] = 0 /\ granted'[i] = 0
      /\ \A j \in Id \ {i} : age'[j] = age[j] /\ granted'[j] = granted[j]
  BY <1>1, SessionsAssumption DEF TypeOK, Ages
<1>4. TypeOK'
  BY <1>1, <1>2, <1>3 DEF TypeOK, cleanup
<1>5. Request(w)'
  BY <1>1, <1>2, <1>3, SessionsAssumption DEF Request
<1>6. ASSUME NEW v \in Worker, v # w PROVE Request(v)'
  BY <1>1, <1>2, <1>3, <1>6, Others
<1>7. Scan'
  BY <1>1, ScanKept DEF cleanup
<1>8. TouchedLast'
  BY <1>3 DEF TouchedLast
<1>9. CookieCovered'
  <2>1. ASSUME NEW v \in Worker, Underway(v) PROVE Underway(v)'
    BY <1>1, <1>2, <2>1 DEF Underway
  <2>2. CASE jar.id = i
    BY <1>1, <1>2, <2>2 DEF CookieCovered, Underway
  <2>3. CASE jar.id # i
    BY <1>1, <1>3, <2>1, <2>3 DEF CookieCovered, TypeOK
  <2> QED
    BY <2>2, <2>3
<1> QED
  BY <1>4, <1>5, <1>6, <1>7, <1>8, <1>9

\* A new session has an id that neither the table, nor the browser, nor any request has.
LEMMA CreateInv == ASSUME IInv, NEW w \in Worker, Create(w) PROVE IInv'
<1> USE DEF IInv
<1> DEFINE i == CHOOSE j \in Id : Unknown(j)
           k == [at |-> "handler", id |-> i, maxAge |-> Expiration]
<1>1. /\ i \in Id /\ Unknown(i)
      /\ worker[w].at = "create" /\ mutex = NoThread
      /\ sessions' = sessions \cup {i}
      /\ age' = [age EXCEPT ![i] = 0] /\ granted' = [granted EXCEPT ![i] = 0]
      /\ worker' = [worker EXCEPT ![w] = k]
      /\ UNCHANGED <<mutex, jar, cleanup, missed>>
  BY DEF Create, MutexFree, Touched, Granted
<1> HIDE DEF i
<1>2. k \in Requests
  BY <1>1, PlaceNames, SessionsAssumption DEF Requests, Ages
<1>3. /\ worker' \in [Worker -> Requests] /\ worker'[w].at = "handler"
      /\ worker'[w].id = i /\ worker'[w].maxAge = Expiration
      /\ \A v \in Worker \ {w} : worker'[v] = worker[v]
  BY <1>1, <1>2, NewRequest
<1>4. /\ age' \in [Id -> Ages] /\ granted' \in [Id -> Ages]
      /\ age'[i] = 0 /\ granted'[i] = 0
      /\ \A j \in Id \ {i} : age'[j] = age[j] /\ granted'[j] = granted[j]
  BY <1>1, SessionsAssumption DEF TypeOK, Ages
<1>5. jar.id # i /\ \A v \in Worker : worker[v].id # i
  BY <1>1 DEF Unknown
<1>6. TypeOK'
  BY <1>1, <1>3, <1>4 DEF TypeOK, cleanup
<1>7. Request(w)'
  BY <1>1, <1>3, SessionsAssumption DEF Request
<1>8. ASSUME NEW v \in Worker, v # w PROVE Request(v)'
  BY <1>1, <1>3, <1>4, <1>8, Others
<1>9. Scan'
  BY <1>1, ScanKept DEF cleanup
<1>10. TouchedLast'
  BY <1>4 DEF TouchedLast
<1>11. CookieCovered'
  <2>1. ASSUME NEW v \in Worker, Underway(v) PROVE Underway(v)'
    BY <1>1, <1>3, <2>1 DEF Underway
  <2> QED
    BY <1>1, <1>4, <1>5, <2>1 DEF CookieCovered, TypeOK
<1> QED
  BY <1>6, <1>7, <1>8, <1>9, <1>10, <1>11

\* The cookie of a session just handed out lasts a whole expiration time.
LEMMA RemainingInv == ASSUME IInv, NEW w \in Worker, Remaining(w) PROVE IInv'
<1> USE DEF IInv
<1> DEFINE i == worker[w].id
           k1 == [worker[w] EXCEPT !.at = "handler"]
           k == [k1 EXCEPT !.maxAge = MaxAge(i)]
<1>1. /\ worker[w].at = "remaining" /\ i \in Id /\ worker[w] \in Requests
      /\ worker' = [worker EXCEPT ![w] = k]
      /\ UNCHANGED <<sessions, age, mutex, jar, cleanup, granted, missed>>
  BY DEF Remaining, Request, TypeOK
<1>2. MaxAge(i) = Expiration
  BY <1>1, SessionsAssumption DEF MaxAge, Request
<1>3. k1 \in Requests /\ k1.id = i /\ k1.at = "handler"
  BY <1>1, PlaceNames DEF Requests
<1> HIDE DEF k1
<1>4. k \in Requests /\ k.id = i /\ k.at = "handler" /\ k.maxAge = Expiration
  BY <1>2, <1>3, SessionsAssumption DEF Requests, Ages
<1> HIDE DEF k
<1>5. /\ worker' \in [Worker -> Requests] /\ worker'[w] = k
      /\ \A v \in Worker \ {w} : worker'[v] = worker[v]
  BY <1>1, <1>4, NewRequest
<1>6. TypeOK'
  BY <1>1, <1>5 DEF TypeOK, cleanup
<1>7. Request(w)'
  BY <1>1, <1>4, <1>5 DEF Request
<1>8. ASSUME NEW v \in Worker, v # w PROVE Request(v)'
  BY <1>1, <1>5, <1>8, Others DEF TypeOK
<1>9. Scan' /\ TouchedLast'
  BY <1>1, ScanKept DEF cleanup, TouchedLast
<1>10. CookieCovered'
  <2>1. ASSUME NEW v \in Worker, Underway(v) PROVE Underway(v)'
    BY <1>1, <1>4, <1>5, <2>1 DEF Underway
  <2> QED
    BY <1>1, <2>1, CookieKept
<1> QED
  BY <1>6, <1>7, <1>8, <1>9, <1>10

\* The handler changes its session's data, which makes the session younger.
LEMMA HandlerInv == ASSUME IInv, NEW w \in Worker, HandlerSets(w) PROVE IInv'
<1> USE DEF IInv
<1>1. /\ worker[w].id \in Id /\ age' = [age EXCEPT ![worker[w].id] = 0]
      /\ UNCHANGED <<sessions, mutex, worker, jar, cleanup, granted, missed>>
  BY DEF HandlerSets, Touched, Request
<1>2. age' \in [Id -> Ages] /\ \A j \in Id : age'[j] \in {age[j], 0}
  BY <1>1, SessionsAssumption DEF TypeOK, Ages
<1>3. TypeOK'
  BY <1>1, <1>2 DEF TypeOK, cleanup
<1>4. ASSUME NEW v \in Worker PROVE Request(v)'
  BY <1>1, <1>2 DEF Request
<1>5. Scan'
  BY <1>1 DEF Scan, Looked, cleanup
<1>6. TouchedLast'
  BY <1>1, <1>2, SessionsAssumption DEF TouchedLast, TypeOK, Ages
<1>7. CookieCovered'
  BY <1>1, CookieKept DEF Underway
<1> QED
  BY <1>3, <1>4, <1>5, <1>6, <1>7

\* The handler ends the session.
LEMMA RemoveInv == ASSUME IInv, NEW w \in Worker, RemoveSession(w) PROVE IInv'
<1> USE DEF IInv
<1>1. /\ worker[w].at = "handler" /\ mutex = NoThread /\ Goes(w, "answer")
      /\ sessions' \subseteq sessions
      /\ UNCHANGED <<age, mutex, jar, cleanup, granted, missed>>
  BY DEF RemoveSession, MutexFree
<1>2. /\ worker' \in [Worker -> Requests] /\ worker'[w].at = "answer"
      /\ worker'[w].id = worker[w].id /\ worker'[w].maxAge = worker[w].maxAge
      /\ \A v \in Worker \ {w} : worker'[v] = worker[v]
  BY <1>1, Moves, PlaceNames
<1>3. TypeOK'
  BY <1>1, <1>2 DEF TypeOK, cleanup
<1>4. Request(w)'
  BY <1>1, <1>2 DEF Request
<1>5. ASSUME NEW v \in Worker, v # w PROVE Request(v)'
  BY <1>1, <1>2, <1>5, Others DEF TypeOK
<1>6. Scan' /\ TouchedLast'
  BY <1>1, ScanKept DEF cleanup, TouchedLast
<1>7. CookieCovered'
  <2>1. ASSUME NEW v \in Worker, Underway(v) PROVE Underway(v)'
    BY <1>1, <1>2, <2>1 DEF Underway
  <2> QED
    BY <1>1, <2>1, CookieKept
<1> QED
  BY <1>3, <1>4, <1>5, <1>6, <1>7

\* An answer brings a cookie that lasts a whole expiration time, or brings nothing.
LEMMA AnswerInv == ASSUME IInv, NEW w \in Worker, Answer(w) \/ AnswerLost(w) PROVE IInv'
<1> USE DEF IInv
<1> DEFINE k == [at |-> "idle", id |-> NoId, maxAge |-> 0]
<1>1. /\ worker[w].at \in {"handler", "answer"} /\ worker' = [worker EXCEPT ![w] = k]
      /\ UNCHANGED <<sessions, age, mutex, cleanup, granted>>
      /\ \/ jar' = [id |-> worker[w].id, left |-> worker[w].maxAge] /\ missed' = FALSE
         \/ jar' = jar /\ missed' = TRUE
  BY DEF Answer, AnswerLost, Left
<1>2. k \in Requests
  BY PlaceNames, SessionsAssumption DEF Requests, Ages
<1>3. /\ worker' \in [Worker -> Requests] /\ worker'[w].at = "idle"
      /\ \A v \in Worker \ {w} : worker'[v] = worker[v]
  BY <1>1, <1>2, NewRequest
<1>4. TypeOK'
  <2>1. worker[w] \in Requests
    BY DEF TypeOK
  <2>2. [id |-> worker[w].id, left |-> worker[w].maxAge] \in Cookies
    BY <2>1 DEF Cookies, Requests
  <2>3. jar' \in Cookies /\ missed' \in BOOLEAN
    BY <1>1, <2>2 DEF TypeOK
  <2> QED
    BY <1>1, <1>3, <2>3 DEF TypeOK, cleanup
<1>5. Request(w)'
  BY <1>1, <1>3 DEF Request
<1>6. ASSUME NEW v \in Worker, v # w PROVE Request(v)'
  BY <1>1, <1>3, <1>6, Others DEF TypeOK
<1>7. Scan' /\ TouchedLast'
  BY <1>1, ScanKept DEF cleanup, TouchedLast
<1>8. CookieCovered'
  <2>1. CASE jar' = [id |-> worker[w].id, left |-> worker[w].maxAge]
    <3>1. jar'.left = Expiration /\ jar'.id \in Id
      BY <1>1, <2>1 DEF Request
    <3>2. granted'[jar'.id] \in 0..Expiration
      BY <1>1, <3>1 DEF TypeOK, Ages
    <3> QED
      BY <3>1, <3>2, SessionsAssumption DEF CookieCovered
  <2>2. CASE missed'
    BY <2>2 DEF CookieCovered
  <2> QED
    BY <1>1, <2>1, <2>2
<1> QED
  BY <1>4, <1>5, <1>6, <1>7, <1>8

-----------------------------------------------------------------------------
(* The cleanup thread, its owner, and the clock. *)

\* The cleanup thread and its owner leave the requests and the cookie alone; what the
\* thread does with the mutex and the table is what the scan is about.
LEMMA CleanerInv ==
  ASSUME IInv, CleanerStep \/ OwnerStep
  PROVE  IInv'
<1> USE DEF IInv
<1>1. /\ UNCHANGED <<age, worker, jar, granted, missed>>
      /\ running' \in BOOLEAN /\ owner' \in {"up", "notify", "join", "down"}
      /\ sessions' \subseteq sessions
  BY DEF CleanerStep, OwnerStep, Wait, FallAsleep, Timeout, BeginScan, SkipScan, ScanOne,
         ScanErase, EndScan, StartCleanupThread, StopStore, StopNotify, StopReturn, TypeOK
<1>2. /\ cleaner' \in Cleaners
      /\ \/ mutex' = mutex
         \/ {mutex, mutex'} = {Cleaner, NoThread}
      /\ Scan'
  <2>1. CASE \/ StopStore \/ StopReturn
             \/ StopNotify /\ UNCHANGED cleaner
    BY <1>1, <2>1 DEF StopStore, StopNotify, StopReturn, Scan, Looked, TypeOK
  <2>2. ASSUME NEW a \in {"wait", "block", "sleep", "clean", "exited"}, CleanerGoes(a),
               cleaner.at \notin {"scan", "erase"}, UNCHANGED mutex, owner' # "down"
        PROVE  cleaner' \in Cleaners /\ Scan'
    <3>1. cleaner' \in Cleaners /\ cleaner'.at = a
      BY <2>2 DEF CleanerGoes, TypeOK, Cleaners
    <3> QED
      BY <2>2, <3>1 DEF Scan
  <2>3. CASE Wait \/ FallAsleep \/ Timeout \/ SkipScan
    <3>1. /\ cleaner.at \notin {"scan", "erase", "exited"} /\ UNCHANGED <<mutex, owner>>
          /\ \E a \in {"wait", "block", "sleep", "clean", "exited"} : CleanerGoes(a)
      BY <2>3 DEF Wait, FallAsleep, Timeout, TimesOut, SkipScan
    <3> QED
      BY <2>2, <3>1 DEF Scan
  <2>4. CASE \/ StartCleanupThread
             \/ StopNotify /\ CleanerGoes("wait") /\ cleaner.at = "sleep"
    <3>1. /\ CleanerGoes("wait") /\ owner' # "down" /\ UNCHANGED mutex
          /\ cleaner.at \notin {"scan", "erase"}
      BY <2>4 DEF StartCleanupThread, StopNotify, Scan
    <3> QED
      BY <2>2, <3>1
  <2>5. CASE BeginScan
    <3>1. cleaner' \in Cleaners /\ cleaner'.at = "scan"
      BY <2>5 DEF BeginScan, TypeOK, Cleaners
    <3> QED
      BY <2>5, <3>1 DEF BeginScan, MutexFree, Scan
  <2>6. CASE ScanOne
    <3>1. Looked \in cleaner.todo /\ Looked \in Id /\ cleaner \in Cleaners /\ mutex = Cleaner
      BY <2>6 DEF ScanOne, Looked, TypeOK, Cleaners, Scan
    <3>2. CASE IsExpired(Looked)
      <4>1. cleaner' = [cleaner EXCEPT !.at = "erase"]
        BY <2>6, <3>2 DEF ScanOne
      <4>2. cleaner' \in Cleaners /\ cleaner'.at = "erase" /\ cleaner'.todo = cleaner.todo
        BY <3>1, <4>1 DEF Cleaners
      <4>3. granted[Looked] = Expiration
        BY <3>1, <3>2, SessionsAssumption DEF TypeOK, TouchedLast, IsExpired, Ages
      <4> QED
        BY <1>1, <2>6, <3>1, <4>2, <4>3 DEF ScanOne, Scan, Looked
    <3>3. CASE ~IsExpired(Looked)
      <4>1. cleaner' = [cleaner EXCEPT !.todo = @ \ {Looked}]
        BY <2>6, <3>3 DEF ScanOne
      <4>2. cleaner' \in Cleaners /\ cleaner'.at = "scan"
        BY <2>6, <3>1, <4>1 DEF Cleaners, ScanOne
      <4> QED
        BY <2>6, <3>1, <4>2 DEF ScanOne, Scan
    <3> QED
      BY <3>2, <3>3
  <2>7. CASE ScanErase
    <3>1. cleaner' \in Cleaners /\ cleaner'.at = "scan"
      BY <2>7 DEF ScanErase, TypeOK, Cleaners
    <3> QED
      BY <2>7, <3>1 DEF ScanErase, Scan
  <2>8. CASE EndScan
    <3>1. cleaner' \in Cleaners /\ cleaner'.at = "wait"
      BY <2>8 DEF EndScan, CleanerGoes, TypeOK, Cleaners
    <3> QED
      BY <2>8, <3>1, SessionsAssumption DEF EndScan, Scan
  <2> QED
    BY <2>1, <2>3, <2>4, <2>5, <2>6, <2>7, <2>8 DEF CleanerStep, OwnerStep, StopNotify
<1>3. TypeOK'
  BY <1>1, <1>2 DEF TypeOK, Threads
<1>4. ASSUME NEW w \in Worker PROVE Request(w)'
  <2>1. mutex' = w <=> mutex = w
    BY <1>2, SessionsAssumption
  <2> QED
    BY <1>1, <2>1 DEF Request
<1>5. TouchedLast' /\ CookieCovered'
  BY <1>1, CookieKept DEF TouchedLast, Underway
<1> QED
  BY <1>2, <1>3, <1>4, <1>5

\* A second passes for the sessions and for the browser's cookie alike.
LEMMA TickInv == ASSUME IInv, Tick PROVE IInv'
<1> USE DEF IInv
<1>1. /\ age' \in [Id -> Ages] /\ granted' \in [Id -> Ages]
      /\ \A i \in Id : /\ age'[i] = IF age[i] < Expiration THEN age[i] + 1 ELSE age[i]
                       /\ granted'[i] = IF granted[i] < Expiration THEN granted[i] + 1
                                        ELSE granted[i]
      /\ UNCHANGED <<sessions, mutex, worker, cleanup, missed>>
      /\ \A w \in Worker : worker[w].at # "remaining"
  BY SessionsAssumption DEF Tick, Older, TypeOK, Ages
<1>2. /\ jar' \in Cookies
      /\ \/ jar'.id = jar.id /\ jar'.left = jar.left - 1
         \/ jar'.id = NoId
  BY SessionsAssumption DEF Tick, TypeOK, Cookies, Ages
<1>3. TypeOK'
  BY <1>1, <1>2 DEF TypeOK, cleanup
<1>4. ASSUME NEW w \in Worker PROVE Request(w)'
  BY <1>1, SessionsAssumption DEF Request
<1>5. Scan'
  <2>1. UNCHANGED <<cleaner, owner, mutex, Looked>>
    BY <1>1 DEF Looked, cleanup
  <2>2. cleaner.at = "erase" => Looked \in Id /\ granted'[Looked] = granted[Looked]
    BY <1>1, SessionsAssumption DEF Scan, Looked, TypeOK, Cleaners
  <2> QED
    BY <2>1, <2>2 DEF Scan
<1>6. TouchedLast'
  BY <1>1, SessionsAssumption DEF TouchedLast, TypeOK, Ages
<1>7. CookieCovered'
  <2> SUFFICES ASSUME jar'.id \in sessions, ~missed
               PROVE  jar'.left >= Expiration - granted'[jar'.id] \/ \E w \in Worker : Underway(w)'
    BY <1>1 DEF CookieCovered
  <2>1. jar'.id = jar.id /\ jar'.left = jar.left - 1 /\ jar.id \in Id
    BY <1>2, SessionsAssumption DEF TypeOK
  <2>2. CASE \E w \in Worker : Underway(w)
    BY <1>1, <2>1, <2>2 DEF Underway
  <2>3. CASE jar.left >= Expiration - granted[jar.id]
    <3>1. /\ granted[jar.id] \in 0..Expiration /\ jar.left \in Nat /\ jar'.left \in Nat
          /\ granted'[jar.id] = IF granted[jar.id] < Expiration THEN granted[jar.id] + 1
                                ELSE granted[jar.id]
      BY <1>1, <1>2, <2>1, SessionsAssumption DEF TypeOK, Cookies, Ages
    <3> QED
      BY <2>1, <2>3, <3>1, SessionsAssumption
  <2> QED
    BY <2>1, <2>2, <2>3 DEF CookieCovered
<1> QED
  BY <1>3, <1>4, <1>5, <1>6, <1>7

-----------------------------------------------------------------------------
\* The invariant is inductive.
LEMMA NextInv == ASSUME IInv, [Next]_vars PROVE IInv'
<1>1. ASSUME NEW w \in Worker, RequestStep(w) PROVE IInv'
  BY <1>1, ArriveInv, GetNoneInv, GetSessionInv, CreateInv, RemainingInv, HandlerInv, RemoveInv,
     AnswerInv DEF RequestStep
<1>2. CASE CleanerStep \/ OwnerStep
  BY <1>2, CleanerInv
<1>3. CASE Tick
  BY <1>3, TickInv
<1>4. CASE UNCHANGED vars
  BY <1>4 DEF vars, cleanup, IInv, TypeOK, Request, Scan, Looked, TouchedLast, CookieCovered,
              Underway
<1> QED
  BY <1>1, <1>2, <1>3, <1>4 DEF Next

\* What the requests, the cleanup thread and the cookie know of the sessions.
THEOREM Invariance == Spec => []IInv
<1>1. Init => IInv
  BY InitInv
<1>2. IInv /\ [Next]_vars => IInv'
  BY NextInv
<1> QED
  BY <1>1, <1>2, PTL DEF Spec

\* Every variable of the manager, the requests and the browser stays in its range.
THEOREM TypeCorrect == Spec => []TypeOK
<1>1. IInv => TypeOK
  BY DEF IInv
<1> QED
  BY <1>1, Invariance, PTL

\* The cookie of a browser that has all its answers lasts at least as long as the session
\* (SessionMiddleware.cpp:27), in whatever order the answers of however many requests
\* arrive.
THEOREM CookieOutlastsSession == Spec => []CookieLasts
<1>1. IInv => CookieLasts
  BY DEF IInv, CookieCovered, CookieLasts, Underway
<1> QED
  BY <1>1, Invariance, PTL

\* No session leaves the table within its expiration time after it was handed out, unless
\* its own handler removes it: neither the cleanup thread nor another request that found
\* it expired before takes it away.
THEOREM GrantsAreKept == Spec => GrantKept
<1> DEFINE Kept == \A i \in sessions \ sessions' :
                     \/ granted[i] = Expiration
                     \/ \E w \in Worker : worker[w].id = i /\ worker[w].at = "handler"
                                         /\ worker'[w].at = "answer"
<1>1. ASSUME IInv, [Next]_vars PROVE Kept
  <2>1. ASSUME NEW w \in Worker, EraseExpired(w) PROVE Kept
    BY <1>1, <2>1 DEF EraseExpired, IInv, Request
  <2>2. ASSUME NEW w \in Worker, RemoveSession(w) PROVE Kept
    <3>1. worker'[w].at = "answer"
      BY <1>1, <2>2, Moves, PlaceNames DEF RemoveSession, IInv
    <3> QED
      BY <2>2, <3>1 DEF RemoveSession
  <2>3. CASE ScanErase
    BY <1>1, <2>3 DEF ScanErase, IInv, Scan
  <2>4. \/ sessions \subseteq sessions'
        \/ \E w \in Worker : EraseExpired(w) \/ RemoveSession(w)
        \/ ScanErase
    BY <1>1 DEF Next, vars, RequestStep, Arrive, GetSession, GetExpired, GetNothing, Create,
         Remaining, HandlerSets, Answer, AnswerLost, CleanerStep, Wait, FallAsleep, Timeout,
         BeginScan, SkipScan, ScanOne, EndScan, OwnerStep, StartCleanupThread, StopStore,
         StopNotify, StopReturn, Tick
  <2> QED
    BY <2>1, <2>2, <2>3, <2>4
<1>2. IInv /\ [Next]_vars => [Kept]_vars
  BY <1>1
<1> QED
  BY <1>2, Invariance, PTL DEF Spec, GrantKept
=============================================================================
