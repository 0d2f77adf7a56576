------------------------------ MODULE Sessions ------------------------------
(***************************************************************************)
(* session::SessionManager with its cleanup thread, and the requests that  *)
(* reach it through SessionMiddleware from one browser.                    *)
(*                                                                         *)
(* Time is counted in whole seconds, as the code does, and kept as ages:   *)
(* the seconds since something happened, up to Expiration, after which a   *)
(* longer time makes no difference.  A session object has its own mutex,   *)
(* so a handler may touch one while the manager is between finding it      *)
(* expired and erasing it; the manager's own operations exclude each other *)
(* (sessionsMutex_).  Ids are random: a new one is one nobody knows.       *)
(***************************************************************************)
EXTENDS Naturals, FiniteSets

CONSTANTS
  Id,          \* bound: session identities known at the same time
  Worker,      \* threads that handle requests
  Expiration,  \* defaultExpiration_, in seconds
  NoId, NoThread, Cleaner

ASSUME SessionsAssumption ==
  /\ Expiration \in Nat \ {0}
  /\ NoId \notin Id
  /\ Cleaner \notin Worker /\ NoThread \notin Worker \cup {Cleaner}

VARIABLES
  sessions,   \* the ids in sessions_
  age,        \* seconds since lastAccessTime_ of each session
  mutex,      \* who holds sessionsMutex_ across steps
  worker,     \* per worker: where it is, the id it has, the Max-Age it will send
  jar,        \* the browser's cookie: its id and the seconds it has left
  running,    \* cleanupThreadRunning_
  cleaner,    \* the cleanup thread: where it is, what it has still to look at
  owner,      \* the thread that stops the cleanup thread: "up", "notify", "join", "down"
  granted,    \* history: seconds since the manager last handed a session out
  missed      \* history: the last answer of the server did not reach the browser

vars == <<sessions, age, mutex, worker, jar, running, cleaner, owner, granted, missed>>
cleanup == <<running, cleaner, owner>>

Ages == 0..Expiration
IsExpired(i) == age[i] >= Expiration
Older(a) == IF a < Expiration THEN a + 1 ELSE a

Init ==
  /\ sessions = {}
  /\ age = [i \in Id |-> Expiration]
  /\ mutex = NoThread
  /\ worker = [w \in Worker |-> [at |-> "idle", id |-> NoId, maxAge |-> 0]]
  /\ jar = [id |-> NoId, left |-> 0]
  /\ running = FALSE
  /\ cleaner = [at |-> "exited", todo |-> {}]
  /\ owner = "down"
  /\ granted = [i \in Id |-> Expiration]
  /\ missed = FALSE

----------------------------------------------------------------------------
(* Requests *)

Goes(w, at) == worker' = [worker EXCEPT ![w].at = at]

\* extractSessionId: the browser sends the cookie it still has.
Arrive(w) ==
  /\ worker[w].at = "idle"
  /\ worker' = [worker EXCEPT ![w].at = "get", ![w].id = jar.id]
  /\ UNCHANGED <<sessions, age, mutex, jar, cleanup, granted, missed>>

Touched(i) == age' = [age EXCEPT ![i] = 0]
\* A bug to catch: looking a session up does not extend it.
NotTouched(i) == UNCHANGED age
Touch(i) == Touched(i)
Granted(i) == granted' = [granted EXCEPT ![i] = 0]

\* A bug to catch: the table is read without its mutex.
NoMutex == TRUE
MutexFree == mutex = NoThread

\* getSession, for a session that is there and has not expired.
GetSession(w) ==
  /\ worker[w].at = "get" /\ MutexFree
  /\ worker[w].id \in sessions /\ ~IsExpired(worker[w].id)
  /\ Touch(worker[w].id) /\ Granted(worker[w].id)
  /\ Goes(w, "remaining")
  /\ UNCHANGED <<sessions, mutex, jar, cleanup, missed>>

\* getSession finds it expired, and erases it in a second step.
GetExpired(w) ==
  /\ worker[w].at = "get" /\ MutexFree
  /\ worker[w].id \in sessions /\ IsExpired(worker[w].id)
  /\ mutex' = w
  /\ Goes(w, "erase")
  /\ UNCHANGED <<sessions, age, jar, cleanup, granted, missed>>
EraseExpired(w) ==
  /\ worker[w].at = "erase"
  /\ sessions' = sessions \ {worker[w].id}
  /\ mutex' = NoThread
  /\ Goes(w, "create")
  /\ UNCHANGED <<age, jar, cleanup, granted, missed>>

GetNothing(w) ==
  /\ worker[w].at = "get" /\ MutexFree
  /\ worker[w].id \notin sessions
  /\ Goes(w, "create")
  /\ UNCHANGED <<sessions, age, mutex, jar, cleanup, granted, missed>>

\* createSession, with an id that nobody has.
Unknown(i) == i \notin sessions \cup {jar.id} \cup {worker[w].id : w \in Worker}
Create(w) ==
  /\ worker[w].at = "create" /\ MutexFree
  /\ \E i \in Id : Unknown(i)
  /\ LET i == CHOOSE i \in Id : Unknown(i)
     IN  /\ sessions' = sessions \cup {i}
         /\ Touched(i) /\ Granted(i)
         /\ worker' = [worker EXCEPT ![w] = [at |-> "handler", id |-> i, maxAge |-> Expiration]]
  /\ UNCHANGED <<mutex, jar, cleanup, missed>>

\* The Max-Age of the cookie of a session the browser already has (remainingTime).
\* A bug to catch: the Max-Age is what the browser's cookie had left.
StaleMaxAge(i) == jar.left
MaxAge(i) == IF age[i] < Expiration THEN Expiration - age[i] ELSE Expiration
Remaining(w) ==
  /\ worker[w].at = "remaining"
  /\ worker' = [worker EXCEPT ![w].at = "handler", ![w].maxAge = MaxAge(worker[w].id)]
  /\ UNCHANGED <<sessions, age, mutex, jar, cleanup, granted, missed>>

\* The handler changes its session's data: set, remove, clear.
HandlerSets(w) ==
  /\ worker[w].at = "handler"
  /\ Touched(worker[w].id)
  /\ UNCHANGED <<sessions, mutex, worker, jar, cleanup, granted, missed>>

\* The handler ends the session.
RemoveSession(w) ==
  /\ worker[w].at = "handler" /\ MutexFree
  /\ sessions' = sessions \ {worker[w].id}
  /\ Goes(w, "answer")
  /\ UNCHANGED <<age, mutex, jar, cleanup, granted, missed>>

Left(w) == worker' = [worker EXCEPT ![w] = [at |-> "idle", id |-> NoId, maxAge |-> 0]]

\* The answer reaches the browser with its cookie, in any order with other answers ...
Answer(w) ==
  /\ worker[w].at \in {"handler", "answer"}
  /\ jar' = [id |-> worker[w].id, left |-> worker[w].maxAge]
  /\ missed' = FALSE
  /\ Left(w)
  /\ UNCHANGED <<sessions, age, mutex, cleanup, granted>>

\* ... or is lost with the connection.
AnswerLost(w) ==
  /\ worker[w].at \in {"handler", "answer"}
  /\ missed' = TRUE
  /\ Left(w)
  /\ UNCHANGED <<sessions, age, mutex, jar, cleanup, granted>>

----------------------------------------------------------------------------
(* The cleanup thread. It holds cleanupMutex_ except while it sleeps, but  *)
(* nobody else locks that mutex, so the flag may change at any moment.     *)

CleanerGoes(at) == cleaner' = [cleaner EXCEPT !.at = at]

\* Reading the flag: at the head of the loop and in wait_for's predicate.
Wait ==
  /\ cleaner.at = "wait"
  /\ CleanerGoes(IF running THEN "block" ELSE "exited")
  /\ UNCHANGED <<sessions, age, mutex, worker, jar, running, owner, granted, missed>>

FallAsleep ==
  /\ cleaner.at = "block"
  /\ CleanerGoes("sleep")
  /\ UNCHANGED <<sessions, age, mutex, worker, jar, running, owner, granted, missed>>

\* A bug to catch: wait instead of wait_for.
NoTimeout == FALSE
TimesOut == cleaner.at = "sleep"
Timeout ==
  /\ TimesOut
  /\ CleanerGoes(IF running THEN "clean" ELSE "exited")
  /\ UNCHANGED <<sessions, age, mutex, worker, jar, running, owner, granted, missed>>

\* cleanupExpiredSessions, under sessionsMutex_: one session after the other.
BeginScan ==
  /\ cleaner.at = "clean" /\ running /\ MutexFree
  /\ mutex' = Cleaner
  /\ cleaner' = [at |-> "scan", todo |-> sessions]
  /\ UNCHANGED <<sessions, age, worker, jar, running, owner, granted, missed>>
SkipScan ==
  /\ cleaner.at = "clean" /\ ~running
  /\ CleanerGoes("wait")
  /\ UNCHANGED <<sessions, age, mutex, worker, jar, running, owner, granted, missed>>

Looked == CHOOSE i \in cleaner.todo : TRUE
ScanOne ==
  /\ cleaner.at = "scan" /\ cleaner.todo # {}
  /\ cleaner' = IF IsExpired(Looked) THEN [cleaner EXCEPT !.at = "erase"]
                ELSE [cleaner EXCEPT !.todo = @ \ {Looked}]
  /\ UNCHANGED <<sessions, age, mutex, worker, jar, running, owner, granted, missed>>
ScanErase ==
  /\ cleaner.at = "erase"
  /\ sessions' = sessions \ {Looked}
  /\ cleaner' = [at |-> "scan", todo |-> cleaner.todo \ {Looked}]
  /\ UNCHANGED <<age, mutex, worker, jar, running, owner, granted, missed>>
EndScan ==
  /\ cleaner.at = "scan" /\ cleaner.todo = {}
  /\ mutex' = NoThread
  /\ CleanerGoes("wait")
  /\ UNCHANGED <<sessions, age, worker, jar, running, owner, granted, missed>>

StartCleanupThread ==
  /\ owner = "down" /\ ~running
  /\ running' = TRUE
  /\ owner' = "up"
  /\ CleanerGoes("wait")
  /\ UNCHANGED <<sessions, age, mutex, worker, jar, granted, missed>>

\* stopCleanupThread: the flag, the notification, the join.
StopStore ==
  /\ owner = "up"
  /\ running' = FALSE
  /\ owner' = "notify"
  /\ UNCHANGED <<sessions, age, mutex, worker, jar, cleaner, granted, missed>>
StopNotify ==
  /\ owner = "notify"
  /\ owner' = "join"
  /\ IF cleaner.at = "sleep" THEN CleanerGoes("wait") ELSE UNCHANGED cleaner
  /\ UNCHANGED <<sessions, age, mutex, worker, jar, running, granted, missed>>
StopReturn ==
  /\ owner = "join" /\ cleaner.at = "exited"
  /\ owner' = "down"
  /\ UNCHANGED <<sessions, age, mutex, worker, jar, running, cleaner, granted, missed>>

----------------------------------------------------------------------------

\* A second passes; not between getSession and remainingTime, two calls in a row.
Tick ==
  /\ \A w \in Worker : worker[w].at # "remaining"
  /\ age' = [i \in Id |-> Older(age[i])]
  /\ granted' = [i \in Id |-> Older(granted[i])]
  /\ jar' = IF jar.left > 1 THEN [jar EXCEPT !.left = @ - 1] ELSE [id |-> NoId, left |-> 0]
  /\ UNCHANGED <<sessions, mutex, worker, cleanup, missed>>

RequestStep(w) ==
  \/ Arrive(w) \/ GetSession(w) \/ GetExpired(w) \/ EraseExpired(w) \/ GetNothing(w)
  \/ Create(w) \/ Remaining(w) \/ HandlerSets(w) \/ RemoveSession(w) \/ Answer(w) \/ AnswerLost(w)
CleanerStep == Wait \/ FallAsleep \/ Timeout \/ BeginScan \/ SkipScan \/ ScanOne \/ ScanErase \/ EndScan
OwnerStep == StartCleanupThread \/ StopStore \/ StopNotify \/ StopReturn

Next == (\E w \in Worker : RequestStep(w)) \/ CleanerStep \/ OwnerStep \/ Tick

Spec == Init /\ [][Next]_vars

\* A thread that runs goes on; a mutex asked for again and again is got.
FairSpec ==
  /\ Spec
  /\ SF_vars(CleanerStep)
  /\ WF_vars(StopNotify \/ StopReturn)
  /\ \A w \in Worker : WF_vars(EraseExpired(w))

----------------------------------------------------------------------------
(* What must hold *)

Threads == Worker \cup {Cleaner, NoThread}
Places == {"idle", "get", "erase", "create", "remaining", "handler", "answer"}
Requests == [at : Places, id : Id \cup {NoId}, maxAge : Ages]
Cookies == [id : Id \cup {NoId}, left : Ages]
Cleaners == [at : {"wait", "block", "sleep", "clean", "scan", "erase", "exited"}, todo : SUBSET Id]

\* Every variable stays in its range.
TypeOK ==
  /\ sessions \subseteq Id
  /\ age \in [Id -> Ages] /\ granted \in [Id -> Ages]
  /\ mutex \in Threads
  /\ worker \in [Worker -> Requests]
  /\ jar \in Cookies
  /\ running \in BOOLEAN /\ missed \in BOOLEAN
  /\ cleaner \in Cleaners
  /\ owner \in {"up", "notify", "join", "down"}

\* A browser that has the answers to all its requests keeps its cookie at least as long as
\* the manager keeps the session (SessionMiddleware.cpp:27, M12), also when the answers of
\* two requests arrive in another order.  What a handler adds by changing the session's data
\* after the cookie was made is not counted.
CookieLasts ==
  ((\A w \in Worker : worker[w].at = "idle") /\ ~missed /\ jar.id \in sessions)
    => jar.left >= Expiration - granted[jar.id]

\* A session leaves the table only by being removed, or a whole expiration time after it was
\* last handed out, whoever looks at it meanwhile: no request loses the session it was just
\* given to the cleanup thread or to another request.
GrantKept ==
  [][\A i \in sessions \ sessions' :
       \/ granted[i] = Expiration
       \/ \E w \in Worker : worker[w].id = i /\ worker[w].at = "handler" /\ worker'[w].at = "answer"]_vars

\* While the cleanup thread runs, a session that has expired leaves the table or is used again.
Collected ==
  \A i \in Id : (i \in sessions /\ IsExpired(i) /\ running)
                  ~> (i \notin sessions \/ ~IsExpired(i) \/ ~running)

\* stopCleanupThread returns, although its notification may be lost.
StopReturns == (owner = "notify") ~> (owner = "down")

\* The comment at SessionManager.cpp:123: the waiting thread is woken, at once (:152).
WokenAtOnce == owner = "join" => cleaner.at # "sleep"
=============================================================================
