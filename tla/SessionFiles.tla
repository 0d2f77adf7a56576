--------------------------- MODULE SessionFiles ----------------------------
(***************************************************************************)
(* session::FileSessionStorage: sessions in files that outlive the         *)
(* process.  A save writes a temporary file and renames it; the process    *)
(* may crash between any two steps and start again on the same directory.  *)
(*                                                                         *)
(* A file is a session and how many of its lines it has: SESSION_ID,       *)
(* LAST_ACCESS, EXPIRATION, the data with its two marks, which count as    *)
(* one and are read back as SessionText.tla says.  Times are kept as ages  *)
(* in seconds up to Expiration, the lifetime of every session.             *)
(* Session::set, remove and clear touch the session (Session.cpp:14).      *)
(* What a crash leaves of a temporary file that was not closed is taken to *)
(* be an empty file: nothing reads it again.                               *)
(***************************************************************************)
EXTENDS SessionText

CONSTANTS
  Id,          \* bound: valid session ids
  Caller,      \* threads that call the storage
  Data,        \* bound: the contents the program gives a session's data
  Expiration,  \* the lifetime of a session, in seconds
  Faults,      \* what may fail: "open", "write", "rename", "read"
  NoId, NoCaller, Nothing

Ages == 0..Expiration
Whole == 4
\* The program's contents, and what they become when they are saved and loaded.
AllData == Data \cup {NoData} \cup UNION {Readings(d) : d \in Data}
Entries == [data : AllData, age : Ages]
Contents == [data : AllData, age : Ages, lines : 0..Whole]

ASSUME FilesAssumption ==
  /\ Expiration \in Nat \ {0}
  /\ Faults \subseteq {"open", "write", "rename", "read"}
  /\ \A d \in Data : IsData(d)
  /\ NoId \notin Id /\ NoCaller \notin Caller
  /\ Nothing \notin Entries /\ Nothing \notin Contents

VARIABLES
  session,  \* per id: the session in memory, its data and age
  file,     \* per id: the file <id>.session
  tmp,      \* per id: the file <id>.session.tmp
  mutex,    \* who holds storageMutex_
  call,     \* per caller: the operation, the session it has read, its answer
  step      \* per caller: where the call is, and the files cleanup has still to read

vars == <<session, file, tmp, mutex, call, step>>

Older(s) == IF s = Nothing \/ s.age = Expiration THEN s ELSE [s EXCEPT !.age = @ + 1]

NoCall == [op |-> "none", id |-> NoId, read |-> Nothing, answer |-> "open"]
NoStep == [at |-> "idle", todo |-> {}]
At(c, op, where) == call[c].op = op /\ step[c].at = where
Goes(c, where) == step' = [step EXCEPT ![c].at = where]
Answer(c, a) == call' = [call EXCEPT ![c].answer = a, ![c].read = Nothing]
File(c) == file[call[c].id]

Init ==
  /\ session = [i \in Id |-> Nothing]
  /\ file = [i \in Id |-> Nothing]
  /\ tmp = [i \in Id |-> Nothing]
  /\ mutex = NoCaller
  /\ call = [c \in Caller |-> NoCall]
  /\ step = [c \in Caller |-> NoStep]

\* A bug to catch: two saves of a session write the same temporary file.
NoMutex == TRUE
MutexFree == mutex = NoCaller

----------------------------------------------------------------------------
(* The program that uses the storage *)

Change(i) ==
  /\ \E d \in Data \cup {NoData} : session' = [session EXCEPT ![i] = [data |-> d, age |-> 0]]
  /\ UNCHANGED <<file, tmp, mutex, call, step>>

Begin(c) ==
  /\ call[c] = NoCall
  /\ \E op \in {"save", "load", "delete", "has", "cleanup"}, i \in Id \cup {NoId} :
       /\ (op = "cleanup") = (i = NoId)
       /\ op = "save" => session[i] # Nothing
       /\ call' = [call EXCEPT ![c] = [NoCall EXCEPT !.op = op, !.id = i]]
  /\ Goes(c, "called")
  /\ UNCHANGED <<session, file, tmp, mutex>>

Return(c) ==
  /\ call[c].answer # "open"
  /\ call' = [call EXCEPT ![c] = NoCall]
  /\ step' = [step EXCEPT ![c] = NoStep]
  /\ session' = IF call[c].op = "load" /\ call[c].answer = "yes" /\ session[call[c].id] = Nothing
                THEN [session EXCEPT ![call[c].id] = call[c].read] ELSE session
  /\ UNCHANGED <<file, tmp, mutex>>

----------------------------------------------------------------------------
(* saveSession and writeSessionToFile *)

OpenTmp(c) ==
  /\ At(c, "save", "called") /\ MutexFree
  /\ mutex' = c
  /\ tmp' = [tmp EXCEPT ![call[c].id] = [data |-> NoData, age |-> Expiration, lines |-> 0]]
  /\ Goes(c, "stamp")
  /\ UNCHANGED <<session, file, call>>
OpenFails(c) ==
  /\ "open" \in Faults
  /\ At(c, "save", "called") /\ MutexFree
  /\ Answer(c, "no") /\ Goes(c, "done")
  /\ UNCHANGED <<session, file, tmp, mutex>>

\* The session is read in two parts, and may change in between.
ReadStamp(c) ==
  /\ At(c, "save", "stamp")
  /\ call' = [call EXCEPT ![c].read = session[call[c].id]]
  /\ Goes(c, "data")
  /\ UNCHANGED <<session, file, tmp, mutex>>
ReadData(c) ==
  /\ At(c, "save", "data")
  /\ call' = [call EXCEPT ![c].read.data = session[call[c].id].data]
  /\ Goes(c, "close")
  /\ UNCHANGED <<session, file, tmp, mutex>>

\* How much of the file reaches the disk: nobody asks the stream whether it failed.
Written == IF "write" \in Faults THEN 0..Whole ELSE {Whole}
CloseTmp(c) ==
  /\ At(c, "save", "close")
  /\ \E n \in Written :
       tmp' = [tmp EXCEPT ![call[c].id] =
                 [data |-> call[c].read.data, age |-> call[c].read.age, lines |-> n]]
  /\ Goes(c, "rename")
  /\ UNCHANGED <<session, file, mutex, call>>

Rename(c) ==
  /\ At(c, "save", "rename")
  /\ file' = [file EXCEPT ![call[c].id] = tmp[call[c].id]]
  /\ tmp' = [tmp EXCEPT ![call[c].id] = Nothing]
  /\ mutex' = NoCaller
  /\ Answer(c, "yes") /\ Goes(c, "done")
  /\ UNCHANGED session
RenameFails(c) ==
  /\ "rename" \in Faults
  /\ At(c, "save", "rename")
  /\ tmp' = [tmp EXCEPT ![call[c].id] = Nothing]
  /\ mutex' = NoCaller
  /\ Answer(c, "no") /\ Goes(c, "done")
  /\ UNCHANGED <<session, file>>

----------------------------------------------------------------------------
(* Reading a file *)

\* readSessionFromFile. Restoring the data touches the session; an EXPIRATION that is not
\* in the file leaves the lifetime uninitialised, so the session is as old as chance has it.
Parsed(f) ==
  IF f.lines = 0 THEN {Nothing}
  ELSE IF f.lines = Whole
  THEN {[data |-> d, age |-> IF d = NoData THEN f.age ELSE 0] : d \in Readings(f.data)}
  ELSE {[data |-> NoData, age |-> a] : a \in IF f.lines >= 3 THEN {f.age} ELSE Ages}
ReadSession(f) ==
  IF f = Nothing THEN {Nothing}
  ELSE Parsed(f) \cup (IF "read" \in Faults THEN {Nothing} ELSE {})

\* A bug to catch: whatever the file holds, it is taken to have expired.
AnyAge(s) == TRUE
IsExpired(s) == s.age = Expiration

\* load, delete and has look for the file before they take the mutex.
Exists(c) ==
  /\ \E op \in {"load", "delete", "has"} : At(c, op, "called")
  /\ File(c) # Nothing
  /\ Goes(c, "lock")
  /\ UNCHANGED <<session, file, tmp, mutex, call>>
Missing(c) ==
  /\ \E op \in {"load", "delete", "has"} : At(c, op, "called")
  /\ File(c) = Nothing
  /\ Answer(c, "no") /\ Goes(c, "done")
  /\ UNCHANGED <<session, file, tmp, mutex>>

LoadSession(c) ==
  /\ At(c, "load", "lock") /\ MutexFree
  /\ \E s \in ReadSession(File(c)) :
       call' = [call EXCEPT ![c].read = s, ![c].answer = IF s = Nothing THEN "no" ELSE "yes"]
  /\ Goes(c, "done")
  /\ UNCHANGED <<session, file, tmp, mutex>>

DeleteSession(c) ==
  /\ At(c, "delete", "lock") /\ MutexFree
  /\ file' = [file EXCEPT ![call[c].id] = Nothing]
  /\ Answer(c, IF File(c) = Nothing THEN "no" ELSE "yes") /\ Goes(c, "done")
  /\ UNCHANGED <<session, tmp, mutex>>

HasSession(c) ==
  /\ At(c, "has", "lock") /\ MutexFree
  /\ \E s \in ReadSession(File(c)) :
       /\ file' = IF s # Nothing /\ IsExpired(s) THEN [file EXCEPT ![call[c].id] = Nothing] ELSE file
       /\ Answer(c, IF s = Nothing \/ IsExpired(s) THEN "no" ELSE "yes")
  /\ Goes(c, "done")
  /\ UNCHANGED <<session, tmp, mutex>>

----------------------------------------------------------------------------
(* cleanupExpiredSessions: one file after the other, under the mutex *)

BeginCleanup(c) ==
  /\ At(c, "cleanup", "called") /\ MutexFree
  /\ mutex' = c
  /\ step' = [step EXCEPT ![c] = [at |-> "clean", todo |-> {i \in Id : file[i] # Nothing}]]
  /\ UNCHANGED <<session, file, tmp, call>>
CleanOne(c) ==
  /\ At(c, "cleanup", "clean")
  /\ \E i \in step[c].todo :
       /\ \E s \in ReadSession(file[i]) :
            file' = IF s = Nothing \/ IsExpired(s) THEN [file EXCEPT ![i] = Nothing] ELSE file
       /\ step' = [step EXCEPT ![c].todo = @ \ {i}]
  /\ UNCHANGED <<session, tmp, mutex, call>>
EndCleanup(c) ==
  /\ At(c, "cleanup", "clean") /\ step[c].todo = {}
  /\ mutex' = NoCaller
  /\ Answer(c, "yes") /\ Goes(c, "done")
  /\ UNCHANGED <<session, file, tmp>>

----------------------------------------------------------------------------

Crash ==
  /\ session' = [i \in Id |-> Nothing]
  /\ mutex' = NoCaller
  /\ call' = [c \in Caller |-> NoCall]
  /\ step' = [c \in Caller |-> NoStep]
  /\ UNCHANGED <<file, tmp>>

\* A second passes; what is written in a file as a time grows older with it.
Tick ==
  /\ session' = [i \in Id |-> Older(session[i])]
  /\ file' = [i \in Id |-> Older(file[i])]
  /\ tmp' = [i \in Id |-> Older(tmp[i])]
  /\ call' = [c \in Caller |-> [call[c] EXCEPT !.read = Older(@)]]
  /\ UNCHANGED <<mutex, step>>

SaveStep(c) ==
  \/ OpenTmp(c) \/ OpenFails(c) \/ ReadStamp(c) \/ ReadData(c) \/ CloseTmp(c)
  \/ Rename(c) \/ RenameFails(c)
ReadStep(c) == Exists(c) \/ Missing(c) \/ LoadSession(c) \/ DeleteSession(c) \/ HasSession(c)
CleanupStep(c) == BeginCleanup(c) \/ CleanOne(c) \/ EndCleanup(c)

Next ==
  \/ \E c \in Caller : Begin(c) \/ SaveStep(c) \/ ReadStep(c) \/ CleanupStep(c) \/ Return(c)
  \/ \E i \in Id : Change(i)
  \/ Crash
  \/ Tick

Spec == Init /\ [][Next]_vars

----------------------------------------------------------------------------
(* What must hold *)

Calls == [op : {"none", "save", "load", "delete", "has", "cleanup"}, id : Id \cup {NoId},
          read : Entries \cup {Nothing}, answer : {"open", "yes", "no"}]
Places == {"idle", "called", "stamp", "data", "close", "rename", "lock", "clean", "done"}
Steps == [at : Places, todo : SUBSET Id]

\* Every variable stays in its range.
TypeOK ==
  /\ session \in [Id -> Entries \cup {Nothing}]
  /\ file \in [Id -> Contents \cup {Nothing}] /\ tmp \in [Id -> Contents \cup {Nothing}]
  /\ mutex \in Caller \cup {NoCaller}
  /\ call \in [Caller -> Calls]
  /\ step \in [Caller -> Steps]

\* Every session file is whole, whoever else saves the same session and wherever the process
\* crashes: the atomic write of SessionStorage.cpp:191.  (As long as the disk takes what is
\* written: with "write" in Faults it fails.)
WholeFiles == \A i \in Id : file[i] # Nothing => file[i].lines = Whole

\* The files are an archive whose operations are atomic, also across a crash: a load returns
\* what the last successful save stored, a failed save changes nothing, an answer is true of
\* a moment during the call, and only an expired session disappears by itself.  Data with a
\* line feed, or with a ":" in a key, is the exception: of that, a load returns what the lines
\* written for it say, and no other save's.
Stored == [i \in Id |-> IF file[i] = Nothing THEN Nothing
                        ELSE [data |-> IF file[i].lines = Whole THEN file[i].data ELSE Nothing,
                              age |-> file[i].age]]
Returned == [d \in AllData |-> IF Plain(d) THEN {d} ELSE Readings(d)]
Archive == INSTANCE SessionArchive WITH archive <- Stored
ImplementsArchive == Archive!ArchiveSpec

\* The comment at SessionStorage.cpp:282: the time of the last access is restored, so a loaded
\* session is as old as the one that was saved.
AccessRestored ==
  [][\A c \in Caller :
       (At(c, "load", "lock") /\ call'[c].answer = "yes") => call'[c].read.age = File(c).age]_vars

\* cleanupExpiredSessions (SessionStorage.h:29) removes expired sessions only.
SparesLive ==
  [][\A c \in Caller, i \in Id :
       (At(c, "cleanup", "clean") /\ file[i] # Nothing /\ file[i].age < Expiration)
          => file'[i] # Nothing]_vars

\* test_http_session.cpp:301: the data of a session that was saved comes back complete.
DataComesBack ==
  [][\A c \in Caller :
       (At(c, "load", "lock") /\ call'[c].answer = "yes") => call'[c].read.data = File(c).data]_vars

\* A temporary file belongs to a save that is under way.
NoOrphans ==
  \A i \in Id : tmp[i] # Nothing => \E c \in Caller : call[c].op = "save" /\ call[c].id = i
=============================================================================
