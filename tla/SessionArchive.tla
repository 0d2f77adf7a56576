-------------------------- MODULE SessionArchive ---------------------------
(***************************************************************************)
(* What a session storage that outlives the process promises: every call   *)
(* takes effect at one moment between its beginning and its return; a save *)
(* stores what the session held during the call, all of it or nothing; a   *)
(* stored session leaves the archive only by a delete or once it has       *)
(* expired; a crash ends the calls and the sessions in memory, and the     *)
(* archive stays.  SessionFiles.tla is the specification that implements   *)
(* this one.                                                               *)
(***************************************************************************)
EXTENDS Naturals

CONSTANTS
  Id, Caller, Data, Expiration, NoId, NoData, Nothing,
  Returned  \* per data that is stored: what a load can make of it

VARIABLES
  session,  \* per id: the session in memory, its data and the seconds since its last access
  archive,  \* per id: the stored session
  call      \* per caller: the operation, the session it has read, its answer

archiveVars == <<session, archive, call>>

Ages == 0..Expiration
Older(s) == IF s = Nothing \/ s.age = Expiration THEN s ELSE [s EXCEPT !.age = @ + 1]
Expired(s) == s # Nothing /\ s.age = Expiration

NoCall == [op |-> "none", id |-> NoId, read |-> Nothing, answer |-> "open"]
Asks(c, op) == call[c].op = op /\ call[c].answer = "open"
Answer(c, a) == call' = [call EXCEPT ![c].answer = a, ![c].read = Nothing]

ArchiveInit ==
  /\ session = [i \in Id |-> Nothing]
  /\ archive = [i \in Id |-> Nothing]
  /\ call = [c \in Caller |-> NoCall]

\* The program creates a session or changes its data.
Change(i) ==
  /\ \E d \in Data \cup {NoData} : session' = [session EXCEPT ![i] = [data |-> d, age |-> 0]]
  /\ UNCHANGED <<archive, call>>

Begin(c) ==
  /\ call[c] = NoCall
  /\ \E op \in {"save", "load", "delete", "has", "cleanup"}, i \in Id \cup {NoId} :
       /\ (op = "cleanup") = (i = NoId)
       /\ op = "save" => session[i] # Nothing
       /\ call' = [call EXCEPT ![c] = [NoCall EXCEPT !.op = op, !.id = i]]
  /\ UNCHANGED <<session, archive>>

\* A save reads the session, and may take it for older than it is.
Capture(c) ==
  /\ Asks(c, "save") /\ session[call[c].id] # Nothing
  /\ \E a \in session[call[c].id].age..Expiration :
       call' = [call EXCEPT ![c].read = [session[call[c].id] EXCEPT !.age = a]]
  /\ UNCHANGED <<session, archive>>
Commit(c) ==
  /\ Asks(c, "save") /\ call[c].read # Nothing
  /\ archive' = [archive EXCEPT ![call[c].id] = call[c].read]
  /\ Answer(c, "yes")
  /\ UNCHANGED session
Refuse(c) ==
  /\ Asks(c, "save")
  /\ Answer(c, "no")
  /\ UNCHANGED <<session, archive>>

\* A load returns the data that is stored, or what that reads like; it never makes a session
\* older.
Load(c) ==
  /\ Asks(c, "load")
  /\ LET stored == archive[call[c].id]
     IN  IF stored = Nothing THEN Answer(c, "no")
         ELSE \E a \in 0..stored.age, d \in Returned[stored.data] :
                call' = [call EXCEPT ![c].read = [data |-> d, age |-> a], ![c].answer = "yes"]
  /\ UNCHANGED <<session, archive>>

Delete(c) ==
  /\ Asks(c, "delete")
  /\ archive' = [archive EXCEPT ![call[c].id] = Nothing]
  /\ Answer(c, IF archive[call[c].id] = Nothing THEN "no" ELSE "yes")
  /\ UNCHANGED session

Has(c) ==
  /\ Asks(c, "has")
  /\ \/ archive[call[c].id] # Nothing /\ Answer(c, "yes") /\ UNCHANGED archive
     \/ archive[call[c].id] = Nothing /\ Answer(c, "no") /\ UNCHANGED archive
     \/ /\ Expired(archive[call[c].id]) /\ Answer(c, "no")
        /\ archive' = [archive EXCEPT ![call[c].id] = Nothing]
  /\ UNCHANGED session

Purge(c, i) ==
  /\ Asks(c, "cleanup") /\ Expired(archive[i])
  /\ archive' = [archive EXCEPT ![i] = Nothing]
  /\ UNCHANGED <<session, call>>
Cleaned(c) ==
  /\ Asks(c, "cleanup")
  /\ Answer(c, "yes")
  /\ UNCHANGED <<session, archive>>

\* The program takes a loaded session over, unless it has one of that id.
Return(c) ==
  /\ call[c].answer # "open"
  /\ call' = [call EXCEPT ![c] = NoCall]
  /\ session' = IF call[c].op = "load" /\ call[c].answer = "yes" /\ session[call[c].id] = Nothing
                THEN [session EXCEPT ![call[c].id] = call[c].read] ELSE session
  /\ UNCHANGED archive

Crash ==
  /\ session' = [i \in Id |-> Nothing]
  /\ call' = [c \in Caller |-> NoCall]
  /\ UNCHANGED archive

Tick ==
  /\ session' = [i \in Id |-> Older(session[i])]
  /\ archive' = [i \in Id |-> Older(archive[i])]
  /\ call' = [c \in Caller |-> [call[c] EXCEPT !.read = Older(@)]]

ArchiveNext ==
  \/ \E c \in Caller :
       \/ Begin(c) \/ Capture(c) \/ Commit(c) \/ Refuse(c) \/ Load(c) \/ Delete(c) \/ Has(c)
       \/ Cleaned(c) \/ Return(c) \/ \E i \in Id : Purge(c, i)
  \/ \E i \in Id : Change(i)
  \/ Crash
  \/ Tick

ArchiveSpec == ArchiveInit /\ [][ArchiveNext]_archiveVars
=============================================================================
