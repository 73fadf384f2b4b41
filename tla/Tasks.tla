------------------------------- MODULE Tasks -------------------------------
(***************************************************************************)
(* The background task queue of praxia/server/routers/tasks.py.            *)
(*                                                                         *)
(* A task is one record file and one daemon thread.  The request handler   *)
(* that creates it saves "pending" and starts the thread; the thread saves *)
(* "running", runs the agent and saves "done" or "error".  DELETE handlers *)
(* run in other threads: they load the record, save it as "cancelled" if   *)
(* it was not finished, and unlink it.  A server that dies loses its       *)
(* threads and keeps its files; the next boot reaps what was in flight.    *)
(*                                                                         *)
(* The creating handler and the thread it starts never overlap, so one     *)
(* actor, named by the task's id, stands for both.                         *)
(***************************************************************************)
EXTENDS RecordFiles, TaskRecord

CONSTANTS
    Deleter,     \* threads serving DELETE /tasks/{id}
    Poller,      \* threads serving GET /tasks/{id}; they matter on Windows only
    Reaper,      \* the booting server
    MaxTries,    \* attempts at the rename before the direct write (8 in the code)
    MaxCrashes   \* bound on server crashes

ASSUME TasksAssumption ==
    /\ Actor = Record \cup Deleter \cup Poller \cup {Reaper}
    /\ Record \cap Deleter = {} /\ Record \cap Poller = {} /\ Deleter \cap Poller = {}
    /\ Reaper \notin Record \cup Deleter \cup Poller
    /\ MaxTries \in Nat \ {0}
    /\ MaxCrashes \in Nat
    /\ {NoFile, Empty, Torn} \cap Status = {}

VARIABLES
    pc,        \* where each actor is
    rec,       \* the status in the actor's own TaskRecord
    tries,     \* failed rename attempts of the save in progress
    server,    \* "up", "down" or "booting"
    todo,      \* the record files the reaper still has to visit
    crashes,   \* how often the server died
    asked      \* history: the records a DELETE was asked for

vars == <<fileVars, pc, rec, tries, server, todo, crashes, asked>>

Saving == {"open", "write", "replace", "fallback", "rewrite", "cleanup"}

(* A worker's thread, or the handler that will start it, is running. *)
Live(r) == pc[r] \in Saving \cup {"queued", "invoking"}

TypeOK ==
    /\ FilesTypeOK(Status)
    /\ pc \in [Actor -> Saving \cup {"idle", "queued", "invoking", "finished",
                                     "dead", "unlink", "reading"}]
    /\ rec \in [Actor -> Status]
    /\ tries \in [Actor -> 0 .. MaxTries]
    /\ server \in {"up", "down", "booting"}
    /\ todo \subseteq Record
    /\ crashes \in 0 .. MaxCrashes
    /\ asked \subseteq Record

NoJobs == [a \in Actor |-> IF a \in Record THEN a ELSE NoRecord]

Init ==
    /\ FilesInit
    /\ job = NoJobs
    /\ pc = [a \in Actor |-> "idle"]
    /\ rec = [a \in Actor |-> "pending"]
    /\ tries = [a \in Actor |-> 0]
    /\ server = "up"
    /\ todo = {}
    /\ crashes = 0
    /\ asked = {}

Goto(a, label) == pc' = [pc EXCEPT ![a] = label]

serverVars == <<server, todo, crashes, asked>>

-----------------------------------------------------------------------------
(* _save: the steps every saver goes through. *)

(* Where control goes once the record is on disk. *)
AfterSave(a) ==
    IF a \in Deleter THEN "unlink"
    ELSE CASE rec[a] = "pending" -> "queued"
           [] rec[a] = "running" -> "invoking"
           [] rec[a] \in Terminal -> "finished"

SaveOpen(a) ==
    /\ pc[a] = "open"
    /\ OpenTmp(a)
    /\ Goto(a, "write")
    /\ UNCHANGED <<rec, tries, serverVars>>

SaveWrite(a) ==
    /\ pc[a] = "write"
    /\ a # Reaper
    /\ WriteOut(a, rec[a])
    /\ Goto(a, "replace")
    /\ UNCHANGED <<job, rec, tries, serverVars>>

SaveReplace(a) ==
    /\ pc[a] = "replace"
    /\ Replace(a)
    /\ Goto(a, AfterSave(a))
    /\ tries' = [tries EXCEPT ![a] = 0]
    /\ UNCHANGED <<job, rec, serverVars>>

(* Mutant: after the last attempt the save gives up as if it had succeeded. *)
SaveRetry_NoFallback(a) ==
    /\ pc[a] = "replace"
    /\ tmp[job[a]] # NoFile
    /\ ReplaceBlocked(a)
    /\ \/ /\ tries[a] + 1 < MaxTries
          /\ tries' = [tries EXCEPT ![a] = @ + 1]
          /\ UNCHANGED pc
       \/ /\ tries[a] + 1 = MaxTries
          /\ tries' = [tries EXCEPT ![a] = 0]
          /\ Goto(a, AfterSave(a))
    /\ UNCHANGED <<fileVars, rec, serverVars>>

(* PermissionError: sleep and try again, MaxTries times in all. *)
SaveRetry(a) ==
    /\ pc[a] = "replace"
    /\ tmp[job[a]] # NoFile
    /\ ReplaceBlocked(a)
    /\ \/ /\ tries[a] + 1 < MaxTries
          /\ tries' = [tries EXCEPT ![a] = @ + 1]
          /\ UNCHANGED pc
       \/ /\ tries[a] + 1 = MaxTries
          /\ tries' = [tries EXCEPT ![a] = 0]
          /\ Goto(a, "fallback")
    /\ UNCHANGED <<fileVars, rec, serverVars>>

(* FileNotFoundError, which _save does not catch: somebody else renamed    *)
(* this saver's .tmp.  The worker's thread ends; the handler answers 500.  *)
SaveFails(a) ==
    /\ pc[a] = "replace"
    /\ tmp[job[a]] = NoFile
    /\ Goto(a, IF a \in Record THEN "dead" ELSE "idle")
    /\ job' = [job EXCEPT ![a] = NoJobs[a]]
    /\ tries' = [tries EXCEPT ![a] = 0]
    /\ UNCHANGED <<windows, file, tmp, fd, rec, serverVars>>

SaveFallback(a) ==
    /\ pc[a] = "fallback"
    /\ OpenFile(a)
    /\ Goto(a, "rewrite")
    /\ UNCHANGED <<rec, tries, serverVars>>

SaveRewrite(a) ==
    /\ pc[a] = "rewrite"
    /\ WriteOut(a, rec[a])
    /\ Goto(a, "cleanup")
    /\ UNCHANGED <<job, rec, tries, serverVars>>

SaveCleanup(a) ==
    /\ pc[a] = "cleanup"
    /\ UnlinkTmp(a)
    /\ Goto(a, AfterSave(a))
    /\ UNCHANGED <<rec, tries, serverVars>>

Save(a) ==
    \/ SaveOpen(a) \/ SaveWrite(a) \/ SaveReplace(a) \/ SaveRetry(a) \/ SaveFails(a)
    \/ SaveFallback(a) \/ SaveRewrite(a) \/ SaveCleanup(a)

-----------------------------------------------------------------------------
(* The worker. *)

StartSave(a, label, status) ==
    /\ pc[a] = label
    /\ rec' = [rec EXCEPT ![a] = status]
    /\ Goto(a, "open")
    /\ UNCHANGED <<fileVars, tries, serverVars>>

(* POST /tasks/run-agent. *)
Create(r) == server = "up" /\ StartSave(r, "idle", "pending")

(* The daemon thread starts. *)
Begin(r) == StartSave(r, "queued", "running")

(* _invoke_agent returned or raised. *)
Invoke(r) == \E s \in {"done", "error"} : StartSave(r, "invoking", s)

-----------------------------------------------------------------------------
(* DELETE /tasks/{id}.  A missing or unreadable record answers 404 and     *)
(* changes nothing.                                                        *)

BeginDelete(d, r) ==
    /\ server = "up"
    /\ pc[d] = "idle"
    /\ file[r] \in Status
    /\ job' = [job EXCEPT ![d] = r]
    /\ asked' = asked \cup {r}
    /\ IF file[r] \in InFlight
       THEN Goto(d, "open") /\ rec' = [rec EXCEPT ![d] = "cancelled"]
       ELSE Goto(d, "unlink") /\ UNCHANGED rec
    /\ UNCHANGED <<windows, file, tmp, fd, tries, server, todo, crashes>>

(* Mutant: the record is marked and never unlinked. *)
FinishDelete_MarkOnly(d) ==
    /\ pc[d] = "unlink"
    /\ Goto(d, "idle")
    /\ job' = [job EXCEPT ![d] = NoRecord]
    /\ UNCHANGED <<windows, file, tmp, fd, rec, tries, serverVars>>

FinishDelete(d) ==
    /\ pc[d] = "unlink"
    /\ UnlinkFile(d, job[d])
    /\ Goto(d, "idle")
    /\ job' = [job EXCEPT ![d] = NoRecord]
    /\ UNCHANGED <<rec, tries, serverVars>>

(* A DELETE is being served for r. *)
Deleting(r) == \E d \in Deleter : job[d] = r

-----------------------------------------------------------------------------
(* GET /tasks/{id}: holds the record open while it reads. *)

PollOpen(p, r) ==
    /\ server = "up"
    /\ pc[p] = "idle"
    /\ file[r] # NoFile
    /\ job' = [job EXCEPT ![p] = r]
    /\ fd' = [fd EXCEPT ![p] = "file"]
    /\ Goto(p, "reading")
    /\ UNCHANGED <<windows, file, tmp, rec, tries, serverVars>>

PollClose(p) ==
    /\ pc[p] = "reading"
    /\ job' = [job EXCEPT ![p] = NoRecord]
    /\ fd' = [fd EXCEPT ![p] = "closed"]
    /\ Goto(p, "idle")
    /\ UNCHANGED <<windows, file, tmp, rec, tries, serverVars>>

-----------------------------------------------------------------------------
(* Crash, boot and _reap_running_on_startup. *)

Crash ==
    /\ server # "down"
    /\ crashes < MaxCrashes
    /\ server' = "down"
    /\ crashes' = crashes + 1
    /\ pc' = [a \in Actor |->
                IF a \in Record /\ pc[a] \notin {"idle", "finished"} THEN "dead"
                ELSE IF a \in Record THEN pc[a] ELSE "idle"]
    /\ job' = NoJobs
    /\ fd' = [a \in Actor |-> "closed"]
    /\ tries' = [a \in Actor |-> 0]
    /\ todo' = {}
    /\ UNCHANGED <<windows, file, tmp, rec, asked>>

(* Mutant: the reaper starts without looking at the directory. *)
Boot_NoReap ==
    /\ server = "down"
    /\ server' = "booting"
    /\ todo' = {}
    /\ UNCHANGED <<fileVars, pc, rec, tries, crashes, asked>>

Boot ==
    /\ server = "down"
    /\ server' = "booting"
    /\ todo' = {r \in Record : file[r] # NoFile}
    /\ UNCHANGED <<fileVars, pc, rec, tries, crashes, asked>>

(* Mutant: only "running" counts as in flight. *)
ReapSkip_PendingToo(r) ==
    /\ server = "booting" /\ pc[Reaper] = "idle"
    /\ r \in todo
    /\ file[r] # "running"
    /\ todo' = todo \ {r}
    /\ UNCHANGED <<fileVars, pc, rec, tries, server, crashes, asked>>

(* Unreadable and finished records are passed over. *)
ReapSkip(r) ==
    /\ server = "booting" /\ pc[Reaper] = "idle"
    /\ r \in todo
    /\ file[r] \notin InFlight
    /\ todo' = todo \ {r}
    /\ UNCHANGED <<fileVars, pc, rec, tries, server, crashes, asked>>

(* Mutant: an interrupted task is put back in the queue nobody serves. *)
ReapOpen_Requeue(r) ==
    /\ server = "booting" /\ pc[Reaper] = "idle"
    /\ r \in todo
    /\ file[r] \in InFlight
    /\ file' = [file EXCEPT ![r] = Empty]
    /\ job' = [job EXCEPT ![Reaper] = r]
    /\ fd' = [fd EXCEPT ![Reaper] = "file"]
    /\ rec' = [rec EXCEPT ![Reaper] = "pending"]
    /\ Goto(Reaper, "write")
    /\ UNCHANGED <<windows, tmp, tries, serverVars>>

ReapOpen(r) ==
    /\ server = "booting" /\ pc[Reaper] = "idle"
    /\ r \in todo
    /\ file[r] \in InFlight
    /\ file' = [file EXCEPT ![r] = Empty]
    /\ job' = [job EXCEPT ![Reaper] = r]
    /\ fd' = [fd EXCEPT ![Reaper] = "file"]
    /\ rec' = [rec EXCEPT ![Reaper] = "error"]
    /\ Goto(Reaper, "write")
    /\ UNCHANGED <<windows, tmp, tries, serverVars>>

ReapWrite ==
    /\ pc[Reaper] = "write"
    /\ file' = [file EXCEPT ![job[Reaper]] = rec[Reaper]]
    /\ todo' = todo \ {job[Reaper]}
    /\ job' = [job EXCEPT ![Reaper] = NoRecord]
    /\ fd' = [fd EXCEPT ![Reaper] = "closed"]
    /\ Goto(Reaper, "idle")
    /\ UNCHANGED <<windows, tmp, rec, tries, server, crashes, asked>>

BootDone ==
    /\ server = "booting" /\ pc[Reaper] = "idle"
    /\ todo = {}
    /\ server' = "up"
    /\ UNCHANGED <<fileVars, pc, rec, tries, todo, crashes, asked>>

-----------------------------------------------------------------------------
Worker(r) == Create(r) \/ Begin(r) \/ Invoke(r) \/ Save(r)

Delete(d) == (\E r \in Record : BeginDelete(d, r)) \/ Save(d) \/ FinishDelete(d)

Poll(p) == (\E r \in Record : PollOpen(p, r)) \/ PollClose(p)

Reap == (\E r \in Record : ReapSkip(r) \/ ReapOpen(r)) \/ ReapWrite

Next ==
    \/ \E r \in Record : Worker(r)
    \/ \E d \in Deleter : Delete(d)
    \/ \E p \in Poller : Poll(p)
    \/ Crash \/ Boot \/ Reap \/ BootDone

Spec == Init /\ [][Next]_vars

(* Threads get scheduled, an agent run returns or raises, a handler that   *)
(* has begun goes on, and a supervisor restarts a dead server.  Nothing    *)
(* obliges a client to create, delete or poll.                             *)
Fairness ==
    /\ \A r \in Record : WF_vars(Begin(r) \/ Invoke(r) \/ Save(r))
    /\ \A d \in Deleter : WF_vars(Save(d) \/ FinishDelete(d))
    /\ \A p \in Poller : WF_vars(PollClose(p))
    /\ WF_vars(Boot \/ Reap \/ BootDone)

FairSpec == Spec /\ Fairness

-----------------------------------------------------------------------------
(* Properties. *)

(* Whenever the server accepts requests, a record that says "pending" or   *)
(* "running" has somebody who will still change it: its worker, or a       *)
(* DELETE that is about to unlink it.  A client polling GET /tasks/{id} is *)
(* never left waiting on a task nobody works on.  (On Windows it can be:   *)
(* the README says how.)                                                   *)
Attended ==
    server = "up" /\ ~windows =>
        \A r \in Record : file[r] \in InFlight => Live(r) \/ Deleting(r)

(* A client that saw a final status, "cancelled" included, never sees the  *)
(* task in flight again, unless a DELETE of it is still being served.  (On *)
(* Windows a poll can block the DELETE's unlink, and a worker that had not *)
(* begun yet then takes "cancelled" back.)                                 *)
NoRevival ==
    [][\A r \in Record :
          ~windows /\ file[r] \in Terminal /\ file'[r] \in InFlight => Deleting(r)]_vars

(* Polling ends: a task seen in flight stops being in flight, through its  *)
(* worker, a DELETE or the reaper of a later boot.                         *)
Answered ==
    \A r \in Record : (file[r] \in InFlight /\ ~windows) ~> (file[r] \notin InFlight)

(* Where nobody asked for a DELETE, the status a worker ended with is what *)
(* its record says, however often polls blocked the rename: the retries    *)
(* and the direct write of _save lose no result, and no boot takes it back. *)
ResultKept ==
    \A r \in Record \ asked : pc[r] = "finished" => file[r] = rec[r]

(* What a client that polls r and asked for no DELETE can tell.  While a   *)
(* record is rewritten in place it still counts as what it said before;    *)
(* one the reaper is rewriting counts as running.                          *)
Prior(status) ==
    IF status = "pending" THEN "absent" ELSE IF status = "running" THEN "pending" ELSE "running"

Phase(r) ==
    IF r \in asked THEN "withdrawn"
    ELSE IF file[r] = NoFile THEN "absent"
    ELSE IF file[r] \notin Unreadable THEN file[r]
    ELSE IF job[Reaper] = r THEN "running"
    ELSE IF pc[r] = "rewrite" THEN Prior(rec[r]) ELSE "lost"

Promise == INSTANCE TaskLifecycle WITH Task <- Record, phase <- [r \in Record |-> Phase(r)]

(* The task queue keeps the promise TaskLifecycle makes to whoever polls:  *)
(* the saves, retries, direct writes, crashes and the reaping together     *)
(* show pending, running and one result, in that order and for good, and   *)
(* no task is left waiting; only a crash in the middle of a rewrite loses  *)
(* a record, and never one that had its result.                            *)
Lifecycle == Promise!FairLifecycle

=============================================================================
