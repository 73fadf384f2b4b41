------------------------------ MODULE Batches ------------------------------
(***************************************************************************)
(* Parallel fan-out: praxia/server/routers/batch.py, and the agent tools   *)
(* of praxia/agent/tools.py that create a batch and wait for one.          *)
(*                                                                         *)
(* Creating a batch saves one task record per item, then the batch record, *)
(* then starts one thread per child; a semaphore made for the batch lets   *)
(* at most max_concurrency of them run.  A child's agent may create        *)
(* batches of its own and wait for any batch of its user, its own included.*)
(*                                                                         *)
(* A save is two steps here: the payload reaches the record's one .tmp     *)
(* file, and the rename publishes whatever is in it.  The handles in       *)
(* between are the subject of module Tasks.                                *)
(***************************************************************************)
EXTENDS Integers, Sequences, FiniteSets, TaskRecord

CONSTANTS
    Batch, Task,
    Children,        \* the tasks of each batch, in the order of its items
    MaxConcurrency,  \* each request's max_concurrency, whatever the client sent
    Handler,         \* threads serving DELETE /batches/{id} and /tasks/{id}
    NoBatch,         \* "not waiting for any batch"
    MaxCrashes,      \* bound on server crashes
    MaxFaults        \* bound on OSErrors while a batch is being saved

ASSUME BatchesAssumption ==
    /\ Children \in [Batch -> Seq(Task)]
    /\ \A b \in Batch : Len(Children[b]) > 0
    /\ \A b, c \in Batch : \A i \in DOMAIN Children[b], j \in DOMAIN Children[c] :
          Children[b][i] = Children[c][j] => b = c /\ i = j
    /\ MaxConcurrency \in [Batch -> Int]
    /\ NoBatch \notin Batch /\ Batch \cap Task = {}
    /\ MaxCrashes \in Nat /\ MaxFaults \in Nat

NoFile == "nofile"
Content == Status \cup {NoFile}

Members(b) == {Children[b][i] : i \in DOMAIN Children[b]}
BatchOf(t) == CHOOSE b \in Batch : t \in Members(b)

(* threading.Semaphore(max(1, int(max_concurrency))) *)
Cap(b) == IF MaxConcurrency[b] < 1 THEN 1 ELSE MaxConcurrency[b]

VARIABLES
    file, tmp,   \* each task's <id>.json and <id>.json.tmp
    saved,       \* the batches whose record is on disk
    creator,     \* each batch's creating call: where it is ...
    next,        \* ... and the child it handles next
    thread,      \* each child's thread
    awaits,      \* the batch whose children the child's agent polls
    permits,     \* each batch's semaphore
    handler,     \* DELETE handlers: step, target, children still to cancel
    server, crashes, faults,
    disturbed    \* history: has anything been deleted?

vars == <<file, tmp, saved, creator, next, thread, awaits, permits, handler,
          server, crashes, faults, disturbed>>

Idle == [step |-> "idle", target |-> NoBatch, left |-> <<>>]

(* The thread of t is between acquiring and releasing its permit. *)
Inside == {"begin", "begun", "invoking", "awaiting", "end", "ended"}
Running(b) == {t \in Members(b) : thread[t] \in Inside}

TypeOK ==
    /\ file \in [Task -> Content] /\ tmp \in [Task -> Content]
    /\ saved \subseteq Batch
    /\ creator \in [Batch -> {"idle", "saving", "starting", "answered", "failed"}]
    /\ next \in [Batch -> Nat] /\ \A b \in Batch : next[b] \in 1 .. Len(Children[b]) + 1
    /\ thread \in [Task -> Inside \cup {"none", "queued", "over"}]
    /\ awaits \in [Task -> Batch \cup {NoBatch}]
    /\ permits \in [Batch -> Nat] /\ \A b \in Batch : permits[b] <= Cap(b)
    /\ \A h \in Handler : handler[h].step \in {"idle", "load", "put", "move", "unlink"}
    /\ server \in {"up", "down"}
    /\ crashes \in 0 .. MaxCrashes /\ faults \in 0 .. MaxFaults /\ disturbed \in BOOLEAN

Init ==
    /\ file = [t \in Task |-> NoFile] /\ tmp = [t \in Task |-> NoFile]
    /\ saved = {}
    /\ creator = [b \in Batch |-> "idle"] /\ next = [b \in Batch |-> 1]
    /\ thread = [t \in Task |-> "none"] /\ awaits = [t \in Task |-> NoBatch]
    /\ permits = [b \in Batch |-> Cap(b)]
    /\ handler = [h \in Handler |-> Idle]
    /\ server = "up" /\ crashes = 0 /\ faults = 0 /\ disturbed = FALSE

filesVars == <<file, tmp, saved>>
creatorVars == <<creator, next>>
threadVars == <<thread, awaits, permits>>
serverVars == <<server, crashes, faults, disturbed>>

-----------------------------------------------------------------------------
(* create_batch and _run_parallel_tasks.  Blank items are dropped before.  *)

Create(b) ==
    /\ server = "up" /\ creator[b] = "idle"
    /\ creator' = [creator EXCEPT ![b] = "saving"]
    /\ UNCHANGED <<filesVars, next, threadVars, handler, serverVars>>

(* Nobody else knows the new child's id yet: its save meets no other. *)
SaveChild(b) ==
    /\ creator[b] = "saving" /\ next[b] <= Len(Children[b])
    /\ file' = [file EXCEPT ![Children[b][next[b]]] = "pending"]
    /\ next' = [next EXCEPT ![b] = @ + 1]
    /\ UNCHANGED <<tmp, saved, creator, threadVars, handler, serverVars>>

SaveBatch(b) ==
    /\ creator[b] = "saving" /\ next[b] > Len(Children[b])
    /\ saved' = saved \cup {b}
    /\ creator' = [creator EXCEPT ![b] = "starting"]
    /\ next' = [next EXCEPT ![b] = 1]
    /\ UNCHANGED <<file, tmp, threadVars, handler, serverVars>>

(* An OSError of any save ends the request with what was saved so far. *)
CreateFails(b) ==
    /\ creator[b] = "saving" /\ faults < MaxFaults
    /\ creator' = [creator EXCEPT ![b] = "failed"]
    /\ faults' = faults + 1
    /\ UNCHANGED <<filesVars, next, threadVars, handler, server, crashes, disturbed>>

(* _run_batch, inside the request *)
StartChild(b) ==
    /\ creator[b] = "starting" /\ next[b] <= Len(Children[b])
    /\ thread' = [thread EXCEPT ![Children[b][next[b]]] = "queued"]
    /\ next' = [next EXCEPT ![b] = @ + 1]
    /\ UNCHANGED <<filesVars, creator, awaits, permits, handler, serverVars>>

Answer(b) ==
    /\ creator[b] = "starting" /\ next[b] > Len(Children[b])
    /\ creator' = [creator EXCEPT ![b] = "answered"]
    /\ UNCHANGED <<filesVars, next, threadVars, handler, serverVars>>

-----------------------------------------------------------------------------
(* runner: `with sem:` around _run_agent_task_threaded, whose exceptions   *)
(* are logged and dropped.                                                 *)

Goto(t, label) == thread' = [thread EXCEPT ![t] = label]

Release(t) ==
    /\ Goto(t, "over")
    /\ permits' = [permits EXCEPT ![BatchOf(t)] = @ + 1]

(* Mutant: the semaphore is not waited for when one permit is left. *)
Acquire_Unbounded(t) ==
    /\ thread[t] = "queued"
    /\ Goto(t, "begin")
    /\ permits' = [permits EXCEPT ![BatchOf(t)] = IF @ > 0 THEN @ - 1 ELSE 0]
    /\ UNCHANGED <<filesVars, creatorVars, awaits, handler, serverVars>>

Acquire(t) ==
    /\ thread[t] = "queued" /\ permits[BatchOf(t)] > 0
    /\ Goto(t, "begin")
    /\ permits' = [permits EXCEPT ![BatchOf(t)] = @ - 1]
    /\ UNCHANGED <<filesVars, creatorVars, awaits, handler, serverVars>>

Put(t, status) == tmp' = [tmp EXCEPT ![t] = status]

Move(t) ==
    /\ tmp[t] # NoFile
    /\ file' = [file EXCEPT ![t] = tmp[t]]
    /\ tmp' = [tmp EXCEPT ![t] = NoFile]

PutStatus(t) ==
    /\ \/ thread[t] = "begin" /\ Put(t, "running") /\ Goto(t, "begun")
       \/ thread[t] = "end" /\ (\E s \in {"done", "error"} : Put(t, s)) /\ Goto(t, "ended")
    /\ UNCHANGED <<file, saved, creatorVars, awaits, permits, handler, serverVars>>

(* Mutant: a save that raises leaves the semaphore down. *)
Publish_Leak(t) ==
    /\ \/ thread[t] = "begun" /\ Move(t) /\ Goto(t, "invoking") /\ UNCHANGED permits
       \/ thread[t] = "ended" /\ Move(t) /\ Release(t)
       \/ thread[t] \in {"begun", "ended"} /\ tmp[t] = NoFile /\ Goto(t, "over")
          /\ UNCHANGED <<file, tmp, permits>>
    /\ UNCHANGED <<saved, creatorVars, awaits, handler, serverVars>>

(* The permit is released once the last status is published, and when a    *)
(* save finds its .tmp renamed away and raises.                            *)
Publish(t) ==
    /\ \/ thread[t] = "begun" /\ Move(t) /\ Goto(t, "invoking") /\ UNCHANGED permits
       \/ thread[t] = "ended" /\ Move(t) /\ Release(t)
       \/ /\ thread[t] \in {"begun", "ended"} /\ tmp[t] = NoFile
          /\ Release(t) /\ UNCHANGED <<file, tmp>>
    /\ UNCHANGED <<saved, creatorVars, awaits, handler, serverVars>>

Invoked(t) ==
    /\ thread[t] = "invoking"
    /\ Goto(t, "end")
    /\ UNCHANGED <<filesVars, creatorVars, awaits, permits, handler, serverVars>>

(* The agent calls get_batch_results, which polls until every child's      *)
(* record is finished or gone, or until its deadline.  One wait stands for *)
(* all the waits of a run.                                                 *)
Await(t, b) ==
    /\ thread[t] = "invoking" /\ b \in saved
    /\ Goto(t, "awaiting")
    /\ awaits' = [awaits EXCEPT ![t] = b]
    /\ UNCHANGED <<filesVars, creatorVars, permits, handler, serverVars>>

StopAwaiting(t) ==
    /\ thread[t] = "awaiting"
    /\ Goto(t, "end")
    /\ awaits' = [awaits EXCEPT ![t] = NoBatch]
    /\ UNCHANGED <<filesVars, creatorVars, permits, handler, serverVars>>

Awaited(t) == StopAwaiting(t) /\ \A u \in Members(awaits[t]) : file[u] \notin InFlight

(* Mutant: a wait without a deadline. *)
Deadline_None(t) == StopAwaiting(t) /\ awaits[t] = NoBatch

Deadline(t) == StopAwaiting(t)

-----------------------------------------------------------------------------
(* DELETE /tasks/{id} and DELETE /batches/{id}: each task whose record is  *)
(* in flight when loaded is saved as cancelled; a task is then unlinked, a *)
(* batch's children stay and its own record is unlinked.                   *)

At(h, step) == handler[h].step = step
Then(h, step) == handler' = [handler EXCEPT ![h].step = step]
ThenNext(h) ==
    handler' = [handler EXCEPT ![h].step = "load", ![h].left = Tail(@)]

handlerRest == <<creatorVars, threadVars, serverVars>>

DeleteBatch(h, b) ==
    /\ server = "up" /\ At(h, "idle") /\ b \in saved
    /\ handler' = [handler EXCEPT ![h] = [step |-> "load", target |-> b, left |-> Children[b]]]
    /\ disturbed' = TRUE
    /\ UNCHANGED <<filesVars, creatorVars, threadVars, server, crashes, faults>>

DeleteTask(h, t) ==
    /\ server = "up" /\ At(h, "idle") /\ file[t] # NoFile
    /\ handler' = [handler EXCEPT ![h] = [step |-> IF file[t] \in InFlight THEN "put" ELSE "unlink",
                                          target |-> t, left |-> <<t>>]]
    /\ disturbed' = TRUE
    /\ UNCHANGED <<filesVars, creatorVars, threadVars, server, crashes, faults>>

Load(h) ==
    /\ At(h, "load")
    /\ IF handler[h].left = <<>> THEN Then(h, "unlink")
       ELSE IF file[Head(handler[h].left)] \in InFlight THEN Then(h, "put")
       ELSE ThenNext(h)
    /\ UNCHANGED <<filesVars, handlerRest>>

PutCancelled(h) ==
    /\ At(h, "put")
    /\ Put(Head(handler[h].left), "cancelled")
    /\ Then(h, "move")
    /\ UNCHANGED <<file, saved, handlerRest>>

(* A rename that finds no .tmp ends the request with a 500. *)
PublishCancelled(h) ==
    LET t == Head(handler[h].left) IN
    /\ At(h, "move")
    /\ \/ /\ Move(t)
          /\ IF handler[h].target \in Task THEN Then(h, "unlink") ELSE ThenNext(h)
       \/ /\ tmp[t] = NoFile
          /\ handler' = [handler EXCEPT ![h] = Idle]
          /\ UNCHANGED <<file, tmp>>
    /\ UNCHANGED <<saved, handlerRest>>

Unlink(h) ==
    LET target == handler[h].target IN
    /\ At(h, "unlink")
    /\ handler' = [handler EXCEPT ![h] = Idle]
    /\ IF target \in Task
       THEN file' = [file EXCEPT ![target] = NoFile] /\ UNCHANGED saved
       ELSE saved' = saved \ {target} /\ UNCHANGED file
    /\ UNCHANGED <<tmp, handlerRest>>

-----------------------------------------------------------------------------
Crash ==
    /\ server = "up" /\ crashes < MaxCrashes
    /\ server' = "down" /\ crashes' = crashes + 1
    /\ creator' = [b \in Batch |->
                     IF creator[b] \in {"saving", "starting"} THEN "failed" ELSE creator[b]]
    /\ thread' = [t \in Task |-> IF thread[t] = "none" THEN "none" ELSE "over"]
    /\ awaits' = [t \in Task |-> NoBatch]
    /\ permits' = [b \in Batch |-> Cap(b)]
    /\ handler' = [h \in Handler |-> Idle]
    /\ UNCHANGED <<filesVars, next, faults, disturbed>>

(* Mutant: the boot reaps only what had started. *)
Boot_RunningOnly ==
    /\ server = "down"
    /\ server' = "up"
    /\ file' = [t \in Task |-> IF file[t] = "running" THEN "error" ELSE file[t]]
    /\ UNCHANGED <<tmp, saved, creatorVars, threadVars, handler, crashes, faults, disturbed>>

(* build_router reaps every task record before the server accepts requests. *)
Boot ==
    /\ server = "down"
    /\ server' = "up"
    /\ file' = [t \in Task |-> IF file[t] \in InFlight THEN "error" ELSE file[t]]
    /\ UNCHANGED <<tmp, saved, creatorVars, threadVars, handler, crashes, faults, disturbed>>

-----------------------------------------------------------------------------
Creator(b) ==
    Create(b) \/ SaveChild(b) \/ SaveBatch(b) \/ CreateFails(b) \/ StartChild(b) \/ Answer(b)

Thread(t) ==
    \/ Acquire(t) \/ PutStatus(t) \/ Publish(t) \/ Invoked(t)
    \/ (\E b \in Batch : Await(t, b)) \/ Awaited(t) \/ Deadline(t)

Delete(h) ==
    \/ \E b \in Batch : DeleteBatch(h, b)
    \/ \E t \in Task : DeleteTask(h, t)
    \/ Load(h) \/ PutCancelled(h) \/ PublishCancelled(h) \/ Unlink(h)

Next ==
    \/ \E b \in Batch : Creator(b)
    \/ \E t \in Task : Thread(t)
    \/ \E h \in Handler : Delete(h)
    \/ Crash \/ Boot

Spec == Init /\ [][Next]_vars

(* A request that began is carried through; a thread runs and takes a      *)
(* permit that stays free; an agent run ends, and a wait ends at its       *)
(* deadline at the latest.                                                 *)
Fairness ==
    /\ \A b \in Batch : WF_vars(SaveChild(b) \/ SaveBatch(b) \/ StartChild(b) \/ Answer(b))
    /\ \A t \in Task : WF_vars(Acquire(t))
                       /\ WF_vars(PutStatus(t) \/ Publish(t) \/ Invoked(t)
                                  \/ Awaited(t) \/ Deadline(t))
    /\ \A h \in Handler : WF_vars(Load(h) \/ PutCancelled(h) \/ PublishCancelled(h) \/ Unlink(h))
    /\ WF_vars(Boot)

FairSpec == Spec /\ Fairness

-----------------------------------------------------------------------------
(* Properties. *)

(* The semaphore of a batch and the children inside it always add up to    *)
(* its size, so at most max_concurrency of them run and no permit is lost, *)
(* whatever save raises and whatever DELETE interferes.                    *)
PermitsKept ==
    \A b \in Batch : permits[b] + Cardinality(Running(b)) = Cap(b)

(* Every child whose thread was started gets its turn and ends, even if    *)
(* children wait for their own batch, or for each other's, while they hold *)
(* the permits.                                                            *)
Drains == \A t \in Task : (thread[t] = "queued") ~> (thread[t] = "over")

(* Where nothing is deleted and no save fails, every record seen in flight *)
(* becomes final: a client polling GET /batches/{id} reaches in_flight = 0. *)
Answered ==
    \A t \in Task :
        (file[t] \in InFlight) ~> (file[t] \in Terminal \/ disturbed \/ faults > 0)

StillToStart(b) ==
    \/ creator[b] = "saving"
    \/ creator[b] = "starting" /\ next[b] <= Len(Children[b])

(* Where nothing is deleted, a record in flight has a thread that will     *)
(* change it, or a request that will start that thread; children of a      *)
(* request that failed half-way wait for the next boot.                    *)
Attended ==
    server = "up" /\ ~disturbed =>
        \A t \in Task : file[t] \in InFlight =>
            \/ thread[t] \in Inside \cup {"queued"}
            \/ thread[t] = "none" /\ StillToStart(BatchOf(t))
            \/ faults > 0 /\ creator[BatchOf(t)] = "failed"

=============================================================================
