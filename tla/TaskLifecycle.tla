--------------------------- MODULE TaskLifecycle ---------------------------
(***************************************************************************)
(* What the task queue promises to a client that polls a task: it is       *)
(* pending, then running, then has one result for good.  A client may      *)
(* withdraw it at any time, after which nothing more is promised.  A       *)
(* server that dies while it writes a record that has no result yet may    *)
(* leave a record nobody can read.                                         *)
(*                                                                         *)
(* Tasks implements this: Tasks!Lifecycle.                                 *)
(***************************************************************************)
CONSTANT Task

VARIABLE phase

Results == {"done", "error"}
Waiting == {"pending", "running"}

LifecycleInit == phase = [t \in Task |-> "absent"]

Enter(t, from, to) == phase[t] \in from /\ phase' = [phase EXCEPT ![t] = to]

Submit(t) == Enter(t, {"absent"}, "pending")

Start(t) == Enter(t, {"pending"}, "running")

(* The agent answered or failed, or the task was found interrupted. *)
Conclude(t) == \E result \in Results : Enter(t, Waiting, result)

Withdraw(t) == Enter(t, Waiting \cup Results, "withdrawn")

(* One crash, several records in the middle of a rewrite. *)
Lose(lost) ==
    /\ \A t \in lost : phase[t] \in {"absent"} \cup Waiting
    /\ phase' = [t \in Task |-> IF t \in lost THEN "lost" ELSE phase[t]]

LifecycleNext ==
    \/ \E t \in Task : Submit(t) \/ Start(t) \/ Conclude(t) \/ Withdraw(t)
    \/ \E lost \in SUBSET Task : Lose(lost)

LifecycleSpec == LifecycleInit /\ [][LifecycleNext]_phase

(* A task that was taken in is not left waiting. *)
LifecycleFairness == \A t \in Task : WF_phase(Start(t) \/ Conclude(t))

FairLifecycle == LifecycleSpec /\ LifecycleFairness
=============================================================================
