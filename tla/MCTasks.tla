------------------------------ MODULE MCTasks ------------------------------
(* The model-checking instance of Tasks: model values for task ids and      *)
(* request threads, and the set of all actors.                              *)
EXTENDS Tasks

CONSTANTS t1, t2, d1, d2, p1, reaper

MCActor == Record \cup Deleter \cup Poller \cup {Reaper}
=============================================================================
