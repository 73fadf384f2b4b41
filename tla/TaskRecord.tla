----------------------------- MODULE TaskRecord -----------------------------
(* The status field of a task record, praxia/server/routers/tasks.py.      *)

InFlight == {"pending", "running"}
Terminal == {"done", "error", "cancelled"}
Status == InFlight \cup Terminal
=============================================================================
