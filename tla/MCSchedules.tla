---------------------------- MODULE MCSchedules ----------------------------
(* The model-checking instance of Schedules: a cron expression that matches *)
(* every minute, one that matches some and then never again, and            *)
(* the PATCH bodies that tell the properties apart.                         *)
EXTENDS Schedules

CONSTANTS s1, h1, ticker, always, odd

MCActor == Handler \cup {Ticker}

MCMatches ==
    [c \in Cron |-> IF c = always THEN 1 .. MaxTime + 2 ELSE {m \in 1 .. MaxTime + 1 : m % 2 = 1}]

Pause == [cron |-> Unset, enabled |-> FALSE]
RetimeOn == [cron |-> odd, enabled |-> TRUE]
Edits == {Pause, RetimeOn}
=============================================================================
