----------------------------- MODULE MCAccounts -----------------------------
(* The model-checking instance of Accounts. *)
EXTENDS Accounts, TLC

CONSTANTS admin, ann, bob, annAt

MCLocalPart == [e \in {annAt} |-> ann]
MCSuffixed == [n \in {admin, ann, bob} |-> IF n = admin THEN n ELSE bob]
MCName == {admin, ann, bob}

(* What an idle thread left in its hands is overwritten before it is read. *)
View ==
    LET masked(f) == [t \in Thread |-> IF Busy(t) THEN <<f[t]>> ELSE <<>>] IN
    <<rows, todo, masked(hand), masked(change),
      [t \in Thread |-> IF Busy(t) /\ Head(todo[t]) \in {"truncate", "write"} THEN lines[t] ELSE {}],
      masked(flip), served, issued, told, calm>>

Threads == Permutations(Thread)
=============================================================================
