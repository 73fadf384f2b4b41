---------------------------- MODULE MCDocuments ----------------------------
(* The model-checking instance of Documents. *)
EXTENDS Documents, TLC

Swaps == Permutations(Client) \cup Permutations(Text) \cup Permutations(File)

(* What an idle thread left in its registers is overwritten before it is read. *)
View ==
    LET kept(f) == [t \in Thread |-> IF Busy(t) THEN <<f[t]>> ELSE <<>>] IN
    <<disk, todo, kept(seen), kept(mine), kept(hand), kept(opened), loop, sweep, meters, ghosts>>
=============================================================================
