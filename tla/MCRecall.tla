------------------------------- MODULE MCRecall -------------------------------
(* The model-checking instance of Recall. *)
EXTENDS Recall, TLC

Of(kind, members, fusion, target) ==
    [kind |-> kind, members |-> members, fusion |-> fusion, target |-> target, router |-> "rule"]

MCPolicies ==
    {Of("single", <<"mem0">>, "rrf", "?"),
     Of("composite", <<"json", "mem0">>, "weighted", "mem0"),
     Of("composite", <<"mem0", "json">>, "union", "?"),
     Of("composite", <<"json", "mem0">>, "intersection", "json"),
     Of("routed", <<"json", "mem0">>, "rrf", "mem0")}

(* What a thread left in its registers and will not read again. *)
View ==
    LET kept(f, steps) == [t \in Thread |->
            IF \E i \in DOMAIN todo[t] : todo[t][i] \in steps THEN <<f[t]>> ELSE <<>>]
        chat == {"set_mode", "run", "restore"}
    IN <<shared, todo, [t \in Thread |-> IF Busy(t) \/ page[t] # NoPage THEN <<user[t]>> ELSE <<>>],
         kept(ephemeral, chat \cup {"save_mode"}), kept(saved, chat), kept(agent, {"run"}),
         kept(built, {"load", "keep", "show", "record"}), page, bounds, ghosts>>

Swaps == Permutations(Thread) \cup Permutations(User)
===============================================================================
