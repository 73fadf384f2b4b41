---------------------------- MODULE MCConnections ----------------------------
(* The model-checking instance of Connections. *)
EXTENDS Connections, TLC

Swaps == Permutations(Thread) \cup Permutations(User) \cup Permutations(Provider)

(* What a thread left in its registers and will not read again. *)
Used(t, steps) == \E i \in DOMAIN ahead[t] : ahead[t][i] \in steps

View ==
    LET kept(f, steps) == [t \in Thread |-> IF Used(t, steps) THEN <<f[t]>> ELSE <<>>] IN
    <<files, tokens, ahead, kept(flow, {"put", "pop", "open", "fill", "rename", "exchange"}),
      kept(states, {"open", "fill", "rename"}), kept(hand, Steps \ {"put"}),
      kept(lines, {"truncate", "write"}), flows, provider, clock, served, ghosts>>
=============================================================================
