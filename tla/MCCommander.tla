---------------------------- MODULE MCCommander ----------------------------
(* The model-checking instance of Commander: up to two sub-queries, four   *)
(* rounds, one or two claims, a draft that cites and one that does not.    *)
EXTENDS Commander

CONSTANTS t1, t2, c1, c2, search

Claim(score, ids) == [score |-> score, ids |-> ids]

(* Accepted, accepted without and with a phantom source, redrafts at       *)
(* several levels, one of them with an unsupported claim that is cited,    *)
(* a refusal, no claims at all.                                            *)
MCAnswers ==
    { << Claim(100, {<<"L1", 0>>}), Claim(NaN, {<<"D", 0>>}) >>,
      << Claim(80, {}) >>,
      << Claim(90, {<<"X", 7>>}) >>,
      << Claim(44, {<<"L1", 0>>}) >>,
      << Claim(50, {<<"L1", 0>>}) >>,
      << Claim(55, {<<"L1", 0>>, <<"X", 7>>}) >>,
      << Claim(100, {<<"L1", 0>>}), Claim(40, {<<"D", 0>>}) >>,
      << Claim(70, {<<"D", 0>>}), Claim(-20, {}) >>,
      << >> }

Hits(personal, documents) ==
    [layer \in {"L1", "L3", "L4", "D"} |->
        CASE layer = "L1" -> personal [] layer = "D" -> documents [] OTHER -> << >>]

MCRetrievals ==
    { << Hits(<< >>, << >>) >>,
      << Hits(<<c1, NoHit, c2>>, <<c1>>) >>,
      << Hits(<<c1>>, <<c2>>), Hits(<<c2, c1>>, << >>) >> }

(* Blocking to the end, blocking but forwarding the last draft, advisory. *)
MCConfigs ==
    { [blocking |-> TRUE, abstains |-> TRUE, fallback |-> FALSE, footer |-> FALSE],
      [blocking |-> TRUE, abstains |-> FALSE, fallback |-> TRUE, footer |-> TRUE],
      [blocking |-> FALSE, abstains |-> FALSE, fallback |-> TRUE, footer |-> TRUE] }

MCChunk == {c1, c2, NoHit}

MCMentions(text) == IF text = t1 THEN {<<"L1", 0>>} ELSE {}

MCHistory == << [role |-> "user", calls |-> << >>], [role |-> "assistant", calls |-> << >>] >>
=============================================================================
