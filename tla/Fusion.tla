-------------------------------- MODULE Fusion --------------------------------
(***************************************************************************)
(* How a search over several memory backends makes one list of their       *)
(* answers: the fusion strategies of praxia/memory/composite.py, pure, and *)
(* without recursive operators, so that facts about them can be proved.    *)
(*                                                                         *)
(* An answer is the sequence of the records a backend found, best first,   *)
(* none twice.  Answers come in the order in which the backends finished,  *)
(* which is the insertion order of the dictionary they are fused from; a   *)
(* backend that failed has answered with nothing.  The policy gives every  *)
(* backend the weight 1, asks for agreement of two, and passes no rerank   *)
(* function.                                                               *)
(***************************************************************************)
EXTENDS Integers, Sequences, SequencesExt

MinAgreement == 2
RrfK == 60

Found(answers) == UNION {ToSet(answers[i]) : i \in DOMAIN answers}

Naming(answers, x) == {i \in DOMAIN answers : Contains(answers[i], x)}

Rank(hits, x) == CHOOSE k \in DOMAIN hits : hits[k] = x

(* A dictionary keeps the records in the order in which it saw them first. *)
First(answers, x) ==
    CHOOSE i \in Naming(answers, x) : \A j \in Naming(answers, x) : i <= j

Seen(answers) ==
    {p \in Found(answers) \X Found(answers) :
        LET i == First(answers, p[1])
            j == First(answers, p[2])
        IN i < j \/ (i = j /\ Rank(answers[i], p[1]) < Rank(answers[i], p[2]))}

(* Scores are fractions <<a, b>> with b > 0, compared by cross-multiplying. *)
(* The code's are floats: they compare alike where one backend names a     *)
(* record, as in Recall, and its score is one term; of sums of several     *)
(* terms that are level, rounding may put either first.                    *)
Plus(p, q) == <<p[1] * q[2] + q[1] * p[2], p[2] * q[2]>>
Below(p, q) == p[1] * q[2] < q[1] * p[2]
Level(p, q) == p[1] * q[2] = q[1] * p[2]

(* Mutant: the normalized rank without its "1 -", so the worst hit leads. *)
Points_WorstFirst(strategy, n, rank) ==
    IF strategy = "weighted" THEN <<rank - 1, n>> ELSE <<1, RrfK + rank>>

(* 1 - (rank - 1) / n, and weight / (k + rank). *)
Points(strategy, n, rank) ==
    IF strategy = "weighted" THEN <<n - (rank - 1), n>> ELSE <<1, RrfK + rank>>

Gain(strategy, hits, x) ==
    IF Contains(hits, x) THEN Points(strategy, Len(hits), Rank(hits, x)) ELSE <<0, 1>>

FusedScore(strategy, answers, x) ==
    LET sum[i \in 0 .. Len(answers)] ==
            IF i = 0 THEN <<0, 1>> ELSE Plus(sum[i - 1], Gain(strategy, answers[i], x))
    IN sum[Len(answers)]

(* sorted(..., reverse=True) keeps records of one score in their order. *)
Ahead(strategy, answers) ==
    IF strategy \in {"union", "intersection"} THEN Seen(answers)
    ELSE LET score == [x \in Found(answers) |-> FusedScore(strategy, answers, x)] IN
         {p \in Found(answers) \X Found(answers) :
            \/ Below(score[p[2]], score[p[1]])
            \/ Level(score[p[2]], score[p[1]]) /\ p \in Seen(answers)}

Kept(strategy, answers) ==
    IF strategy = "intersection"
    THEN {x \in Found(answers) : Cardinality(Naming(answers, x)) >= MinAgreement}
    ELSE Found(answers)

(* The members of S, the one that k - 1 others go ahead of at place k. *)
Arranged(S, ahead) ==
    [k \in 1 .. Cardinality(S) |->
        CHOOSE x \in S : Cardinality({y \in S : <<y, x>> \in ahead}) = k - 1]

Cut(s, limit) == SubSeq(s, 1, IF limit < Len(s) THEN limit ELSE Len(s))

(* CompositeBackend._fuse *)
Fuse(strategy, answers, limit) ==
    Cut(Arranged(Kept(strategy, answers), Ahead(strategy, answers)), limit)
=============================================================================
