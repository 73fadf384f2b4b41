----------------------------- MODULE Promotion -----------------------------
(***************************************************************************)
(* From personal memory to a promotion verdict:                            *)
(* praxia/memory/promoter.py and the grouping half of                      *)
(* praxia/memory/consolidator.py.  Scores are per cent.                    *)
(***************************************************************************)
EXTENDS Selection, SequencesExt

CONSTANTS
    AutoThreshold,     \* per cent; 70 from Praxia.consolidate, 75 by default
    ReviewThreshold,   \* 50
    MinSources,        \* min_independent_sources, 2
    RequireVerification

ASSUME PromotionAssumption ==
    /\ AutoThreshold \in Nat /\ ReviewThreshold \in 0 .. AutoThreshold
    /\ MinSources \in Nat \ {0}
    /\ RequireVerification \in BOOLEAN

(* DEFAULT_WEIGHTS *)
WeightFreq == 50
WeightOutcome == 40
WeightSelf == 10

(* The model's opinion and breadth alone do not reach the bar: true of     *)
(* both thresholds in use.                                                 *)
ASSUME ThresholdAssumption == WeightFreq + WeightSelf < AutoThreshold

NoOutcome == -1        \* outcome_correlation is None
Checks == {"none", "passed", "failed"}   \* no verifier, or what it says

-----------------------------------------------------------------------------
(* Candidates: entries of one kind that share a key term, by index. *)

Episodes(entries) == {i \in DOMAIN entries : entries[i].kind # "outcome"}

(* The bucket of an episode. *)
Group(entries, i) ==
    {j \in Episodes(entries) : entries[j].kind = entries[i].kind /\ entries[j].term = entries[i].term}

(* Outcomes recorded for the episodes of a group. *)
OutcomesOf(entries, group) ==
    {o \in DOMAIN entries :
        entries[o].kind = "outcome" /\ \E i \in group : entries[o].term = entries[i].id}

Correlation(entries, group) ==
    LET linked == OutcomesOf(entries, group)
        won == {o \in linked : entries[o].success}
    IN  IF linked = {} THEN NoOutcome ELSE (100 * Cardinality(won)) \div Cardinality(linked)

(* The candidate of a bucket, named after its first entry. *)
Candidate(entries, first) ==
    LET group == Group(entries, first) IN
    [label |-> entries[first].label, users |-> {entries[i].user : i \in group},
     outcome |-> Correlation(entries, group)]

(* _cluster_candidates: buckets in the order of their first entry, those   *)
(* with fewer than two entries left out.                                   *)
Candidates(entries) ==
    LET firsts == {i \in Episodes(entries) :
                     Cardinality(Group(entries, i)) >= 2 /\ \A j \in Group(entries, i) : i <= j}
    IN  [n \in 1 .. Cardinality(firsts) |-> Candidate(entries, Nth(firsts, n))]

-----------------------------------------------------------------------------
(* PromotionEngine.evaluate *)

Clamp(x) == IF x < 0 THEN 0 ELSE IF x > 100 THEN 100 ELSE x

(* _score_frequency: 0 for a single user, else 1.2 times the share. *)
Frequency(unique, total) ==
    IF unique <= 1 \/ total <= 0 THEN 0
    ELSE Clamp((120 * unique) \div (IF total < 3 THEN 3 ELSE total))

(* Times 100, so that weights are whole numbers.  The LLM's own score is   *)
(* taken as it comes.                                                      *)
Score(candidate, self) ==
    LET unique == Cardinality(candidate.users) IN
    WeightFreq * Frequency(unique, unique)
      + WeightOutcome * (IF candidate.outcome = NoOutcome THEN 0 ELSE Clamp(candidate.outcome))
      + WeightSelf * self

Verified(check) == IF check = "none" /\ RequireVerification THEN "failed" ELSE check

(* Mutant: the verifier is asked and not listened to. *)
Evaluate_NoVerification(candidate, self, check) ==
    IF Score(candidate, self) >= 100 * AutoThreshold
    THEN IF Cardinality(candidate.users) < MinSources THEN "review" ELSE "auto_promote"
    ELSE IF Score(candidate, self) >= 100 * ReviewThreshold THEN "review" ELSE "skip"

(* The consolidator passes the number of contributors as the total. *)
Evaluate(candidate, self, check) ==
    IF Verified(check) = "failed" THEN "skip"
    ELSE IF Score(candidate, self) >= 100 * AutoThreshold
    THEN IF Cardinality(candidate.users) < MinSources THEN "review" ELSE "auto_promote"
    ELSE IF Score(candidate, self) >= 100 * ReviewThreshold THEN "review" ELSE "skip"
=============================================================================
