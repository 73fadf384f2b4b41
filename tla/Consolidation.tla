--------------------------- MODULE Consolidation ---------------------------
(***************************************************************************)
(* The sleep-time consolidation, praxia/memory/consolidator.py: one writer *)
(* of the shared memory (module SharedBlocks) that reads a personal        *)
(* memory, groups it into candidates, has each judged (module Promotion)   *)
(* and promotes, queues or skips it.  The other writers are callers of     *)
(* upsert, append_to_block and remove: the SDK, the UI, another server.    *)
(***************************************************************************)
EXTENDS SharedBlocks, Promotion

CONSTANTS
    Consolidator,   \* the writer that runs consolidations
    Memories,       \* what personal.all_entries() may hold
    SelfScores,     \* what the LLM may answer, per cent
    MaxRuns         \* bound on consolidations

ASSUME ConsolidationAssumption ==
    /\ Consolidator \in Writer
    /\ IsFiniteSet(Contributor)
    /\ \A m \in Memories :
          m \in Seq(ToSet(m)) /\ \A e \in ToSet(m) : e.user \in Contributor /\ e.label \in Label
    /\ SelfScores \subseteq Int
    /\ MaxRuns \in Nat

VARIABLES
    entries,    \* the personal memory
    candidates, \* those the run has not come to; <<>> outside a run
    stage,      \* "off", "run"
    queue,      \* the review directory: a verdict per timestamp
    verdict,    \* the last verdict reached
    runs

runVars == <<entries, candidates, stage, queue, verdict, runs>>
consolidationVars == <<blocksVars, runVars>>

Unjudged == [outcome |-> NoOutcome, users |-> {}, self |-> 0, check |-> "none", decision |-> "skip"]

ConsolidationTypeOK ==
    /\ BlocksTypeOK
    /\ entries \in Memories
    /\ stage \in {"off", "run"} /\ (stage = "off" => candidates = <<>>)
    /\ \A i \in DOMAIN candidates : candidates[i].users \subseteq Contributor /\ candidates[i].label \in Label
    /\ \A t \in DOMAIN queue : t \in Time /\ queue[t].decision = "review"
    /\ verdict.decision \in {"auto_promote", "review", "skip"}
    /\ runs \in 0 .. MaxRuns

ConsolidationInit ==
    /\ BlocksInit
    /\ entries \in Memories
    /\ candidates = <<>> /\ stage = "off" /\ queue = <<>> /\ verdict = Unjudged /\ runs = 0

-----------------------------------------------------------------------------
(* run() *)

Start ==
    /\ stage = "off" /\ pc[Consolidator] = "idle" /\ runs < MaxRuns
    /\ stage' = "run" /\ runs' = runs + 1
    /\ candidates' = Candidates(entries)
    /\ UNCHANGED <<blocksVars, entries, queue, verdict>>

Turn == stage = "run" /\ candidates # <<>> /\ pc[Consolidator] = "idle"

(* PromotionEngine.evaluate on the next candidate. *)
Judge(decision) ==
    \E self \in SelfScores, check \in Checks :
        /\ decision = Evaluate(Head(candidates), self, check)
        /\ verdict' = [outcome |-> Head(candidates).outcome, users |-> Head(candidates).users,
                       self |-> self, check |-> check, decision |-> decision]

(* The label's block is superseded, or read-only: PermissionError ends the *)
(* run with the remaining candidates unseen.                               *)
Promote ==
    LET c == Head(candidates) refused == pc'[Consolidator] = "idle" IN
    /\ Turn /\ Judge("auto_promote")
    /\ Upsert(Consolidator, c.label, c.users, TRUE)
    /\ candidates' = IF refused THEN <<>> ELSE Tail(candidates)
    /\ stage' = IF refused THEN "off" ELSE "run"
    /\ UNCHANGED <<entries, queue, runs>>

(* One file per millisecond of the clock; a second one replaces the first. *)
Enqueue ==
    /\ Turn /\ Judge("review")
    /\ queue' = [t \in DOMAIN queue \cup {now} |-> IF t = now THEN verdict' ELSE queue[t]]
    /\ candidates' = Tail(candidates)
    /\ UNCHANGED <<blocksVars, entries, stage, runs>>

SkipCandidate ==
    /\ Turn /\ Judge("skip")
    /\ candidates' = Tail(candidates)
    /\ UNCHANGED <<blocksVars, entries, stage, queue, runs>>

Finish ==
    /\ stage = "run" /\ candidates = <<>> /\ pc[Consolidator] = "idle"
    /\ stage' = "off"
    /\ UNCHANGED <<blocksVars, entries, candidates, queue, verdict, runs>>

(* The process that dies takes its run with it. *)
DieInRun ==
    /\ Die(Consolidator)
    /\ candidates' = <<>> /\ stage' = "off"
    /\ UNCHANGED <<entries, queue, verdict, runs>>

-----------------------------------------------------------------------------
Caller(w) ==
    \/ \E l \in Label : Upsert(w, l, {}, FALSE) \/ AppendToBlock(w, l) \/ RemoveLabel(w, l)
    \/ CheckAppended(w) \/ Die(w)

Saves(w) == Merge(w) \/ TruncateFile(w) \/ WriteFile(w)

ConsolidationNext ==
    \/ Start \/ Promote \/ Enqueue \/ SkipCandidate \/ Finish \/ DieInRun
    \/ (\E w \in Writer : Saves(w)) /\ UNCHANGED runVars
    \/ (\E w \in Writer \ {Consolidator} : Caller(w)) /\ UNCHANGED runVars
    \/ Tick /\ UNCHANGED runVars

ConsolidationSpec == ConsolidationInit /\ [][ConsolidationNext]_consolidationVars

-----------------------------------------------------------------------------
(* What stands in the shared memory as promoted passed both gates: no      *)
(* single user's pattern, nothing the verifier refused; and the model's    *)
(* own opinion, on its scale of 0..1, did not carry it without outcomes.   *)
PromotionsEarned ==
    /\ \A b \in ToSet(file) : b.auto => Cardinality(b.users) >= MinSources
    /\ verdict.decision = "auto_promote" =>
          /\ Cardinality(verdict.users) >= MinSources
          /\ verdict.check # "failed"
          /\ RequireVerification => verdict.check = "passed"
          /\ verdict.self \in 0 .. 100 => verdict.outcome # NoOutcome

(* consolidator.py, "Auto-promotes high-confidence candidates to           *)
(* SharedMemory": a candidate all of whose outcomes were successes, that   *)
(* the model rates 1.0 and no verifier refuses, is promoted.               *)
HighConfidencePromoted ==
    verdict.outcome = 100 /\ verdict.self = 100 /\ verdict.check # "failed"
        => verdict.decision = "auto_promote"
=============================================================================
