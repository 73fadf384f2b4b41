-------------------------- MODULE MCConsolidation --------------------------
(* The model-checking instance of Consolidation: small personal memories   *)
(* that yield one or two candidates, with and without outcomes.            *)
EXTENDS Consolidation, TLC

CONSTANTS b1, b2, b3, lx, ly, ann, bob, nightly, caller

Entry(id, u, term, l) ==
    [id |-> id, user |-> u, kind |-> "episode", term |-> term, label |-> l, success |-> FALSE]

Outcome(id, u, episode, ok) ==
    [id |-> id, user |-> u, kind |-> "outcome", term |-> episode, label |-> lx, success |-> ok]

(* A backend handed to PersonalMemory that pools a team: two users agree   *)
(* and succeed; the second pattern has no outcome, and one entry is alone. *)
Team ==
    << Entry(1, ann, "price", lx), Entry(2, bob, "terms", lx), Entry(3, bob, "price", lx),
       Outcome(4, ann, 1, TRUE), Entry(5, ann, "terms", lx), Entry(6, ann, "alone", lx) >>

(* The shipped backends return the entries of the user they are asked for. *)
Own ==
    << Entry(1, ann, "price", lx), Entry(2, ann, "price", ly), Outcome(3, ann, 1, TRUE),
       Outcome(4, ann, 2, TRUE) >>

TeamMemories == {Team}
OwnMemories == {Own}

Symmetric == Permutations(Block)
=============================================================================
