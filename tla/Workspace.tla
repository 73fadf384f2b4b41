------------------------------ MODULE Workspace ------------------------------
(***************************************************************************)
(* The operations of the agent's file tools, praxia/agent/file_tools.py.   *)
(* During a run the tools write nothing: they look at the file and queue   *)
(* an operation for the user to approve.  apply_pending_op carries it out  *)
(* later, when the file may have changed, and looks again.                 *)
(*                                                                         *)
(* One file of the workspace.  Its text is the multiset of the passages    *)
(* that operations look for and put in; no operation depends on the rest   *)
(* of the text or on the order of its passages.                            *)
(***************************************************************************)
EXTENDS Naturals, FiniteSets, FiniteSetsExt

CONSTANTS
    Passage,   \* the pieces of text operations are about
    MaxText    \* MAX_WRITE_BYTES, in passages

ASSUME WorkspaceAssumption == IsFiniteSet(Passage) /\ MaxText \in Nat

Size(text) == MapThenSumSet(LAMBDA p : text[p], Passage)

Text == {t \in [Passage -> 0 .. MaxText] : Size(t) <= MaxText}

Blank == [p \in Passage |-> 0]

(* A write or a rendering replaces the text, which the tool bounds for the *)
(* one and apply_pending_op for both; an edit replaces old by new, exactly *)
(* count times, or everywhere if count is 0.                               *)
Whole == [op : {"write_file", "render_document"}, text : [Passage -> Nat]]
Edit == [op : {"edit_file"}, old : Passage, new : SUBSET Passage, count : Nat]
Removal == [op : {"delete_file"}]
Op == Whole \cup Edit \cup Removal

(* str.replace of every occurrence, new holding each passage once. *)
Edited(op, text) ==
    [p \in Passage |-> (IF p = op.old THEN 0 ELSE text[p])
                       + (IF p \in op.new THEN text[op.old] ELSE 0)]

(* The old text is there as often as was said. *)
Found(op, text) ==
    /\ text[op.old] > 0
    /\ op.count \in {0, text[op.old]}

(* The text an operation makes of the file's, or none: it is refused. *)
Outcome(op, text) ==
    IF op.op = "edit_file"
    THEN IF Found(op, text) /\ Size(Edited(op, text)) <= MaxText THEN {Edited(op, text)} ELSE {}
    ELSE IF Size(op.text) <= MaxText THEN {op.text} ELSE {}
=============================================================================
