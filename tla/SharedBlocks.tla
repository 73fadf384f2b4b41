---------------------------- MODULE SharedBlocks ----------------------------
(***************************************************************************)
(* The organisation's shared memory, praxia/memory/shared.py: one JSONL    *)
(* file of labelled blocks.  upsert() never overwrites a block, it closes  *)
(* the active one of the label and appends its successor, so that as_of()  *)
(* can look up what was believed at any time.                              *)
(*                                                                         *)
(* Every change is: read the file, read it again, rewrite all of it in     *)
(* place (open(..., "w")).  There is no lock: several threads or processes *)
(* (the server, the UI, a nightly consolidation) do this side by side, and *)
(* a process may die in the middle.  The file is the sequence of its lines *)
(* that parse; a line cut by an overlapping write is skipped by the reader *)
(* and so is no element of it.                                             *)
(***************************************************************************)
EXTENDS Selection, SequencesExt

CONSTANTS
    Block,       \* block ids (uuid4: never minted twice)
    Label, Contributor,
    Writer,      \* threads and processes that change the file
    NoBlock,     \* no block has the label
    MaxTime,     \* bound on the clock
    MaxCrashes   \* bound on deaths of a writer

ASSUME BlocksAssumption ==
    /\ MaxTime \in Nat \ {0} /\ MaxCrashes \in Nat

Current == 0           \* valid_to is None
Nobody == "none"       \* supersedes / superseded_by is None
Time == 1 .. MaxTime
Access == {"read_write", "read_only"}

(* text is the set of upserts and appends whose wording the value holds;   *)
(* auto tells the consolidator's blocks from the others (description).     *)
Blocks ==
    [id : Block, label : Label, access : Access, text : SUBSET Block, users : SUBSET Contributor,
     auto : BOOLEAN, from : Time, to : Time \cup {Current},
     supersedes : Block \cup {Nobody}, superseded_by : Block \cup {Nobody}]

(* What a call asks for; remove() asks with no id.  users is {} unless the *)
(* caller names contributors, from is 0 unless it backdates the block.     *)
Wishes ==
    [id : Block \cup {Nobody}, label : Label, access : Access, text : SUBSET Block,
     users : SUBSET Contributor, auto : BOOLEAN, from : 0 .. MaxTime]

ASSUME MarksAssumption == Nobody \notin Block /\ NoBlock \notin Block \cup Blocks \cup Wishes

VARIABLES
    file,     \* <org_id>.jsonl
    pc,       \* where each writer is
    req,      \* the block each writer is about to add, or the label it removes
    seen,     \* the active block its first read found
    list,     \* the blocks it is about to write
    now,      \* the clock
    minted,   \* ids in use
    kept,     \* history: blocks whose upsert returned, and whose label was not removed
    dated,    \* history: labels a block was backdated for
    calm,     \* history: no two writers overlapped, no save was cut short
    crashes

writerVars == <<pc, req, seen, list>>
historyVars == <<kept, dated>>
blocksVars == <<file, writerVars, now, minted, historyVars, calm, crashes>>

Idle == [w \in Writer |-> NoBlock]

(* Sequences that TLC need not enumerate. *)
BlockSeq(s) == \A i \in DOMAIN s : s[i] \in Blocks

BlocksTypeOK ==
    /\ BlockSeq(file)
    /\ pc \in [Writer -> {"idle", "check", "merge", "open", "write"}]
    /\ \A w \in Writer :
          /\ seen[w] = NoBlock \/ seen[w] \in Blocks
          /\ BlockSeq(list[w])
          /\ IF pc[w] = "idle" THEN req[w] = NoBlock ELSE req[w] \in Wishes
    /\ now \in Time /\ minted \subseteq Block /\ kept \subseteq minted
    /\ dated \subseteq Label /\ calm \in BOOLEAN /\ crashes \in 0 .. MaxCrashes

BlocksInit ==
    /\ file = <<>>
    /\ pc = [w \in Writer |-> "idle"] /\ req = Idle /\ seen = Idle
    /\ list = [w \in Writer |-> <<>>]
    /\ now = 1 /\ minted = {} /\ kept = {} /\ dated = {} /\ calm = TRUE /\ crashes = 0

-----------------------------------------------------------------------------
(* Reads *)

(* get_by_label: the first active block. *)
ByLabel(blocks, l) ==
    LET i == SelectInSeq(blocks, LAMBDA b : b.to = Current /\ b.label = l)
    IN  IF i = 0 THEN NoBlock ELSE blocks[i]

(* as_of(t, label=l), as the set of its blocks. *)
AsOf(blocks, t, l) ==
    {b \in ToSet(blocks) : b.label = l /\ b.from <= t /\ (b.to = Current \/ t < b.to)}

-----------------------------------------------------------------------------
(* upsert *)

Goto(w, label) == pc' = [pc EXCEPT ![w] = label]

(* A call begins while another is under way. *)
Begins(w) == calm' = (calm /\ \A v \in Writer \ {w} : pc[v] = "idle")

Wanted(b, l, a, t, us, auto, from) ==
    [id |-> b, label |-> l, access |-> a, text |-> t, users |-> us, auto |-> auto, from |-> from]

(* Mutant: the label's policy block is not looked at. *)
Check_NoGuard(w, r) ==
    /\ Goto(w, "merge")
    /\ req' = [req EXCEPT ![w] = r]
    /\ seen' = [seen EXCEPT ![w] = ByLabel(file, r.label)]

(* The first read: the block to supersede, refused when it is read-only. *)
Check(w, r) ==
    LET old == ByLabel(file, r.label) IN
    IF old # NoBlock /\ old.access = "read_only"
    THEN /\ Goto(w, "idle")
         /\ req' = [req EXCEPT ![w] = NoBlock]
         /\ UNCHANGED seen
    ELSE /\ Goto(w, "merge")
         /\ req' = [req EXCEPT ![w] = r]
         /\ seen' = [seen EXCEPT ![w] = old]

Mint(b) == b \in Block \ minted /\ minted' = minted \cup {b}

(* upsert(label, ...) as a caller issues it. *)
Upsert(w, l, us, auto) ==
    /\ pc[w] = "idle"
    /\ \E b \in Block, a \in Access, from \in 0 .. now :
          /\ auto => a = "read_write" /\ from = 0
          /\ Mint(b)
          /\ Check(w, Wanted(b, l, a, {b}, us, auto, from))
    /\ Begins(w)
    /\ UNCHANGED <<file, list, now, historyVars, crashes>>

(* append_to_block: reads the block, then upserts its text with the        *)
(* addition, under its description and contributors; upsert reads the      *)
(* block again.                                                            *)
AppendToBlock(w, l) ==
    LET old == ByLabel(file, l) IN
    /\ pc[w] = "idle"
    /\ old # NoBlock => old.access # "read_only"
    /\ \E b \in Block :
          /\ Mint(b)
          /\ req' = [req EXCEPT ![w] =
                       IF old = NoBlock THEN Wanted(b, l, "read_write", {b}, {}, FALSE, 0)
                       ELSE Wanted(b, l, "read_write", {b} \cup old.text, old.users, old.auto, 0)]
    /\ Goto(w, "check")
    /\ Begins(w)
    /\ UNCHANGED <<file, seen, list, now, historyVars, crashes>>

CheckAppended(w) ==
    /\ pc[w] = "check"
    /\ Check(w, req[w])
    /\ UNCHANGED <<file, list, now, minted, historyVars, calm, crashes>>

NewBlock(w) ==
    LET r == req[w] old == seen[w] IN
    [id |-> r.id, label |-> r.label, access |-> r.access, text |-> r.text, auto |-> r.auto,
     users |-> IF r.users # {} \/ old = NoBlock THEN r.users ELSE old.users,
     from |-> IF r.from = 0 THEN now ELSE r.from, to |-> Current,
     supersedes |-> IF old = NoBlock THEN Nobody ELSE old.id, superseded_by |-> Nobody]

Line(blocks, old) ==
    IF old = NoBlock THEN 0 ELSE SelectInSeq(blocks, LAMBDA b : b.id = old.id)

(* Mutant: the old block is marked as replaced but stays active. *)
Superseded_StaysActive(blocks, old, new) ==
    LET i == Line(blocks, old)
    IN  IF i = 0 THEN blocks ELSE [blocks EXCEPT ![i].superseded_by = new.id]

(* Mutant: the old block's validity ends a moment after the new one's begins. *)
Superseded_Late(blocks, old, new) ==
    LET i == Line(blocks, old)
    IN  IF i = 0 THEN blocks ELSE [blocks EXCEPT ![i].to = now + 1, ![i].superseded_by = new.id]

(* The block found by the first read, closed in what the second read found *)
(* (the first line of that id; an overlapped save may have doubled it).    *)
Superseded(blocks, old, new) ==
    LET i == Line(blocks, old)
    IN  IF i = 0 THEN blocks ELSE [blocks EXCEPT ![i].to = now, ![i].superseded_by = new.id]

Merge(w) ==
    /\ pc[w] = "merge"
    /\ list' = [list EXCEPT ![w] = Append(Superseded(file, seen[w], NewBlock(w)), NewBlock(w))]
    /\ Goto(w, "open")
    /\ dated' = IF req[w].from = 0 THEN dated ELSE dated \cup {req[w].label}
    /\ UNCHANGED <<file, req, seen, now, minted, kept, calm, crashes>>

(* remove(label): every version of the label goes. *)
RemoveLabel(w, l) ==
    /\ pc[w] = "idle"
    /\ list' = [list EXCEPT ![w] = Subsequence(file, {i \in DOMAIN file : file[i].label # l})]
    /\ req' = [req EXCEPT ![w] =
                 Wanted(Nobody, l, "read_write", {b.id : b \in {c \in ToSet(file) : c.label = l}},
                        {}, FALSE, 0)]
    /\ Goto(w, "open")
    /\ Begins(w)
    /\ UNCHANGED <<file, seen, now, minted, historyVars, crashes>>

-----------------------------------------------------------------------------
(* _save_all *)

TruncateFile(w) ==
    /\ pc[w] = "open"
    /\ file' = <<>>
    /\ Goto(w, "write")
    /\ UNCHANGED <<req, seen, list, now, minted, historyVars, calm, crashes>>

(* Lines written from the start of a file somebody else has written since  *)
(* it was truncated: they cover the other's first lines, and what sticks   *)
(* out beyond them remains.                                                *)
Overwritten(lines) ==
    {lines \o SubSeq(file, k + 1, Len(file)) : k \in (IF lines = <<>> THEN 0 ELSE 1) .. Len(file)}
    \cup (IF file = <<>> THEN {lines} ELSE {})

(* Mutant: the last line is not written. *)
WriteFile_DropsLast(w) ==
    /\ pc[w] = "write"
    /\ file' \in Overwritten(SubSeq(list[w], 1, Len(list[w]) - 1))
    /\ kept' = IF req[w].id = Nobody THEN kept ELSE kept \cup {req[w].id}
    /\ Goto(w, "idle")
    /\ req' = [req EXCEPT ![w] = NoBlock] /\ seen' = [seen EXCEPT ![w] = NoBlock]
    /\ list' = [list EXCEPT ![w] = <<>>]
    /\ UNCHANGED <<now, minted, dated, calm, crashes>>

(* The save is closed and the call returns. *)
WriteFile(w) ==
    /\ pc[w] = "write"
    /\ file' \in Overwritten(list[w])
    /\ kept' = IF req[w].id = Nobody THEN kept \ req[w].text ELSE kept \cup {req[w].id}
    /\ Goto(w, "idle")
    /\ req' = [req EXCEPT ![w] = NoBlock] /\ seen' = [seen EXCEPT ![w] = NoBlock]
    /\ list' = [list EXCEPT ![w] = <<>>]
    /\ UNCHANGED <<now, minted, dated, calm, crashes>>

(* The process dies, having written some of the lines if it was writing. *)
Die(w) ==
    /\ pc[w] # "idle" /\ crashes < MaxCrashes
    /\ IF pc[w] = "write"
       THEN /\ \E k \in 0 .. Len(list[w]) : file' \in Overwritten(SubSeq(list[w], 1, k))
            /\ calm' = FALSE
       ELSE UNCHANGED <<file, calm>>
    /\ Goto(w, "idle")
    /\ req' = [req EXCEPT ![w] = NoBlock] /\ seen' = [seen EXCEPT ![w] = NoBlock]
    /\ list' = [list EXCEPT ![w] = <<>>]
    /\ crashes' = crashes + 1
    /\ UNCHANGED <<now, minted, historyVars>>

Tick ==
    /\ now < MaxTime /\ now' = now + 1
    /\ UNCHANGED <<file, writerVars, minted, historyVars, calm, crashes>>

-----------------------------------------------------------------------------
(* Properties.  A reader sees a truncated file while a save is under way,  *)
(* so they are about the moments between saves; and they are about runs    *)
(* without overlapping calls and torn saves (calm): with them the file may *)
(* lose and double blocks, see the README.                                 *)

Settled == calm /\ \A w \in Writer : pc[w] # "write"

(* A label has at most one active block, so that get_by_label's "first" is *)
(* "the"; supersedes and superseded_by mirror one another, within a label, *)
(* and a block is closed exactly when it has a successor: the chain can be *)
(* walked in either direction, and ends in what is believed now.           *)
ChainWhole ==
    Settled => \A i \in DOMAIN file :
        LET b == file[i] IN
        /\ \A j \in DOMAIN file :
              b.to = Current /\ file[j].to = Current /\ b.label = file[j].label => i = j
        /\ b.superseded_by # Nobody <=> b.to # Current
        /\ b.superseded_by # Nobody =>
              \E c \in ToSet(file) :
                  c.id = b.superseded_by /\ c.supersedes = b.id /\ c.label = b.label
        /\ b.supersedes # Nobody =>
              \E c \in ToSet(file) :
                  c.id = b.supersedes /\ c.superseded_by = b.id /\ c.label = b.label

(* What an upsert or append returned stays in the file, superseded or not, *)
(* until its label is removed: one can always look up what we used to      *)
(* believe.                                                                *)
NothingForgotten == Settled => kept \subseteq {b.id : b \in ToSet(file)}

(* For a label nobody backdated, as_of() finds one block at every moment   *)
(* since the label's first, neither none nor two.                          *)
HistoryHasNoGap ==
    Settled => \A l \in Label \ dated : \A t \in 1 .. now :
        (\E b \in ToSet(file) : b.label = l /\ b.from <= t) => Cardinality(AsOf(file, t, l)) = 1

(* A read-only block stays the active block of its label until the label   *)
(* is removed.                                                             *)
PolicyStays ==
    Settled => \A b \in ToSet(file) : b.access = "read_only" => b.to = Current
=============================================================================
