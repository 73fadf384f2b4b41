----------------------------- MODULE Commander -----------------------------
(***************************************************************************)
(* CommandedAgent.run, praxia/agent/commander.py: a request is classified, *)
(* grounded in retrieved sources, answered by the tool-use loop (module    *)
(* AgentLoop), and the draft is verified (module Grounding) and redrafted  *)
(* until it is accepted, refused, or makes no progress.                    *)
(***************************************************************************)
EXTENDS AgentLoop, Grounding

CONSTANTS
    Configs,      \* verifier_mode and the switches of the constructor
    MaxRounds,    \* max_verify_rounds
    MinGain,      \* min_groundedness_improvement, in 1/10000
    Retrievals,   \* what the sub-queries may find
    Answers,      \* what the verifying model may answer: claims
    Mentions(_),  \* the source ids a text cites inline
    Abstention    \* abstain_message

ASSUME CommanderAssumption ==
    /\ Configs \subseteq [blocking : BOOLEAN, abstains : BOOLEAN, fallback : BOOLEAN,
                          footer : BOOLEAN]
    /\ MaxRounds \in Nat \ {0}
    /\ MinGain \in Nat
    /\ Abstention \notin Outcome

(* Texts per sub-query and layer; a score is a number, NaN included. *)
ASSUME ModelsAssumption ==
    /\ Retrievals \subseteq Seq([Layer -> Seq(Chunk)])
    /\ \A claims \in Answers :
          /\ Len(claims) \in Nat
          /\ \A i \in 1 .. Len(claims) : claims[i].score \in Int \cup {NaN}

Degree == 0 .. 10000   \* groundedness

VARIABLES
    config,
    stage,    \* "classify", "retrieve", "bypass", "verify", "done", "raised"
    kind,     \* task_kind
    sources,
    rounds,   \* the drafts and their verdicts
    prev,     \* prev_groundedness
    reply     \* the CommandedResult

ownVars == <<config, stage, kind, sources, rounds, prev, reply>>
vars == <<loopVars, ownVars>>

NoRound == -1
Unprompted == {"action", "batch", "metadata"}
TaskKind == Unprompted \cup {"synthesis", "knowledge"}
Reason == TaskKind \cup {"accept", "abstain", "abstain_advisory", "no_improvement", "max_rounds"}

(* The footer of an answer lists source ids, its note warns of weak grounding. *)
Answer(text, citations, reason) ==
    [text |-> text, footer |-> {}, citations |-> citations, reason |-> reason, note |-> FALSE]

RoundTyped(r) ==
    /\ r.draft \in Outcome \ {Odd}
    /\ r.verdict.groundedness \in Degree
    /\ r.verdict.decision \in {"accept", "redraft", "abstain"}

RoundsTyped ==
    /\ Len(rounds) <= MaxRounds
    /\ \A i \in 1 .. Len(rounds) : RoundTyped(rounds[i])

ReplyTyped ==
    /\ reply.text \in (Outcome \cup {Abstention}) \ {Odd}
    /\ reply.reason \in Reason

CommanderTypeOK ==
    /\ LoopTypeOK
    /\ config \in Configs
    /\ stage \in {"classify", "retrieve", "bypass", "verify", "done", "raised"}
    /\ kind \in TaskKind
    /\ sources \in Seq(Source)
    /\ RoundsTyped
    /\ prev \in {NoRound} \cup Degree
    /\ ReplyTyped

Init ==
    /\ LoopInit
    /\ config \in Configs
    /\ stage = "classify" /\ kind = "knowledge"
    /\ sources = <<>> /\ rounds = <<>> /\ prev = NoRound
    /\ reply = Answer(Blank, {}, "accept")

-----------------------------------------------------------------------------
(* Tasks the environment verifies, fan-outs and lookups skip retrieval. *)
Classify ==
    /\ stage = "classify"
    /\ kind' \in TaskKind
    /\ IF kind' \in Unprompted
         THEN Begin /\ stage' = "bypass"
         ELSE stage' = "retrieve" /\ UNCHANGED loopVars
    /\ UNCHANGED <<config, sources, rounds, prev, reply>>

(* Generated artefacts, and questions nothing was found for, are not verified. *)
Ground ==
    /\ stage = "retrieve"
    /\ \E hitss \in Retrievals : sources' = Retrieve(hitss)
    /\ stage' = IF kind = "synthesis" \/ (config.fallback /\ sources' = <<>>)
                  THEN "bypass" ELSE "verify"
    /\ Begin
    /\ UNCHANGED <<config, kind, rounds, prev, reply>>

Drafted(where) == stage = where /\ phase = "returned" /\ result.text # Odd

(* Of the sources of an artefact only those it cites are reported. *)
Deliver ==
    LET used == IF kind = "synthesis"
                  THEN Subsequence(sources, {i \in 1 .. Len(sources) :
                                                sources[i].id \in Mentions(result.text)})
                  ELSE <<>> IN
    /\ Drafted("bypass")
    /\ sources' = used
    /\ reply' = Answer(result.text, {used[i].id : i \in 1 .. Len(used)}, kind)
    /\ stage' = "done"
    /\ UNCHANGED <<loopVars, config, kind, rounds, prev>>

(* final_answer took something that is no text: .strip() raises. *)
Raise ==
    /\ stage \in {"bypass", "verify"} /\ phase = "returned" /\ result.text = Odd
    /\ stage' = "raised"
    /\ UNCHANGED <<loopVars, config, kind, sources, rounds, prev, reply>>

-----------------------------------------------------------------------------
(* verify(): the model fails, or answers claims. *)
Verdicts ==
    {Unverifiable} \cup
        IF result.text = Blank \/ sources = <<>> THEN {}
        ELSE {Aggregate(ParsedClaims(claims), sources) : claims \in Answers}

Verify(v) ==
    /\ Drafted("verify")
    /\ rounds' = Append(rounds, [draft |-> result.text, verdict |-> v])

(* _format_accepted: a footer unless the draft cites everything itself. *)
Accept(v) ==
    /\ Verify(v) /\ v.decision = "accept"
    /\ reply' = [Answer(result.text, v.cited, "accept") EXCEPT
                   !.footer = IF config.footer /\ ~(v.cited \subseteq Mentions(result.text))
                                THEN v.cited ELSE {}]
    /\ stage' = "done"
    /\ UNCHANGED <<loopVars, config, kind, sources, prev>>

(* A blocking verifier replaces the draft, an advisory one adds a note. *)
Withheld(v, reason) ==
    IF config.blocking THEN Answer(Abstention, {}, reason)
    ELSE [Answer(IF result.text = Blank THEN Abstention ELSE result.text, v.cited,
                 "abstain_advisory") EXCEPT !.note = TRUE]

Abstain(v) ==
    /\ Verify(v) /\ v.decision = "abstain"
    /\ reply' = Withheld(v, "abstain")
    /\ stage' = "done"
    /\ UNCHANGED <<loopVars, config, kind, sources, prev>>

(* The difference of two floats may fall on either side of an equal bound. *)
MayGoOn(v) == MinGain = 0 \/ prev = NoRound \/ v.groundedness - prev >= MinGain
MayStop(v) == MinGain > 0 /\ prev # NoRound /\ v.groundedness - prev <= MinGain

StopWithoutGain(v) ==
    /\ Verify(v) /\ v.decision = "redraft" /\ MayStop(v)
    /\ reply' = Withheld(v, "no_improvement")
    /\ stage' = "done"
    /\ UNCHANGED <<loopVars, config, kind, sources, prev>>

(* Mutant: the groundedness of the first draft stays the measure. *)
Redraft_FirstOnly(v) ==
    /\ Verify(v) /\ v.decision = "redraft" /\ MayGoOn(v) /\ Len(rounds) + 1 < MaxRounds
    /\ prev' = IF prev = NoRound THEN v.groundedness ELSE prev
    /\ Begin
    /\ UNCHANGED <<config, stage, kind, sources, reply>>

Redraft(v) ==
    /\ Verify(v) /\ v.decision = "redraft" /\ MayGoOn(v) /\ Len(rounds) + 1 < MaxRounds
    /\ prev' = v.groundedness
    /\ Begin
    /\ UNCHANGED <<config, stage, kind, sources, reply>>

(* Mutant: out of rounds, the last draft is forwarded as if nobody minded. *)
OutOfRounds_Forwards(v) ==
    /\ Verify(v) /\ v.decision = "redraft" /\ MayGoOn(v) /\ Len(rounds) + 1 = MaxRounds
    /\ prev' = v.groundedness
    /\ reply' = Answer(result.text, v.cited, "max_rounds")
    /\ stage' = "done"
    /\ UNCHANGED <<loopVars, config, kind, sources>>

OutOfRounds(v) ==
    /\ Verify(v) /\ v.decision = "redraft" /\ MayGoOn(v) /\ Len(rounds) + 1 = MaxRounds
    /\ prev' = v.groundedness
    /\ reply' = IF config.blocking /\ ~config.abstains
                  THEN Answer(result.text, v.cited, "max_rounds")
                  ELSE Withheld(v, "abstain")
    /\ stage' = "done"
    /\ UNCHANGED <<loopVars, config, kind, sources>>

Judge ==
    \E v \in Verdicts :
        Accept(v) \/ Abstain(v) \/ StopWithoutGain(v) \/ Redraft(v) \/ OutOfRounds(v)

Next == Classify \/ Ground \/ (LoopNext /\ UNCHANGED ownVars) \/ Deliver \/ Raise \/ Judge

Spec == Init /\ [][Next]_vars

-----------------------------------------------------------------------------
LastRound == rounds[Len(rounds)]

(* What a verified answer is: the draft of the last round if that round    *)
(* was accepted, and otherwise, under a blocking verifier, the abstention  *)
(* message, never a draft the verifier rejected, unless the caller asked   *)
(* for the last draft and every round was used; under an advisory verifier *)
(* the last draft with a warning.                                          *)
OnlyGroundedReleased ==
    stage = "done" /\ rounds # <<>> =>
        IF LastRound.verdict.decision = "accept"
          THEN reply.reason = "accept" /\ reply.text = LastRound.draft /\ ~reply.note
          ELSE /\ reply.reason # "accept"
               /\ config.blocking =>
                    \/ reply.text = Abstention
                    \/ ~config.abstains /\ Len(rounds) = MaxRounds /\ reply.text = LastRound.draft
               /\ ~config.blocking =>
                    /\ reply.note
                    /\ reply.text \in {LastRound.draft, Abstention}
                    /\ reply.text = Abstention => LastRound.draft = Blank

(* A citation of the answer names exactly one of the sources reported with *)
(* it, the verifier found a passing claim resting on it, or, without a     *)
(* verifier, the text cites it; an abstention cites nothing; and an        *)
(* accepted answer shows all its citations when citations are required.    *)
CitationsTrue ==
    stage = "done" =>
        /\ \A id \in reply.citations :
              /\ Cardinality({i \in 1 .. Len(sources) : sources[i].id = id}) = 1
              /\ IF rounds = <<>> THEN id \in Mentions(reply.text)
                 ELSE \E i \in 1 .. Len(LastRound.verdict.claims) :
                         /\ LastRound.verdict.claims[i].score >= PassAt
                         /\ id \in LastRound.verdict.claims[i].ids
        /\ reply.text = Abstention => reply.citations = {}
        /\ reply.reason = "accept" /\ config.footer =>
              reply.citations \subseteq Mentions(reply.text) \cup reply.footer

(* The loop goes on only while it pays: every round but the last asked for *)
(* a redraft, and from the second round on each of them was better grounded *)
(* than the one before by MinGain.                                         *)
Progress ==
    /\ \A i \in 1 .. Len(rounds) - 1 : rounds[i].verdict.decision = "redraft"
    /\ MinGain > 0 => \A i \in 1 .. Len(rounds) - 2 :
          rounds[i + 1].verdict.groundedness - rounds[i].verdict.groundedness >= MinGain

=============================================================================
