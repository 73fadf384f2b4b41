----------------------------- MODULE Grounding -----------------------------
(***************************************************************************)
(* What the commander grounds an answer with: the retriever of             *)
(* praxia/agent/commander.py and the verifier of praxia/agent/verifier.py. *)
(* Scores are per cent; groundedness is in 1/10000, the four decimals the  *)
(* code rounds it to.                                                      *)
(***************************************************************************)
EXTENDS Integers, Sequences, SequencesExt, Selection

CONSTANTS
    AcceptAt, AbstainAt, PassAt,   \* the verifier's thresholds, per cent
    NaN,                           \* the float a model may answer as a score
    Chunk,                         \* what a layer may answer with
    NoHit                          \* an answer without text

ASSUME GroundingAssumption ==
    AcceptAt \in Nat /\ AbstainAt \in Nat /\ PassAt \in Nat

-----------------------------------------------------------------------------
(* DefaultMemoryRetriever: per sub-query a list of texts for each layer,   *)
(* personal, shared, frozen, documents, in this order; a failing layer     *)
(* gives none.  The layer is the kind of a source and the prefix of its id. *)
Layer == {"L1", "L3", "L4", "D"}

Source == [id : Layer \X Nat, kind : Layer, text : Chunk]

FromLayer(layer, texts) ==
    LET numbered == [i \in 1 .. Len(texts) |->
                        [id |-> <<layer, i - 1>>, kind |-> layer, text |-> texts[i]]] IN
    Subsequence(numbered, {i \in 1 .. Len(texts) : texts[i] # NoHit})

OneHop(hits) ==
    FromLayer("L1", hits["L1"]) \o FromLayer("L3", hits["L3"])
        \o FromLayer("L4", hits["L4"]) \o FromLayer("D", hits["D"])

(* Several sub-queries: one source per kind and text, numbered anew. *)
Firsts(found) ==
    Subsequence(found, {i \in 1 .. Len(found) : \A j \in 1 .. i - 1 :
                            \/ found[j].kind # found[i].kind
                            \/ found[j].text # found[i].text})

Union(hitss) == Firsts(FlattenSeq([i \in 1 .. Len(hitss) |-> OneHop(hitss[i])]))

(* Mutant: the union keeps the ids of the single retrievals. *)
ManyHops_OldIds(hitss) == Union(hitss)

(* The position of a source among those of its kind. *)
Place(s, i) == Cardinality({j \in 1 .. i - 1 : s[j].kind = s[i].kind})

ManyHops(hitss) ==
    LET kept == Union(hitss) IN
    [i \in 1 .. Len(kept) |-> [kept[i] EXCEPT !.id = <<kept[i].kind, Place(kept, i)>>]]

Retrieve(hitss) == IF Len(hitss) = 1 THEN OneHop(hitss[1]) ELSE ManyHops(hitss)

-----------------------------------------------------------------------------
(* LLMGroundingVerifier: a claim the model extracted has a score and the   *)
(* ids of the sources the model says support it.                           *)

(* max(0.0, min(1.0, x)): a comparison with NaN is false, so NaN passes as 1. *)
Clamp(score) == IF score = NaN THEN 100 ELSE Max({0, Min({100, score})})

ParsedClaims(claims) ==
    [i \in 1 .. Len(claims) |-> [score |-> Clamp(claims[i].score), ids |-> claims[i].ids]]

(* Empty draft, no sources, a failing model, no claims. *)
Unverifiable == [groundedness |-> 0, claims |-> <<>>, decision |-> "abstain", cited |-> {}]

Total(claims) ==
    LET sum[i \in 0 .. Len(claims)] == IF i = 0 THEN 0 ELSE sum[i - 1] + claims[i].score IN
    sum[Len(claims)]

Mean(claims) == (100 * Total(claims)) \div Len(claims)

Unsupported(claims) == {i \in 1 .. Len(claims) : claims[i].score < PassAt}

Cited(claims, sources) ==
    (UNION {claims[i].ids : i \in (1 .. Len(claims)) \ Unsupported(claims)})
        \cap {sources[i].id : i \in 1 .. Len(sources)}

Decision(claims) ==
    IF Total(claims) >= AcceptAt * Len(claims) /\ Unsupported(claims) = {} THEN "accept"
    ELSE IF Total(claims) <= AbstainAt * Len(claims) THEN "abstain"
    ELSE "redraft"

Aggregate(claims, sources) ==
    IF claims = <<>> THEN Unverifiable
    ELSE [groundedness |-> Mean(claims),
          claims |-> claims,
          decision |-> Decision(claims),
          cited |-> Cited(claims, sources)]
=============================================================================
