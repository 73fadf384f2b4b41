-------------------------- MODULE CommanderProofs --------------------------
(***************************************************************************)
(* The commander's rounds, for any tools, texts, histories, retrievals,    *)
(* verdicts, thresholds and switches: what it lets out, and that its       *)
(* rounds end because each pays.                                           *)
(*                                                                         *)
(* Behind them, with a specification of their own, the connections through *)
(* which the agent's tools reach other services, for any threads, users,   *)
(* providers and number of requests: flows that do not overlap are served  *)
(* once, and connections that do not overlap are kept.                     *)
(***************************************************************************)
EXTENDS Commander, Connections, SequenceTheorems, FiniteSetTheorems, WellFoundedInduction, TLAPS

Found == {<<>>} \cup {Retrieve(hitss) : hitss \in Retrievals}

AllVerdicts ==
    {Unverifiable} \cup {Aggregate(ParsedClaims(claims), s) : claims \in Answers, s \in Found}

Round == [draft : Outcome \ {Odd}, verdict : AllVerdicts]

(* Every later redraft of s gained on the one before it. *)
Gains(s) ==
    MinGain > 0 => \A i \in 1 .. Len(s) - 1 :
        s[i + 1].verdict.groundedness - s[i].verdict.groundedness >= MinGain

Redrafts(s) == \A i \in 1 .. Len(s) : s[i].verdict.decision = "redraft"

(* While rounds go on, all of them asked for a redraft, each gained on the *)
(* one before, and prev is the groundedness of the last.                   *)
Going ==
    /\ sources \in Found
    /\ Len(rounds) < MaxRounds
    /\ Redrafts(rounds) /\ Gains(rounds)
    /\ rounds = <<>> => prev = NoRound
    /\ rounds # <<>> => prev = LastRound.verdict.groundedness

RoundInv ==
    /\ CommanderTypeOK
    /\ rounds \in Seq(Round)
    /\ stage \in {"classify", "retrieve", "bypass"} => rounds = <<>> /\ prev = NoRound
    /\ stage = "verify" => Going

-----------------------------------------------------------------------------
(* Recursion up to a bound *)

(* Induction up to a bound, from the least counterexample. *)
LEMMA Climb ==
    ASSUME NEW n \in Nat, NEW I \in SUBSET (0 .. n), 0 \in I,
           \A i \in 1 .. n : i - 1 \in I => i \in I
    PROVE  I = 0 .. n
<1> SUFFICES ASSUME (0 .. n) \ I # {} PROVE FALSE OBVIOUS
<1>1. (0 .. n) \ I \subseteq Nat OBVIOUS
<1>2. PICK m \in (0 .. n) \ I : \A j \in (0 .. n) \ I : <<j, m>> \notin OpToRel(<, Nat)
  BY <1>1, NatLessThanWellFounded, WFMin
<1>6. m \in 0 .. n /\ m \notin I BY <1>2
<1>7. m # 0 BY <1>6
<1>3. m \in 1 .. n /\ m - 1 \in 0 .. n BY <1>6, <1>7
<1>4. m - 1 \notin I BY <1>6, <1>3
<1>5. <<m - 1, m>> \in OpToRel(<, Nat) BY <1>3 DEF OpToRel
<1> QED BY <1>2, <1>3, <1>4, <1>5

Solves(g, n, b, f) == g[0] = b /\ \A i \in 1 .. n : g[i] = f[i][g[i - 1]]

(* A recursion over 1 .. n with values in V has a solution. *)
LEMMA Solvable ==
    ASSUME NEW V, NEW n \in Nat, NEW b \in V, NEW f \in [1 .. n -> [V -> V]]
    PROVE  \E g \in [0 .. n -> V] : Solves(g, n, b, f)
<1> DEFINE I == {k \in 0 .. n : \E g \in [0 .. k -> V] : Solves(g, k, b, f)}
<1>1. 0 \in I
  <2>1. [i \in 0 .. 0 |-> b] \in [0 .. 0 -> V] OBVIOUS
  <2>2. Solves([i \in 0 .. 0 |-> b], 0, b, f) BY DEF Solves
  <2>3. 0 \in 0 .. n OBVIOUS
  <2>4. \E g \in [0 .. 0 -> V] : Solves(g, 0, b, f) BY <2>1, <2>2
  <2> QED BY <2>3, <2>4
<1>2. ASSUME NEW k \in 1 .. n, k - 1 \in I PROVE k \in I
  <2>1. PICK g \in [0 .. k - 1 -> V] : Solves(g, k - 1, b, f) BY <1>2
  <2> DEFINE h == [i \in 0 .. k |-> IF i = k THEN f[k][g[k - 1]] ELSE g[i]]
  <2>2. g[k - 1] \in V /\ f[k][g[k - 1]] \in V
    <3>1. k - 1 \in 0 .. k - 1 OBVIOUS
    <3>2. g[k - 1] \in V BY <2>1, <3>1
    <3>3. f[k] \in [V -> V] OBVIOUS
    <3> QED BY <3>2, <3>3
  <2>3. h \in [0 .. k -> V] BY <2>1, <2>2
  <2>4. h[0] = b BY <2>1 DEF Solves
  <2>5. ASSUME NEW i \in 1 .. k PROVE h[i] = f[i][h[i - 1]]
    <3>1. h[i - 1] = g[i - 1] OBVIOUS
    <3>2. CASE i = k BY <3>1, <3>2
    <3>3. CASE i # k
      <4>1. i \in 1 .. k - 1 /\ h[i] = g[i] BY <3>3
      <4> QED BY <2>1, <3>1, <4>1 DEF Solves
    <3> QED BY <3>2, <3>3
  <2>6. Solves(h, k, b, f) BY <2>4, <2>5 DEF Solves
  <2>7. k \in 0 .. n OBVIOUS
  <2> QED BY <2>3, <2>6, <2>7
<1> HIDE DEF I
<1>3. I \in SUBSET (0 .. n) BY DEF I
<1>4. I = 0 .. n BY <1>1, <1>2, <1>3, Climb
<1>5. n \in I BY <1>4
<1> QED BY <1>5 DEF I

-----------------------------------------------------------------------------
(* Selections *)

LEMMA Ranks ==
    ASSUME NEW I, I \subseteq Int, IsFiniteSet(I)
    PROVE  /\ Cardinality(I) \in Nat
           /\ \A i \in I : Cardinality({j \in I : j <= i}) \in 1 .. Cardinality(I)
           /\ \A i, k \in I : Cardinality({j \in I : j <= i}) = Cardinality({j \in I : j <= k}) => i = k
           /\ \A n \in 1 .. Cardinality(I) : \E i \in I : Cardinality({j \in I : j <= i}) = n
<1> DEFINE N == Cardinality(I)
           below(i) == {j \in I : j <= i}
           rank == [i \in I |-> Cardinality(below(i))]
<1>1. N \in Nat BY FS_CardinalityType
<1>2. \A i \in I : IsFiniteSet(below(i)) /\ Cardinality(below(i)) \in Nat /\ Cardinality(below(i)) <= N
  BY FS_Subset, FS_CardinalityType
<1>3. ASSUME NEW i \in I PROVE Cardinality(below(i)) \in 1 .. N
  <2>1. i \in below(i) OBVIOUS
  <2>2. Cardinality(below(i)) # 0 BY <1>2, <2>1, FS_EmptySet
  <2> QED BY <1>1, <1>2, <2>2
<1>4. ASSUME NEW i \in I, NEW k \in I, Cardinality(below(i)) = Cardinality(below(k)), i < k PROVE FALSE
  <2>1. \A j \in I : j \in Int OBVIOUS
  <2>4. \A j \in I : j <= i => j <= k BY <1>4, <2>1
  <2>5. below(i) \in SUBSET below(k) BY <2>4
  <2>2. below(i) = below(k) BY <1>2, <1>4, <2>5, FS_Subset
  <2>3. k \in below(k) /\ k \notin below(i) BY <1>4, <2>1
  <2> QED BY <2>2, <2>3
<1>5. \A i, k \in I : Cardinality(below(i)) = Cardinality(below(k)) => i = k
  <2> SUFFICES ASSUME NEW i \in I, NEW k \in I, Cardinality(below(i)) = Cardinality(below(k)), i # k
               PROVE FALSE OBVIOUS
  <2>1. i < k \/ k < i OBVIOUS
  <2> QED BY <1>4, <2>1
<1>6. rank \in [I -> 1 .. N] BY <1>3
<1>7. rank \in Injection(I, 1 .. N) BY <1>5, <1>6 DEF Injection, IsInjective
<1>8. IsFiniteSet(1 .. N) /\ Cardinality(1 .. N) = N BY <1>1, FS_Interval
<1>9. rank \in Surjection(I, 1 .. N) BY <1>7, <1>8, FS_Injection
<1>10. \A n \in 1 .. N : \E i \in I : rank[i] = n BY <1>9 DEF Surjection
<1> QED BY <1>1, <1>3, <1>5, <1>10

LEMMA NthFacts ==
    ASSUME NEW I, I \subseteq Int, IsFiniteSet(I)
    PROVE  /\ Cardinality(I) \in Nat
           /\ \A k \in 1 .. Cardinality(I) : Nth(I, k) \in I
           /\ \A k, n \in 1 .. Cardinality(I) : Nth(I, k) = Nth(I, n) => k = n
           /\ \A i \in I : \E k \in 1 .. Cardinality(I) : Nth(I, k) = i
<1>0. /\ \A i \in I : Cardinality({j \in I : j <= i}) \in 1 .. Cardinality(I)
      /\ \A i, k \in I : Cardinality({j \in I : j <= i}) = Cardinality({j \in I : j <= k}) => i = k
      /\ \A n \in 1 .. Cardinality(I) : \E i \in I : Cardinality({j \in I : j <= i}) = n
  BY Ranks
<1>1. ASSUME NEW k \in 1 .. Cardinality(I)
      PROVE  Nth(I, k) \in I /\ Cardinality({j \in I : j <= Nth(I, k)}) = k
  <2>1. \E i \in I : Cardinality({j \in I : j <= i}) = k BY <1>0
  <2> QED BY <2>1 DEF Nth
<1>2. ASSUME NEW i \in I PROVE \E k \in 1 .. Cardinality(I) : Nth(I, k) = i
  <2> DEFINE k == Cardinality({j \in I : j <= i})
  <2>1. k \in 1 .. Cardinality(I) BY <1>0
  <2>2. Nth(I, k) \in I /\ Cardinality({j \in I : j <= Nth(I, k)}) = k BY <1>1, <2>1
  <2>3. Nth(I, k) = i BY <1>0, <2>2
  <2> QED BY <2>1, <2>3
<1>3. Cardinality(I) \in Nat BY FS_CardinalityType
<1> QED BY <1>1, <1>2, <1>3

-----------------------------------------------------------------------------
(* What was found *)

Places(s) == 1 .. Len(s)

(* No two sources go by one id. *)
Distinct(s) == \A i, j \in Places(s) : s[i].id = s[j].id => i = j

(* Ids that keep apart what they name. *)
LEMMA PartOf ==
    ASSUME NEW T, NEW s \in Seq(T), NEW I \in SUBSET Places(s)
    PROVE  /\ Subsequence(s, I) \in Seq(T)
           /\ Distinct(s) => Distinct(Subsequence(s, I))
           /\ \A k \in Places(Subsequence(s, I)) : \E i \in I : Subsequence(s, I)[k] = s[i]
<1>0. Len(s) \in Nat /\ \A i \in Places(s) : s[i] \in T BY LenProperties DEF Places
<1>1. IsFiniteSet(Places(s)) BY <1>0, FS_Interval DEF Places
<1>2. IsFiniteSet(I) /\ I \subseteq Int
  <2>2. IsFiniteSet(I) BY <1>1, FS_Subset
  <2>3. \A i \in Places(s) : i \in Int BY <1>0 DEF Places
  <2> QED BY <2>2, <2>3
<1>3. /\ Cardinality(I) \in Nat
      /\ \A k \in 1 .. Cardinality(I) : Nth(I, k) \in I
      /\ \A k, n \in 1 .. Cardinality(I) : Nth(I, k) = Nth(I, n) => k = n
  BY <1>2, NthFacts
<1> DEFINE r == Subsequence(s, I)
<1>4. /\ r = [k \in 1 .. Cardinality(I) |-> s[Nth(I, k)]]
      /\ \A k \in 1 .. Cardinality(I) : r[k] = s[Nth(I, k)] /\ r[k] \in T
  BY <1>0, <1>3 DEF Subsequence
<1>5. r \in Seq(T)
  <2>1. r \in [1 .. Cardinality(I) -> T] BY <1>4
  <2> QED BY <1>3, <2>1, SeqDef
<1>6. Places(r) = 1 .. Cardinality(I) BY <1>3, <1>4, <1>5, LenProperties DEF Places
<1> HIDE DEF r
<1>7. \A k \in Places(r) : \E i \in I : r[k] = s[i] BY <1>3, <1>4, <1>6
<1>8. ASSUME Distinct(s), NEW h \in Places(r), NEW k \in Places(r), r[h].id = r[k].id
      PROVE  h = k
  <2>1. /\ Nth(I, h) \in Places(s) /\ Nth(I, k) \in Places(s)
        /\ r[h] = s[Nth(I, h)] /\ r[k] = s[Nth(I, k)]
    BY <1>3, <1>4, <1>6
  <2>2. Nth(I, h) = Nth(I, k) BY <1>8, <2>1 DEF Distinct
  <2> QED BY <1>3, <1>6, <2>2
<1> QED BY <1>5, <1>7, <1>8 DEF r, Distinct

OfKind(s, L) == \A i \in Places(s) : s[i].kind \in L /\ s[i].id[1] = s[i].kind

LEMMA LayerFacts ==
    ASSUME NEW l \in Layer, NEW texts \in Seq(Chunk)
    PROVE  /\ FromLayer(l, texts) \in Seq(Source)
           /\ Distinct(FromLayer(l, texts))
           /\ OfKind(FromLayer(l, texts), {l})
<1> DEFINE n == Len(texts)
           s == [i \in 1 .. n |-> [id |-> <<l, i - 1>>, kind |-> l, text |-> texts[i]]]
           I == {i \in 1 .. n : texts[i] # NoHit}
<1>1. n \in Nat /\ \A i \in 1 .. n : texts[i] \in Chunk BY LenProperties
<1>2. \A i \in 1 .. n : s[i] \in Source /\ s[i].kind = l /\ s[i].id = <<l, i - 1>>
  BY <1>1 DEF Source
<1>3. s \in Seq(Source) /\ Len(s) = n
  <2>1. s \in [1 .. n -> Source] BY <1>2
  <2> QED BY <1>1, <2>1, SeqDef, LenProperties
<1>4. Places(s) = 1 .. n BY <1>3 DEF Places
<1>5. I \in SUBSET Places(s) BY <1>4
<1>6. FromLayer(l, texts) = Subsequence(s, I) BY DEF FromLayer
<1> HIDE DEF s, I
<1>7. Distinct(s)
  <2> SUFFICES ASSUME NEW i \in 1 .. n, NEW j \in 1 .. n, s[i].id = s[j].id PROVE i = j
    BY <1>4 DEF Distinct
  <2>1. <<l, i - 1>> = <<l, j - 1>> BY <1>2
  <2> QED BY <1>1, <2>1
<1>8. \A i \in Places(s) : s[i].kind = l /\ s[i].id[1] = l BY <1>2, <1>4
<1> DEFINE r == Subsequence(s, I)
<1>9. r \in Seq(Source) /\ Distinct(r) /\ \A k \in Places(r) : \E i \in I : r[k] = s[i]
  BY <1>3, <1>5, <1>7, PartOf
<1> HIDE DEF r
<1>10. OfKind(r, {l}) BY <1>5, <1>8, <1>9 DEF OfKind
<1> QED BY <1>6, <1>9, <1>10 DEF r

(* Lists whose ids start differently may be joined. *)
LEMMA Joined ==
    ASSUME NEW K, NEW L, K \cap L = {}, NEW s \in Seq(Source), NEW t \in Seq(Source),
           Distinct(s), Distinct(t), OfKind(s, K), OfKind(t, L)
    PROVE  s \o t \in Seq(Source) /\ Distinct(s \o t) /\ OfKind(s \o t, K \cup L)
<1> DEFINE r == s \o t
<1>1. /\ r \in Seq(Source) /\ Len(s) \in Nat /\ Len(t) \in Nat /\ Len(r) = Len(s) + Len(t)
      /\ \A i \in 1 .. Len(s) : r[i] = s[i]
      /\ \A i \in 1 .. Len(t) : r[Len(s) + i] = t[i]
  BY ConcatProperties, LenProperties
<1> HIDE DEF r
<1>2. \A i \in Places(r) :
         \/ i \in Places(s) /\ r[i] = s[i]
         \/ i - Len(s) \in Places(t) /\ r[i] = t[i - Len(s)]
  <2> SUFFICES ASSUME NEW i \in 1 .. Len(r), i \notin 1 .. Len(s)
               PROVE  i - Len(s) \in 1 .. Len(t) /\ r[i] = t[i - Len(s)]
    BY <1>1 DEF Places
  <2>1. i - Len(s) \in 1 .. Len(t) /\ Len(s) + (i - Len(s)) = i BY <1>1
  <2> QED BY <1>1, <2>1
<1>3. OfKind(r, K \cup L) BY <1>2 DEF OfKind
<1>4. ASSUME NEW i \in Places(r), NEW j \in Places(r), r[i].id = r[j].id PROVE i = j
  <2>0. i \in Int /\ j \in Int BY <1>1 DEF Places
  <2>1. r[i].kind = r[j].kind BY <1>3, <1>4 DEF OfKind
  <2>2. CASE i \in Places(s) /\ r[i] = s[i]
    <3>1. r[j].kind \in K BY <2>1, <2>2 DEF OfKind
    <3>2. j \in Places(s) /\ r[j] = s[j] BY <1>2, <3>1 DEF OfKind
    <3> QED BY <1>4, <2>2, <3>2 DEF Distinct
  <2>3. CASE i - Len(s) \in Places(t) /\ r[i] = t[i - Len(s)]
    <3>1. r[j].kind \in L BY <2>1, <2>3 DEF OfKind
    <3>2. j - Len(s) \in Places(t) /\ r[j] = t[j - Len(s)] BY <1>2, <3>1 DEF OfKind
    <3>3. i - Len(s) = j - Len(s) BY <1>4, <2>3, <3>2 DEF Distinct
    <3> QED BY <1>1, <2>0, <3>3
  <2> QED BY <1>2, <2>2, <2>3
<1> QED BY <1>1, <1>3, <1>4 DEF r, Distinct

LEMMA OneHopFacts ==
    ASSUME NEW hits \in [Layer -> Seq(Chunk)]
    PROVE  OneHop(hits) \in Seq(Source) /\ Distinct(OneHop(hits))
<1> DEFINE a == FromLayer("L1", hits["L1"])
           b == FromLayer("L3", hits["L3"])
           c == FromLayer("L4", hits["L4"])
           d == FromLayer("D", hits["D"])
<1>1. /\ a \in Seq(Source) /\ Distinct(a) /\ OfKind(a, {"L1"})
      /\ b \in Seq(Source) /\ Distinct(b) /\ OfKind(b, {"L3"})
      /\ c \in Seq(Source) /\ Distinct(c) /\ OfKind(c, {"L4"})
      /\ d \in Seq(Source) /\ Distinct(d) /\ OfKind(d, {"D"})
  <2>1. /\ "L1" \in Layer /\ hits["L1"] \in Seq(Chunk)
        /\ "L3" \in Layer /\ hits["L3"] \in Seq(Chunk)
        /\ "L4" \in Layer /\ hits["L4"] \in Seq(Chunk)
        /\ "D" \in Layer /\ hits["D"] \in Seq(Chunk)
    BY DEF Layer
  <2> QED BY <2>1, LayerFacts
<1>2. OneHop(hits) = ((a \o b) \o c) \o d BY DEF OneHop
<1> HIDE DEF a, b, c, d
<1>3. /\ a \o b \in Seq(Source) /\ Distinct(a \o b) /\ OfKind(a \o b, {"L1", "L3"})
  <2>1. {"L1"} \cap {"L3"} = {} /\ {"L1"} \cup {"L3"} = {"L1", "L3"} OBVIOUS
  <2>2. OfKind(a \o b, {"L1"} \cup {"L3"}) /\ a \o b \in Seq(Source) /\ Distinct(a \o b)
    BY <1>1, <2>1, Joined
  <2> QED BY <2>1, <2>2
<1> DEFINE e == a \o b
<1> HIDE DEF e
<1>4. /\ e \o c \in Seq(Source) /\ Distinct(e \o c) /\ OfKind(e \o c, {"L1", "L3", "L4"})
  <2>1. {"L1", "L3"} \cap {"L4"} = {} /\ {"L1", "L3"} \cup {"L4"} = {"L1", "L3", "L4"} OBVIOUS
  <2>2. OfKind(e \o c, {"L1", "L3"} \cup {"L4"}) /\ e \o c \in Seq(Source) /\ Distinct(e \o c)
    BY <1>1, <1>3, <2>1, Joined DEF e
  <2> QED BY <2>1, <2>2
<1> DEFINE f == e \o c
<1> HIDE DEF f
<1>5. f \o d \in Seq(Source) /\ Distinct(f \o d)
  <2>1. {"L1", "L3", "L4"} \cap {"D"} = {} OBVIOUS
  <2> QED BY <1>1, <1>4, <2>1, Joined DEF f
<1> QED BY <1>2, <1>5 DEF e, f
LEMMA FlattenType ==
    ASSUME NEW T, NEW s \in Seq(Seq(T)) PROVE FlattenSeq(s) \in Seq(T)
<1> DEFINE n == Len(s)
           Flat(g) == [i \in 1 .. n |-> IF i = 1 THEN s[i] ELSE g[i - 1] \o s[i]]
           flat == CHOOSE g : g = Flat(g)
           V == Seq(T)
           f == [i \in 1 .. n |-> [x \in V |-> x \o s[i]]]
           I == {i \in 0 .. n : i = 0 \/ flat[i] \in V}
<1>1. n \in Nat /\ \A i \in 1 .. n : s[i] \in V BY LenProperties
<1>2. CASE n = 0
  <2>1. s = <<>> /\ <<>> \in Seq(T) BY <1>2, EmptySeq
  <2> QED BY <1>2, <2>1 DEF FlattenSeq
<1>3. CASE n # 0
  <2>1. \A x, y \in V : x \o y \in V BY ConcatProperties
  <2>2. <<>> \in V /\ \A x \in V : <<>> \o x = x BY EmptySeq, ConcatEmptySeq
  <2>3. FlattenSeq(s) = flat[n] BY <1>3 DEF FlattenSeq
  <2> HIDE DEF V
  <2>4. f \in [1 .. n -> [V -> V]]
    <3>1. ASSUME NEW i \in 1 .. n PROVE [x \in V |-> x \o s[i]] \in [V -> V] BY <1>1, <2>1
    <3> QED BY <3>1
  <2>5. \A i \in 1 .. n, x \in V : f[i][x] = x \o s[i] OBVIOUS
  <2> HIDE DEF f
  <2>6. PICK g \in [0 .. n -> V] : Solves(g, n, <<>>, f)
    <3>1. n \in Nat BY <1>1
    <3> HIDE DEF n
    <3> QED BY ONLY <2>2, <2>4, <3>1, Solvable
  <2> DEFINE h == [i \in 1 .. n |-> g[i]]
  <2>7. h = Flat(h)
    <3>1. ASSUME NEW i \in 1 .. n PROVE h[i] = Flat(h)[i]
      <4>1. g[i] = f[i][g[i - 1]] BY <2>6 DEF Solves
      <4>2. i - 1 \in 0 .. n BY <1>1
      <4>3. g[i] = g[i - 1] \o s[i] BY <2>5, <2>6, <4>1, <4>2
      <4>4. CASE i = 1
        <5>1. g[i - 1] = <<>> BY <2>6, <4>4 DEF Solves
        <5>2. s[i] \in V BY <1>1
        <5>3. g[i] = s[i] BY <2>2, <4>3, <5>1, <5>2
        <5> QED BY <4>4, <5>3
      <4>5. CASE i # 1
        <5>1. i - 1 \in 1 .. n BY <4>2, <4>5
        <5> QED BY <4>3, <4>5, <5>1
      <4> QED BY <4>4, <4>5
    <3> QED BY <3>1
  <2>8. flat = Flat(flat) BY <2>7
  <2> HIDE DEF flat
  <2>9. \A i \in 1 .. n : flat[i] = IF i = 1 THEN s[i] ELSE flat[i - 1] \o s[i]
    <3>1. \A i \in 1 .. n : flat[i] = Flat(flat)[i] BY <2>8
    <3> QED BY <3>1
  <2>10. ASSUME NEW i \in 1 .. n, i - 1 \in I PROVE i \in I
    <3>1. i \in 0 .. n /\ s[i] \in V BY <1>1
    <3>2. CASE i = 1 BY <2>9, <3>1, <3>2
    <3>3. CASE i # 1
      <4>1. flat[i - 1] \in V BY <2>10, <3>3
      <4>2. flat[i - 1] \o s[i] \in V BY <2>1, <3>1, <4>1
      <4>3. flat[i] \in V BY <2>9, <3>3, <4>2
      <4> QED BY <3>1, <4>3
    <3> QED BY <3>2, <3>3
  <2>11. 0 \in I /\ I \in SUBSET (0 .. n) BY <1>1
  <2> HIDE DEF I
  <2>12. I = 0 .. n BY <1>1, <2>10, <2>11, Climb
  <2>13. n \in I BY <1>1, <2>12
  <2> QED BY <1>3, <2>3, <2>13 DEF I, V
<1> QED BY <1>2, <1>3

LEMMA UnionType ==
    ASSUME NEW hitss \in Seq([Layer -> Seq(Chunk)]) PROVE Union(hitss) \in Seq(Source)
<1> DEFINE n == Len(hitss)
           all == [i \in 1 .. n |-> OneHop(hitss[i])]
           found == FlattenSeq(all)
           I == {i \in 1 .. Len(found) : \A j \in 1 .. i - 1 :
                    found[j].kind # found[i].kind \/ found[j].text # found[i].text}
<1>1. n \in Nat /\ \A i \in 1 .. n : hitss[i] \in [Layer -> Seq(Chunk)] BY LenProperties
<1>2. \A i \in 1 .. n : OneHop(hitss[i]) \in Seq(Source) BY <1>1, OneHopFacts
<1>3. all \in [1 .. n -> Seq(Source)] BY <1>2
<1>4. all \in Seq(Seq(Source)) BY <1>1, <1>3, SeqDef
<1> HIDE DEF all
<1>5. found \in Seq(Source) BY <1>4, FlattenType
<1>6. Union(hitss) = Firsts(found) BY DEF Union, all
<1> HIDE DEF found
<1>7. Firsts(found) = Subsequence(found, I) BY DEF Firsts
<1>8. I \in SUBSET Places(found) BY DEF Places
<1> HIDE DEF I
<1> QED BY <1>5, <1>6, <1>7, <1>8, PartOf

(* Of two sources of a kind the later has the higher place. *)
LEMMA PlaceGrows ==
    ASSUME NEW s \in Seq(Source), NEW i \in Places(s), NEW j \in Places(s),
           i < j, s[i].kind = s[j].kind
    PROVE  Place(s, i) # Place(s, j)
<1> DEFINE B(k) == {m \in 1 .. k - 1 : s[m].kind = s[k].kind}
<1>1. Len(s) \in Nat /\ i \in Nat /\ j \in Nat BY LenProperties DEF Places
<1>2. IsFiniteSet(1 .. j - 1) BY <1>1, FS_Interval
<1>3. B(j) \in SUBSET (1 .. j - 1) OBVIOUS
<1>4. IsFiniteSet(B(j)) BY <1>2, <1>3, FS_Subset
<1>5. B(i) \in SUBSET B(j) BY <1>1
<1>6. i \in B(j) /\ i \notin B(i) BY <1>1 DEF Places
<1> HIDE DEF B
<1>7. B(i) # B(j) BY <1>6
<1>8. Cardinality(B(i)) # Cardinality(B(j)) BY <1>4, <1>5, <1>7, FS_Subset
<1> QED BY <1>8 DEF Place, B

LEMMA PlaceType ==
    ASSUME NEW s \in Seq(Source), NEW i \in Places(s) PROVE Place(s, i) \in Nat
<1> DEFINE B == {m \in 1 .. i - 1 : s[m].kind = s[i].kind}
<1>1. Len(s) \in Nat /\ i \in Nat BY LenProperties DEF Places
<1>2. IsFiniteSet(1 .. i - 1) BY <1>1, FS_Interval
<1>3. B \in SUBSET (1 .. i - 1) OBVIOUS
<1>4. Cardinality(B) \in Nat BY <1>2, <1>3, FS_Subset, FS_CardinalityType
<1> QED BY <1>4 DEF Place

LEMMA ManyHopsFacts ==
    ASSUME NEW hitss \in Seq([Layer -> Seq(Chunk)])
    PROVE  ManyHops(hitss) \in Seq(Source) /\ Distinct(ManyHops(hitss))
<1> DEFINE s == Union(hitss)
           r == [i \in 1 .. Len(s) |-> [s[i] EXCEPT !.id = <<s[i].kind, Place(s, i)>>]]
<1>1. s \in Seq(Source) BY UnionType
<1>2. ManyHops(hitss) = r BY DEF ManyHops
<1> HIDE DEF s
<1>3. Len(s) \in Nat /\ \A i \in Places(s) : s[i] \in Source /\ Place(s, i) \in Nat
  BY <1>1, LenProperties, PlaceType DEF Places
<1>4. \A i \in Places(s) : r[i] \in Source /\ r[i].id = <<s[i].kind, Place(s, i)>>
  BY <1>3 DEF Places, Source
<1>5. r \in [1 .. Len(s) -> Source] BY <1>4 DEF Places
<1>6. r \in Seq(Source) /\ Places(r) = Places(s) BY <1>3, <1>5, SeqDef, LenProperties DEF Places
<1> HIDE DEF r
<1>7. ASSUME NEW i \in Places(s), NEW j \in Places(s), r[i].id = r[j].id PROVE i = j
  <2>1. s[i].kind = s[j].kind /\ Place(s, i) = Place(s, j) BY <1>4, <1>7
  <2>2. i \in Int /\ j \in Int BY <1>3 DEF Places
  <2>3. ~(i < j) BY <1>1, <2>1, PlaceGrows
  <2>4. ~(j < i) BY <1>1, <2>1, PlaceGrows
  <2> QED BY <2>2, <2>3, <2>4
<1> QED BY <1>2, <1>6, <1>7 DEF Distinct

LEMMA RetrieveFacts ==
    ASSUME NEW hitss \in Retrievals
    PROVE  Retrieve(hitss) \in Seq(Source) /\ Distinct(Retrieve(hitss))
<1>1. hitss \in Seq([Layer -> Seq(Chunk)]) BY ModelsAssumption
<1>2. CASE Len(hitss) = 1
  <2>1. hitss[1] \in [Layer -> Seq(Chunk)] BY <1>1, <1>2, LenProperties
  <2> QED BY <1>2, <2>1, OneHopFacts DEF Retrieve
<1>3. CASE Len(hitss) # 1 BY <1>1, <1>3, ManyHopsFacts DEF Retrieve
<1> QED BY <1>2, <1>3
-----------------------------------------------------------------------------
(* Scores *)

LEMMA ClampFacts ==
    ASSUME NEW s \in Int \cup {NaN} PROVE Clamp(s) \in 0 .. 100
<1>1. CASE s = NaN BY <1>1 DEF Clamp
<1>2. CASE s # NaN
  <2>1. s \in Int BY <1>2
  <2>2. Min({100, s}) = IF s <= 100 THEN s ELSE 100 BY <2>1 DEF Min
  <2> DEFINE m == Min({100, s})
  <2>3. m \in Int /\ m <= 100 BY <2>1, <2>2
  <2> HIDE DEF m
  <2>4. Max({0, m}) = IF m <= 0 THEN 0 ELSE m BY <2>3 DEF Max
  <2>5. Clamp(s) = Max({0, m}) BY <1>2 DEF Clamp, m
  <2> QED BY <2>3, <2>4, <2>5
<1> QED BY <1>1, <1>2

Scored(c) == Len(c) \in Nat /\ \A i \in 1 .. Len(c) : c[i].score \in 0 .. 100

LEMMA ParsedFacts ==
    ASSUME NEW claims \in Answers
    PROVE  /\ Scored(ParsedClaims(claims))
           /\ ParsedClaims(claims) # <<>> => Len(ParsedClaims(claims)) # 0
<1> DEFINE c == ParsedClaims(claims)
           n == Len(claims)
           T == {c[i] : i \in 1 .. n}
<1>1. n \in Nat /\ \A i \in 1 .. n : claims[i].score \in Int \cup {NaN} BY ModelsAssumption
<1>2. c = [i \in 1 .. n |-> [score |-> Clamp(claims[i].score), ids |-> claims[i].ids]]
  BY DEF ParsedClaims
<1>3. c \in [1 .. n -> T] BY <1>2
<1>4. c \in Seq(T) /\ Len(c) = n BY <1>1, <1>3, SeqDef, LenProperties
<1>5. \A i \in 1 .. n : c[i].score = Clamp(claims[i].score) BY <1>2
<1> HIDE DEF c
<1>6. \A i \in 1 .. n : c[i].score \in 0 .. 100 BY <1>1, <1>5, ClampFacts
<1>7. c # <<>> => Len(c) # 0 BY <1>4, EmptySeq
<1> QED BY <1>1, <1>4, <1>6, <1>7 DEF Scored, c

LEMMA TotalFacts ==
    ASSUME NEW c, Scored(c) PROVE Total(c) \in Int /\ 0 <= Total(c) /\ Total(c) <= 100 * Len(c)
<1> DEFINE n == Len(c)
           Sum(g) == [i \in 0 .. n |-> IF i = 0 THEN 0 ELSE g[i - 1] + c[i].score]
           sum == CHOOSE g : g = Sum(g)
           f == [i \in 1 .. n |-> [x \in Int |-> x + c[i].score]]
           I == {i \in 0 .. n : sum[i] \in Int /\ 0 <= sum[i] /\ sum[i] <= 100 * i}
<1>1. n \in Nat /\ \A i \in 1 .. n : c[i].score \in 0 .. 100 BY DEF Scored
<1>2. f \in [1 .. n -> [Int -> Int]]
  <2>1. ASSUME NEW i \in 1 .. n PROVE [x \in Int |-> x + c[i].score] \in [Int -> Int]
    <3> DEFINE d == c[i].score
    <3>2. d \in 0 .. 100 BY <1>1
    <3> HIDE DEF d
    <3>1. d \in Int BY <3>2
    <3> QED BY <3>1 DEF d
  <2> QED BY <2>1
<1>3. \A i \in 1 .. n, x \in Int : f[i][x] = x + c[i].score OBVIOUS
<1> HIDE DEF f
<1>4. PICK g \in [0 .. n -> Int] : Solves(g, n, 0, f)
  <2>1. n \in Nat /\ 0 \in Int BY <1>1
  <2> HIDE DEF n
  <2> QED BY ONLY <1>2, <2>1, Solvable
<1>5. g = Sum(g)
  <2>1. ASSUME NEW i \in 0 .. n PROVE g[i] = Sum(g)[i]
    <3>1. CASE i = 0 BY <1>4, <3>1 DEF Solves
    <3>2. CASE i # 0
      <4>1. i \in 1 .. n /\ i - 1 \in 0 .. n BY <1>1, <3>2
      <4>2. g[i - 1] \in Int BY <1>4, <4>1
      <4> QED BY <1>3, <1>4, <4>1, <4>2 DEF Solves
    <3> QED BY <3>1, <3>2
  <2> QED BY <1>4, <2>1
<1>6. sum = Sum(sum) BY <1>5
<1>7. Total(c) = sum[n] BY DEF Total
<1> HIDE DEF sum
<1>8. sum[0] = 0 /\ \A i \in 1 .. n : sum[i] = sum[i - 1] + c[i].score
  <2>1. \A i \in 0 .. n : sum[i] = Sum(sum)[i] BY <1>6
  <2>2. 0 \in 0 .. n /\ \A i \in 1 .. n : i \in 0 .. n /\ i # 0 BY <1>1
  <2>3. \A i \in 0 .. n : Sum(sum)[i] = IF i = 0 THEN 0 ELSE sum[i - 1] + c[i].score OBVIOUS
  <2> HIDE DEF Sum
  <2> QED BY <2>1, <2>2, <2>3
<1>9. 0 \in I BY <1>1, <1>8
<1>10. ASSUME NEW i \in 1 .. n, i - 1 \in I PROVE i \in I
  <2>1. c[i].score \in 0 .. 100 /\ sum[i] = sum[i - 1] + c[i].score BY <1>1, <1>8
  <2>2. sum[i - 1] \in Int /\ 0 <= sum[i - 1] /\ sum[i - 1] <= 100 * (i - 1) BY <1>10
  <2> DEFINE a == sum[i - 1]
             d == c[i].score
  <2>5. sum[i] = a + d /\ a \in Int /\ 0 <= a /\ a <= 100 * (i - 1) /\ d \in 0 .. 100
    BY <2>1, <2>2
  <2> HIDE DEF a, d
  <2>3. sum[i] \in Int /\ 0 <= sum[i] /\ sum[i] <= 100 * i BY <2>5
  <2>4. i \in 0 .. n BY <1>1
  <2> QED BY <2>3, <2>4
<1>11. I \in SUBSET (0 .. n) OBVIOUS
<1> HIDE DEF I
<1>12. I = 0 .. n BY <1>1, <1>9, <1>10, <1>11, Climb
<1>13. n \in I BY <1>1, <1>12
<1> QED BY <1>7, <1>13 DEF I

LEMMA Quotient ==
    ASSUME NEW t \in Int, NEW n \in Nat \ {0}, 0 <= t, t <= 100 * n
    PROVE  (100 * t) \div n \in 0 .. 10000
<1>1. 100 * t \in Nat OBVIOUS
<1> QED BY <1>1

LEMMA MeanFacts == ASSUME NEW c, Scored(c), Len(c) # 0 PROVE Mean(c) \in Degree
<1>1. Len(c) \in Nat \ {0} BY DEF Scored
<1>2. Total(c) \in Int /\ 0 <= Total(c) /\ Total(c) <= 100 * Len(c) BY TotalFacts
<1> DEFINE t == Total(c)
           n == Len(c)
<1>4. t \in Int /\ n \in Nat \ {0} /\ 0 <= t /\ t <= 100 * n BY <1>1, <1>2
<1> HIDE DEF t, n
<1>3. (100 * t) \div n \in 0 .. 10000 BY ONLY <1>4, Quotient
<1> QED BY <1>3 DEF Mean, Degree, t, n
-----------------------------------------------------------------------------
(* Sequences of rounds *)

LEMMA AnotherRound ==
    ASSUME NEW S, NEW s \in Seq(S), NEW r \in S
    PROVE  /\ Append(s, r) \in Seq(S)
           /\ Len(s) \in Nat
           /\ Len(Append(s, r)) = Len(s) + 1
           /\ Append(s, r)[Len(s) + 1] = r
           /\ \A i \in 1 .. Len(s) : Append(s, r)[i] = s[i]
           /\ Append(s, r) # <<>>
           /\ s # <<>> => Len(s) > 0
BY AppendProperties, LenProperties, EmptySeq

(* A verdict is well formed whatever the model answered. *)
LEMMA VerdictFacts ==
    ASSUME NEW v \in AllVerdicts
    PROVE  v.groundedness \in Degree /\ v.decision \in {"accept", "redraft", "abstain"}
<1>1. CASE v = Unverifiable BY <1>1 DEF Unverifiable, Degree
<1>2. ASSUME NEW claims \in Answers, NEW s \in Found, v = Aggregate(ParsedClaims(claims), s)
      PROVE  v.groundedness \in Degree /\ v.decision \in {"accept", "redraft", "abstain"}
  <2> DEFINE parsed == ParsedClaims(claims)
  <2>1. CASE parsed = <<>> BY <1>2, <2>1 DEF Aggregate, Unverifiable, Degree
  <2>2. CASE parsed # <<>>
    <3>1. v.groundedness = Mean(parsed) /\ v.decision = Decision(parsed)
      BY <1>2, <2>2 DEF Aggregate
    <3>2. Decision(parsed) \in {"accept", "redraft", "abstain"} BY DEF Decision
    <3>3. Mean(parsed) \in Degree
      <4>1. Scored(parsed) /\ Len(parsed) # 0 BY <2>2, ParsedFacts
      <4> HIDE DEF parsed
      <4> QED BY <4>1, MeanFacts
    <3> QED BY <3>1, <3>2, <3>3
  <2> QED BY <2>1, <2>2
<1>3. v = Unverifiable \/ \E claims \in Answers, s \in Found : v = Aggregate(ParsedClaims(claims), s)
  BY DEF AllVerdicts
<1> QED BY <1>1, <1>2, <1>3

LEMMA VerdictsKnown == ASSUME sources \in Found PROVE Verdicts \subseteq AllVerdicts
BY DEF Verdicts, AllVerdicts

-----------------------------------------------------------------------------
(* The tool-use loop *)

LEMMA BeginType == ASSUME LoopTypeOK, Begin PROVE LoopTypeOK'
<1>1. <<>> \in Seq(Pending) BY EmptySeq
<1> QED BY <1>1, LoopAssumption DEF Begin, LoopTypeOK, Saying, Outcome

(* The tool calls a turn may consist of. *)
LEMMA TurnFacts ==
    ASSUME NEW calls \in Turns
    PROVE  calls \in Seq(Call) /\ \A i \in 1 .. Len(calls) : calls[i] \in Call
<1>1. PICK n \in 1 .. MaxCalls : calls \in [1 .. n -> Call] BY DEF Turns
<1>2. n \in Nat BY <1>1, LoopAssumption
<1>3. calls \in Seq(Call) BY <1>1, <1>2
<1> QED BY <1>3, ElementOfSeq

LEMMA LoopType == ASSUME LoopTypeOK, LoopNext PROVE LoopTypeOK'
<1> USE LoopAssumption
<1>1. CASE AskFails BY <1>1 DEF AskFails, Return, LoopTypeOK, Outcome
<1>2. ASSUME NEW text \in Saying, AskSays(text) PROVE LoopTypeOK'
  BY <1>2 DEF AskSays, Asked, Return, LoopTypeOK, Outcome
<1>3. ASSUME NEW calls \in Turns, AskCalls(calls) PROVE LoopTypeOK'
  <2>1. Len(calls) \in Nat BY TurnFacts, LenProperties
  <2>2. \A i \in 1 .. Len(calls) :
           calls[i].name \in Tool \cup {Stranger} /\ calls[i].arg \in Argument
    BY TurnFacts DEF Call, Argument
  <2>3. \A i \in 1 .. Len(calls) :
           [id |-> <<step, i>>, name |-> calls[i].name, arg |-> calls[i].arg] \in Pending
    BY <2>1, <2>2 DEF Pending, LoopTypeOK
  <2>4. todo' \in [1 .. Len(calls) -> Pending] BY <1>3, <2>3 DEF AskCalls
  <2>5. todo' \in Seq(Pending) BY <2>1, <2>4
  <2> QED BY <1>3, <2>5 DEF AskCalls, Asked, LoopTypeOK
<1>4. CASE Invoke
  <2>1. Head(todo) \in Pending /\ Tail(todo) \in Seq(Pending)
    BY <1>4, HeadTailProperties DEF Invoke, LoopTypeOK
  <2>2. short' \in Saying \cup {Odd, Null}
    BY <1>4, <2>1 DEF Invoke, LoopTypeOK, MayBeOk, Pending, Argument
  <2> QED BY <1>4, <2>1, <2>2 DEF Invoke, LoopTypeOK
<1>5. CASE EndTurn
  BY <1>5 DEF EndTurn, Return, LoopTypeOK, Outcome, Saying
<1>6. CASE Exhausted BY <1>6 DEF Exhausted, Return, LoopTypeOK, Outcome
<1> QED BY <1>1, <1>2, <1>3, <1>4, <1>5, <1>6 DEF LoopNext
-----------------------------------------------------------------------------
(* One more round *)

LEMMA Bounds == MaxRounds \in Nat /\ MaxRounds > 0 /\ MinGain \in Nat /\ Abstention \notin Outcome
BY CommanderAssumption

LEMMA RoundsNow == ASSUME RoundInv PROVE \A i \in 1 .. Len(rounds) : RoundTyped(rounds[i])
<1>1. RoundsTyped BY DEF RoundInv, CommanderTypeOK
<1> QED BY <1>1 DEF RoundsTyped

LEMMA Degrees == ASSUME NEW d \in Degree PROVE d \in Int /\ d >= 0 /\ d <= 10000 /\ d # NoRound
BY DEF Degree, NoRound

LEMMA RoundScore ==
    ASSUME NEW r, RoundTyped(r) PROVE r.verdict.groundedness \in Degree
BY DEF RoundTyped

LEMMA DraftTyped ==
    ASSUME RoundInv, result.text # Odd PROVE result.text \in Outcome \ {Odd}
<1>1. LoopTypeOK BY DEF RoundInv, CommanderTypeOK
<1> QED BY <1>1 DEF LoopTypeOK

LEMMA JudgedVerdict ==
    ASSUME RoundInv, NEW v \in Verdicts, Verify(v)
    PROVE  /\ Going /\ v \in AllVerdicts
           /\ v.groundedness \in Degree
           /\ v.decision \in {"accept", "redraft", "abstain"}
<1>1. stage = "verify" BY DEF Verify, Drafted
<1>2. Going BY <1>1 DEF RoundInv
<1>3. sources \in Found BY <1>2 DEF Going
<1>4. v \in AllVerdicts BY <1>3, VerdictsKnown
<1> QED BY <1>2, <1>4, VerdictFacts

Judged(v) == [draft |-> result.text, verdict |-> v]

LEMMA JudgedRound ==
    ASSUME RoundInv, NEW v \in Verdicts, Verify(v)
    PROVE  /\ rounds' \in Seq(Round) /\ rounds' # <<>>
           /\ Len(rounds) \in Nat /\ Len(rounds') = Len(rounds) + 1
           /\ rounds'[Len(rounds) + 1] = Judged(v)
           /\ \A i \in 1 .. Len(rounds) : rounds'[i] = rounds[i]
           /\ rounds # <<>> => Len(rounds) > 0
<1>1. v \in AllVerdicts BY JudgedVerdict
<1>2. result.text # Odd BY DEF Verify, Drafted
<1>3. result.text \in Outcome \ {Odd} BY <1>2, DraftTyped
<1>4. Judged(v) \in Round BY <1>1, <1>3 DEF Round, Judged
<1>5. rounds \in Seq(Round) BY DEF RoundInv
<1>6. rounds' = Append(rounds, Judged(v)) BY DEF Verify, Judged
<1> QED BY <1>4, <1>5, <1>6, AnotherRound

(* What the last two lemmas leave to say of the round's parts. *)
LEMMA JudgedParts ==
    ASSUME NEW v PROVE Judged(v).verdict = v /\ Judged(v).draft = result.text
BY DEF Judged

LEMMA JudgedTyped == ASSUME RoundInv, NEW v \in Verdicts, Verify(v) PROVE RoundsTyped'
<1>1. /\ Len(rounds) \in Nat /\ Len(rounds') = Len(rounds) + 1
      /\ rounds'[Len(rounds) + 1] = Judged(v)
      /\ \A i \in 1 .. Len(rounds) : rounds'[i] = rounds[i]
  BY JudgedRound
<1>2. Going /\ v.groundedness \in Degree /\ v.decision \in {"accept", "redraft", "abstain"}
  BY JudgedVerdict
<1>3. Len(rounds) < MaxRounds BY <1>2 DEF Going
<1>4. Len(rounds') <= MaxRounds BY <1>1, <1>3, Bounds
<1>5. result.text # Odd BY DEF Verify, Drafted
<1>6. result.text \in Outcome \ {Odd} BY <1>5, DraftTyped
<1>7. RoundsTyped BY DEF RoundInv, CommanderTypeOK
<1>8. RoundTyped(Judged(v)) BY <1>2, <1>6 DEF RoundTyped, Judged
<1>9. ASSUME NEW i \in 1 .. Len(rounds') PROVE RoundTyped(rounds'[i])
  <2>1. CASE i = Len(rounds) + 1 BY <1>1, <1>8, <2>1
  <2>2. CASE i # Len(rounds) + 1
    <3>1. i \in 1 .. Len(rounds) BY <1>1, <2>2
    <3>2. rounds'[i] = rounds[i] BY <1>1, <3>1
    <3> QED BY <1>7, <3>1, <3>2 DEF RoundsTyped
  <2> QED BY <2>1, <2>2
<1> QED BY <1>4, <1>9 DEF RoundsTyped

(* The round that is added may be the last, so it need not have gained. *)
LEMMA JudgedProgress == ASSUME RoundInv, NEW v \in Verdicts, Verify(v) PROVE Progress'
<1>1. /\ Len(rounds) \in Nat /\ Len(rounds') = Len(rounds) + 1
      /\ \A i \in 1 .. Len(rounds) : rounds'[i] = rounds[i]
  BY JudgedRound
<1>2. Redrafts(rounds) /\ Gains(rounds) BY JudgedVerdict DEF Going
<1>3. ASSUME NEW i \in 1 .. Len(rounds') - 1 PROVE rounds'[i].verdict.decision = "redraft"
  <2>1. i \in 1 .. Len(rounds) BY <1>1
  <2> QED BY <1>1, <1>2, <2>1 DEF Redrafts
<1>4. ASSUME MinGain > 0, NEW i \in 1 .. Len(rounds') - 2
      PROVE  rounds'[i + 1].verdict.groundedness - rounds'[i].verdict.groundedness >= MinGain
  <2>1. i \in 1 .. Len(rounds) - 1 /\ i \in 1 .. Len(rounds) /\ i + 1 \in 1 .. Len(rounds)
    BY <1>1
  <2>2. rounds'[i] = rounds[i] /\ rounds'[i + 1] = rounds[i + 1] BY <1>1, <2>1
  <2> QED BY <1>2, <1>4, <2>1, <2>2 DEF Gains
<1> QED BY <1>3, <1>4 DEF Progress

(* A redraft that goes on keeps the loop's invariant. *)
LEMMA RedraftGoes ==
    ASSUME RoundInv, NEW v \in Verdicts, Redraft(v) PROVE Going'
<1>1. Verify(v) /\ v.decision = "redraft" /\ MayGoOn(v) /\ Len(rounds) + 1 < MaxRounds
      /\ prev' = v.groundedness /\ sources' = sources
  BY DEF Redraft
<1>2. /\ Len(rounds) \in Nat /\ Len(rounds') = Len(rounds) + 1
      /\ rounds'[Len(rounds) + 1] = Judged(v) /\ rounds' # <<>>
      /\ \A i \in 1 .. Len(rounds) : rounds'[i] = rounds[i]
      /\ rounds # <<>> => Len(rounds) > 0
  BY <1>1, JudgedRound
<1>3. Going /\ v.groundedness \in Degree BY <1>1, JudgedVerdict
<1>4. /\ sources \in Found /\ Redrafts(rounds) /\ Gains(rounds)
      /\ rounds # <<>> => prev = LastRound.verdict.groundedness
  BY <1>3 DEF Going
<1>5. Judged(v).verdict = v BY JudgedParts
<1>6. Redrafts(rounds')
  <2>1. ASSUME NEW i \in 1 .. Len(rounds') PROVE rounds'[i].verdict.decision = "redraft"
    <3>1. CASE i = Len(rounds) + 1 BY <1>1, <1>2, <1>5, <3>1
    <3>2. CASE i # Len(rounds) + 1
      <4>1. i \in 1 .. Len(rounds) BY <1>2, <3>2
      <4> QED BY <1>2, <1>4, <4>1 DEF Redrafts
    <3> QED BY <3>1, <3>2
  <2> QED BY <2>1 DEF Redrafts
<1>7. Gains(rounds')
  <2>1. ASSUME MinGain > 0, NEW i \in 1 .. Len(rounds') - 1
        PROVE  rounds'[i + 1].verdict.groundedness - rounds'[i].verdict.groundedness >= MinGain
    <3>1. i \in 1 .. Len(rounds) BY <1>2
    <3>2. rounds'[i] = rounds[i] BY <1>2, <3>1
    <3>3. CASE i = Len(rounds)
      <4>1. rounds'[i + 1].verdict = v BY <1>2, <1>5, <3>3
      <4>2. rounds # <<>> BY <3>1, EmptySeq
      <4>3. prev = rounds[i].verdict.groundedness BY <1>4, <3>3, <4>2 DEF LastRound
      <4>4. RoundTyped(rounds[i]) BY <3>1, RoundsNow
      <4>5. prev \in Degree BY <4>3, <4>4, RoundScore
      <4>6. prev # NoRound BY <4>5, Degrees
      <4>7. MinGain # 0 BY <2>1, Bounds
      <4>8. v.groundedness - prev >= MinGain BY <1>1, <4>6, <4>7 DEF MayGoOn
      <4> QED BY <3>2, <4>1, <4>3, <4>8
    <3>4. CASE i # Len(rounds)
      <4>1. i \in 1 .. Len(rounds) - 1 /\ i + 1 \in 1 .. Len(rounds) BY <1>2, <3>1, <3>4
      <4>2. rounds'[i + 1] = rounds[i + 1] BY <1>2, <4>1
      <4> QED BY <1>4, <2>1, <3>2, <4>1, <4>2 DEF Gains
    <3> QED BY <3>3, <3>4
  <2> QED BY <2>1 DEF Gains
<1>8. prev' = LastRound'.verdict.groundedness BY <1>1, <1>2, <1>5 DEF LastRound
<1>9. Len(rounds') < MaxRounds BY <1>1, <1>2
<1> QED BY <1>1, <1>2, <1>4, <1>6, <1>7, <1>8, <1>9 DEF Going

-----------------------------------------------------------------------------
(* Every step *)

Invs == RoundInv /\ Progress /\ OnlyGroundedReleased

(* The parts of the type invariant, for steps that disturb only some. *)
LEMMA TypeParts ==
    ASSUME Invs
    PROVE  /\ LoopTypeOK /\ config \in Configs /\ kind \in TaskKind
           /\ RoundsTyped /\ prev \in {NoRound} \cup Degree /\ ReplyTyped
           /\ sources \in Seq(Source)
BY DEF Invs, RoundInv, CommanderTypeOK

LEMMA TypeBuilt ==
    ASSUME LoopTypeOK', config' \in Configs, kind' \in TaskKind, RoundsTyped',
           prev' \in {NoRound} \cup Degree, ReplyTyped', sources' \in Seq(Source),
           stage' \in {"classify", "retrieve", "bypass", "verify", "done", "raised"}
    PROVE  CommanderTypeOK'
BY DEF CommanderTypeOK

LEMMA RoundInit == Init => Invs
<1> SUFFICES ASSUME Init PROVE Invs OBVIOUS
<1>1. /\ <<>> \in Seq(Round) /\ <<>> \in Seq(Pending) /\ <<>> \in Seq(Source)
      /\ Len(<<>>) = 0
  BY EmptySeq
<1>2. LoopTypeOK
  BY <1>1, LoopAssumption DEF Init, LoopInit, LoopTypeOK, Saying, Outcome
<1>3. Blank # Odd /\ kind \in TaskKind BY LoopAssumption DEF Init, TaskKind
<1>4. ReplyTyped BY <1>3 DEF Init, ReplyTyped, Answer, Reason, Outcome, Saying
<1>5. RoundsTyped BY <1>1, Bounds DEF Init, RoundsTyped
<1>6. CommanderTypeOK BY <1>1, <1>2, <1>3, <1>4, <1>5 DEF Init, CommanderTypeOK
<1>7. RoundInv BY <1>1, <1>6 DEF Init, RoundInv
<1>8. Progress BY <1>1 DEF Init, Progress
<1> QED BY <1>7, <1>8 DEF Init, Invs, OnlyGroundedReleased

(* Steps that leave the rounds and the reply alone. *)
LEMMA QuietStep ==
    ASSUME Invs, LoopTypeOK', UNCHANGED <<rounds, prev, reply, config>>, kind' \in TaskKind,
           sources' \in Seq(Source),
           stage' \in {"classify", "retrieve", "bypass", "verify", "done", "raised"},
           stage' = "done" => stage = "done",
           stage' \in {"classify", "retrieve", "bypass"}
              => stage \in {"classify", "retrieve", "bypass"},
           stage' = "verify" => Going'
    PROVE  Invs'
<1>1. CommanderTypeOK'
  <2>1. RoundsTyped' BY TypeParts DEF RoundsTyped
  <2>2. ReplyTyped' BY TypeParts DEF ReplyTyped
  <2>3. config' \in Configs /\ prev' \in {NoRound} \cup Degree BY TypeParts
  <2> QED BY <2>1, <2>2, <2>3, TypeBuilt
<1>2. RoundInv' BY <1>1 DEF Invs, RoundInv
<1>3. Progress' BY DEF Invs, Progress
<1>4. LastRound' = LastRound BY DEF LastRound
<1>5. OnlyGroundedReleased' BY <1>4 DEF Invs, OnlyGroundedReleased
<1> QED BY <1>2, <1>3, <1>5 DEF Invs

LEMMA ClassifyInv == ASSUME Invs, Classify PROVE Invs'
<1>1. LoopTypeOK'
  <2>1. LoopTypeOK BY TypeParts
  <2>2. CASE Begin BY <2>1, <2>2, BeginType
  <2>3. CASE UNCHANGED loopVars BY <2>1, <2>3 DEF LoopTypeOK, loopVars
  <2> QED BY <2>2, <2>3 DEF Classify
<1>2. sources' \in Seq(Source) BY TypeParts DEF Classify
<1> QED BY <1>1, <1>2, QuietStep DEF Classify

LEMMA GroundInv == ASSUME Invs, Ground PROVE Invs'
<1>1. LoopTypeOK' BY TypeParts, BeginType DEF Ground
<1>2. /\ stage = "retrieve" /\ stage' \in {"bypass", "verify"} /\ sources' \in Found
      /\ UNCHANGED <<config, kind, rounds, prev, reply>>
  BY DEF Ground, Found
<1>3. rounds = <<>> /\ prev = NoRound BY <1>2 DEF Invs, RoundInv
<1>4. rounds' = <<>> /\ prev' = NoRound BY <1>2, <1>3
<1>5. Len(rounds') = 0 BY <1>4, EmptySeq
<1>6. Redrafts(rounds') /\ Gains(rounds') BY <1>5 DEF Redrafts, Gains
<1>7. Len(rounds') < MaxRounds BY <1>5, Bounds
<1>8. Going' BY <1>2, <1>4, <1>6, <1>7 DEF Going
<1>9. kind' \in TaskKind BY <1>2, TypeParts
<1>10. sources' \in Seq(Source) BY RetrieveFacts DEF Ground
<1> QED BY <1>1, <1>2, <1>8, <1>9, <1>10, QuietStep

(* Going is about variables the tool-use loop does not have. *)
LEMMA StillGoing ==
    ASSUME Going, UNCHANGED <<sources, rounds, prev>> PROVE Going'
<1>1. LastRound' = LastRound BY DEF LastRound
<1>2. Redrafts(rounds') /\ Gains(rounds') BY DEF Going
<1> QED BY <1>1, <1>2 DEF Going

LEMMA ThinkInv == ASSUME Invs, LoopNext, UNCHANGED ownVars PROVE Invs'
<1>1. LoopTypeOK' BY TypeParts, LoopType
<1>2. UNCHANGED <<config, stage, kind, sources, rounds, prev, reply>> BY DEF ownVars
<1>3. stage' = "verify" => Going' BY <1>2, StillGoing DEF Invs, RoundInv
<1>4. stage \in {"classify", "retrieve", "bypass", "verify", "done", "raised"}
  BY DEF Invs, RoundInv, CommanderTypeOK
<1>5. kind' \in TaskKind /\ sources' \in Seq(Source) BY <1>2, TypeParts
<1> QED BY <1>1, <1>2, <1>3, <1>4, <1>5, QuietStep

LEMMA LoopStays == ASSUME LoopTypeOK, UNCHANGED loopVars PROVE LoopTypeOK'
BY DEF LoopTypeOK, loopVars

LEMMA RaiseInv == ASSUME Invs, Raise PROVE Invs'
<1>1. LoopTypeOK' BY TypeParts, LoopStays DEF Raise
<1>2. kind' \in TaskKind /\ sources' \in Seq(Source) BY TypeParts DEF Raise
<1> QED BY <1>1, <1>2, QuietStep DEF Raise

(* What is delivered is part of what was found, cited by the text. *)
LEMMA DeliverFacts ==
    ASSUME sources \in Seq(Source), Deliver
    PROVE  /\ sources' \in Seq(Source)
           /\ Distinct(sources) => Distinct(sources')
           /\ \A k \in Places(sources') : sources'[k].id \in Mentions(result.text)
<1> DEFINE I == {i \in 1 .. Len(sources) : sources[i].id \in Mentions(result.text)}
<1>1. sources' = IF kind = "synthesis" THEN Subsequence(sources, I) ELSE <<>> BY DEF Deliver
<1>2. I \in SUBSET Places(sources) BY DEF Places
<1>3. \A i \in I : sources[i].id \in Mentions(result.text) OBVIOUS
<1> HIDE DEF I
<1>4. CASE kind = "synthesis"
  <2> DEFINE r == Subsequence(sources, I)
  <2>1. /\ r \in Seq(Source)
        /\ Distinct(sources) => Distinct(r)
        /\ \A k \in Places(r) : \E i \in I : r[k] = sources[i]
    BY <1>2, PartOf
  <2> HIDE DEF r
  <2>2. sources' = r BY <1>1, <1>4 DEF r
  <2> QED BY <1>3, <2>1, <2>2
<1>5. CASE kind # "synthesis"
  <2>1. sources' = <<>> BY <1>1, <1>5
  <2>2. <<>> \in Seq(Source) /\ Places(<<>>) = {} BY EmptySeq DEF Places
  <2> QED BY <2>1, <2>2 DEF Distinct
<1> QED BY <1>4, <1>5

LEMMA DeliverInv == ASSUME Invs, Deliver PROVE Invs'
<1>1. LoopTypeOK' BY TypeParts, LoopStays DEF Deliver
<1>2. result.text \in Outcome \ {Odd}
  BY DraftTyped DEF Invs, Deliver, Drafted
<1>3. reply'.text = result.text /\ reply'.reason = kind BY DEF Deliver, Answer
<1>4. ReplyTyped' BY <1>2, <1>3, TypeParts DEF ReplyTyped, Reason
<1>5. stage = "bypass" /\ stage' = "done" /\ UNCHANGED <<config, kind, rounds, prev>>
  BY DEF Deliver, Drafted
<1>6. RoundsTyped' BY <1>5, TypeParts DEF RoundsTyped
<1>7. config' \in Configs /\ kind' \in TaskKind /\ prev' \in {NoRound} \cup Degree
  BY <1>5, TypeParts
<1>12. sources' \in Seq(Source) BY TypeParts, DeliverFacts
<1>8. CommanderTypeOK' BY <1>1, <1>4, <1>5, <1>6, <1>7, <1>12, TypeBuilt
<1>9. rounds = <<>> BY <1>5 DEF Invs, RoundInv
<1>10. RoundInv' BY <1>5, <1>8 DEF Invs, RoundInv
<1>11. Progress' BY <1>5 DEF Invs, Progress
<1> QED BY <1>5, <1>9, <1>10, <1>11 DEF Invs, OnlyGroundedReleased

-----------------------------------------------------------------------------
(* Verdicts *)

(* A step that adds a round and keeps the loop's types. *)
LEMMA JudgedType ==
    ASSUME Invs, NEW v \in Verdicts, Verify(v), LoopTypeOK',
           UNCHANGED <<config, kind, sources>>, prev' \in {prev, v.groundedness},
           stage' \in {"verify", "done"}, ReplyTyped'
    PROVE  CommanderTypeOK'
<1>1. RoundsTyped' BY JudgedTyped DEF Invs
<1>2. v.groundedness \in Degree BY JudgedVerdict DEF Invs
<1>3. prev' \in {NoRound} \cup Degree BY <1>2, TypeParts
<1>4. config' \in Configs /\ kind' \in TaskKind /\ sources' \in Seq(Source) BY TypeParts
<1> QED BY <1>1, <1>3, <1>4, TypeBuilt

(* What OnlyGroundedReleased allows as the reply to a draft: n rounds were *)
(* used.                                                                   *)
Allowed(r, draft, decision, n) ==
    IF decision = "accept"
      THEN r.reason = "accept" /\ r.text = draft /\ ~r.note
      ELSE /\ r.reason # "accept"
           /\ config.blocking =>
                \/ r.text = Abstention
                \/ ~config.abstains /\ n = MaxRounds /\ r.text = draft
           /\ ~config.blocking =>
                /\ r.note
                /\ r.text \in {draft, Abstention}
                /\ r.text = Abstention => draft = Blank

(* A round that ends the run. *)
LEMMA LastJudged ==
    ASSUME Invs, NEW v \in Verdicts, Verify(v), stage' = "done",
           UNCHANGED <<loopVars, config, kind, sources>>, prev' \in {prev, v.groundedness},
           ReplyTyped', Allowed(reply', result.text, v.decision, Len(rounds) + 1)
    PROVE  Invs'
<1>1. LoopTypeOK' BY TypeParts, LoopStays
<1>2. CommanderTypeOK' BY <1>1, JudgedType
<1>3. /\ rounds' \in Seq(Round) /\ Len(rounds) \in Nat /\ Len(rounds') = Len(rounds) + 1
      /\ rounds'[Len(rounds) + 1] = Judged(v)
  BY JudgedRound DEF Invs
<1>4. RoundInv' BY <1>2, <1>3 DEF RoundInv
<1>5. Progress' BY JudgedProgress DEF Invs
<1>6. LastRound'.draft = result.text /\ LastRound'.verdict = v
  BY <1>3, JudgedParts DEF LastRound
<1>7. OnlyGroundedReleased' BY <1>3, <1>6 DEF OnlyGroundedReleased, Allowed
<1> QED BY <1>4, <1>5, <1>7 DEF Invs

(* What takes the place of a draft that was not accepted. *)
ReplyOk(r) == r.text \in (Outcome \cup {Abstention}) \ {Odd} /\ r.reason \in Reason

LEMMA WithheldFacts ==
    ASSUME NEW v, NEW reason \in {"abstain", "no_improvement"}, NEW n, NEW d, d # "accept",
           result.text \in Outcome \ {Odd}
    PROVE  ReplyOk(Withheld(v, reason)) /\ Allowed(Withheld(v, reason), result.text, d, n)
<1>1. Abstention \notin Outcome /\ Odd \in Outcome BY Bounds DEF Outcome
<1>2. CASE config.blocking
  <2>1. Withheld(v, reason) = Answer(Abstention, {}, reason) BY <1>2 DEF Withheld
  <2>2. Answer(Abstention, {}, reason).text = Abstention
        /\ Answer(Abstention, {}, reason).reason = reason BY DEF Answer
  <2> QED BY <1>1, <1>2, <2>1, <2>2 DEF Allowed, ReplyOk, Reason
<1>3. CASE ~config.blocking
  <2> DEFINE r == Withheld(v, reason)
  <2>1. r.text = IF result.text = Blank THEN Abstention ELSE result.text
    BY <1>3 DEF Withheld, Answer
  <2>2. r.reason = "abstain_advisory" /\ r.note BY <1>3 DEF Withheld, Answer
  <2> HIDE DEF r
  <2>3. r.text \in (Outcome \cup {Abstention}) \ {Odd} BY <1>1, <2>1
  <2>4. r.text \in {result.text, Abstention} /\ (r.text = Abstention => result.text = Blank)
    BY <1>1, <2>1
  <2>5. ReplyOk(r) BY <2>2, <2>3 DEF ReplyOk, Reason
  <2>6. Allowed(r, result.text, d, n) BY <1>3, <2>2, <2>4 DEF Allowed
  <2> QED BY <2>5, <2>6 DEF r
<1> QED BY <1>2, <1>3

LEMMA AnswerFacts ==
    ASSUME result.text \in Outcome \ {Odd}, NEW ids, NEW reason \in {"accept", "max_rounds"}
    PROVE  /\ ReplyOk(Answer(result.text, ids, reason))
           /\ Answer(result.text, ids, reason).text = result.text
           /\ Answer(result.text, ids, reason).reason = reason
BY DEF ReplyOk, Answer, Reason

LEMMA ReplyIsTyped == ASSUME ReplyOk(reply') PROVE ReplyTyped'
BY DEF ReplyOk, ReplyTyped

(* Every verdict is on a typed draft. *)
LEMMA JudgedDraft == ASSUME Invs, NEW v, Verify(v) PROVE result.text \in Outcome \ {Odd}
<1>1. result.text # Odd BY DEF Verify, Drafted
<1> QED BY <1>1, DraftTyped DEF Invs

LEMMA AcceptInv == ASSUME Invs, NEW v \in Verdicts, Accept(v) PROVE Invs'
<1>1. /\ Verify(v) /\ v.decision = "accept" /\ stage' = "done"
      /\ UNCHANGED <<loopVars, config, kind, sources, prev>>
  BY DEF Accept
<1>2. /\ reply'.text = Answer(result.text, v.cited, "accept").text
      /\ reply'.reason = Answer(result.text, v.cited, "accept").reason
      /\ reply'.note = FALSE
  BY DEF Accept, Answer
<1>3. result.text \in Outcome \ {Odd} BY <1>1, JudgedDraft
<1>4. reply'.text = result.text /\ reply'.reason = "accept" BY <1>2, <1>3, AnswerFacts
<1>5. ReplyOk(reply') BY <1>2, <1>3, AnswerFacts DEF ReplyOk
<1>6. Allowed(reply', result.text, v.decision, Len(rounds) + 1)
  BY <1>1, <1>2, <1>4 DEF Allowed
<1> QED BY <1>1, <1>5, <1>6, ReplyIsTyped, LastJudged

LEMMA AbstainInv ==
    ASSUME Invs, NEW v \in Verdicts, Abstain(v) \/ StopWithoutGain(v) PROVE Invs'
<1>1. PICK reason \in {"abstain", "no_improvement"} : reply' = Withheld(v, reason)
  BY DEF Abstain, StopWithoutGain
<1>2. /\ Verify(v) /\ v.decision # "accept" /\ stage' = "done"
      /\ UNCHANGED <<loopVars, config, kind, sources, prev>>
  BY DEF Abstain, StopWithoutGain
<1>3. result.text \in Outcome \ {Odd} BY <1>2, JudgedDraft
<1>4. ReplyOk(reply') /\ Allowed(reply', result.text, v.decision, Len(rounds) + 1)
  BY <1>1, <1>2, <1>3, WithheldFacts
<1> QED BY <1>2, <1>4, ReplyIsTyped, LastJudged

LEMMA OutOfRoundsInv == ASSUME Invs, NEW v \in Verdicts, OutOfRounds(v) PROVE Invs'
<1>1. /\ Verify(v) /\ v.decision = "redraft" /\ Len(rounds) + 1 = MaxRounds
      /\ prev' = v.groundedness /\ stage' = "done"
      /\ UNCHANGED <<loopVars, config, kind, sources>>
  BY DEF OutOfRounds
<1>2. result.text \in Outcome \ {Odd} BY <1>1, JudgedDraft
<1>3. ReplyOk(reply') /\ Allowed(reply', result.text, v.decision, Len(rounds) + 1)
  <2>1. CASE config.blocking /\ ~config.abstains
    <3>1. reply' = Answer(result.text, v.cited, "max_rounds") BY <2>1 DEF OutOfRounds
    <3>2. ReplyOk(reply') /\ reply'.text = result.text /\ reply'.reason = "max_rounds"
      BY <1>2, <3>1, AnswerFacts
    <3> QED BY <1>1, <2>1, <3>2 DEF Allowed
  <2>2. CASE ~(config.blocking /\ ~config.abstains)
    <3>1. reply' = Withheld(v, "abstain") BY <2>2 DEF OutOfRounds
    <3> QED BY <1>1, <1>2, <3>1, WithheldFacts
  <2> QED BY <2>1, <2>2
<1> QED BY <1>1, <1>3, ReplyIsTyped, LastJudged

LEMMA RedraftInv == ASSUME Invs, NEW v \in Verdicts, Redraft(v) PROVE Invs'
<1>1. /\ Verify(v) /\ stage' = "verify" /\ prev' = v.groundedness
      /\ UNCHANGED <<config, kind, sources, reply>>
  BY DEF Redraft, Verify, Drafted
<1>2. LoopTypeOK' BY TypeParts, BeginType DEF Redraft
<1>3. ReplyTyped' BY <1>1, TypeParts DEF ReplyTyped
<1>4. CommanderTypeOK' BY <1>1, <1>2, <1>3, JudgedType
<1>5. rounds' \in Seq(Round) BY <1>1, JudgedRound DEF Invs
<1>6. Going' BY RedraftGoes DEF Invs
<1>7. RoundInv' BY <1>1, <1>4, <1>5, <1>6 DEF RoundInv
<1>8. Progress' BY <1>1, JudgedProgress DEF Invs
<1> QED BY <1>1, <1>7, <1>8 DEF Invs, OnlyGroundedReleased

LEMMA RoundNext == Invs /\ [Next]_vars => Invs'
<1> SUFFICES ASSUME Invs, [Next]_vars PROVE Invs' OBVIOUS
<1>1. CASE Classify BY <1>1, ClassifyInv
<1>2. CASE Ground BY <1>2, GroundInv
<1>3. CASE LoopNext /\ UNCHANGED ownVars BY <1>3, ThinkInv
<1>4. CASE Deliver BY <1>4, DeliverInv
<1>5. CASE Raise BY <1>5, RaiseInv
<1>6. CASE Judge
  <2>1. PICK v \in Verdicts :
           Accept(v) \/ Abstain(v) \/ StopWithoutGain(v) \/ Redraft(v) \/ OutOfRounds(v)
    BY <1>6 DEF Judge
  <2> QED BY <2>1, AcceptInv, AbstainInv, RedraftInv, OutOfRoundsInv
<1>7. CASE UNCHANGED vars
  <2>1. UNCHANGED loopVars /\ UNCHANGED <<config, stage, kind, sources, rounds, prev, reply>>
    BY <1>7 DEF vars, ownVars
  <2>2. LoopTypeOK' BY <2>1, TypeParts, LoopStays
  <2>3. stage' = "verify" => Going' BY <2>1, StillGoing DEF Invs, RoundInv
  <2>4. stage \in {"classify", "retrieve", "bypass", "verify", "done", "raised"}
    BY DEF Invs, RoundInv, CommanderTypeOK
  <2>5. kind' \in TaskKind /\ sources' \in Seq(Source) BY <2>1, TypeParts
  <2> QED BY <2>1, <2>2, <2>3, <2>4, <2>5, QuietStep
<1> QED BY <1>1, <1>2, <1>3, <1>4, <1>5, <1>6, <1>7 DEF Next

LEMMA RoundAlways == Spec => []Invs
BY RoundInit, RoundNext, PTL DEF Spec

-----------------------------------------------------------------------------
(* The commander's result and its rounds are well typed, and never more    *)
(* than MaxRounds.                                                         *)
THEOREM RoundsTypeCorrect == Spec => []CommanderTypeOK
<1>1. Invs => CommanderTypeOK BY DEF Invs, RoundInv
<1> QED BY <1>1, RoundAlways, PTL

(* A draft the verifier did not accept never leaves a blocking commander,  *)
(* unless the caller asked for the last one and every round was used; an   *)
(* advisory one marks it.                                                  *)
THEOREM GroundedAlways == Spec => []OnlyGroundedReleased
<1>1. Invs => OnlyGroundedReleased BY DEF Invs
<1> QED BY <1>1, RoundAlways, PTL

(* Each redraft but the last gained MinGain on the draft before it. *)
THEOREM ProgressAlways == Spec => []Progress
<1>1. Invs => Progress BY DEF Invs
<1> QED BY <1>1, RoundAlways, PTL

-----------------------------------------------------------------------------
(* Citations *)

CiteInv == Distinct(sources) /\ CitationsTrue

(* An id of a list without duplicates names one of its sources. *)
LEMMA NamesOne ==
    ASSUME NEW s \in Seq(Source), Distinct(s), NEW k \in Places(s)
    PROVE  Cardinality({i \in 1 .. Len(s) : s[i].id = s[k].id}) = 1
<1>1. {i \in 1 .. Len(s) : s[i].id = s[k].id} = {k} BY DEF Distinct, Places
<1> QED BY <1>1, FS_Singleton

(* A claim that passed rests on the source. *)
Backed(claims, id) == \E i \in 1 .. Len(claims) : claims[i].score >= PassAt /\ id \in claims[i].ids

LEMMA CitedBacked ==
    ASSUME NEW c, Scored(c), NEW s, NEW id \in Cited(c, s)
    PROVE  Backed(c, id) /\ \E k \in Places(s) : s[k].id = id
<1>1. PICK i \in (1 .. Len(c)) \ Unsupported(c) : id \in c[i].ids BY DEF Cited
<1>2. \E k \in Places(s) : s[k].id = id
  <2> DEFINE ids == {s[k].id : k \in 1 .. Len(s)}
             passed == UNION {c[k].ids : k \in (1 .. Len(c)) \ Unsupported(c)}
  <2>1. Cited(c, s) = passed \cap ids BY DEF Cited
  <2> HIDE DEF passed
  <2>2. id \in ids BY <2>1
  <2> QED BY <2>2 DEF Places
<1>3. i \in 1 .. Len(c) /\ ~(c[i].score < PassAt) BY <1>1 DEF Unsupported
<1>4. c[i].score \in 0 .. 100 BY <1>3 DEF Scored
<1>5. PassAt \in Nat BY GroundingAssumption
<1>6. c[i].score >= PassAt
  <2> DEFINE score == c[i].score
  <2>1. score \in 0 .. 100 /\ ~(score < PassAt) BY <1>3, <1>4
  <2> HIDE DEF score
  <2>2. score >= PassAt BY <1>5, <2>1
  <2> QED BY <2>2 DEF score
<1> QED BY <1>1, <1>2, <1>3, <1>6 DEF Backed

LEMMA VerdictCites ==
    ASSUME NEW v \in Verdicts, NEW id \in v.cited
    PROVE  /\ Backed(v.claims, id) /\ \E k \in Places(sources) : sources[k].id = id
           /\ result.text # Blank
<1>1. v # Unverifiable BY DEF Unverifiable
<1>2. result.text # Blank BY <1>1 DEF Verdicts
<1>3. PICK claims \in Answers : v = Aggregate(ParsedClaims(claims), sources)
  BY <1>1 DEF Verdicts
<1> DEFINE c == ParsedClaims(claims)
<1>4. Scored(c) BY ParsedFacts
<1>5. v.claims = c /\ v.cited = Cited(c, sources) BY <1>1, <1>3 DEF Aggregate
<1> HIDE DEF c
<1>6. id \in Cited(c, sources) BY <1>5
<1>7. Backed(c, id) /\ \E k \in Places(sources) : sources[k].id = id
  BY <1>4, <1>6, CitedBacked
<1> QED BY <1>2, <1>5, <1>7

(* A reply that cites what the verdict v does, and shows it. *)
Shows(r, v) ==
    /\ r.citations \subseteq v.cited
    /\ r.text = Abstention => r.citations = {}
    /\ r.reason = "accept" /\ config.footer => r.citations \subseteq Mentions(r.text) \cup r.footer

LEMMA CitesInit == Init => CiteInv
<1>1. Places(<<>>) = {} BY DEF Places
<1> QED BY <1>1 DEF Init, CiteInv, CitationsTrue, Distinct

(* Citations are about variables the tool-use loop does not have. *)
LEMMA CitesQuiet ==
    ASSUME CiteInv, UNCHANGED <<config, sources, rounds, reply>>, stage' = "done" => stage = "done"
    PROVE  CiteInv'
<1>1. LastRound' = LastRound BY DEF LastRound
<1> QED BY <1>1 DEF CiteInv, CitationsTrue, Distinct, Places

LEMMA CitesGround == ASSUME Ground PROVE CiteInv'
<1>1. Distinct(sources') BY RetrieveFacts DEF Ground
<1>2. stage' # "done" BY DEF Ground
<1> QED BY <1>1, <1>2 DEF CiteInv, CitationsTrue

LEMMA CitesDeliver == ASSUME Invs, CiteInv, Deliver PROVE CiteInv'
<1>1. /\ sources' \in Seq(Source) /\ Distinct(sources')
      /\ \A k \in Places(sources') : sources'[k].id \in Mentions(result.text)
  BY TypeParts, DeliverFacts DEF CiteInv
<1>2. /\ reply'.text = result.text /\ reply'.reason = kind
      /\ reply'.citations = {sources'[k].id : k \in Places(sources')}
  BY DEF Deliver, Answer, Places
<1>3. rounds' = <<>> BY DEF Deliver, Drafted, Invs, RoundInv
<1>4. result.text # Abstention
  <2>1. result.text \in Outcome BY DraftTyped DEF Invs, Deliver, Drafted
  <2> QED BY <2>1, Bounds
<1>5. kind # "accept" BY TypeParts DEF TaskKind, Unprompted
<1>6. ASSUME NEW id \in reply'.citations
      PROVE  /\ Cardinality({i \in 1 .. Len(sources') : sources'[i].id = id}) = 1
             /\ id \in Mentions(reply'.text)
  <2>1. PICK k \in Places(sources') : id = sources'[k].id BY <1>2
  <2>2. Cardinality({i \in 1 .. Len(sources') : sources'[i].id = sources'[k].id}) = 1
    BY <1>1, NamesOne
  <2> QED BY <1>1, <1>2, <2>1, <2>2
<1>7. CitationsTrue' BY <1>2, <1>3, <1>4, <1>5, <1>6 DEF CitationsTrue
<1> QED BY <1>1, <1>7 DEF CiteInv

(* A verdict that ends the run. *)
LEMMA CitesJudged ==
    ASSUME Invs, CiteInv, NEW v \in Verdicts, Verify(v), UNCHANGED <<config, sources>>,
           Shows(reply', v)
    PROVE  CiteInv'
<1>1. /\ Len(rounds) \in Nat /\ Len(rounds') = Len(rounds) + 1 /\ rounds' # <<>>
      /\ rounds'[Len(rounds) + 1] = Judged(v)
  BY JudgedRound DEF Invs
<1>2. LastRound'.verdict = v BY <1>1, JudgedParts DEF LastRound
<1>3. sources \in Seq(Source) /\ Distinct(sources) BY TypeParts DEF CiteInv
<1>4. ASSUME NEW id \in reply'.citations
      PROVE  /\ Cardinality({i \in 1 .. Len(sources') : sources'[i].id = id}) = 1
             /\ Backed(LastRound'.verdict.claims, id)
  <2>1. id \in v.cited BY DEF Shows
  <2>2. Backed(v.claims, id) BY <2>1, VerdictCites
  <2>3. PICK k \in Places(sources) : sources[k].id = id BY <2>1, VerdictCites
  <2>4. Cardinality({i \in 1 .. Len(sources) : sources[i].id = sources[k].id}) = 1
    BY <1>3, NamesOne
  <2> QED BY <1>2, <2>2, <2>3, <2>4
<1>5. CitationsTrue' BY <1>1, <1>4 DEF CitationsTrue, Backed, Shows
<1>6. Distinct(sources') BY <1>3
<1> QED BY <1>5, <1>6 DEF CiteInv

LEMMA CitesAccept == ASSUME Invs, CiteInv, NEW v \in Verdicts, Accept(v) PROVE CiteInv'
<1>1. Verify(v) /\ UNCHANGED <<config, sources>> BY DEF Accept
<1>2. /\ reply'.citations = v.cited /\ reply'.text = result.text
      /\ reply'.footer = IF config.footer /\ ~(v.cited \subseteq Mentions(result.text))
                           THEN v.cited ELSE {}
  BY DEF Accept, Answer
<1>3. result.text # Abstention BY <1>1, JudgedDraft, Bounds
<1>4. Shows(reply', v) BY <1>1, <1>2, <1>3 DEF Shows
<1> QED BY <1>1, <1>4, CitesJudged

LEMMA WithheldShows ==
    ASSUME NEW v \in Verdicts, NEW reason, reason # "accept", result.text # Abstention
    PROVE  Shows(Withheld(v, reason), v)
<1>1. CASE config.blocking BY <1>1 DEF Withheld, Answer, Shows
<1>2. CASE ~config.blocking
  <2>1. /\ Withheld(v, reason).citations = v.cited
        /\ Withheld(v, reason).reason = "abstain_advisory"
        /\ Withheld(v, reason).text = IF result.text = Blank THEN Abstention ELSE result.text
    BY <1>2 DEF Withheld, Answer
  <2>2. result.text = Blank => v.cited = {} BY VerdictCites
  <2> QED BY <2>1, <2>2 DEF Shows
<1> QED BY <1>1, <1>2

LEMMA CitesWithheld ==
    ASSUME Invs, CiteInv, NEW v \in Verdicts,
           Abstain(v) \/ StopWithoutGain(v) \/ OutOfRounds(v)
    PROVE  CiteInv'
<1>1. Verify(v) /\ UNCHANGED <<config, sources>> BY DEF Abstain, StopWithoutGain, OutOfRounds
<1>2. result.text # Abstention BY <1>1, JudgedDraft, Bounds
<1>3. \/ reply' = Withheld(v, "abstain") \/ reply' = Withheld(v, "no_improvement")
      \/ reply' = Answer(result.text, v.cited, "max_rounds")
  BY DEF Abstain, StopWithoutGain, OutOfRounds
<1>4. Shows(Answer(result.text, v.cited, "max_rounds"), v) BY <1>2 DEF Shows, Answer
<1>5. Shows(reply', v) BY <1>2, <1>3, <1>4, WithheldShows
<1> QED BY <1>1, <1>5, CitesJudged

LEMMA CitesRedraft == ASSUME CiteInv, NEW v \in Verdicts, Redraft(v) PROVE CiteInv'
<1>1. stage' = "verify" /\ UNCHANGED sources BY DEF Redraft, Verify, Drafted
<1> QED BY <1>1 DEF CiteInv, CitationsTrue

LEMMA CitesNext == Invs /\ CiteInv /\ [Next]_vars => CiteInv'
<1> SUFFICES ASSUME Invs, CiteInv, [Next]_vars PROVE CiteInv' OBVIOUS
<1>1. CASE Classify BY <1>1, CitesQuiet DEF Classify
<1>2. CASE Ground BY <1>2, CitesGround
<1>3. CASE UNCHANGED ownVars BY <1>3, CitesQuiet DEF ownVars
<1>4. CASE Deliver BY <1>4, CitesDeliver
<1>5. CASE Raise BY <1>5, CitesQuiet DEF Raise
<1>6. CASE Judge
  <2>1. PICK v \in Verdicts :
           Accept(v) \/ Abstain(v) \/ StopWithoutGain(v) \/ Redraft(v) \/ OutOfRounds(v)
    BY <1>6 DEF Judge
  <2> QED BY <2>1, CitesAccept, CitesWithheld, CitesRedraft
<1> QED BY <1>1, <1>2, <1>3, <1>4, <1>5, <1>6 DEF Next, vars

(* Whatever the layers hold and the models answer: a citation names one    *)
(* reported source and rests on a passing claim or on the text itself, an  *)
(* abstention cites nothing, and an accepted answer shows its citations.   *)
THEOREM CitationsAlways == Spec => []CitationsTrue
<1>1. CiteInv => CitationsTrue BY DEF CiteInv
<1> QED BY <1>1, CitesInit, CitesNext, RoundAlways, PTL DEF Spec

-----------------------------------------------------------------------------
(* Rounds end by themselves *)

(* The rounds beyond the first two were each paid for with MinGain of the  *)
(* groundedness there is, however large MaxRounds.                         *)
RoundsPaid == MinGain > 0 => (Len(rounds) - 2) * MinGain <= 10000

PaidInv ==
    MinGain > 0 =>
        /\ stage = "verify" /\ rounds # <<>> => (Len(rounds) - 1) * MinGain <= prev
        /\ RoundsPaid

LEMMA Scaled ==
    ASSUME NEW n \in Int, NEW g \in Int PROVE (n + 1) * g = n * g + g
OBVIOUS

LEMMA Products ==
    ASSUME NEW g \in Nat PROVE 0 * g = 0 /\ (-1) * g <= 10000
OBVIOUS

LEMMA Chained ==
    ASSUME NEW a \in Int, NEW b \in Int, NEW c \in Int, NEW g \in Int, a <= b, c - b >= g
    PROVE  a + g <= c
OBVIOUS

LEMMA PrevRange == ASSUME Invs PROVE prev \in Int /\ prev <= 10000
<1>1. prev = NoRound \/ prev \in Degree BY TypeParts
<1> QED BY <1>1, Degrees DEF NoRound

(* The next round is paid for by the rounds before it. *)
LEMMA PaidJudged ==
    ASSUME Invs, PaidInv, NEW v \in Verdicts, Verify(v) PROVE RoundsPaid'
<1> SUFFICES ASSUME MinGain > 0 PROVE (Len(rounds') - 2) * MinGain <= 10000
  BY DEF RoundsPaid
<1>1. Len(rounds) \in Nat /\ Len(rounds') = Len(rounds) + 1 BY JudgedRound DEF Invs
<1>2. CASE rounds = <<>>
  <2>1. Len(rounds') - 2 = -1 BY <1>1, <1>2, EmptySeq
  <2>2. (Len(rounds') - 2) * MinGain = (-1) * MinGain BY <2>1
  <2>3. MinGain \in Nat BY Bounds
  <2> QED BY <2>2, <2>3, Products
<1>3. CASE rounds # <<>>
  <2> DEFINE paid == (Len(rounds) - 1) * MinGain
  <2>1. stage = "verify" BY DEF Verify, Drafted
  <2>2. paid <= prev BY <1>3, <2>1 DEF PaidInv
  <2>3. prev \in Int /\ prev <= 10000 BY PrevRange
  <2>4. Len(rounds') - 2 = Len(rounds) - 1 BY <1>1
  <2>5. paid \in Int BY <1>1, Bounds
  <2>6. (Len(rounds') - 2) * MinGain = paid BY <2>4
  <2> HIDE DEF paid
  <2> QED BY <2>2, <2>3, <2>5, <2>6
<1> QED BY <1>2, <1>3

LEMMA PaidRedraft ==
    ASSUME Invs, PaidInv, MinGain > 0, NEW v \in Verdicts, Redraft(v)
    PROVE  (Len(rounds') - 1) * MinGain <= prev'
<1>1. Verify(v) /\ MayGoOn(v) /\ prev' = v.groundedness /\ stage = "verify"
  BY DEF Redraft, Verify, Drafted
<1>2. /\ Len(rounds) \in Nat /\ Len(rounds') = Len(rounds) + 1
      /\ rounds # <<>> => Len(rounds) > 0
  BY <1>1, JudgedRound DEF Invs
<1>3. v.groundedness \in Degree /\ Going BY <1>1, JudgedVerdict DEF Invs
<1>4. Len(rounds') - 1 = Len(rounds) BY <1>2
<1>5. CASE rounds = <<>>
  <2>1. Len(rounds) = 0 BY <1>5, EmptySeq
  <2>2. (Len(rounds') - 1) * MinGain = 0 * MinGain BY <1>4, <2>1
  <2>3. (Len(rounds') - 1) * MinGain = 0 BY <2>2, Products, Bounds
  <2>4. prev' \in Degree BY <1>1, <1>3
  <2>5. prev' >= 0 BY <2>4, Degrees
  <2> QED BY <2>3, <2>5
<1>6. CASE rounds # <<>>
  <2> DEFINE n == Len(rounds) - 1
             paid == n * MinGain
  <2>1. n \in Int /\ n + 1 = Len(rounds) /\ MinGain \in Int BY <1>2, Bounds
  <2>2. paid <= prev BY <1>1, <1>6 DEF PaidInv
  <2>3. prev = LastRound.verdict.groundedness BY <1>3, <1>6 DEF Going
  <2>4. Len(rounds) \in 1 .. Len(rounds) BY <1>2, <1>6
  <2>5. RoundTyped(LastRound) BY <2>4, RoundsNow DEF Invs, LastRound
  <2> HIDE DEF paid
  <2>6. prev \in Degree
    <3>1. LastRound.verdict.groundedness \in Degree BY <2>5, RoundScore
    <3> QED BY <2>3, <3>1
  <2>7. v.groundedness - prev >= MinGain
    <3>1. MinGain # 0 BY Bounds
    <3>2. prev # NoRound BY <2>6, Degrees
    <3> QED BY <1>1, <3>1, <3>2 DEF MayGoOn
  <2>8. paid \in Int BY <2>1 DEF paid
  <2> HIDE DEF n
  <2>9. (n + 1) * MinGain = paid + MinGain BY <2>1, Scaled DEF paid
  <2>10. prev \in Int /\ v.groundedness \in Int BY <1>3, <2>6, Degrees
  <2>11. paid + MinGain <= v.groundedness BY <2>1, <2>2, <2>7, <2>8, <2>10, Chained
  <2>12. (n + 1) * MinGain <= v.groundedness BY <2>9, <2>11
  <2> QED BY <1>1, <1>4, <2>1, <2>12
<1> QED BY <1>5, <1>6

LEMMA PaidNext == Invs /\ PaidInv /\ [Next]_vars => PaidInv'
<1> SUFFICES ASSUME Invs, PaidInv, [Next]_vars PROVE PaidInv' OBVIOUS
<1>1. ASSUME UNCHANGED <<rounds, prev>>, stage' = "verify" => stage = "verify" \/ rounds = <<>>
      PROVE  PaidInv'
  BY <1>1 DEF PaidInv, RoundsPaid
<1>2. CASE Classify BY <1>1, <1>2 DEF Classify
<1>3. CASE Ground BY <1>1, <1>3 DEF Ground, Invs, RoundInv
<1>4. CASE LoopNext /\ UNCHANGED ownVars BY <1>1, <1>4 DEF ownVars
<1>5. CASE Deliver BY <1>1, <1>5 DEF Deliver
<1>6. CASE Raise BY <1>1, <1>6 DEF Raise
<1>7. CASE UNCHANGED vars BY <1>1, <1>7 DEF vars, ownVars
<1>8. CASE Judge
  <2>1. PICK v \in Verdicts :
           Accept(v) \/ Abstain(v) \/ StopWithoutGain(v) \/ Redraft(v) \/ OutOfRounds(v)
    BY <1>8 DEF Judge
  <2>2. Verify(v) BY <2>1 DEF Accept, Abstain, StopWithoutGain, Redraft, OutOfRounds
  <2>3. RoundsPaid' BY <2>2, PaidJudged
  <2>4. CASE Redraft(v) BY <2>3, <2>4, PaidRedraft DEF PaidInv
  <2>5. CASE ~Redraft(v)
    <3>1. stage' = "done" BY <2>1, <2>5 DEF Accept, Abstain, StopWithoutGain, OutOfRounds
    <3> QED BY <2>3, <3>1 DEF PaidInv
  <2> QED BY <2>4, <2>5
<1> QED BY <1>2, <1>3, <1>4, <1>5, <1>6, <1>7, <1>8 DEF Next

(* Redrafting ends after 2 + 10000 / MinGain rounds even if MaxRounds does *)
(* not end it: with the default gain of 5 points after 22 rounds.          *)
THEOREM RedraftingEnds == Spec => []RoundsPaid
<1>1. Init => PaidInv
  <2>1. Len(<<>>) = 0 BY EmptySeq
  <2>2. 0 - 2 <= 0 /\ (0 - 2) * MinGain <= 10000 BY CommanderAssumption
  <2> QED BY <2>1, <2>2 DEF Init, PaidInv, RoundsPaid
<1>2. PaidInv => RoundsPaid BY DEF PaidInv, RoundsPaid
<1> QED BY <1>1, <1>2, PaidNext, RoundAlways, PTL DEF Spec

-----------------------------------------------------------------------------
(* Transcripts: which messages make calls, and how far their results reach. *)
Transcript == Seq([role : {"system", "user", "assistant", "tool"}, calls : Seq(Nat \X Nat)])

Calls(s, i) == s[i].role = "assistant" /\ s[i].calls # <<>>
End(s, i) == i + Len(s[i].calls)

(* What results there are come right after their calls, in order. *)
Right(s) ==
    \A i \in 1 .. Len(s) : Calls(s, i) =>
        \A j \in i + 1 .. End(s, i) :
            j <= Len(s) => s[j] = Message("tool", <<s[i].calls[j - i]>>)

Owned(s) ==
    \A j \in 1 .. Len(s) : s[j].role = "tool" =>
        \E i \in 1 .. j - 1 : Calls(s, i) /\ j <= End(s, i)

(* The calls made before message n have been answered before it. *)
Closed(s, n) == \A i \in 1 .. Len(s) : i < n /\ Calls(s, i) => End(s, i) < n

Sound(s) == s \in Transcript /\ Right(s) /\ Owned(s)

(* Message n made the last calls, and those in todo wait for their results. *)
Waiting(s, calls, n) ==
    /\ n \in 1 .. Len(s) /\ Calls(s, n) /\ Closed(s, n)
    /\ \A i \in n + 1 .. Len(s) : ~Calls(s, i)
    /\ End(s, n) = Len(s) + Len(calls)
    /\ \A k \in 1 .. Len(calls) : calls[k].id = s[n].calls[Len(s) - n + k]

TranscriptInv ==
    /\ phase = "asking" => Sound(messages) /\ Closed(messages, Len(messages) + 1)
    /\ phase = "working" =>
          /\ Sound(messages) /\ todo \in Seq(Pending)
          /\ \E n \in 1 .. Len(messages) : Waiting(messages, todo, n)

LEMMA MessageFacts ==
    ASSUME NEW s \in Transcript, NEW i \in 1 .. Len(s)
    PROVE  /\ s[i].calls \in Seq(Nat \X Nat) /\ Len(s[i].calls) \in Nat
           /\ Len(s) \in Nat /\ End(s, i) \in Nat
<1>1. s[i] \in [role : {"system", "user", "assistant", "tool"}, calls : Seq(Nat \X Nat)]
  BY ElementOfSeq DEF Transcript
<1>2. s[i].calls \in Seq(Nat \X Nat) BY <1>1
<1> QED BY <1>2, LenProperties DEF Transcript, End

LEMMA SoundIsAnswered ==
    ASSUME Sound(messages), Closed(messages, Len(messages) + 1) PROVE CallsAnswered
<1>1. Len(messages) \in Nat BY LenProperties DEF Sound, Transcript
<1> DEFINE IsCall(i) == messages[i].role = "assistant" /\ messages[i].calls # <<>>
           Results(i) == {j \in i + 1 .. i + Len(messages[i].calls) :
                              j <= Len(messages)
                              /\ messages[j] = Message("tool", <<messages[i].calls[j - i]>>)}
<1>2. ASSUME NEW i \in 1 .. Len(messages), IsCall(i)
      PROVE  Results(i) = i + 1 .. i + Len(messages[i].calls)
  <2>1. Calls(messages, i) BY <1>2 DEF Calls
  <2>2. i + Len(messages[i].calls) < Len(messages) + 1 BY <1>1, <1>2, <2>1 DEF Closed, End
  <2>4. Len(messages[i].calls) \in Nat BY <1>2, MessageFacts DEF Sound
  <2>5. \A j \in i + 1 .. i + Len(messages[i].calls) :
           messages[j] = Message("tool", <<messages[i].calls[j - i]>>)
    <3> SUFFICES ASSUME NEW j \in i + 1 .. i + Len(messages[i].calls)
                 PROVE  messages[j] = Message("tool", <<messages[i].calls[j - i]>>)
      OBVIOUS
    <3>1. i \in 1 .. Len(messages) /\ j \in i + 1 .. End(messages, i) /\ j <= Len(messages)
      BY <1>1, <1>2, <2>2, <2>4 DEF End
    <3> QED BY <2>1, <3>1 DEF Sound, Right
  <2> QED BY <1>1, <1>2, <2>2, <2>4, <2>5
<1>3. ASSUME NEW j \in 1 .. Len(messages), messages[j].role = "tool"
      PROVE  \E i \in 1 .. j - 1 : IsCall(i) /\ j \in Results(i)
  <2>1. PICK i \in 1 .. j - 1 : Calls(messages, i) /\ j <= End(messages, i)
    BY <1>3 DEF Sound, Owned
  <2>2. i \in 1 .. Len(messages) /\ IsCall(i) BY <1>1, <2>1 DEF Calls
  <2>3. Results(i) = i + 1 .. i + Len(messages[i].calls) BY <1>2, <2>2
  <2>5. Len(messages[i].calls) \in Nat BY <2>2, MessageFacts DEF Sound
  <2>6. j \in i + 1 .. i + Len(messages[i].calls) BY <1>3, <2>1, <2>5 DEF End
  <2> QED BY <2>1, <2>2, <2>3, <2>6
<1> QED BY <1>2, <1>3 DEF CallsAnswered

(* Without calls and results there is nothing to answer. *)
LEMMA Silent ==
    ASSUME NEW s \in Transcript, \A i \in 1 .. Len(s) : s[i].calls = <<>> /\ s[i].role # "tool"
    PROVE  Sound(s) /\ Closed(s, Len(s) + 1)
BY DEF Sound, Right, Owned, Closed, Calls

LEMMA BeginSound ==
    ASSUME Begin PROVE Sound(messages') /\ Closed(messages', Len(messages') + 1)
<1> DEFINE S == {Message("user", <<>>), Message("assistant", <<>>), Message("system", <<>>)}
<1>1. <<Message("system", <<>>)>> \in Seq(S) /\ <<Message("user", <<>>)>> \in Seq(S) OBVIOUS
<1>2. History \in Seq(S) BY HistoryAssumption
<1>3. messages' \in Seq(S) BY <1>1, <1>2, ConcatProperties DEF Begin
<1>4. \A m \in S : /\ m \in [role : {"system", "user", "assistant", "tool"}, calls : Seq(Nat \X Nat)]
                   /\ m.calls = <<>> /\ m.role # "tool"
  <2>1. <<>> \in Seq(Nat \X Nat) BY EmptySeq
  <2>2. \A m \in S : m.calls = <<>> /\ m.role # "tool" BY DEF Message
  <2>3. ASSUME NEW role \in {"system", "user", "assistant", "tool"}
        PROVE  Message(role, <<>>) \in
                   [role : {"system", "user", "assistant", "tool"}, calls : Seq(Nat \X Nat)]
    BY <2>1 DEF Message
  <2> QED BY <2>2, <2>3
<1> HIDE DEF S
<1>5. \A i \in 1 .. Len(messages') : messages'[i] \in S BY <1>3, ElementOfSeq
<1>6. messages' \in Transcript BY <1>3, <1>4, SeqMonotonic DEF Transcript
<1> QED BY <1>4, <1>5, <1>6, Silent

(* A message of the model that makes calls. *)
LEMMA AskSound ==
    ASSUME NEW s, Sound(s), Closed(s, Len(s) + 1), NEW ids \in Seq(Nat \X Nat), ids # <<>>,
           NEW calls, Len(calls) = Len(ids), \A k \in 1 .. Len(ids) : calls[k].id = ids[k],
           NEW t, t = Append(s, Message("assistant", ids))
    PROVE  Sound(t) /\ Waiting(t, calls, Len(t)) /\ Len(t) \in 1 .. Len(t)
<1> DEFINE m == Message("assistant", ids)
<1>1. m \in [role : {"system", "user", "assistant", "tool"}, calls : Seq(Nat \X Nat)]
      /\ m.role = "assistant" /\ m.calls = ids
  BY DEF Message
<1> HIDE DEF m
<1>2. s \in Transcript BY DEF Sound
<1>3. /\ t \in Transcript /\ Len(s) \in Nat /\ Len(t) = Len(s) + 1 /\ t[Len(s) + 1] = m
      /\ \A i \in 1 .. Len(s) : t[i] = s[i]
  BY <1>1, <1>2, AppendProperties, LenProperties DEF m, Transcript
<1>4. Len(ids) \in Nat /\ Len(ids) > 0 BY EmptySeq, LenProperties
<1>5. \A i \in 1 .. Len(s) : Calls(t, i) <=> Calls(s, i) BY <1>3 DEF Calls
<1>6. \A i \in 1 .. Len(s) : End(t, i) = End(s, i) BY <1>3 DEF End
<1>7. Calls(t, Len(s) + 1) /\ End(t, Len(s) + 1) = Len(s) + 1 + Len(ids)
  BY <1>1, <1>3 DEF Calls, End
<1>8. Right(t)
  <2>1. ASSUME NEW i \in 1 .. Len(t), Calls(t, i), NEW j \in i + 1 .. End(t, i), j <= Len(t)
        PROVE  t[j] = Message("tool", <<t[i].calls[j - i]>>)
    <3>1. i # Len(s) + 1 BY <1>3, <2>1
    <3>2. i \in 1 .. Len(s) BY <1>3, <3>1
    <3>3. End(s, i) < Len(s) + 1 /\ Calls(s, i) BY <1>3, <1>5, <2>1, <3>2 DEF Closed
    <3>4. j \in i + 1 .. End(s, i) /\ j <= Len(s) /\ j \in 1 .. Len(s)
      <4>1. End(t, i) = End(s, i) /\ End(s, i) \in Nat
        BY <1>2, <1>6, <3>2, MessageFacts
      <4>2. j \in i + 1 .. End(s, i) BY <4>1
      <4> QED BY <1>3, <3>2, <3>3, <4>1, <4>2
    <3>5. s[j] = Message("tool", <<s[i].calls[j - i]>>) BY <3>2, <3>3, <3>4 DEF Sound, Right
    <3> QED BY <1>3, <3>2, <3>4, <3>5
  <2> QED BY <2>1 DEF Right
<1>9. Owned(t)
  <2>1. ASSUME NEW j \in 1 .. Len(t), t[j].role = "tool"
        PROVE  \E i \in 1 .. j - 1 : Calls(t, i) /\ j <= End(t, i)
    <3>1. j \in 1 .. Len(s) /\ s[j].role = "tool" BY <1>1, <1>3, <2>1
    <3>2. PICK i \in 1 .. j - 1 : Calls(s, i) /\ j <= End(s, i) BY <3>1 DEF Sound, Owned
    <3>3. i \in 1 .. Len(s) BY <1>3, <3>1, <3>2
    <3> QED BY <1>5, <1>6, <3>2, <3>3
  <2> QED BY <2>1 DEF Owned
<1>10. Closed(t, Len(t)) BY <1>3, <1>5, <1>6 DEF Closed
<1>11. \A k \in 1 .. Len(calls) : calls[k].id = t[Len(t)].calls[Len(t) - Len(t) + k]
  BY <1>1, <1>3, <1>4
<1> QED BY <1>3, <1>7, <1>8, <1>9, <1>10, <1>11 DEF Sound, Waiting

(* The result of the first call that waits. *)
LEMMA InvokeSound ==
    ASSUME NEW s, NEW calls \in Seq(Pending), calls # <<>>, Sound(s),
           NEW n \in 1 .. Len(s), Waiting(s, calls, n),
           NEW t, t = Append(s, Message("tool", <<Head(calls).id>>))
    PROVE  Sound(t) /\ n \in 1 .. Len(t) /\ Waiting(t, Tail(calls), n)
<1> DEFINE m == Message("tool", <<Head(calls).id>>)
<1>0. /\ Head(calls) = calls[1] /\ Head(calls) \in Pending /\ Tail(calls) \in Seq(Pending)
      /\ Len(calls) \in Nat /\ Len(calls) > 0 /\ Len(Tail(calls)) = Len(calls) - 1
      /\ \A k \in 1 .. Len(calls) - 1 : Tail(calls)[k] = calls[k + 1]
  BY HeadTailProperties, EmptySeq, LenProperties
<1>1. m \in [role : {"system", "user", "assistant", "tool"}, calls : Seq(Nat \X Nat)]
      /\ m.role = "tool"
  BY <1>0 DEF Message, Pending
<1> HIDE DEF m
<1>2. s \in Transcript BY DEF Sound
<1>3. /\ t \in Transcript /\ Len(s) \in Nat /\ Len(t) = Len(s) + 1 /\ t[Len(s) + 1] = m
      /\ \A i \in 1 .. Len(s) : t[i] = s[i]
  BY <1>1, <1>2, AppendProperties, LenProperties DEF m, Transcript
<1>5. \A i \in 1 .. Len(s) : Calls(t, i) <=> Calls(s, i) BY <1>3 DEF Calls
<1>6. \A i \in 1 .. Len(s) : End(t, i) = End(s, i) BY <1>3 DEF End
<1>7. ~Calls(t, Len(s) + 1) BY <1>1, <1>3 DEF Calls
<1>8. /\ Calls(s, n) /\ Closed(s, n) /\ \A i \in n + 1 .. Len(s) : ~Calls(s, i)
      /\ End(s, n) = Len(s) + Len(calls)
      /\ \A k \in 1 .. Len(calls) : calls[k].id = s[n].calls[Len(s) - n + k]
  BY DEF Waiting
<1>9. m = Message("tool", <<s[n].calls[Len(s) + 1 - n]>>)
  <2>1. calls[1].id = s[n].calls[Len(s) - n + 1] BY <1>0, <1>8
  <2>2. Len(s) - n + 1 = Len(s) + 1 - n BY <1>3
  <2> QED BY <1>0, <2>1, <2>2 DEF m
<1>10. Right(t)
  <2>1. ASSUME NEW i \in 1 .. Len(t), Calls(t, i), NEW j \in i + 1 .. End(t, i), j <= Len(t)
        PROVE  t[j] = Message("tool", <<t[i].calls[j - i]>>)
    <3>1. i \in 1 .. Len(s) BY <1>3, <1>7, <2>1
    <3>2. Calls(s, i) /\ t[i] = s[i] /\ End(t, i) = End(s, i) BY <1>3, <1>5, <1>6, <2>1, <3>1
    <3>6. End(s, i) \in Nat /\ j \in i + 1 .. End(s, i) BY <1>2, <3>1, <3>2, MessageFacts
    <3>3. i <= n BY <1>3, <1>8, <3>1, <3>2
    <3>4. CASE j <= Len(s)
      <4>1. j \in 1 .. Len(s) BY <1>3, <2>1, <3>1, <3>4
      <4>2. s[j] = Message("tool", <<s[i].calls[j - i]>>)
        BY <2>1, <3>1, <3>2, <3>4 DEF Sound, Right
      <4> QED BY <1>3, <3>2, <4>1, <4>2
    <3>5. CASE ~(j <= Len(s))
      <4>1. j = Len(s) + 1 BY <1>3, <2>1, <3>1, <3>5, <3>6
      <4>2. i = n
        <5>1. i < n => End(s, i) < n BY <1>8, <3>1, <3>2 DEF Closed
        <5>2. End(s, i) >= j BY <3>6
        <5> QED BY <1>3, <3>1, <3>3, <3>6, <4>1, <5>1, <5>2
      <4> QED BY <1>3, <1>9, <3>2, <4>1, <4>2
    <3> QED BY <3>4, <3>5
  <2> QED BY <2>1 DEF Right
<1>11. Owned(t)
  <2>1. ASSUME NEW j \in 1 .. Len(t), t[j].role = "tool"
        PROVE  \E i \in 1 .. j - 1 : Calls(t, i) /\ j <= End(t, i)
    <3>1. CASE j \in 1 .. Len(s)
      <4>1. s[j].role = "tool" BY <1>3, <2>1, <3>1
      <4>2. PICK i \in 1 .. j - 1 : Calls(s, i) /\ j <= End(s, i) BY <3>1, <4>1 DEF Sound, Owned
      <4>3. i \in 1 .. Len(s) BY <1>3, <3>1, <4>2
      <4> QED BY <1>5, <1>6, <4>2, <4>3
    <3>2. CASE j = Len(s) + 1
      <4>1. n \in 1 .. j - 1 /\ Calls(t, n) /\ End(t, n) = Len(s) + Len(calls)
        BY <1>3, <1>5, <1>6, <1>8, <3>2
      <4>2. j <= End(t, n) BY <1>0, <1>3, <3>2, <4>1
      <4> QED BY <4>1, <4>2
    <3>3. j \in 1 .. Len(s) \/ j = Len(s) + 1 BY <1>3, <2>1
    <3> QED BY <3>1, <3>2, <3>3
  <2> QED BY <2>1 DEF Owned
<1>12. Closed(t, n) BY <1>3, <1>5, <1>6, <1>8 DEF Closed
<1>13. ASSUME NEW i \in n + 1 .. Len(t) PROVE ~Calls(t, i)
  <2>1. CASE i = Len(s) + 1 BY <1>7, <2>1
  <2>2. CASE i # Len(s) + 1
    <3>1. i \in 1 .. Len(s) /\ i \in n + 1 .. Len(s) BY <1>3, <2>2
    <3> QED BY <1>5, <1>8, <3>1
  <2> QED BY <2>1, <2>2
<1>14. End(t, n) = Len(t) + Len(Tail(calls)) BY <1>0, <1>3, <1>6, <1>8
<1>15. ASSUME NEW k \in 1 .. Len(Tail(calls))
       PROVE  Tail(calls)[k].id = t[n].calls[Len(t) - n + k]
  <2>1. Tail(calls)[k] = calls[k + 1] /\ k + 1 \in 1 .. Len(calls) BY <1>0
  <2>2. calls[k + 1].id = s[n].calls[Len(s) - n + (k + 1)] BY <1>8, <2>1
  <2>3. Len(s) - n + (k + 1) = Len(t) - n + k BY <1>0, <1>3
  <2> QED BY <1>3, <2>1, <2>2, <2>3
<1> QED BY <1>3, <1>5, <1>8, <1>10, <1>11, <1>12, <1>13, <1>14, <1>15 DEF Sound, Waiting

(* Nothing waits any more. *)
LEMMA TurnSound ==
    ASSUME NEW s, Sound(s), NEW n \in 1 .. Len(s), Waiting(s, <<>>, n)
    PROVE  Closed(s, Len(s) + 1)
<1>1. Len(s) \in Nat BY LenProperties DEF Sound, Transcript
<1>2. /\ End(s, n) = Len(s) + Len(<<>>) /\ Closed(s, n)
      /\ \A i \in n + 1 .. Len(s) : ~Calls(s, i)
  BY DEF Waiting
<1>3. End(s, n) = Len(s) BY <1>1, <1>2, EmptySeq
<1>4. ASSUME NEW i \in 1 .. Len(s), Calls(s, i) PROVE End(s, i) < Len(s) + 1
  <2>1. CASE i < n
    <3>1. End(s, i) < n BY <1>2, <1>4, <2>1 DEF Closed
    <3>3. End(s, i) \in Int BY MessageFacts DEF Sound, End
    <3> QED BY <1>1, <3>1, <3>3
  <2>2. CASE i = n BY <1>1, <1>3, <2>2
  <2>3. CASE i > n BY <1>1, <1>2, <1>4, <2>3
  <2> QED BY <2>1, <2>2, <2>3
<1> QED BY <1>4 DEF Closed

(* The transcript is right after every step of the loop. *)
LEMMA TranscriptLoop ==
    ASSUME LoopTypeOK, TranscriptInv, LoopNext PROVE TranscriptInv'
<1>1. CASE AskFails BY <1>1 DEF AskFails, Return, TranscriptInv
<1>2. ASSUME NEW text \in Saying, AskSays(text) PROVE TranscriptInv'
  BY <1>2 DEF AskSays, Asked, Return, TranscriptInv
<1>3. ASSUME NEW calls \in Turns, AskCalls(calls) PROVE TranscriptInv'
  <2> DEFINE ids == [i \in 1 .. Len(calls) |-> <<step, i>>]
  <2>1. Len(calls) \in Nat /\ step \in Nat
    BY TurnFacts, LenProperties, LoopAssumption DEF LoopTypeOK
  <2>2. calls # <<>> /\ phase = "asking" /\ phase' = "working"
        /\ messages' = Append(messages, Message("assistant", ids))
        /\ todo' = [i \in 1 .. Len(calls) |->
                       [id |-> <<step, i>>, name |-> calls[i].name, arg |-> calls[i].arg]]
    BY <1>3 DEF AskCalls, Asked
  <2>3. ids \in [1 .. Len(calls) -> Nat \X Nat] BY <2>1
  <2>4. ids \in Seq(Nat \X Nat) /\ Len(ids) = Len(calls) BY <2>1, <2>3
  <2>5. Len(calls) > 0 BY <2>1, <2>2, TurnFacts, EmptySeq
  <2>6. ids # <<>> BY <2>4, <2>5, EmptySeq
  <2>7. todo' \in Seq(Pending)
    <3>1. LoopTypeOK' BY <1>3, LoopType DEF LoopNext
    <3> QED BY <3>1 DEF LoopTypeOK
  <2>8. Len(todo') = Len(calls) BY <2>1, <2>2
  <2>9. \A k \in 1 .. Len(calls) : todo'[k].id = ids[k] BY <2>2
  <2>10. Sound(messages) /\ Closed(messages, Len(messages) + 1) BY <2>2 DEF TranscriptInv
  <2> HIDE DEF ids
  <2>11. /\ Sound(messages') /\ Waiting(messages', todo', Len(messages'))
         /\ Len(messages') \in 1 .. Len(messages')
    BY <2>2, <2>4, <2>6, <2>8, <2>9, <2>10, AskSound
  <2> QED BY <2>2, <2>7, <2>11 DEF TranscriptInv
<1>4. CASE Invoke
  <2>1. /\ phase = "working" /\ todo # <<>> /\ phase' = "working"
        /\ messages' = Append(messages, Message("tool", <<Head(todo).id>>))
        /\ todo' = Tail(todo)
    BY <1>4 DEF Invoke, Answered
  <2>2. /\ Sound(messages) /\ todo \in Seq(Pending)
        /\ \E n \in 1 .. Len(messages) : Waiting(messages, todo, n)
    BY <2>1 DEF TranscriptInv
  <2>3. PICK n \in 1 .. Len(messages) : Waiting(messages, todo, n) BY <2>2
  <2>4. Sound(messages') /\ n \in 1 .. Len(messages') /\ Waiting(messages', Tail(todo), n)
    BY <2>1, <2>2, <2>3, InvokeSound
  <2>5. todo' \in Seq(Pending) BY <2>1, <2>2, HeadTailProperties
  <2> QED BY <2>1, <2>4, <2>5 DEF TranscriptInv
<1>5. CASE EndTurn
  <2>1. /\ phase = "working" /\ todo = <<>> /\ messages' = messages
        /\ phase' \in {"returned", "asking"}
    BY <1>5 DEF EndTurn, Return
  <2>2. Sound(messages) /\ \E n \in 1 .. Len(messages) : Waiting(messages, <<>>, n)
    BY <2>1 DEF TranscriptInv
  <2>3. Closed(messages, Len(messages) + 1) BY <2>2, TurnSound
  <2> QED BY <2>1, <2>2, <2>3 DEF TranscriptInv
<1>6. CASE Exhausted BY <1>6 DEF Exhausted, Return, TranscriptInv
<1> QED BY <1>1, <1>2, <1>3, <1>4, <1>5, <1>6 DEF LoopNext

LEMMA TranscriptStill ==
    ASSUME TranscriptInv, UNCHANGED loopVars PROVE TranscriptInv'
BY DEF TranscriptInv, loopVars

LEMMA TranscriptFresh == ASSUME Begin PROVE TranscriptInv'
<1>1. phase' = "asking" BY DEF Begin
<1> QED BY <1>1, BeginSound DEF TranscriptInv

LEMMA TranscriptNext == LoopTypeOK /\ TranscriptInv /\ [Next]_vars => TranscriptInv'
<1> SUFFICES ASSUME LoopTypeOK, TranscriptInv, [Next]_vars PROVE TranscriptInv'
  OBVIOUS
<1>1. CASE Classify
  <2>1. Begin \/ UNCHANGED loopVars BY <1>1 DEF Classify
  <2> QED BY <2>1, TranscriptFresh, TranscriptStill
<1>2. CASE Ground BY <1>2, TranscriptFresh DEF Ground
<1>3. CASE LoopNext BY <1>3, TranscriptLoop
<1>4. CASE Deliver
  <2>1. UNCHANGED loopVars BY <1>4 DEF Deliver
  <2> QED BY <2>1, TranscriptStill
<1>5. CASE Raise
  <2>1. UNCHANGED loopVars BY <1>5 DEF Raise
  <2> QED BY <2>1, TranscriptStill
<1>6. ASSUME NEW v \in Verdicts,
             Accept(v) \/ Abstain(v) \/ StopWithoutGain(v) \/ Redraft(v) \/ OutOfRounds(v)
      PROVE  TranscriptInv'
  <2>1. Begin \/ UNCHANGED loopVars
    BY <1>6 DEF Accept, Abstain, StopWithoutGain, Redraft, OutOfRounds
  <2> QED BY <2>1, TranscriptFresh, TranscriptStill
<1>7. CASE UNCHANGED vars
  <2>1. UNCHANGED loopVars BY <1>7 DEF vars
  <2> QED BY <2>1, TranscriptStill
<1> QED BY <1>1, <1>2, <1>3, <1>4, <1>5, <1>6, <1>7 DEF Next, Judge

(* Every tool call of a request is answered right after it, once, in order *)
(* and under its id, and no result stands elsewhere, for any tools, bounds *)
(* on the turns, and history.                                              *)
THEOREM CallsAlwaysAnswered == Spec => []CallsAnswered
<1>1. Init => TranscriptInv BY DEF Init, LoopInit, TranscriptInv
<1>2. TranscriptInv => CallsAnswered
  <2>1. CASE phase # "asking" BY <2>1 DEF CallsAnswered
  <2>2. CASE phase = "asking" BY <2>2, SoundIsAnswered DEF TranscriptInv
  <2> QED BY <2>1, <2>2
<1>3. Invs => LoopTypeOK BY DEF Invs, RoundInv, CommanderTypeOK
<1> QED BY <1>1, <1>2, <1>3, RoundAlways, TranscriptNext, PTL DEF Spec

-----------------------------------------------------------------------------
(* Connections: what a thread may still have to do.                        *)
Exchanging == <<"exchange", "reread", "truncate", "write">>
Saves == {<<"reread", "truncate", "write">>, <<"truncate", "write">>, <<"write">>}
(* ... of a callback whose state was found. *)
Claims ==
    {<<"open", "fill", "rename", "exchange", "reread", "truncate", "write">>,
     <<"fill", "rename", "exchange", "reread", "truncate", "write">>,
     <<"rename", "exchange", "reread", "truncate", "write">>, Exchanging}
Replaces == {<<"open", "fill", "rename">>, <<"fill", "rename">>, <<"rename">>}
FlowSteps ==
    {<<"put", "open", "fill", "rename">>,
     <<"pop", "open", "fill", "rename", "exchange", "reread", "truncate", "write">>}
    \cup Claims \cup Replaces
Programs ==
    {<<>>, <<"get">>, <<"refresh", "reread", "truncate", "write">>, <<"without", "truncate", "write">>}
    \cup FlowSteps \cup Saves

(* Which access may come behind which. *)
Follows ==
    {<<"put", "open">>, <<"pop", "open">>, <<"open", "fill">>, <<"fill", "rename">>,
     <<"rename", "exchange">>, <<"exchange", "reread">>, <<"refresh", "reread">>,
     <<"reread", "truncate">>, <<"without", "truncate">>, <<"truncate", "write">>}

FlowHeads == {"put", "pop", "open", "fill", "rename", "exchange"}

(* All that the proofs need to know of a program p that is not done. *)
Known(p) ==
    /\ p \in Seq(Steps) /\ Tail(p) \in Programs /\ Head(p) \in Steps
    /\ p \in FlowSteps <=> Head(p) \in FlowHeads
    /\ Head(p) \notin {"open", "fill", "rename", "exchange"} => p \notin Claims
    /\ Head(p) = "exchange" => p \in Claims
    /\ Head(p) = "pop" => Tail(p) \in Claims
    /\ Head(p) \in {"open", "fill", "rename"} => (Tail(p) \in Claims <=> p \in Claims)
    /\ IF Tail(p) = <<>> THEN Head(p) \in {"rename", "write", "get"}
       ELSE <<Head(p), Head(Tail(p))>> \in Follows

LEMMA ClaimFacts == \A p \in Claims : p # <<>> /\ Known(p)
<1> SUFFICES ASSUME NEW p \in Claims PROVE p # <<>> /\ Known(p) OBVIOUS
<1>1. CASE p = <<"open", "fill", "rename", "exchange", "reread", "truncate", "write">>
  BY <1>1 DEF Known, Steps, Programs, FlowSteps, Claims, Exchanging, Follows, FlowHeads
<1>2. CASE p = <<"fill", "rename", "exchange", "reread", "truncate", "write">>
  BY <1>2 DEF Known, Steps, Programs, FlowSteps, Claims, Exchanging, Follows, FlowHeads
<1>3. CASE p = <<"rename", "exchange", "reread", "truncate", "write">>
  BY <1>3 DEF Known, Steps, Programs, FlowSteps, Claims, Exchanging, Follows, FlowHeads
<1>4. CASE p = Exchanging
  BY <1>4 DEF Known, Steps, Programs, FlowSteps, Claims, Exchanging, Follows, FlowHeads, Saves
<1> QED BY <1>1, <1>2, <1>3, <1>4 DEF Claims

LEMMA ReplaceFacts == \A p \in Replaces : p # <<>> /\ Known(p) /\ p \notin Claims
<1> SUFFICES ASSUME NEW p \in Replaces PROVE p # <<>> /\ Known(p) /\ p \notin Claims OBVIOUS
<1>1. CASE p = <<"open", "fill", "rename">>
  BY <1>1 DEF Known, Steps, Programs, FlowSteps, Claims, Replaces, Exchanging, Follows, FlowHeads
<1>2. CASE p = <<"fill", "rename">>
  BY <1>2 DEF Known, Steps, Programs, FlowSteps, Claims, Replaces, Exchanging, Follows, FlowHeads
<1>3. CASE p = <<"rename">>
  BY <1>3 DEF Known, Steps, Programs, FlowSteps, Claims, Replaces, Exchanging, Follows, FlowHeads
<1> QED BY <1>1, <1>2, <1>3 DEF Replaces

LEMMA SaveFacts == \A p \in Saves : p # <<>> /\ Known(p)
<1> SUFFICES ASSUME NEW p \in Saves PROVE p # <<>> /\ Known(p) OBVIOUS
<1>1. CASE p = <<"reread", "truncate", "write">>
  BY <1>1 DEF Known, Steps, Programs, FlowSteps, Claims, Replaces, Exchanging, Follows, FlowHeads, Saves
<1>2. CASE p = <<"truncate", "write">>
  BY <1>2 DEF Known, Steps, Programs, FlowSteps, Claims, Replaces, Exchanging, Follows, FlowHeads, Saves
<1>3. CASE p = <<"write">>
  BY <1>3 DEF Known, Steps, Programs, FlowSteps, Claims, Replaces, Exchanging, Follows, FlowHeads, Saves
<1> QED BY <1>1, <1>2, <1>3 DEF Saves

LEMMA ProgramFacts == \A p \in Programs : p # <<>> => Known(p)
<1> SUFFICES ASSUME NEW p \in Programs, p # <<>> PROVE Known(p) OBVIOUS
<1>1. CASE p = <<"get">>
  BY <1>1 DEF Known, Steps, Programs, FlowSteps, Claims, Replaces, Exchanging, Follows, FlowHeads
<1>2. CASE p = <<"refresh", "reread", "truncate", "write">>
  BY <1>2 DEF Known, Steps, Programs, FlowSteps, Claims, Replaces, Exchanging, Follows, FlowHeads, Saves
<1>3. CASE p = <<"without", "truncate", "write">>
  BY <1>3 DEF Known, Steps, Programs, FlowSteps, Claims, Replaces, Exchanging, Follows, FlowHeads, Saves
<1>4. CASE p = <<"put", "open", "fill", "rename">>
  BY <1>4 DEF Known, Steps, Programs, FlowSteps, Claims, Replaces, Exchanging, Follows, FlowHeads
<1>5. CASE p = <<"pop", "open", "fill", "rename", "exchange", "reread", "truncate", "write">>
  BY <1>5 DEF Known, Steps, Programs, FlowSteps, Claims, Replaces, Exchanging, Follows, FlowHeads
<1> QED BY <1>1, <1>2, <1>3, <1>4, <1>5, ClaimFacts, ReplaceFacts, SaveFacts DEF Programs, FlowSteps

(* A program put together from two. *)
LEMMA JoinedSteps ==
    ASSUME NEW p \in Seq(Steps), NEW s \in Seq(Steps), NEW w \in Seq(Steps),
           Len(w) = Len(p) + Len(s),
           \A i \in 1 .. Len(p) + Len(s) : w[i] = IF i <= Len(p) THEN p[i] ELSE s[i - Len(p)]
    PROVE  p \o s = w
<1>1. /\ p \o s \in Seq(Steps) /\ Len(p \o s) = Len(p) + Len(s)
      /\ \A i \in 1 .. Len(p) + Len(s) : (p \o s)[i] = IF i <= Len(p) THEN p[i] ELSE s[i - Len(p)]
  BY ConcatProperties
<1>2. \A i \in 1 .. Len(w) : (p \o s)[i] = w[i] BY <1>1
<1> QED BY <1>1, <1>2, SeqEqual

LEMMA RequestPrograms ==
    /\ <<"put">> \o Replacing = <<"put", "open", "fill", "rename">>
    /\ <<"pop">> \o Replacing \o <<"exchange">> \o Saving
          = <<"pop", "open", "fill", "rename", "exchange", "reread", "truncate", "write">>
    /\ <<"refresh">> \o Saving = <<"refresh", "reread", "truncate", "write">>
<1>1. <<"put">> \o Replacing = <<"put", "open", "fill", "rename">>
  <2> DEFINE p == <<"put">>
             w == <<"put", "open", "fill", "rename">>
  <2>1. p \in Seq(Steps) /\ Replacing \in Seq(Steps) /\ w \in Seq(Steps) BY DEF Steps, Replacing
  <2>2. Len(w) = Len(p) + Len(Replacing) BY DEF Replacing
  <2>3. \A i \in 1 .. Len(p) + Len(Replacing) :
            w[i] = IF i <= Len(p) THEN p[i] ELSE Replacing[i - Len(p)]
    BY DEF Replacing
  <2> HIDE DEF p, w
  <2>4. p \o Replacing = w BY <2>1, <2>2, <2>3, JoinedSteps
  <2> QED BY <2>4 DEF p, w
<1>2. <<"refresh">> \o Saving = <<"refresh", "reread", "truncate", "write">>
  <2> DEFINE p == <<"refresh">>
             w == <<"refresh", "reread", "truncate", "write">>
  <2>1. p \in Seq(Steps) /\ Saving \in Seq(Steps) /\ w \in Seq(Steps) BY DEF Steps, Saving
  <2>2. Len(w) = Len(p) + Len(Saving) BY DEF Saving
  <2>3. \A i \in 1 .. Len(p) + Len(Saving) :
            w[i] = IF i <= Len(p) THEN p[i] ELSE Saving[i - Len(p)]
    BY DEF Saving
  <2> HIDE DEF p, w
  <2>4. p \o Saving = w BY <2>1, <2>2, <2>3, JoinedSteps
  <2> QED BY <2>4 DEF p, w
<1>3. <<"pop">> \o Replacing = <<"pop", "open", "fill", "rename">>
  <2> DEFINE p == <<"pop">>
             w == <<"pop", "open", "fill", "rename">>
  <2>1. p \in Seq(Steps) /\ Replacing \in Seq(Steps) /\ w \in Seq(Steps) BY DEF Steps, Replacing
  <2>2. Len(w) = Len(p) + Len(Replacing) BY DEF Replacing
  <2>3. \A i \in 1 .. Len(p) + Len(Replacing) :
            w[i] = IF i <= Len(p) THEN p[i] ELSE Replacing[i - Len(p)]
    BY DEF Replacing
  <2> HIDE DEF p, w
  <2>4. p \o Replacing = w BY <2>1, <2>2, <2>3, JoinedSteps
  <2> QED BY <2>4 DEF p, w
<1>4. <<"pop", "open", "fill", "rename">> \o <<"exchange">>
        = <<"pop", "open", "fill", "rename", "exchange">>
  <2> DEFINE p == <<"pop", "open", "fill", "rename">>
             w == <<"pop", "open", "fill", "rename", "exchange">>
             s == <<"exchange">>
  <2>1. p \in Seq(Steps) /\ s \in Seq(Steps) /\ w \in Seq(Steps) BY DEF Steps
  <2>2. Len(w) = Len(p) + Len(s) OBVIOUS
  <2>3. \A i \in 1 .. Len(p) + Len(s) : w[i] = IF i <= Len(p) THEN p[i] ELSE s[i - Len(p)]
    OBVIOUS
  <2> HIDE DEF p, w, s
  <2>4. p \o s = w BY <2>1, <2>2, <2>3, JoinedSteps
  <2> QED BY <2>4 DEF p, w, s
<1>5. <<"pop", "open", "fill", "rename", "exchange">> \o Saving
        = <<"pop", "open", "fill", "rename", "exchange", "reread", "truncate", "write">>
  <2> DEFINE p == <<"pop", "open", "fill", "rename", "exchange">>
             w == <<"pop", "open", "fill", "rename", "exchange", "reread", "truncate", "write">>
  <2>1. p \in Seq(Steps) /\ Saving \in Seq(Steps) /\ w \in Seq(Steps) BY DEF Steps, Saving
  <2>2. Len(w) = Len(p) + Len(Saving) BY DEF Saving
  <2>3. \A i \in 1 .. Len(p) + Len(Saving) :
            w[i] = IF i <= Len(p) THEN p[i] ELSE Saving[i - Len(p)]
    BY DEF Saving
  <2> HIDE DEF p, w
  <2>4. p \o Saving = w BY <2>1, <2>2, <2>3, JoinedSteps
  <2> QED BY <2>4 DEF p, w
<1> QED BY <1>1, <1>2, <1>3, <1>4, <1>5

-----------------------------------------------------------------------------
(* The inductive invariant of the connections. *)
Stored ==
    /\ Files!FilesTypeOK([pending: SUBSET Flow])
    /\ \A t \in Thread : job[t] = StatesFile
    /\ tokens \subseteq Token /\ told \subseteq Token
    /\ flows \in Seq([user: User, provider: Provider, given: BOOLEAN])
    /\ stale \subseteq Flow /\ redeemed \subseteq Flow /\ waiting \subseteq Flow
    /\ valid \subseteq Nat /\ expired \subseteq Nat /\ issued \in Nat
    /\ served \in 0 .. MaxRequests /\ Len(flows) <= served
    /\ exchanged \in [Flow -> Nat]
    /\ ordered \in BOOLEAN /\ calm \in BOOLEAN /\ keyed \in BOOLEAN

Registers ==
    /\ ahead \in [Thread -> Programs]
    /\ flow \in [Thread -> 0 .. MaxRequests]
    /\ states \in [Thread -> SUBSET Flow]
    /\ hand \in [Thread -> Token]
    /\ lines \in [Thread -> SUBSET Token]
    /\ \A t \in Thread : ahead[t] \in FlowSteps => flow[t] \in 1 .. Len(flows)
    /\ \A t \in Thread : At(t, "without") => hand[t].refresh = 0

Shape == Stored /\ Registers

(* Every copy of a connection, in the file or about to be written there,   *)
(* carries a refresh token that no other connection has.                   *)
OneOwner(copies, last) ==
    /\ \A x \in copies : x.refresh <= last
    /\ \A x, y \in copies : x.refresh = y.refresh /\ x.refresh # 0 => Same(x, y)

Copies == tokens \cup told \cup {hand[t] : t \in Thread} \cup UNION {lines[t] : t \in Thread}

(* A flow is put by the request that started it, then handed out, and then *)
(* claimed by callbacks.                                                   *)
Putting(t) == At(t, "put") \/ (InStates(t) /\ flow[t] \in states[t])
Claiming(t) == ahead[t] \in Claims

FlowInv ==
    /\ \A t \in Thread : Putting(t) => ~flows[flow[t]].given /\ ~Claiming(t)
    /\ \A s, t \in Thread : Putting(s) /\ Putting(t) /\ flow[s] = flow[t] => s = t
    /\ \A t \in Thread : Claiming(t) \/ At(t, "pop") => flows[flow[t]].given
    /\ \A s \in waiting : s \in 1 .. Len(flows) /\ flows[s].given
    /\ \A s \in Flow : exchanged[s] # 0 => s \in 1 .. Len(flows) /\ flows[s].given

(* What t will publish, but for what has expired since it read. *)
Published(t) == IF flow[t] \in states[t] THEN waiting \cup {flow[t]} ELSE waiting \ {flow[t]}

OrderedInv ==
    ordered =>
    /\ \A s, t \in Thread : InStates(s) /\ InStates(t) => s = t
    /\ Live = waiting \ stale
    /\ \A t \in Thread : InStates(t) => states[t] \ stale = Published(t) \ stale
    /\ \A t \in Thread : At(t, "fill") => fd[t] = "tmp" /\ tmp[StatesFile] = Empty
    /\ \A t \in Thread : At(t, "rename") => tmp[StatesFile] = [pending |-> states[t]]
    /\ \A s \in Flow : exchanged[s] <= 1 /\ (exchanged[s] # 0 => s \notin waiting)
    /\ \A t \in Thread : Claiming(t) => exchanged[flow[t]] = 0
    /\ \A s, t \in Thread : Claiming(s) /\ Claiming(t) /\ flow[s] = flow[t] => s = t
    /\ \A t \in Thread : Claiming(t) /\ ~InStates(t) => flow[t] \notin waiting

Works(t) == Busy(t) /\ Head(ahead[t]) \in {"reread", "truncate", "write"}
Changes(t) == Busy(t) /\ Head(ahead[t]) \in {"refresh", "reread", "truncate", "write"}

(* The lines that are in the file, or that a request is putting there. *)
Kept == tokens \cup UNION {lines[t] : t \in {s \in Thread : InTokens(s)}}

(* What a request writes that saves x or deletes it, of all connections or *)
(* of those that could be read.                                            *)
Draft(text, all, x, whole) ==
    /\ text \subseteq Others(all, x) \cup {x}
    /\ whole => text \in {Others(all, x), Others(all, x) \cup {x}}

CalmInv ==
    calm =>
    /\ \A s, t \in Thread : InTokens(s) /\ InTokens(t) => s = t
    /\ \A s, t \in Thread : Changes(s) /\ Changes(t) /\ Same(hand[s], hand[t]) => s = t
    /\ \A t \in Thread : At(t, "write") => tokens = {}
    /\ tokens \subseteq told
    /\ keyed /\ (\A t \in Thread : ~At(t, "write")) => tokens = told
    /\ \A t \in Thread : InTokens(t) => Draft(lines[t], told, hand[t], keyed)
    /\ \A t \in Thread : Works(t) => hand[t].refresh \in valid \cup {0}
    /\ \A x \in Kept : \/ x.refresh \in valid \cup {0}
                       \/ \E t \in Thread : Works(t) /\ Same(hand[t], x)

TokenInv == OneOwner(Copies, issued) /\ CalmInv

ConnectionsInv == Shape /\ FlowInv /\ OrderedInv /\ TokenInv

-----------------------------------------------------------------------------
(* Types. *)
LEMMA ProgramTypes ==
    /\ \A p \in Programs : p \in Seq(Steps)
    /\ <<>> \in Programs /\ <<>> \notin FlowSteps /\ <<>> \notin Claims
    /\ <<"get">> \in Programs /\ <<"get">> \notin FlowSteps
    /\ <<"without", "truncate", "write">> \in Programs \ FlowSteps
    /\ <<"refresh", "reread", "truncate", "write">> \in Programs \ FlowSteps
    /\ <<"put", "open", "fill", "rename">> \in FlowSteps \ Claims
    /\ <<"pop", "open", "fill", "rename", "exchange", "reread", "truncate", "write">>
          \in FlowSteps \ Claims
    /\ <<"open", "fill", "rename">> \in FlowSteps \ Claims
    /\ FlowSteps \subseteq Programs /\ Claims \subseteq FlowSteps
<1>1. \A p \in Programs : p \in Seq(Steps)
  <2> SUFFICES ASSUME NEW p \in Programs PROVE p \in Seq(Steps) OBVIOUS
  <2>1. CASE p = <<>> BY <2>1
  <2>2. CASE p # <<>> BY <2>2, ProgramFacts DEF Known
  <2> QED BY <2>1, <2>2
<1>2. <<>> \in Programs BY DEF Programs
<1>3. \A p \in FlowSteps : p # <<>> BY ClaimFacts, ReplaceFacts DEF FlowSteps
<1>4. FlowSteps \subseteq Programs /\ Claims \subseteq FlowSteps BY DEF Programs, FlowSteps
<1>5. /\ <<"get">> \in Programs
      /\ <<"without", "truncate", "write">> \in Programs
      /\ <<"refresh", "reread", "truncate", "write">> \in Programs
      /\ <<"put", "open", "fill", "rename">> \in Programs
      /\ <<"pop", "open", "fill", "rename", "exchange", "reread", "truncate", "write">> \in Programs
  BY DEF Programs, FlowSteps
<1>6. ASSUME NEW p \in Programs, p # <<>>
      PROVE  /\ Head(p) \in FlowHeads => p \in FlowSteps
             /\ Head(p) \notin FlowHeads => p \notin FlowSteps
             /\ Head(p) \in {"put", "pop"} => p \notin Claims
  BY <1>6, ProgramFacts DEF Known
<1>8. <<"open", "fill", "rename">> \in FlowSteps \ Claims BY ReplaceFacts DEF Replaces, FlowSteps
<1>9. /\ "get" \notin FlowHeads /\ "without" \notin FlowHeads /\ "refresh" \notin FlowHeads
      /\ "put" \in FlowHeads /\ "pop" \in FlowHeads
  BY DEF FlowHeads
<1>10. ASSUME NEW p \in Programs, p # <<>>, Head(p) \in {"put", "pop"}
       PROVE  p \in FlowSteps \ Claims
  <2>1. Head(p) \in FlowHeads BY <1>9, <1>10
  <2> QED BY <1>6, <1>10, <2>1
<1>11. ASSUME NEW p \in Programs, p # <<>>, Head(p) \in {"get", "without", "refresh"}
       PROVE  p \notin FlowSteps
  <2>1. Head(p) \notin FlowHeads BY <1>9, <1>11
  <2> QED BY <1>6, <1>11, <2>1
<1>12. /\ <<"put", "open", "fill", "rename">> \in FlowSteps \ Claims
       /\ <<"pop", "open", "fill", "rename", "exchange", "reread", "truncate", "write">>
             \in FlowSteps \ Claims
  <2> DEFINE p == <<"put", "open", "fill", "rename">>
             q == <<"pop", "open", "fill", "rename", "exchange", "reread", "truncate", "write">>
  <2>1. p \in Programs /\ q \in Programs /\ p # <<>> /\ q # <<>> /\ Head(p) = "put" /\ Head(q) = "pop"
    BY <1>5
  <2> HIDE DEF p, q
  <2>2. p \in FlowSteps \ Claims /\ q \in FlowSteps \ Claims BY <1>10, <2>1
  <2> QED BY <2>2 DEF p, q
<1>13. /\ <<"get">> \notin FlowSteps
       /\ <<"without", "truncate", "write">> \notin FlowSteps
       /\ <<"refresh", "reread", "truncate", "write">> \notin FlowSteps
  <2> DEFINE p == <<"get">>
             q == <<"without", "truncate", "write">>
             r == <<"refresh", "reread", "truncate", "write">>
  <2>1. /\ p \in Programs /\ q \in Programs /\ r \in Programs /\ p # <<>> /\ q # <<>> /\ r # <<>>
        /\ Head(p) = "get" /\ Head(q) = "without" /\ Head(r) = "refresh"
    BY <1>5
  <2> HIDE DEF p, q, r
  <2>2. p \notin FlowSteps /\ q \notin FlowSteps /\ r \notin FlowSteps BY <1>11, <2>1
  <2> QED BY <2>2 DEF p, q, r
<1> QED BY <1>1, <1>2, <1>3, <1>4, <1>5, <1>8, <1>12, <1>13

LEMMA ShapeTypes == Shape => TypeOK
<1> SUFFICES ASSUME Shape PROVE TypeOK OBVIOUS
<1>1. ahead \in [Thread -> Seq(Steps)] BY ProgramTypes DEF Shape, Registers
<1> QED BY <1>1 DEF Shape, Registers, Stored, TypeOK

(* What t's next access is, and what comes after it. *)
LEMMA Aheads ==
    ASSUME Shape, NEW t \in Thread, Busy(t)
    PROVE  Known(ahead[t]) /\ ahead[t] \in Programs /\ ahead[t] # <<>>
BY ProgramFacts DEF Shape, Registers, Busy

(* A step of t. *)
LEMMA ShapeStep ==
    ASSUME Shape, NEW t \in Thread, Stored', Len(flows) <= Len(flows'),
           NEW p \in Programs, ahead' = [ahead EXCEPT ![t] = p],
           NEW s \in 0 .. MaxRequests, flow' = [flow EXCEPT ![t] = s],
           NEW read \in SUBSET Flow, states' = [states EXCEPT ![t] = read],
           NEW x \in Token, hand' = [hand EXCEPT ![t] = x],
           NEW text \in SUBSET Token, lines' = [lines EXCEPT ![t] = text],
           p \in FlowSteps => s \in 1 .. Len(flows'),
           p # <<>> => Head(p) # "without" \/ x.refresh = 0
    PROVE  Shape'
<1>1. \A q \in Thread \ {t} : ahead'[q] = ahead[q] /\ flow'[q] = flow[q] /\ hand'[q] = hand[q]
  BY DEF Shape, Registers
<1>2. ahead'[t] = p /\ flow'[t] = s /\ hand'[t] = x BY DEF Shape, Registers
<1>3. /\ ahead' \in [Thread -> Programs] /\ flow' \in [Thread -> 0 .. MaxRequests]
      /\ states' \in [Thread -> SUBSET Flow] /\ hand' \in [Thread -> Token]
      /\ lines' \in [Thread -> SUBSET Token]
  BY DEF Shape, Registers
<1>4. \A q \in Thread : ahead'[q] \in FlowSteps => flow'[q] \in 1 .. Len(flows')
  <2> SUFFICES ASSUME NEW q \in Thread, ahead'[q] \in FlowSteps
               PROVE  flow'[q] \in 1 .. Len(flows')
    OBVIOUS
  <2>1. CASE q = t BY <1>2, <2>1
  <2>2. CASE q # t
    <3>1. flow'[q] \in 1 .. Len(flows) BY <1>1, <2>2 DEF Shape, Registers
    <3>2. Len(flows) \in Nat /\ Len(flows') \in Nat BY LenProperties DEF Shape, Stored
    <3> QED BY <3>1, <3>2
  <2> QED BY <2>1, <2>2
<1>5. \A q \in Thread : At(q, "without")' => hand'[q].refresh = 0
  BY <1>1, <1>2 DEF Shape, Registers, At, Busy
<1> QED BY <1>3, <1>4, <1>5 DEF Shape, Registers

(* ... that goes on with its program, or gives up. *)
LEMMA ShapeMove ==
    ASSUME Shape, NEW t \in Thread, Stored', Len(flows) <= Len(flows'), Busy(t),
           Continue(t) \/ EndRequest(t), flow' = flow,
           NEW read \in SUBSET Flow, states' = [states EXCEPT ![t] = read],
           NEW x \in Token, hand' = [hand EXCEPT ![t] = x],
           NEW text \in SUBSET Token, lines' = [lines EXCEPT ![t] = text]
    PROVE  Shape'
<1>1. flow' = [flow EXCEPT ![t] = flow[t]] /\ flow[t] \in 0 .. MaxRequests BY DEF Shape, Registers
<1>2. Len(flows) \in Nat /\ Len(flows') \in Nat BY LenProperties DEF Shape, Stored
<1>3. CASE EndRequest(t)
  <2>1. PICK none : none = <<>> OBVIOUS
  <2>2. /\ none \in Programs /\ none \notin FlowSteps /\ ahead' = [ahead EXCEPT ![t] = none]
        /\ none = <<>>
    BY <1>3, <2>1, ProgramTypes DEF EndRequest
  <2> QED BY <1>1, <2>2, ShapeStep
<1>4. CASE Continue(t)
  <2>1. ahead' = [ahead EXCEPT ![t] = Tail(ahead[t])] BY <1>4 DEF Continue
  <2>2. Known(ahead[t]) /\ ahead[t] \in Programs /\ ahead[t] # <<>> BY Aheads
  <2> DEFINE p == Tail(ahead[t])
  <2>3. p \in Programs BY <2>2 DEF Known
  <2>4. p # <<>> => <<Head(ahead[t]), Head(p)>> \in Follows BY <2>2 DEF Known
  <2>5. p # <<>> => Head(p) # "without" BY <2>4 DEF Follows
  <2>6. p \in FlowSteps => ahead[t] \in FlowSteps
    <3>1. p \in FlowSteps => p # <<>> BY ProgramTypes
    <3>2. p # <<>> => Known(p) BY <2>3, ProgramFacts
    <3>3. p \in FlowSteps => p # <<>> /\ Head(p) \in FlowHeads
      <4> HIDE DEF p
      <4> QED BY <3>1, <3>2 DEF Known
    <3>4. p \in FlowSteps => Head(ahead[t]) \in FlowHeads
      BY <2>4, <3>3 DEF Follows, FlowHeads
    <3> QED BY <2>2, <3>4 DEF Known
  <2>7. p \in FlowSteps => flow[t] \in 1 .. Len(flows') BY <1>2, <2>6 DEF Shape, Registers
  <2>8. ahead' = [ahead EXCEPT ![t] = p] BY <2>1
  <2> HIDE DEF p
  <2> QED BY <1>1, <2>3, <2>5, <2>7, <2>8, ShapeStep
<1> QED BY <1>3, <1>4

(* t's registers that an access leaves alone. *)
LEMMA Untouched ==
    ASSUME Shape, NEW t \in Thread
    PROVE  /\ flow = [flow EXCEPT ![t] = flow[t]] /\ flow[t] \in 0 .. MaxRequests
           /\ states = [states EXCEPT ![t] = states[t]] /\ states[t] \in SUBSET Flow
           /\ hand = [hand EXCEPT ![t] = hand[t]] /\ hand[t] \in Token
           /\ lines = [lines EXCEPT ![t] = lines[t]] /\ lines[t] \in SUBSET Token
BY DEF Shape, Registers

LEMMA ShapeStart ==
    ASSUME Shape, NEW t \in Thread, Start(t)
    PROVE  Shape'
<1> DEFINE p == <<"put", "open", "fill", "rename">>
<1>1. PICK u \in User, v \in Provider :
        /\ BeginRequest(t, <<"put">> \o Replacing)
        /\ flows' = Append(flows, [user |-> u, provider |-> v, given |-> FALSE])
        /\ flow' = [flow EXCEPT ![t] = Len(flows) + 1]
        /\ UNCHANGED hand
  BY DEF Start
<1>2. p \in Programs /\ Head(p) # "without" BY ProgramTypes
<1>3. /\ ahead' = [ahead EXCEPT ![t] = p] /\ served < MaxRequests /\ served' = served + 1
      /\ UNCHANGED <<files, tokens, states, lines, provider, clock, ghosts>>
  BY <1>1, RequestPrograms DEF BeginRequest
<1> DEFINE new == [user |-> u, provider |-> v, given |-> FALSE]
<1>4. new \in [user: User, provider: Provider, given: BOOLEAN] OBVIOUS
<1> HIDE DEF p, new
<1>5. /\ Len(flows) \in Nat /\ Len(flows') = Len(flows) + 1
      /\ flows' \in Seq([user: User, provider: Provider, given: BOOLEAN])
  BY <1>1, <1>4, AppendProperties, LenProperties DEF Shape, Stored, new
<1>6. Len(flows) <= served /\ served \in 0 .. MaxRequests /\ MaxRequests \in Nat
  BY ConnectionsAssumption DEF Shape, Stored
<1>7. served' \in 0 .. MaxRequests /\ Len(flows') <= served' BY <1>3, <1>5, <1>6
<1>8. Stored'
  BY <1>3, <1>5, <1>7
  DEF Shape, Stored, Files!FilesTypeOK, Files!Unreadable, files, provider, clock, ghosts
<1>9. Len(flows) + 1 \in 0 .. MaxRequests /\ Len(flows) + 1 \in 1 .. Len(flows') BY <1>3, <1>5, <1>6
<1>10. /\ states' = [states EXCEPT ![t] = states[t]] /\ states[t] \in SUBSET Flow
       /\ hand' = [hand EXCEPT ![t] = hand[t]] /\ hand[t] \in Token
       /\ lines' = [lines EXCEPT ![t] = lines[t]] /\ lines[t] \in SUBSET Token
  BY <1>1, <1>3, Untouched
<1>11. Len(flows) <= Len(flows') /\ flow' = [flow EXCEPT ![t] = Len(flows) + 1] BY <1>1, <1>5
<1>12. ahead' = [ahead EXCEPT ![t] = p] BY <1>3
<1> QED BY <1>2, <1>8, <1>9, <1>10, <1>11, <1>12, ShapeStep

LEMMA NamedTokens ==
    \A u \in User, v \in Provider : [user |-> u, provider |-> v, access |-> 0, refresh |-> 0] \in Token
BY DEF Token

LEMMA StoredBegun ==
    ASSUME Shape, NEW t, NEW p, BeginRequest(t, p), flows' = flows
    PROVE  Stored'
<1>1. served' \in 0 .. MaxRequests /\ Len(flows') <= served'
  BY ConnectionsAssumption, LenProperties DEF Shape, Stored, BeginRequest
<1> QED BY <1>1 DEF Shape, Stored, BeginRequest, Files!FilesTypeOK, Files!Unreadable, files, provider,
                    clock, ghosts

LEMMA ShapeCallback ==
    ASSUME Shape, NEW t \in Thread, Callback(t)
    PROVE  Shape'
<1> DEFINE p == <<"pop", "open", "fill", "rename", "exchange", "reread", "truncate", "write">>
<1>1. PICK s \in DOMAIN flows, v \in Provider :
        /\ BeginRequest(t, p)
        /\ flow' = [flow EXCEPT ![t] = s]
        /\ hand' = [hand EXCEPT ![t] =
                      [user |-> flows[s].user, provider |-> v, access |-> 0, refresh |-> 0]]
        /\ UNCHANGED flows
  BY RequestPrograms DEF Callback
<1>2. p \in Programs /\ Head(p) # "without" BY ProgramTypes
<1> HIDE DEF p
<1>3. ahead' = [ahead EXCEPT ![t] = p] /\ UNCHANGED <<states, lines>> BY <1>1 DEF BeginRequest
<1>4. DOMAIN flows = 1 .. Len(flows) /\ Len(flows) \in Nat /\ flows[s].user \in User
  <2>1. flows \in Seq([user: User, provider: Provider, given: BOOLEAN]) BY DEF Shape, Stored
  <2>2. DOMAIN flows = 1 .. Len(flows) /\ Len(flows) \in Nat BY <2>1, LenProperties
  <2>3. flows[s] \in [user: User, provider: Provider, given: BOOLEAN] BY <2>1, <2>2, ElementOfSeq
  <2> QED BY <2>2, <2>3
<1>5. s \in 1 .. Len(flows') /\ s \in 0 .. MaxRequests
  BY <1>1, <1>4, ConnectionsAssumption DEF Shape, Stored
<1> DEFINE x == [user |-> flows[s].user, provider |-> v, access |-> 0, refresh |-> 0]
<1>6. x \in Token /\ hand' = [hand EXCEPT ![t] = x] BY <1>1, <1>4, NamedTokens
<1> HIDE DEF x
<1>7. Stored' BY <1>1, StoredBegun
<1>8. Len(flows) <= Len(flows') BY <1>1, <1>4
<1>9. /\ states' = [states EXCEPT ![t] = states[t]] /\ states[t] \in SUBSET Flow
      /\ lines' = [lines EXCEPT ![t] = lines[t]] /\ lines[t] \in SUBSET Token
  BY <1>3, Untouched
<1>10. ahead' = [ahead EXCEPT ![t] = p] /\ flow' = [flow EXCEPT ![t] = s] BY <1>1, <1>3
<1> QED BY <1>2, <1>5, <1>6, <1>7, <1>8, <1>9, <1>10, ShapeStep

LEMMA ShapeNamed ==
    ASSUME Shape, NEW t \in Thread, Use(t) \/ Disconnect(t)
    PROVE  Shape'
<1>1. PICK p \in {<<"get">>, <<"without", "truncate", "write">>}, u \in User, v \in Provider :
        BeginRequest(t, p) /\ Named(t, u, v) /\ UNCHANGED <<flow, flows>>
  BY DEF Use, Disconnect
<1>2. p \in Programs /\ p \notin FlowSteps BY ProgramTypes
<1>3. ahead' = [ahead EXCEPT ![t] = p] /\ UNCHANGED <<states, lines>> BY <1>1 DEF BeginRequest
<1> DEFINE x == [user |-> u, provider |-> v, access |-> 0, refresh |-> 0]
<1>4. x \in Token /\ x.refresh = 0 /\ hand' = [hand EXCEPT ![t] = x] BY <1>1, NamedTokens DEF Named
<1> HIDE DEF x
<1>5. Stored' BY <1>1, StoredBegun
<1>6. Len(flows) <= Len(flows') BY <1>1, LenProperties DEF Shape, Stored
<1> QED BY <1>1, <1>2, <1>3, <1>4, <1>5, <1>6, Untouched, ShapeStep

LEMMA LiveStates == Shape => Live \in SUBSET Flow
<1> SUFFICES ASSUME Shape PROVE Live \in SUBSET Flow OBVIOUS
<1>1. file[StatesFile] \in [pending: SUBSET Flow] \cup {Empty, Torn} \cup {NoFile}
  BY DEF Shape, Stored, Files!FilesTypeOK, Files!Unreadable
<1>2. CASE file[StatesFile] \in {NoFile, Empty, Torn} BY <1>2 DEF Live
<1>3. CASE file[StatesFile] \notin {NoFile, Empty, Torn}
  <2>1. file[StatesFile].pending \in SUBSET Flow BY <1>1, <1>3
  <2> QED BY <1>3, <2>1 DEF Live
<1> QED BY <1>2, <1>3

LEMMA ShapePut ==
    ASSUME Shape, NEW t \in Thread, Put(t)
    PROVE  Shape'
<1>1. Busy(t) /\ Head(ahead[t]) = "put" BY DEF Put, At
<1>2. flow[t] \in 1 .. Len(flows)
  <2>1. Known(ahead[t]) BY <1>1, Aheads
  <2>2. ahead[t] \in FlowSteps BY <1>1, <2>1 DEF Known, FlowHeads
  <2> QED BY <2>2 DEF Shape, Registers
<1>3. flow[t] \in Flow
  BY <1>2, LenProperties, ConnectionsAssumption DEF Shape, Stored, Registers, Flow
<1> DEFINE read == Live \cup {flow[t]}
<1>4. read \in SUBSET Flow /\ states' = [states EXCEPT ![t] = read] BY <1>3, LiveStates DEF Put
<1> HIDE DEF read
<1>5. Stored'
  BY DEF Put, Shape, Stored, Files!FilesTypeOK, Files!Unreadable, files, provider, clock
<1>6. /\ hand' = [hand EXCEPT ![t] = hand[t]] /\ hand[t] \in Token
      /\ lines' = [lines EXCEPT ![t] = lines[t]] /\ lines[t] \in SUBSET Token
  BY Untouched DEF Put
<1>7. Continue(t) /\ flow' = flow /\ Len(flows) <= Len(flows')
  BY LenProperties DEF Put, Shape, Stored
<1> QED BY <1>1, <1>4, <1>5, <1>6, <1>7, ShapeMove

LEMMA ShapePop ==
    ASSUME Shape, NEW t \in Thread, Pop(t)
    PROVE  Shape'
<1>1. Busy(t) /\ Head(ahead[t]) = "pop" BY DEF Pop, At
<1>2. Known(ahead[t]) BY <1>1, Aheads
<1>3. ahead[t] \in FlowSteps /\ Tail(ahead[t]) \in Claims BY <1>1, <1>2 DEF Known, FlowHeads
<1> DEFINE read == Live \ {flow[t]}
<1>4. read \in SUBSET Flow /\ states' = [states EXCEPT ![t] = read] BY LiveStates DEF Pop
<1> HIDE DEF read
<1>5. Stored'
  BY DEF Pop, Shape, Stored, Files!FilesTypeOK, Files!Unreadable, files, provider, clock
<1>6. /\ hand' = [hand EXCEPT ![t] = hand[t]] /\ hand[t] \in Token
      /\ lines' = [lines EXCEPT ![t] = lines[t]] /\ lines[t] \in SUBSET Token
      /\ flow' = [flow EXCEPT ![t] = flow[t]] /\ flow[t] \in 0 .. MaxRequests
  BY Untouched DEF Pop
<1>7. flows' = flows /\ Len(flows) <= Len(flows') BY LenProperties DEF Pop, Shape, Stored
<1>8. flow[t] \in 1 .. Len(flows') BY <1>3, <1>7 DEF Shape, Registers
<1>9. PICK p \in {Tail(ahead[t]), <<"open", "fill", "rename">>} : ahead' = [ahead EXCEPT ![t] = p]
  BY DEF Pop, Replacing
<1>10. p \in Programs BY <1>3, <1>9, ProgramTypes
<1>11. p \in FlowSteps BY <1>3, <1>9, ProgramTypes
<1>12. p # <<>> /\ Known(p) BY <1>10, <1>11, ProgramTypes, ProgramFacts
<1>13. Head(p) # "without" BY <1>11, <1>12 DEF Known, FlowHeads
<1> QED BY <1>4, <1>5, <1>6, <1>7, <1>8, <1>9, <1>10, <1>13, ShapeStep

(* Accesses to the states' files. *)
LEMMA OpenStored ==
    ASSUME Shape, NEW t \in Thread, OpenTmp(t)
    PROVE  Stored'
BY DEF OpenTmp, Files!OpenTmp, stateSteps, Shape, Stored, Files!FilesTypeOK, Files!Unreadable,
       provider, clock, registers

LEMMA FillStored ==
    ASSUME Shape, NEW t \in Thread, FillTmp(t)
    PROVE  Stored'
<1>1. [pending |-> states[t]] \in [pending: SUBSET Flow] BY DEF Shape, Registers
<1>2. /\ tmp' \in [{StatesFile} -> [pending: SUBSET Flow] \cup {Empty, Torn} \cup {NoFile}]
      /\ file' \in [{StatesFile} -> [pending: SUBSET Flow] \cup {Empty, Torn} \cup {NoFile}]
      /\ fd' \in [Thread -> {"closed", "tmp", "file", "unlinked"}] /\ windows' \in BOOLEAN
  BY <1>1 DEF FillTmp, Files!WriteOut, Files!Overlay, Shape, Stored, Files!FilesTypeOK,
              Files!Unreadable
<1> QED BY <1>2 DEF FillTmp, stateSteps, Shape, Stored, Files!FilesTypeOK, Files!Unreadable,
       provider, clock, registers

LEMMA RenameStored ==
    ASSUME Shape, NEW t \in Thread, Rename(t)
    PROVE  Stored' /\ Len(flows') = Len(flows) /\ (Continue(t) \/ EndRequest(t))
<1>1. /\ tmp' \in [{StatesFile} -> [pending: SUBSET Flow] \cup {Empty, Torn} \cup {NoFile}]
      /\ file' \in [{StatesFile} -> [pending: SUBSET Flow] \cup {Empty, Torn} \cup {NoFile}]
      /\ fd' \in [Thread -> {"closed", "tmp", "file", "unlinked"}] /\ windows' \in BOOLEAN
  BY DEF Rename, Files!Replace, Shape, Stored, Files!FilesTypeOK, Files!Unreadable
<1>2. Busy(t) /\ Head(ahead[t]) = "rename" BY DEF Rename, At
<1>3. Known(ahead[t]) BY <1>2, Aheads
<1>4. flow[t] \in 1 .. Len(flows) BY <1>2, <1>3 DEF Known, FlowHeads, Shape, Registers
<1>5. flow[t] \in Flow
  BY <1>4, LenProperties, ConnectionsAssumption DEF Shape, Stored, Registers, Flow
<1>6. waiting' \subseteq Flow BY <1>5 DEF Rename, Shape, Stored
<1> DEFINE Started == [user: User, provider: Provider, given: BOOLEAN]
<1>7. flows' \in Seq(Started) /\ Len(flows') = Len(flows)
  <2>1. flows \in Seq(Started) BY DEF Shape, Stored
  <2>2. CASE flows' = flows BY <2>1, <2>2
  <2>3. CASE flows' = [flows EXCEPT ![flow[t]].given = TRUE]
    <3> DEFINE new == [flows[flow[t]] EXCEPT !.given = TRUE]
    <3>1. flows' = [flows EXCEPT ![flow[t]] = new] BY <2>3
    <3>2. flows[flow[t]] \in Started BY <1>4, <2>1, ElementOfSeq
    <3>3. new \in Started BY <3>2
    <3> HIDE DEF new
    <3> QED BY <1>4, <2>1, <3>1, <3>3, ExceptSeq
  <2> QED BY <2>2, <2>3 DEF Rename
<1>8. UNCHANGED <<job, stateSteps>> /\ (Continue(t) \/ EndRequest(t)) BY DEF Rename
<1> QED BY <1>1, <1>6, <1>7, <1>8
        DEF stateSteps, Shape, Stored, Files!FilesTypeOK, Files!Unreadable, provider, clock, registers

LEMMA ShapeStates ==
    ASSUME Shape, NEW t \in Thread, OpenTmp(t) \/ FillTmp(t) \/ Rename(t)
    PROVE  Shape'
<1>1. Stored' BY OpenStored, FillStored, RenameStored
<1>2. Busy(t) BY DEF OpenTmp, FillTmp, Rename, At
<1>3. Continue(t) \/ EndRequest(t) BY DEF OpenTmp, FillTmp, Rename
<1>4. Len(flows) <= Len(flows')
  <2>1. Len(flows) \in Nat BY LenProperties DEF Shape, Stored
  <2>2. Len(flows') = Len(flows) BY RenameStored DEF OpenTmp, FillTmp
  <2> QED BY <2>1, <2>2
<1>5. UNCHANGED <<flow, states, hand, lines>> BY DEF OpenTmp, FillTmp, Rename, stateSteps, registers
<1>6. /\ states' = [states EXCEPT ![t] = states[t]] /\ states[t] \in SUBSET Flow
      /\ hand' = [hand EXCEPT ![t] = hand[t]] /\ hand[t] \in Token
      /\ lines' = [lines EXCEPT ![t] = lines[t]] /\ lines[t] \in SUBSET Token
  BY <1>5, Untouched
<1> QED BY <1>1, <1>2, <1>3, <1>4, <1>5, <1>6, ShapeMove

(* The providers and the tokens file. *)
LEMMA ExchangeStored ==
    ASSUME Shape, NEW t \in Thread, Exchange(t)
    PROVE  Stored' /\ Fresh \in Nat /\ flow[t] \in 1 .. Len(flows) /\ flow[t] \in Flow
<1>1. Busy(t) /\ Head(ahead[t]) = "exchange" BY DEF Exchange, At
<1>2. Known(ahead[t]) BY <1>1, Aheads
<1>3. flow[t] \in 1 .. Len(flows) BY <1>1, <1>2 DEF Known, FlowHeads, Shape, Registers
<1>4. flow[t] \in Flow
  BY <1>3, LenProperties, ConnectionsAssumption DEF Shape, Stored, Registers, Flow
<1>5. Fresh \in Nat BY DEF Fresh, Shape, Stored
<1>6. redeemed' \subseteq Flow /\ valid' \subseteq Nat /\ issued' \in Nat /\ calm' \in BOOLEAN
  BY <1>4, <1>5 DEF Exchange, Hold, Shape, Stored
<1>7. exchanged' \in [Flow -> Nat] BY <1>4 DEF Exchange, Shape, Stored
<1> QED BY <1>3, <1>4, <1>5, <1>6, <1>7
        DEF Exchange, Shape, Stored, Files!FilesTypeOK, Files!Unreadable, files, clock

LEMMA ShapeExchange ==
    ASSUME Shape, NEW t \in Thread, Exchange(t)
    PROVE  Shape'
<1>1. Stored' /\ Fresh \in Nat BY ExchangeStored
<1>2. Busy(t) /\ (Continue(t) \/ EndRequest(t)) /\ flow' = flow BY DEF Exchange, At
<1>3. Len(flows) <= Len(flows') BY LenProperties DEF Exchange, Shape, Stored
<1>4. PICK x \in Token : hand' = [hand EXCEPT ![t] = x]
  <2>1. CASE hand' = hand BY <2>1, Untouched
  <2>2. CASE \E r \in {0, Fresh} : hand' = [hand EXCEPT ![t].access = Fresh, ![t].refresh = r]
    <3>1. PICK r \in {0, Fresh} : hand' = [hand EXCEPT ![t].access = Fresh, ![t].refresh = r]
      BY <2>2
    <3> DEFINE x == [hand[t] EXCEPT !.access = Fresh, !.refresh = r]
    <3>2. hand' = [hand EXCEPT ![t] = x] BY <3>1 DEF Shape, Registers
    <3>3. r \in Nat /\ hand[t] \in Token BY <1>1, Untouched
    <3>4. x \in Token BY <1>1, <3>3 DEF Token
    <3> QED BY <3>2, <3>4
  <2> QED BY <2>1, <2>2 DEF Exchange
<1>5. /\ states' = [states EXCEPT ![t] = states[t]] /\ states[t] \in SUBSET Flow
      /\ lines' = [lines EXCEPT ![t] = lines[t]] /\ lines[t] \in SUBSET Token
  BY Untouched DEF Exchange
<1> QED BY <1>1, <1>2, <1>3, <1>4, <1>5, ShapeMove

LEMMA ShapeGet ==
    ASSUME Shape, NEW t \in Thread, Get(t)
    PROVE  Shape'
<1>1. Stored'
  BY DEF Get, Hold, Shape, Stored, Files!FilesTypeOK, Files!Unreadable, files, provider, clock
<1>2. PICK x \in Token : hand' = [hand EXCEPT ![t] = x] BY Untouched DEF Get, Shape, Stored
<1>3. PICK p \in {<<>>, <<"refresh", "reread", "truncate", "write">>} : ahead' = [ahead EXCEPT ![t] = p]
  BY RequestPrograms DEF Get, EndRequest
<1>4. p \in Programs /\ p \notin FlowSteps /\ (p # <<>> => Head(p) # "without")
  <2>1. CASE p = <<>> BY <2>1, ProgramTypes
  <2>2. CASE p = <<"refresh", "reread", "truncate", "write">>
    <3>1. p # <<>> /\ Head(p) = "refresh" BY <2>2
    <3> QED BY <2>2, <3>1, ProgramTypes
  <2> QED BY <2>1, <2>2
<1>5. /\ states' = [states EXCEPT ![t] = states[t]] /\ states[t] \in SUBSET Flow
      /\ lines' = [lines EXCEPT ![t] = lines[t]] /\ lines[t] \in SUBSET Token
      /\ flow' = [flow EXCEPT ![t] = flow[t]] /\ flow[t] \in 0 .. MaxRequests
  BY Untouched DEF Get
<1>6. Len(flows) <= Len(flows') BY LenProperties DEF Get, Shape, Stored
<1> QED BY <1>1, <1>2, <1>3, <1>4, <1>5, <1>6, ShapeStep

LEMMA ShapeRefresh ==
    ASSUME Shape, NEW t \in Thread, Refresh(t)
    PROVE  Shape'
<1>1. Fresh \in Nat /\ hand[t] \in Token /\ hand[t].refresh \in Nat
  BY DEF Fresh, Shape, Stored, Registers, Token
<1>2. valid' \subseteq Nat /\ issued' \in Nat /\ redeemed' \subseteq Flow /\ calm' \in BOOLEAN
  BY <1>1 DEF Refresh, provider, Shape, Stored
<1>3. Stored' BY <1>2 DEF Refresh, Shape, Stored, Files!FilesTypeOK, Files!Unreadable, files, clock
<1>4. Busy(t) /\ (Continue(t) \/ EndRequest(t)) /\ flow' = flow BY DEF Refresh, At
<1>5. PICK x \in Token : hand' = [hand EXCEPT ![t] = x]
  <2>1. CASE hand' = hand BY <2>1, Untouched
  <2>2. CASE \E r \in Nat : hand' = [hand EXCEPT ![t].access = Fresh, ![t].refresh = r]
    <3>1. PICK r \in Nat : hand' = [hand EXCEPT ![t].access = Fresh, ![t].refresh = r]
      BY <2>2
    <3> DEFINE x == [hand[t] EXCEPT !.access = Fresh, !.refresh = r]
    <3>2. hand' = [hand EXCEPT ![t] = x] BY <3>1 DEF Shape, Registers
    <3>3. x \in Token BY <1>1 DEF Token
    <3> QED BY <3>2, <3>3
  <2> QED BY <1>1, <2>1, <2>2 DEF Refresh
<1>6. /\ states' = [states EXCEPT ![t] = states[t]] /\ states[t] \in SUBSET Flow
      /\ lines' = [lines EXCEPT ![t] = lines[t]] /\ lines[t] \in SUBSET Token
  BY Untouched DEF Refresh
<1>7. Len(flows) <= Len(flows') BY LenProperties DEF Refresh, Shape, Stored
<1> QED BY <1>3, <1>4, <1>5, <1>6, <1>7, ShapeMove

LEMMA ShapeTokens ==
    ASSUME Shape, NEW t \in Thread, Reread(t) \/ Without(t) \/ Truncate(t) \/ Write(t)
    PROVE  Shape'
<1>1. Busy(t) /\ (Continue(t) \/ EndRequest(t)) /\ flow' = flow /\ hand' = hand /\ states' = states
  BY DEF Reread, Without, Truncate, Write, At, tokenSteps
<1>2. PICK text \in SUBSET Token : lines' = [lines EXCEPT ![t] = text]
  <2>1. /\ hand[t] \in Token
        /\ \A legible \in SUBSET tokens : Others(legible, hand[t]) \subseteq Token
    BY Untouched DEF Others, Shape, Stored
  <2>2. CASE Reread(t) \/ Without(t)
    <3>1. PICK legible \in SUBSET tokens :
            \/ lines' = [lines EXCEPT ![t] = Others(legible, hand[t]) \cup {hand[t]}]
            \/ lines' = [lines EXCEPT ![t] = Others(legible, hand[t])]
      BY <2>2 DEF Reread, Without
    <3> QED BY <2>1, <3>1
  <2>3. CASE lines' = lines BY <2>3, Untouched
  <2> QED BY <2>2, <2>3 DEF Truncate, Write
<1>3. tokens' \subseteq Token /\ told' \subseteq Token /\ calm' \in BOOLEAN /\ keyed' \in BOOLEAN
  <2>1. /\ lines[t] \subseteq Token /\ tokens \subseteq Token /\ told \subseteq Token
        /\ calm \in BOOLEAN /\ keyed \in BOOLEAN
    BY DEF Shape, Stored, Registers
  <2>2. CASE Reread(t) BY <2>1, <2>2 DEF Reread
  <2>3. CASE Without(t) BY <2>1, <2>3 DEF Without
  <2>4. CASE Truncate(t) BY <2>1, <2>4 DEF Truncate
  <2>5. CASE Write(t) BY <2>1, <2>5 DEF Write, Others
  <2> QED BY <2>2, <2>3, <2>4, <2>5
<1>4. UNCHANGED tokenSteps BY DEF Reread, Without, Truncate, Write
<1>5. Stored'
  BY <1>3, <1>4 DEF tokenSteps, Shape, Stored, Files!FilesTypeOK, Files!Unreadable, files, provider,
                    clock
<1>6. Len(flows) <= Len(flows') BY <1>4, LenProperties DEF tokenSteps, Shape, Stored
<1>7. /\ states' = [states EXCEPT ![t] = states[t]] /\ states[t] \in SUBSET Flow
      /\ hand' = [hand EXCEPT ![t] = hand[t]] /\ hand[t] \in Token
  BY <1>1, Untouched
<1> QED BY <1>1, <1>2, <1>5, <1>6, <1>7, ShapeMove

LEMMA ShapeTime ==
    ASSUME Shape, StateExpires \/ TokenExpires
    PROVE  Shape'
<1>1. /\ stale' \subseteq Flow /\ expired' \subseteq Nat
      /\ UNCHANGED <<files, tokens, ahead, registers, flows, provider, served, ghosts>>
  <2>1. CASE StateExpires BY <2>1 DEF StateExpires, Shape, Stored
  <2>2. CASE TokenExpires
    <3>1. PICK x \in tokens : expired' = expired \cup {x.access} BY <2>2 DEF TokenExpires
    <3>2. x.access \in Nat BY <3>1 DEF Shape, Stored, Token
    <3> QED BY <2>2, <3>1, <3>2 DEF TokenExpires, Shape, Stored
  <2> QED BY <2>1, <2>2
<1>2. Stored'
  BY <1>1 DEF Shape, Stored, Files!FilesTypeOK, Files!Unreadable, files, provider, ghosts
<1>3. Registers' BY <1>1 DEF Shape, Registers, registers, At, Busy
<1> QED BY <1>2, <1>3 DEF Shape

LEMMA ShapeCrash ==
    ASSUME Shape, Crash
    PROVE  Shape'
<1>1. Stored'
  BY DEF Crash, Shape, Stored, Files!FilesTypeOK, Files!Unreadable, files, provider, clock, registers
<1>2. PICK none : none = <<>> OBVIOUS
<1>3. \A t \in Thread : ahead'[t] = none BY <1>2 DEF Crash
<1>4. ahead' \in [Thread -> Programs]
  <2>1. none \in Programs BY <1>2, ProgramTypes
  <2>2. ahead' = [t \in Thread |-> none] BY <1>2 DEF Crash
  <2> QED BY <2>1, <2>2
<1>5. \A t \in Thread : ahead'[t] \notin FlowSteps /\ ~Busy(t)'
  BY <1>2, <1>3, ProgramTypes DEF Busy
<1> QED BY <1>1, <1>4, <1>5 DEF Crash, Shape, Registers, registers, At

LEMMA ShapeKept == Shape /\ [ConnectionsNext]_connectionsVars => Shape'
<1> SUFFICES ASSUME Shape, [ConnectionsNext]_connectionsVars PROVE Shape' OBVIOUS
<1>1. CASE UNCHANGED connectionsVars
  <2>1. Stored'
    BY <1>1 DEF connectionsVars, Shape, Stored, Files!FilesTypeOK, Files!Unreadable, files, provider,
                clock, ghosts
  <2>2. Registers' BY <1>1 DEF connectionsVars, Shape, Registers, registers, At, Busy
  <2> QED BY <2>1, <2>2 DEF Shape
<1>2. CASE \E t \in Thread : Request(t)
  BY <1>2, ShapeStart, ShapeCallback, ShapeNamed DEF Request
<1>3. CASE \E t \in Thread : Step(t)
  BY <1>3, ShapePut, ShapePop, ShapeStates, ShapeExchange, ShapeGet, ShapeRefresh, ShapeTokens DEF Step
<1>4. CASE StateExpires \/ TokenExpires BY <1>4, ShapeTime
<1>5. CASE Crash BY <1>5, ShapeCrash
<1> QED BY <1>1, <1>2, <1>3, <1>4, <1>5 DEF ConnectionsNext

LEMMA ShapeInit == ConnectionsInit => Shape
<1> SUFFICES ASSUME ConnectionsInit PROVE Shape OBVIOUS
<1>1. PICK u \in User, p \in Provider, r \in {0, 1} :
        LET x == [user |-> u, provider |-> p, access |-> 1, refresh |-> r] IN
          /\ tokens = {x} /\ told = {x} /\ hand = [t \in Thread |-> x] /\ valid = {r} \ {0}
  BY DEF ConnectionsInit
<1> DEFINE x == [user |-> u, provider |-> p, access |-> 1, refresh |-> r]
<1>2. x \in Token BY DEF Token
<1>3. tokens = {x} /\ told = {x} /\ hand = [t \in Thread |-> x] /\ valid \subseteq Nat BY <1>1
<1> HIDE DEF x
<1>4. Files!FilesTypeOK([pending: SUBSET Flow]) /\ \A t \in Thread : job[t] = StatesFile
  BY DEF ConnectionsInit, Files!FilesTypeOK, Files!Unreadable
<1>5. /\ flows \in Seq([user: User, provider: Provider, given: BOOLEAN]) /\ Len(flows) = 0
  BY DEF ConnectionsInit
<1>6. Stored BY <1>2, <1>3, <1>4, <1>5, ConnectionsAssumption DEF ConnectionsInit, Stored
<1>7. PICK none : none = <<>> OBVIOUS
<1>8. ahead = [t \in Thread |-> none] BY <1>7 DEF ConnectionsInit
<1>9. none \in Programs /\ none \notin FlowSteps BY <1>7, ProgramTypes
<1>10. \A t \in Thread : ~Busy(t) /\ ahead[t] \notin FlowSteps BY <1>7, <1>8, <1>9 DEF Busy
<1>11. Registers BY <1>2, <1>3, <1>8, <1>9, <1>10, ConnectionsAssumption
  DEF ConnectionsInit, Registers, At
<1> QED BY <1>6, <1>11 DEF Shape

-----------------------------------------------------------------------------
(* Flows. *)
LEMMA Outside ==
    ASSUME NEW p \in Programs, p \notin FlowSteps
    PROVE  p \notin Claims /\ (p # <<>> => Head(p) \notin FlowHeads)
BY ProgramTypes, ProgramFacts DEF Known

(* Where the others are does not change when t goes on. *)
LEMMA Elsewhere ==
    ASSUME Shape, NEW t \in Thread, NEW p, ahead' = [ahead EXCEPT ![t] = p],
           NEW n, flow' = [flow EXCEPT ![t] = n], NEW read, states' = [states EXCEPT ![t] = read],
           NEW s \in Thread, s # t
    PROVE  /\ ahead'[s] = ahead[s] /\ flow'[s] = flow[s] /\ states'[s] = states[s]
           /\ At(s, "put")' <=> At(s, "put")
           /\ At(s, "pop")' <=> At(s, "pop")
           /\ At(s, "fill")' <=> At(s, "fill")
           /\ At(s, "rename")' <=> At(s, "rename")
           /\ InStates(s)' <=> InStates(s)
           /\ Claiming(s)' <=> Claiming(s)
           /\ Putting(s)' <=> Putting(s)
<1>1. ahead'[s] = ahead[s] /\ flow'[s] = flow[s] /\ states'[s] = states[s]
  BY DEF Shape, Registers
<1> QED BY <1>1 DEF At, Busy, InStates, Claiming, Putting

LEMMA FlowFrame ==
    ASSUME Shape, FlowInv, OrderedInv, NEW t \in Thread, NEW p \in Programs, p \notin FlowSteps,
           ahead' = [ahead EXCEPT ![t] = p], ahead[t] \notin FlowSteps,
           UNCHANGED <<files, flow, states, flows, stale, exchanged, waiting, ordered>>
    PROVE  FlowInv' /\ OrderedInv'
<1>1. ahead'[t] = p /\ ahead[t] \in Programs BY DEF Shape, Registers
<1>2. /\ ~At(t, "put") /\ ~At(t, "pop") /\ ~At(t, "fill") /\ ~At(t, "rename") /\ ~InStates(t)
      /\ ~Claiming(t) /\ ~Putting(t)
  BY <1>1, Outside DEF At, Busy, InStates, Claiming, Putting, FlowHeads
<1>3. /\ ~At(t, "put")' /\ ~At(t, "pop")' /\ ~At(t, "fill")' /\ ~At(t, "rename")' /\ ~InStates(t)'
      /\ ~Claiming(t)' /\ ~Putting(t)'
  BY <1>1, Outside DEF At, Busy, InStates, Claiming, Putting, FlowHeads
<1>4. \A s \in Thread :
           /\ At(s, "put")' <=> At(s, "put")
           /\ At(s, "pop")' <=> At(s, "pop")
           /\ At(s, "fill")' <=> At(s, "fill")
           /\ At(s, "rename")' <=> At(s, "rename")
           /\ InStates(s)' <=> InStates(s)
           /\ Claiming(s)' <=> Claiming(s)
           /\ Putting(s)' <=> Putting(s)
  BY <1>2, <1>3, Elsewhere, Untouched
<1>5. FlowInv' BY <1>4 DEF FlowInv
<1>6. Live' = Live BY DEF Live, files
<1>7. \A s \in Thread : Published(s)' = Published(s) BY DEF Published
<1>8. OrderedInv' BY <1>4, <1>6, <1>7 DEF OrderedInv, files
<1> QED BY <1>5, <1>8

LEMMA FlowKnown ==
    ASSUME Shape, NEW s \in Thread, Putting(s) \/ Claiming(s) \/ At(s, "pop") \/ InStates(s)
    PROVE  flow[s] \in 1 .. Len(flows) /\ flow[s] \in Flow
<1>1. ahead[s] \in FlowSteps
  <2>1. CASE Claiming(s) BY <2>1, ProgramTypes DEF Claiming
  <2>2. CASE ~Claiming(s)
    <3>1. Busy(s) /\ Head(ahead[s]) \in FlowHeads BY <2>2 DEF Putting, At, InStates, FlowHeads
    <3> QED BY <3>1, Aheads DEF Known
  <2> QED BY <2>1, <2>2
<1>2. flow[s] \in 1 .. Len(flows) BY <1>1 DEF Shape, Registers
<1> QED BY <1>2, LenProperties, ConnectionsAssumption DEF Shape, Stored, Flow

LEMMA FlowsBegun ==
    ASSUME Shape, FlowInv, OrderedInv, NEW t \in Thread, Start(t)
    PROVE  FlowInv' /\ OrderedInv'
<1> DEFINE p == <<"put", "open", "fill", "rename">>
<1>1. PICK u \in User, v \in Provider :
        /\ BeginRequest(t, <<"put">> \o Replacing)
        /\ flows' = Append(flows, [user |-> u, provider |-> v, given |-> FALSE])
        /\ flow' = [flow EXCEPT ![t] = Len(flows) + 1]
  BY DEF Start
<1>2. p \in Programs /\ p \notin Claims /\ p # <<>> /\ Head(p) = "put" BY ProgramTypes
<1>3. /\ ahead' = [ahead EXCEPT ![t] = p] /\ ~Busy(t)
      /\ UNCHANGED <<files, states, clock, ghosts>>
  BY <1>1, RequestPrograms DEF BeginRequest
<1> DEFINE new == [user |-> u, provider |-> v, given |-> FALSE]
<1>4. new \in [user: User, provider: Provider, given: BOOLEAN] /\ ~new.given OBVIOUS
<1> HIDE DEF p, new
<1>5. /\ flows \in Seq([user: User, provider: Provider, given: BOOLEAN]) /\ Len(flows) \in Nat
      /\ flows' = Append(flows, new)
  BY <1>1, LenProperties DEF Shape, Stored, new
<1>6. /\ Len(flows') = Len(flows) + 1 /\ flows'[Len(flows) + 1] = new
      /\ \A s \in 1 .. Len(flows) : flows'[s] = flows[s]
  BY <1>4, <1>5, AppendProperties
<1>7. ahead'[t] = p /\ flow'[t] = Len(flows) + 1 BY <1>1, <1>3 DEF Shape, Registers
<1>8. /\ At(t, "put")' /\ ~At(t, "pop")' /\ ~At(t, "fill")' /\ ~At(t, "rename")' /\ ~InStates(t)'
      /\ ~Claiming(t)' /\ Putting(t)'
  BY <1>2, <1>7 DEF At, Busy, InStates, Claiming, Putting
<1>9. /\ ~At(t, "put") /\ ~At(t, "pop") /\ ~At(t, "fill") /\ ~At(t, "rename") /\ ~InStates(t)
      /\ ~Claiming(t) /\ ~Putting(t)
  BY <1>3, ProgramTypes DEF At, Busy, InStates, Claiming, Putting
<1>10. states' = [states EXCEPT ![t] = states[t]] BY <1>3, Untouched
<1>11. \A s \in Thread : s # t =>
           /\ ahead'[s] = ahead[s] /\ flow'[s] = flow[s] /\ states'[s] = states[s]
           /\ At(s, "put")' <=> At(s, "put")
           /\ At(s, "pop")' <=> At(s, "pop")
           /\ At(s, "fill")' <=> At(s, "fill")
           /\ At(s, "rename")' <=> At(s, "rename")
           /\ InStates(s)' <=> InStates(s)
           /\ Claiming(s)' <=> Claiming(s)
           /\ Putting(s)' <=> Putting(s)
  BY <1>1, <1>3, <1>10, Elsewhere
<1>12. \A s \in Thread : Putting(s) \/ Claiming(s) \/ At(s, "pop") => flow[s] \in 1 .. Len(flows)
  BY FlowKnown
<1>13. FlowInv' BY <1>3, <1>4, <1>5, <1>6, <1>7, <1>8, <1>11, <1>12 DEF FlowInv, ghosts
<1>14. Live' = Live BY <1>3 DEF Live, files, clock
<1>15. \A s \in Thread : s # t => Published(s)' = Published(s)
  BY <1>3, <1>11 DEF Published, ghosts
<1>16. OrderedInv' BY <1>3, <1>8, <1>11, <1>14, <1>15 DEF OrderedInv, files, clock, ghosts
<1> QED BY <1>13, <1>16

LEMMA FlowsCalledBack ==
    ASSUME Shape, FlowInv, OrderedInv, NEW t \in Thread, Callback(t)
    PROVE  FlowInv' /\ OrderedInv'
<1> DEFINE p == <<"pop", "open", "fill", "rename", "exchange", "reread", "truncate", "write">>
<1>1. PICK n \in DOMAIN flows :
        /\ flows[n].given
        /\ BeginRequest(t, p)
        /\ flow' = [flow EXCEPT ![t] = n]
        /\ flows' = flows
  BY RequestPrograms DEF Callback
<1>2. p \in Programs /\ p \notin Claims /\ p # <<>> /\ Head(p) = "pop" BY ProgramTypes
<1> HIDE DEF p
<1>3. /\ ahead' = [ahead EXCEPT ![t] = p] /\ ~Busy(t)
      /\ UNCHANGED <<files, states, clock, ghosts>>
  BY <1>1 DEF BeginRequest
<1>4. ahead'[t] = p /\ flow'[t] = n BY <1>1, <1>3 DEF Shape, Registers
<1>5. /\ ~At(t, "put")' /\ ~At(t, "fill")' /\ ~At(t, "rename")' /\ ~InStates(t)'
      /\ ~Claiming(t)' /\ ~Putting(t)'
  BY <1>2, <1>4 DEF At, Busy, InStates, Claiming, Putting
<1>6. states' = [states EXCEPT ![t] = states[t]] BY <1>3, Untouched
<1>7. \A s \in Thread : s # t =>
           /\ ahead'[s] = ahead[s] /\ flow'[s] = flow[s] /\ states'[s] = states[s]
           /\ At(s, "pop")' <=> At(s, "pop")
           /\ At(s, "fill")' <=> At(s, "fill")
           /\ At(s, "rename")' <=> At(s, "rename")
           /\ InStates(s)' <=> InStates(s)
           /\ Claiming(s)' <=> Claiming(s)
           /\ Putting(s)' <=> Putting(s)
  BY <1>1, <1>3, <1>6, Elsewhere
<1>8. FlowInv' BY <1>1, <1>3, <1>4, <1>5, <1>7 DEF FlowInv, ghosts
<1>9. Live' = Live BY <1>3 DEF Live, files, clock
<1>10. \A s \in Thread : s # t => Published(s)' = Published(s)
  BY <1>3, <1>7 DEF Published, ghosts
<1>11. OrderedInv' BY <1>3, <1>5, <1>7, <1>9, <1>10 DEF OrderedInv, files, clock, ghosts
<1> QED BY <1>8, <1>11

LEMMA ReplaceHeads == \A p \in Replaces : Head(p) \in {"open", "fill", "rename"}
<1> SUFFICES ASSUME NEW p \in Replaces PROVE Head(p) \in {"open", "fill", "rename"} OBVIOUS
<1>1. CASE p = <<"open", "fill", "rename">> BY <1>1
<1>2. CASE p = <<"fill", "rename">> BY <1>2
<1>3. CASE p = <<"rename">> BY <1>3
<1> QED BY <1>1, <1>2, <1>3 DEF Replaces

LEMMA FlowsPut ==
    ASSUME Shape, FlowInv, OrderedInv, NEW t \in Thread, Put(t)
    PROVE  FlowInv' /\ OrderedInv'
<1> DEFINE p == Tail(ahead[t])
           read == Live \cup {flow[t]}
<1>1. Busy(t) /\ Head(ahead[t]) = "put" /\ Known(ahead[t]) BY Aheads DEF Put, At
<1>2. p \in Programs /\ p # <<>> /\ Head(p) = "open" BY <1>1 DEF Known, Follows
<1>3. ahead[t] \notin Claims /\ ahead[t] \in FlowSteps BY <1>1 DEF Known, FlowHeads
<1>4. p \notin Claims
  <2>1. ahead[t] \in Programs \ Claims /\ ahead[t] \notin Replaces
    BY <1>1, <1>3, ReplaceHeads DEF Shape, Registers
  <2>2. CASE ahead[t] = <<"put", "open", "fill", "rename">>
    <3>1. Tail(ahead[t]) = <<"open", "fill", "rename">> BY <2>2
    <3> QED BY <3>1, ProgramTypes
  <2>3. ahead[t] # <<"pop", "open", "fill", "rename", "exchange", "reread", "truncate", "write">>
    BY <1>1
  <2> QED BY <1>3, <2>1, <2>2, <2>3 DEF FlowSteps
<1>5. /\ ahead' = [ahead EXCEPT ![t] = p] /\ states' = [states EXCEPT ![t] = read]
      /\ UNCHANGED <<files, flow, flows, clock, exchanged, waiting>>
      /\ ordered' = (ordered /\ Alone(t, InStates))
  BY DEF Put, Continue
<1>6. At(t, "put") /\ Putting(t) BY DEF Put, Putting
<1> HIDE DEF p, read
<1>7. ahead'[t] = p /\ states'[t] = read /\ flow'[t] = flow[t]
  BY <1>5 DEF Shape, Registers
<1>8. flow[t] \in read BY DEF read
<1>9. /\ ~At(t, "pop")' /\ ~At(t, "fill")' /\ ~At(t, "rename")' /\ InStates(t)'
      /\ ~Claiming(t)' /\ Putting(t)'
  BY <1>2, <1>4, <1>7, <1>8 DEF At, Busy, InStates, Claiming, Putting
<1>10. flow' = [flow EXCEPT ![t] = flow[t]] BY <1>5, Untouched
<1>11. \A s \in Thread : s # t =>
           /\ ahead'[s] = ahead[s] /\ flow'[s] = flow[s] /\ states'[s] = states[s]
           /\ At(s, "pop")' <=> At(s, "pop")
           /\ At(s, "fill")' <=> At(s, "fill")
           /\ At(s, "rename")' <=> At(s, "rename")
           /\ InStates(s)' <=> InStates(s)
           /\ Claiming(s)' <=> Claiming(s)
           /\ Putting(s)' <=> Putting(s)
  BY <1>5, <1>10, Elsewhere
<1>12. FlowInv' BY <1>5, <1>6, <1>7, <1>9, <1>11 DEF FlowInv
<1>13. Live' = Live BY <1>5 DEF Live, files, clock
<1>14. ASSUME ordered' PROVE OrderedInv'
  <2>1. ordered /\ \A s \in Thread : s # t => ~InStates(s) BY <1>5, <1>14 DEF Alone
  <2>2. Live = waiting \ stale BY <2>1 DEF OrderedInv
  <2>3. states'[t] \ stale' = Published(t)' \ stale'
    BY <1>5, <1>7, <1>8, <2>2 DEF Published, read, clock
  <2>4. \A s \in Thread : InStates(s)' => s = t BY <1>11, <2>1
  <2>5. \A s \in Thread : At(s, "fill")' \/ At(s, "rename")' => InStates(s)' BY DEF At, InStates, Busy
  <2>6. \A s \in Thread : ~At(s, "fill")' /\ ~At(s, "rename")' BY <1>9, <2>4, <2>5
  <2> QED BY <1>5, <1>9, <1>11, <1>13, <2>1, <2>2, <2>3, <2>4, <2>6 DEF OrderedInv, files, clock
<1> QED BY <1>12, <1>14 DEF OrderedInv

LEMMA FlowsPopped ==
    ASSUME Shape, FlowInv, OrderedInv, NEW t \in Thread, Pop(t)
    PROVE  FlowInv' /\ OrderedInv'
<1> DEFINE read == Live \ {flow[t]}
<1>1. Busy(t) /\ Head(ahead[t]) = "pop" /\ Known(ahead[t]) BY Aheads DEF Pop, At
<1>2. At(t, "pop") /\ ~InStates(t) BY <1>1 DEF Pop, InStates
<1>3. PICK p \in {Tail(ahead[t]), <<"open", "fill", "rename">>} :
        /\ ahead' = [ahead EXCEPT ![t] = p]
        /\ p \in Claims => flow[t] \in Live
  <2>1. CASE flow[t] \in Live /\ flows[flow[t]].provider = hand[t].provider
    BY <2>1 DEF Pop
  <2>2. CASE ~(flow[t] \in Live /\ flows[flow[t]].provider = hand[t].provider)
    BY <2>2, ProgramTypes DEF Pop, Replacing
  <2> QED BY <2>1, <2>2
<1>4. p # <<>> /\ Head(p) = "open"
  <2>1. CASE p = Tail(ahead[t])
    <3>1. p \in Claims BY <1>1, <2>1 DEF Known
    <3> QED BY <1>1, <2>1, <3>1, ClaimFacts DEF Known, Follows
  <2>2. CASE p = <<"open", "fill", "rename">> BY <2>2
  <2> QED BY <2>1, <2>2
<1>5. /\ states' = [states EXCEPT ![t] = read]
      /\ UNCHANGED <<files, flow, flows, clock, exchanged, waiting>>
      /\ ordered' = (ordered /\ Alone(t, InStates))
  BY DEF Pop
<1> HIDE DEF read
<1>6. ahead'[t] = p /\ states'[t] = read /\ flow'[t] = flow[t]
  BY <1>3, <1>5 DEF Shape, Registers
<1>7. flow[t] \notin read BY DEF read
<1>8. /\ ~At(t, "pop")' /\ ~At(t, "fill")' /\ ~At(t, "rename")' /\ InStates(t)'
      /\ (Claiming(t)' <=> p \in Claims) /\ ~Putting(t)'
  BY <1>4, <1>6, <1>7 DEF At, Busy, InStates, Claiming, Putting
<1>9. flow' = [flow EXCEPT ![t] = flow[t]] BY <1>5, Untouched
<1>10. \A s \in Thread : s # t =>
           /\ ahead'[s] = ahead[s] /\ flow'[s] = flow[s] /\ states'[s] = states[s]
           /\ At(s, "pop")' <=> At(s, "pop")
           /\ At(s, "fill")' <=> At(s, "fill")
           /\ At(s, "rename")' <=> At(s, "rename")
           /\ InStates(s)' <=> InStates(s)
           /\ Claiming(s)' <=> Claiming(s)
           /\ Putting(s)' <=> Putting(s)
  BY <1>3, <1>5, <1>9, Elsewhere
<1>11. FlowInv' BY <1>2, <1>5, <1>6, <1>8, <1>10 DEF FlowInv
<1>12. Live' = Live BY <1>5 DEF Live, files, clock
<1>13. ASSUME ordered' PROVE OrderedInv'
  <2>1. ordered /\ \A s \in Thread : s # t => ~InStates(s) BY <1>5, <1>13 DEF Alone
  <2>2. Live = waiting \ stale BY <2>1 DEF OrderedInv
  <2>3. states'[t] \ stale' = Published(t)' \ stale'
    BY <1>5, <1>6, <1>7, <2>2 DEF Published, read, clock
  <2>4. \A s \in Thread : InStates(s)' => s = t BY <1>10, <2>1
  <2>5. \A s \in Thread : At(s, "fill")' \/ At(s, "rename")' => InStates(s)' BY DEF At, InStates, Busy
  <2>6. \A s \in Thread : ~At(s, "fill")' /\ ~At(s, "rename")' BY <1>8, <2>4, <2>5
  <2>7. Claiming(t)' => flow[t] \in waiting BY <1>3, <1>8, <2>2
  <2>8. \A s \in Thread : s # t /\ Claiming(s) => flow[s] \notin waiting BY <2>1 DEF OrderedInv
  <2>9. flow[t] \in Flow /\ (flow[t] \in waiting => exchanged[flow[t]] = 0)
    BY <1>2, <2>1, FlowKnown DEF OrderedInv
  <2>10. \A s \in Thread : Claiming(s)' => exchanged'[flow'[s]] = 0
    BY <1>5, <1>6, <1>10, <2>1, <2>7, <2>9 DEF OrderedInv
  <2>11. \A s, q \in Thread : Claiming(s)' /\ Claiming(q)' /\ flow'[s] = flow'[q] => s = q
    BY <1>6, <1>10, <2>1, <2>7, <2>8 DEF OrderedInv
  <2>12. \A s \in Thread : Claiming(s)' /\ ~InStates(s)' => flow'[s] \notin waiting'
    BY <1>5, <1>8, <1>10, <2>8
  <2>13. /\ Live' = waiting' \ stale'
         /\ \A s \in Flow : exchanged'[s] <= 1 /\ (exchanged'[s] # 0 => s \notin waiting')
    BY <1>5, <1>12, <2>1, <2>2 DEF OrderedInv, clock
  <2> QED BY <2>3, <2>4, <2>6, <2>10, <2>11, <2>12, <2>13 DEF OrderedInv
<1> QED BY <1>11, <1>13 DEF OrderedInv

(* An access to the states' files: t goes on with its program or gives up. *)
LEMMA InFiles ==
    ASSUME Shape, NEW t \in Thread, OpenTmp(t) \/ FillTmp(t) \/ Rename(t)
    PROVE  /\ Busy(t) /\ Head(ahead[t]) \in {"open", "fill", "rename"} /\ Known(ahead[t])
           /\ InStates(t) /\ UNCHANGED stateSteps /\ job[t] = StatesFile
           /\ flow' = [flow EXCEPT ![t] = flow[t]] /\ states' = [states EXCEPT ![t] = states[t]]
           /\ flow'[t] = flow[t] /\ states'[t] = states[t]
<1>1. Busy(t) /\ Head(ahead[t]) \in {"open", "fill", "rename"} BY DEF OpenTmp, FillTmp, Rename, At
<1>2. InStates(t) BY <1>1 DEF InStates
<1>3. UNCHANGED stateSteps BY DEF OpenTmp, FillTmp, Rename
<1>4. flow' = flow /\ states' = states BY <1>3 DEF stateSteps, registers
<1> QED BY <1>1, <1>2, <1>3, <1>4, Aheads, Untouched DEF Shape, Stored

LEMMA FlowsOpened ==
    ASSUME Shape, FlowInv, OrderedInv, NEW t \in Thread, OpenTmp(t) \/ FillTmp(t)
    PROVE  FlowInv' /\ OrderedInv'
<1> DEFINE p == Tail(ahead[t])
<1>1. /\ Busy(t) /\ Head(ahead[t]) \in {"open", "fill"} /\ Known(ahead[t])
      /\ InStates(t) /\ UNCHANGED stateSteps /\ job[t] = StatesFile
  BY InFiles DEF OpenTmp, FillTmp, At
<1>2. /\ p \in Programs /\ p # <<>> /\ <<Head(ahead[t]), Head(p)>> \in Follows
      /\ (p \in Claims <=> ahead[t] \in Claims)
  BY <1>1 DEF Known
<1>3. Head(p) \in {"fill", "rename"} /\ (Head(p) = "fill" <=> Head(ahead[t]) = "open")
  BY <1>1, <1>2 DEF Follows
<1>4. ahead' = [ahead EXCEPT ![t] = p] /\ UNCHANGED <<flows, waiting>>
  BY DEF OpenTmp, FillTmp, Continue
<1> HIDE DEF p
<1>5. ahead'[t] = p BY <1>4 DEF Shape, Registers
<1>6. flow'[t] = flow[t] /\ states'[t] = states[t] BY InFiles
<1>7. /\ ~At(t, "pop") /\ ~At(t, "pop")' /\ InStates(t)' /\ (Claiming(t)' <=> Claiming(t))
      /\ (Putting(t)' <=> Putting(t))
      /\ (At(t, "fill")' <=> OpenTmp(t)) /\ (At(t, "rename")' <=> FillTmp(t))
  BY <1>1, <1>2, <1>3, <1>5, <1>6 DEF At, Busy, InStates, Claiming, Putting, OpenTmp, FillTmp
<1>8. \A s \in Thread : s # t =>
           /\ ahead'[s] = ahead[s] /\ flow'[s] = flow[s] /\ states'[s] = states[s]
           /\ At(s, "pop")' <=> At(s, "pop")
           /\ At(s, "fill")' <=> At(s, "fill")
           /\ At(s, "rename")' <=> At(s, "rename")
           /\ InStates(s)' <=> InStates(s)
           /\ Claiming(s)' <=> Claiming(s)
           /\ Putting(s)' <=> Putting(s)
  BY <1>4, InFiles, Elsewhere
<1>9. /\ ordered' = ordered /\ stale' = stale /\ exchanged' = exchanged /\ flow' = flow
      /\ states' = states
  BY <1>1 DEF stateSteps, clock, registers
<1>10. FlowInv' BY <1>4, <1>7, <1>8, <1>9 DEF FlowInv
<1>11. ASSUME ordered PROVE OrderedInv'
  <2>1. \A s \in Thread : s # t => ~InStates(s) BY <1>1, <1>11 DEF OrderedInv
  <2>2. \A s \in Thread : At(s, "fill") \/ At(s, "rename") => InStates(s) BY DEF At, InStates, Busy
  <2>3. \A s \in Thread : s # t => ~At(s, "fill")' /\ ~At(s, "rename")' BY <1>8, <2>1, <2>2
  <2>4. /\ file' = file
        /\ OpenTmp(t) => fd'[t] = "tmp" /\ tmp'[StatesFile] = Empty
        /\ FillTmp(t) => tmp'[StatesFile] = [pending |-> states[t]]
    <3>1. CASE OpenTmp(t)
      BY <1>1, <1>3, <3>1 DEF OpenTmp, FillTmp, Files!OpenTmp, At, Shape, Stored, Files!FilesTypeOK
    <3>2. CASE FillTmp(t)
      <4>1. At(t, "fill") BY <3>2 DEF FillTmp
      <4>2. fd[t] = "tmp" /\ tmp[StatesFile] = Empty BY <1>11, <4>1 DEF OrderedInv
      <4>3. ~OpenTmp(t) BY <4>1 DEF OpenTmp, At
      <4> QED BY <1>1, <3>2, <4>2, <4>3
              DEF FillTmp, Files!WriteOut, Files!Overlay, Shape, Stored, Files!FilesTypeOK
    <3> QED BY <3>1, <3>2
  <2>5. Live' = Live BY <1>9, <2>4 DEF Live
  <2>6. \A s \in Thread : Published(s)' = Published(s) BY <1>4, <1>9 DEF Published
  <2>7. \A s \in Thread : InStates(s)' => states'[s] \ stale' = Published(s)' \ stale'
    BY <1>1, <1>7, <1>8, <1>9, <1>11, <2>6 DEF OrderedInv
  <2>8. /\ \A s, q \in Thread : InStates(s)' /\ InStates(q)' => s = q
        /\ Live' = waiting' \ stale'
    BY <1>4, <1>7, <1>8, <1>9, <1>11, <2>1, <2>5 DEF OrderedInv
  <2>9. /\ \A s \in Thread : At(s, "fill")' => fd'[s] = "tmp" /\ tmp'[StatesFile] = Empty
        /\ \A s \in Thread : At(s, "rename")' => tmp'[StatesFile] = [pending |-> states'[s]]
    BY <1>6, <1>7, <2>3, <2>4
  <2>10. /\ \A s \in Flow : exchanged'[s] <= 1 /\ (exchanged'[s] # 0 => s \notin waiting')
         /\ \A s \in Thread : Claiming(s)' => exchanged'[flow'[s]] = 0
         /\ \A s, q \in Thread : Claiming(s)' /\ Claiming(q)' /\ flow'[s] = flow'[q] => s = q
         /\ \A s \in Thread : Claiming(s)' /\ ~InStates(s)' => flow'[s] \notin waiting'
    BY <1>4, <1>7, <1>8, <1>9, <1>11 DEF OrderedInv
  <2> QED BY <2>7, <2>8, <2>9, <2>10 DEF OrderedInv
<1> QED BY <1>9, <1>10, <1>11 DEF OrderedInv

(* What t leaves behind when it renames the .tmp. *)
LEMMA Renamed ==
    ASSUME Shape, FlowInv, OrderedInv, ordered, NEW t \in Thread, Rename(t)
    PROVE  \/ file' = file /\ waiting' = waiting /\ EndRequest(t)
           \/ Live' = states[t] \ stale /\ waiting' = Published(t)
<1>1. At(t, "rename") /\ job[t] = StatesFile BY InFiles DEF Rename
<1>2. CASE UNCHANGED <<file, tmp, fd, windows, flows, waiting>> /\ EndRequest(t) BY <1>2
<1>3. CASE ~(UNCHANGED <<file, tmp, fd, windows, flows, waiting>> /\ EndRequest(t))
  <2>1. Files!Replace(t) /\ waiting' = Published(t) BY <1>3 DEF Rename, Published
  <2>2. tmp[StatesFile] = [pending |-> states[t]] BY <1>1 DEF OrderedInv
  <2> DEFINE text == [pending |-> states[t]]
  <2>3. file'[StatesFile] = text
    BY <1>1, <2>1, <2>2 DEF Files!Replace, Shape, Stored, Files!FilesTypeOK
  <2>4. text \in [pending: SUBSET (1 .. MaxRequests)] BY DEF Shape, Registers, Flow
  <2>5. text \notin {NoFile, Empty, Torn} BY <2>4, ConnectionsAssumption
  <2>6. text.pending = states[t] OBVIOUS
  <2> HIDE DEF text
  <2>7. stale' = stale BY InFiles DEF stateSteps, clock
  <2>8. Live' = states[t] \ stale BY <2>3, <2>5, <2>6, <2>7 DEF Live
  <2> QED BY <2>1, <2>8
<1> QED BY <1>2, <1>3

LEMMA FlowsRenamed ==
    ASSUME Shape, FlowInv, OrderedInv, NEW t \in Thread, Rename(t)
    PROVE  FlowInv' /\ OrderedInv'
<1>1. /\ Busy(t) /\ Head(ahead[t]) = "rename" /\ Known(ahead[t])
      /\ InStates(t) /\ UNCHANGED stateSteps
  BY InFiles DEF Rename, At
<1>2. PICK p : ahead' = [ahead EXCEPT ![t] = p] /\ p \in {Tail(ahead[t]), <<>>}
  BY RenameStored DEF Continue, EndRequest
<1>3. p \in Programs /\ (p # <<>> => Head(p) = "exchange") /\ (p \in Claims => ahead[t] \in Claims)
  BY <1>1, <1>2, ProgramTypes DEF Known, Follows
<1>4. ahead'[t] = p BY <1>2 DEF Shape, Registers
<1>5. flow'[t] = flow[t] /\ states'[t] = states[t] BY InFiles
<1>6. /\ ~At(t, "pop") /\ ~At(t, "pop")' /\ ~At(t, "fill")' /\ ~At(t, "rename")' /\ ~InStates(t)'
      /\ (Claiming(t)' => Claiming(t)) /\ ~Putting(t)'
  BY <1>1, <1>3, <1>4 DEF At, Busy, InStates, Claiming, Putting
<1>7. \A s \in Thread : s # t =>
           /\ ahead'[s] = ahead[s] /\ flow'[s] = flow[s] /\ states'[s] = states[s]
           /\ At(s, "pop")' <=> At(s, "pop")
           /\ At(s, "fill")' <=> At(s, "fill")
           /\ At(s, "rename")' <=> At(s, "rename")
           /\ InStates(s)' <=> InStates(s)
           /\ Claiming(s)' <=> Claiming(s)
           /\ Putting(s)' <=> Putting(s)
  BY <1>2, InFiles, Elsewhere
<1>8. /\ ordered' = ordered /\ stale' = stale /\ exchanged' = exchanged /\ flow' = flow
      /\ states' = states
  BY <1>1 DEF stateSteps, clock, registers
<1>9. /\ flow[t] \in 1 .. Len(flows) /\ Len(flows') = Len(flows)
      /\ (Putting(t) <=> flow[t] \in states[t])
  BY <1>1, FlowKnown, RenameStored DEF Putting, At
<1>10. /\ \A s \in 1 .. Len(flows) :
             flows'[s].given <=> (flows[s].given \/ (s = flow[t] /\ flows' # flows))
       /\ flows' # flows => Putting(t)
       /\ waiting' \subseteq waiting \cup {flow[t]}
       /\ flow[t] \in waiting' => flow[t] \in waiting \/ (Putting(t) /\ flows'[flow[t]].given)
  <2>1. flows \in Seq([user: User, provider: Provider, given: BOOLEAN]) BY DEF Shape, Stored
  <2>2. \A s \in 1 .. Len(flows) : flows[s] \in [user: User, provider: Provider, given: BOOLEAN]
    BY <2>1, ElementOfSeq
  <2>3. CASE flows' = flows /\ waiting' \subseteq waiting BY <2>3
  <2>4. CASE /\ flow[t] \in states[t] /\ waiting' = waiting \cup {flow[t]}
             /\ flows' = [flows EXCEPT ![flow[t]].given = TRUE]
    <3> DEFINE new == [flows[flow[t]] EXCEPT !.given = TRUE]
    <3>1. new.given = TRUE BY <1>9, <2>2
    <3>2. flows' = [flows EXCEPT ![flow[t]] = new] BY <2>4
    <3> HIDE DEF new
    <3>3. DOMAIN flows = 1 .. Len(flows) BY <2>1, LenProperties
    <3>4. \A s \in 1 .. Len(flows) : flows'[s] = IF s = flow[t] THEN new ELSE flows[s]
      BY <3>2, <3>3
    <3>5. \A s \in 1 .. Len(flows) : flows[s].given \in BOOLEAN BY <2>2
    <3>6. Putting(t) BY <1>9, <2>4
    <3>7. ~flows[flow[t]].given BY <3>6 DEF FlowInv
    <3>8. flows' # flows BY <1>9, <3>1, <3>4, <3>7
    <3> QED BY <1>9, <2>4, <3>1, <3>4, <3>5, <3>6, <3>8
  <2> QED BY <2>3, <2>4 DEF Rename
<1>11. FlowInv'
  <2>1. \A s \in Thread : Putting(s)' => s # t /\ Putting(s) /\ flow[s] \in 1 .. Len(flows)
    BY <1>6, <1>7, FlowKnown
  <2>2. \A s \in Thread : Putting(s)' => ~flows'[flow'[s]].given /\ ~Claiming(s)'
    BY <1>7, <1>10, <2>1 DEF FlowInv
  <2>3. \A s, q \in Thread : Putting(s)' /\ Putting(q)' /\ flow'[s] = flow'[q] => s = q
    BY <1>8, <2>1 DEF FlowInv
  <2>4. \A s \in Thread : Claiming(s)' \/ At(s, "pop")' =>
            flow[s] \in 1 .. Len(flows) /\ (Claiming(s) \/ At(s, "pop"))
    BY <1>6, <1>7, FlowKnown
  <2>5. \A s \in Thread : Claiming(s)' \/ At(s, "pop")' => flows'[flow'[s]].given
    BY <1>8, <1>10, <2>4 DEF FlowInv
  <2>6. \A s \in waiting' : s \in 1 .. Len(flows') /\ flows'[s].given
    BY <1>9, <1>10 DEF FlowInv
  <2>7. \A s \in Flow : exchanged'[s] # 0 => s \in 1 .. Len(flows') /\ flows'[s].given
    BY <1>8, <1>9, <1>10 DEF FlowInv
  <2> QED BY <2>2, <2>3, <2>5, <2>6, <2>7 DEF FlowInv
<1>12. ASSUME ordered PROVE OrderedInv'
  <2>1. \A s \in Thread : s # t => ~InStates(s) BY <1>1, <1>12 DEF OrderedInv
  <2>2. \A s \in Thread : At(s, "fill") \/ At(s, "rename") => InStates(s) BY DEF At, InStates, Busy
  <2>3. \A s \in Thread : ~InStates(s)' /\ ~At(s, "fill")' /\ ~At(s, "rename")'
    BY <1>6, <1>7, <2>1, <2>2
  <2>4. Live' = waiting' \ stale'
    <3>1. CASE file' = file /\ waiting' = waiting BY <1>8, <1>12, <3>1 DEF Live, OrderedInv
    <3>2. CASE Live' = states[t] \ stale /\ waiting' = Published(t)
      BY <1>1, <1>8, <1>12, <3>2 DEF OrderedInv
    <3> QED BY <1>12, <3>1, <3>2, Renamed
  <2>5. waiting' \subseteq waiting \/ (Putting(t) /\ waiting' \subseteq waiting \cup {flow[t]})
    BY <1>10
  <2>6. Putting(t) => /\ exchanged[flow[t]] = 0
                      /\ \A s \in Thread : Claiming(s) => flow[s] # flow[t]
    BY <1>1, FlowKnown DEF FlowInv
  <2>7. \A s \in Flow : exchanged'[s] <= 1 /\ (exchanged'[s] # 0 => s \notin waiting')
    BY <1>8, <1>12, <2>5, <2>6 DEF OrderedInv
  <2>8. \A s \in Thread : Claiming(s)' => Claiming(s) BY <1>6, <1>7
  <2>9. \A s \in Thread : Claiming(s)' => exchanged'[flow'[s]] = 0
    BY <1>8, <1>12, <2>8 DEF OrderedInv
  <2>10. \A s, q \in Thread : Claiming(s)' /\ Claiming(q)' /\ flow'[s] = flow'[q] => s = q
    BY <1>8, <1>12, <2>8 DEF OrderedInv
  <2>11. \A s \in Thread : Claiming(s)' => flow'[s] \notin waiting'
    <3> SUFFICES ASSUME NEW s \in Thread, Claiming(s)' PROVE flow[s] \notin waiting' BY <1>8
    <3>1. CASE s = t
      <4>1. Claiming(t) /\ p # <<>> BY <1>4, <1>6, <3>1, ProgramTypes DEF Claiming
      <4>2. ~Putting(t) BY <4>1 DEF FlowInv
      <4>3. flow[t] \notin states[t] BY <1>9, <4>2
      <4>4. ~EndRequest(t)
        BY <1>4, <4>1 DEF EndRequest, Shape, Registers
      <4>5. waiting' = waiting \ {flow[t]} BY <1>12, <4>3, <4>4, Renamed DEF Published
      <4> QED BY <3>1, <4>5
    <3>2. CASE s # t
      <4>1. Claiming(s) /\ ~InStates(s) BY <2>1, <2>8, <3>2
      <4> QED BY <1>12, <2>5, <2>6, <4>1 DEF OrderedInv
    <3> QED BY <3>1, <3>2
  <2> QED BY <2>3, <2>4, <2>7, <2>9, <2>10, <2>11 DEF OrderedInv
<1> QED BY <1>8, <1>11, <1>12 DEF OrderedInv

(* An exchange is the last that is heard of a claim. *)
LEMMA FlowsExchanged ==
    ASSUME Shape, FlowInv, OrderedInv, NEW t \in Thread, Exchange(t)
    PROVE  FlowInv' /\ OrderedInv'
<1>1. /\ Busy(t) /\ Head(ahead[t]) = "exchange" /\ Known(ahead[t])
      /\ flow[t] \in 1 .. Len(flows) /\ flow[t] \in Flow
  BY Aheads, ExchangeStored DEF Exchange, At
<1>2. PICK p : ahead' = [ahead EXCEPT ![t] = p] /\ p \in {Tail(ahead[t]), <<>>}
  BY DEF Exchange, Continue, EndRequest
<1>3. p \in Programs /\ (p # <<>> => Head(p) = "reread")
  BY <1>1, <1>2, ProgramTypes DEF Known, Follows
<1>4. p \notin Claims
  <2>1. p # <<>> => Known(p) BY <1>3, ProgramFacts
  <2> QED BY <1>3, <2>1, ProgramTypes DEF Known
<1>5. ahead'[t] = p BY <1>2 DEF Shape, Registers
<1>6. /\ Claiming(t) /\ ~InStates(t) /\ ~At(t, "pop")' /\ ~At(t, "fill")' /\ ~At(t, "rename")'
      /\ ~InStates(t)' /\ ~Claiming(t)' /\ ~Putting(t)'
  BY <1>1, <1>3, <1>4, <1>5 DEF At, Busy, InStates, Claiming, Putting, Known
<1>7. /\ UNCHANGED <<files, flow, states, flows, clock, waiting, ordered>>
      /\ exchanged' = [exchanged EXCEPT ![flow[t]] = @ + 1]
  BY DEF Exchange
<1>8. \A s \in Thread : s # t =>
           /\ ahead'[s] = ahead[s] /\ flow'[s] = flow[s] /\ states'[s] = states[s]
           /\ At(s, "pop")' <=> At(s, "pop")
           /\ At(s, "fill")' <=> At(s, "fill")
           /\ At(s, "rename")' <=> At(s, "rename")
           /\ InStates(s)' <=> InStates(s)
           /\ Claiming(s)' <=> Claiming(s)
           /\ Putting(s)' <=> Putting(s)
  <2>1. flow' = [flow EXCEPT ![t] = flow[t]] /\ states' = [states EXCEPT ![t] = states[t]]
    BY <1>7, Untouched
  <2> QED BY <1>2, <2>1, Elsewhere
<1>9. \A s \in Flow : exchanged'[s] = IF s = flow[t] THEN exchanged[s] + 1 ELSE exchanged[s]
  BY <1>1, <1>7 DEF Shape, Stored
<1>10. flows[flow[t]].given BY <1>6 DEF FlowInv
<1>11. FlowInv'
  <2>1. \A s \in Flow : exchanged'[s] # 0 => s \in 1 .. Len(flows') /\ flows'[s].given
    BY <1>1, <1>7, <1>9, <1>10 DEF FlowInv
  <2>2. \A s \in waiting' : s \in 1 .. Len(flows') /\ flows'[s].given BY <1>7 DEF FlowInv
  <2>3. \A s \in Thread : Claiming(s)' \/ At(s, "pop")' => flows'[flow'[s]].given
    BY <1>6, <1>7, <1>8 DEF FlowInv
  <2>4. /\ \A s \in Thread : Putting(s)' => ~flows'[flow'[s]].given /\ ~Claiming(s)'
        /\ \A s, q \in Thread : Putting(s)' /\ Putting(q)' /\ flow'[s] = flow'[q] => s = q
    BY <1>6, <1>7, <1>8 DEF FlowInv
  <2> QED BY <2>1, <2>2, <2>3, <2>4 DEF FlowInv
<1>12. Live' = Live BY <1>7 DEF Live, files, clock
<1>13. ASSUME ordered PROVE OrderedInv'
  <2>1. exchanged[flow[t]] = 0 /\ flow[t] \notin waiting BY <1>6, <1>13 DEF OrderedInv
  <2>2. \A s \in Flow : exchanged'[s] <= 1 /\ (exchanged'[s] # 0 => s \notin waiting')
    BY <1>7, <1>9, <1>13, <2>1 DEF OrderedInv
  <2>3. \A s \in Thread : Claiming(s)' => Claiming(s) /\ flow[s] # flow[t] /\ flow[s] \in Flow
    BY <1>6, <1>8, <1>13, FlowKnown DEF OrderedInv
  <2>4. \A s \in Thread : Claiming(s)' => exchanged'[flow'[s]] = 0
    BY <1>7, <1>9, <1>13, <2>3 DEF OrderedInv
  <2>5. /\ \A s, q \in Thread : Claiming(s)' /\ Claiming(q)' /\ flow'[s] = flow'[q] => s = q
        /\ \A s \in Thread : Claiming(s)' /\ ~InStates(s)' => flow'[s] \notin waiting'
    BY <1>6, <1>7, <1>8, <1>13 DEF OrderedInv
  <2>6. \A s \in Thread : Published(s)' = Published(s) BY <1>7 DEF Published
  <2>7. /\ \A s, q \in Thread : InStates(s)' /\ InStates(q)' => s = q
        /\ Live' = waiting' \ stale'
        /\ \A s \in Thread : InStates(s)' => states'[s] \ stale' = Published(s)' \ stale'
        /\ \A s \in Thread : At(s, "fill")' => fd'[s] = "tmp" /\ tmp'[StatesFile] = Empty
        /\ \A s \in Thread : At(s, "rename")' => tmp'[StatesFile] = [pending |-> states'[s]]
    BY <1>6, <1>7, <1>8, <1>12, <1>13, <2>6 DEF OrderedInv, files, clock
  <2> QED BY <2>2, <2>4, <2>5, <2>7 DEF OrderedInv
<1> QED BY <1>7, <1>11, <1>13 DEF OrderedInv

LEMMA FlowsExpired ==
    ASSUME Shape, FlowInv, OrderedInv, StateExpires
    PROVE  FlowInv' /\ OrderedInv'
<1>1. PICK n \in waiting \ stale : stale' = stale \cup {n} BY DEF StateExpires
<1>2. UNCHANGED <<files, ahead, registers, flows, ghosts>> BY DEF StateExpires
<1>3. \A s \in Thread :
           /\ At(s, "pop")' <=> At(s, "pop")
           /\ At(s, "fill")' <=> At(s, "fill")
           /\ At(s, "rename")' <=> At(s, "rename")
           /\ InStates(s)' <=> InStates(s)
           /\ Claiming(s)' <=> Claiming(s)
           /\ Putting(s)' <=> Putting(s)
  BY <1>2 DEF registers, At, Busy, InStates, Claiming, Putting
<1>4. FlowInv' BY <1>2, <1>3 DEF FlowInv, registers, ghosts
<1>5. Live' = Live \ {n} BY <1>1, <1>2 DEF Live, files
<1>6. \A s \in Thread : Published(s)' = Published(s) BY <1>2 DEF Published, registers, ghosts
<1>7. ASSUME ordered PROVE OrderedInv'
  <2>1. Live' = waiting' \ stale' BY <1>1, <1>2, <1>5, <1>7 DEF OrderedInv, ghosts
  <2>2. \A s \in Thread : InStates(s)' => states'[s] \ stale' = Published(s)' \ stale'
    <3> SUFFICES ASSUME NEW s \in Thread, InStates(s)'
                 PROVE  states'[s] \ stale' = Published(s)' \ stale'
      OBVIOUS
    <3>1. states[s] \ stale = Published(s) \ stale BY <1>3, <1>7 DEF OrderedInv
    <3>2. states' = states BY <1>2 DEF registers
    <3> QED BY <1>1, <1>6, <3>1, <3>2
  <2> QED BY <1>2, <1>3, <1>7, <2>1, <2>2 DEF OrderedInv, files, registers, ghosts
<1> QED BY <1>2, <1>4, <1>7 DEF OrderedInv, ghosts

LEMMA FlowsCrashed ==
    ASSUME Shape, FlowInv, OrderedInv, Crash
    PROVE  FlowInv' /\ OrderedInv'
<1>1. PICK none : none = <<>> OBVIOUS
<1>2. \A s \in Thread : ahead'[s] = none BY <1>1 DEF Crash
<1>3. \A s \in Thread : /\ ~At(s, "pop")' /\ ~At(s, "fill")' /\ ~At(s, "rename")' /\ ~InStates(s)'
                        /\ ~Claiming(s)' /\ ~Putting(s)'
  BY <1>1, <1>2, ProgramTypes DEF At, Busy, InStates, Claiming, Putting
<1>4. UNCHANGED <<file, flows, waiting, exchanged, ordered, clock>> BY DEF Crash
<1>5. FlowInv' BY <1>3, <1>4 DEF FlowInv
<1>6. Live' = Live BY <1>4 DEF Live, clock
<1>7. OrderedInv' BY <1>3, <1>4, <1>6 DEF OrderedInv, clock
<1> QED BY <1>5, <1>7

(* Accesses that have nothing to do with flows. *)
LEMMA FlowsApart ==
    ASSUME Shape, FlowInv, OrderedInv, NEW t \in Thread,
           \/ Use(t) \/ Disconnect(t) \/ Get(t) \/ Refresh(t)
           \/ Reread(t) \/ Without(t) \/ Truncate(t) \/ Write(t)
    PROVE  FlowInv' /\ OrderedInv'
<1>1. UNCHANGED <<files, flow, states, flows, stale, exchanged, waiting, ordered>>
  BY DEF Use, Disconnect, Get, Refresh, Reread, Without, Truncate, Write, BeginRequest, tokenSteps,
         clock, ghosts
<1>2. CASE Use(t) \/ Disconnect(t)
  <2>1. PICK p \in {<<"get">>, <<"without", "truncate", "write">>} : BeginRequest(t, p)
    BY <1>2 DEF Use, Disconnect
  <2>2. p \in Programs /\ p \notin FlowSteps BY ProgramTypes
  <2>3. ahead' = [ahead EXCEPT ![t] = p] /\ ahead[t] = <<>> BY <2>1 DEF BeginRequest, Busy
  <2>4. ahead[t] \notin FlowSteps BY <2>3, ProgramTypes
  <2> QED BY <1>1, <2>2, <2>3, <2>4, FlowFrame
<1>3. CASE ~(Use(t) \/ Disconnect(t))
  <2>1. /\ Busy(t)
        /\ Head(ahead[t]) \in {"get", "refresh", "reread", "without", "truncate", "write"}
    BY <1>3 DEF Get, Refresh, Reread, Without, Truncate, Write, At
  <2>2. Known(ahead[t]) BY <2>1, Aheads
  <2>3. ahead[t] \notin FlowSteps BY <2>1, <2>2 DEF Known, FlowHeads
  <2>4. PICK p \in {Tail(ahead[t]), <<>>, <<"refresh", "reread", "truncate", "write">>} :
          ahead' = [ahead EXCEPT ![t] = p]
    BY <1>3, RequestPrograms
    DEF Get, Refresh, Reread, Without, Truncate, Write, Continue, EndRequest
  <2>5. Tail(ahead[t]) \in Programs /\ Tail(ahead[t]) \notin FlowSteps
    <3> DEFINE p1 == Tail(ahead[t])
    <3>1. p1 \in Programs /\ (p1 # <<>> => <<Head(ahead[t]), Head(p1)>> \in Follows)
      BY <2>2 DEF Known
    <3>2. p1 # <<>> => Head(p1) \notin FlowHeads BY <2>1, <3>1 DEF Follows, FlowHeads
    <3> HIDE DEF p1
    <3>3. p1 # <<>> => Known(p1) BY <3>1, ProgramFacts
    <3>4. p1 \notin FlowSteps BY <3>2, <3>3, ProgramTypes DEF Known
    <3> QED BY <3>1, <3>4 DEF p1
  <2>6. p \in Programs /\ p \notin FlowSteps BY <2>5, ProgramTypes
  <2> QED BY <1>1, <2>3, <2>4, <2>6, FlowFrame
<1> QED BY <1>2, <1>3

LEMMA FlowsKept ==
    Shape /\ FlowInv /\ OrderedInv /\ [ConnectionsNext]_connectionsVars => FlowInv' /\ OrderedInv'
<1> SUFFICES ASSUME Shape, FlowInv, OrderedInv, [ConnectionsNext]_connectionsVars
             PROVE  FlowInv' /\ OrderedInv'
  OBVIOUS
<1>1. CASE UNCHANGED connectionsVars \/ TokenExpires
  <2>1. UNCHANGED <<files, ahead, registers, flows, stale, ghosts>>
    BY <1>1 DEF connectionsVars, TokenExpires, clock
  <2>2. \A s \in Thread :
           /\ At(s, "pop")' <=> At(s, "pop")
           /\ At(s, "fill")' <=> At(s, "fill")
           /\ At(s, "rename")' <=> At(s, "rename")
           /\ InStates(s)' <=> InStates(s)
           /\ Claiming(s)' <=> Claiming(s)
           /\ Putting(s)' <=> Putting(s)
    BY <2>1 DEF registers, At, Busy, InStates, Claiming, Putting
  <2>3. FlowInv' BY <2>1, <2>2 DEF FlowInv, registers, ghosts
  <2>4. Live' = Live BY <2>1 DEF Live, files
  <2>5. \A s \in Thread : Published(s)' = Published(s) BY <2>1 DEF Published, registers, ghosts
  <2>6. OrderedInv' BY <2>1, <2>2, <2>4, <2>5 DEF OrderedInv, files, registers, ghosts
  <2> QED BY <2>3, <2>6
<1>2. CASE \E t \in Thread : Request(t)
  BY <1>2, FlowsBegun, FlowsCalledBack, FlowsApart DEF Request
<1>3. CASE \E t \in Thread : Step(t)
  BY <1>3, FlowsPut, FlowsPopped, FlowsOpened, FlowsRenamed, FlowsExchanged, FlowsApart DEF Step
<1>4. CASE StateExpires BY <1>4, FlowsExpired
<1>5. CASE Crash BY <1>5, FlowsCrashed
<1> QED BY <1>1, <1>2, <1>3, <1>4, <1>5 DEF ConnectionsNext

-----------------------------------------------------------------------------
(* Connections. *)

(* Whatever copies are made, of connections there are or of one with a     *)
(* fresh refresh token, a refresh token stays with its connection.         *)
LEMMA OwnedGrows ==
    ASSUME Shape, OneOwner(Copies, issued), issued' \in Nat, issued <= issued',
           NEW x \in Token, Copies' \subseteq Copies \cup {x}, x.refresh <= issued',
           \/ x.refresh = 0
           \/ x.refresh > issued
           \/ \E y \in Copies : y.refresh = x.refresh /\ Same(x, y)
    PROVE  OneOwner(Copies, issued)'
<1>1. \A y \in Copies : y \in Token BY DEF Copies, Shape, Stored, Registers
<1>2. \A y \in Copies : y.refresh \in Nat /\ y.refresh <= issued BY <1>1 DEF OneOwner, Token
<1>3. x.refresh \in Nat /\ issued \in Nat BY DEF Token, Shape, Stored
<1>4. \A y \in Copies' : y.refresh <= issued' BY <1>2, <1>3
<1>5. \A y \in Copies : y.refresh = x.refresh /\ y.refresh # 0 => Same(x, y) /\ Same(y, x)
  <2> SUFFICES ASSUME NEW y \in Copies, y.refresh = x.refresh, y.refresh # 0
               PROVE  Same(x, y) /\ Same(y, x)
    OBVIOUS
  <2>1. PICK z \in Copies : z.refresh = x.refresh /\ Same(x, z) BY <1>2, <1>3
  <2>2. Same(y, z) BY <2>1 DEF OneOwner
  <2> QED BY <2>1, <2>2 DEF Same
<1>6. Same(x, x) BY DEF Same
<1>7. \A y, z \in Copies' : y.refresh = z.refresh /\ y.refresh # 0 => Same(y, z)
  <2> SUFFICES ASSUME NEW y \in Copies', NEW z \in Copies', y.refresh = z.refresh, y.refresh # 0
               PROVE  Same(y, z)
    OBVIOUS
  <2>1. CASE y \in Copies /\ z \in Copies BY <2>1 DEF OneOwner
  <2>2. CASE y = x \/ z = x BY <1>5, <1>6, <2>2
  <2> QED BY <2>1, <2>2
<1> QED BY <1>4, <1>7 DEF OneOwner

(* A copy of a copy. *)
LEMMA OwnedStays ==
    ASSUME Shape, OneOwner(Copies, issued), issued' \in Nat, issued <= issued', Copies' \subseteq Copies
    PROVE  OneOwner(Copies, issued)'
<1>1. \A y \in Copies : y \in Token BY DEF Copies, Shape, Stored, Registers
<1>2. \A y \in Copies : y.refresh \in Nat /\ y.refresh <= issued BY <1>1 DEF OneOwner, Token
<1>3. issued \in Nat BY DEF Shape, Stored
<1> QED BY <1>2, <1>3 DEF OneOwner

LEMMA CopiesOfHands ==
    ASSUME Shape, NEW t \in Thread, NEW x \in Token, hand' = [hand EXCEPT ![t] = x],
           UNCHANGED <<tokens, told, lines>>
    PROVE  Copies' \subseteq Copies \cup {x}
<1>1. \A s \in Thread : hand'[s] \in {hand[s], x} BY DEF Shape, Registers
<1> QED BY <1>1 DEF Copies

(* What the others are doing does not change when t goes on. *)
LEMMA OtherHands ==
    ASSUME Shape, NEW t \in Thread, NEW p, ahead' = [ahead EXCEPT ![t] = p],
           NEW x \in Token, hand' = [hand EXCEPT ![t] = x], NEW s \in Thread, s # t
    PROVE  /\ hand'[s] = hand[s]
           /\ At(s, "write")' <=> At(s, "write")
           /\ InTokens(s)' <=> InTokens(s)
           /\ Works(s)' <=> Works(s)
           /\ Changes(s)' <=> Changes(s)
<1>1. ahead'[s] = ahead[s] /\ hand'[s] = hand[s] BY DEF Shape, Registers
<1> QED BY <1>1 DEF At, Busy, InTokens, Works, Changes

(* What is kept is no more than before when t is not in the file and       *)
(* writes nothing there.                                                   *)
LEMMA KeptStays ==
    ASSUME NEW t \in Thread, tokens' = tokens, ~InTokens(t)',
           \A s \in Thread : s # t => lines'[s] = lines[s] /\ (InTokens(s)' <=> InTokens(s))
    PROVE  Kept' \subseteq Kept
BY DEF Kept

(* A request that changes no connection yet, or no more. *)
LEMMA TokensFrame ==
    ASSUME Shape, TokenInv, NEW t \in Thread, ~Works(t),
           NEW p \in Programs, ahead' = [ahead EXCEPT ![t] = p],
           p # <<>> => Head(p) \notin {"refresh", "reread", "truncate", "write"},
           NEW x \in Token, hand' = [hand EXCEPT ![t] = x], x.refresh = 0 \/ x \in Copies,
           UNCHANGED <<tokens, lines, valid, issued, told, calm, keyed>>
    PROVE  TokenInv'
<1>1. issued' \in Nat /\ issued <= issued' BY DEF Shape, Stored
<1>2. Copies' \subseteq Copies \cup {x} BY CopiesOfHands
<1>3. OneOwner(Copies, issued)'
  <2>1. CASE x \in Copies BY <1>1, <1>2, <2>1, OwnedStays DEF TokenInv
  <2>2. CASE x.refresh = 0
    <3>1. x.refresh <= issued' BY <1>1, <2>2
    <3> QED BY <1>1, <1>2, <2>2, <3>1, OwnedGrows DEF TokenInv
  <2> QED BY <2>1, <2>2
<1>4. ahead'[t] = p BY DEF Shape, Registers
<1>5. ~At(t, "write") /\ ~InTokens(t) BY DEF Works, At, InTokens
<1>6. ~At(t, "write")' /\ ~InTokens(t)' /\ ~Works(t)' /\ ~Changes(t)'
  BY <1>4 DEF Works, At, InTokens, Changes, Busy
<1>7. \A s \in Thread : s # t =>
        /\ hand'[s] = hand[s]
        /\ At(s, "write")' <=> At(s, "write")
        /\ InTokens(s)' <=> InTokens(s)
        /\ Works(s)' <=> Works(s)
        /\ Changes(s)' <=> Changes(s)
  BY OtherHands
<1>9. Kept' \subseteq Kept BY <1>6, <1>7, KeptStays
<1>8. ASSUME calm PROVE CalmInv'
  <2>1. /\ \A s, q \in Thread : InTokens(s)' /\ InTokens(q)' => s = q
        /\ \A s, q \in Thread : Changes(s)' /\ Changes(q)' /\ Same(hand'[s], hand'[q]) => s = q
        /\ \A s \in Thread : At(s, "write")' => tokens' = {}
        /\ tokens' \subseteq told'
        /\ keyed' /\ (\A s \in Thread : ~At(s, "write")') => tokens' = told'
        /\ \A s \in Thread : Works(s)' => hand'[s].refresh \in valid' \cup {0}
    BY <1>5, <1>6, <1>7, <1>8 DEF TokenInv, CalmInv
  <2>2. \A s \in Thread : InTokens(s)' => Draft(lines'[s], told', hand'[s], keyed')
    BY <1>6, <1>7, <1>8 DEF TokenInv, CalmInv
  <2>3. \A y \in Kept' : \/ y.refresh \in valid' \cup {0}
                         \/ \E s \in Thread : Works(s)' /\ Same(hand'[s], y)
    <3> SUFFICES ASSUME NEW y \in Kept', y.refresh \notin valid \cup {0}
                 PROVE  \E s \in Thread : Works(s)' /\ Same(hand'[s], y)
      OBVIOUS
    <3>1. PICK s \in Thread : Works(s) /\ Same(hand[s], y) BY <1>8, <1>9 DEF TokenInv, CalmInv
    <3>2. s # t BY <3>1
    <3> QED BY <1>7, <3>1, <3>2
  <2> QED BY <2>1, <2>2, <2>3 DEF CalmInv
<1> QED BY <1>3, <1>8 DEF TokenInv, CalmInv

LEMMA TokensApart ==
    ASSUME Shape, TokenInv, NEW t \in Thread,
           \/ Start(t) \/ Callback(t) \/ Use(t) \/ Disconnect(t)
           \/ Put(t) \/ Pop(t) \/ OpenTmp(t) \/ FillTmp(t) \/ Rename(t)
    PROVE  TokenInv'
<1>1. UNCHANGED <<tokens, lines, valid, issued, told, calm, keyed>>
  BY DEF Start, Callback, Use, Disconnect, BeginRequest, Put, Pop, OpenTmp, FillTmp, Rename,
         provider, clock, ghosts, stateSteps, registers
<1>2. PICK x \in Token : hand' = [hand EXCEPT ![t] = x] /\ (x.refresh = 0 \/ x \in Copies)
  <2>1. CASE hand' = hand
    <3>1. hand[t] \in Copies BY DEF Copies
    <3> QED BY <2>1, <3>1, Untouched
  <2>2. CASE \E u \in User, v \in Provider :
               hand' = [hand EXCEPT ![t] = [user |-> u, provider |-> v, access |-> 0, refresh |-> 0]]
    <3>1. PICK u \in User, v \in Provider :
               hand' = [hand EXCEPT ![t] = [user |-> u, provider |-> v, access |-> 0, refresh |-> 0]]
      BY <2>2
    <3> QED BY <3>1, NamedTokens
  <2>3. CASE Start(t) \/ Put(t) \/ Pop(t) \/ OpenTmp(t) \/ FillTmp(t) \/ Rename(t)
    BY <2>1, <2>3 DEF Start, Put, Pop, OpenTmp, FillTmp, Rename, stateSteps, registers
  <2>4. CASE Use(t) \/ Disconnect(t) BY <2>2, <2>4 DEF Use, Disconnect, Named
  <2>5. CASE Callback(t)
    <3>1. PICK n \in DOMAIN flows, v \in Provider :
            hand' = [hand EXCEPT ![t] =
                      [user |-> flows[n].user, provider |-> v, access |-> 0, refresh |-> 0]]
      BY <2>5 DEF Callback
    <3>2. flows[n].user \in User
      <4>1. flows \in Seq([user: User, provider: Provider, given: BOOLEAN]) BY DEF Shape, Stored
      <4>2. flows[n] \in [user: User, provider: Provider, given: BOOLEAN]
        BY <4>1, LenProperties, ElementOfSeq
      <4> QED BY <4>2
    <3> QED BY <2>2, <3>1, <3>2
  <2> QED BY <2>3, <2>4, <2>5
<1>3. PICK p \in Programs : /\ ahead' = [ahead EXCEPT ![t] = p]
                            /\ p # <<>> => Head(p) \notin {"refresh", "reread", "truncate", "write"}
  <2>1. CASE Start(t) \/ Callback(t) \/ Use(t) \/ Disconnect(t)
    <3>1. PICK p \in {<<"put", "open", "fill", "rename">>, <<"get">>, <<"without", "truncate", "write">>,
                      <<"pop", "open", "fill", "rename", "exchange", "reread", "truncate", "write">>} :
            BeginRequest(t, p)
      BY <2>1, RequestPrograms DEF Start, Callback, Use, Disconnect
    <3>2. p \in Programs BY ProgramTypes
    <3>3. Head(p) \in {"put", "get", "without", "pop"} OBVIOUS
    <3> QED BY <3>1, <3>2, <3>3 DEF BeginRequest
  <2>2. CASE Put(t) \/ Pop(t) \/ OpenTmp(t) \/ FillTmp(t) \/ Rename(t)
    <3>1. Busy(t) /\ Head(ahead[t]) \in {"put", "pop", "open", "fill", "rename"}
      BY <2>2 DEF Put, Pop, OpenTmp, FillTmp, Rename, At
    <3>2. Known(ahead[t]) BY <3>1, Aheads
    <3>3. Tail(ahead[t]) \in Programs
          /\ (Tail(ahead[t]) # <<>> => Head(Tail(ahead[t])) \in {"open", "fill", "rename", "exchange"})
      BY <3>1, <3>2 DEF Known, Follows
    <3>4. PICK p \in {Tail(ahead[t]), <<>>, <<"open", "fill", "rename">>} :
            ahead' = [ahead EXCEPT ![t] = p]
      BY <2>2 DEF Put, Pop, OpenTmp, FillTmp, Rename, Continue, EndRequest, Replacing
    <3>5. CASE p = <<"open", "fill", "rename">>
      <4>1. p \in Programs /\ Head(p) = "open" BY <3>5, ProgramTypes
      <4> QED BY <3>4, <4>1
    <3>6. CASE p # <<"open", "fill", "rename">> BY <3>3, <3>4, <3>6, ProgramTypes
    <3> QED BY <3>5, <3>6
  <2> QED BY <2>1, <2>2
<1>4. ~Works(t)
  BY DEF Start, Callback, Use, Disconnect, BeginRequest, Put, Pop, OpenTmp, FillTmp, Rename, At, Works
<1> QED BY <1>1, <1>2, <1>3, <1>4, TokensFrame

LEMMA TokensExchanged ==
    ASSUME Shape, TokenInv, NEW t \in Thread, Exchange(t)
    PROVE  TokenInv'
<1>1. /\ Busy(t) /\ Head(ahead[t]) = "exchange" /\ Known(ahead[t]) BY Aheads DEF Exchange, At
<1>2. ~Works(t) /\ ~Changes(t) /\ ~InTokens(t) /\ ~At(t, "write")
  BY <1>1 DEF Works, Changes, InTokens, At
<1>3. UNCHANGED <<tokens, lines, told, keyed>> BY DEF Exchange
<1>4. CASE EndRequest(t) /\ UNCHANGED <<hand, valid, issued, calm>>
  <2>1. PICK none : none = <<>> OBVIOUS
  <2>2. none \in Programs /\ ahead' = [ahead EXCEPT ![t] = none]
    BY <1>4, <2>1, ProgramTypes DEF EndRequest
  <2>3. hand' = [hand EXCEPT ![t] = hand[t]] /\ hand[t] \in Token /\ hand[t] \in Copies
    BY <1>4, Untouched DEF Copies
  <2> QED BY <1>2, <1>3, <1>4, <2>1, <2>2, <2>3, TokensFrame
<1>5. CASE ~(EndRequest(t) /\ UNCHANGED <<hand, valid, issued, calm>>)
  <2>1. PICK r \in {0, Fresh} :
          /\ issued' = Fresh /\ valid' = valid \cup ({r} \ {0})
          /\ hand' = [hand EXCEPT ![t].access = Fresh, ![t].refresh = r]
          /\ Hold(t, hand[t]) /\ Continue(t)
    BY <1>5 DEF Exchange
  <2> DEFINE x == [hand[t] EXCEPT !.access = Fresh, !.refresh = r]
             p == Tail(ahead[t])
  <2>2. hand' = [hand EXCEPT ![t] = x] /\ ahead' = [ahead EXCEPT ![t] = p]
    BY <2>1 DEF Shape, Registers, Continue
  <2>3. Fresh \in Nat /\ issued \in Nat /\ Fresh > issued BY DEF Fresh, Shape, Stored
  <2>4. x \in Token /\ x.refresh = r /\ Same(x, hand[t])
    <3>1. hand[t] \in Token /\ r \in Nat BY <2>3, Untouched
    <3> QED BY <2>3, <3>1 DEF Token, Same
  <2>5. p \in Programs /\ p # <<>> /\ Head(p) = "reread" BY <1>1 DEF Known, Follows
  <2> HIDE DEF x, p
  <2>6. ahead'[t] = p /\ hand'[t] = x BY <2>2 DEF Shape, Registers
  <2>7. Copies' \subseteq Copies \cup {x} BY <1>3, <2>2, <2>4, CopiesOfHands
  <2>8. OneOwner(Copies, issued)'
    <3>1. issued' \in Nat /\ issued <= issued' /\ x.refresh <= issued'
          /\ (x.refresh = 0 \/ x.refresh > issued)
      BY <2>1, <2>3, <2>4
    <3> QED BY <2>4, <2>7, <3>1, OwnedGrows DEF TokenInv
  <2>9. ~At(t, "write")' /\ ~InTokens(t)' /\ Works(t)' /\ Changes(t)'
    BY <2>5, <2>6 DEF Works, At, InTokens, Changes, Busy
  <2>10. \A s \in Thread : s # t =>
          /\ hand'[s] = hand[s]
          /\ At(s, "write")' <=> At(s, "write")
          /\ InTokens(s)' <=> InTokens(s)
          /\ Works(s)' <=> Works(s)
          /\ Changes(s)' <=> Changes(s)
    BY <2>2, <2>4, OtherHands
  <2>11. ASSUME calm' PROVE CalmInv'
    <3>1. calm /\ \A s \in Thread \ {t} : ~Holds(s, hand[t]) BY <2>1, <2>11 DEF Hold
    <3>2. \A s \in Thread : s # t /\ Changes(s) => ~Same(hand[s], x)
      <4> SUFFICES ASSUME NEW s \in Thread, s # t, Changes(s), Same(hand[s], x) PROVE FALSE
        OBVIOUS
      <4>1. Same(hand[s], hand[t]) BY <2>4 DEF Same
      <4> QED BY <3>1, <4>1 DEF Holds, Changes
    <3>3. \A s, q \in Thread : Changes(s)' /\ Changes(q)' /\ Same(hand'[s], hand'[q]) => s = q
      <4> SUFFICES ASSUME NEW s \in Thread, NEW q \in Thread, Changes(s)', Changes(q)',
                          Same(hand'[s], hand'[q])
                   PROVE  s = q
        OBVIOUS
      <4>1. CASE s # t /\ q # t BY <2>10, <3>1, <4>1 DEF TokenInv, CalmInv
      <4>2. CASE s # t /\ q = t BY <2>6, <2>10, <3>2, <4>2
      <4>3. CASE s = t /\ q # t
        <5>1. Same(hand[q], x) BY <2>6, <2>10, <4>3 DEF Same
        <5> QED BY <2>10, <3>2, <4>3, <5>1
      <4> QED BY <4>1, <4>2, <4>3
    <3>4. /\ \A s, q \in Thread : InTokens(s)' /\ InTokens(q)' => s = q
          /\ \A s \in Thread : At(s, "write")' => tokens' = {}
          /\ tokens' \subseteq told'
          /\ keyed' /\ (\A s \in Thread : ~At(s, "write")') => tokens' = told'
          /\ \A s \in Thread : InTokens(s)' => Draft(lines'[s], told', hand'[s], keyed')
      BY <1>2, <1>3, <2>9, <2>10, <3>1 DEF TokenInv, CalmInv
    <3>5. \A s \in Thread : Works(s)' => hand'[s].refresh \in valid' \cup {0}
      <4> SUFFICES ASSUME NEW s \in Thread, Works(s)' PROVE hand'[s].refresh \in valid' \cup {0}
        OBVIOUS
      <4>1. CASE s = t BY <2>1, <2>4, <2>6, <4>1
      <4>2. CASE s # t
        <5>1. hand[s].refresh \in valid \cup {0} BY <2>10, <3>1, <4>2 DEF TokenInv, CalmInv
        <5>2. hand'[s] = hand[s] BY <2>10, <4>2
        <5>3. valid \subseteq valid' BY <2>1
        <5> QED BY <5>1, <5>2, <5>3
      <4> QED BY <4>1, <4>2
    <3>6. \A y \in Kept' : \/ y.refresh \in valid' \cup {0}
                           \/ \E s \in Thread : Works(s)' /\ Same(hand'[s], y)
      <4> SUFFICES ASSUME NEW y \in Kept', y.refresh \notin valid \cup {0}
                   PROVE  \E s \in Thread : Works(s)' /\ Same(hand'[s], y)
        BY <1>3, <2>1
      <4>3. y \in Kept BY <1>3, <2>9, <2>10, KeptStays
      <4>1. PICK s \in Thread : Works(s) /\ Same(hand[s], y) BY <3>1, <4>3 DEF TokenInv, CalmInv
      <4>2. s # t BY <1>2, <4>1
      <4> QED BY <2>10, <4>1, <4>2
    <3> QED BY <3>3, <3>4, <3>5, <3>6 DEF CalmInv
  <2> QED BY <2>8, <2>11 DEF TokenInv, CalmInv
<1> QED BY <1>4, <1>5

LEMMA TokensGot ==
    ASSUME Shape, TokenInv, NEW t \in Thread, Get(t)
    PROVE  TokenInv'
<1>1. Busy(t) /\ Head(ahead[t]) = "get" BY DEF Get, At
<1>2. ~Works(t) /\ ~Changes(t) /\ ~InTokens(t) /\ ~At(t, "write")
  BY <1>1 DEF Works, Changes, InTokens, At
<1>3. UNCHANGED <<tokens, lines, told, keyed, valid, issued>> BY DEF Get, provider
<1>4. PICK x \in Token : hand' = [hand EXCEPT ![t] = x] /\ x \in Copies
  <2>1. hand[t] \in Copies BY DEF Copies
  <2>2. \A x \in tokens : x \in Copies /\ x \in Token BY DEF Copies, Shape, Stored
  <2> QED BY <2>1, <2>2, Untouched DEF Get
<1>5. CASE EndRequest(t) /\ UNCHANGED calm
  <2>1. PICK none : none = <<>> OBVIOUS
  <2>2. none \in Programs /\ ahead' = [ahead EXCEPT ![t] = none]
    BY <1>5, <2>1, ProgramTypes DEF EndRequest
  <2> QED BY <1>2, <1>3, <1>4, <1>5, <2>1, <2>2, TokensFrame
<1>6. CASE ~(EndRequest(t) /\ UNCHANGED calm)
  <2> DEFINE p == <<"refresh", "reread", "truncate", "write">>
  <2>1. /\ ahead' = [ahead EXCEPT ![t] = p]
        /\ \E z \in tokens : Hold(t, z) /\ hand' = [hand EXCEPT ![t] = z]
    BY <1>6, RequestPrograms DEF Get
  <2>2. p # <<>> /\ Head(p) = "refresh" OBVIOUS
  <2> HIDE DEF p
  <2>3. ahead'[t] = p /\ hand'[t] = x /\ Hold(t, x) BY <1>4, <2>1 DEF Shape, Registers
  <2>4. OneOwner(Copies, issued)'
    <3>1. issued' \in Nat /\ issued <= issued' BY <1>3 DEF Shape, Stored
    <3>2. Copies' \subseteq Copies \cup {x} BY <1>3, <1>4, CopiesOfHands
    <3> QED BY <1>4, <3>1, <3>2, OwnedStays DEF TokenInv
  <2>5. ~At(t, "write")' /\ ~InTokens(t)' /\ ~Works(t)' /\ Changes(t)'
    BY <2>2, <2>3 DEF Works, At, InTokens, Changes, Busy
  <2>6. \A s \in Thread : s # t =>
          /\ hand'[s] = hand[s]
          /\ At(s, "write")' <=> At(s, "write")
          /\ InTokens(s)' <=> InTokens(s)
          /\ Works(s)' <=> Works(s)
          /\ Changes(s)' <=> Changes(s)
    BY <1>4, <2>1, OtherHands
  <2>7. ASSUME calm' PROVE CalmInv'
    <3>1. calm /\ \A s \in Thread \ {t} : ~Holds(s, x) BY <2>3, <2>7 DEF Hold
    <3>2. \A s \in Thread : s # t /\ Changes(s) => ~Same(hand[s], x) BY <3>1 DEF Holds, Changes
    <3>3. \A s, q \in Thread : Changes(s)' /\ Changes(q)' /\ Same(hand'[s], hand'[q]) => s = q
      <4> SUFFICES ASSUME NEW s \in Thread, NEW q \in Thread, Changes(s)', Changes(q)',
                          Same(hand'[s], hand'[q])
                   PROVE  s = q
        OBVIOUS
      <4>1. CASE s # t /\ q # t BY <2>6, <3>1, <4>1 DEF TokenInv, CalmInv
      <4>2. CASE s # t /\ q = t BY <2>3, <2>6, <3>2, <4>2
      <4>3. CASE s = t /\ q # t
        <5>1. Same(hand[q], x) BY <2>3, <2>6, <4>3 DEF Same
        <5> QED BY <2>6, <3>2, <4>3, <5>1
      <4> QED BY <4>1, <4>2, <4>3
    <3>4. /\ \A s, q \in Thread : InTokens(s)' /\ InTokens(q)' => s = q
          /\ \A s \in Thread : At(s, "write")' => tokens' = {}
          /\ tokens' \subseteq told'
          /\ keyed' /\ (\A s \in Thread : ~At(s, "write")') => tokens' = told'
          /\ \A s \in Thread : InTokens(s)' => Draft(lines'[s], told', hand'[s], keyed')
          /\ \A s \in Thread : Works(s)' => hand'[s].refresh \in valid' \cup {0}
      BY <1>2, <1>3, <2>5, <2>6, <3>1 DEF TokenInv, CalmInv
    <3>5. \A y \in Kept' : \/ y.refresh \in valid' \cup {0}
                           \/ \E s \in Thread : Works(s)' /\ Same(hand'[s], y)
      <4> SUFFICES ASSUME NEW y \in Kept', y.refresh \notin valid \cup {0}
                   PROVE  \E s \in Thread : Works(s)' /\ Same(hand'[s], y)
        BY <1>3
      <4>3. y \in Kept BY <1>3, <2>5, <2>6, KeptStays
      <4>1. PICK s \in Thread : Works(s) /\ Same(hand[s], y) BY <3>1, <4>3 DEF TokenInv, CalmInv
      <4>2. s # t BY <1>2, <4>1
      <4> QED BY <2>6, <4>1, <4>2
    <3> QED BY <3>3, <3>4, <3>5 DEF CalmInv
  <2> QED BY <2>4, <2>7 DEF TokenInv, CalmInv
<1> QED BY <1>5, <1>6

LEMMA TokensRefreshed ==
    ASSUME Shape, TokenInv, NEW t \in Thread, Refresh(t)
    PROVE  TokenInv'
<1>1. Busy(t) /\ Head(ahead[t]) = "refresh" /\ Known(ahead[t]) BY Aheads DEF Refresh, At
<1>2. ~Works(t) /\ Changes(t) /\ ~InTokens(t) /\ ~At(t, "write")
  BY <1>1 DEF Works, Changes, InTokens, At
<1>3. UNCHANGED <<tokens, lines, told, keyed>> BY DEF Refresh
<1>4. hand[t] \in Token /\ hand[t] \in Copies BY Untouched DEF Copies
<1>5. CASE EndRequest(t) /\ UNCHANGED <<hand, provider, calm>>
  <2>1. PICK none : none = <<>> OBVIOUS
  <2>2. none \in Programs /\ ahead' = [ahead EXCEPT ![t] = none]
    BY <1>5, <2>1, ProgramTypes DEF EndRequest
  <2>3. hand' = [hand EXCEPT ![t] = hand[t]] BY <1>5, Untouched
  <2>4. UNCHANGED <<valid, issued, calm>> BY <1>5 DEF provider
  <2> QED BY <1>2, <1>3, <1>4, <2>1, <2>2, <2>3, <2>4, TokensFrame
<1>6. CASE ~(EndRequest(t) /\ UNCHANGED <<hand, provider, calm>>)
  <2> DEFINE old == hand[t].refresh
  <2>1. PICK r \in {Fresh, old} :
          /\ issued' = Fresh
          /\ valid' = (valid \ {old}) \cup {r}
          /\ \/ /\ hand' = [hand EXCEPT ![t].access = Fresh, ![t].refresh = r]
                /\ Continue(t)
             \/ calm' = FALSE /\ UNCHANGED hand
    BY <1>6 DEF Refresh
  <2>2. Fresh \in Nat /\ issued \in Nat /\ Fresh > issued /\ old \in Nat /\ old <= issued
    BY <1>4 DEF Fresh, Shape, Stored, Token, TokenInv, OneOwner
  <2>3. issued' \in Nat /\ issued <= issued' BY <2>1, <2>2
  <2>4. CASE calm' = FALSE /\ UNCHANGED hand
    <3>1. Copies' = Copies BY <1>3, <2>4 DEF Copies
    <3> QED BY <2>3, <2>4, <3>1, OwnedStays DEF TokenInv, CalmInv
  <2>5. CASE hand' = [hand EXCEPT ![t].access = Fresh, ![t].refresh = r] /\ Continue(t)
    <3> DEFINE x == [hand[t] EXCEPT !.access = Fresh, !.refresh = r]
               p == Tail(ahead[t])
    <3>1. hand' = [hand EXCEPT ![t] = x] /\ ahead' = [ahead EXCEPT ![t] = p]
      BY <2>5 DEF Shape, Registers, Continue
    <3>2. x \in Token /\ x.refresh = r /\ Same(x, hand[t])
      <4>1. r \in Nat BY <2>2
      <4> QED BY <1>4, <2>2, <4>1 DEF Token, Same
    <3>3. p \in Programs /\ p # <<>> /\ Head(p) = "reread" BY <1>1 DEF Known, Follows
    <3> HIDE DEF x, p
    <3>4. ahead'[t] = p /\ hand'[t] = x BY <3>1 DEF Shape, Registers
    <3>5. Copies' \subseteq Copies \cup {x} BY <1>3, <3>1, <3>2, CopiesOfHands
    <3>6. OneOwner(Copies, issued)'
      <4>1. x.refresh <= issued' BY <2>1, <2>2, <3>2
      <4>2. x.refresh > issued \/ hand[t].refresh = x.refresh BY <2>1, <2>2, <3>2
      <4> QED BY <1>4, <2>3, <3>2, <3>5, <4>1, <4>2, OwnedGrows DEF TokenInv
    <3>7. ~At(t, "write")' /\ ~InTokens(t)' /\ Works(t)' /\ Changes(t)'
      BY <3>3, <3>4 DEF Works, At, InTokens, Changes, Busy
    <3>8. \A s \in Thread : s # t =>
            /\ hand'[s] = hand[s]
            /\ At(s, "write")' <=> At(s, "write")
            /\ InTokens(s)' <=> InTokens(s)
            /\ Works(s)' <=> Works(s)
            /\ Changes(s)' <=> Changes(s)
      BY <3>1, <3>2, OtherHands
    <3>9. ASSUME calm PROVE CalmInv'
      <4>1. \A s, q \in Thread : Changes(s)' /\ Changes(q)' /\ Same(hand'[s], hand'[q]) => s = q
        <5> SUFFICES ASSUME NEW s \in Thread, NEW q \in Thread, Changes(s)', Changes(q)',
                            Same(hand'[s], hand'[q])
                     PROVE  s = q
          OBVIOUS
        <5>1. Changes(s) /\ Changes(q) BY <1>2, <3>8
        <5>2. Same(hand[s], hand[q]) BY <3>2, <3>4, <3>8 DEF Same
        <5> QED BY <3>9, <5>1, <5>2 DEF TokenInv, CalmInv
      <4>2. /\ \A s, q \in Thread : InTokens(s)' /\ InTokens(q)' => s = q
            /\ \A s \in Thread : At(s, "write")' => tokens' = {}
            /\ tokens' \subseteq told'
            /\ keyed' /\ (\A s \in Thread : ~At(s, "write")') => tokens' = told'
            /\ \A s \in Thread : InTokens(s)' => Draft(lines'[s], told', hand'[s], keyed')
        BY <1>2, <1>3, <3>7, <3>8, <3>9 DEF TokenInv, CalmInv
      <4>3. \A y \in Copies : y.refresh = old /\ old # 0 => Same(hand[t], y)
        BY <1>4 DEF TokenInv, OneOwner
      <4>4. \A s \in Thread : Works(s)' => hand'[s].refresh \in valid' \cup {0}
        <5> SUFFICES ASSUME NEW s \in Thread, Works(s)' PROVE hand'[s].refresh \in valid' \cup {0}
          OBVIOUS
        <5>1. CASE s = t BY <2>1, <3>2, <3>4, <5>1
        <5>2. CASE s # t
          <6>1. Works(s) /\ hand'[s] = hand[s] /\ Changes(s) BY <3>8, <5>2 DEF Works, Changes
          <6>2. hand[s].refresh \in valid \cup {0} BY <3>9, <6>1 DEF TokenInv, CalmInv
          <6>3. hand[s].refresh = old => old = 0
            <7>1. hand[s] \in Copies BY DEF Copies
            <7>2. ~Same(hand[t], hand[s]) BY <1>2, <3>9, <5>2, <6>1 DEF TokenInv, CalmInv
            <7> QED BY <4>3, <7>1, <7>2
          <6> QED BY <2>1, <6>1, <6>2, <6>3
        <5> QED BY <5>1, <5>2
      <4>5. \A y \in Kept' : \/ y.refresh \in valid' \cup {0}
                             \/ \E s \in Thread : Works(s)' /\ Same(hand'[s], y)
        <5> SUFFICES ASSUME NEW y \in Kept', y.refresh \notin valid' \cup {0}
                     PROVE  \E s \in Thread : Works(s)' /\ Same(hand'[s], y)
          BY <1>3
        <5>3. y \in Kept BY <1>3, <3>7, <3>8, KeptStays
        <5>1. CASE y.refresh \in valid \cup {0}
          <6>1. y.refresh = old /\ old # 0 BY <2>1, <5>1
          <6>2. y \in Copies BY <5>3 DEF Copies, Kept
          <6>3. Same(x, y) BY <3>2, <4>3, <6>1, <6>2 DEF Same
          <6> QED BY <3>4, <3>7, <6>3
        <5>2. CASE y.refresh \notin valid \cup {0}
          <6>1. PICK s \in Thread : Works(s) /\ Same(hand[s], y) BY <3>9, <5>2, <5>3 DEF TokenInv, CalmInv
          <6>2. s # t BY <1>2, <6>1
          <6> QED BY <3>8, <6>1, <6>2
        <5> QED BY <5>1, <5>2
      <4> QED BY <4>1, <4>2, <4>4, <4>5 DEF CalmInv
    <3>10. calm' => calm BY <2>5, <1>6 DEF Refresh, Shape, Stored
    <3> QED BY <3>6, <3>9, <3>10 DEF TokenInv, CalmInv
  <2> QED BY <2>1, <2>4, <2>5
<1> QED BY <1>5, <1>6

(* t has read what it will write. *)
LEMMA TokensReread ==
    ASSUME Shape, TokenInv, NEW t \in Thread, Reread(t) \/ Without(t)
    PROVE  TokenInv'
<1>1. Busy(t) /\ Head(ahead[t]) \in {"reread", "without"} /\ Known(ahead[t])
  BY Aheads DEF Reread, Without, At
<1>2. ~InTokens(t) /\ ~At(t, "write") BY <1>1 DEF InTokens, At
<1>3. UNCHANGED <<tokens, hand, told, valid, issued>> BY DEF Reread, Without, tokenSteps, provider
<1>4. hand' = [hand EXCEPT ![t] = hand[t]] /\ hand[t] \in Token /\ hand[t] \in Copies
  BY <1>3, Untouched DEF Copies
<1> DEFINE Whole(text) == text \in {Others(tokens, hand[t]), Others(tokens, hand[t]) \cup {hand[t]}}
<1>5. PICK text \in SUBSET (Others(tokens, hand[t]) \cup {hand[t]}) :
        /\ lines' = [lines EXCEPT ![t] = text]
        /\ \/ keyed' => keyed /\ Whole(text)
           \/ Without(t) /\ EndRequest(t) /\ UNCHANGED <<calm, keyed>>
  <2>1. \A legible \in SUBSET tokens : Others(legible, hand[t]) \subseteq Others(tokens, hand[t])
    BY DEF Others
  <2>2. CASE Reread(t) BY <2>1, <2>2 DEF Reread
  <2>3. CASE Without(t) BY <2>1, <2>3 DEF Without
  <2> QED BY <2>2, <2>3
<1> HIDE DEF Whole
<1>6. OneOwner(Copies, issued)'
  <2>1. \A s \in Thread : lines'[s] \in {lines[s], text} BY <1>5 DEF Shape, Registers
  <2>2. text \subseteq Copies BY <1>4, <1>5 DEF Copies, Others
  <2>3. Copies' \subseteq Copies BY <1>3, <2>1, <2>2 DEF Copies
  <2> QED BY <1>3, <2>3, OwnedStays DEF TokenInv, Shape, Stored
<1>7. PICK p : ahead' = [ahead EXCEPT ![t] = p] /\ p \in {Tail(ahead[t]), <<>>}
  BY DEF Reread, Without, Continue, EndRequest
<1>8. p \in Programs /\ (p # <<>> => Head(p) = "truncate")
  BY <1>1, <1>7, ProgramTypes DEF Known, Follows
<1>9. ahead'[t] = p BY <1>7 DEF Shape, Registers
<1>10. ~At(t, "write")' BY <1>8, <1>9 DEF At, Busy
<1>11. /\ \A s \in Thread : hand'[s] = hand[s]
       /\ \A s \in Thread : s # t =>
            /\ lines'[s] = lines[s]
            /\ At(s, "write")' <=> At(s, "write")
            /\ InTokens(s)' <=> InTokens(s)
            /\ Works(s)' <=> Works(s)
            /\ Changes(s)' <=> Changes(s)
  BY <1>3, <1>4, <1>5, <1>7, OtherHands DEF Shape, Registers
<1>12. ASSUME calm', Busy(t)' PROVE CalmInv'
  <2>1. calm /\ \A s \in Thread : s # t => ~InTokens(s)
    <3>1. calm' = (calm /\ Alone(t, InTokens))
          \/ calm' = (calm /\ Alone(t, InTokens) /\ \A s \in Thread \ {t} : ~Holds(s, hand[t]))
      BY <1>9, <1>12 DEF Reread, Without, EndRequest, Busy, Shape, Registers
    <3> QED BY <1>12, <3>1 DEF Alone
  <2>2. \A s \in Thread : At(s, "write") => InTokens(s) BY DEF At, InTokens
  <2>3. tokens \subseteq told /\ (keyed => tokens = told) BY <1>2, <2>1, <2>2 DEF TokenInv, CalmInv
  <2>14. keyed' => keyed /\ Whole(text) BY <1>5, <1>9, <1>12 DEF EndRequest, Busy, Shape, Registers
  <2>4. \A s \in Thread : ~At(s, "write")' BY <1>10, <1>11, <2>1, <2>2
  <2>5. lines'[t] = text BY <1>5 DEF Shape, Registers
  <2>6. \A s \in Thread : InTokens(s)' => s = t BY <1>11, <2>1
  <2>7. Works(t)' /\ Changes(t)' BY <1>8, <1>9, <1>12 DEF Works, Changes, Busy
  <2>8. \A s \in Thread : s # t /\ Changes(s) => ~Same(hand[s], hand[t])
    <3>1. CASE Reread(t)
      <4>1. Changes(t) BY <3>1 DEF Reread, At, Changes
      <4> QED BY <2>1, <4>1 DEF TokenInv, CalmInv
    <3>2. CASE Without(t)
      <4>1. calm' = (calm /\ Alone(t, InTokens) /\ \A s \in Thread \ {t} : ~Holds(s, hand[t]))
        BY <1>9, <1>12, <3>2 DEF Without, EndRequest, Busy, Shape, Registers
      <4> QED BY <1>12, <4>1 DEF Holds, Changes
    <3> QED BY <3>1, <3>2
  <2>9. \A s, q \in Thread : Changes(s)' /\ Changes(q)' /\ Same(hand'[s], hand'[q]) => s = q
    <3> SUFFICES ASSUME NEW s \in Thread, NEW q \in Thread, Changes(s)', Changes(q)',
                        Same(hand'[s], hand'[q])
                 PROVE  s = q
      OBVIOUS
    <3>1. Same(hand[s], hand[q]) /\ Same(hand[q], hand[s]) BY <1>11 DEF Same
    <3>2. CASE s # t /\ q # t BY <1>11, <2>1, <3>1, <3>2 DEF TokenInv, CalmInv
    <3>3. CASE s = t \/ q = t BY <1>11, <2>8, <3>1, <3>3
    <3> QED BY <3>2, <3>3
  <2>10. hand[t].refresh \in valid \cup {0}
    <3>1. CASE Reread(t)
      <4>1. Works(t) BY <3>1 DEF Reread, At, Works
      <4> QED BY <2>1, <4>1 DEF TokenInv, CalmInv
    <3>2. CASE Without(t) BY <3>2 DEF Without, Shape, Registers
    <3> QED BY <3>1, <3>2
  <2>11. \A s \in Thread : Works(s)' => hand'[s].refresh \in valid' \cup {0}
    BY <1>3, <1>11, <2>1, <2>10 DEF TokenInv, CalmInv
  <2>12. \A y \in Kept' : \/ y.refresh \in valid' \cup {0}
                          \/ \E s \in Thread : Works(s)' /\ Same(hand'[s], y)
    <3> SUFFICES ASSUME NEW y \in Kept', y.refresh \notin valid \cup {0}
                 PROVE  \E s \in Thread : Works(s)' /\ Same(hand'[s], y)
      BY <1>3
    <3>1. y \in tokens \/ y = hand[t] BY <1>3, <1>5, <2>5, <2>6 DEF Kept, Others
    <3>2. CASE y = hand[t] BY <1>11, <2>7, <3>2 DEF Same
    <3>3. CASE y \in tokens
      <4>1. PICK s \in Thread : Works(s) /\ Same(hand[s], y) BY <2>1, <3>3 DEF TokenInv, CalmInv, Kept
      <4> QED BY <1>11, <2>7, <4>1
    <3> QED BY <3>1, <3>2, <3>3
  <2>13. \A s \in Thread : InTokens(s)' => Draft(lines'[s], told', hand'[s], keyed')
    <3>1. Draft(text, told, hand[t], keyed')
      BY <1>5, <2>3, <2>14 DEF Draft, Others, Whole
    <3> QED BY <1>3, <1>11, <2>5, <2>6, <3>1
  <2>15. tokens' \subseteq told' /\ (keyed' => tokens' = told') BY <1>3, <2>3, <2>14
  <2> QED BY <2>4, <2>6, <2>9, <2>11, <2>12, <2>13, <2>15 DEF CalmInv
<1>13. ASSUME calm', ~Busy(t)' PROVE CalmInv'
  <2>1. p = <<>> BY <1>9, <1>13 DEF Busy
  <2>2. Head(ahead[t]) = "without" /\ calm' = calm /\ keyed' = keyed
    <3>1. ~Reread(t)
      <4> SUFFICES ASSUME Reread(t) PROVE FALSE OBVIOUS
      <4>1. Head(ahead[t]) = "reread" /\ Tail(ahead[t]) = <<>>
        BY <1>7, <1>9, <2>1 DEF Reread, At, Continue, Shape, Registers
      <4> QED BY <1>1, <4>1 DEF Known
    <3>2. Without(t) /\ Head(ahead[t]) = "without" BY <3>1 DEF Without, At
    <3>3. ~Continue(t)
      <4> SUFFICES ASSUME Continue(t) PROVE FALSE OBVIOUS
      <4>1. Tail(ahead[t]) = <<>> BY <1>9, <2>1 DEF Continue, Shape, Registers
      <4> QED BY <1>1, <3>2, <4>1 DEF Known
    <3> QED BY <3>2, <3>3 DEF Without
  <2>3. calm /\ CalmInv BY <1>13, <2>2 DEF TokenInv
  <2>7. Kept' \subseteq Kept BY <1>3, <1>11, <1>13, KeptStays DEF InTokens
  <2>4. ~Works(t) /\ ~Works(t)' /\ ~Changes(t)' /\ ~InTokens(t)'
    BY <1>13, <2>2 DEF Works, Changes, InTokens
  <2>5. /\ \A s, q \in Thread : InTokens(s)' /\ InTokens(q)' => s = q
        /\ \A s, q \in Thread : Changes(s)' /\ Changes(q)' /\ Same(hand'[s], hand'[q]) => s = q
        /\ \A s \in Thread : At(s, "write")' => tokens' = {}
        /\ tokens' \subseteq told'
        /\ keyed' /\ (\A s \in Thread : ~At(s, "write")') => tokens' = told'
        /\ \A s \in Thread : Works(s)' => hand'[s].refresh \in valid' \cup {0}
        /\ \A s \in Thread : InTokens(s)' => Draft(lines'[s], told', hand'[s], keyed')
    BY <1>2, <1>3, <1>10, <1>11, <2>2, <2>3, <2>4 DEF CalmInv
  <2>6. \A y \in Kept' : \/ y.refresh \in valid' \cup {0}
                         \/ \E s \in Thread : Works(s)' /\ Same(hand'[s], y)
    <3> SUFFICES ASSUME NEW y \in Kept', y.refresh \notin valid \cup {0}
                 PROVE  \E s \in Thread : Works(s)' /\ Same(hand'[s], y)
      BY <1>3
    <3>1. PICK s \in Thread : Works(s) /\ Same(hand[s], y) BY <2>3, <2>7 DEF CalmInv
    <3>2. s # t BY <2>4, <3>1
    <3> QED BY <1>11, <3>1, <3>2
  <2> QED BY <2>5, <2>6 DEF CalmInv
<1> QED BY <1>6, <1>12, <1>13 DEF TokenInv, CalmInv

LEMMA TokensTruncated ==
    ASSUME Shape, TokenInv, NEW t \in Thread, Truncate(t)
    PROVE  TokenInv'
<1>1. Busy(t) /\ Head(ahead[t]) = "truncate" /\ Known(ahead[t]) BY Aheads DEF Truncate, At
<1>2. InTokens(t) /\ Works(t) /\ Changes(t) /\ ~At(t, "write")
  BY <1>1 DEF Works, Changes, InTokens, At
<1>3. UNCHANGED <<hand, lines, told, valid, issued, calm, keyed>> /\ tokens' = {}
  BY DEF Truncate, tokenSteps, provider
<1> DEFINE p == Tail(ahead[t])
<1>4. p # <<>> /\ Head(p) = "write" BY <1>1 DEF Known, Follows
<1>5. ahead' = [ahead EXCEPT ![t] = p] BY DEF Truncate, Continue
<1> HIDE DEF p
<1>6. ahead'[t] = p BY <1>5 DEF Shape, Registers
<1>7. At(t, "write")' /\ InTokens(t)' /\ Works(t)' /\ Changes(t)'
  BY <1>4, <1>6 DEF At, InTokens, Works, Changes, Busy
<1>8. hand' = [hand EXCEPT ![t] = hand[t]] /\ hand[t] \in Token BY <1>3, Untouched
<1>9. \A s \in Thread : s # t =>
        /\ At(s, "write")' <=> At(s, "write")
        /\ InTokens(s)' <=> InTokens(s)
        /\ Works(s)' <=> Works(s)
        /\ Changes(s)' <=> Changes(s)
  BY <1>5, <1>8, OtherHands
<1>10. OneOwner(Copies, issued)'
  <2>1. Copies' \subseteq Copies BY <1>3 DEF Copies
  <2> QED BY <1>3, <2>1, OwnedStays DEF TokenInv, Shape, Stored
<1>11. ASSUME calm PROVE CalmInv'
  <2>1. /\ \A s, q \in Thread : InTokens(s)' /\ InTokens(q)' => s = q
        /\ \A s, q \in Thread : Changes(s)' /\ Changes(q)' /\ Same(hand'[s], hand'[q]) => s = q
        /\ \A s \in Thread : At(s, "write")' => tokens' = {}
        /\ ~(\A s \in Thread : ~At(s, "write")')
        /\ \A s \in Thread : Works(s)' => hand'[s].refresh \in valid' \cup {0}
        /\ \A s \in Thread : InTokens(s)' => Draft(lines'[s], told', hand'[s], keyed')
    BY <1>2, <1>3, <1>7, <1>9, <1>11 DEF TokenInv, CalmInv
  <2>2. \A y \in Kept' : \/ y.refresh \in valid' \cup {0}
                         \/ \E s \in Thread : Works(s)' /\ Same(hand'[s], y)
    <3>1. Kept' \subseteq Kept BY <1>2, <1>3, <1>9 DEF Kept
    <3> QED BY <1>2, <1>3, <1>7, <1>9, <1>11, <3>1 DEF TokenInv, CalmInv
  <2> QED BY <2>1, <2>2 DEF CalmInv
<1> QED BY <1>3, <1>10, <1>11 DEF TokenInv, CalmInv

LEMMA TokensWritten ==
    ASSUME Shape, TokenInv, NEW t \in Thread, Write(t)
    PROVE  TokenInv'
<1>1. Busy(t) /\ Head(ahead[t]) = "write" /\ Known(ahead[t]) /\ At(t, "write")
  BY Aheads DEF Write, At
<1>2. InTokens(t) /\ Works(t) /\ Changes(t) BY <1>1 DEF Works, Changes, InTokens
<1>3. UNCHANGED <<hand, lines, valid, issued, calm>> BY DEF Write, tokenSteps, provider
<1>4. PICK left \in SUBSET tokens :
        \/ /\ tokens' = lines[t] \cup left
           /\ told' = Others(told, hand[t]) \cup {x \in lines[t] : Same(x, hand[t])}
           /\ Continue(t) /\ keyed' = keyed
        \/ /\ tokens' \subseteq (lines[t] \ {hand[t]}) \cup left
           /\ told' = told
           /\ EndRequest(t) /\ ~keyed'
  BY DEF Write
<1>5. PICK p : p = <<>> OBVIOUS
<1>6. Tail(ahead[t]) = <<>>
  <2> SUFFICES ASSUME Tail(ahead[t]) # <<>> PROVE FALSE OBVIOUS
  <2>1. <<Head(ahead[t]), Head(Tail(ahead[t]))>> \in Follows BY <1>1 DEF Known
  <2> QED BY <1>1, <2>1 DEF Follows
<1>7. ahead' = [ahead EXCEPT ![t] = p] BY <1>4, <1>5, <1>6 DEF Continue, EndRequest
<1>8. ahead'[t] = p BY <1>7 DEF Shape, Registers
<1>9. ~At(t, "write")' /\ ~InTokens(t)' /\ ~Works(t)' /\ ~Changes(t)'
  BY <1>5, <1>8 DEF At, InTokens, Works, Changes, Busy
<1>10. hand' = [hand EXCEPT ![t] = hand[t]] /\ hand[t] \in Token BY <1>3, Untouched
<1>11. \A s \in Thread : s # t =>
        /\ At(s, "write")' <=> At(s, "write")
        /\ InTokens(s)' <=> InTokens(s)
        /\ Works(s)' <=> Works(s)
        /\ Changes(s)' <=> Changes(s)
  BY <1>7, <1>10, OtherHands
<1>12. OneOwner(Copies, issued)'
  <2>1. Copies' \subseteq Copies BY <1>3, <1>4 DEF Copies, Others
  <2> QED BY <1>3, <2>1, OwnedStays DEF TokenInv, Shape, Stored
<1>13. ASSUME calm PROVE CalmInv'
  <2>1. \A s \in Thread : s # t => ~InTokens(s) BY <1>2, <1>13 DEF TokenInv, CalmInv
  <2>2. tokens = {} BY <1>1, <1>13 DEF TokenInv, CalmInv
  <2>3. Draft(lines[t], told, hand[t], keyed) BY <1>2, <1>13 DEF TokenInv, CalmInv
  <2>4. Same(hand[t], hand[t]) BY DEF Same
  <2>5. /\ tokens' \subseteq told' /\ (keyed' => tokens' = told')
        /\ tokens' \subseteq Others(told, hand[t]) \cup {hand[t]} /\ tokens' \subseteq lines[t]
    <3>1. CASE ~keyed' /\ told' = told BY <1>4, <2>2, <2>3, <2>4, <3>1 DEF Draft, Others
    <3>2. CASE ~(~keyed' /\ told' = told) BY <1>4, <2>2, <2>3, <2>4, <3>2 DEF Draft, Others
    <3> QED BY <3>1, <3>2
  <2>6. \A s \in Thread : ~InTokens(s)' BY <1>9, <1>11, <2>1
  <2>7. \A s \in Thread : ~At(s, "write")' BY <2>6 DEF At, InTokens
  <2>8. /\ \A s, q \in Thread : Changes(s)' /\ Changes(q)' /\ Same(hand'[s], hand'[q]) => s = q
        /\ \A s \in Thread : Works(s)' => hand'[s].refresh \in valid' \cup {0}
    BY <1>3, <1>9, <1>11, <1>13 DEF TokenInv, CalmInv
  <2>9. hand[t].refresh \in valid \cup {0} BY <1>2, <1>13 DEF TokenInv, CalmInv
  <2>10. \A y \in Kept' : \/ y.refresh \in valid' \cup {0}
                          \/ \E s \in Thread : Works(s)' /\ Same(hand'[s], y)
    <3> SUFFICES ASSUME NEW y \in Kept', y.refresh \notin valid \cup {0}
                 PROVE  \E s \in Thread : Works(s)' /\ Same(hand'[s], y)
      BY <1>3
    <3>1. y \in tokens' BY <2>6 DEF Kept
    <3>2. y \in lines[t] /\ ~Same(y, hand[t]) BY <2>5, <2>9, <3>1 DEF Others
    <3>3. y \in Kept BY <1>2, <3>2 DEF Kept
    <3>4. PICK s \in Thread : Works(s) /\ Same(hand[s], y) BY <1>13, <3>3 DEF TokenInv, CalmInv
    <3>5. s # t BY <3>2, <3>4 DEF Same
    <3> QED BY <1>3, <1>11, <3>4, <3>5
  <2> QED BY <2>5, <2>6, <2>7, <2>8, <2>10 DEF CalmInv
<1> QED BY <1>3, <1>12, <1>13 DEF TokenInv, CalmInv

LEMMA TokensCrashed ==
    ASSUME Shape, TokenInv, Crash
    PROVE  TokenInv'
<1>1. UNCHANGED <<tokens, hand, lines, told, keyed, valid, issued>> BY DEF Crash, registers, provider
<1>2. PICK none : none = <<>> OBVIOUS
<1>3. \A s \in Thread : ahead'[s] = none BY <1>2 DEF Crash
<1>4. \A s \in Thread : ~At(s, "write")' /\ ~InTokens(s)' /\ ~Works(s)' /\ ~Changes(s)'
  BY <1>2, <1>3 DEF At, InTokens, Works, Changes, Busy
<1>5. OneOwner(Copies, issued)'
  <2>1. Copies' \subseteq Copies BY <1>1 DEF Copies
  <2> QED BY <1>1, <2>1, OwnedStays DEF TokenInv, Shape, Stored
<1>6. ASSUME calm' PROVE CalmInv'
  <2>1. calm /\ \A t \in Thread : ~Holds(t, hand[t]) BY <1>6 DEF Crash
  <2>2. \A t \in Thread : ~Works(t) /\ ~At(t, "write")
    BY <2>1 DEF Holds, Same, Works, At
  <2>3. tokens \subseteq told /\ (keyed => tokens = told) BY <2>1, <2>2 DEF TokenInv, CalmInv
  <2>4. \A y \in tokens : y.refresh \in valid \cup {0} BY <2>1, <2>2 DEF TokenInv, CalmInv, Kept
  <2>5. Kept' = tokens BY <1>1, <1>4 DEF Kept
  <2> QED BY <1>1, <1>4, <2>3, <2>4, <2>5 DEF CalmInv
<1> QED BY <1>5, <1>6 DEF TokenInv, CalmInv

LEMMA TokensKept == Shape /\ TokenInv /\ [ConnectionsNext]_connectionsVars => TokenInv'
<1> SUFFICES ASSUME Shape, TokenInv, [ConnectionsNext]_connectionsVars PROVE TokenInv' OBVIOUS
<1>1. CASE UNCHANGED connectionsVars \/ TokenExpires \/ StateExpires
  <2>1. UNCHANGED <<tokens, ahead, registers, valid, issued, told, calm, keyed>>
    BY <1>1 DEF connectionsVars, TokenExpires, StateExpires, provider, ghosts
  <2>2. \A s \in Thread :
          /\ At(s, "write")' <=> At(s, "write")
          /\ InTokens(s)' <=> InTokens(s)
          /\ Works(s)' <=> Works(s)
          /\ Changes(s)' <=> Changes(s)
    BY <2>1 DEF At, InTokens, Works, Changes, Busy
  <2>3. OneOwner(Copies, issued)'
    <3>1. Copies' \subseteq Copies BY <2>1 DEF Copies, registers
    <3> QED BY <2>1, <3>1, OwnedStays DEF TokenInv, Shape, Stored
  <2>5. Kept' = Kept BY <2>1, <2>2 DEF Kept, registers
  <2>4. CalmInv' BY <2>1, <2>2, <2>5 DEF TokenInv, CalmInv, registers
  <2> QED BY <2>3, <2>4 DEF TokenInv
<1>2. CASE \E t \in Thread : Request(t) BY <1>2, TokensApart DEF Request
<1>3. CASE \E t \in Thread : Step(t)
  BY <1>3, TokensApart, TokensExchanged, TokensGot, TokensRefreshed, TokensReread, TokensTruncated,
     TokensWritten
  DEF Step
<1>4. CASE Crash BY <1>4, TokensCrashed
<1> QED BY <1>1, <1>2, <1>3, <1>4 DEF ConnectionsNext

LEMMA ConnectionsBegin == ConnectionsInit => FlowInv /\ OrderedInv /\ TokenInv
<1> SUFFICES ASSUME ConnectionsInit PROVE FlowInv /\ OrderedInv /\ TokenInv OBVIOUS
<1>1. PICK u \in User, v \in Provider, r \in {0, 1} :
        LET x == [user |-> u, provider |-> v, access |-> 1, refresh |-> r] IN
          /\ tokens = {x} /\ told = {x} /\ hand = [t \in Thread |-> x] /\ valid = {r} \ {0}
  BY DEF ConnectionsInit
<1> DEFINE x == [user |-> u, provider |-> v, access |-> 1, refresh |-> r]
<1>2. tokens = {x} /\ told = {x} /\ (\A t \in Thread : hand[t] = x) /\ valid = {r} \ {0} BY <1>1
<1>3. x.refresh = r /\ x.refresh <= 1 /\ Same(x, x) BY DEF Same
<1> HIDE DEF x
<1>4. PICK none : none = <<>> OBVIOUS
<1>5. \A s \in Thread : ahead[s] = none BY <1>4 DEF ConnectionsInit
<1>6. \A s \in Thread : /\ ~At(s, "pop") /\ ~At(s, "fill") /\ ~At(s, "rename") /\ ~InStates(s)
                        /\ ~Claiming(s) /\ ~Putting(s) /\ ~At(s, "write") /\ ~InTokens(s)
                        /\ ~Works(s) /\ ~Changes(s)
  BY <1>4, <1>5, ProgramTypes
  DEF At, Busy, InStates, Claiming, Putting, InTokens, Works, Changes
<1>7. waiting = {} /\ \A s \in Flow : exchanged[s] = 0 BY DEF ConnectionsInit
<1>8. FlowInv BY <1>6, <1>7 DEF FlowInv
<1>9. Live = waiting \ stale BY <1>7 DEF Live, ConnectionsInit
<1>10. OrderedInv BY <1>6, <1>7, <1>9 DEF OrderedInv
<1>11. Copies \subseteq {x} /\ issued = 1 BY <1>2 DEF Copies, ConnectionsInit
<1>12. OneOwner(Copies, issued) BY <1>3, <1>11 DEF OneOwner
<1>13. CalmInv BY <1>2, <1>3, <1>6 DEF CalmInv, Kept
<1> QED BY <1>8, <1>10, <1>12, <1>13 DEF TokenInv

LEMMA ConnectionsAlways == ConnectionsSpec => []ConnectionsInv
<1>1. ConnectionsInit => ConnectionsInv BY ShapeInit, ConnectionsBegin DEF ConnectionsInv
<1>2. ConnectionsInv /\ [ConnectionsNext]_connectionsVars => ConnectionsInv'
  BY ShapeKept, FlowsKept, TokensKept DEF ConnectionsInv
<1> QED BY <1>1, <1>2, PTL DEF ConnectionsSpec

(* The files of the connections, the requests and what they hold keep      *)
(* their types, and every flow that a request works on was started.        *)
THEOREM ConnectionsTyped == ConnectionsSpec => []TypeOK
BY ConnectionsAlways, ShapeTypes, PTL DEF ConnectionsInv

(* As long as no two requests are inside oauth_states.json at once, a      *)
(* flow's code goes to the provider at most once, however often the        *)
(* browser sends the callback, and no flow is forgotten before its time,   *)
(* whatever crashes.                                                       *)
THEOREM FlowsServedOnceAlways == ConnectionsSpec => []FlowsServedOnce
<1>1. ConnectionsInv => FlowsServedOnce BY DEF ConnectionsInv, OrderedInv, FlowsServedOnce
<1> QED BY <1>1, ConnectionsAlways, PTL

(* As long as no two requests rewrite oauth_tokens.jsonl at once or change *)
(* one connection at once, and none of them dies in between, every line is  *)
(* a connection as it was last made or renewed, none that was cut, with a  *)
(* refresh token that its provider still accepts or that is being renewed; *)
(* and unless a rewrite met a line that it could not decrypt or encrypt,   *)
(* every connection is there.                                              *)
THEOREM ConnectionsKeptAlways == ConnectionsSpec => []ConnectionsKept
<1>1. ConnectionsInv => ConnectionsKept
  <2> SUFFICES ASSUME ConnectionsInv, calm
               PROVE  /\ tokens \subseteq told
                      /\ keyed /\ (\A t \in Thread : ~At(t, "write")) => tokens = told
                      /\ \A x \in tokens : \/ x.refresh \in valid \cup {0}
                                           \/ \E t \in Thread : Holds(t, x)
    BY DEF ConnectionsKept
  <2>1. CalmInv BY DEF ConnectionsInv, TokenInv
  <2>2. tokens \subseteq told /\ (keyed /\ (\A t \in Thread : ~At(t, "write")) => tokens = told)
    BY <2>1 DEF CalmInv
  <2>3. \A t \in Thread : \A x : Works(t) /\ Same(hand[t], x) => Holds(t, x) BY DEF Works, Holds
  <2>4. \A x \in tokens : \/ x.refresh \in valid \cup {0}
                          \/ \E t \in Thread : Holds(t, x)
    BY <2>1, <2>3 DEF CalmInv, Kept
  <2> QED BY <2>2, <2>4
<1> QED BY <1>1, ConnectionsAlways, PTL
=============================================================================
