-------------------------- MODULE DocumentsProofs --------------------------
(***************************************************************************)
(* The document library, for any files, texts, requests and starts of the  *)
(* server: one document per file as long as the backfill opened none,      *)
(* vectors that belong to their texts, and a library that is what the      *)
(* client was told while only uploads overlap.                             *)
(***************************************************************************)
EXTENDS Documents, SequenceTheorems, FiniteSetTheorems, TLAPS

AnyFolder == [id: Nat, path: Root, count: Nat]
AnyDocument == [folder: Nat, id: Nat, path: File, text: Text, vector: Text \cup {None}]

Kinds ==
    /\ Root # {} /\ File # {} /\ Text # {}
    /\ folders \subseteq AnyFolder
    /\ docs \subseteq AnyDocument /\ IsFiniteSet(docs)
    /\ todo \in [Thread -> Seq(Steps)]
    /\ seen \in [Thread -> SUBSET AnyFolder]
    /\ mine \in [Thread -> AnyFolder]
    /\ hand \in [Thread -> AnyDocument]
    /\ opened \in [Thread -> BOOLEAN]
    /\ batch \subseteq AnyDocument
    /\ fresh \in Nat

Matches(d) == d.vector \in {None, d.text}

VectorsMatch == \A t \in Thread : Matches(hand[t])

(* A sequence of steps that writes a document, and where in it.            *)
Writes(s) == \E i \in 1 .. Len(s) : s[i] \in {"open", "write"}

Tidy(s) ==
    \A i \in 1 .. Len(s) :
        /\ s[i] = "find" => i = 1
        /\ s[i] \in {"open", "write"} => \A j \in 1 .. i - 1 : s[j] \in {"find", "open", "write"}

(* An upload that found what it will replace ... *)
Found(t) == Writes(todo[t]) /\ ~At(t, "find")

(* ... is alone on the event loop, and replaces what is there for its file. *)
UploadInv ==
    \A t \in Client :
        /\ Tidy(todo[t])
        /\ At(t, "find") => hand[t].folder = mine[t].id
        /\ Found(t) =>
              /\ loop = t
              /\ \A d \in docs : d.folder = hand[t].folder /\ d.path = hand[t].path
                                    => SameFile(d, hand[t])

OneDocument == \A d, e \in docs : d.folder = e.folder /\ d.path = e.path => d = e

LibraryInv ==
    repaired \/ (UploadInv /\ OneDocument /\ ~At(Backfill, "write"))

-----------------------------------------------------------------------------
(* Plans *)

LEMMA Clients == \A t \in Client : t \in Thread /\ t # Backfill /\ t # None
BY DocumentsAssumption DEF Thread, Backfill

LEMMA Concat ==
    ASSUME NEW a \in Seq(Steps), NEW b \in Seq(Steps)
    PROVE  /\ a \o b \in Seq(Steps) /\ Len(a \o b) = Len(a) + Len(b)
           /\ \A i \in 1 .. Len(a) + Len(b) :
                 (a \o b)[i] = IF i <= Len(a) THEN a[i] ELSE b[i - Len(a)]
BY ConcatProperties

LEMMA SaveIndexPlan ==
    /\ SaveIndex \in Seq(Steps) /\ Len(SaveIndex) = 2
    /\ \A i \in 1 .. 2 : SaveIndex[i] \in {"empty", "save"}
BY DEF SaveIndex, Steps

LEMMA ArrivingPlan ==
    /\ Arriving \in Seq(Steps) /\ Len(Arriving) = 7 /\ Arriving[1] = "find"
    /\ \A i \in 2 .. 7 : Arriving[i] # "find"
    /\ \A i \in 4 .. 7 : Arriving[i] \notin {"open", "write"}
    /\ Arriving[2] = "open" /\ Arriving[3] = "write"
<1> DEFINE a == <<"find", "open", "write", "count", "merge">>
<1>1. a \in Seq(Steps) /\ Len(a) = 5 /\ a[1] = "find" /\ a[2] = "open" /\ a[3] = "write"
      /\ a[4] = "count" /\ a[5] = "merge"
  BY DEF Steps
<1>2. Arriving = a \o SaveIndex BY DEF Arriving
<1> HIDE DEF a
<1>3. /\ a \o SaveIndex \in Seq(Steps) /\ Len(a \o SaveIndex) = 5 + 2
      /\ \A i \in 1 .. 5 + 2 : (a \o SaveIndex)[i] = IF i <= 5 THEN a[i] ELSE SaveIndex[i - 5]
  <2>1. SaveIndex \in Seq(Steps) /\ Len(SaveIndex) = 2 BY SaveIndexPlan
  <2>2. Len(a) + Len(SaveIndex) = 5 + 2 BY <1>1, <2>1
  <2>3. \A i : (i <= Len(a)) = (i <= 5) BY <1>1
  <2>4. \A i : (i - Len(a)) = (i - 5) BY <1>1
  <2>5. /\ a \o SaveIndex \in Seq(Steps) /\ Len(a \o SaveIndex) = Len(a) + Len(SaveIndex)
        /\ \A i \in 1 .. Len(a) + Len(SaveIndex) :
              (a \o SaveIndex)[i] = IF i <= Len(a) THEN a[i] ELSE SaveIndex[i - Len(a)]
    BY <1>1, <2>1, Concat
  <2> QED BY <2>2, <2>3, <2>4, <2>5, Zenon
<1>6. /\ Arriving \in Seq(Steps) /\ Len(Arriving) = 7
      /\ \A i \in 1 .. 7 : Arriving[i] = IF i <= 5 THEN a[i] ELSE SaveIndex[i - 5]
  BY <1>2, <1>3
<1>4. \A i \in 6 .. 7 : Arriving[i] \in {"empty", "save"} BY <1>6, SaveIndexPlan
<1>5. \A i \in 1 .. 5 : Arriving[i] = a[i] BY <1>6
<1> QED BY <1>1, <1>6, <1>4, <1>5

Quiet(s) == \A i \in 1 .. Len(s) : s[i] \notin {"find", "open", "write"}

LEMMA QuietConcat ==
    ASSUME NEW a \in Seq(Steps), NEW b \in Seq(Steps), Quiet(a), Quiet(b)
    PROVE  a \o b \in Seq(Steps) /\ Quiet(a \o b)
<1>1. Len(a) \in Nat /\ Len(b) \in Nat BY LenProperties
<1> DEFINE c == a \o b
<1>2. /\ c \in Seq(Steps) /\ Len(c) = Len(a) + Len(b)
      /\ \A i \in 1 .. Len(a) + Len(b) : c[i] = IF i <= Len(a) THEN a[i] ELSE b[i - Len(a)]
  BY Concat
<1> HIDE DEF c
<1>3. ASSUME NEW i \in 1 .. Len(c) PROVE c[i] \notin {"find", "open", "write"}
  <2>1. CASE i <= Len(a)
    <3>1. i \in 1 .. Len(a) /\ c[i] = a[i] BY <1>1, <1>2, <2>1
    <3> QED BY <3>1 DEF Quiet
  <2>2. CASE ~(i <= Len(a))
    <3>1. i - Len(a) \in 1 .. Len(b) /\ c[i] = b[i - Len(a)] BY <1>1, <1>2, <2>2
    <3> QED BY <3>1 DEF Quiet
  <2> QED BY <2>1, <2>2
<1> QED BY <1>2, <1>3 DEF Quiet, c

LEMMA SaveIndexQuiet == SaveIndex \in Seq(Steps) /\ Quiet(SaveIndex)
BY SaveIndexPlan DEF Quiet

LEMMA RegisteringPlan == Registering \in Seq(Steps) /\ Quiet(Registering)
<1>1. <<"register">> \in Seq(Steps) /\ Quiet(<<"register">>) BY DEF Steps, Quiet
<1> QED BY <1>1, SaveIndexQuiet, QuietConcat DEF Registering

LEMMA RemovingPlan == Removing \in Seq(Steps) /\ Quiet(Removing)
<1> DEFINE a == <<"pick", "unlink", "recall", "recount">>
<1>1. a \in Seq(Steps) /\ Quiet(a) BY DEF Steps, Quiet
<1>2. Removing = a \o SaveIndex BY DEF Removing
<1> HIDE DEF a
<1> QED BY <1>1, <1>2, SaveIndexQuiet, QuietConcat

LEMMA UnregisteringPlan == Unregistering \in Seq(Steps) /\ Quiet(Unregistering)
<1> DEFINE a == <<"unregister">>
           b == <<"rmtree">>
<1>1. a \in Seq(Steps) /\ Quiet(a) BY DEF Steps, Quiet
<1>2. b \in Seq(Steps) /\ Quiet(b) BY DEF Steps, Quiet
<1>3. Unregistering = a \o SaveIndex \o b BY DEF Unregistering
<1> HIDE DEF a, b
<1>4. a \o SaveIndex \in Seq(Steps) /\ Quiet(a \o SaveIndex) BY <1>1, SaveIndexQuiet, QuietConcat
<1> QED BY <1>2, <1>3, <1>4, QuietConcat

-----------------------------------------------------------------------------
(* Types *)

LEMMA Advance ==
    ASSUME Kinds, NEW t \in Thread, Busy(t)
    PROVE  /\ Tail(todo[t]) \in Seq(Steps)
           /\ Len(todo[t]) \in Nat /\ Len(todo[t]) > 0
           /\ Len(Tail(todo[t])) = Len(todo[t]) - 1
           /\ Head(todo[t]) = todo[t][1]
           /\ \A i \in 1 .. Len(todo[t]) - 1 : Tail(todo[t])[i] = todo[t][i + 1]
<1>1. todo[t] \in Seq(Steps) /\ todo[t] # <<>> BY DEF Kinds, Busy
<1> QED BY <1>1, HeadTailProperties, LenProperties, EmptySeq

LEMMA NoSteps == <<>> \in Seq(Steps) /\ Len(<<>>) = 0
BY EmptySeq

LEMMA StepsTyped ==
    ASSUME Kinds, NEW t \in Thread, Busy(t), Continue(t) \/ End(t)
    PROVE  todo' \in [Thread -> Seq(Steps)]
<1>1. CASE Continue(t) BY <1>1, Advance DEF Continue, Kinds
<1>2. CASE End(t) BY <1>2, NoSteps DEF End, Kinds
<1> QED BY <1>1, <1>2

LEMMA IndexTyped == ASSUME Kinds PROVE Index \subseteq AnyFolder
BY DEF Kinds, Index

LEMMA CountTyped == ASSUME Kinds, NEW f PROVE Cardinality(InFolder(f)) \in Nat
<1>1. InFolder(f) \subseteq docs BY DEF InFolder
<1>2. IsFiniteSet(InFolder(f)) BY <1>1, FS_Subset DEF Kinds
<1> QED BY <1>2, FS_CardinalityType

LEMMA DocsTyped ==
    ASSUME Kinds, docs' \subseteq docs
    PROVE  docs' \subseteq AnyDocument /\ IsFiniteSet(docs')
BY FS_Subset DEF Kinds

LEMMA AnyDocTyped == ASSUME Kinds, NEW f \in Nat PROVE AnyDoc(f) \in AnyDocument
<1>1. (CHOOSE p \in File : TRUE) \in File BY DEF Kinds
<1>2. (CHOOSE x \in Text : TRUE) \in Text BY DEF Kinds
<1> QED BY <1>1, <1>2 DEF AnyDoc, Doc, AnyDocument

LEMMA BeginKinds ==
    ASSUME Kinds, NEW t \in Client, NEW steps \in Seq(Steps),
           NEW folder \in AnyFolder, NEW doc \in AnyDocument,
           Begin(t, steps, folder, doc), fresh' \in Nat
    PROVE  Kinds'
<1>1. t \in Thread BY Clients
<1> QED BY <1>1 DEF Begin, Kinds, disk, sweep

LEMMA RequestKinds == ASSUME Kinds, NEW t \in Client, Request(t) PROVE Kinds'
<1>1. CASE CreateFolder(t)
  <2>1. PICK r \in Root :
            Begin(t, Registering, [id |-> fresh, path |-> r, count |-> 0], AnyDoc(fresh))
    BY <1>1 DEF CreateFolder
  <2>2. fresh \in Nat /\ fresh' = fresh + 1 BY <1>1 DEF CreateFolder, Kinds
  <2>3. [id |-> fresh, path |-> r, count |-> 0] \in AnyFolder BY <2>2 DEF AnyFolder
  <2>4. AnyDoc(fresh) \in AnyDocument BY <2>2, AnyDocTyped
  <2>5. fresh' \in Nat BY <2>2
  <2> QED BY <2>1, <2>3, <2>4, <2>5, RegisteringPlan, BeginKinds
<1>2. CASE Upload(t)
  <2>1. PICK f \in Index, p \in File, x \in Text :
            Begin(t, Arriving, f, Doc(f.id, p, x)) /\ UNCHANGED fresh
    BY <1>2 DEF Upload
  <2>2. f \in AnyFolder /\ f.id \in Nat BY IndexTyped DEF AnyFolder
  <2>3. Doc(f.id, p, x) \in AnyDocument BY <2>2 DEF Doc, AnyDocument
  <2>4. fresh' \in Nat BY <2>1 DEF Kinds
  <2> QED BY <2>1, <2>2, <2>3, <2>4, ArrivingPlan, BeginKinds
<1>3. CASE DeleteFolder(t)
  <2>1. PICK f \in Index : Begin(t, Unregistering, f, AnyDoc(f.id)) /\ UNCHANGED fresh
    BY <1>3 DEF DeleteFolder
  <2>2. f \in AnyFolder /\ f.id \in Nat BY IndexTyped DEF AnyFolder
  <2>3. AnyDoc(f.id) \in AnyDocument BY <2>2, AnyDocTyped
  <2>4. fresh' \in Nat BY <2>1 DEF Kinds
  <2> QED BY <2>1, <2>2, <2>3, <2>4, UnregisteringPlan, BeginKinds
<1>4. CASE DeleteFile(t)
  <2>1. PICK f \in Index, p \in File :
            Begin(t, Removing, f, [AnyDoc(f.id) EXCEPT !.path = p]) /\ UNCHANGED fresh
    BY <1>4 DEF DeleteFile
  <2>2. f \in AnyFolder /\ f.id \in Nat BY IndexTyped DEF AnyFolder
  <2>3. [AnyDoc(f.id) EXCEPT !.path = p] \in AnyDocument
    BY <2>2, AnyDocTyped DEF AnyDocument
  <2>4. fresh' \in Nat BY <2>1 DEF Kinds
  <2> QED BY <2>1, <2>2, <2>3, <2>4, RemovingPlan, BeginKinds
<1> QED BY <1>1, <1>2, <1>3, <1>4 DEF Request

LEMMA StepKinds == ASSUME Kinds, NEW t \in Client, Step(t) PROVE Kinds'
<1>0. t \in Thread BY Clients
<1>1. CASE Register(t)
  <2>1. Busy(t) /\ (Continue(t) \/ End(t)) BY <1>1 DEF Register, At
  <2>2. seen' \in [Thread -> SUBSET AnyFolder]
    <3>1. Index \cup {mine[t]} \in SUBSET AnyFolder BY <1>0, IndexTyped DEF Kinds
    <3>2. seen' = seen \/ seen' = [seen EXCEPT ![t] = Index \cup {mine[t]}]
      BY <1>1 DEF Register
    <3> QED BY <1>0, <3>1, <3>2 DEF Kinds
  <2> QED BY <1>0, <1>1, <2>1, <2>2, StepsTyped DEF Register, Kinds, disk, sweep, meters
<1>2. CASE Unregister(t)
  <2>1. Busy(t) /\ (Continue(t) \/ End(t)) BY <1>2 DEF Unregister, At
  <2>2. seen' \in [Thread -> SUBSET AnyFolder]
    BY <1>0, <1>2, IndexTyped DEF Unregister, Kinds
  <2> QED BY <1>0, <1>2, <2>1, <2>2, StepsTyped DEF Unregister, Kinds, disk, sweep, meters
<1>3. CASE EmptyIndex(t)
  <2>1. Busy(t) /\ Continue(t) BY <1>3 DEF EmptyIndex, At
  <2> QED BY <1>0, <1>3, <2>1, StepsTyped DEF EmptyIndex, Kinds, sweep, meters
<1>4. CASE SaveIndexFile(t)
  <2>1. Busy(t) /\ (Continue(t) \/ End(t)) BY <1>4 DEF SaveIndexFile, At
  <2>2. folders' \subseteq AnyFolder BY <1>0, <1>4 DEF SaveIndexFile, Kinds
  <2> QED BY <1>0, <1>4, <2>1, <2>2, StepsTyped DEF SaveIndexFile, Kinds, sweep, meters
<1>5. CASE RemoveTree(t)
  <2>1. Busy(t) /\ End(t) BY <1>5 DEF RemoveTree, At
  <2>2. docs' \subseteq docs BY <1>5 DEF RemoveTree
  <2> QED BY <1>0, <1>5, <2>1, <2>2, StepsTyped, DocsTyped DEF RemoveTree, Kinds, sweep, meters
<1>6. CASE FindExisting(t)
  <2> DEFINE existing == {d \in InFolder(mine[t].id) : d.path = hand[t].path}
  <2>1. Busy(t) BY <1>6 DEF FindExisting, At
  <2>2. CASE todo' = [todo EXCEPT ![t] = <<>>] /\ UNCHANGED <<hand, fresh, loop>>
    <3>1. todo' \in [Thread -> Seq(Steps)] BY <1>0, <2>2, NoSteps DEF Kinds
    <3> QED BY <1>6, <2>2, <3>1 DEF FindExisting, Kinds, sweep
  <2>3. CASE /\ Continue(t)
             /\ \E vector \in {None, hand[t].text} :
                   \/ \E d \in existing :
                         /\ hand' = [hand EXCEPT ![t].id = d.id, ![t].vector = vector]
                         /\ UNCHANGED fresh
                   \/ /\ hand' = [hand EXCEPT ![t].id = fresh, ![t].vector = vector]
                      /\ fresh' = fresh + 1
    <3>1. PICK vector \in {None, hand[t].text} :
              \/ \E d \in existing :
                    /\ hand' = [hand EXCEPT ![t].id = d.id, ![t].vector = vector]
                    /\ UNCHANGED fresh
              \/ /\ hand' = [hand EXCEPT ![t].id = fresh, ![t].vector = vector]
                 /\ fresh' = fresh + 1
      BY <2>3
    <3>2. hand[t] \in AnyDocument /\ fresh \in Nat /\ vector \in Text \cup {None}
      BY <1>0 DEF Kinds, AnyDocument
    <3>3. PICK id \in Nat : hand' = [hand EXCEPT ![t].id = id, ![t].vector = vector]
                            /\ fresh' \in {fresh, fresh + 1}
      <4>1. \A d \in existing : d.id \in Nat BY DEF InFolder, Kinds, AnyDocument
      <4> QED BY <3>1, <3>2, <4>1
    <3>4. hand' \in [Thread -> AnyDocument] /\ fresh' \in Nat
      <4>1. [hand[t] EXCEPT !.id = id, !.vector = vector] \in AnyDocument
        BY <3>2 DEF AnyDocument
      <4>2. hand' = [hand EXCEPT ![t] = [hand[t] EXCEPT !.id = id, !.vector = vector]]
        BY <1>0, <3>3 DEF Kinds
      <4> QED BY <1>0, <3>2, <3>3, <4>1, <4>2 DEF Kinds
    <3> QED BY <1>0, <1>6, <2>1, <2>3, <3>4, StepsTyped DEF FindExisting, Kinds, sweep
  <2> QED BY <1>6, <2>2, <2>3 DEF FindExisting
<1>7. CASE OpenDocument(t)
  <2>1. Busy(t) /\ Continue(t) BY <1>7 DEF OpenDocument, At
  <2>2. docs' \subseteq docs BY <1>7 DEF OpenDocument
  <2> QED BY <1>0, <1>7, <2>1, <2>2, StepsTyped, DocsTyped DEF OpenDocument, Kinds, sweep, meters
<1>8. CASE CountDocuments(t)
  <2>1. Busy(t) /\ Continue(t) BY <1>8 DEF CountDocuments, At
  <2>2. mine' \in [Thread -> AnyFolder]
    BY <1>0, <1>8, CountTyped DEF CountDocuments, Kinds, AnyFolder
  <2> QED BY <1>0, <1>8, <2>1, <2>2, StepsTyped DEF CountDocuments, Kinds, sweep, meters
<1>9. CASE MergeFolder(t)
  <2>1. Busy(t) /\ Continue(t) BY <1>9 DEF MergeFolder, At
  <2>2. seen' \in [Thread -> SUBSET AnyFolder]
    BY <1>0, <1>9, IndexTyped DEF MergeFolder, Kinds
  <2> QED BY <1>0, <1>9, <2>1, <2>2, StepsTyped DEF MergeFolder, Kinds, disk, sweep, meters
<1>10. CASE PickDocument(t)
  <2>1. Busy(t) /\ (Continue(t) \/ End(t)) BY <1>10 DEF PickDocument, At
  <2>2. hand' \in [Thread -> AnyDocument]
    BY <1>0, <1>10 DEF PickDocument, Kinds, InFolder
  <2> QED BY <1>0, <1>10, <2>1, <2>2, StepsTyped DEF PickDocument, Kinds, sweep, meters
<1>11. CASE Unlink(t)
  <2>1. Busy(t) /\ (Continue(t) \/ End(t)) BY <1>11 DEF Unlink, At
  <2>2. docs' \subseteq docs BY <1>11 DEF Unlink
  <2>3. opened' \in [Thread -> BOOLEAN] BY <1>11 DEF Unlink, Detached
  <2> QED BY <1>0, <1>11, <2>1, <2>2, <2>3, StepsTyped, DocsTyped DEF Unlink, Kinds, sweep, meters
<1>12. CASE Recall(t)
  <2>1. Busy(t) /\ Continue(t) BY <1>12 DEF Recall, At
  <2>2. seen' \in [Thread -> SUBSET AnyFolder] BY <1>0, <1>12, IndexTyped DEF Recall, Kinds
  <2> QED BY <1>0, <1>12, <2>1, <2>2, StepsTyped DEF Recall, Kinds, disk, sweep, meters
<1>13. CASE Recount(t)
  <2>1. Busy(t) /\ Continue(t) BY <1>13 DEF Recount, At
  <2>2. \A f \in AnyFolder : [f EXCEPT !.count = Cardinality(InFolder(f.id))] \in AnyFolder
    BY CountTyped DEF AnyFolder
  <2>3. seen' \in [Thread -> SUBSET AnyFolder] BY <1>0, <1>13, <2>2 DEF Recount, Kinds
  <2> QED BY <1>0, <1>13, <2>1, <2>3, StepsTyped DEF Recount, Kinds, sweep, meters
<1> QED BY <1>1, <1>2, <1>3, <1>4, <1>5, <1>6, <1>7, <1>8, <1>9, <1>10, <1>11, <1>12, <1>13 DEF Step

LEMMA WriteKinds == ASSUME Kinds, NEW t \in Thread, WriteDocument(t) PROVE Kinds'
<1>1. Busy(t) /\ Continue(t) BY DEF WriteDocument, At
<1> DEFINE others == {d \in docs : ~SameFile(d, hand[t])}
<1>2. docs' \in {docs, others, others \cup {hand[t]}} BY DEF WriteDocument
<1>3. others \subseteq docs /\ IsFiniteSet(others) /\ hand[t] \in AnyDocument
  BY FS_Subset DEF Kinds
<1>4. IsFiniteSet(others \cup {hand[t]}) BY <1>3, FS_AddElement
<1>5. docs' \subseteq AnyDocument /\ IsFiniteSet(docs') BY <1>2, <1>3, <1>4 DEF Kinds
<1> QED BY <1>1, <1>5, StepsTyped DEF WriteDocument, Kinds, sweep, meters

LEMMA SweepKinds == ASSUME Kinds, Sweep PROVE Kinds'
<1>0. Backfill \in Thread BY DEF Thread
<1>1. CASE BackfillStart
  <2>1. <<"visit">> \in Seq(Steps) BY DEF Steps
  <2> QED BY <1>0, <1>1, <2>1 DEF BackfillStart, Kinds, disk
<1>2. CASE VisitFolder BY <1>2 DEF VisitFolder, Kinds, InFolder, disk, meters
<1>3. CASE Embed
  <2>1. <<"blob", "write", "visit">> \in Seq(Steps) BY DEF Steps
  <2>2. PICK d \in batch :
          /\ batch' = batch \ {d}
          /\ \/ /\ hand' = [hand EXCEPT ![Backfill] = [d EXCEPT !.vector = d.text]]
                /\ todo' = [todo EXCEPT ![Backfill] = <<"blob", "write", "visit">>]
             \/ UNCHANGED <<hand, todo>>
    BY <1>3 DEF Embed
  <2>3. d \in AnyDocument /\ [d EXCEPT !.vector = d.text] \in AnyDocument
    BY DEF Kinds, AnyDocument
  <2>4. hand' \in [Thread -> AnyDocument] /\ todo' \in [Thread -> Seq(Steps)]
    BY <1>0, <2>1, <2>2, <2>3 DEF Kinds
  <2> QED BY <1>3, <2>2, <2>4 DEF Embed, Kinds, disk, meters
<1>4. CASE OpenBlob
  <2>1. Busy(Backfill) BY <1>4 DEF OpenBlob, At
  <2>2. docs' \subseteq docs BY <1>4 DEF OpenBlob
  <2>3. todo' \in [Thread -> Seq(Steps)]
    <3>1. CASE Continue(Backfill) BY <1>0, <2>1, <3>1, StepsTyped
    <3>2. CASE todo' = [todo EXCEPT ![Backfill] = <<>>] BY <1>0, <3>2, NoSteps DEF Kinds
    <3> QED BY <1>4, <3>1, <3>2 DEF OpenBlob
  <2> QED BY <1>4, <2>2, <2>3, DocsTyped DEF OpenBlob, Kinds, sweep
<1>5. CASE BackfillEnd
  <2>1. todo' \in [Thread -> Seq(Steps)] BY <1>0, <1>5, NoSteps DEF BackfillEnd, Kinds
  <2> QED BY <1>5, <2>1 DEF BackfillEnd, Kinds, disk, sweep, meters
<1> QED BY <1>1, <1>2, <1>3, <1>4, <1>5 DEF Sweep

LEMMA KindsInit == Init => Kinds
<1> SUFFICES ASSUME Init PROVE Kinds OBVIOUS
<1>1. PICK r \in Root, p \in File, x \in Text :
        LET f == [id |-> 1, path |-> r, count |-> 1]
            d == [folder |-> 1, id |-> 2, path |-> p, text |-> x, vector |-> None]
        IN /\ folders = {f} /\ docs = {d}
           /\ todo = [t \in Thread |-> <<>>]
           /\ seen = [t \in Thread |-> {}]
           /\ mine = [t \in Thread |-> f]
           /\ hand = [t \in Thread |-> d]
           /\ opened = [t \in Thread |-> FALSE]
           /\ batch = {} /\ fresh = 3
  BY DEF Init
<1>2. [id |-> 1, path |-> r, count |-> 1] \in AnyFolder BY DEF AnyFolder
<1>3. [folder |-> 1, id |-> 2, path |-> p, text |-> x, vector |-> None] \in AnyDocument
  BY DEF AnyDocument
<1>4. IsFiniteSet(docs) BY <1>1, FS_Singleton
<1> QED BY <1>1, <1>2, <1>3, <1>4, NoSteps DEF Kinds

LEMMA KindsNext == Kinds /\ [Next]_vars => Kinds'
<1> SUFFICES ASSUME Kinds, [Next]_vars PROVE Kinds' OBVIOUS
<1>1. CASE Restart
  <2>1. todo' \in [Thread -> Seq(Steps)] BY <1>1, NoSteps DEF Restart
  <2> QED BY <1>1, <2>1 DEF Restart, Kinds, disk
<1>2. CASE UNCHANGED vars BY <1>2 DEF vars, Kinds, disk, sweep, meters
<1> QED BY <1>1, <1>2, RequestKinds, StepKinds, WriteKinds, SweepKinds DEF Next

LEMMA KindsAlways == Spec => []Kinds
BY KindsInit, KindsNext, PTL DEF Spec

-----------------------------------------------------------------------------
(* Vectors *)

VectorInv == VectorOfItsText /\ VectorsMatch

LEMMA VectorSteps ==
    ASSUME Kinds, VectorInv, NEW t \in Thread,
           docs' \subseteq docs \cup {hand[t]},
           NEW d \in AnyDocument, Matches(d), hand' = hand \/ hand' = [hand EXCEPT ![t] = d]
    PROVE  VectorInv'
<1>1. \A x \in docs' : Matches(x) BY DEF VectorInv, VectorOfItsText, VectorsMatch, Matches
<1>2. \A s \in Thread : Matches(hand'[s]) BY DEF VectorInv, VectorsMatch, Kinds
<1> QED BY <1>1, <1>2 DEF VectorInv, VectorOfItsText, VectorsMatch, Matches

LEMMA VectorStill ==
    ASSUME Kinds, VectorInv, NEW t \in Thread, docs' \subseteq docs \cup {hand[t]}, hand' = hand
    PROVE  VectorInv'
<1>1. hand[t] \in AnyDocument /\ Matches(hand[t]) BY DEF Kinds, VectorInv, VectorsMatch
<1> QED BY <1>1, VectorSteps

LEMMA VectorRequest == ASSUME Kinds, VectorInv, NEW t \in Client, Request(t) PROVE VectorInv'
<1>0. t \in Thread BY Clients
<1>1. ASSUME NEW steps, NEW folder, NEW d \in AnyDocument, d.vector = None,
             Begin(t, steps, folder, d)
      PROVE  VectorInv'
  <2>1. docs' = docs /\ hand' = [hand EXCEPT ![t] = d] BY <1>1 DEF Begin, disk
  <2> QED BY <1>0, <1>1, <2>1, VectorSteps DEF Matches
<1>2. ASSUME NEW f \in Nat PROVE AnyDoc(f) \in AnyDocument /\ AnyDoc(f).vector = None
  BY AnyDocTyped DEF AnyDoc, Doc
<1>3. \A f \in Index : f.id \in Nat BY IndexTyped DEF AnyFolder
<1>4. CASE CreateFolder(t)
  <2>1. fresh \in Nat BY DEF Kinds
  <2> QED BY <1>1, <1>2, <1>4, <2>1 DEF CreateFolder
<1>5. CASE Upload(t)
  <2>1. PICK f \in Index, p \in File, x \in Text : Begin(t, Arriving, f, Doc(f.id, p, x))
    BY <1>5 DEF Upload
  <2>2. Doc(f.id, p, x) \in AnyDocument /\ Doc(f.id, p, x).vector = None
    BY <1>3 DEF Doc, AnyDocument
  <2> QED BY <1>1, <2>1, <2>2
<1>6. CASE DeleteFolder(t) BY <1>1, <1>2, <1>3, <1>6 DEF DeleteFolder
<1>7. CASE DeleteFile(t)
  <2>1. PICK f \in Index, p \in File :
            Begin(t, Removing, f, [AnyDoc(f.id) EXCEPT !.path = p])
    BY <1>7 DEF DeleteFile
  <2>2. [AnyDoc(f.id) EXCEPT !.path = p] \in AnyDocument
        /\ [AnyDoc(f.id) EXCEPT !.path = p].vector = None
    BY <1>2, <1>3 DEF AnyDocument
  <2> QED BY <1>1, <2>1, <2>2
<1> QED BY <1>4, <1>5, <1>6, <1>7 DEF Request

LEMMA VectorStep == ASSUME Kinds, VectorInv, NEW t \in Client, Step(t) PROVE VectorInv'
<1>0. t \in Thread BY Clients
<1>1. CASE FindExisting(t)
  <2>1. hand[t] \in AnyDocument /\ docs' = docs BY <1>0, <1>1 DEF FindExisting, Kinds
  <2>2. hand' = hand \/ \E id \in Nat, vector \in {None, hand[t].text} :
                            hand' = [hand EXCEPT ![t].id = id, ![t].vector = vector]
    <3>1. fresh \in Nat /\ \A d \in docs : d.id \in Nat BY DEF Kinds, AnyDocument
    <3> QED BY <1>1, <3>1 DEF FindExisting, InFolder
  <2>3. ASSUME NEW id \in Nat, NEW vector \in {None, hand[t].text},
               hand' = [hand EXCEPT ![t].id = id, ![t].vector = vector]
        PROVE  VectorInv'
    <3>1. \A s \in Thread : hand'[s] = IF s = t THEN [hand[t] EXCEPT !.id = id, !.vector = vector]
                                       ELSE hand[s]
      BY <2>3 DEF Kinds
    <3>2. Matches([hand[t] EXCEPT !.id = id, !.vector = vector])
      BY <2>1, <2>3 DEF Matches, AnyDocument
    <3>3. \A s \in Thread : Matches(hand'[s]) BY <3>1, <3>2 DEF VectorInv, VectorsMatch
    <3> QED BY <2>1, <3>3 DEF VectorInv, VectorOfItsText, VectorsMatch, Matches
  <2> QED BY <1>0, <2>1, <2>2, <2>3, VectorStill
<1>2. CASE PickDocument(t)
  <2>1. hand' = hand \/ \E d \in docs : hand' = [hand EXCEPT ![t] = d]
    BY <1>2 DEF PickDocument, InFolder
  <2>2. docs' = docs BY <1>2 DEF PickDocument
  <2>3. \A d \in docs : d \in AnyDocument /\ Matches(d)
    BY DEF Kinds, VectorInv, VectorOfItsText, Matches
  <2> QED BY <1>0, <2>1, <2>2, <2>3, VectorSteps, VectorStill
<1>3. CASE ~FindExisting(t) /\ ~PickDocument(t)
  <2>1. docs' \subseteq docs /\ hand' = hand
    BY <1>3 DEF Step, Register, Unregister, EmptyIndex, SaveIndexFile, RemoveTree, OpenDocument,
                CountDocuments, MergeFolder, Unlink, Recall, Recount, disk
  <2> QED BY <1>0, <2>1, VectorStill
<1> QED BY <1>1, <1>2, <1>3

LEMMA VectorNext == Kinds /\ VectorInv /\ [Next]_vars => VectorInv'
<1> SUFFICES ASSUME Kinds, VectorInv, [Next]_vars PROVE VectorInv' OBVIOUS
<1>0. Backfill \in Thread BY DEF Thread
<1>1. ASSUME NEW t \in Thread, WriteDocument(t) PROVE VectorInv'
  <2>1. docs' \subseteq docs \cup {hand[t]} /\ hand' = hand BY <1>1 DEF WriteDocument
  <2> QED BY <2>1, VectorStill
<1>2. CASE Embed
  <2>1. docs' = docs BY <1>2 DEF Embed, disk
  <2>2. PICK d \in batch :
          hand' = hand \/ hand' = [hand EXCEPT ![Backfill] = [d EXCEPT !.vector = d.text]]
    BY <1>2 DEF Embed
  <2>3. [d EXCEPT !.vector = d.text] \in AnyDocument /\ Matches([d EXCEPT !.vector = d.text])
    BY DEF Kinds, AnyDocument, Matches
  <2> QED BY <1>0, <2>1, <2>2, <2>3, VectorSteps
<1>3. CASE BackfillStart \/ VisitFolder \/ OpenBlob \/ BackfillEnd \/ Restart \/ UNCHANGED vars
  <2>1. docs' \subseteq docs /\ hand' = hand
    BY <1>3 DEF BackfillStart, VisitFolder, OpenBlob, BackfillEnd, Restart, vars, disk
  <2> QED BY <1>0, <2>1, VectorStill
<1> QED BY <1>1, <1>2, <1>3, VectorRequest, VectorStep DEF Next, Sweep

LEMMA VectorInit == Init => VectorInv
<1> SUFFICES ASSUME Init PROVE VectorInv OBVIOUS
<1>1. PICK r \in Root, p \in File, x \in Text :
        LET d == [folder |-> 1, id |-> 2, path |-> p, text |-> x, vector |-> None]
        IN docs = {d} /\ hand = [t \in Thread |-> d]
  BY DEF Init
<1> QED BY <1>1 DEF VectorInv, VectorOfItsText, VectorsMatch, Matches

(* A stored vector was computed from the text beside it, whatever overlaps *)
(* or crashes: the backfill writes back the whole document it read, and an *)
(* upload the whole document it made.                                      *)
THEOREM VectorsAlwaysMatch == Spec => []VectorOfItsText
<1>1. VectorInv => VectorOfItsText BY DEF VectorInv
<1> QED BY <1>1, KindsAlways, VectorInit, VectorNext, PTL DEF Spec

-----------------------------------------------------------------------------
(* One document per file *)

(* The next step of a sequence is no longer a find. *)
LEMMA TidyTail ==
    ASSUME Kinds, NEW t \in Thread, Busy(t), Tidy(todo[t])
    PROVE  /\ Tidy(Tail(todo[t]))
           /\ Writes(Tail(todo[t])) => Writes(todo[t])
           /\ ~(Tail(todo[t]) # <<>> /\ Head(Tail(todo[t])) = "find")
<1> DEFINE s == todo[t]
           r == Tail(s)
<1>1. /\ r \in Seq(Steps) /\ Len(s) \in Nat /\ Len(r) = Len(s) - 1 /\ Len(s) > 0
      /\ \A i \in 1 .. Len(s) - 1 : r[i] = s[i + 1]
  BY Advance
<1>2. Tidy(s) OBVIOUS
<1> HIDE DEF s, r
<1>3. \A i \in 1 .. Len(r) : r[i] = s[i + 1] /\ i + 1 \in 1 .. Len(s) BY <1>1
<1>4. \A i \in 1 .. Len(r) : r[i] # "find" BY <1>2, <1>3 DEF Tidy
<1>5. Tidy(r)
  <2>1. ASSUME NEW i \in 1 .. Len(r), r[i] \in {"open", "write"}, NEW j \in 1 .. i - 1
        PROVE  r[j] \in {"find", "open", "write"}
    <3>1. s[i + 1] \in {"open", "write"} /\ i + 1 \in 1 .. Len(s) BY <1>3, <2>1
    <3>2. j + 1 \in 1 .. i + 1 - 1 /\ j \in 1 .. Len(r) BY <1>1
    <3> QED BY <1>2, <1>3, <3>1, <3>2 DEF Tidy
  <2> QED BY <1>4, <2>1 DEF Tidy
<1>6. Writes(r) => Writes(s) BY <1>3 DEF Writes
<1>7. r # <<>> => Head(r) = r[1] /\ 1 \in 1 .. Len(r)
  BY <1>1, HeadTailProperties, EmptySeq, LenProperties
<1> QED BY <1>4, <1>5, <1>6, <1>7 DEF s, r

LEMMA NothingTodo == Tidy(<<>>) /\ ~Writes(<<>>)
BY EmptySeq DEF Tidy, Writes

(* A step that is neither a find nor an open or write begins no writing. *)
LEMMA NotWriting ==
    ASSUME Kinds, NEW t \in Thread, Busy(t), Tidy(todo[t]),
           Head(todo[t]) \notin {"find", "open", "write"}
    PROVE  ~Writes(todo[t])
<1>1. Len(todo[t]) \in Nat /\ Len(todo[t]) > 0 /\ Head(todo[t]) = todo[t][1] BY Advance
<1>2. ASSUME NEW i \in 1 .. Len(todo[t]), todo[t][i] \in {"open", "write"} PROVE FALSE
  <2>1. i # 1 BY <1>1, <1>2
  <2>2. 1 \in 1 .. i - 1 BY <2>1
  <2> QED BY <1>1, <1>2, <2>2 DEF Tidy
<1> QED BY <1>2 DEF Writes

(* What a client does that adds no document and starts no upload. *)
LEMMA Shrinks ==
    ASSUME Kinds, UploadInv, NEW t \in Client, docs' \subseteq docs,
           /\ Busy(t) /\ ~At(t, "find")
           /\ Continue(t) \/ End(t)
           /\ \A s \in Thread : s # t => hand'[s] = hand[s] /\ mine'[s] = mine[s]
           /\ hand'[t] = hand[t] \/ Head(todo[t]) \notin {"find", "open", "write"}
           /\ \/ loop' = loop
              \/ todo'[t] = <<>> /\ loop = t
    PROVE  UploadInv'
<1>0. t \in Thread BY Clients
<1>1. \A s \in Client : s # t => todo'[s] = todo[s]
  BY Clients DEF Continue, End, Kinds
<1>2. ASSUME NEW s \in Client
      PROVE  /\ Tidy(todo'[s])
             /\ (todo'[s] # <<>> /\ Head(todo'[s]) = "find") => hand'[s].folder = mine'[s].id
             /\ Writes(todo'[s]) /\ ~(todo'[s] # <<>> /\ Head(todo'[s]) = "find") =>
                   /\ loop' = s
                   /\ \A d \in docs' : d.folder = hand'[s].folder /\ d.path = hand'[s].path
                                          => SameFile(d, hand'[s])
  <2>0. s \in Thread BY Clients
  <2>1. CASE s # t
    <3>1. todo'[s] = todo[s] /\ hand'[s] = hand[s] /\ mine'[s] = mine[s]
      BY <1>1, <2>0, <2>1
    <3>2. loop = s => loop' = s BY <2>1
    <3> QED BY <3>1, <3>2 DEF UploadInv, At, Busy, Found
  <2>2. CASE s = t
    <3>1. Tidy(todo[t]) BY DEF UploadInv
    <3>2. CASE todo'[t] = <<>> BY <2>2, <3>2, NothingTodo
    <3>3. CASE todo'[t] # <<>>
      <4>1. todo'[t] = Tail(todo[t]) BY <1>0, <3>3 DEF Continue, End, Kinds
      <4>2. /\ Tidy(todo'[t]) /\ ~(todo'[t] # <<>> /\ Head(todo'[t]) = "find")
            /\ Writes(todo'[t]) => Writes(todo[t])
        BY <1>0, <3>1, <4>1, TidyTail
      <4>3. Writes(todo[t]) => hand'[t] = hand[t] BY <1>0, <3>1, NotWriting
      <4>4. Writes(todo[t]) =>
              loop = t /\ \A d \in docs : d.folder = hand[t].folder /\ d.path = hand[t].path
                                            => SameFile(d, hand[t])
        BY DEF UploadInv, Found
      <4>5. loop' = loop BY <3>3
      <4> QED BY <2>2, <4>2, <4>3, <4>4, <4>5
    <3> QED BY <3>2, <3>3
  <2> QED BY <2>1, <2>2
<1> QED BY <1>2 DEF UploadInv, At, Busy, Found, SameFile

LEMMA QuietPlan ==
    ASSUME NEW s \in Seq(Steps), Quiet(s)
    PROVE  Tidy(s) /\ ~Writes(s) /\ ~(s # <<>> /\ Head(s) = "find")
<1>1. s # <<>> => Head(s) = s[1] /\ 1 \in 1 .. Len(s)
  BY HeadTailProperties, EmptySeq, LenProperties
<1> QED BY <1>1 DEF Quiet, Tidy, Writes

LEMMA UploadPlan == Tidy(Arriving) /\ Head(Arriving) = "find" /\ Arriving # <<>>
<1>1. Arriving # <<>> BY ArrivingPlan, EmptySeq
<1>2. Head(Arriving) = Arriving[1] BY <1>1, ArrivingPlan, HeadTailProperties
<1>3. ASSUME NEW i \in 1 .. 7, Arriving[i] \in {"open", "write"}, NEW j \in 1 .. i - 1
      PROVE  Arriving[j] \in {"find", "open", "write"}
  <2>1. i \in 1 .. 3 BY <1>3, ArrivingPlan
  <2>2. j = 1 \/ j = 2 BY <2>1
  <2> QED BY <2>2, ArrivingPlan
<1>4. \A i \in 1 .. 7 : Arriving[i] = "find" => i = 1 BY ArrivingPlan
<1>5. Len(Arriving) = 7 BY ArrivingPlan
<1> QED BY <1>1, <1>2, <1>3, <1>4, <1>5, ArrivingPlan DEF Tidy

LEMMA BeginUpload ==
    ASSUME Kinds, UploadInv, NEW t \in Client, NEW steps, NEW folder, NEW doc,
           Begin(t, steps, folder, doc),
           \/ steps \in Seq(Steps) /\ Quiet(steps)
           \/ steps = Arriving /\ doc.folder = folder.id
    PROVE  UploadInv'
<1>0. t \in Thread BY Clients
<1>1. ASSUME NEW s \in Client
      PROVE  /\ Tidy(todo'[s])
             /\ (todo'[s] # <<>> /\ Head(todo'[s]) = "find") => hand'[s].folder = mine'[s].id
             /\ Writes(todo'[s]) /\ ~(todo'[s] # <<>> /\ Head(todo'[s]) = "find") =>
                   /\ loop' = s
                   /\ \A d \in docs' : d.folder = hand'[s].folder /\ d.path = hand'[s].path
                                          => SameFile(d, hand'[s])
  <2>0. s \in Thread BY Clients
  <2>1. CASE s # t
    <3>1. todo'[s] = todo[s] /\ hand'[s] = hand[s] /\ mine'[s] = mine[s]
          /\ loop' = loop /\ docs' = docs
      BY <2>0, <2>1 DEF Begin, Kinds, disk
    <3> QED BY <3>1 DEF UploadInv, At, Busy, Found
  <2>2. CASE s = t
    <3>1. todo'[t] = steps /\ hand'[t] = doc /\ mine'[t] = folder
      BY <1>0 DEF Begin, Kinds
    <3>2. CASE steps \in Seq(Steps) /\ Quiet(steps) BY <2>2, <3>1, <3>2, QuietPlan
    <3>3. CASE steps = Arriving /\ doc.folder = folder.id BY <2>2, <3>1, <3>3, UploadPlan
    <3> QED BY <3>2, <3>3
  <2> QED BY <2>1, <2>2
<1> QED BY <1>1 DEF UploadInv, At, Busy, Found, SameFile

LEMMA RequestLibrary ==
    ASSUME Kinds, LibraryInv, NEW t \in Client, Request(t) PROVE LibraryInv'
<1>1. ASSUME NEW steps, NEW folder, NEW doc, Begin(t, steps, folder, doc),
             \/ steps \in Seq(Steps) /\ Quiet(steps)
             \/ steps = Arriving /\ doc.folder = folder.id
      PROVE  LibraryInv'
  <2>1. repaired' = repaired /\ docs' = docs BY <1>1 DEF Begin, disk
  <2>2. CASE repaired BY <2>1, <2>2 DEF LibraryInv
  <2>3. CASE ~repaired
    <3>1. UploadInv /\ OneDocument /\ ~At(Backfill, "write") BY <2>3 DEF LibraryInv
    <3>2. UploadInv' BY <1>1, <3>1, BeginUpload
    <3>3. todo'[Backfill] = todo[Backfill] BY <1>1, Clients DEF Begin, Kinds, Thread
    <3> QED BY <2>1, <3>1, <3>2, <3>3 DEF LibraryInv, OneDocument, At, Busy
  <2> QED BY <2>2, <2>3
<1>2. CASE CreateFolder(t) BY <1>1, <1>2, RegisteringPlan DEF CreateFolder
<1>3. CASE Upload(t)
  <2>1. PICK f \in Index, p \in File, x \in Text : Begin(t, Arriving, f, Doc(f.id, p, x))
    BY <1>3 DEF Upload
  <2>2. Doc(f.id, p, x).folder = f.id BY DEF Doc
  <2> QED BY <1>1, <2>1, <2>2
<1>4. CASE DeleteFolder(t) BY <1>1, <1>4, UnregisteringPlan DEF DeleteFolder
<1>5. CASE DeleteFile(t) BY <1>1, <1>5, RemovingPlan DEF DeleteFile
<1> QED BY <1>2, <1>3, <1>4, <1>5 DEF Request

(* The lookup: what it found is the one document of its file, or there is  *)
(* none; and it has the event loop to itself from now on.                  *)
LEMMA FindUpload ==
    ASSUME Kinds, UploadInv, OneDocument, NEW t \in Client, FindExisting(t) PROVE UploadInv'
<1>0. t \in Thread /\ t # None BY Clients
<1>1. /\ At(t, "find") /\ loop = None /\ docs' = docs /\ mine' = mine
      /\ Busy(t) /\ Tidy(todo[t]) /\ hand[t].folder = mine[t].id /\ hand[t] \in AnyDocument
  BY <1>0 DEF FindExisting, UploadInv, At, Kinds
<1>2. \A s \in Client : ~Found(s) BY <1>1, Clients DEF UploadInv
<1>3. CASE todo' = [todo EXCEPT ![t] = <<>>] /\ UNCHANGED <<hand, fresh, loop>>
  <2>1. ASSUME NEW s \in Client
        PROVE  /\ Tidy(todo'[s])
               /\ (todo'[s] # <<>> /\ Head(todo'[s]) = "find") => hand'[s].folder = mine'[s].id
               /\ ~(Writes(todo'[s]) /\ ~(todo'[s] # <<>> /\ Head(todo'[s]) = "find"))
    <3>1. CASE s = t BY <1>0, <1>3, <3>1, NothingTodo DEF Kinds
    <3>2. CASE s # t
      <4>1. todo'[s] = todo[s] /\ hand'[s] = hand[s] BY <1>3, <3>2, Clients DEF Kinds
      <4> QED BY <1>1, <1>2, <4>1 DEF UploadInv, Found, At, Busy
    <3> QED BY <3>1, <3>2
  <2> QED BY <2>1 DEF UploadInv, Found, At, Busy
<1>4. CASE /\ loop' = t /\ Continue(t)
           /\ \E vector \in {None, hand[t].text} :
                 \/ \E d \in {d \in InFolder(mine[t].id) : d.path = hand[t].path} :
                        hand' = [hand EXCEPT ![t].id = d.id, ![t].vector = vector]
                 \/ /\ {d \in InFolder(mine[t].id) : d.path = hand[t].path} = {}
                    /\ hand' = [hand EXCEPT ![t].id = fresh, ![t].vector = vector]
  <2>1. todo'[t] = Tail(todo[t]) BY <1>0, <1>4 DEF Continue, Kinds
  <2>2. Tidy(todo'[t]) /\ ~(todo'[t] # <<>> /\ Head(todo'[t]) = "find")
    BY <1>0, <1>1, <2>1, TidyTail
  <2>3. /\ hand'[t].folder = hand[t].folder /\ hand'[t].path = hand[t].path
        /\ \A s \in Thread : s # t => hand'[s] = hand[s]
    <3>1. PICK id, vector : hand' = [hand EXCEPT ![t].id = id, ![t].vector = vector]
      BY <1>4
    <3> QED BY <1>0, <1>1, <3>1 DEF Kinds, AnyDocument
  <2>4. ASSUME NEW e \in docs, e.folder = hand'[t].folder, e.path = hand'[t].path
        PROVE  e.id = hand'[t].id
    <3>1. e \in {d \in InFolder(mine[t].id) : d.path = hand[t].path}
      BY <1>1, <2>3, <2>4 DEF InFolder
    <3>2. PICK d \in {d \in InFolder(mine[t].id) : d.path = hand[t].path} :
              \E vector \in {None, hand[t].text} :
                 hand' = [hand EXCEPT ![t].id = d.id, ![t].vector = vector]
      BY <1>4, <3>1
    <3>3. d = e BY <3>1, <3>2 DEF OneDocument, InFolder
    <3>4. hand'[t].id = d.id BY <1>0, <1>1, <3>2 DEF Kinds, AnyDocument
    <3> QED BY <3>3, <3>4
  <2>5. ASSUME NEW s \in Client
        PROVE  /\ Tidy(todo'[s])
               /\ (todo'[s] # <<>> /\ Head(todo'[s]) = "find") => hand'[s].folder = mine'[s].id
               /\ (Writes(todo'[s]) /\ ~(todo'[s] # <<>> /\ Head(todo'[s]) = "find")) => s = t
    <3>1. CASE s = t BY <2>2, <3>1
    <3>2. CASE s # t
      <4>1. todo'[s] = todo[s] /\ hand'[s] = hand[s]
        BY <1>4, <2>3, <3>2, Clients DEF Continue, Kinds
      <4> QED BY <1>1, <1>2, <4>1 DEF UploadInv, Found, At, Busy
    <3> QED BY <3>1, <3>2
  <2> QED BY <1>1, <1>4, <2>4, <2>5 DEF UploadInv, Found, At, Busy, SameFile
<1> QED BY <1>3, <1>4 DEF FindExisting

LEMMA StepLibrary ==
    ASSUME Kinds, LibraryInv, NEW t \in Client, Step(t) PROVE LibraryInv'
<1>0. t \in Thread /\ t # Backfill /\ Backfill \in Thread BY Clients DEF Thread
<1>1. /\ Busy(t) /\ docs' \subseteq docs /\ repaired' = repaired
      /\ todo'[Backfill] = todo[Backfill]
  <2>1. Busy(t) /\ docs' \subseteq docs /\ repaired' = repaired
    BY DEF Step, Register, Unregister, EmptyIndex, SaveIndexFile, RemoveTree, FindExisting,
           OpenDocument, CountDocuments, MergeFolder, PickDocument, Unlink, Recall, Recount,
           disk, ghosts, At
  <2>2. Continue(t) \/ todo' = [todo EXCEPT ![t] = <<>>]
    BY DEF Step, Register, Unregister, EmptyIndex, SaveIndexFile, RemoveTree, FindExisting,
           OpenDocument, CountDocuments, MergeFolder, PickDocument, Unlink, Recall, Recount, End
  <2> QED BY <1>0, <2>1, <2>2 DEF Continue, Kinds
<1>2. CASE repaired BY <1>1, <1>2 DEF LibraryInv
<1>3. CASE ~repaired
  <2>1. UploadInv /\ OneDocument /\ ~At(Backfill, "write") BY <1>3 DEF LibraryInv
  <2>2. OneDocument' /\ ~At(Backfill, "write")' BY <1>1, <2>1 DEF OneDocument, At, Busy
  <2>3. CASE FindExisting(t)
    <3>1. UploadInv' BY <2>1, <2>3, FindUpload
    <3> QED BY <2>2, <3>1 DEF LibraryInv
  <2>4. CASE ~FindExisting(t)
    <3>1. ~At(t, "find") /\ (Continue(t) \/ End(t))
      BY <2>4 DEF Step, Register, Unregister, EmptyIndex, SaveIndexFile, RemoveTree,
           OpenDocument, CountDocuments, MergeFolder, PickDocument, Unlink, Recall, Recount, At
    <3>2. \/ loop' = loop
          \/ todo'[t] = <<>> /\ loop = t
      BY <1>0, <2>4 DEF Step, Register, Unregister, EmptyIndex, SaveIndexFile, RemoveTree,
           OpenDocument, CountDocuments, MergeFolder, PickDocument, Unlink, Recall, Recount,
           End, Kinds
    <3>3. CASE PickDocument(t)
      <4>1. Head(todo[t]) = "pick" /\ mine' = mine
            /\ \A s \in Thread : s # t => hand'[s] = hand[s]
        BY <1>0, <3>3 DEF PickDocument, At, Kinds
      <4>2. UploadInv' BY <1>1, <2>1, <3>1, <3>2, <4>1, Shrinks
      <4> QED BY <2>2, <4>2 DEF LibraryInv
    <3>4. CASE ~PickDocument(t)
      <4>1. hand' = hand /\ \A s \in Thread : s # t => mine'[s] = mine[s]
        BY <1>0, <2>4, <3>4 DEF Step, Register, Unregister, EmptyIndex, SaveIndexFile, RemoveTree,
             OpenDocument, CountDocuments, MergeFolder, Unlink, Recall, Recount, Kinds
      <4>2. UploadInv' BY <1>1, <2>1, <3>1, <3>2, <4>1, Shrinks
      <4> QED BY <2>2, <4>2 DEF LibraryInv
    <3> QED BY <3>3, <3>4
  <2> QED BY <2>3, <2>4
<1> QED BY <1>2, <1>3

(* Who writes is alone on the loop, and its document replaces the one that *)
(* was there for the file.                                                 *)
LEMMA WriteLibrary ==
    ASSUME Kinds, LibraryInv, NEW t \in Thread, WriteDocument(t) PROVE LibraryInv'
<1>1. /\ At(t, "write") /\ Continue(t) /\ Busy(t)
      /\ repaired' = repaired /\ hand' = hand /\ mine' = mine /\ loop' = loop
  BY DEF WriteDocument, At
<1>2. CASE repaired BY <1>1, <1>2 DEF LibraryInv
<1>3. CASE ~repaired
  <2>1. UploadInv /\ OneDocument /\ ~At(Backfill, "write") BY <1>3 DEF LibraryInv
  <2>2. t \in Client BY <1>1, <2>1 DEF Thread, Backfill
  <2>3. Tidy(todo[t]) BY <2>1, <2>2 DEF UploadInv
  <2>4. Found(t)
    <3>1. Len(todo[t]) > 0 /\ Len(todo[t]) \in Nat /\ todo[t][1] = "write"
      BY <1>1, Advance DEF At
    <3> QED BY <1>1, <3>1 DEF Found, Writes, At
  <2>5. /\ loop = t
        /\ \A d \in docs : d.folder = hand[t].folder /\ d.path = hand[t].path
                              => SameFile(d, hand[t])
    BY <2>1, <2>2, <2>4 DEF UploadInv
  <2> DEFINE others == {d \in docs : ~SameFile(d, hand[t])}
  <2>6. docs' \subseteq docs \/ docs' = others \cup {hand[t]} BY DEF WriteDocument
  <2>7. OneDocument'
    <3>1. CASE docs' \subseteq docs BY <2>1, <3>1 DEF OneDocument
    <3>2. CASE docs' = others \cup {hand[t]} BY <2>1, <2>5, <3>2 DEF OneDocument
    <3> QED BY <2>6, <3>1, <3>2
  <2>8. todo'[t] = Tail(todo[t]) /\ \A s \in Thread : s # t => todo'[s] = todo[s]
    BY <1>1 DEF Continue, Kinds
  <2>9. ~At(Backfill, "write")' BY <2>1, <2>2, <2>8, Clients DEF At, Busy, Thread
  <2>10. ASSUME NEW s \in Client
         PROVE  /\ Tidy(todo'[s])
                /\ (todo'[s] # <<>> /\ Head(todo'[s]) = "find") => hand[s].folder = mine[s].id
                /\ (Writes(todo'[s]) /\ ~(todo'[s] # <<>> /\ Head(todo'[s]) = "find")) => s = t
    <3>1. CASE s = t BY <1>1, <2>3, <2>8, <3>1, TidyTail
    <3>2. CASE s # t
      <4>1. todo'[s] = todo[s] BY <2>8, <3>2, Clients
      <4> QED BY <2>1, <2>5, <3>2, <4>1 DEF UploadInv, Found, At, Busy
    <3> QED BY <3>1, <3>2
  <2>11. \A d \in docs' : d.folder = hand[t].folder /\ d.path = hand[t].path
                             => SameFile(d, hand[t])
    BY <2>5, <2>6 DEF SameFile
  <2>12. UploadInv' BY <1>1, <2>5, <2>10, <2>11 DEF UploadInv, Found, At, Busy, SameFile
  <2> QED BY <2>7, <2>9, <2>12 DEF LibraryInv
<1> QED BY <1>2, <1>3

(* The backfill, as long as it has opened nothing. *)
LEMMA SweepLibrary == ASSUME Kinds, LibraryInv, Sweep PROVE LibraryInv'
<1>0. Backfill \in Thread BY DEF Thread
<1>1. CASE OpenBlob
  <2>1. CASE hand[Backfill].folder \in dirs BY <1>1, <2>1 DEF OpenBlob, LibraryInv
  <2>2. CASE hand[Backfill].folder \notin dirs
    <3>1. /\ todo' = [todo EXCEPT ![Backfill] = <<>>]
          /\ docs' = docs /\ hand' = hand /\ mine' = mine /\ loop' = loop /\ repaired' = repaired
      BY <1>1, <2>2 DEF OpenBlob
    <3>2. todo'[Backfill] = <<>> /\ \A s \in Client : todo'[s] = todo[s]
      BY <1>0, <3>1, Clients DEF Kinds
    <3> QED BY <3>1, <3>2 DEF LibraryInv, UploadInv, OneDocument, Found, At, Busy, SameFile
  <2> QED BY <2>1, <2>2
<1>2. CASE ~OpenBlob
  <2>1. /\ docs' = docs /\ mine' = mine /\ loop' = loop /\ repaired' = repaired
        /\ hand' = hand \/ \E d : hand' = [hand EXCEPT ![Backfill] = d]
    BY <1>2 DEF Sweep, BackfillStart, VisitFolder, Embed, BackfillEnd, disk, ghosts
  <2>2. \/ todo' = todo
        \/ \E s \in {<<>>, <<"visit">>, <<"blob", "write", "visit">>} :
               todo' = [todo EXCEPT ![Backfill] = s]
    BY <1>2 DEF Sweep, BackfillStart, VisitFolder, Embed, BackfillEnd
  <2>3. \A s \in Client : todo'[s] = todo[s] /\ hand'[s] = hand[s]
    BY <1>0, <2>1, <2>2, Clients DEF Kinds
  <2>4. ~At(Backfill, "write") => ~At(Backfill, "write")'
    <3>1. CASE todo' = todo BY <3>1 DEF At, Busy
    <3>2. ASSUME NEW s \in {<<>>, <<"visit">>, <<"blob", "write", "visit">>},
                 todo' = [todo EXCEPT ![Backfill] = s]
          PROVE  ~At(Backfill, "write")'
      <4>1. todo'[Backfill] = s BY <1>0, <3>2 DEF Kinds
      <4> QED BY <4>1 DEF At, Busy
    <3> QED BY <2>2, <3>1, <3>2
  <2> QED BY <2>1, <2>3, <2>4 DEF LibraryInv, UploadInv, OneDocument, Found, At, Busy, SameFile
<1> QED BY <1>1, <1>2

LEMMA LibraryInit == Init => LibraryInv
<1> SUFFICES ASSUME Init PROVE LibraryInv OBVIOUS
<1>1. PICK r \in Root, p \in File, x \in Text :
        LET d == [folder |-> 1, id |-> 2, path |-> p, text |-> x, vector |-> None]
        IN docs = {d} /\ todo = [t \in Thread |-> <<>>]
  BY DEF Init
<1>2. \A t \in Thread : todo[t] = <<>> BY <1>1
<1>3. OneDocument BY <1>1 DEF OneDocument
<1>4. UploadInv BY <1>2, Clients, NothingTodo DEF UploadInv, Found, At, Busy
<1>5. ~At(Backfill, "write") BY <1>2 DEF At, Busy, Thread
<1> QED BY <1>3, <1>4, <1>5 DEF LibraryInv

LEMMA LibraryNext == Kinds /\ LibraryInv /\ [Next]_vars => LibraryInv'
<1> SUFFICES ASSUME Kinds, LibraryInv, [Next]_vars PROVE LibraryInv' OBVIOUS
<1>1. CASE Restart
  <2>1. \A t \in Thread : todo'[t] = <<>> BY <1>1 DEF Restart
  <2>2. docs' = docs /\ repaired' = repaired BY <1>1 DEF Restart, disk
  <2>3. UploadInv' BY <2>1, Clients, NothingTodo DEF UploadInv, Found, At, Busy
  <2>4. ~At(Backfill, "write")' BY <2>1 DEF At, Busy, Thread
  <2> QED BY <2>2, <2>3, <2>4 DEF LibraryInv, OneDocument
<1>2. CASE UNCHANGED vars
  BY <1>2 DEF vars, disk, ghosts, LibraryInv, UploadInv, OneDocument, Found, At, Busy, SameFile
<1> QED BY <1>1, <1>2, RequestLibrary, StepLibrary, WriteLibrary, SweepLibrary DEF Next

(* As long as the backfill has opened no document, a file has one document *)
(* however many uploads, removals and restarts overlap: an upload looks up *)
(* what it replaces and writes it without giving the event loop away.      *)
THEOREM OneDocumentAlways == Spec => []OneDocumentPerFileUnrepaired
<1>1. LibraryInv => OneDocumentPerFileUnrepaired
  BY DEF LibraryInv, OneDocument, OneDocumentPerFileUnrepaired
<1> QED BY <1>1, KindsAlways, LibraryInit, LibraryNext, PTL DEF Spec

-----------------------------------------------------------------------------
(* The library, while only uploads overlap *)

(* What a request or the backfill still has to do.                         *)
Opening == <<"open", "write", "count", "merge", "empty", "save">>
Writing == <<"write", "count", "merge", "empty", "save">>
Counting == <<"count", "merge", "empty", "save">>
Merging == <<"merge", "empty", "save">>
Emptying == <<"empty", "save">>
Saving == <<"save">>
Unlisting == <<"empty", "save", "rmtree">>
Delisting == <<"save", "rmtree">>
Clearing == <<"rmtree">>
Unlinking == <<"unlink", "recall", "recount", "empty", "save">>
Recalling == <<"recall", "recount", "empty", "save">>
Recounting == <<"recount", "empty", "save">>
Visiting == <<"visit">>
Embedded == <<"blob", "write", "visit">>
Rewriting == <<"write", "visit">>

Uploads == {Opening, Writing, Counting, Merging, Emptying, Saving}

SamePath(d, e) == d.folder = e.folder /\ d.path = e.path
Of(ds, g) == {d \in ds : d.folder = g}
Afield(ds, g) == {d \in ds : d.folder # g}
Unlike(ds, h) == {d \in ds : ~SameFile(d, h)}
Others(tl, h) == {e \in tl : ~(e.folder = h.folder /\ e.path = h.path)}
Apart(ds, h) == \A d \in ds : ~SameFile(d, h) /\ ~SamePath(d, h)

(* These documents are one to a file and id, and, but for what is left of  *)
(* folders lf, what the client was told; ids from n on are unused.         *)
Distinct(ds) == \A d, e \in ds : SameFile(d, e) \/ SamePath(d, e) => d = e
Stored(ds, tl, lf, n) ==
    /\ Distinct(ds)
    /\ \A d \in ds : d.folder \in lf \/ EntryOf(d) \in tl
    /\ \A e \in tl : e.folder \notin lf /\ \E d \in ds : EntryOf(d) = e
    /\ \A d \in ds : d.id < n
    /\ \A g \in lf : g \in Nat /\ g < n

(* The folders have these documents, and those not excepted their number.  *)
Listed(fs, ds, lf, n, but) ==
    /\ \A f \in fs : f.id < n /\ f.id \notin lf
    /\ \A f \in fs : f.id \in but \/ f.count = Cardinality(Of(ds, f.id))
    /\ \A d \in ds : d.folder \in lf \/ \E f \in fs : f.id = d.folder

Settled == ~torn /\ Listed(folders, docs, left, fresh, {}) /\ Stored(docs, told, left, fresh)

Waits(t) == todo[t] = Arriving
Acts(t) == Busy(t) /\ ~Waits(t)
Runs(t) == t \in Client /\ loop = t

Arrives(t) ==
    /\ hand[t].folder = mine[t].id
    /\ \E f \in folders : f.id = mine[t].id

(* Where a request stands, and how far the library is from settled there.  *)
ToOpen(t) ==
    /\ todo[t] = Opening /\ t \in Client
    /\ Settled /\ Arrives(t) /\ hand[t].id < fresh
    /\ \A d \in docs : SameFile(d, hand[t]) <=> SamePath(d, hand[t])

ToWrite(t) ==
    /\ todo[t] = Writing /\ t \in Client
    /\ ~torn /\ Arrives(t) /\ hand[t].id < fresh /\ opened[t]
    /\ Apart(docs, hand[t])
    /\ Listed(folders, docs, left, fresh, {mine[t].id})
    /\ Stored(docs, Others(told, hand[t]), left, fresh)

Uncounted(t) ==
    /\ ~torn /\ Stored(docs, told, left, fresh)
    /\ Listed(folders, docs, left, fresh, {mine[t].id})

ToCount(t) == todo[t] = Counting /\ t \in Client /\ Uncounted(t)

ToMerge(t) ==
    /\ todo[t] = Merging /\ t \in Client /\ Uncounted(t)
    /\ mine[t].count = Cardinality(Of(docs, mine[t].id))

ToSave(t) ==
    /\ todo[t] \in {Emptying, Saving} /\ t \in Client
    /\ torn <=> todo[t] = Saving
    /\ Stored(docs, told, left, fresh) /\ Listed(seen[t], docs, left, fresh, {})
    /\ loop = t => \A f \in folders : \E g \in seen[t] : g.id = f.id

ToRegister(t) ==
    /\ todo[t] = Registering /\ t \in Client
    /\ Settled /\ mine[t].count = 0 /\ mine[t].id < fresh /\ mine[t].id \notin left
    /\ \A d \in docs : d.folder # mine[t].id

ToUnregister(t) == todo[t] = Unregistering /\ t \in Client /\ Settled

Dropped(fs, g) ==
    /\ Stored(docs, told, left, fresh)
    /\ g < fresh /\ \A f \in fs : f.id # g
    /\ Listed(fs, Afield(docs, g), left, fresh, {})

ToDelist(t) ==
    /\ todo[t] \in {Unlisting, Delisting} /\ t \in Client
    /\ torn <=> todo[t] = Delisting
    /\ Dropped(seen[t], mine[t].id)

ToClear(t) == todo[t] = Clearing /\ t \in Client /\ ~torn /\ Dropped(folders, mine[t].id)

ToPick(t) ==
    /\ todo[t] = Removing /\ t \in Client
    /\ Settled /\ \E f \in folders : f.id = mine[t].id

ToUnlink(t) ==
    /\ todo[t] = Unlinking /\ t \in Client
    /\ Settled /\ hand[t] \in docs /\ hand[t].folder = mine[t].id
    /\ \E f \in folders : f.id = mine[t].id

ToRecall(t) == todo[t] = Recalling /\ t \in Client /\ Uncounted(t)

ToRecount(t) ==
    /\ todo[t] = Recounting /\ t \in Client
    /\ ~torn /\ Stored(docs, told, left, fresh)
    /\ Listed(seen[t], docs, left, fresh, {mine[t].id})

ToVisit(t) == todo[t] = Visiting /\ t = Backfill /\ Settled /\ batch \subseteq docs

ToBlob(t) ==
    /\ todo[t] = Embedded /\ t = Backfill
    /\ Settled /\ batch \subseteq docs
    /\ \A b \in batch : ~SameFile(b, hand[t])
    /\ \E d \in docs : SameFile(d, hand[t]) /\ EntryOf(d) = EntryOf(hand[t])

ToRewrite(t) ==
    /\ todo[t] = Rewriting /\ t = Backfill
    /\ ~torn /\ opened[t] /\ batch \subseteq docs
    /\ \A d \in docs : ~SameFile(d, hand[t])
    /\ Listed(folders, docs \cup {hand[t]}, left, fresh, {})
    /\ Stored(docs \cup {hand[t]}, told, left, fresh)

Underway(t) ==
    \/ ToOpen(t) \/ ToWrite(t) \/ ToCount(t) \/ ToMerge(t) \/ ToSave(t)
    \/ ToRegister(t) \/ ToUnregister(t) \/ ToDelist(t) \/ ToClear(t)
    \/ ToPick(t) \/ ToUnlink(t) \/ ToRecall(t) \/ ToRecount(t)
    \/ ToVisit(t) \/ ToBlob(t) \/ ToRewrite(t)

(* At most one thread is under way, and only uploads wait meanwhile.       *)
Alone ==
    /\ due => ~Busy(Backfill)
    /\ \A t \in Client : loop = t => todo[t] \in Uploads
    /\ \A s, t \in Thread : (Acts(t) /\ Busy(s) /\ s # t) => (Waits(s) /\ Runs(t))

CalmInv ==
    /\ Alone
    /\ (\A t \in Thread : ~Acts(t)) => Settled
    /\ \A t \in Thread : Acts(t) => Underway(t)
    /\ \A t \in Thread : Waits(t) => t \in Client /\ Arrives(t)

KeptInv == calm => CalmInv

LEMMA Plans ==
    /\ Head(Opening) = "open" /\ Tail(Opening) = Writing
    /\ Head(Writing) = "write" /\ Tail(Writing) = Counting
    /\ Head(Counting) = "count" /\ Tail(Counting) = Merging
    /\ Head(Merging) = "merge" /\ Tail(Merging) = Emptying
    /\ Head(Emptying) = "empty" /\ Tail(Emptying) = Saving
    /\ Head(Saving) = "save" /\ Tail(Saving) = <<>>
    /\ Head(Unlisting) = "empty" /\ Tail(Unlisting) = Delisting
    /\ Head(Delisting) = "save" /\ Tail(Delisting) = Clearing
    /\ Head(Clearing) = "rmtree" /\ Tail(Clearing) = <<>>
    /\ Head(Unlinking) = "unlink" /\ Tail(Unlinking) = Recalling
    /\ Head(Recalling) = "recall" /\ Tail(Recalling) = Recounting
    /\ Head(Recounting) = "recount" /\ Tail(Recounting) = Emptying
    /\ Head(Visiting) = "visit" /\ Tail(Visiting) = <<>>
    /\ Head(Embedded) = "blob" /\ Tail(Embedded) = Rewriting
    /\ Head(Rewriting) = "write" /\ Tail(Rewriting) = Visiting
BY DEF Opening, Writing, Counting, Merging, Emptying, Saving, Unlisting, Delisting, Clearing,
       Unlinking, Recalling, Recounting, Visiting, Embedded, Rewriting

LEMMA Joined ==
    ASSUME NEW p \in Seq(Steps), NEW s \in Seq(Steps), NEW w \in Seq(Steps),
           Len(w) = Len(p) + Len(s),
           \A i \in 1 .. Len(p) + Len(s) : w[i] = IF i <= Len(p) THEN p[i] ELSE s[i - Len(p)]
    PROVE  p \o s = w
<1>1. /\ p \o s \in Seq(Steps) /\ Len(p \o s) = Len(p) + Len(s)
      /\ \A i \in 1 .. Len(p) + Len(s) : (p \o s)[i] = IF i <= Len(p) THEN p[i] ELSE s[i - Len(p)]
  BY Concat
<1>2. \A i \in 1 .. Len(w) : (p \o s)[i] = w[i] BY <1>1
<1> QED BY <1>1, <1>2, SeqEqual

LEMMA JoinedPlans ==
    /\ Arriving = <<"find", "open", "write", "count", "merge", "empty", "save">>
    /\ Registering = <<"register", "empty", "save">>
    /\ Unregistering = <<"unregister", "empty", "save", "rmtree">>
    /\ Removing = <<"pick", "unlink", "recall", "recount", "empty", "save">>
<1>1. Arriving = <<"find", "open", "write", "count", "merge", "empty", "save">>
  <2> DEFINE p == <<"find", "open", "write", "count", "merge">>
             w == <<"find", "open", "write", "count", "merge", "empty", "save">>
  <2>1. p \in Seq(Steps) /\ SaveIndex \in Seq(Steps) /\ w \in Seq(Steps) BY DEF Steps, SaveIndex
  <2>2. Len(w) = Len(p) + Len(SaveIndex) BY DEF SaveIndex
  <2>3. \A i \in 1 .. Len(p) + Len(SaveIndex) :
            w[i] = IF i <= Len(p) THEN p[i] ELSE SaveIndex[i - Len(p)]
    BY DEF SaveIndex
  <2>4. Arriving = p \o SaveIndex BY DEF Arriving
  <2> HIDE DEF p, w
  <2>5. p \o SaveIndex = w BY <2>1, <2>2, <2>3, Joined
  <2> QED BY <2>4, <2>5 DEF w
<1>2. Registering = <<"register", "empty", "save">>
  <2> DEFINE p == <<"register">>
             w == <<"register", "empty", "save">>
  <2>1. p \in Seq(Steps) /\ SaveIndex \in Seq(Steps) /\ w \in Seq(Steps) BY DEF Steps, SaveIndex
  <2>2. Len(w) = Len(p) + Len(SaveIndex) BY DEF SaveIndex
  <2>3. \A i \in 1 .. Len(p) + Len(SaveIndex) :
            w[i] = IF i <= Len(p) THEN p[i] ELSE SaveIndex[i - Len(p)]
    BY DEF SaveIndex
  <2>4. Registering = p \o SaveIndex BY DEF Registering
  <2> HIDE DEF p, w
  <2>5. p \o SaveIndex = w BY <2>1, <2>2, <2>3, Joined
  <2> QED BY <2>4, <2>5 DEF w
<1>3. Removing = <<"pick", "unlink", "recall", "recount", "empty", "save">>
  <2> DEFINE p == <<"pick", "unlink", "recall", "recount">>
             w == <<"pick", "unlink", "recall", "recount", "empty", "save">>
  <2>1. p \in Seq(Steps) /\ SaveIndex \in Seq(Steps) /\ w \in Seq(Steps) BY DEF Steps, SaveIndex
  <2>2. Len(w) = Len(p) + Len(SaveIndex) BY DEF SaveIndex
  <2>3. \A i \in 1 .. Len(p) + Len(SaveIndex) :
            w[i] = IF i <= Len(p) THEN p[i] ELSE SaveIndex[i - Len(p)]
    BY DEF SaveIndex
  <2>4. Removing = p \o SaveIndex BY DEF Removing
  <2> HIDE DEF p, w
  <2>5. p \o SaveIndex = w BY <2>1, <2>2, <2>3, Joined
  <2> QED BY <2>4, <2>5 DEF w
<1>4. Unregistering = <<"unregister", "empty", "save", "rmtree">>
  <2> DEFINE p == <<"unregister">>
             w == <<"unregister", "empty", "save">>
             q == <<"rmtree">>
             v == <<"unregister", "empty", "save", "rmtree">>
  <2>1. /\ p \in Seq(Steps) /\ SaveIndex \in Seq(Steps) /\ w \in Seq(Steps)
        /\ q \in Seq(Steps) /\ v \in Seq(Steps)
    BY DEF Steps, SaveIndex
  <2>2. Len(w) = Len(p) + Len(SaveIndex) /\ Len(v) = Len(w) + Len(q) BY DEF SaveIndex
  <2>3. /\ \A i \in 1 .. Len(p) + Len(SaveIndex) :
               w[i] = IF i <= Len(p) THEN p[i] ELSE SaveIndex[i - Len(p)]
        /\ \A i \in 1 .. Len(w) + Len(q) : v[i] = IF i <= Len(w) THEN w[i] ELSE q[i - Len(w)]
    BY DEF SaveIndex
  <2>4. Unregistering = p \o SaveIndex \o q BY DEF Unregistering
  <2> HIDE DEF p, w, q, v
  <2>5. p \o SaveIndex = w BY <2>1, <2>2, <2>3, Joined
  <2>6. w \o q = v BY <2>1, <2>2, <2>3, Joined
  <2> QED BY <2>4, <2>5, <2>6 DEF v
<1> QED BY <1>1, <1>2, <1>3, <1>4

LEMMA RequestPlans ==
    /\ Head(Arriving) = "find" /\ Tail(Arriving) = Opening /\ Arriving # <<>>
    /\ Head(Registering) = "register" /\ Tail(Registering) = Emptying /\ Registering # <<>>
    /\ Head(Unregistering) = "unregister" /\ Tail(Unregistering) = Unlisting
    /\ Unregistering # <<>>
    /\ Head(Removing) = "pick" /\ Tail(Removing) = Unlinking /\ Removing # <<>>
BY JoinedPlans DEF Opening, Emptying, Unlisting, Unlinking

LEMMA PlansToDo ==
    /\ Emptying # Saving /\ Unlisting # Delisting
    /\ Opening # <<>> /\ Writing # <<>> /\ Counting # <<>> /\ Merging # <<>> /\ Emptying # <<>>
    /\ Saving # <<>> /\ Unlisting # <<>> /\ Delisting # <<>> /\ Clearing # <<>>
    /\ Unlinking # <<>> /\ Recalling # <<>> /\ Recounting # <<>>
    /\ Visiting # <<>> /\ Embedded # <<>> /\ Rewriting # <<>>
BY DEF Opening, Writing, Counting, Merging, Emptying, Saving, Unlisting, Delisting, Clearing,
       Unlinking, Recalling, Recounting, Visiting, Embedded, Rewriting

-----------------------------------------------------------------------------
(* Documents and folders *)

(* Only one folder's documents changed, and it is listed.                  *)
LEMMA ListedBut ==
    ASSUME NEW fs, NEW ds, NEW more, NEW lf, NEW n, NEW g, NEW but \in SUBSET {g},
           Listed(fs, ds, lf, n, but),
           \A x : x # g => Of(more, x) = Of(ds, x),
           \E f \in fs : f.id = g
    PROVE  Listed(fs, more, lf, n, {g})
<1>1. \A f \in fs : f.id < n /\ f.id \notin lf BY DEF Listed
<1>2. \A f \in fs : f.id \in {g} \/ f.count = Cardinality(Of(more, f.id)) BY DEF Listed
<1>3. ASSUME NEW d \in more PROVE d.folder \in lf \/ \E f \in fs : f.id = d.folder
  <2>1. CASE d.folder = g BY <2>1
  <2>2. CASE d.folder # g
    <3>1. d \in Of(more, d.folder) BY DEF Of
    <3>2. d \in ds BY <2>2, <3>1 DEF Of
    <3> QED BY <3>2 DEF Listed
  <2> QED BY <2>1, <2>2
<1> QED BY <1>1, <1>2, <1>3 DEF Listed

(* The excepted folder got its number.                                     *)
LEMMA ListedAll ==
    ASSUME NEW fs, NEW ds, NEW lf, NEW n, NEW g, NEW gs, Listed(fs, ds, lf, n, {g}),
           \A h \in gs : \/ h \in fs /\ h.id # g
                         \/ h.id = g /\ h.count = Cardinality(Of(ds, g)) /\ \E f \in fs : f.id = g,
           \A f \in fs : \E h \in gs : h.id = f.id
    PROVE  Listed(gs, ds, lf, n, {})
<1>1. \A h \in gs : h.id < n /\ h.id \notin lf BY DEF Listed
<1>2. \A h \in gs : h.count = Cardinality(Of(ds, h.id)) BY DEF Listed
<1>3. \A d \in ds : d.folder \in lf \/ \E h \in gs : h.id = d.folder BY DEF Listed
<1> QED BY <1>1, <1>2, <1>3 DEF Listed

LEMMA ListedMore ==
    ASSUME NEW fs, NEW ds, NEW lf, NEW n, NEW g, Listed(fs, ds, lf, n, {}) PROVE Listed(fs, ds, lf, n, {g})
BY DEF Listed

(* The document of a file goes, and comes back.                            *)
LEMMA StoredUnlike ==
    ASSUME NEW ds, NEW tl, NEW lf, NEW n, NEW h, Stored(ds, tl, lf, n),
           \A d \in ds : SameFile(d, h) <=> SamePath(d, h)
    PROVE  Stored(Unlike(ds, h), Others(tl, h), lf, n) /\ Apart(Unlike(ds, h), h)
<1> DEFINE us == Unlike(ds, h)
<1>1. \A d \in us : d \in ds /\ ~SameFile(d, h) /\ ~SamePath(d, h) BY DEF Unlike
<1>2. \A d \in us : EntryOf(d).folder = d.folder /\ EntryOf(d).path = d.path BY DEF EntryOf
<1>3. \A d \in us : d.folder \in lf \/ EntryOf(d) \in Others(tl, h)
  BY <1>1, <1>2 DEF Stored, Others, SamePath
<1>4. ASSUME NEW e \in Others(tl, h) PROVE e.folder \notin lf /\ \E d \in us : EntryOf(d) = e
  <2>1. PICK d \in ds : EntryOf(d) = e BY <1>4 DEF Stored, Others
  <2>2. d.folder = e.folder /\ d.path = e.path BY <2>1 DEF EntryOf
  <2>3. ~SamePath(d, h) BY <1>4, <2>2 DEF Others, SamePath
  <2>4. e.folder \notin lf BY <1>4 DEF Stored, Others
  <2> QED BY <2>1, <2>3, <2>4 DEF Unlike
<1>5. Distinct(us) /\ (\A d \in us : d.id < n) /\ \A g \in lf : g \in Nat /\ g < n
  BY <1>1 DEF Stored, Distinct
<1> QED BY <1>1, <1>3, <1>4, <1>5 DEF Stored, Apart

LEMMA StoredWith ==
    ASSUME NEW ds, NEW tl, NEW lf, NEW n, NEW h, Stored(ds, tl, lf, n), Apart(ds, h), h.id < n,
           h.folder \notin lf
    PROVE  Stored(ds \cup {h}, tl \cup {EntryOf(h)}, lf, n)
<1> DEFINE us == ds \cup {h}
<1>1. Distinct(us) BY DEF Stored, Distinct, Apart, SameFile, SamePath
<1>2. \A d \in us : d.folder \in lf \/ EntryOf(d) \in tl \cup {EntryOf(h)} BY DEF Stored
<1>3. \A e \in tl \cup {EntryOf(h)} : e.folder \notin lf /\ \E d \in us : EntryOf(d) = e
  <2>1. EntryOf(h).folder = h.folder BY DEF EntryOf
  <2> QED BY <2>1 DEF Stored
<1>4. (\A d \in us : d.id < n) /\ \A g \in lf : g \in Nat /\ g < n BY DEF Stored
<1> QED BY <1>1, <1>2, <1>3, <1>4 DEF Stored

LEMMA StoredWithout ==
    ASSUME NEW ds, NEW tl, NEW lf, NEW n, NEW h \in ds, Stored(ds, tl, lf, n)
    PROVE  Stored(Unlike(ds, h), Others(tl, h), lf, n)
<1>1. \A d \in ds : SameFile(d, h) <=> SamePath(d, h)
  BY DEF Stored, Distinct, SameFile, SamePath
<1> QED BY <1>1, StoredUnlike

(* A folder goes, or some of it is left.                                   *)
LEMMA StoredAfield ==
    ASSUME NEW ds, NEW tl, NEW lf, NEW n, NEW g \in Nat, g < n, Stored(ds, tl, lf, n),
           NEW us, Afield(ds, g) \subseteq us, us \subseteq ds,
           NEW new, lf \subseteq new, new \subseteq lf \cup {g},
           us = Afield(ds, g) \/ g \in new
    PROVE  Stored(us, {e \in tl : e.folder # g}, new, n)
<1>1. \A d : EntryOf(d).folder = d.folder BY DEF EntryOf
<1>2. ASSUME NEW d \in us PROVE d.folder \in new \/ EntryOf(d) \in {e \in tl : e.folder # g}
  <2>1. d \in ds /\ (d.folder \in lf \/ EntryOf(d) \in tl) BY DEF Stored
  <2>2. d.folder # g \/ g \in new BY DEF Afield
  <2> QED BY <1>1, <2>1, <2>2
<1>3. ASSUME NEW e \in tl, e.folder # g PROVE e.folder \notin new /\ \E d \in us : EntryOf(d) = e
  <2>1. PICK d \in ds : EntryOf(d) = e BY DEF Stored
  <2>2. d \in us BY <1>1, <1>3, <2>1 DEF Afield
  <2>3. e.folder \notin lf BY DEF Stored
  <2> QED BY <1>3, <2>1, <2>2, <2>3
<1>4. Distinct(us) /\ \A d \in us : d.id < n BY DEF Stored, Distinct
<1>5. \A f \in new : f \in Nat /\ f < n BY DEF Stored
<1> QED BY <1>2, <1>3, <1>4, <1>5 DEF Stored

LEMMA ListedAfield ==
    ASSUME NEW fs, NEW ds, NEW lf, NEW n, NEW g, \A f \in fs : f.id # g,
           Listed(fs, Afield(ds, g), lf, n, {}),
           NEW us, Afield(ds, g) \subseteq us, us \subseteq ds,
           NEW new, lf \subseteq new, new \subseteq lf \cup {g},
           us = Afield(ds, g) \/ g \in new
    PROVE  Listed(fs, us, new, n, {})
<1> DEFINE as == Afield(ds, g)
<1>1. ASSUME NEW f \in fs PROVE f.id < n /\ f.id \notin new /\ f.count = Cardinality(Of(us, f.id))
  <2>1. f.id # g OBVIOUS
  <2>2. Of(us, f.id) = Of(as, f.id) BY <2>1 DEF Of, Afield
  <2>3. f.id < n /\ f.id \notin lf /\ f.count = Cardinality(Of(as, f.id)) BY DEF Listed
  <2> QED BY <2>1, <2>2, <2>3
<1>2. ASSUME NEW d \in us PROVE d.folder \in new \/ \E f \in fs : f.id = d.folder
  <2>1. CASE d.folder = g
    <3>1. d \notin as BY <2>1 DEF Afield
    <3> QED BY <2>1, <3>1
  <2>2. CASE d.folder # g
    <3>1. d \in as BY <2>2 DEF Afield
    <3> QED BY <3>1 DEF Listed
  <2> QED BY <2>1, <2>2
<1> QED BY <1>1, <1>2 DEF Listed

LEMMA UnlikeOf ==
    ASSUME NEW ds, NEW h, NEW g, g # h.folder
    PROVE  Of(Unlike(ds, h), g) = Of(ds, g) /\ Of(ds \cup {h}, g) = Of(ds, g)
BY DEF Unlike, Of, SameFile

(* A document takes the place of another with its entry.                   *)
LEMMA Exchanged ==
    ASSUME NEW fs, NEW ds, IsFiniteSet(ds), NEW tl, NEW lf, NEW n, NEW d \in ds, NEW h,
           SameFile(d, h), EntryOf(d) = EntryOf(h),
           Stored(ds, tl, lf, n), Listed(fs, ds, lf, n, {})
    PROVE  /\ Stored(Unlike(ds, h) \cup {h}, tl, lf, n)
           /\ Listed(fs, Unlike(ds, h) \cup {h}, lf, n, {})
<1> DEFINE us == Unlike(ds, h)
           ws == us \cup {h}
<1>1. d.folder = h.folder /\ d.id = h.id /\ d.path = h.path BY DEF SameFile, EntryOf
<1>2. \A x \in ds : SameFile(x, h) \/ SamePath(x, h) => x = d
  BY <1>1 DEF Stored, Distinct, SameFile, SamePath
<1>3. \A x \in ds : SameFile(x, h) <=> SamePath(x, h)
  BY <1>1, <1>2 DEF SameFile, SamePath
<1>4. ds = us \cup {d} /\ d \notin us /\ Apart(us, h)
  BY <1>2, <1>3 DEF Unlike, Apart
<1>5. h \notin us BY DEF Unlike, SameFile
<1>6. Stored(ws, tl, lf, n)
  <2>1. Distinct(ws) BY <1>4 DEF Stored, Distinct, Apart, SameFile, SamePath
  <2>2. \A x \in ws : x.folder \in lf \/ EntryOf(x) \in tl BY <1>1, <1>4 DEF Stored
  <2>3. \A e \in tl : e.folder \notin lf /\ \E x \in ws : EntryOf(x) = e BY <1>4 DEF Stored
  <2>4. (\A x \in ws : x.id < n) /\ \A g \in lf : g \in Nat /\ g < n BY <1>1, <1>4 DEF Stored
  <2> QED BY <2>1, <2>2, <2>3, <2>4 DEF Stored
<1>7. ASSUME NEW g PROVE Cardinality(Of(ws, g)) = Cardinality(Of(ds, g))
  <2>1. CASE g # h.folder
    <3>1. Of(ws, g) = Of(ds, g) BY <1>1, <1>4, <2>1 DEF Of
    <3> QED BY <3>1
  <2>2. CASE g = h.folder
    <3> DEFINE a == Of(us, g)
    <3>1. Of(ds, g) = a \cup {d} /\ Of(ws, g) = a \cup {h} BY <1>1, <1>4, <2>2 DEF Of
    <3>2. d \notin a /\ h \notin a BY <1>4, <1>5 DEF Of
    <3>3. a \in SUBSET ds BY <1>4 DEF Of
    <3>4. IsFiniteSet(a) BY <3>3, FS_Subset
    <3> HIDE DEF a
    <3>5. Cardinality(a \cup {d}) = Cardinality(a) + 1 BY <3>2, <3>4, FS_AddElement
    <3>6. Cardinality(a \cup {h}) = Cardinality(a) + 1 BY <3>2, <3>4, FS_AddElement
    <3> QED BY <3>1, <3>5, <3>6
  <2> QED BY <2>1, <2>2
<1>8. Listed(fs, ws, lf, n, {})
  <2>1. \A x \in ws : x.folder \in lf \/ \E f \in fs : f.id = x.folder BY <1>1, <1>4 DEF Listed
  <2>2. \A f \in fs : f.id < n /\ f.id \notin lf /\ f.count = Cardinality(Of(ws, f.id))
    BY <1>7 DEF Listed
  <2> QED BY <2>1, <2>2 DEF Listed
<1> QED BY <1>6, <1>8

-----------------------------------------------------------------------------
(* One step of the thread that is under way *)

(* It stands where it should next, or is done and the library is settled;  *)
(* the others are uploads that wait, and their folders are still listed.   *)
LEMMA CalmStep ==
    ASSUME Kinds, CalmInv, NEW t \in Thread, Acts(t), NEW q,
           todo' = [todo EXCEPT ![t] = q], q # Arriving,
           due' => due,
           \A s \in Thread : s # t => hand'[s] = hand[s] /\ mine'[s] = mine[s],
           q = <<>> => Settled' /\ loop' = (IF loop = t THEN None ELSE loop),
           q # <<>> => Underway(t)' /\ loop' = loop /\ (Runs(t) => q \in Uploads),
           Runs(t) => \A f \in folders : \E g \in folders' : g.id = f.id
    PROVE  CalmInv'
<1>1. /\ todo'[t] = q /\ \A s \in Thread : s # t => todo'[s] = todo[s]
      /\ Backfill \in Thread /\ \A s \in Client : s \in Thread /\ s # None /\ s # Backfill
  BY Clients DEF Kinds, Thread
<1>2. Busy(t) /\ ~Waits(t) BY DEF Acts
<1>3. \A s \in Thread : s # t /\ Busy(s) => Waits(s) /\ Runs(t) BY DEF CalmInv, Alone
<1>4. \A s \in Thread : s # t => ~Acts(s) BY <1>3 DEF Acts
<1>5. \A s \in Thread : s # t => ~Acts(s)' BY <1>1, <1>4 DEF Acts, Busy, Waits
<1>6. Acts(t)' <=> q # <<>> BY <1>1 DEF Acts, Busy, Waits
<1>7. Alone'
  <2>1. due' => ~Busy(Backfill)'
    BY <1>1, <1>2 DEF CalmInv, Alone, Busy
  <2>2. ASSUME NEW s \in Client, loop' = s PROVE todo'[s] \in Uploads
    <3>1. loop = s BY <1>1, <2>2
    <3>2. CASE s # t BY <1>1, <3>1, <3>2 DEF CalmInv, Alone
    <3>3. CASE s = t
      <4>1. q # <<>> BY <1>1, <2>2, <3>1, <3>3
      <4> QED BY <1>1, <3>1, <3>3, <4>1 DEF Runs
    <3> QED BY <3>2, <3>3
  <2>3. ASSUME NEW s \in Thread, NEW r \in Thread, Acts(r)', Busy(s)', s # r
        PROVE  Waits(s)' /\ Runs(r)'
    <3>1. r = t BY <1>5, <2>3
    <3>2. Waits(s) /\ Runs(t) /\ todo'[s] = todo[s] BY <1>1, <1>3, <2>3, <3>1 DEF Busy
    <3>3. loop' = loop BY <1>6, <2>3, <3>1
    <3> QED BY <3>1, <3>2, <3>3 DEF Waits, Runs
  <2> QED BY <2>1, <2>2, <2>3 DEF Alone, Acts, Busy, Waits, Runs
<1>8. (\A s \in Thread : ~Acts(s)') => Settled' BY <1>6
<1>9. ASSUME NEW s \in Thread, Acts(s)' PROVE Underway(s)'
  <2>1. s = t BY <1>5, <1>9
  <2> QED BY <1>6, <1>9, <2>1
<1>10. ASSUME NEW s \in Thread, Waits(s)' PROVE s \in Client /\ Arrives(s)'
  <2>1. s # t BY <1>1, <1>10 DEF Waits
  <2>2. Waits(s) /\ Busy(s) BY <1>1, <1>10, <2>1, RequestPlans DEF Waits, Busy
  <2>3. s \in Client /\ Arrives(s) /\ Runs(t) BY <1>3, <2>1, <2>2 DEF CalmInv
  <2>4. hand'[s] = hand[s] /\ mine'[s] = mine[s] BY <2>1
  <2> QED BY <2>3, <2>4 DEF Arrives
<1> QED BY <1>7, <1>8, <1>9, <1>10 DEF CalmInv

(* What its next access says about where a thread stands.                  *)
LEMMA Stands ==
    ASSUME NEW t, Underway(t)
    PROVE  /\ At(t, "open") => ToOpen(t)
           /\ At(t, "write") => ToWrite(t) \/ ToRewrite(t)
           /\ At(t, "count") => ToCount(t)
           /\ At(t, "merge") => ToMerge(t)
           /\ At(t, "empty") => (ToSave(t) /\ todo[t] = Emptying)
                                  \/ (ToDelist(t) /\ todo[t] = Unlisting)
           /\ At(t, "save") => (ToSave(t) /\ todo[t] = Saving)
                                 \/ (ToDelist(t) /\ todo[t] = Delisting)
           /\ At(t, "register") => ToRegister(t)
           /\ At(t, "unregister") => ToUnregister(t)
           /\ At(t, "rmtree") => ToClear(t)
           /\ At(t, "pick") => ToPick(t)
           /\ At(t, "unlink") => ToUnlink(t)
           /\ At(t, "recall") => ToRecall(t)
           /\ At(t, "recount") => ToRecount(t)
           /\ At(t, "visit") => ToVisit(t)
           /\ At(t, "blob") => ToBlob(t)
           /\ ~At(t, "find")
<1>1. ToOpen(t) => Head(todo[t]) = "open" BY Plans DEF ToOpen
<1>2. ToWrite(t) => Head(todo[t]) = "write" BY Plans DEF ToWrite
<1>3. ToCount(t) => Head(todo[t]) = "count" BY Plans DEF ToCount
<1>4. ToMerge(t) => Head(todo[t]) = "merge" BY Plans DEF ToMerge
<1>5. ToSave(t) => \/ todo[t] = Emptying /\ Head(todo[t]) = "empty"
                   \/ todo[t] = Saving /\ Head(todo[t]) = "save"
  BY Plans DEF ToSave
<1>6. ToRegister(t) => Head(todo[t]) = "register" BY RequestPlans DEF ToRegister
<1>7. ToUnregister(t) => Head(todo[t]) = "unregister" BY RequestPlans DEF ToUnregister
<1>8. ToDelist(t) => \/ todo[t] = Unlisting /\ Head(todo[t]) = "empty"
                     \/ todo[t] = Delisting /\ Head(todo[t]) = "save"
  BY Plans DEF ToDelist
<1>9. ToClear(t) => Head(todo[t]) = "rmtree" BY Plans DEF ToClear
<1>10. ToPick(t) => Head(todo[t]) = "pick" BY RequestPlans DEF ToPick
<1>11. ToUnlink(t) => Head(todo[t]) = "unlink" BY Plans DEF ToUnlink
<1>12. ToRecall(t) => Head(todo[t]) = "recall" BY Plans DEF ToRecall
<1>13. ToRecount(t) => Head(todo[t]) = "recount" BY Plans DEF ToRecount
<1>14. ToVisit(t) => Head(todo[t]) = "visit" BY Plans DEF ToVisit
<1>15. ToBlob(t) => Head(todo[t]) = "blob" BY Plans DEF ToBlob
<1>16. ToRewrite(t) => Head(todo[t]) = "write" BY Plans DEF ToRewrite
<1> DEFINE h == Head(todo[t])
<1>17. \A x : At(t, x) => h = x BY DEF At
<1> HIDE DEF h
<1> QED BY <1>1, <1>2, <1>3, <1>4, <1>5, <1>6, <1>7, <1>8, <1>9, <1>10, <1>11, <1>12, <1>13,
           <1>14, <1>15, <1>16, <1>17 DEF Underway, h

LEMMA Onward ==
    ASSUME Kinds, CalmInv, NEW t \in Thread, NEW x, At(t, x), x # "find"
    PROVE  Acts(t) /\ Underway(t) /\ Busy(t)
<1>1. Busy(t) /\ Head(todo[t]) = x BY DEF At
<1>2. ~Waits(t) BY <1>1, RequestPlans DEF Waits
<1> QED BY <1>1, <1>2 DEF Acts, CalmInv

(* The common case: the step goes on to the rest of the plan.              *)
LEMMA CalmOn ==
    ASSUME Kinds, CalmInv, NEW t \in Thread, Acts(t), Continue(t),
           Tail(todo[t]) # <<>>, Tail(todo[t]) # Arriving,
           UNCHANGED <<due, loop>>,
           \A s \in Thread : s # t => hand'[s] = hand[s] /\ mine'[s] = mine[s],
           Underway(t)', todo[t] \in Uploads => Tail(todo[t]) \in Uploads,
           Runs(t) => \A f \in folders : \E g \in folders' : g.id = f.id
    PROVE  CalmInv'
<1> DEFINE q == Tail(todo[t])
<1>1. todo' = [todo EXCEPT ![t] = q] BY DEF Continue
<1>2. Runs(t) => q \in Uploads BY DEF CalmInv, Alone, Runs
<1> HIDE DEF q
<1>3. q # <<>> /\ q # Arriving BY DEF q
<1> QED BY <1>1, <1>2, <1>3, CalmStep

LEMMA CalmEnd ==
    ASSUME Kinds, CalmInv, NEW t \in Thread, Acts(t), End(t), UNCHANGED <<due, hand, mine>>,
           Settled', Runs(t) => \A f \in folders : \E g \in folders' : g.id = f.id
    PROVE  CalmInv'
<1> DEFINE q == <<>>
<1>1. todo' = [todo EXCEPT ![t] = q] /\ loop' = (IF loop = t THEN None ELSE loop) BY DEF End
<1>2. q # Arriving BY RequestPlans
<1>3. q = <<>> OBVIOUS
<1> HIDE DEF q
<1> QED BY <1>1, <1>2, <1>3, CalmStep

LEMMA CalmOpen ==
    ASSUME Kinds, CalmInv, NEW t \in Client, OpenDocument(t) PROVE CalmInv'
<1>0. t \in Thread BY Clients
<1>1. /\ At(t, "open") /\ Continue(t) /\ docs' = Unlike(docs, hand[t])
      /\ UNCHANGED <<folders, torn, seen, mine, hand, loop, fresh, told, left, due>>
      /\ opened' = [opened EXCEPT ![t] = TRUE]
  BY DEF OpenDocument, Unlike, sweep, meters, ghosts
<1>2. Acts(t) /\ Underway(t) BY <1>0, <1>1, Onward
<1>3. ToOpen(t) BY <1>1, <1>2, Stands
<1>4. todo[t] = Opening /\ Tail(todo[t]) = Writing /\ todo'[t] = Writing
  BY <1>0, <1>1, <1>3, Plans DEF ToOpen, Continue, Kinds
<1>5. Stored(docs', Others(told, hand[t]), left, fresh) /\ Apart(docs', hand[t])
  BY <1>1, <1>3, StoredUnlike DEF ToOpen, Settled
<1>6. Listed(folders, docs', left, fresh, {mine[t].id})
  <2>1. \A x : x # mine[t].id => Of(docs', x) = Of(docs, x)
    BY <1>1, <1>3, UnlikeOf DEF ToOpen, Arrives
  <2>2. Listed(folders, docs, left, fresh, {}) /\ \E f \in folders : f.id = mine[t].id
    BY <1>3 DEF ToOpen, Settled, Arrives
  <2> QED BY <2>1, <2>2, ListedBut
<1>7. ToWrite(t)'
  <2>1. opened'[t] = TRUE BY <1>0, <1>1 DEF Kinds
  <2> QED BY <1>1, <1>3, <1>4, <1>5, <1>6, <2>1 DEF ToOpen, ToWrite, Settled, Arrives
<1>8. Underway(t)' BY <1>7 DEF Underway
<1>9. Tail(todo[t]) # <<>> /\ Tail(todo[t]) # Arriving /\ Tail(todo[t]) \in Uploads
  BY <1>4, Plans, RequestPlans, PlansToDo DEF Uploads
<1> QED BY <1>0, <1>1, <1>2, <1>8, <1>9, CalmOn

LEMMA CalmWrite ==
    ASSUME Kinds, CalmInv, NEW t \in Client, WriteDocument(t) PROVE CalmInv'
<1>0. t \in Thread /\ t # Backfill BY Clients
<1>1. /\ At(t, "write") /\ Continue(t)
      /\ UNCHANGED <<folders, torn, seen, mine, hand, loop, fresh, due, left>>
      /\ told' = Others(told, hand[t]) \cup {EntryOf(hand[t])}
  BY <1>0 DEF WriteDocument, Others, sweep, meters
<1>2. Acts(t) /\ Underway(t) BY <1>0, <1>1, Onward
<1>3. ToWrite(t) BY <1>0, <1>1, <1>2, Stands DEF ToRewrite
<1>4. todo[t] = Writing /\ Tail(todo[t]) = Counting /\ todo'[t] = Counting
  BY <1>0, <1>1, <1>3, Plans DEF ToWrite, Continue, Kinds
<1>5. docs' = docs \cup {hand[t]}
  <2>1. Unlike(docs, hand[t]) = docs BY <1>3 DEF ToWrite, Apart, Unlike
  <2> QED BY <1>3, <2>1 DEF WriteDocument, ToWrite, Unlike
<1>6. Stored(docs', told', left, fresh)
  <2>1. hand[t].folder \notin left BY <1>3 DEF ToWrite, Arrives, Listed
  <2> QED BY <1>1, <1>3, <1>5, <2>1, StoredWith DEF ToWrite
<1>7. Listed(folders, docs', left, fresh, {mine[t].id})
  <2>1. \A x : x # mine[t].id => Of(docs', x) = Of(docs, x)
    BY <1>3, <1>5, UnlikeOf DEF ToWrite, Arrives
  <2>2. Listed(folders, docs, left, fresh, {mine[t].id}) /\ \E f \in folders : f.id = mine[t].id
    BY <1>3 DEF ToWrite, Arrives
  <2> QED BY <2>1, <2>2, ListedBut
<1>8. Underway(t)'
  <2>1. ToCount(t)' BY <1>1, <1>3, <1>4, <1>6, <1>7 DEF ToWrite, ToCount, Uncounted
  <2> QED BY <2>1 DEF Underway
<1>9. Tail(todo[t]) # <<>> /\ Tail(todo[t]) # Arriving /\ Tail(todo[t]) \in Uploads
  BY <1>4, Plans, RequestPlans, PlansToDo DEF Uploads
<1> QED BY <1>0, <1>1, <1>2, <1>8, <1>9, CalmOn

LEMMA CalmCount ==
    ASSUME Kinds, CalmInv, NEW t \in Client, CountDocuments(t) PROVE CalmInv'
<1>0. t \in Thread BY Clients
<1>1. /\ At(t, "count") /\ Continue(t)
      /\ UNCHANGED <<folders, torn, docs, seen, hand, loop, fresh, told, left, due>>
      /\ mine' = [mine EXCEPT ![t].count = Cardinality(InFolder(mine[t].id))]
  BY DEF CountDocuments, sweep, meters, ghosts
<1>2. Acts(t) /\ Underway(t) BY <1>0, <1>1, Onward
<1>3. ToCount(t) BY <1>1, <1>2, Stands
<1>4. todo[t] = Counting /\ Tail(todo[t]) = Merging /\ todo'[t] = Merging
  BY <1>0, <1>1, <1>3, Plans DEF ToCount, Continue, Kinds
<1>5. /\ \A s \in Thread : s # t => mine'[s] = mine[s]
      /\ mine'[t].id = mine[t].id /\ mine'[t].count = Cardinality(Of(docs, mine[t].id))
  <2> DEFINE c == Cardinality(InFolder(mine[t].id))
  <2>1. c = Cardinality(Of(docs, mine[t].id)) BY DEF InFolder, Of
  <2>2. mine[t] \in AnyFolder /\ mine \in [Thread -> AnyFolder] BY <1>0 DEF Kinds
  <2>3. mine' = [mine EXCEPT ![t].count = c] BY <1>1
  <2> HIDE DEF c
  <2>4. mine'[t] = [mine[t] EXCEPT !.count = c] BY <1>0, <2>2, <2>3
  <2>5. mine'[t].id = mine[t].id /\ mine'[t].count = c BY <2>2, <2>4 DEF AnyFolder
  <2>6. \A s \in Thread : s # t => mine'[s] = mine[s] BY <2>2, <2>3
  <2> QED BY <2>1, <2>5, <2>6
<1>6. Underway(t)'
  <2>1. ToMerge(t)' BY <1>1, <1>3, <1>4, <1>5 DEF ToCount, ToMerge, Uncounted
  <2> QED BY <2>1 DEF Underway
<1>7. Tail(todo[t]) # <<>> /\ Tail(todo[t]) # Arriving /\ Tail(todo[t]) \in Uploads
  BY <1>4, Plans, RequestPlans, PlansToDo DEF Uploads
<1> QED BY <1>0, <1>1, <1>2, <1>5, <1>6, <1>7, CalmOn

LEMMA CalmMerge ==
    ASSUME Kinds, CalmInv, NEW t \in Client, MergeFolder(t) PROVE CalmInv'
<1>0. t \in Thread BY Clients
<1>1. /\ At(t, "merge") /\ Continue(t)
      /\ UNCHANGED <<folders, torn, docs, mine, hand, loop, fresh, told, left, due>>
      /\ seen' = [seen EXCEPT ![t] = {IF f.id = mine[t].id THEN mine[t] ELSE f : f \in Index}]
  BY DEF MergeFolder, disk, sweep, meters, ghosts
<1>2. Acts(t) /\ Underway(t) BY <1>0, <1>1, Onward
<1>3. ToMerge(t) BY <1>1, <1>2, Stands
<1>4. todo[t] = Merging /\ Tail(todo[t]) = Emptying /\ todo'[t] = Emptying
  BY <1>0, <1>1, <1>3, Plans DEF ToMerge, Continue, Kinds
<1>5. seen'[t] = {IF f.id = mine[t].id THEN mine[t] ELSE f : f \in folders}
  <2>1. Index = folders BY <1>3 DEF ToMerge, Uncounted, Index
  <2> QED BY <1>0, <1>1, <2>1 DEF Kinds
<1>6. /\ \A h \in seen'[t] : \/ h \in folders /\ h.id # mine[t].id
                             \/ /\ h.id = mine[t].id /\ h.count = Cardinality(Of(docs, mine[t].id))
                                /\ \E f \in folders : f.id = mine[t].id
      /\ \A f \in folders : \E h \in seen'[t] : h.id = f.id
  BY <1>3, <1>5 DEF ToMerge
<1>7. Listed(seen'[t], docs, left, fresh, {})
  BY <1>3, <1>6, ListedAll DEF ToMerge, Uncounted
<1>8. Underway(t)'
  <2>1. torn' <=> todo'[t] = Saving
    BY <1>1, <1>3, <1>4, PlansToDo DEF ToMerge, Uncounted
  <2>2. ToSave(t)' BY <1>1, <1>3, <1>4, <1>6, <1>7, <2>1 DEF ToMerge, ToSave, Uncounted
  <2> QED BY <2>2 DEF Underway
<1>9. Tail(todo[t]) # <<>> /\ Tail(todo[t]) # Arriving /\ Tail(todo[t]) \in Uploads
  BY <1>4, Plans, RequestPlans, PlansToDo DEF Uploads
<1> QED BY <1>0, <1>1, <1>2, <1>8, <1>9, CalmOn

LEMMA CalmEmpty ==
    ASSUME Kinds, CalmInv, NEW t \in Client, EmptyIndex(t) PROVE CalmInv'
<1>0. t \in Thread BY Clients
<1>1. /\ At(t, "empty") /\ Continue(t) /\ torn' = TRUE
      /\ UNCHANGED <<folders, docs, seen, mine, hand, loop, fresh, told, left, due>>
  BY DEF EmptyIndex, sweep, meters, ghosts
<1>2. Acts(t) /\ Underway(t) BY <1>0, <1>1, Onward
<1>3. CASE ToSave(t) /\ todo[t] = Emptying
  <2>1. Tail(todo[t]) = Saving /\ todo'[t] = Saving
    BY <1>0, <1>1, <1>3, Plans DEF Continue, Kinds
  <2>2. ToSave(t)' BY <1>1, <1>3, <2>1 DEF ToSave
  <2>3. Underway(t)' BY <2>2 DEF Underway
  <2>4. Tail(todo[t]) # <<>> /\ Tail(todo[t]) # Arriving /\ Tail(todo[t]) \in Uploads
    BY <2>1, Plans, RequestPlans, PlansToDo DEF Uploads
  <2> QED BY <1>0, <1>1, <1>2, <2>3, <2>4, CalmOn
<1>4. CASE ToDelist(t) /\ todo[t] = Unlisting
  <2>1. Tail(todo[t]) = Delisting /\ todo'[t] = Delisting
    BY <1>0, <1>1, <1>4, Plans DEF Continue, Kinds
  <2>2. ToDelist(t)' BY <1>1, <1>4, <2>1 DEF ToDelist, Dropped
  <2>3. Underway(t)' BY <2>2 DEF Underway
  <2>4. Tail(todo[t]) # <<>> /\ Tail(todo[t]) # Arriving
    BY <2>1, Plans, RequestPlans, PlansToDo
  <2>5. todo[t] \notin Uploads
    BY <1>4 DEF Unlisting, Uploads, Opening, Writing, Counting, Merging, Emptying, Saving
  <2> QED BY <1>0, <1>1, <1>2, <2>3, <2>4, <2>5, CalmOn
<1> QED BY <1>1, <1>2, <1>3, <1>4, Stands

LEMMA CalmSave ==
    ASSUME Kinds, CalmInv, NEW t \in Client, SaveIndexFile(t) PROVE CalmInv'
<1>0. t \in Thread BY Clients
<1>1. /\ At(t, "save") /\ folders' = seen[t] /\ torn' \in IF torn THEN {FALSE} ELSE BOOLEAN
      /\ IF Tail(todo[t]) = <<>> THEN End(t) ELSE Continue(t) /\ UNCHANGED loop
      /\ UNCHANGED <<docs, seen, mine, hand, fresh, told, left, due>>
  BY DEF SaveIndexFile, sweep, meters, ghosts
<1>2. Acts(t) /\ Underway(t) BY <1>0, <1>1, Onward
<1>3. CASE ToSave(t) /\ todo[t] = Saving
  <2>1. Tail(todo[t]) = <<>> BY <1>3, Plans
  <2>2. End(t) BY <1>1, <2>1
  <2>3. ~torn' BY <1>1, <1>3 DEF ToSave
  <2>4. Settled' BY <1>1, <1>3, <2>3 DEF Settled, ToSave
  <2>5. Runs(t) => \A f \in folders : \E g \in folders' : g.id = f.id
    BY <1>1, <1>3 DEF ToSave, Runs
  <2> QED BY <1>0, <1>1, <1>2, <2>2, <2>4, <2>5, CalmEnd
<1>4. CASE ToDelist(t) /\ todo[t] = Delisting
  <2>1. Tail(todo[t]) = Clearing /\ Clearing # <<>> BY <1>4, Plans, PlansToDo
  <2>2. Continue(t) /\ loop' = loop BY <1>1, <2>1
  <2>3. todo'[t] = Clearing BY <1>0, <2>1, <2>2 DEF Continue, Kinds
  <2>4. ~torn' BY <1>1, <1>4 DEF ToDelist
  <2>5. ToClear(t)' BY <1>1, <1>4, <2>3, <2>4 DEF ToDelist, ToClear, Dropped
  <2>6. Underway(t)' BY <2>5 DEF Underway
  <2>7. Tail(todo[t]) # <<>> /\ Tail(todo[t]) # Arriving
    BY <2>1, Plans, RequestPlans
  <2>8. todo[t] \notin Uploads
    BY <1>4 DEF Delisting, Uploads, Opening, Writing, Counting, Merging, Emptying, Saving
  <2>9. ~Runs(t) BY <2>8 DEF CalmInv, Alone, Runs
  <2> QED BY <1>0, <1>1, <1>2, <2>2, <2>6, <2>7, <2>8, <2>9, CalmOn
<1> QED BY <1>1, <1>2, <1>3, <1>4, Stands

LEMMA CalmRegister ==
    ASSUME Kinds, CalmInv, NEW t \in Client, Register(t) PROVE CalmInv'
<1>0. t \in Thread BY Clients
<1>1. /\ At(t, "register")
      /\ UNCHANGED <<folders, torn, docs, mine, hand, fresh, told, left, due>>
  BY DEF Register, disk, sweep, meters, ghosts
<1>2. Acts(t) /\ Underway(t) BY <1>0, <1>1, Onward
<1>3. ToRegister(t) BY <1>1, <1>2, Stands
<1>4. Settled' BY <1>1, <1>3 DEF ToRegister, Settled
<1>5. CASE End(t) BY <1>0, <1>1, <1>2, <1>4, <1>5, CalmEnd
<1>6. CASE /\ Continue(t) /\ UNCHANGED loop
           /\ seen' = [seen EXCEPT ![t] = Index \cup {mine[t]}]
  <2>1. Tail(todo[t]) = Emptying /\ todo'[t] = Emptying
    BY <1>0, <1>3, <1>6, RequestPlans DEF ToRegister, Continue, Kinds
  <2>2. seen'[t] = folders \cup {mine[t]}
    BY <1>0, <1>3, <1>6 DEF ToRegister, Settled, Index, Kinds
  <2>3. Listed(seen'[t], docs, left, fresh, {})
    <3>1. Of(docs, mine[t].id) = {} BY <1>3 DEF ToRegister, Of
    <3>2. Cardinality(Of(docs, mine[t].id)) = 0 BY <3>1, FS_EmptySet
    <3>3. /\ mine[t].count = Cardinality(Of(docs, mine[t].id))
          /\ mine[t].id < fresh /\ mine[t].id \notin left
      BY <1>3, <3>2 DEF ToRegister
    <3>4. Listed(folders, docs, left, fresh, {}) BY <1>3 DEF ToRegister, Settled
    <3> QED BY <2>2, <3>3, <3>4 DEF Listed
  <2>4. ToSave(t)'
    <3>1. ~torn' /\ todo'[t] # Saving BY <1>1, <1>3, <2>1, PlansToDo DEF ToRegister, Settled
    <3>2. \A f \in folders : \E g \in seen'[t] : g.id = f.id BY <2>2
    <3> QED BY <1>1, <1>3, <2>1, <2>3, <3>1, <3>2 DEF ToRegister, ToSave, Settled
  <2>5. Underway(t)' BY <2>4 DEF Underway
  <2>6. Tail(todo[t]) # <<>> /\ Tail(todo[t]) # Arriving /\ Tail(todo[t]) \in Uploads
    BY <2>1, Plans, RequestPlans, PlansToDo DEF Uploads
  <2> QED BY <1>0, <1>1, <1>2, <1>6, <2>5, <2>6, CalmOn
<1> QED BY <1>5, <1>6 DEF Register

LEMMA CalmUnregister ==
    ASSUME Kinds, CalmInv, NEW t \in Client, Unregister(t) PROVE CalmInv'
<1>0. t \in Thread BY Clients
<1>1. /\ At(t, "unregister")
      /\ UNCHANGED <<folders, torn, docs, mine, hand, fresh, told, left, due>>
  BY DEF Unregister, disk, sweep, meters, ghosts
<1>2. Acts(t) /\ Underway(t) BY <1>0, <1>1, Onward
<1>3. ToUnregister(t) BY <1>1, <1>2, Stands
<1>4. Settled' BY <1>1, <1>3 DEF ToUnregister, Settled
<1>5. CASE End(t) BY <1>0, <1>1, <1>2, <1>4, <1>5, CalmEnd
<1>6. CASE /\ Continue(t) /\ UNCHANGED loop /\ \E f \in Index : f.id = mine[t].id
           /\ seen' = [seen EXCEPT ![t] = {f \in Index : f.id # mine[t].id}]
  <2>1. Tail(todo[t]) = Unlisting /\ todo'[t] = Unlisting
    BY <1>0, <1>3, <1>6, RequestPlans DEF ToUnregister, Continue, Kinds
  <2>2. seen'[t] = {f \in folders : f.id # mine[t].id}
    BY <1>0, <1>3, <1>6 DEF ToUnregister, Settled, Index, Kinds
  <2>3. Listed(seen'[t], Afield(docs, mine[t].id), left, fresh, {})
    <3> DEFINE g == mine[t].id
               fs == seen'[t]
               ds == Afield(docs, g)
    <3>1. Listed(folders, docs, left, fresh, {}) BY <1>3 DEF ToUnregister, Settled
    <3>2. \A f \in fs : f \in folders /\ f.id # g BY <2>2
    <3>3. \A f \in fs : Of(ds, f.id) = Of(docs, f.id) BY <3>2 DEF Of, Afield
    <3>4. \A f \in fs : f.id < fresh /\ f.id \notin left /\ f.count = Cardinality(Of(ds, f.id))
      BY <3>1, <3>2, <3>3 DEF Listed
    <3>5. ASSUME NEW d \in ds PROVE d.folder \in left \/ \E f \in fs : f.id = d.folder
      <4>1. d \in docs /\ d.folder # g BY DEF Afield
      <4>2. d.folder \in left \/ \E f \in folders : f.id = d.folder BY <3>1, <4>1 DEF Listed
      <4> QED BY <2>2, <4>1, <4>2
    <3> HIDE DEF fs, ds
    <3>6. Listed(fs, ds, left, fresh, {}) BY <3>4, <3>5 DEF Listed
    <3> QED BY <3>6 DEF fs, ds
  <2>4. ToDelist(t)'
    <3>1. ~torn' /\ todo'[t] # Delisting
      BY <1>1, <1>3, <2>1, PlansToDo DEF ToUnregister, Settled
    <3>2. \A f \in seen'[t] : f.id # mine[t].id BY <2>2
    <3>3. mine[t].id < fresh
      BY <1>3, <1>6 DEF ToUnregister, Settled, Index, Listed
    <3> QED BY <1>1, <1>3, <2>1, <2>3, <3>1, <3>2, <3>3
        DEF ToUnregister, ToDelist, Settled, Dropped
  <2>5. Underway(t)' BY <2>4 DEF Underway
  <2>6. Tail(todo[t]) # <<>> /\ Tail(todo[t]) # Arriving
    BY <2>1, Plans, RequestPlans, PlansToDo
  <2>7. todo[t] \notin Uploads
    <3>1. Head(todo[t]) = "unregister" BY <1>3, RequestPlans DEF ToUnregister
    <3> QED BY <3>1, Plans DEF Uploads
  <2>8. ~Runs(t) BY <2>7 DEF CalmInv, Alone, Runs
  <2> QED BY <1>0, <1>1, <1>2, <1>6, <2>5, <2>6, <2>7, <2>8, CalmOn
<1> QED BY <1>5, <1>6 DEF Unregister

LEMMA CalmClear ==
    ASSUME Kinds, CalmInv, NEW t \in Client, RemoveTree(t) PROVE CalmInv'
<1> DEFINE g == mine[t].id
<1>0. t \in Thread BY Clients
<1>1. /\ At(t, "rmtree") /\ End(t)
      /\ Afield(docs, g) \subseteq docs' /\ docs' \subseteq docs
      /\ left \subseteq left' /\ left' \subseteq left \cup {g}
      /\ docs' = Afield(docs, g) \/ g \in left'
      /\ told' = {e \in told : e.folder # g}
      /\ UNCHANGED <<folders, torn, mine, hand, fresh, due>>
  BY DEF RemoveTree, Afield, sweep, meters
<1>2. Acts(t) /\ Underway(t) BY <1>0, <1>1, Onward
<1>3. ToClear(t) BY <1>1, <1>2, Stands
<1>4. g \in Nat BY <1>0 DEF Kinds, AnyFolder
<1>5. /\ ~torn /\ Stored(docs, told, left, fresh) /\ g < fresh /\ \A f \in folders : f.id # g
      /\ Listed(folders, Afield(docs, g), left, fresh, {})
  BY <1>3 DEF ToClear, Dropped
<1> HIDE DEF g
<1>6. Stored(docs', told', left', fresh) BY <1>1, <1>4, <1>5, StoredAfield
<1>7. Listed(folders, docs', left', fresh, {}) BY <1>1, <1>5, ListedAfield
<1>8. Settled' BY <1>1, <1>5, <1>6, <1>7 DEF Settled
<1> QED BY <1>0, <1>1, <1>2, <1>8, CalmEnd

LEMMA CalmPick ==
    ASSUME Kinds, CalmInv, NEW t \in Client, PickDocument(t) PROVE CalmInv'
<1>0. t \in Thread BY Clients
<1>1. /\ At(t, "pick")
      /\ UNCHANGED <<folders, torn, docs, seen, mine, fresh, told, left, due>>
  BY DEF PickDocument, sweep, meters, ghosts
<1>2. Acts(t) /\ Underway(t) BY <1>0, <1>1, Onward
<1>3. ToPick(t) BY <1>1, <1>2, Stands
<1>4. Settled' BY <1>1, <1>3 DEF ToPick, Settled
<1>5. CASE End(t) /\ UNCHANGED hand BY <1>0, <1>1, <1>2, <1>4, <1>5, CalmEnd
<1>6. ASSUME NEW d \in InFolder(mine[t].id), hand' = [hand EXCEPT ![t] = d],
             Continue(t), UNCHANGED loop
      PROVE  CalmInv'
  <2>1. Tail(todo[t]) = Unlinking /\ todo'[t] = Unlinking
    BY <1>0, <1>3, <1>6, RequestPlans DEF ToPick, Continue, Kinds
  <2>2. hand'[t] = d /\ \A s \in Thread : s # t => hand'[s] = hand[s] BY <1>0, <1>6 DEF Kinds
  <2>3. d \in docs /\ d.folder = mine[t].id BY <1>6 DEF InFolder
  <2>4. ToUnlink(t)' BY <1>1, <1>3, <1>4, <2>1, <2>2, <2>3 DEF ToPick, ToUnlink
  <2>5. Underway(t)' BY <2>4 DEF Underway
  <2>6. Tail(todo[t]) # <<>> /\ Tail(todo[t]) # Arriving
    BY <2>1, Plans, RequestPlans, PlansToDo
  <2>7. todo[t] \notin Uploads
    <3>1. Head(todo[t]) = "pick" BY <1>3, RequestPlans DEF ToPick
    <3> QED BY <3>1, Plans DEF Uploads
  <2> QED BY <1>0, <1>1, <1>2, <1>6, <2>2, <2>5, <2>6, <2>7, CalmOn
<1> QED BY <1>5, <1>6 DEF PickDocument

LEMMA CalmUnlink ==
    ASSUME Kinds, CalmInv, NEW t \in Client, Unlink(t) PROVE CalmInv'
<1>0. t \in Thread BY Clients
<1>1. /\ At(t, "unlink") /\ docs' = Unlike(docs, hand[t])
      /\ UNCHANGED <<folders, torn, seen, mine, hand, fresh, due, left>>
  BY DEF Unlink, Unlike, sweep, meters
<1>2. Acts(t) /\ Underway(t) BY <1>0, <1>1, Onward
<1>3. ToUnlink(t) BY <1>1, <1>2, Stands
<1>4. docs' # docs BY <1>1, <1>3 DEF ToUnlink, Unlike, SameFile
<1>5. Continue(t) /\ loop' = loop /\ told' = Others(told, hand[t])
  BY <1>4 DEF Unlink, Others
<1>6. Tail(todo[t]) = Recalling /\ todo'[t] = Recalling
  BY <1>0, <1>3, <1>5, Plans DEF ToUnlink, Continue, Kinds
<1>7. Stored(docs', told', left, fresh)
  <2>1. Stored(docs, told, left, fresh) /\ hand[t] \in docs BY <1>3 DEF ToUnlink, Settled
  <2> QED BY <1>1, <1>5, <2>1, StoredWithout
<1>8. Listed(folders, docs', left, fresh, {mine[t].id})
  <2>1. \A x : x # mine[t].id => Of(docs', x) = Of(docs, x)
    BY <1>1, <1>3, UnlikeOf DEF ToUnlink
  <2>2. Listed(folders, docs, left, fresh, {}) BY <1>3 DEF ToUnlink, Settled
  <2>3. \E f \in folders : f.id = mine[t].id BY <1>3 DEF ToUnlink
  <2> QED BY <2>1, <2>2, <2>3, ListedBut
<1>9. Underway(t)'
  <2>1. ToRecall(t)'
    BY <1>1, <1>3, <1>6, <1>7, <1>8 DEF ToUnlink, ToRecall, Uncounted, Settled
  <2> QED BY <2>1 DEF Underway
<1>10. Tail(todo[t]) # <<>> /\ Tail(todo[t]) # Arriving
  BY <1>6, Plans, RequestPlans, PlansToDo
<1>11. todo[t] \notin Uploads
  <2>1. Head(todo[t]) = "unlink" BY <1>3, Plans DEF ToUnlink
  <2> QED BY <2>1, Plans DEF Uploads
<1> QED BY <1>0, <1>1, <1>2, <1>5, <1>9, <1>10, <1>11, CalmOn

LEMMA CalmRecall ==
    ASSUME Kinds, CalmInv, NEW t \in Client, Recall(t) PROVE CalmInv'
<1>0. t \in Thread BY Clients
<1>1. /\ At(t, "recall") /\ Continue(t) /\ seen' = [seen EXCEPT ![t] = Index]
      /\ UNCHANGED <<folders, torn, docs, mine, hand, loop, fresh, told, left, due>>
  BY DEF Recall, disk, sweep, meters, ghosts
<1>2. Acts(t) /\ Underway(t) BY <1>0, <1>1, Onward
<1>3. ToRecall(t) BY <1>1, <1>2, Stands
<1>4. Tail(todo[t]) = Recounting /\ todo'[t] = Recounting
  BY <1>0, <1>1, <1>3, Plans DEF ToRecall, Continue, Kinds
<1>5. seen'[t] = folders BY <1>0, <1>1, <1>3 DEF ToRecall, Uncounted, Index, Kinds
<1>6. Underway(t)'
  <2>1. ToRecount(t)' BY <1>1, <1>3, <1>4, <1>5 DEF ToRecall, ToRecount, Uncounted
  <2> QED BY <2>1 DEF Underway
<1>7. Tail(todo[t]) # <<>> /\ Tail(todo[t]) # Arriving
  BY <1>4, Plans, RequestPlans, PlansToDo
<1>8. todo[t] \notin Uploads
  <2>1. Head(todo[t]) = "recall" BY <1>3, Plans DEF ToRecall
  <2> QED BY <2>1, Plans DEF Uploads
<1> QED BY <1>0, <1>1, <1>2, <1>6, <1>7, <1>8, CalmOn

LEMMA CalmRecount ==
    ASSUME Kinds, CalmInv, NEW t \in Client, Recount(t) PROVE CalmInv'
<1>0. t \in Thread BY Clients
<1> DEFINE again(f) == IF f.id = mine[t].id
                       THEN [f EXCEPT !.count = Cardinality(InFolder(f.id))] ELSE f
<1>1. /\ At(t, "recount") /\ Continue(t)
      /\ seen' = [seen EXCEPT ![t] = {again(f) : f \in @}]
      /\ UNCHANGED <<folders, torn, docs, mine, hand, loop, fresh, told, left, due>>
  BY DEF Recount, sweep, meters, ghosts
<1>2. Acts(t) /\ Underway(t) BY <1>0, <1>1, Onward
<1>3. ToRecount(t) BY <1>1, <1>2, Stands
<1>4. Tail(todo[t]) = Emptying /\ todo'[t] = Emptying
  BY <1>0, <1>1, <1>3, Plans DEF ToRecount, Continue, Kinds
<1>5. seen'[t] = {again(f) : f \in seen[t]} BY <1>0, <1>1 DEF Kinds
<1>6. \A f \in seen[t] :
         /\ again(f).id = f.id
         /\ f.id # mine[t].id => again(f) = f
         /\ f.id = mine[t].id => again(f).count = Cardinality(Of(docs, mine[t].id))
  <2>1. \A f \in seen[t] : f \in AnyFolder BY <1>0 DEF Kinds
  <2>2. \A g : InFolder(g) = Of(docs, g) BY DEF InFolder, Of
  <2> QED BY <2>1, <2>2 DEF AnyFolder
<1> HIDE DEF again
<1> DEFINE fs == seen[t]
           gs == seen'[t]
<1>7. /\ \A h \in seen'[t] : \/ h \in seen[t] /\ h.id # mine[t].id
                             \/ /\ h.id = mine[t].id /\ h.count = Cardinality(Of(docs, mine[t].id))
                                /\ \E f \in seen[t] : f.id = mine[t].id
      /\ \A f \in seen[t] : \E h \in seen'[t] : h.id = f.id
  <2>1. ASSUME NEW h \in seen'[t]
        PROVE  \/ h \in seen[t] /\ h.id # mine[t].id
               \/ /\ h.id = mine[t].id /\ h.count = Cardinality(Of(docs, mine[t].id))
                  /\ \E f \in seen[t] : f.id = mine[t].id
    <3>1. PICK f \in seen[t] : h = again(f) BY <1>5
    <3>2. CASE f.id = mine[t].id BY <1>6, <3>1, <3>2
    <3>3. CASE f.id # mine[t].id BY <1>6, <3>1, <3>3
    <3> QED BY <3>2, <3>3
  <2>2. ASSUME NEW f \in seen[t] PROVE \E h \in seen'[t] : h.id = f.id
    <3>1. again(f) \in seen'[t] BY <1>5
    <3> QED BY <1>6, <3>1
  <2> QED BY <2>1, <2>2
<1>8. Listed(seen'[t], docs, left, fresh, {})
  <2>1. Listed(fs, docs, left, fresh, {mine[t].id}) BY <1>3 DEF ToRecount
  <2> HIDE DEF fs, gs
  <2>2. /\ \A h \in gs : \/ h \in fs /\ h.id # mine[t].id
                         \/ /\ h.id = mine[t].id /\ h.count = Cardinality(Of(docs, mine[t].id))
                            /\ \E f \in fs : f.id = mine[t].id
        /\ \A f \in fs : \E h \in gs : h.id = f.id
    BY <1>7 DEF fs, gs
  <2>3. Listed(gs, docs, left, fresh, {}) BY <2>1, <2>2, ListedAll
  <2> QED BY <2>3 DEF gs
<1>9. todo[t] \notin Uploads
  <2>1. Head(todo[t]) = "recount" BY <1>3, Plans DEF ToRecount
  <2> QED BY <2>1, Plans DEF Uploads
<1>10. ~Runs(t) BY <1>9 DEF CalmInv, Alone, Runs
<1>11. Underway(t)'
  <2>1. ~torn' /\ todo'[t] # Saving BY <1>1, <1>3, <1>4, PlansToDo DEF ToRecount
  <2>2. loop' # t BY <1>1, <1>10 DEF Runs
  <2>3. ToSave(t)' BY <1>1, <1>3, <1>4, <1>8, <2>1, <2>2 DEF ToRecount, ToSave
  <2> QED BY <2>3 DEF Underway
<1>12. Tail(todo[t]) # <<>> /\ Tail(todo[t]) # Arriving
  BY <1>4, Plans, RequestPlans, PlansToDo
<1> QED BY <1>0, <1>1, <1>2, <1>9, <1>10, <1>11, <1>12, CalmOn

-----------------------------------------------------------------------------
(* What begins, or takes the event loop, while nobody is under way *)

LEMMA Afterwards ==
    ASSUME NEW fs, NEW ds, NEW tl, NEW lf, NEW n \in Nat, NEW m \in Nat, n <= m, NEW but,
           \A f \in fs : f.id \in Nat, \A d \in ds : d.id \in Nat
    PROVE  /\ Listed(fs, ds, lf, n, but) => Listed(fs, ds, lf, m, but)
           /\ Stored(ds, tl, lf, n) => Stored(ds, tl, lf, m)
<1>1. \A f \in fs : f.id < n => f.id < m OBVIOUS
<1>2. \A d \in ds : d.id < n => d.id < m OBVIOUS
<1> QED BY <1>1, <1>2 DEF Listed, Stored

LEMMA SettledLater ==
    ASSUME Kinds, Settled, UNCHANGED <<folders, torn, docs, told, left>>, fresh' \in {fresh, fresh + 1}
    PROVE  Settled'
<1>1. fresh \in Nat /\ fresh' \in Nat /\ fresh <= fresh' BY DEF Kinds
<1>2. (\A f \in folders : f.id \in Nat) /\ \A d \in docs : d.id \in Nat
  BY DEF Kinds, AnyFolder, AnyDocument
<1>3. Listed(folders, docs, left, fresh', {}) BY <1>1, <1>2, Afterwards DEF Settled
<1>4. Stored(docs, told, left, fresh') BY <1>1, <1>2, Afterwards DEF Settled
<1> QED BY <1>3, <1>4 DEF Settled

LEMMA CalmStart ==
    ASSUME Kinds, CalmInv, NEW t \in Thread, \A s \in Thread : ~Acts(s), NEW q,
           todo' = [todo EXCEPT ![t] = q],
           due' => due /\ t # Backfill,
           folders' = folders,
           \A s \in Thread : s # t => hand'[s] = hand[s] /\ mine'[s] = mine[s],
           loop' = loop \/ (loop' = t /\ q \in Uploads),
           q = <<>> \/ q = Arriving => Settled',
           q = Arriving => t \in Client /\ Arrives(t)',
           q # <<>> /\ q # Arriving =>
              Underway(t)' /\ (Runs(t)' \/ \A s \in Thread : s # t => ~Busy(s))
    PROVE  CalmInv'
<1>1. /\ todo'[t] = q /\ \A s \in Thread : s # t => todo'[s] = todo[s]
      /\ Backfill \in Thread /\ \A s \in Client : s \in Thread /\ s # None /\ s # Backfill
  BY Clients DEF Kinds, Thread
<1>2. \A s \in Thread : s # t => ~Acts(s)' BY <1>1 DEF Acts, Busy, Waits
<1>3. \A s \in Client : loop # s
  <2>1. \A p \in Uploads : p # <<>> /\ p # Arriving
    BY Plans, RequestPlans, PlansToDo DEF Uploads
  <2> QED BY <1>1, <2>1 DEF CalmInv, Alone, Acts, Busy, Waits
<1>4. Acts(t)' <=> q # <<>> /\ q # Arriving BY <1>1 DEF Acts, Busy, Waits
<1>5. Alone'
  <2>1. due' => ~Busy(Backfill)' BY <1>1 DEF CalmInv, Alone, Busy
  <2>2. \A s \in Client : loop' = s => todo'[s] \in Uploads BY <1>1, <1>3
  <2>3. ASSUME NEW s \in Thread, NEW r \in Thread, Acts(r)', Busy(s)', s # r
        PROVE  Waits(s)' /\ Runs(r)'
    <3>1. r = t BY <1>2, <2>3
    <3>2. Busy(s) /\ todo'[s] = todo[s] BY <1>1, <2>3, <3>1 DEF Busy
    <3>3. Waits(s) BY <3>2 DEF Acts
    <3>4. Runs(t)' BY <1>4, <2>3, <3>1, <3>2
    <3> QED BY <3>1, <3>2, <3>3, <3>4 DEF Waits, Runs
  <2> QED BY <2>1, <2>2, <2>3 DEF Alone, Acts, Busy, Waits, Runs
<1>6. (\A s \in Thread : ~Acts(s)') => Settled' BY <1>4
<1>7. ASSUME NEW s \in Thread, Acts(s)' PROVE Underway(s)'
  <2>1. s = t BY <1>2, <1>7
  <2> QED BY <1>4, <1>7, <2>1
<1>8. ASSUME NEW s \in Thread, Waits(s)' PROVE s \in Client /\ Arrives(s)'
  <2>1. CASE s = t BY <1>1, <1>8, <2>1 DEF Waits
  <2>2. CASE s # t
    <3>1. Waits(s) /\ hand'[s] = hand[s] /\ mine'[s] = mine[s] BY <1>1, <1>8, <2>2 DEF Waits
    <3> QED BY <3>1 DEF CalmInv, Arrives
  <2> QED BY <2>1, <2>2
<1> QED BY <1>5, <1>6, <1>7, <1>8 DEF CalmInv

(* The lookup: the upload that gets the loop knows what it will replace.   *)
LEMMA CalmFind ==
    ASSUME Kinds, CalmInv, NEW t \in Client, FindExisting(t) PROVE CalmInv'
<1>0. t \in Thread /\ t # Backfill BY Clients
<1>1. /\ At(t, "find") /\ loop = None
      /\ UNCHANGED <<folders, torn, docs, seen, mine, opened, told, left, due>>
  BY DEF FindExisting, sweep, ghosts
<1>2. Waits(t) /\ Arrives(t)
  <2>1. Busy(t) BY <1>1 DEF At
  <2>2. ~Acts(t) BY <1>0, <1>1, Stands DEF CalmInv
  <2> QED BY <1>0, <2>1, <2>2 DEF Acts, CalmInv
<1>3. \A s \in Thread : ~Acts(s)
  <2>1. Busy(t) BY <1>1 DEF At
  <2>2. ~Acts(t) BY <1>2 DEF Acts
  <2>3. ASSUME NEW s \in Thread, s # t, Acts(s) PROVE FALSE
    <3>1. Runs(s) BY <1>0, <2>1, <2>3 DEF CalmInv, Alone
    <3> QED BY <1>1, <3>1, Clients DEF Runs
  <2> QED BY <2>2, <2>3
<1>4. Settled BY <1>3 DEF CalmInv
<1>5. CASE todo' = [todo EXCEPT ![t] = <<>>] /\ UNCHANGED <<hand, fresh, loop>>
  <2> DEFINE q == <<>>
  <2>1. Settled' BY <1>1, <1>4, <1>5 DEF Settled
  <2>2. q = <<>> /\ q # Arriving /\ todo' = [todo EXCEPT ![t] = q] BY <1>5, RequestPlans
  <2> HIDE DEF q
  <2> QED BY <1>0, <1>1, <1>3, <1>5, <2>1, <2>2, CalmStart
<1>6. ASSUME loop' = t, Continue(t), fresh' \in {fresh, fresh + 1},
             NEW id \in Nat, NEW vector \in Text \cup {None},
             hand' = [hand EXCEPT ![t].id = id, ![t].vector = vector], id < fresh',
             \A d \in docs : d.folder = hand[t].folder =>
                 (d.id = id <=> d.path = hand[t].path)
      PROVE  CalmInv'
  <2>1. todo' = [todo EXCEPT ![t] = Opening]
    BY <1>2, <1>6, RequestPlans DEF Continue, Waits
  <2>2. /\ hand'[t].id = id /\ hand'[t].folder = hand[t].folder /\ hand'[t].path = hand[t].path
        /\ \A s \in Thread : s # t => hand'[s] = hand[s]
    BY <1>0, <1>6 DEF Kinds, AnyDocument
  <2>3. Settled' BY <1>1, <1>4, <1>6, SettledLater
  <2>4. \A d \in docs' : SameFile(d, hand'[t]) <=> SamePath(d, hand'[t])
    BY <1>1, <1>6, <2>2 DEF SameFile, SamePath
  <2>5. todo'[t] = Opening BY <1>0, <2>1 DEF Kinds
  <2>6. ToOpen(t)' BY <1>1, <1>2, <1>6, <2>2, <2>3, <2>4, <2>5 DEF ToOpen, Arrives
  <2>7. Underway(t)' BY <2>6 DEF Underway
  <2>8. Opening # <<>> /\ Opening # Arriving /\ Opening \in Uploads
    BY Plans, RequestPlans, PlansToDo DEF Uploads
  <2>9. Runs(t)' BY <1>6 DEF Runs
  <2> QED BY <1>0, <1>1, <1>3, <1>6, <2>1, <2>2, <2>7, <2>8, <2>9, CalmStart
<1>7. CASE /\ loop' = t /\ Continue(t)
           /\ \E vector \in {None, hand[t].text} :
                 \/ \E d \in {d \in InFolder(mine[t].id) : d.path = hand[t].path} :
                        /\ hand' = [hand EXCEPT ![t].id = d.id, ![t].vector = vector]
                        /\ UNCHANGED fresh
                 \/ /\ {d \in InFolder(mine[t].id) : d.path = hand[t].path} = {}
                    /\ hand' = [hand EXCEPT ![t].id = fresh, ![t].vector = vector]
                    /\ fresh' = fresh + 1
  <2>1. PICK vector \in {None, hand[t].text} :
                 \/ \E d \in {d \in InFolder(mine[t].id) : d.path = hand[t].path} :
                        /\ hand' = [hand EXCEPT ![t].id = d.id, ![t].vector = vector]
                        /\ UNCHANGED fresh
                 \/ /\ {d \in InFolder(mine[t].id) : d.path = hand[t].path} = {}
                    /\ hand' = [hand EXCEPT ![t].id = fresh, ![t].vector = vector]
                    /\ fresh' = fresh + 1
    BY <1>7
  <2>2. /\ hand[t].folder = mine[t].id /\ fresh \in Nat
        /\ \A d \in docs : d.id \in Nat /\ d.id < fresh
        /\ Distinct(docs) /\ vector \in Text \cup {None}
    BY <1>0, <1>2, <1>4 DEF Arrives, Settled, Stored, Kinds, AnyDocument
  <2>3. ASSUME NEW d \in {d \in InFolder(mine[t].id) : d.path = hand[t].path},
               hand' = [hand EXCEPT ![t].id = d.id, ![t].vector = vector], UNCHANGED fresh
        PROVE  CalmInv'
    <3>1. d \in docs /\ d.folder = hand[t].folder /\ d.path = hand[t].path
      BY <2>2, <2>3 DEF InFolder
    <3>2. \A x \in docs : x.folder = hand[t].folder =>
              (x.id = d.id <=> x.path = hand[t].path)
      BY <2>2, <3>1 DEF Distinct, SameFile, SamePath
    <3>3. d.id \in Nat /\ d.id < fresh' /\ fresh' \in {fresh, fresh + 1} BY <2>2, <2>3, <3>1
    <3> QED BY <1>6, <1>7, <2>2, <2>3, <3>2, <3>3
  <2>4. ASSUME {d \in InFolder(mine[t].id) : d.path = hand[t].path} = {},
               hand' = [hand EXCEPT ![t].id = fresh, ![t].vector = vector], fresh' = fresh + 1
        PROVE  CalmInv'
    <3>1. \A x \in docs : x.folder = hand[t].folder => x.path # hand[t].path
      BY <2>2, <2>4 DEF InFolder
    <3>2. \A x \in docs : x.id # fresh BY <2>2
    <3>3. fresh < fresh' /\ fresh' \in {fresh, fresh + 1} BY <2>2, <2>4
    <3> QED BY <1>6, <1>7, <2>2, <2>4, <3>1, <3>2, <3>3
  <2> QED BY <2>1, <2>3, <2>4
<1> QED BY <1>5, <1>7 DEF FindExisting

LEMMA CalmRequest ==
    ASSUME Kinds, KeptInv, NEW t \in Client, Request(t), calm' PROVE CalmInv'
<1>0. t \in Thread /\ t # Backfill BY Clients
<1>1. ASSUME NEW steps, NEW folder, NEW doc, Begin(t, steps, folder, doc), steps # Arriving,
             steps # <<>>, fresh' \in {fresh, fresh + 1},
             Settled /\ todo'[t] = steps /\ mine'[t] = folder => Underway(t)'
      PROVE  CalmInv'
  <2>1. calm /\ CalmInv /\ \A s \in Thread : ~Busy(s) BY <1>1 DEF Begin, KeptInv
  <2>2. \A s \in Thread : ~Acts(s) BY <2>1 DEF Acts
  <2>3. Settled BY <2>1, <2>2 DEF CalmInv
  <2>4. /\ todo' = [todo EXCEPT ![t] = steps] /\ mine' = [mine EXCEPT ![t] = folder]
        /\ hand' = [hand EXCEPT ![t] = doc] /\ UNCHANGED <<folders, torn, docs, told, left, due, loop>>
    BY <1>1 DEF Begin, disk, sweep
  <2>5. /\ todo'[t] = steps /\ mine'[t] = folder
        /\ \A s \in Thread : s # t => hand'[s] = hand[s] /\ mine'[s] = mine[s]
    BY <1>0, <2>4 DEF Kinds
  <2>6. Underway(t)' BY <1>1, <2>3, <2>5
  <2> QED BY <1>0, <1>1, <2>1, <2>2, <2>4, <2>5, <2>6, CalmStart
<1>2. CASE CreateFolder(t)
  <2>1. PICK r \in Root :
            Begin(t, Registering, [id |-> fresh, path |-> r, count |-> 0], AnyDoc(fresh))
    BY <1>2 DEF CreateFolder
  <2> DEFINE f == [id |-> fresh, path |-> r, count |-> 0]
  <2>2. f.id = fresh /\ f.count = 0 /\ fresh' = fresh + 1 /\ fresh \in Nat
    BY <1>2 DEF CreateFolder, Kinds
  <2> HIDE DEF f
  <2>3. UNCHANGED <<folders, torn, docs, told, left>> BY <2>1 DEF Begin, disk
  <2>4. ASSUME Settled, todo'[t] = Registering, mine'[t] = f PROVE Underway(t)'
    <3>1. Settled' BY <2>2, <2>3, <2>4, SettledLater
    <3>2. fresh \notin left /\ \A d \in docs : d.folder # fresh
      <4>1. \A g \in folders : g.id \in Nat /\ g.id < fresh
        BY <2>4 DEF Settled, Listed, Kinds, AnyFolder
      <4>2. \A d \in docs : d.folder \in left \/ \E g \in folders : g.id = d.folder
        BY <2>4 DEF Settled, Listed
      <4>3. \A g \in left : g \in Nat /\ g < fresh BY <2>4 DEF Settled, Stored
      <4> QED BY <2>2, <4>1, <4>2, <4>3
    <3>3. fresh < fresh' BY <2>2
    <3>4. ToRegister(t)' BY <2>2, <2>3, <2>4, <3>1, <3>2, <3>3 DEF ToRegister
    <3> QED BY <3>4 DEF Underway
  <2>5. Begin(t, Registering, f, AnyDoc(fresh)) BY <2>1 DEF f
  <2>6. Registering # Arriving BY RequestPlans
  <2> QED BY <1>1, <2>2, <2>4, <2>5, <2>6, RequestPlans
<1>3. CASE DeleteFolder(t)
  <2>1. PICK f \in Index : Begin(t, Unregistering, f, AnyDoc(f.id)) /\ UNCHANGED fresh
    BY <1>3 DEF DeleteFolder
  <2>2. UNCHANGED <<folders, torn, docs, told, left>> BY <2>1 DEF Begin, disk
  <2>3. ASSUME Settled, todo'[t] = Unregistering PROVE Underway(t)'
    <3>1. ToUnregister(t)' BY <2>1, <2>2, <2>3, SettledLater DEF ToUnregister
    <3> QED BY <3>1 DEF Underway
  <2>4. Unregistering # Arriving BY RequestPlans
  <2> QED BY <1>1, <2>1, <2>3, <2>4, RequestPlans
<1>4. CASE DeleteFile(t)
  <2>1. PICK f \in Index, p \in File :
            Begin(t, Removing, f, [AnyDoc(f.id) EXCEPT !.path = p]) /\ UNCHANGED fresh
    BY <1>4 DEF DeleteFile
  <2>2. UNCHANGED <<folders, torn, docs, told, left>> BY <2>1 DEF Begin, disk
  <2>3. ASSUME Settled, todo'[t] = Removing, mine'[t] = f PROVE Underway(t)'
    <3>1. f \in folders BY <2>3 DEF Settled, Index
    <3>2. ToPick(t)' BY <2>1, <2>2, <2>3, <3>1, SettledLater DEF ToPick
    <3> QED BY <3>2 DEF Underway
  <2>4. Removing # Arriving BY RequestPlans
  <2> QED BY <1>1, <2>1, <2>3, <2>4, RequestPlans
<1>5. CASE Upload(t)
  <2>1. PICK f \in Index, p \in File, x \in Text :
            Begin(t, Arriving, f, Doc(f.id, p, x)) /\ UNCHANGED fresh
    BY <1>5 DEF Upload
  <2>2. /\ calm /\ CalmInv /\ loop = None
        /\ \A s \in Thread : Busy(s) => s \in Client /\ Uploading(s)
    BY <1>5, <2>1 DEF Upload, Begin, KeptInv
  <2>3. \A s \in Thread : ~Acts(s)
    <3>1. ASSUME NEW s \in Thread, Acts(s) PROVE FALSE
      <4>1. s \in Client /\ Uploading(s) /\ Underway(s) BY <2>2, <3>1 DEF Acts, CalmInv
      <4>2. ~At(s, "find") BY <4>1, Stands
      <4>3. loop = s BY <4>1, <4>2 DEF Uploading
      <4> QED BY <2>2, <4>1, <4>3, Clients
    <3> QED BY <3>1
  <2>4. Settled BY <2>2, <2>3 DEF CalmInv
  <2>5. f \in folders BY <2>4 DEF Settled, Index
  <2>6. /\ todo' = [todo EXCEPT ![t] = Arriving] /\ mine' = [mine EXCEPT ![t] = f]
        /\ hand' = [hand EXCEPT ![t] = Doc(f.id, p, x)]
        /\ UNCHANGED <<folders, torn, docs, told, left, due, loop, fresh>>
    BY <2>1 DEF Begin, disk, sweep
  <2>7. /\ mine'[t] = f /\ hand'[t] = Doc(f.id, p, x)
        /\ \A s \in Thread : s # t => hand'[s] = hand[s] /\ mine'[s] = mine[s]
    BY <1>0, <2>6 DEF Kinds
  <2>8. Arrives(t)' BY <2>5, <2>6, <2>7 DEF Arrives, Doc
  <2>9. Settled' BY <2>4, <2>6 DEF Settled
  <2> QED BY <1>0, <2>2, <2>3, <2>6, <2>7, <2>8, <2>9, CalmStart
<1> QED BY <1>2, <1>3, <1>4, <1>5 DEF Request

-----------------------------------------------------------------------------
(* The backfill, and a restart *)

LEMMA CalmBackfillStart ==
    ASSUME Kinds, KeptInv, BackfillStart, calm' PROVE CalmInv'
<1> DEFINE t == Backfill
<1>0. t \in Thread BY DEF Thread
<1>1. /\ calm /\ CalmInv /\ due /\ ~due' /\ batch' = {} /\ \A s \in Client : ~Busy(s)
      /\ todo' = [todo EXCEPT ![t] = Visiting]
      /\ UNCHANGED <<folders, torn, docs, mine, hand, loop, fresh, told, left>>
  BY DEF BackfillStart, KeptInv, Visiting, disk
<1>2. \A s \in Thread : ~Busy(s) /\ ~Acts(s)
  <2>1. ~Busy(Backfill) BY <1>1 DEF CalmInv, Alone
  <2> QED BY <1>1, <2>1 DEF Acts, Thread
<1>3. Settled BY <1>1, <1>2 DEF CalmInv
<1>4. Settled' BY <1>1, <1>3 DEF Settled
<1>5. todo'[t] = Visiting BY <1>0, <1>1 DEF Kinds
<1>6. ToVisit(t)' BY <1>1, <1>4, <1>5 DEF ToVisit
<1>7. Underway(t)' BY <1>6 DEF Underway
<1>8. Visiting # <<>> /\ Visiting # Arriving BY Plans, RequestPlans, PlansToDo
<1> HIDE DEF t
<1> QED BY <1>0, <1>1, <1>2, <1>7, <1>8, CalmStart

(* The registers of the backfill change, not what it does next.            *)
LEMMA CalmStay ==
    ASSUME Kinds, CalmInv, NEW t \in Thread, Acts(t), UNCHANGED <<todo, folders, due, loop>>,
           \A s \in Thread : s # t => hand'[s] = hand[s] /\ mine'[s] = mine[s],
           Underway(t)'
    PROVE  CalmInv'
<1> DEFINE q == todo[t]
<1>1. todo' = [todo EXCEPT ![t] = q] BY DEF Kinds
<1>2. q # <<>> /\ q # Arriving BY DEF Acts, Busy, Waits
<1>3. Runs(t) => q \in Uploads BY DEF CalmInv, Alone, Runs
<1> HIDE DEF q
<1> QED BY <1>1, <1>2, <1>3, CalmStep

LEMMA CalmVisit == ASSUME Kinds, CalmInv, VisitFolder PROVE CalmInv'
<1> DEFINE t == Backfill
<1>0. t \in Thread BY DEF Thread
<1>1. /\ At(t, "visit") /\ batch' \subseteq docs
      /\ UNCHANGED <<folders, torn, docs, todo, mine, hand, loop, fresh, told, left, due>>
  BY DEF VisitFolder, InFolder, disk, meters, ghosts
<1>2. Acts(t) /\ Underway(t) BY <1>0, <1>1, Onward
<1>3. ToVisit(t) BY <1>1, <1>2, Stands
<1>4. ToVisit(t)' BY <1>1, <1>3 DEF ToVisit, Settled
<1>5. Underway(t)' BY <1>4 DEF Underway
<1> HIDE DEF t
<1> QED BY <1>0, <1>1, <1>2, <1>5, CalmStay

LEMMA CalmEmbed == ASSUME Kinds, CalmInv, Embed PROVE CalmInv'
<1> DEFINE t == Backfill
<1>0. t \in Thread BY DEF Thread
<1>1. /\ At(t, "visit")
      /\ UNCHANGED <<folders, torn, docs, mine, loop, fresh, told, left, due>>
  BY DEF Embed, disk, meters, ghosts
<1>2. Acts(t) /\ Underway(t) BY <1>0, <1>1, Onward
<1>3. ToVisit(t) BY <1>1, <1>2, Stands
<1>4. Settled' /\ Distinct(docs) BY <1>1, <1>3 DEF ToVisit, Settled, Stored
<1>5. PICK d \in batch :
        /\ batch' = batch \ {d}
        /\ \/ /\ hand' = [hand EXCEPT ![t] = [d EXCEPT !.vector = d.text]]
              /\ todo' = [todo EXCEPT ![t] = Embedded]
           \/ UNCHANGED <<hand, todo>>
  BY DEF Embed, Embedded
<1>6. d \in docs /\ d \in AnyDocument /\ batch \subseteq docs BY <1>3 DEF ToVisit, Kinds
<1>7. CASE UNCHANGED <<hand, todo>>
  <2>1. ToVisit(t)' BY <1>1, <1>3, <1>4, <1>5, <1>7 DEF ToVisit
  <2>2. Underway(t)' BY <2>1 DEF Underway
  <2> HIDE DEF t
  <2> QED BY <1>0, <1>1, <1>2, <1>7, <2>2, CalmStay
<1>8. CASE /\ hand' = [hand EXCEPT ![t] = [d EXCEPT !.vector = d.text]]
           /\ todo' = [todo EXCEPT ![t] = Embedded]
  <2>1. /\ todo'[t] = Embedded /\ hand'[t] = [d EXCEPT !.vector = d.text]
        /\ \A s \in Thread : s # t => hand'[s] = hand[s]
    BY <1>0, <1>8 DEF Kinds
  <2>2. SameFile(d, hand'[t]) /\ EntryOf(d) = EntryOf(hand'[t])
    BY <1>6, <2>1 DEF SameFile, EntryOf, AnyDocument
  <2>3. \A b \in batch' : ~SameFile(b, hand'[t])
    BY <1>4, <1>5, <1>6, <2>2 DEF Distinct, SameFile
  <2>4. ToBlob(t)' BY <1>1, <1>4, <1>5, <1>6, <2>1, <2>2, <2>3 DEF ToBlob
  <2>5. Underway(t)' BY <2>4 DEF Underway
  <2>6. Embedded # <<>> /\ Embedded # Arriving BY Plans, RequestPlans, PlansToDo
  <2>7. loop' = loop /\ ~Runs(t) /\ due' => due /\ folders' = folders
    BY <1>1, Clients DEF Runs
  <2>8. ~Runs(t) BY Clients DEF Runs
  <2> HIDE DEF t
  <2> QED BY <1>0, <1>1, <1>2, <1>8, <2>1, <2>5, <2>6, <2>8, CalmStep
<1> QED BY <1>5, <1>7, <1>8

LEMMA CalmBlob == ASSUME Kinds, CalmInv, OpenBlob PROVE CalmInv'
<1> DEFINE t == Backfill
           h == hand[Backfill]
<1>0. t \in Thread BY DEF Thread
<1>1. At(t, "blob") /\ UNCHANGED <<folders, torn, mine, hand, loop, fresh, told, left, due, batch>>
  BY DEF OpenBlob, sweep
<1>2. Acts(t) /\ Underway(t) BY <1>0, <1>1, Onward
<1>3. ToBlob(t) BY <1>1, <1>2, Stands
<1>4. ~Runs(t) BY Clients DEF Runs
<1>5. CASE todo' = [todo EXCEPT ![t] = <<>>] /\ docs' = docs
  <2> DEFINE q == <<>>
  <2>1. Settled' BY <1>1, <1>3, <1>5 DEF ToBlob, Settled
  <2>2. q = <<>> /\ q # Arriving /\ todo' = [todo EXCEPT ![t] = q] BY <1>5, RequestPlans
  <2>3. loop' = (IF loop = t THEN None ELSE loop) BY <1>1 DEF Backfill
  <2> HIDE DEF t, q
  <2> QED BY <1>0, <1>1, <1>2, <1>4, <2>1, <2>2, <2>3, CalmStep
<1>6. CASE docs' = Unlike(docs, h) /\ opened' = [opened EXCEPT ![t] = TRUE] /\ Continue(t)
  <2>1. Tail(todo[t]) = Rewriting /\ todo'[t] = Rewriting
    BY <1>0, <1>3, <1>6, Plans DEF ToBlob, Continue, Kinds
  <2>2. opened'[t] = TRUE BY <1>0, <1>6 DEF Kinds
  <2>3. PICK d \in docs : SameFile(d, h) /\ EntryOf(d) = EntryOf(h) BY <1>3 DEF ToBlob
  <2>4. /\ Stored(docs' \cup {h}, told, left, fresh)
        /\ Listed(folders, docs' \cup {h}, left, fresh, {})
    <3>1. IsFiniteSet(docs) BY DEF Kinds
    <3>2. Stored(docs, told, left, fresh) /\ Listed(folders, docs, left, fresh, {})
      BY <1>3 DEF ToBlob, Settled
    <3> HIDE DEF h
    <3> QED BY <1>6, <2>3, <3>1, <3>2, Exchanged
  <2>5. /\ \A x \in docs' : ~SameFile(x, h)
        /\ batch \subseteq docs'
    BY <1>3, <1>6 DEF ToBlob, Unlike
  <2>6. ~torn BY <1>3 DEF ToBlob, Settled
  <2>7. ToRewrite(t)'
    BY <1>1, <1>3, <2>1, <2>2, <2>4, <2>5, <2>6 DEF ToBlob, ToRewrite
  <2>8. Underway(t)' BY <2>7 DEF Underway
  <2>9. Tail(todo[t]) # <<>> /\ Tail(todo[t]) # Arriving
    BY <2>1, Plans, RequestPlans, PlansToDo
  <2>10. todo[t] \notin Uploads
    <3>1. Head(todo[t]) = "blob" BY <1>3, Plans DEF ToBlob
    <3> QED BY <3>1, Plans DEF Uploads
  <2> HIDE DEF t
  <2> QED BY <1>0, <1>1, <1>2, <1>4, <1>6, <2>8, <2>9, <2>10, CalmOn
<1> QED BY <1>5, <1>6 DEF OpenBlob, Unlike

LEMMA CalmRewrite ==
    ASSUME Kinds, CalmInv, WriteDocument(Backfill) PROVE CalmInv'
<1> DEFINE t == Backfill
           h == hand[Backfill]
<1>0. t \in Thread BY DEF Thread
<1>1. /\ At(t, "write") /\ Continue(t)
      /\ UNCHANGED <<folders, torn, mine, hand, loop, fresh, told, left, due, batch>>
  BY DEF WriteDocument, sweep, meters
<1>2. Acts(t) /\ Underway(t) BY <1>0, <1>1, Onward
<1>3. ToRewrite(t) BY <1>0, <1>1, <1>2, Stands, Clients DEF ToWrite
<1>4. docs' = docs \cup {h}
  <2>1. Unlike(docs, h) = docs BY <1>3 DEF ToRewrite, Unlike
  <2> QED BY <1>3, <2>1 DEF WriteDocument, ToRewrite, Unlike
<1>5. Tail(todo[t]) = Visiting /\ todo'[t] = Visiting
  BY <1>0, <1>1, <1>3, Plans DEF ToRewrite, Continue, Kinds
<1>6. Settled' BY <1>1, <1>3, <1>4 DEF ToRewrite, Settled
<1>7. ToVisit(t)' BY <1>1, <1>3, <1>4, <1>5, <1>6 DEF ToRewrite, ToVisit
<1>8. Underway(t)' BY <1>7 DEF Underway
<1>9. Tail(todo[t]) # <<>> /\ Tail(todo[t]) # Arriving
  BY <1>5, Plans, RequestPlans, PlansToDo
<1>10. todo[t] \notin Uploads
  BY <1>3 DEF ToRewrite, Rewriting, Uploads, Opening, Writing, Counting, Merging, Emptying, Saving
<1>11. ~Runs(t) BY Clients DEF Runs
<1> HIDE DEF t
<1> QED BY <1>0, <1>1, <1>2, <1>8, <1>9, <1>10, <1>11, CalmOn

LEMMA CalmBackfillEnd == ASSUME Kinds, CalmInv, BackfillEnd PROVE CalmInv'
<1> DEFINE t == Backfill
           q == <<>>
<1>0. t \in Thread BY DEF Thread
<1>1. /\ At(t, "visit") /\ todo' = [todo EXCEPT ![t] = q]
      /\ UNCHANGED <<folders, torn, docs, mine, hand, loop, fresh, told, left, due>>
  BY DEF BackfillEnd, disk, sweep, meters, ghosts
<1>2. Acts(t) /\ Underway(t) BY <1>0, <1>1, Onward
<1>3. ToVisit(t) BY <1>1, <1>2, Stands
<1>4. Settled' BY <1>1, <1>3 DEF ToVisit, Settled
<1>5. q = <<>> /\ q # Arriving BY RequestPlans
<1>6. loop' = (IF loop = t THEN None ELSE loop) /\ ~Runs(t) BY <1>1, Clients DEF Backfill, Runs
<1> HIDE DEF t, q
<1> QED BY <1>0, <1>1, <1>2, <1>4, <1>5, <1>6, CalmStep

LEMMA CalmRestart == ASSUME Kinds, KeptInv, Restart, calm' PROVE CalmInv'
<1>1. /\ calm /\ CalmInv /\ loop' = None
      /\ \A t \in Thread : Busy(t) => At(t, "find") \/ At(t, "visit")
      /\ \A t \in Thread : todo'[t] = <<>>
      /\ UNCHANGED <<folders, torn, docs, fresh, told, left>>
  BY DEF Restart, KeptInv, disk
<1>2. Settled
  <2>1. CASE \A t \in Thread : ~Acts(t) BY <1>1, <2>1 DEF CalmInv
  <2>2. ASSUME NEW t \in Thread, Acts(t) PROVE Settled
    <3>1. Underway(t) /\ Busy(t) BY <1>1, <2>2 DEF CalmInv, Acts
    <3>2. ToVisit(t) BY <1>1, <3>1, Stands
    <3> QED BY <3>2 DEF ToVisit
  <2> QED BY <2>1, <2>2
<1>3. Settled' BY <1>1, <1>2 DEF Settled
<1>4. Backfill \in Thread /\ Arriving # <<>> BY RequestPlans DEF Thread
<1>5. \A t \in Thread : ~Busy(t)' /\ ~Acts(t)' /\ ~Waits(t)'
  BY <1>1, <1>4 DEF Acts, Busy, Waits
<1>6. Alone' BY <1>1, <1>4, <1>5, Clients DEF Alone
<1> QED BY <1>3, <1>5, <1>6 DEF CalmInv

LEMMA KeptInit == Init => KeptInv
<1> SUFFICES ASSUME Init PROVE CalmInv BY DEF KeptInv
<1>1. PICK r \in Root, p \in File, x \in Text :
        /\ folders = {[id |-> 1, path |-> r, count |-> 1]} /\ ~torn
        /\ docs = {[folder |-> 1, id |-> 2, path |-> p, text |-> x, vector |-> None]}
        /\ todo = [t \in Thread |-> <<>>] /\ loop = None /\ fresh = 3 /\ left = {}
        /\ told = {EntryOf([folder |-> 1, id |-> 2, path |-> p, text |-> x, vector |-> None])}
  BY DEF Init
<1> DEFINE d == [folder |-> 1, id |-> 2, path |-> p, text |-> x, vector |-> None]
           f == [id |-> 1, path |-> r, count |-> 1]
<1>2. f.id = 1 /\ f.count = 1 /\ d.folder = 1 /\ d.id = 2 OBVIOUS
<1>3. folders = {f} /\ docs = {d} /\ told = {EntryOf(d)} BY <1>1
<1> HIDE DEF d, f
<1>4. Listed(folders, docs, left, fresh, {})
  <2>1. Of(docs, 1) = {d} BY <1>2, <1>3 DEF Of
  <2>2. Cardinality({d}) = 1 BY FS_Singleton
  <2>3. \A g \in folders : g.id = 1 /\ g.count = Cardinality(Of(docs, 1)) BY <1>2, <1>3, <2>1, <2>2
  <2>4. \A e \in docs : \E g \in folders : g.id = e.folder BY <1>2, <1>3
  <2>5. fresh = 3 /\ left = {} BY <1>1
  <2> QED BY <2>3, <2>4, <2>5 DEF Listed
<1>5. Stored(docs, told, left, fresh) BY <1>1, <1>2, <1>3 DEF Stored, Distinct
<1>6. Settled BY <1>1, <1>4, <1>5 DEF Settled
<1>7. Backfill \in Thread /\ Arriving # <<>> BY RequestPlans DEF Thread
<1>8. \A t \in Thread : ~Busy(t) /\ ~Acts(t) /\ ~Waits(t)
  BY <1>1, <1>7 DEF Acts, Busy, Waits
<1>9. Alone BY <1>1, <1>7, <1>8, Clients DEF Alone
<1> QED BY <1>6, <1>8, <1>9 DEF CalmInv

LEMMA KeptNext == Kinds /\ KeptInv /\ [Next]_vars => KeptInv'
<1> SUFFICES ASSUME Kinds, KeptInv, [Next]_vars, calm' PROVE CalmInv' BY DEF KeptInv
<1>1. ASSUME NEW t \in Client, Request(t) PROVE CalmInv' BY <1>1, CalmRequest
<1>2. ASSUME NEW t \in Client, Step(t) PROVE CalmInv'
  <2>1. CalmInv
    BY <1>2 DEF KeptInv, Step, Register, Unregister, EmptyIndex, SaveIndexFile, RemoveTree,
         FindExisting, OpenDocument, CountDocuments, MergeFolder, PickDocument, Unlink, Recall,
         Recount, ghosts
  <2> QED BY <1>2, <2>1, CalmRegister, CalmUnregister, CalmEmpty, CalmSave, CalmClear, CalmFind,
          CalmOpen, CalmCount, CalmMerge, CalmPick, CalmUnlink, CalmRecall, CalmRecount DEF Step
<1>3. ASSUME NEW t \in Thread, WriteDocument(t) PROVE CalmInv'
  <2>1. CalmInv BY <1>3 DEF KeptInv, WriteDocument
  <2> QED BY <1>3, <2>1, CalmWrite, CalmRewrite DEF Thread
<1>4. CASE Sweep
  <2>1. CASE BackfillStart BY <2>1, CalmBackfillStart
  <2>2. CASE VisitFolder \/ Embed \/ OpenBlob \/ BackfillEnd
    <3>1. CalmInv BY <2>2 DEF KeptInv, VisitFolder, Embed, OpenBlob, BackfillEnd, ghosts
    <3> QED BY <2>2, <3>1, CalmVisit, CalmEmbed, CalmBlob, CalmBackfillEnd
  <2> QED BY <1>4, <2>1, <2>2 DEF Sweep
<1>5. CASE Restart BY <1>5, CalmRestart
<1>6. CASE UNCHANGED vars
  <2>1. /\ UNCHANGED <<folders, torn, docs, todo, seen, mine, hand, opened, loop, batch, due,
                       fresh, told, left, calm>>
    BY <1>6 DEF vars, disk, sweep, meters, ghosts
  <2>2. CalmInv BY <2>1 DEF KeptInv
  <2>3. Settled => Settled' BY <2>1 DEF Settled
  <2>4. ASSUME NEW t \in Thread, Underway(t) PROVE Underway(t)'
    <3>1. /\ ToOpen(t) => ToOpen(t)'
          /\ ToWrite(t) => ToWrite(t)'
          /\ ToSave(t) => ToSave(t)'
      BY <2>1, <2>3 DEF ToOpen, ToWrite, ToSave, Arrives
    <3>2. /\ ToCount(t) => ToCount(t)'
          /\ ToMerge(t) => ToMerge(t)'
          /\ ToRecall(t) => ToRecall(t)'
          /\ ToRecount(t) => ToRecount(t)'
      BY <2>1 DEF ToCount, ToMerge, ToRecall, ToRecount, Uncounted
    <3>3. /\ ToRegister(t) => ToRegister(t)'
          /\ ToUnregister(t) => ToUnregister(t)'
          /\ ToDelist(t) => ToDelist(t)'
          /\ ToClear(t) => ToClear(t)'
      BY <2>1, <2>3 DEF ToRegister, ToUnregister, ToDelist, ToClear, Dropped
    <3>4. /\ ToPick(t) => ToPick(t)'
          /\ ToUnlink(t) => ToUnlink(t)'
          /\ ToVisit(t) => ToVisit(t)'
          /\ ToBlob(t) => ToBlob(t)'
          /\ ToRewrite(t) => ToRewrite(t)'
      BY <2>1, <2>3 DEF ToPick, ToUnlink, ToVisit, ToBlob, ToRewrite
    <3> QED BY <2>4, <3>1, <3>2, <3>3, <3>4 DEF Underway
  <2>5. \A t : /\ Acts(t)' = Acts(t) /\ Busy(t)' = Busy(t) /\ Waits(t)' = Waits(t)
              /\ Runs(t)' = Runs(t) /\ Arrives(t)' = Arrives(t)
    BY <2>1 DEF Acts, Busy, Waits, Runs, Arrives
  <2>6. Alone' BY <2>1, <2>2, <2>5 DEF CalmInv, Alone
  <2> QED BY <2>2, <2>3, <2>4, <2>5, <2>6 DEF CalmInv
<1> QED BY <1>1, <1>2, <1>3, <1>4, <1>5, <1>6 DEF Next

(* While only uploads overlapped, the library holds what the client was    *)
(* told, one document per file, in registered folders that know their      *)
(* number, and beside it only what failed removals of folders left: the    *)
(* invariant says of the one thread that is under way how far the disk is  *)
(* from settled at each of its accesses.                                   *)
THEOREM LibraryKeptAlways == Spec => []LibraryKept
<1>1. KeptInv => LibraryKept
  <2> SUFFICES ASSUME CalmInv, \A t \in Thread : ~Busy(t) \/ At(t, "find"), KeptInv
               PROVE  /\ {EntryOf(d) : d \in {d \in docs : d.folder \notin left}} = told
                      /\ \A d, e \in docs : EntryOf(d) = EntryOf(e) => d = e
                      /\ \A d \in {d \in docs : d.folder \notin left} : \E f \in Index : f.id = d.folder
                      /\ \A f \in Index : f.count = Cardinality(InFolder(f.id))
    BY DEF KeptInv, LibraryKept
  <2>1. \A t \in Thread : ~Acts(t)
    <3>1. ASSUME NEW t \in Thread, Acts(t) PROVE FALSE
      <4>1. Busy(t) /\ Underway(t) BY <3>1 DEF Acts, CalmInv
      <4>2. ~At(t, "find") BY <4>1, Stands
      <4> QED BY <4>1, <4>2
    <3> QED BY <3>1
  <2>2. Settled BY <2>1 DEF CalmInv
  <2>3. Index = folders BY <2>2 DEF Settled, Index
  <2>4. {EntryOf(d) : d \in {d \in docs : d.folder \notin left}} = told
    <3>1. \A d : EntryOf(d).folder = d.folder BY DEF EntryOf
    <3> QED BY <2>2, <3>1 DEF Settled, Stored
  <2>5. \A d, e \in docs : EntryOf(d) = EntryOf(e) => d = e
    <3>1. \A d, e \in docs : EntryOf(d) = EntryOf(e) => SamePath(d, e) BY DEF EntryOf, SamePath
    <3> QED BY <2>2, <3>1 DEF Settled, Stored, Distinct
  <2>6. \A g : InFolder(g) = Of(docs, g) BY DEF InFolder, Of
  <2>7. \A f \in folders : f.count = Cardinality(InFolder(f.id))
    BY <2>2, <2>6 DEF Settled, Listed
  <2> QED BY <2>2, <2>3, <2>4, <2>5, <2>7 DEF Settled, Listed
<1> QED BY <1>1, KindsAlways, KeptInit, KeptNext, PTL DEF Spec
=============================================================================
