---------------------------- MODULE MemoryProofs ----------------------------
(***************************************************************************)
(* Personal memory: ephemeral chats leave nothing behind, a cached loom is *)
(* the one the policy on file gives, and a memory page fuses fairly what   *)
(* its backends answered, for any threads, users, backends, policies and   *)
(* number of operations.  Shared memory: the chain of versions, the        *)
(* history and the policies hold together while calls do not overlap, and  *)
(* every promotion is earned always, for any labels, writers,              *)
(* contributors, personal memories and cutoffs.                            *)
(***************************************************************************)
EXTENDS Recall, Consolidation, FiniteSetTheorems, SequenceTheorems, WellFoundedInduction, TLAPS

Stored == [id: Nat, user: User, ephemeral: BOOLEAN]

Kinds ==
    /\ mode \in Mode /\ configured \in Mode
    /\ written \in Nat
    /\ store \in [Backend -> Seq(Stored)]
    /\ todo \in [Thread -> Seq(Steps)]
    /\ user \in [Thread -> User]
    /\ ephemeral \in [Thread -> BOOLEAN]
    /\ saved \in [Thread -> Mode]
    /\ agent \in [Thread -> Mode \cup {"none"}]

(* The steps of a chat, and of one that is under way. *)
ChatSteps == {"save_mode", "set_mode", "run", "restore"}
Whole == <<"save_mode", "set_mode", "run", "restore">>
Set == <<"set_mode", "run", "restore">>
Running == <<"run", "restore">>
Closing == <<"restore">>

Elsewhere(s) == \A i \in 1 .. Len(s) : s[i] \notin ChatSteps

Places ==
    \A t \in Thread :
        \/ ephemeral[t] /\ todo[t] \in {Whole, Set, Running, Closing}
        \/ ~ephemeral[t] /\ todo[t] = <<"run">>
        \/ Elsewhere(todo[t])

Under(t) == ephemeral[t] /\ todo[t] \in {Set, Running, Closing}

(* While ephemeral chats do not overlap, the one under way will put back   *)
(* what the operator set, and its agent has not seen the mode or saw it    *)
(* read-only.                                                              *)
OneChat ==
    /\ \A s, t \in Thread : Under(s) /\ Under(t) => s = t
    /\ \A t \in Thread : Under(t) =>
          /\ saved[t] = configured
          /\ mode = IF todo[t] = Set THEN configured ELSE "read_only"
          /\ todo[t] = Running => agent[t] \in {"none", "read_only"}
    /\ (\A t \in Thread : ~Under(t)) => mode = configured

NothingKept == \A b \in Backend : \A i \in 1 .. Len(store[b]) : ~store[b][i].ephemeral

(* An ephemeral chat's agent has no memory before the chat runs it.        *)
NotBuilt == \A t \in Thread : ephemeral[t] /\ todo[t] \in {Whole, Set} => agent[t] = "none"

ChatInv == Places /\ NotBuilt /\ (clean => OneChat /\ NothingKept)

-----------------------------------------------------------------------------
(* Plans *)

LEMMA PlanFacts ==
    /\ Whole \in Seq(Steps) /\ Set \in Seq(Steps) /\ Running \in Seq(Steps)
    /\ Closing \in Seq(Steps) /\ <<"run">> \in Seq(Steps) /\ <<>> \in Seq(Steps)
    /\ Head(Whole) = "save_mode" /\ Tail(Whole) = Set
    /\ Head(Set) = "set_mode" /\ Tail(Set) = Running
    /\ Head(Running) = "run" /\ Tail(Running) = Closing
    /\ Head(Closing) = "restore" /\ Tail(Closing) = <<>>
    /\ Head(<<"run">>) = "run" /\ Tail(<<"run">>) = <<>>
    /\ Whole # <<>> /\ Set # <<>> /\ Running # <<>> /\ Closing # <<>> /\ <<"run">> # <<>>
BY DEF Whole, Set, Running, Closing, Steps

LEMMA PlansDiffer ==
    /\ Whole \notin {Set, Running, Closing} /\ Set \notin {Running, Closing} /\ Running # Closing
    /\ <<"run">> \notin {Whole, Set, Running, Closing}
BY DEF Whole, Set, Running, Closing

LEMMA ElsewherePlans ==
    /\ \A s \in {<<"loom", "load", "keep", "show">>, <<"flow", "record">>, <<"show">>,
                 <<"truncate", "write", "clear">>, <<"keys", "clear">>, <<>>} :
          s \in Seq(Steps) /\ Elsewhere(s)
    /\ \A s \in {Whole, Set, Running, Closing, <<"run">>} : ~Elsewhere(s)
BY DEF Elsewhere, Steps, ChatSteps, Whole, Set, Running, Closing

LEMMA ElsewhereTail ==
    ASSUME NEW s \in Seq(Steps), s # <<>>, Elsewhere(s)
    PROVE  Tail(s) \in Seq(Steps) /\ Elsewhere(Tail(s)) /\ Head(s) \notin ChatSteps
<1>1. /\ Tail(s) \in Seq(Steps) /\ Len(s) \in Nat /\ Len(s) > 0 /\ Len(Tail(s)) = Len(s) - 1
      /\ Head(s) = s[1] /\ \A i \in 1 .. Len(s) - 1 : Tail(s)[i] = s[i + 1]
  BY HeadTailProperties, LenProperties, EmptySeq
<1>2. \A i \in 1 .. Len(s) - 1 : Tail(s)[i] \notin ChatSteps BY <1>1 DEF Elsewhere
<1> QED BY <1>1, <1>2 DEF Elsewhere

-----------------------------------------------------------------------------
(* Types *)

LEMMA Advance ==
    ASSUME Kinds, NEW t \in Thread, Busy(t), Continue(t)
    PROVE  todo' = [todo EXCEPT ![t] = Tail(todo[t])] /\ todo' \in [Thread -> Seq(Steps)]
<1>1. todo[t] \in Seq(Steps) /\ todo[t] # <<>> BY DEF Kinds, Busy
<1>2. Tail(todo[t]) \in Seq(Steps) BY <1>1, HeadTailProperties
<1> QED BY <1>2 DEF Continue, Kinds

(* A write appends one record to one backend. *)
LEMMA WriteFacts ==
    ASSUME Kinds, NEW t \in Thread, NEW e \in BOOLEAN, NEW b, Write(b, t, e)
    PROVE  /\ written' \in Nat /\ store' \in [Backend -> Seq(Stored)]
           /\ ~e /\ NothingKept => NothingKept'
<1> DEFINE r == [id |-> written + 1, user |-> user[t], ephemeral |-> e]
<1>1. r \in Stored /\ r.ephemeral = e BY DEF Kinds, Stored
<1>2. store' = [store EXCEPT ![b] = Append(store[b], r)] /\ written' = written + 1
  BY DEF Write
<1> HIDE DEF r
<1>3. CASE b \in Backend
  <2>1. /\ Append(store[b], r) \in Seq(Stored) /\ Len(store[b]) \in Nat
        /\ Len(Append(store[b], r)) = Len(store[b]) + 1
        /\ Append(store[b], r)[Len(store[b]) + 1] = r
        /\ \A i \in 1 .. Len(store[b]) : Append(store[b], r)[i] = store[b][i]
    BY <1>1, <1>3, AppendProperties, LenProperties DEF Kinds
  <2>2. store' \in [Backend -> Seq(Stored)] BY <1>2, <2>1 DEF Kinds
  <2>3. ASSUME ~e, NothingKept, NEW c \in Backend, NEW i \in 1 .. Len(store'[c])
        PROVE  ~store'[c][i].ephemeral
    <3>1. CASE c = b
      <4>1. store'[c] = Append(store[b], r) BY <1>2, <1>3, <3>1 DEF Kinds
      <4>2. i \in 1 .. Len(store[b]) \/ i = Len(store[b]) + 1 BY <2>1, <2>3, <4>1
      <4> QED BY <1>1, <1>3, <2>1, <2>3, <4>1, <4>2 DEF NothingKept
    <3>2. CASE c # b
      <4>1. store'[c] = store[c] BY <1>2, <3>2 DEF Kinds
      <4> QED BY <2>3, <4>1 DEF NothingKept
    <3> QED BY <3>1, <3>2
  <2> QED BY <1>2, <2>2, <2>3 DEF NothingKept, Kinds
<1>4. CASE b \notin Backend
  <2>1. store' = store BY <1>2, <1>4 DEF Kinds
  <2>2. store' \in [Backend -> Seq(Stored)] BY <2>1 DEF Kinds
  <2>4. written' \in Nat BY <1>2 DEF Kinds
  <2>3. NothingKept => NothingKept' BY <2>1 DEF NothingKept
  <2> QED BY <2>2, <2>3, <2>4
<1> QED BY <1>3, <1>4

LEMMA RequestFacts ==
    ASSUME Kinds, NEW t \in Thread, Request(t)
    PROVE  /\ Kinds' /\ ~Busy(t)
           /\ UNCHANGED <<mode, configured, clean, store, saved>>
           /\ \E x \in Seq(Steps) :
                 /\ todo' = [todo EXCEPT ![t] = x]
                 /\ \/ ephemeral'[t] /\ x = Whole /\ agent'[t] = "none"
                    \/ ~ephemeral'[t] /\ x = <<"run">>
                    \/ Elsewhere(x)
           /\ \A s \in Thread : s # t => ephemeral'[s] = ephemeral[s] /\ agent'[s] = agent[s]
<1>1. ASSUME NEW u \in User, NEW x \in Seq(Steps), Begin(t, u, x)
      PROVE  /\ ~Busy(t) /\ todo' = [todo EXCEPT ![t] = x]
             /\ user' \in [Thread -> User] /\ todo' \in [Thread -> Seq(Steps)]
             /\ UNCHANGED <<mode, configured, clean, store, saved, written>>
  BY <1>1 DEF Begin, Kinds, shared, ghosts
<1>2. CASE Chat(t)
  <2>1. PICK u \in User, e \in BOOLEAN :
          /\ Begin(t, u, IF e THEN Whole ELSE <<"run">>)
          /\ ephemeral' = [ephemeral EXCEPT ![t] = e]
          /\ agent' = [agent EXCEPT ![t] = "none"]
    BY <1>2 DEF Chat, Whole
  <2> DEFINE x == IF e THEN Whole ELSE <<"run">>
  <2>2. x \in Seq(Steps) BY PlanFacts
  <2>3. (e /\ x = Whole) \/ (~e /\ x = <<"run">>) OBVIOUS
  <2> HIDE DEF x
  <2>4. Begin(t, u, x) BY <2>1 DEF x
  <2>5. /\ ephemeral' \in [Thread -> BOOLEAN] /\ ephemeral'[t] = e
        /\ agent' \in [Thread -> Mode \cup {"none"}] /\ agent'[t] = "none"
        /\ \A s \in Thread : s # t => ephemeral'[s] = ephemeral[s] /\ agent'[s] = agent[s]
    BY <2>1 DEF Kinds
  <2> QED BY <1>1, <2>2, <2>3, <2>4, <2>5 DEF Kinds
<1>3. ASSUME NEW u \in User,
             NEW x \in {<<"loom", "load", "keep", "show">>, <<"flow", "record">>,
                        <<"truncate", "write", "clear">>, <<"keys", "clear">>},
             Begin(t, u, x), UNCHANGED <<ephemeral, agent>>
      PROVE  /\ Kinds' /\ ~Busy(t)
             /\ UNCHANGED <<mode, configured, clean, store, saved>>
             /\ x \in Seq(Steps) /\ todo' = [todo EXCEPT ![t] = x] /\ Elsewhere(x)
  <2>1. x \in Seq(Steps) /\ Elsewhere(x) BY ElsewherePlans
  <2> QED BY <1>1, <1>3, <2>1 DEF Kinds
<1>4. CASE OpenPage(t) BY <1>3, <1>4 DEF OpenPage
<1>5. CASE Flow(t) BY <1>3, <1>5 DEF Flow
<1>6. CASE Settings(t) BY <1>3, <1>6 DEF Settings
<1> QED BY <1>2, <1>4, <1>5, <1>6 DEF Request

LEMMA StepKinds == ASSUME Kinds, NEW t \in Thread, Step(t) PROVE Kinds'
<1>1. CASE SaveMode(t)
  <2>1. Busy(t) /\ Continue(t) BY <1>1 DEF SaveMode, At
  <2> QED BY <1>1, <2>1, Advance DEF SaveMode, Kinds, shared, bounds
<1>2. CASE SetMode(t)
  <2>1. Busy(t) /\ Continue(t) BY <1>2 DEF SetMode, At
  <2> QED BY <1>2, <2>1, Advance DEF SetMode, Kinds, registers, bounds, ghosts, Mode
<1>3. CASE Remember(t)
  <2>1. agent' \in [Thread -> Mode \cup {"none"}] BY <1>3 DEF Remember, Kinds
  <2>2. written' \in Nat /\ store' \in [Backend -> Seq(Stored)]
    <3>1. CASE UNCHANGED <<store, written>> BY <3>1 DEF Kinds
    <3>2. CASE Write("json", t, ephemeral[t])
      <4>1. ephemeral[t] \in BOOLEAN BY DEF Kinds
      <4> QED BY <3>2, <4>1, WriteFacts
    <3> QED BY <1>3, <3>1, <3>2 DEF Remember
  <2> QED BY <1>3, <2>1, <2>2 DEF Remember, Kinds, ghosts
<1>4. CASE Answer(t)
  <2>1. Busy(t) /\ Continue(t) BY <1>4 DEF Answer, At
  <2> QED BY <1>4, <2>1, Advance DEF Answer, Kinds, shared, registers, bounds, ghosts
<1>5. CASE Restore(t)
  <2>1. Busy(t) /\ Continue(t) BY <1>5 DEF Restore, At
  <2> QED BY <1>5, <2>1, Advance DEF Restore, Kinds, registers, bounds, ghosts
<1>6. CASE GetLoom(t)
  <2>1. todo' = [todo EXCEPT ![t] = IF loom = None THEN Tail(todo[t]) ELSE <<"show">>]
    BY <1>6 DEF GetLoom
  <2>2. todo[t] \in Seq(Steps) /\ todo[t] # <<>> BY <1>6 DEF GetLoom, At, Busy, Kinds
  <2>3. Tail(todo[t]) \in Seq(Steps) BY <2>2, HeadTailProperties
  <2>4. <<"show">> \in Seq(Steps) BY DEF Steps
  <2>5. todo' \in [Thread -> Seq(Steps)] BY <2>1, <2>3, <2>4 DEF Kinds
  <2> QED BY <1>6, <2>5 DEF GetLoom, Kinds, shared, bounds, ghosts
<1>7. CASE RecordEpisode(t)
  <2>1. Busy(t) /\ Continue(t) BY <1>7 DEF RecordEpisode, At
  <2>2. written' \in Nat /\ store' \in [Backend -> Seq(Stored)]
    BY <1>7, WriteFacts DEF RecordEpisode, Kinds
  <2> QED BY <1>7, <2>1, <2>2, Advance DEF RecordEpisode, Kinds, registers, ghosts
<1>8. CASE \/ Load(t) \/ Keep(t) \/ Show(t) \/ RunFlow(t)
           \/ Truncate(t) \/ WritePolicy(t) \/ SaveKeys(t) \/ Clear(t)
  <2>1. /\ Busy(t) /\ Continue(t)
        /\ UNCHANGED <<mode, configured, written, store, user, ephemeral, saved, agent>>
    BY <1>8 DEF Load, Keep, Show, RunFlow, Truncate, WritePolicy, SaveKeys, Clear, At,
                shared, registers, bounds, ghosts
  <2> QED BY <2>1, Advance DEF Kinds
<1> QED BY <1>1, <1>2, <1>3, <1>4, <1>5, <1>6, <1>7, <1>8 DEF Step

LEMMA KindsInit == Init => Kinds
<1> SUFFICES ASSUME Init PROVE Kinds OBVIOUS
<1>1. <<>> \in Seq(Steps) /\ <<>> \in Seq(Stored) BY EmptySeq
<1>2. PICK u \in User : user = [t \in Thread |-> u] BY DEF Init
<1> QED BY <1>1, <1>2 DEF Init, Kinds, Mode

LEMMA KindsNext == Kinds /\ [Next]_vars => Kinds'
<1> SUFFICES ASSUME Kinds, [Next]_vars PROVE Kinds' OBVIOUS
<1>1. CASE UNCHANGED vars BY <1>1 DEF vars, Kinds, shared, registers, bounds, ghosts
<1> QED BY <1>1, RequestFacts, StepKinds DEF Next

-----------------------------------------------------------------------------
(* Chats *)

(* Where a thread is, by the step it is about to take. *)
LEMMA Where ==
    ASSUME Kinds, Places, NEW t \in Thread, Busy(t)
    PROVE  /\ Head(todo[t]) = "save_mode" => ephemeral[t] /\ todo[t] = Whole
           /\ Head(todo[t]) = "set_mode" => ephemeral[t] /\ todo[t] = Set
           /\ Head(todo[t]) = "restore" => ephemeral[t] /\ todo[t] = Closing
           /\ Head(todo[t]) = "run" =>
                 \/ ephemeral[t] /\ todo[t] = Running
                 \/ ~ephemeral[t] /\ todo[t] = <<"run">>
           /\ Head(todo[t]) \notin ChatSteps => Elsewhere(todo[t])
<1>1. todo[t] \in Seq(Steps) /\ todo[t] # <<>> BY DEF Busy, Kinds
<1>2. Elsewhere(todo[t]) => Head(todo[t]) \notin ChatSteps BY <1>1, ElsewhereTail
<1>3. \/ ephemeral[t] /\ todo[t] \in {Whole, Set, Running, Closing}
      \/ ~ephemeral[t] /\ todo[t] = <<"run">>
      \/ Elsewhere(todo[t])
  BY DEF Places
<1> QED BY <1>2, <1>3, PlanFacts DEF ChatSteps

LEMMA UnderIsBusy ==
    ASSUME Kinds, Places, NEW t \in Thread
    PROVE  InEphemeral(t) <=> Under(t)
<1>1. CASE Busy(t) BY <1>1, Where, PlanFacts DEF InEphemeral, Under
<1>2. CASE ~Busy(t) BY <1>2, PlanFacts DEF InEphemeral, Under, Busy
<1> QED BY <1>1, <1>2

(* A step of a thread that is in no ephemeral chat before or after it. *)
LEMMA Apart ==
    ASSUME Kinds, ChatInv, NEW t \in Thread, NEW x \in Seq(Steps),
           ~Under(t), todo' = [todo EXCEPT ![t] = x],
           UNCHANGED <<mode, configured, clean, saved>>,
           \A s \in Thread : s # t => ephemeral'[s] = ephemeral[s] /\ agent'[s] = agent[s],
           \/ ephemeral'[t] /\ x = Whole /\ agent'[t] = "none"
           \/ ~ephemeral'[t] /\ x = <<"run">>
           \/ Elsewhere(x),
           NothingKept => NothingKept'
    PROVE  ChatInv'
<1>1. todo'[t] = x /\ \A s \in Thread : s # t => todo'[s] = todo[s] BY DEF Kinds
<1>2. x \notin {Set, Running, Closing}
  BY PlansDiffer, ElsewherePlans
<1>3. ~(ephemeral'[t] /\ todo'[t] \in {Set, Running, Closing}) BY <1>1, <1>2
<1>4. \A s \in Thread : (ephemeral'[s] /\ todo'[s] \in {Set, Running, Closing})
                          => s # t /\ ephemeral[s] /\ todo[s] \in {Set, Running, Closing}
  BY <1>1, <1>3
<1>5. \A s \in Thread : (ephemeral[s] /\ todo[s] \in {Set, Running, Closing})
                          => s # t /\ ephemeral'[s] /\ todo'[s] \in {Set, Running, Closing}
  BY <1>1 DEF Under
<1>6. Places' BY <1>1 DEF ChatInv, Places
<1>7. OneChat => OneChat' BY <1>1, <1>4, <1>5 DEF OneChat, Under
<1>8. NotBuilt'
  <2>1. ephemeral'[t] /\ x \in {Whole, Set} => agent'[t] = "none"
    BY PlansDiffer, ElsewherePlans
  <2> QED BY <1>1, <2>1 DEF ChatInv, NotBuilt
<1> QED BY <1>6, <1>7, <1>8 DEF ChatInv

LEMMA SaveModeChat == ASSUME Kinds, ChatInv, NEW t \in Thread, SaveMode(t) PROVE ChatInv'
<1>1. Busy(t) /\ Head(todo[t]) = "save_mode" /\ Continue(t) BY DEF SaveMode, At
<1>2. ephemeral[t] /\ todo[t] = Whole BY <1>1, Where DEF ChatInv
<1>3. /\ todo'[t] = Set /\ \A s \in Thread : s # t => todo'[s] = todo[s]
  BY <1>1, <1>2, PlanFacts DEF Continue, Kinds
<1>4. /\ UNCHANGED <<mode, configured, store, ephemeral, agent>>
      /\ saved'[t] = mode /\ \A s \in Thread : s # t => saved'[s] = saved[s]
  BY DEF SaveMode, Kinds, shared
<1>5. Places' BY <1>2, <1>3, <1>4 DEF ChatInv, Places
<1>6. ASSUME clean' PROVE OneChat' /\ NothingKept'
  <2>1. clean /\ \A s \in Thread : s # t => ~Under(s)
    <3>1. clean /\ \A s \in Thread \ {t} : ~InEphemeral(s) BY <1>6 DEF SaveMode
    <3> QED BY <3>1, UnderIsBusy DEF ChatInv
  <2>2. ~Under(t) BY <1>2, PlansDiffer DEF Under
  <2>3. mode = configured BY <2>1, <2>2 DEF ChatInv, OneChat
  <2>4. \A s \in Thread : s # t => ~(ephemeral'[s] /\ todo'[s] \in {Set, Running, Closing})
    BY <1>3, <1>4, <2>1 DEF Under
  <2>5. OneChat' BY <1>2, <1>3, <1>4, <2>3, <2>4, PlansDiffer DEF OneChat, Under
  <2>6. NothingKept' BY <1>4, <2>1 DEF ChatInv, NothingKept
  <2> QED BY <2>5, <2>6
<1>7. NotBuilt' BY <1>2, <1>3, <1>4 DEF ChatInv, NotBuilt
<1> QED BY <1>5, <1>6, <1>7 DEF ChatInv, SaveMode

(* A step of the ephemeral chat under way from one place to the next. *)
LEMMA SetModeChat == ASSUME Kinds, ChatInv, NEW t \in Thread, SetMode(t) PROVE ChatInv'
<1>1. Busy(t) /\ Head(todo[t]) = "set_mode" /\ Continue(t) BY DEF SetMode, At
<1>2. ephemeral[t] /\ todo[t] = Set BY <1>1, Where DEF ChatInv
<1>3. /\ todo'[t] = Running /\ \A s \in Thread : s # t => todo'[s] = todo[s]
  BY <1>1, <1>2, PlanFacts DEF Continue, Kinds
<1>4. mode' = "read_only" /\ UNCHANGED <<configured, clean, store, ephemeral, saved, agent>>
  BY DEF SetMode, registers, ghosts
<1>5. Places' BY <1>2, <1>3, <1>4 DEF ChatInv, Places
<1>6. ASSUME clean PROVE OneChat' /\ NothingKept'
  <2>1. Under(t) BY <1>2 DEF Under
  <2>2. OneChat /\ NothingKept BY <1>6 DEF ChatInv
  <2>3. \A s \in Thread : s # t => ~Under(s) BY <2>1, <2>2 DEF OneChat
  <2>4. \A s \in Thread : s # t => ~(ephemeral'[s] /\ todo'[s] \in {Set, Running, Closing})
    BY <1>3, <1>4, <2>3 DEF Under
  <2>5. saved[t] = configured BY <2>1, <2>2 DEF OneChat
  <2>6. agent[t] = "none" BY <1>2 DEF ChatInv, NotBuilt
  <2>7. todo'[t] = Running /\ ephemeral'[t] BY <1>2, <1>3, <1>4
  <2>8. OneChat' BY <1>4, <2>4, <2>5, <2>6, <2>7, PlansDiffer DEF OneChat, Under
  <2> QED BY <1>4, <2>2, <2>8 DEF NothingKept
<1>7. NotBuilt' BY <1>2, <1>3, <1>4, PlansDiffer DEF ChatInv, NotBuilt
<1> QED BY <1>4, <1>5, <1>6, <1>7 DEF ChatInv

LEMMA RestoreChat == ASSUME Kinds, ChatInv, NEW t \in Thread, Restore(t) PROVE ChatInv'
<1>1. Busy(t) /\ Head(todo[t]) = "restore" /\ Continue(t) BY DEF Restore, At
<1>2. ephemeral[t] /\ todo[t] = Closing BY <1>1, Where DEF ChatInv
<1>3. /\ todo'[t] = <<>> /\ \A s \in Thread : s # t => todo'[s] = todo[s]
  BY <1>1, <1>2, PlanFacts DEF Continue, Kinds
<1>4. mode' = saved[t] /\ UNCHANGED <<configured, clean, store, ephemeral, saved, agent>>
  BY DEF Restore, registers, ghosts
<1>5. Elsewhere(<<>>) /\ <<>> \notin {Whole, Set, Running, Closing}
  BY ElsewherePlans, PlanFacts
<1>6. Places' BY <1>3, <1>4, <1>5 DEF ChatInv, Places
<1>7. NotBuilt' BY <1>3, <1>4, <1>5 DEF ChatInv, NotBuilt
<1>8. ASSUME clean PROVE OneChat' /\ NothingKept'
  <2>1. Under(t) BY <1>2 DEF Under
  <2>2. OneChat /\ NothingKept BY <1>8 DEF ChatInv
  <2>3. \A s \in Thread : s # t => ~Under(s) BY <2>1, <2>2 DEF OneChat
  <2>4. \A s \in Thread : ~(ephemeral'[s] /\ todo'[s] \in {Set, Running, Closing})
    BY <1>3, <1>4, <1>5, <2>3 DEF Under
  <2>5. saved[t] = configured BY <2>1, <2>2 DEF OneChat
  <2>6. OneChat' BY <1>4, <2>4, <2>5 DEF OneChat, Under
  <2> QED BY <1>4, <2>2, <2>6 DEF NothingKept
<1> QED BY <1>4, <1>6, <1>7, <1>8 DEF ChatInv

(* An ephemeral chat's memory, built while the process was read-only, is   *)
(* read-only; so nothing is written that would have to be marked.          *)
LEMMA RememberChat == ASSUME Kinds, ChatInv, NEW t \in Thread, Remember(t) PROVE ChatInv'
<1>1. Busy(t) /\ Head(todo[t]) = "run" BY DEF Remember, At
<1>2. \/ ephemeral[t] /\ todo[t] = Running
      \/ ~ephemeral[t] /\ todo[t] = <<"run">>
  BY <1>1, Where DEF ChatInv
<1>3. /\ UNCHANGED <<mode, configured, clean, todo, ephemeral, saved>>
      /\ agent'[t] = IF agent[t] = "none" THEN mode ELSE agent[t]
      /\ \A s \in Thread : s # t => agent'[s] = agent[s]
  BY DEF Remember, Kinds, ghosts
<1>4. todo[t] \notin {Whole, Set} BY <1>2, PlansDiffer
<1>5. Places' BY <1>3 DEF ChatInv, Places
<1>6. NotBuilt' BY <1>3, <1>4 DEF ChatInv, NotBuilt
<1>7. ASSUME clean PROVE OneChat' /\ NothingKept'
  <2>1. OneChat /\ NothingKept BY <1>7 DEF ChatInv
  <2>2. ephemeral[t] /\ todo[t] = Running => agent'[t] = "read_only"
    BY <1>3, <2>1, PlansDiffer DEF OneChat, Under
  <2>3. OneChat' BY <1>2, <1>3, <2>1, <2>2 DEF OneChat, Under
  <2>4. NothingKept'
    <3>1. CASE ephemeral[t]
      <4>1. agent'[t] = "read_only" BY <1>2, <2>2, <3>1
      <4>2. store' = store BY <4>1 DEF Remember
      <4> QED BY <2>1, <4>2 DEF NothingKept
    <3>2. CASE ~ephemeral[t]
      <4>1. CASE UNCHANGED store BY <2>1, <4>1 DEF NothingKept
      <4>2. CASE Write("json", t, ephemeral[t])
        <5>1. ephemeral[t] \in BOOLEAN BY DEF Kinds
        <5> QED BY <2>1, <3>2, <4>2, <5>1, WriteFacts
      <4> QED BY <4>1, <4>2 DEF Remember
    <3> QED BY <3>1, <3>2
  <2> QED BY <2>3, <2>4
<1> QED BY <1>3, <1>5, <1>6, <1>7 DEF ChatInv

LEMMA AnswerChat == ASSUME Kinds, ChatInv, NEW t \in Thread, Answer(t) PROVE ChatInv'
<1>1. Busy(t) /\ Head(todo[t]) = "run" /\ Continue(t) BY DEF Answer, At
<1>2. UNCHANGED <<mode, configured, clean, store, ephemeral, saved, agent>>
  BY DEF Answer, shared, registers, ghosts
<1>3. CASE ephemeral[t] /\ todo[t] = Running
  <2>1. /\ todo'[t] = Closing /\ \A s \in Thread : s # t => todo'[s] = todo[s]
    BY <1>1, <1>3, PlanFacts DEF Continue, Kinds
  <2>2. Places' BY <1>2, <1>3, <2>1 DEF ChatInv, Places
  <2>3. NotBuilt' BY <1>2, <2>1, PlansDiffer DEF ChatInv, NotBuilt
  <2>4. OneChat => OneChat'
    BY <1>2, <1>3, <2>1, PlansDiffer DEF OneChat, Under
  <2> QED BY <1>2, <2>2, <2>3, <2>4 DEF ChatInv, NothingKept
<1>4. CASE ~ephemeral[t] /\ todo[t] = <<"run">>
  <2>1. todo' = [todo EXCEPT ![t] = <<>>] BY <1>1, <1>4, PlanFacts DEF Continue
  <2>2. ~Under(t) BY <1>4 DEF Under
  <2>3. NothingKept => NothingKept' BY <1>2 DEF NothingKept
  <2>4. <<>> \in Seq(Steps) /\ Elsewhere(<<>>) BY ElsewherePlans
  <2> QED BY <1>2, <2>1, <2>2, <2>3, <2>4, Apart
<1> QED BY <1>1, <1>3, <1>4, Where DEF ChatInv

LEMMA OtherChat ==
    ASSUME Kinds, ChatInv, NEW t \in Thread,
           \/ GetLoom(t) \/ Load(t) \/ Keep(t) \/ Show(t) \/ RunFlow(t) \/ RecordEpisode(t)
           \/ Truncate(t) \/ WritePolicy(t) \/ SaveKeys(t) \/ Clear(t)
    PROVE  ChatInv'
<1>1. /\ Busy(t) /\ Head(todo[t]) \notin ChatSteps
      /\ UNCHANGED <<mode, configured, clean, ephemeral, saved, agent>>
      /\ Continue(t) \/ todo' = [todo EXCEPT ![t] = IF loom = None THEN Tail(@) ELSE <<"show">>]
  BY DEF GetLoom, Load, Keep, Show, RunFlow, RecordEpisode, Truncate, WritePolicy, SaveKeys, Clear,
         At, ChatSteps, shared, registers, ghosts
<1>2. Elsewhere(todo[t]) BY <1>1, Where DEF ChatInv
<1>3. ~Under(t) BY <1>2, ElsewherePlans DEF Under
<1>4. todo[t] \in Seq(Steps) /\ todo[t] # <<>> BY <1>1 DEF Kinds, Busy
<1>5. \E x \in Seq(Steps) : Elsewhere(x) /\ todo' = [todo EXCEPT ![t] = x]
  <2>1. Tail(todo[t]) \in Seq(Steps) /\ Elsewhere(Tail(todo[t]))
    BY <1>2, <1>4, ElsewhereTail
  <2>2. <<"show">> \in Seq(Steps) /\ Elsewhere(<<"show">>) BY ElsewherePlans
  <2>3. todo' \in {[todo EXCEPT ![t] = Tail(todo[t])], [todo EXCEPT ![t] = <<"show">>]}
    BY <1>1 DEF Continue
  <2> QED BY <2>1, <2>2, <2>3
<1>6. NothingKept => NothingKept'
  <2>1. CASE RecordEpisode(t)
    <3>1. store' = store \/ \E b : Write(b, t, FALSE) BY <2>1 DEF RecordEpisode
    <3> QED BY <3>1, WriteFacts DEF NothingKept
  <2>2. CASE ~RecordEpisode(t)
    <3>1. store' = store
      BY <2>2 DEF GetLoom, Load, Keep, Show, RunFlow, Truncate, WritePolicy, SaveKeys, Clear, shared
    <3> QED BY <3>1 DEF NothingKept
  <2> QED BY <2>1, <2>2
<1> QED BY <1>1, <1>3, <1>5, <1>6, Apart

LEMMA ChatInit == Init => ChatInv
<1> SUFFICES ASSUME Init PROVE ChatInv OBVIOUS
<1>1. \A t \in Thread : todo[t] = <<>> /\ ~ephemeral[t] BY DEF Init
<1>2. Elsewhere(<<>>) BY ElsewherePlans
<1>3. \A b \in Backend : store[b] = <<>> BY DEF Init
<1>4. NothingKept BY <1>3, EmptySeq DEF NothingKept
<1>5. mode = configured BY DEF Init
<1> QED BY <1>1, <1>2, <1>4, <1>5 DEF ChatInv, Places, NotBuilt, OneChat, Under

LEMMA ChatNext == Kinds /\ ChatInv /\ [Next]_vars => ChatInv'
<1> SUFFICES ASSUME Kinds, ChatInv, [Next]_vars PROVE ChatInv' OBVIOUS
<1>1. ASSUME NEW t \in Thread, Request(t) PROVE ChatInv'
  <2>1. ~Under(t) BY <1>1, RequestFacts, PlanFacts DEF Under, Busy
  <2>2. NothingKept => NothingKept' BY <1>1, RequestFacts DEF NothingKept
  <2> QED BY <1>1, <2>1, <2>2, RequestFacts, Apart
<1>2. ASSUME NEW t \in Thread, Step(t) PROVE ChatInv'
  BY <1>2, SaveModeChat, SetModeChat, RememberChat, AnswerChat, RestoreChat, OtherChat DEF Step
<1>3. CASE UNCHANGED vars
  BY <1>3 DEF vars, shared, registers, ghosts, ChatInv, Places, NotBuilt, OneChat, Under, NothingKept
<1> QED BY <1>1, <1>2, <1>3 DEF Next

LEMMA ChatMeans == Kinds /\ ChatInv => EphemeralOnly
<1> SUFFICES ASSUME Kinds, ChatInv, clean PROVE EphemeralOnly
  BY DEF EphemeralOnly
<1>1. OneChat /\ NothingKept BY DEF ChatInv
<1>2. \A b \in Backend : \A i \in DOMAIN store[b] : ~store[b][i].ephemeral
  <2>1. \A b \in Backend : DOMAIN store[b] = 1 .. Len(store[b])
    BY LenProperties DEF Kinds
  <2> QED BY <1>1, <2>1 DEF NothingKept
<1>3. \A t \in Thread : (InEphemeral(t) /\ ~At(t, "set_mode")) <=> (Under(t) /\ todo[t] # Set)
  <2>1. ASSUME NEW t \in Thread, Under(t) PROVE At(t, "set_mode") <=> todo[t] = Set
    BY <2>1, PlanFacts DEF Under, At, Busy
  <2> QED BY <2>1, UnderIsBusy DEF ChatInv
<1>4. mode = IF \E t \in Thread : Under(t) /\ todo[t] # Set THEN "read_only" ELSE configured
  BY <1>1 DEF OneChat
<1> QED BY <1>2, <1>3, <1>4 DEF EphemeralOnly

(* While ephemeral chats do not overlap one another, none of them leaves a *)
(* record in any backend, and the process is read-only exactly while one   *)
(* is under way, whatever chats, pages, flows and settings run beside it.  *)
THEOREM EphemeralAlways == Spec => []EphemeralOnly
<1>1. Spec => []Kinds BY KindsInit, KindsNext, PTL DEF Spec
<1> QED BY <1>1, ChatInit, ChatNext, ChatMeans, PTL DEF Spec

-----------------------------------------------------------------------------
(* What a session still has to do, while it chats, shows a page, runs a   *)
(* flow or saves a setting.                                                *)
Programs ==
    {Whole, Set, Running, Closing, <<"run">>,
     <<"loom", "load", "keep", "show">>, <<"load", "keep", "show">>, <<"keep", "show">>, <<"show">>,
     <<"flow", "record">>, <<"record">>,
     <<"truncate", "write", "clear">>, <<"write", "clear">>, <<"keys", "clear">>, <<"clear">>, <<>>}

(* What is left to do for an admin who has not cleared the cache. *)
Changing == {<<"truncate", "write", "clear">>, <<"write", "clear">>, <<"keys", "clear">>, <<"clear">>}

Keeping == <<"keep", "show">>

NoChange == \A t \in Thread : todo[t] \notin Changing

UpToDate(l) == l.plan = Built(policy, broken)

LoomShape ==
    /\ cache \in Nat
    /\ built = [t \in Thread |-> [cache |-> built[t].cache, loom |-> built[t].loom]]
    /\ \A t \in Thread : built[t].cache \in Nat /\ built[t].cache <= cache
    /\ todo \in [Thread -> Programs]

(* Unless an admin has yet to clear the cache, what it holds is built from *)
(* what is on file, and so is what a script will keep in it; one that      *)
(* began before the cache was cleared will not.                            *)
LoomInv ==
    /\ LoomShape
    /\ NoChange =>
          /\ loom # None => UpToDate(loom)
          /\ \A t \in Thread : todo[t] = Keeping /\ built[t].cache = cache => UpToDate(built[t].loom)

LEMMA ProgramHeads ==
    /\ Head(Whole) = "save_mode" /\ Tail(Whole) = Set
    /\ Head(Set) = "set_mode" /\ Tail(Set) = Running
    /\ Head(Running) = "run" /\ Tail(Running) = Closing
    /\ Head(Closing) = "restore" /\ Tail(Closing) = <<>>
    /\ Head(<<"run">>) = "run" /\ Tail(<<"run">>) = <<>>
    /\ Head(<<"loom", "load", "keep", "show">>) = "loom"
    /\ Tail(<<"loom", "load", "keep", "show">>) = <<"load", "keep", "show">>
    /\ Head(<<"load", "keep", "show">>) = "load" /\ Tail(<<"load", "keep", "show">>) = Keeping
    /\ Head(Keeping) = "keep" /\ Tail(Keeping) = <<"show">>
    /\ Head(<<"show">>) = "show" /\ Tail(<<"show">>) = <<>>
    /\ Head(<<"flow", "record">>) = "flow" /\ Tail(<<"flow", "record">>) = <<"record">>
    /\ Head(<<"record">>) = "record" /\ Tail(<<"record">>) = <<>>
    /\ Head(<<"truncate", "write", "clear">>) = "truncate"
    /\ Tail(<<"truncate", "write", "clear">>) = <<"write", "clear">>
    /\ Head(<<"write", "clear">>) = "write" /\ Tail(<<"write", "clear">>) = <<"clear">>
    /\ Head(<<"keys", "clear">>) = "keys" /\ Tail(<<"keys", "clear">>) = <<"clear">>
    /\ Head(<<"clear">>) = "clear" /\ Tail(<<"clear">>) = <<>>
BY DEF Whole, Set, Running, Closing, Keeping

(* What the step that a program begins with says of the rest. *)
Moves(s) ==
    LET plain == Programs \ (Changing \cup {Keeping}) IN
    /\ Head(s) \in ChatSteps \cup {"loom", "show", "flow", "record"} => s \notin Changing /\ Tail(s) \in plain
    /\ Head(s) = "load" => s \notin Changing /\ Tail(s) = Keeping
    /\ Head(s) = "keep" => s = Keeping
    /\ Head(s) \in {"truncate", "write", "keys"} => Tail(s) \in Changing
    /\ Head(s) = "clear" => Tail(s) = <<>>
    /\ s \in Changing <=> Head(s) \in {"truncate", "write", "keys", "clear"}

LEMMA ProgramMoves == ASSUME NEW s \in Programs, s # <<>> PROVE Moves(s)
<1> USE ProgramHeads DEF Moves, Programs, Changing, ChatSteps, Whole, Set, Running, Closing, Keeping
<1>1. CASE s = Whole BY <1>1
<1>2. CASE s = Set BY <1>2
<1>3. CASE s = Running BY <1>3
<1>4. CASE s = Closing BY <1>4
<1>5. CASE s = <<"run">> BY <1>5
<1>6. CASE s = <<"loom", "load", "keep", "show">> BY <1>6
<1>7. CASE s = <<"load", "keep", "show">> BY <1>7
<1>8. CASE s = Keeping BY <1>8
<1>9. CASE s = <<"show">> BY <1>9
<1>10. CASE s = <<"flow", "record">> BY <1>10
<1>11. CASE s = <<"record">> BY <1>11
<1>12. CASE s = <<"truncate", "write", "clear">> BY <1>12
<1>13. CASE s = <<"write", "clear">> BY <1>13
<1>14. CASE s = <<"keys", "clear">> BY <1>14
<1>15. CASE s = <<"clear">> BY <1>15
<1> QED BY <1>1, <1>2, <1>3, <1>4, <1>5, <1>6, <1>7, <1>8, <1>9, <1>10, <1>11, <1>12, <1>13, <1>14, <1>15

LEMMA ProgramsDiffer ==
    /\ <<>> \in Programs \ (Changing \cup {Keeping})
    /\ <<"show">> \in Programs \ (Changing \cup {Keeping})
    /\ Keeping \in Programs \ Changing
    /\ Changing \subseteq Programs /\ Keeping \notin Changing
    /\ Whole \in Programs \ (Changing \cup {Keeping})
    /\ <<"run">> \in Programs \ (Changing \cup {Keeping})
    /\ <<"loom", "load", "keep", "show">> \in Programs \ (Changing \cup {Keeping})
    /\ <<"flow", "record">> \in Programs \ (Changing \cup {Keeping})
BY DEF Programs, Changing, Keeping, Whole, Set, Running, Closing

LEMMA LoomInit == Init => LoomInv
<1> SUFFICES ASSUME Init PROVE LoomInv OBVIOUS
<1>1. LoomShape BY ProgramsDiffer DEF Init, LoomShape
<1>2. loom = None /\ \A t \in Thread : todo[t] # Keeping BY ProgramsDiffer DEF Init
<1> QED BY <1>1, <1>2 DEF LoomInv

(* A step that neither keeps a loom nor changes what it is built from. *)
LEMMA Aside ==
    ASSUME LoomInv, NEW t \in Thread, NEW x \in Programs, x # Keeping,
           todo[t] \notin Changing,
           todo' = [todo EXCEPT ![t] = x], UNCHANGED <<policy, broken, loom, cache>>,
           \/ built' = built
           \/ \E l : built' = [built EXCEPT ![t].loom = l]
           \/ \E l : built' = [built EXCEPT ![t] = [cache |-> cache, loom |-> l]]
    PROVE  LoomInv'
<1>1. LoomShape BY DEF LoomInv
<1>2. todo' \in [Thread -> Programs] /\ todo'[t] = x /\ \A s \in Thread : s # t => todo'[s] = todo[s]
  BY <1>1 DEF LoomShape
<1> DEFINE OneSlot ==
      /\ built' = [s \in Thread |-> [cache |-> built'[s].cache, loom |-> built'[s].loom]]
      /\ built'[t].cache \in {built[t].cache, cache}
      /\ \A s \in Thread : s # t => built'[s] = built[s]
<1>3. OneSlot
  <2>1. CASE built' = built BY <1>1, <2>1 DEF LoomShape
  <2>2. ASSUME NEW l, built' = [built EXCEPT ![t].loom = l] PROVE OneSlot
    BY <1>1, <2>2 DEF LoomShape
  <2>3. ASSUME NEW l, built' = [built EXCEPT ![t] = [cache |-> cache, loom |-> l]]
        PROVE  OneSlot
    BY <1>1, <2>3 DEF LoomShape
  <2> QED BY <2>1, <2>2, <2>3
<1>4. \A s \in Thread : built'[s].cache \in Nat /\ built'[s].cache <= cache'
  BY <1>1, <1>3 DEF LoomShape
<1>5. LoomShape' BY <1>1, <1>2, <1>3, <1>4 DEF LoomShape
<1>6. NoChange' => NoChange BY <1>2 DEF NoChange
<1>7. ASSUME NoChange', NEW s \in Thread, todo'[s] = Keeping, built'[s].cache = cache'
      PROVE  UpToDate(built[s].loom) /\ built'[s] = built[s]
  <2>1. s # t BY <1>2, <1>7
  <2> QED BY <1>2, <1>3, <1>6, <1>7, <2>1 DEF LoomInv
<1>8. NoChange' => (loom' # None => UpToDate(loom)') BY <1>6 DEF LoomInv, UpToDate
<1> QED BY <1>5, <1>7, <1>8 DEF LoomInv, UpToDate

LEMMA AtStep ==
    ASSUME LoomInv, NEW t \in Thread, NEW step, At(t, step)
    PROVE  todo[t] \in Programs /\ Moves(todo[t]) /\ Head(todo[t]) = step
<1>1. todo[t] \in Programs /\ todo[t] # <<>> BY DEF LoomInv, LoomShape, At, Busy
<1> QED BY <1>1, ProgramMoves DEF At

LEMMA RequestLoom == ASSUME LoomInv, NEW t \in Thread, Request(t) PROVE LoomInv'
<1>1. PICK x \in {Whole, <<"run">>, <<"loom", "load", "keep", "show">>, <<"flow", "record">>,
                  <<"truncate", "write", "clear">>, <<"keys", "clear">>} :
        todo[t] = <<>> /\ todo' = [todo EXCEPT ![t] = x]
        /\ UNCHANGED <<policy, broken, loom, cache, built>>
  BY DEF Request, Chat, OpenPage, Flow, Settings, Begin, Busy, shared, Whole
<1>2. x \in Programs /\ x # Keeping BY ProgramsDiffer DEF Programs, Changing
<1>3. todo[t] \notin Changing BY <1>1, ProgramsDiffer
<1> QED BY <1>1, <1>2, <1>3, Aside

LEMMA ChatLoom ==
    ASSUME LoomInv, NEW t \in Thread,
           SaveMode(t) \/ SetMode(t) \/ Answer(t) \/ Restore(t) \/ Show(t) \/ RecordEpisode(t)
    PROVE  LoomInv'
<1>1. PICK step \in ChatSteps \cup {"show", "record"} : At(t, step) /\ Continue(t)
  BY DEF SaveMode, SetMode, Answer, Restore, Show, RecordEpisode, ChatSteps
<1>2. UNCHANGED <<policy, broken, loom, cache, built>>
  BY DEF SaveMode, SetMode, Answer, Restore, Show, RecordEpisode, shared, registers
<1>3. todo[t] \notin Changing /\ Tail(todo[t]) \in Programs /\ Tail(todo[t]) # Keeping
  BY <1>1, AtStep DEF Moves
<1>4. todo' = [todo EXCEPT ![t] = Tail(todo[t])] BY <1>1 DEF Continue
<1> QED BY <1>2, <1>3, <1>4, Aside

LEMMA RememberLoom == ASSUME LoomInv, UNCHANGED <<policy, broken, loom, cache, built, todo>> PROVE LoomInv'
BY DEF LoomInv, LoomShape, NoChange, UpToDate

LEMMA GetLoomLoom == ASSUME LoomInv, NEW t \in Thread, GetLoom(t) PROVE LoomInv'
<1>1. At(t, "loom") /\ UNCHANGED <<policy, broken, loom, cache>> BY DEF GetLoom, shared
<1>2. todo[t] \notin Changing /\ Tail(todo[t]) \in Programs /\ Tail(todo[t]) # Keeping
  BY <1>1, AtStep DEF Moves
<1>3. PICK x \in {Tail(todo[t]), <<"show">>} : todo' = [todo EXCEPT ![t] = x]
  BY DEF GetLoom
<1>4. x \in Programs /\ x # Keeping BY <1>2, <1>3, ProgramsDiffer
<1>5. built' = [built EXCEPT ![t] = [cache |-> cache, loom |-> loom]] BY DEF GetLoom
<1> QED BY <1>1, <1>2, <1>3, <1>4, <1>5, Aside

LEMMA RunFlowLoom == ASSUME LoomInv, NEW t \in Thread, RunFlow(t) PROVE LoomInv'
<1>1. At(t, "flow") /\ Continue(t) /\ UNCHANGED <<policy, broken, loom, cache>>
  BY DEF RunFlow, shared
<1>2. todo[t] \notin Changing /\ Tail(todo[t]) \in Programs /\ Tail(todo[t]) # Keeping
  BY <1>1, AtStep DEF Moves
<1>3. todo' = [todo EXCEPT ![t] = Tail(todo[t])] BY <1>1 DEF Continue
<1>4. \E l : built' = [built EXCEPT ![t].loom = l] BY DEF RunFlow
<1> QED BY <1>1, <1>2, <1>3, <1>4, Aside

(* What is built from the file as it is, is fresh. *)
LEMMA LoadLoom == ASSUME LoomInv, NEW t \in Thread, Load(t) PROVE LoomInv'
<1> DEFINE l == [user |-> user[t], plan |-> Built(policy, broken)]
<1>1. /\ At(t, "load") /\ Continue(t) /\ UNCHANGED <<policy, broken, loom, cache>>
      /\ built' = [built EXCEPT ![t].loom = l]
  BY DEF Load, shared
<1>2. todo[t] \notin Changing /\ Tail(todo[t]) = Keeping BY <1>1, AtStep DEF Moves
<1>3. LoomShape BY DEF LoomInv
<1>4. l.plan = Built(policy', broken') BY <1>1
<1>5. todo' = [todo EXCEPT ![t] = Keeping] BY <1>1, <1>2 DEF Continue
<1>6. /\ todo' \in [Thread -> Programs] /\ todo'[t] = Keeping
      /\ \A s \in Thread : s # t => todo'[s] = todo[s]
  BY <1>3, <1>5, ProgramsDiffer DEF LoomShape
<1> HIDE DEF l
<1>7. /\ built' = [s \in Thread |-> [cache |-> built'[s].cache, loom |-> built'[s].loom]]
      /\ built'[t].cache = built[t].cache /\ built'[t].loom = l
      /\ \A s \in Thread : s # t => built'[s] = built[s]
  BY <1>1, <1>3 DEF LoomShape
<1>8. LoomShape' BY <1>1, <1>3, <1>6, <1>7 DEF LoomShape
<1>9. NoChange' => NoChange BY <1>2, <1>6 DEF NoChange
<1>10. NoChange' => (loom' # None => UpToDate(loom)') BY <1>1, <1>9 DEF LoomInv, UpToDate
<1>11. ASSUME NoChange', NEW s \in Thread, todo'[s] = Keeping, built'[s].cache = cache'
       PROVE  built'[s].loom.plan = Built(policy', broken')
  <2>1. CASE s = t BY <1>4, <1>7, <2>1
  <2>2. CASE s # t BY <1>1, <1>6, <1>7, <1>9, <1>11, <2>2 DEF LoomInv, UpToDate
  <2> QED BY <2>1, <2>2
<1> QED BY <1>8, <1>10, <1>11 DEF LoomInv, UpToDate

LEMMA KeepLoom == ASSUME LoomInv, NEW t \in Thread, Keep(t) PROVE LoomInv'
<1>1. /\ At(t, "keep") /\ Continue(t) /\ UNCHANGED <<policy, broken, cache, built>>
      /\ loom' = IF built[t].cache = cache THEN built[t].loom ELSE loom
  BY DEF Keep, registers
<1>2. todo[t] = Keeping BY <1>1, AtStep DEF Moves
<1>3. todo' = [todo EXCEPT ![t] = <<"show">>] BY <1>1, <1>2, ProgramHeads DEF Continue
<1>4. LoomShape BY DEF LoomInv
<1>5. /\ todo' \in [Thread -> Programs] /\ todo'[t] = <<"show">>
      /\ \A s \in Thread : s # t => todo'[s] = todo[s]
  BY <1>3, <1>4, ProgramsDiffer DEF LoomShape
<1>6. LoomShape' BY <1>1, <1>4, <1>5 DEF LoomShape
<1>7. NoChange' => NoChange BY <1>2, <1>5, ProgramsDiffer DEF NoChange
<1>8. NoChange' => (loom' # None => UpToDate(loom)')
  BY <1>1, <1>2, <1>7 DEF LoomInv, UpToDate
<1>9. \A s \in Thread : todo'[s] = Keeping => todo[s] = Keeping BY <1>2, <1>5
<1> QED BY <1>1, <1>6, <1>7, <1>8, <1>9 DEF LoomInv, UpToDate

(* An admin who has not cleared the cache yet promises nothing. *)
LEMMA ChangeLoom ==
    ASSUME LoomInv, NEW t \in Thread, Truncate(t) \/ WritePolicy(t) \/ SaveKeys(t) PROVE LoomInv'
<1>1. PICK step \in {"truncate", "write", "keys"} : At(t, step) /\ Continue(t)
  BY DEF Truncate, WritePolicy, SaveKeys
<1>2. UNCHANGED <<cache, built>> BY DEF Truncate, WritePolicy, SaveKeys, registers
<1>3. Tail(todo[t]) \in Changing BY <1>1, AtStep DEF Moves
<1>4. todo' = [todo EXCEPT ![t] = Tail(todo[t])] BY <1>1 DEF Continue
<1>5. LoomShape BY DEF LoomInv
<1>6. todo' \in [Thread -> Programs] /\ todo'[t] \in Changing
  BY <1>3, <1>4, <1>5, ProgramsDiffer DEF LoomShape
<1>7. LoomShape' BY <1>2, <1>5, <1>6 DEF LoomShape
<1>8. ~NoChange' BY <1>6 DEF NoChange
<1> QED BY <1>7, <1>8 DEF LoomInv

(* A loom that is being built when the cache is cleared lands nowhere. *)
LEMMA ClearLoom == ASSUME LoomInv, NEW t \in Thread, Clear(t) PROVE LoomInv'
<1>1. /\ At(t, "clear") /\ Continue(t) /\ UNCHANGED <<policy, broken, built>>
      /\ loom' = None /\ cache' = cache + 1
  BY DEF Clear, registers
<1>2. Tail(todo[t]) = <<>> BY <1>1, AtStep DEF Moves
<1>3. todo' = [todo EXCEPT ![t] = <<>>] BY <1>1, <1>2 DEF Continue
<1>4. LoomShape BY DEF LoomInv
<1>5. todo' \in [Thread -> Programs] BY <1>3, <1>4, ProgramsDiffer DEF LoomShape
<1>6. cache' \in Nat /\ \A s \in Thread : built[s].cache <= cache' /\ built[s].cache # cache'
  BY <1>1, <1>4 DEF LoomShape
<1>7. LoomShape' BY <1>1, <1>4, <1>5, <1>6 DEF LoomShape
<1> QED BY <1>1, <1>6, <1>7 DEF LoomInv

LEMMA LoomNext == LoomInv /\ [Next]_vars => LoomInv'
<1> SUFFICES ASSUME LoomInv, [Next]_vars PROVE LoomInv' OBVIOUS
<1>1. CASE UNCHANGED vars BY <1>1, RememberLoom DEF vars, shared, registers
<1>2. ASSUME NEW t \in Thread, Step(t) PROVE LoomInv'
  <2>1. CASE Remember(t) BY <2>1, RememberLoom DEF Remember
  <2> QED BY <1>2, <2>1, ChatLoom, GetLoomLoom, RunFlowLoom, LoadLoom, KeepLoom, ChangeLoom, ClearLoom
          DEF Step
<1> QED BY <1>1, <1>2, RequestLoom DEF Next

LEMMA LoomMeans == LoomInv => LoomFollowsPolicy
<1> SUFFICES ASSUME LoomInv, loom # None,
                    \A t \in Thread : Busy(t) => Head(todo[t]) \notin {"truncate", "write", "keys", "clear"}
             PROVE  loom.plan = Built(policy, broken)
  BY DEF LoomFollowsPolicy
<1>1. ASSUME NEW t \in Thread PROVE todo[t] \notin Changing
  <2>1. CASE todo[t] = <<>> BY <2>1, ProgramsDiffer
  <2>2. CASE todo[t] # <<>>
    <3>1. todo[t] \in Programs BY DEF LoomInv, LoomShape
    <3> QED BY <2>2, <3>1, ProgramMoves DEF Moves, Busy
  <2> QED BY <2>1, <2>2
<1> QED BY <1>1 DEF LoomInv, NoChange, UpToDate

(* Once every admin who changed the policy or the credentials has cleared  *)
(* the cache, the cached loom is the one they ask for, whoever was         *)
(* building one meanwhile.                                                 *)
THEOREM LoomFollowsAlways == Spec => []LoomFollowsPolicy
<1>1. LoomInv => LoomFollowsPolicy BY LoomMeans
<1> QED BY <1>1, LoomInit, LoomNext, PTL DEF Spec

-----------------------------------------------------------------------------
(* What a sequence of blocks, the file or what is about to be written, is  *)
(* while calls do not overlap: n is the time, m the ids minted, d the      *)
(* labels somebody backdated a block for.                                  *)
Indices(s) == 1 .. Len(s)

Identified(s, m) ==
    /\ s \in Seq(Blocks)
    /\ \A i, j \in Indices(s) : s[i].id = s[j].id => i = j
    /\ \A i \in Indices(s) : s[i].id \in m

OneActive(s) ==
    \A i, j \in Indices(s) :
        s[i].to = Current /\ s[j].to = Current /\ s[i].label = s[j].label => i = j

Mirrored(s) ==
    \A i \in Indices(s) :
        /\ s[i].superseded_by # Nobody <=> s[i].to # Current
        /\ s[i].superseded_by # Nobody =>
              \E j \in Indices(s) : /\ s[j].id = s[i].superseded_by /\ s[j].supersedes = s[i].id
                                    /\ s[j].label = s[i].label
        /\ s[i].supersedes # Nobody =>
              \E j \in Indices(s) : /\ s[j].id = s[i].supersedes /\ s[j].superseded_by = s[i].id
                                    /\ s[j].label = s[i].label

PoliciesActive(s) == \A i \in Indices(s) : s[i].access = "read_only" => s[i].to = Current

Past(s, n) == \A i \in Indices(s) : s[i].from <= n /\ s[i].to <= n

Believed(b, t) == b.from <= t /\ (b.to = Current \/ t < b.to)

NoGap(s, n, d) ==
    \A l \in Label \ d : \A t \in 1 .. n :
        (\E i \in Indices(s) : s[i].label = l /\ s[i].from <= t) =>
            \E i \in Indices(s) :
                /\ s[i].label = l /\ Believed(s[i], t)
                /\ \A j \in Indices(s) : s[j].label = l /\ Believed(s[j], t) => j = i

Good(s, n, m, d) ==
    /\ Identified(s, m) /\ OneActive(s) /\ Mirrored(s) /\ PoliciesActive(s)
    /\ Past(s, n) /\ NoGap(s, n, d)

-----------------------------------------------------------------------------
(* Selections *)

LEMMA Ranks ==
    ASSUME NEW I, I \subseteq Int, IsFiniteSet(I)
    PROVE  /\ Cardinality(I) \in Nat
           /\ \A i \in I : Cardinality({j \in I : j <= i}) \in 1 .. Cardinality(I)
           /\ \A i, k \in I : Cardinality({j \in I : j <= i}) = Cardinality({j \in I : j <= k}) => i = k
           /\ \A n \in 1 .. Cardinality(I) : \E i \in I : Cardinality({j \in I : j <= i}) = n
<1> DEFINE N == Cardinality(I)
           below(i) == {j \in I : j <= i}
           rank == [i \in I |-> Cardinality(below(i))]
<1>1. N \in Nat BY FS_CardinalityType
<1>2. \A i \in I : IsFiniteSet(below(i)) /\ Cardinality(below(i)) \in Nat /\ Cardinality(below(i)) <= N
  BY FS_Subset, FS_CardinalityType
<1>3. ASSUME NEW i \in I PROVE Cardinality(below(i)) \in 1 .. N
  <2>1. i \in below(i) OBVIOUS
  <2>2. Cardinality(below(i)) # 0 BY <1>2, <2>1, FS_EmptySet
  <2> QED BY <1>1, <1>2, <2>2
<1>4. ASSUME NEW i \in I, NEW k \in I, Cardinality(below(i)) = Cardinality(below(k)), i < k PROVE FALSE
  <2>1. \A j \in I : j \in Int OBVIOUS
  <2>4. \A j \in I : j <= i => j <= k BY <1>4, <2>1
  <2>5. below(i) \in SUBSET below(k) BY <2>4
  <2>2. below(i) = below(k) BY <1>2, <1>4, <2>5, FS_Subset
  <2>3. k \in below(k) /\ k \notin below(i) BY <1>4, <2>1
  <2> QED BY <2>2, <2>3
<1>5. \A i, k \in I : Cardinality(below(i)) = Cardinality(below(k)) => i = k
  <2> SUFFICES ASSUME NEW i \in I, NEW k \in I, Cardinality(below(i)) = Cardinality(below(k)), i # k
               PROVE FALSE OBVIOUS
  <2>1. i < k \/ k < i OBVIOUS
  <2> QED BY <1>4, <2>1
<1>6. rank \in [I -> 1 .. N] BY <1>3
<1>7. rank \in Injection(I, 1 .. N) BY <1>5, <1>6 DEF Injection, IsInjective
<1>8. IsFiniteSet(1 .. N) /\ Cardinality(1 .. N) = N BY <1>1, FS_Interval
<1>9. rank \in Surjection(I, 1 .. N) BY <1>7, <1>8, FS_Injection
<1>10. \A n \in 1 .. N : \E i \in I : rank[i] = n BY <1>9 DEF Surjection
<1> QED BY <1>1, <1>3, <1>5, <1>10

LEMMA NthFacts ==
    ASSUME NEW I, I \subseteq Int, IsFiniteSet(I)
    PROVE  /\ Cardinality(I) \in Nat
           /\ \A k \in 1 .. Cardinality(I) : Nth(I, k) \in I
           /\ \A k, n \in 1 .. Cardinality(I) : Nth(I, k) = Nth(I, n) => k = n
           /\ \A i \in I : \E k \in 1 .. Cardinality(I) : Nth(I, k) = i
<1>0. /\ \A i \in I : Cardinality({j \in I : j <= i}) \in 1 .. Cardinality(I)
      /\ \A i, k \in I : Cardinality({j \in I : j <= i}) = Cardinality({j \in I : j <= k}) => i = k
      /\ \A n \in 1 .. Cardinality(I) : \E i \in I : Cardinality({j \in I : j <= i}) = n
  BY Ranks
<1>1. ASSUME NEW k \in 1 .. Cardinality(I)
      PROVE  Nth(I, k) \in I /\ Cardinality({j \in I : j <= Nth(I, k)}) = k
  <2>1. \E i \in I : Cardinality({j \in I : j <= i}) = k BY <1>0
  <2> QED BY <2>1 DEF Nth
<1>2. ASSUME NEW i \in I PROVE \E k \in 1 .. Cardinality(I) : Nth(I, k) = i
  <2> DEFINE k == Cardinality({j \in I : j <= i})
  <2>1. k \in 1 .. Cardinality(I) BY <1>0
  <2>2. Nth(I, k) \in I /\ Cardinality({j \in I : j <= Nth(I, k)}) = k BY <1>1, <2>1
  <2>3. Nth(I, k) = i BY <1>0, <2>2
  <2> QED BY <2>1, <2>3
<1>3. Cardinality(I) \in Nat BY FS_CardinalityType
<1> QED BY <1>1, <1>2, <1>3

LEMMA Least ==
    ASSUME NEW I, I \subseteq Nat, I # {}
    PROVE  Min(I) \in I /\ \A j \in I : Min(I) <= j
<1>1. PICK i \in I : \A j \in I : <<j, i>> \notin OpToRel(<, Nat)
  BY NatLessThanWellFounded, WFMin
<1>2. \A j \in I : ~(j < i) BY <1>1 DEF OpToRel
<1>3. \A j \in I : i <= j BY <1>2
<1> QED BY <1>3 DEF Min

LEMMA SubsequenceFacts ==
    ASSUME NEW T, NEW s \in Seq(T), NEW I, I \subseteq Indices(s)
    PROVE  /\ Subsequence(s, I) \in Seq(T)
           /\ \A k \in Indices(Subsequence(s, I)) : \E i \in I : Subsequence(s, I)[k] = s[i]
           /\ \A i \in I : \E k \in Indices(Subsequence(s, I)) : Subsequence(s, I)[k] = s[i]
           /\ \A h, k \in Indices(Subsequence(s, I)) : \E i, j \in I :
                 /\ Subsequence(s, I)[h] = s[i] /\ Subsequence(s, I)[k] = s[j]
                 /\ i = j => h = k
<1>0. Len(s) \in Nat /\ \A i \in Indices(s) : s[i] \in T BY LenProperties DEF Indices
<1>1. IsFiniteSet(Indices(s)) BY <1>0, FS_Interval DEF Indices
<1>2. IsFiniteSet(I) /\ I \subseteq Int
  <2>1. I \in SUBSET Indices(s) OBVIOUS
  <2>2. IsFiniteSet(I) BY <1>1, <2>1, FS_Subset
  <2>3. \A i \in Indices(s) : i \in Int BY <1>0 DEF Indices
  <2> QED BY <2>1, <2>2, <2>3
<1>3. /\ Cardinality(I) \in Nat
      /\ \A k \in 1 .. Cardinality(I) : Nth(I, k) \in I
      /\ \A k, n \in 1 .. Cardinality(I) : Nth(I, k) = Nth(I, n) => k = n
      /\ \A i \in I : \E k \in 1 .. Cardinality(I) : Nth(I, k) = i
  BY <1>2, NthFacts
<1> DEFINE r == Subsequence(s, I)
<1>4. /\ r = [k \in 1 .. Cardinality(I) |-> s[Nth(I, k)]]
      /\ \A k \in 1 .. Cardinality(I) : r[k] = s[Nth(I, k)] /\ r[k] \in T
  BY <1>0, <1>3 DEF Subsequence
<1>5. r \in Seq(T)
  <2>1. r \in [1 .. Cardinality(I) -> T] BY <1>4
  <2> QED BY <1>3, <2>1, SeqDef
<1>6. Len(r) = Cardinality(I) BY <1>3, <1>4, <1>5, LenProperties
<1> HIDE DEF r
<1>7. \A k \in Indices(r) : \E i \in I : r[k] = s[i] BY <1>3, <1>4, <1>6 DEF Indices
<1>8. \A i \in I : \E k \in Indices(r) : r[k] = s[i] BY <1>3, <1>4, <1>6 DEF Indices
<1>9. ASSUME NEW h \in Indices(r), NEW k \in Indices(r)
      PROVE  \E i, j \in I : r[h] = s[i] /\ r[k] = s[j] /\ (i = j => h = k)
  <2>1. h \in 1 .. Cardinality(I) /\ k \in 1 .. Cardinality(I) BY <1>6 DEF Indices
  <2>2. /\ Nth(I, h) \in I /\ Nth(I, k) \in I /\ r[h] = s[Nth(I, h)] /\ r[k] = s[Nth(I, k)]
        /\ Nth(I, h) = Nth(I, k) => h = k
    BY <1>3, <1>4, <2>1
  <2> QED BY <2>2
<1> QED BY <1>5, <1>7, <1>8, <1>9 DEF r

(* get_by_label finds an active block of the label if there is one. *)
LEMMA ByLabelFacts ==
    ASSUME NEW s \in Seq(Blocks), NEW l
    PROVE  \/ /\ ByLabel(s, l) = NoBlock
              /\ \A i \in Indices(s) : ~(s[i].to = Current /\ s[i].label = l)
           \/ /\ ByLabel(s, l) # NoBlock /\ ByLabel(s, l) \in Blocks
              /\ \E i \in Indices(s) : ByLabel(s, l) = s[i] /\ s[i].to = Current /\ s[i].label = l
<1> DEFINE I == {i \in 1 .. Len(s) : s[i].to = Current /\ s[i].label = l}
<1>0. Len(s) \in Nat /\ \A i \in Indices(s) : s[i] \in Blocks BY LenProperties DEF Indices
<1>1. SelectInSeq(s, LAMBDA b : b.to = Current /\ b.label = l) = IF I # {} THEN Min(I) ELSE 0
  BY DEF SelectInSeq
<1>2. CASE I = {}
  BY <1>1, <1>2 DEF ByLabel, Indices
<1>3. CASE I # {}
  <2>5. I \subseteq Nat BY <1>0
  <2>1. Min(I) \in I BY <1>3, <2>5, Least
  <2>2. Min(I) # 0 BY <2>1
  <2>3. ByLabel(s, l) = s[Min(I)] BY <1>1, <1>3, <2>2 DEF ByLabel
  <2>4. s[Min(I)] # NoBlock BY <1>0, <2>1, MarksAssumption DEF Indices
  <2> QED BY <1>0, <2>1, <2>3, <2>4 DEF Indices
<1> QED BY <1>2, <1>3

LEMMA LineFacts ==
    ASSUME NEW s \in Seq(Blocks), NEW old
    PROVE  /\ Line(s, old) \in 0 .. Len(s)
           /\ Line(s, old) # 0 => s[Line(s, old)].id = old.id
           /\ old # NoBlock /\ (\E i \in Indices(s) : s[i].id = old.id) => Line(s, old) # 0
           /\ old = NoBlock => Line(s, old) = 0
<1> DEFINE I == {i \in 1 .. Len(s) : s[i].id = old.id}
<1>0. Len(s) \in Nat /\ \A i \in Indices(s) : s[i] \in Blocks BY LenProperties DEF Indices
<1>1. SelectInSeq(s, LAMBDA b : b.id = old.id) = IF I # {} THEN Min(I) ELSE 0
  BY DEF SelectInSeq
<1>2. CASE old = NoBlock BY <1>0, <1>2 DEF Line
<1>3. CASE old # NoBlock /\ I = {} BY <1>0, <1>1, <1>3 DEF Line, Indices
<1>4. CASE old # NoBlock /\ I # {}
  <2>3. I \subseteq Nat BY <1>0
  <2>1. Min(I) \in I BY <1>4, <2>3, Least
  <2> QED BY <1>0, <1>1, <1>4, <2>1 DEF Line, Indices
<1> QED BY <1>2, <1>3, <1>4

-----------------------------------------------------------------------------
(* What keeps a sequence of blocks good *)

LEMMA BlockFields ==
    ASSUME NEW b \in Blocks
    PROVE  /\ b.id \in Block /\ b.id # Nobody /\ b.label \in Label /\ b.access \in Access
           /\ b.users \subseteq Contributor /\ b.auto \in BOOLEAN
           /\ b.from \in Int /\ 0 < b.from /\ b.to \in Int /\ 0 <= b.to
           /\ b.supersedes \in Block \cup {Nobody} /\ b.superseded_by \in Block \cup {Nobody}
BY BlocksAssumption, MarksAssumption DEF Blocks, Time, Current

LEMMA BlocksOf ==
    ASSUME NEW s \in Seq(Blocks)
    PROVE  /\ Len(s) \in Nat /\ \A i \in Indices(s) : s[i] \in Blocks
           /\ DOMAIN s = Indices(s) /\ Indices(s) \subseteq Nat
           /\ \A i \in Indices(s) : i # Len(s) + 1
BY LenProperties DEF Indices

LEMMA GoodEmpty == ASSUME NEW n, NEW m, NEW d PROVE Good(<<>>, n, m, d)
<1>1. <<>> \in Seq(Blocks) /\ Indices(<<>>) = {} BY EmptySeq DEF Indices
<1> QED BY <1>1 DEF Good, Identified, OneActive, Mirrored, PoliciesActive, Past, NoGap

LEMMA GoodStill ==
    ASSUME NEW s, NEW n, NEW m, NEW d, NEW u, NEW e, m \subseteq u, d \subseteq e, Good(s, n, m, d)
    PROVE  Good(s, n, u, e)
BY DEF Good, Identified, NoGap

(* A moment passes: whatever is believed then was believed before. *)
LEMMA GoodLater ==
    ASSUME NEW s, NEW n \in Nat, n > 0, NEW m, NEW d, Good(s, n, m, d)
    PROVE  Good(s, n + 1, m, d)
<1>1. \A i \in Indices(s) : /\ s[i].from \in Int /\ s[i].to \in Int
                            /\ s[i].from <= n /\ s[i].to <= n
  BY BlocksOf, BlockFields DEF Good, Identified, Past
<1>2. Past(s, n + 1) BY <1>1 DEF Past
<1>3. \A i \in Indices(s) : Believed(s[i], n + 1) <=> Believed(s[i], n)
  BY <1>1 DEF Believed, Current
<1>4. ASSUME NEW l \in Label \ d, NEW t \in 1 .. n + 1,
             \E i \in Indices(s) : s[i].label = l /\ s[i].from <= t
      PROVE  \E i \in Indices(s) :
                /\ s[i].label = l /\ Believed(s[i], t)
                /\ \A j \in Indices(s) : s[j].label = l /\ Believed(s[j], t) => j = i
  <2>1. CASE t \in 1 .. n BY <1>4, <2>1 DEF Good, NoGap
  <2>2. CASE t = n + 1
    <3>1. n \in 1 .. n /\ \E i \in Indices(s) : s[i].label = l /\ s[i].from <= n BY <1>1, <1>4
    <3>2. PICK i \in Indices(s) :
            /\ s[i].label = l /\ Believed(s[i], n)
            /\ \A j \in Indices(s) : s[j].label = l /\ Believed(s[j], n) => j = i
      BY <3>1 DEF Good, NoGap
    <3> QED BY <1>3, <2>2, <3>2
  <2> QED BY <2>1, <2>2
<1>5. NoGap(s, n + 1, d) BY <1>4 DEF NoGap
<1> QED BY <1>2, <1>5 DEF Good

(* remove(): the chains of other labels stay as they are. *)
(* I selects the entries of s that do not carry label l. *)
Sparing(s, I, l) == \A i : i \in I <=> i \in DOMAIN s /\ s[i].label # l

LEMMA GoodWithout ==
    ASSUME NEW s, NEW n, NEW m, NEW d, Good(s, n, m, d), NEW l, NEW I, Sparing(s, I, l)
    PROVE  /\ Good(Subsequence(s, I), n, m, d)
           /\ \A i \in Indices(s) : s[i].label # l =>
                 \E k \in Indices(Subsequence(s, I)) : Subsequence(s, I)[k] = s[i]
<1>0. s \in Seq(Blocks) /\ \A i : i \in I <=> i \in Indices(s) /\ s[i].label # l
  BY BlocksOf DEF Good, Identified, Sparing
<1>1. s \in Seq(Blocks) /\ I \subseteq Indices(s) BY <1>0
<1> DEFINE r == Subsequence(s, I)
<1>2. /\ r \in Seq(Blocks)
      /\ \A k \in Indices(r) : \E i \in I : r[k] = s[i]
      /\ \A i \in I : \E k \in Indices(r) : r[k] = s[i]
      /\ \A h, k \in Indices(r) : \E i, j \in I : r[h] = s[i] /\ r[k] = s[j] /\ (i = j => h = k)
  BY <1>1, SubsequenceFacts
<1> HIDE DEF r
<1>3. /\ \A k \in Indices(r) : \E i \in Indices(s) : r[k] = s[i] /\ s[i].label # l
      /\ \A i \in Indices(s) : s[i].label # l => \E k \in Indices(r) : r[k] = s[i]
      /\ \A h, k \in Indices(r) : \E i, j \in Indices(s) :
            r[h] = s[i] /\ r[k] = s[j] /\ (i = j => h = k)
  <2>1. \A k \in Indices(r) : \E i \in Indices(s) : r[k] = s[i] /\ s[i].label # l BY <1>0, <1>2
  <2>2. \A i \in Indices(s) : s[i].label # l => \E k \in Indices(r) : r[k] = s[i] BY <1>0, <1>2
  <2>3. ASSUME NEW h \in Indices(r), NEW k \in Indices(r)
        PROVE  \E i, j \in Indices(s) : r[h] = s[i] /\ r[k] = s[j] /\ (i = j => h = k)
    <3>1. PICK i \in I, j \in I : r[h] = s[i] /\ r[k] = s[j] /\ (i = j => h = k) BY <1>2
    <3>2. i \in Indices(s) /\ j \in Indices(s) BY <1>0
    <3> QED BY <3>1, <3>2
  <2> QED BY <2>1, <2>2, <2>3
<1>4. Identified(r, m)
  <2>1. ASSUME NEW h \in Indices(r), NEW k \in Indices(r), r[h].id = r[k].id PROVE h = k
    <3>1. PICK i \in Indices(s), j \in Indices(s) : r[h] = s[i] /\ r[k] = s[j] /\ (i = j => h = k)
      BY <1>3
    <3> QED BY <2>1, <3>1 DEF Good, Identified
  <2>2. \A k \in Indices(r) : r[k].id \in m BY <1>3 DEF Good, Identified
  <2> QED BY <1>2, <2>1, <2>2 DEF Identified
<1>5. OneActive(r)
  <2> SUFFICES ASSUME NEW h \in Indices(r), NEW k \in Indices(r),
                      r[h].to = Current, r[k].to = Current, r[h].label = r[k].label
               PROVE  h = k
    BY DEF OneActive
  <2>1. PICK i \in Indices(s), j \in Indices(s) : r[h] = s[i] /\ r[k] = s[j] /\ (i = j => h = k)
    BY <1>3
  <2> QED BY <2>1 DEF Good, OneActive
<1>6. Mirrored(r)
  <2> SUFFICES ASSUME NEW k \in Indices(r)
               PROVE  /\ r[k].superseded_by # Nobody <=> r[k].to # Current
                      /\ r[k].superseded_by # Nobody =>
                            \E h \in Indices(r) :
                                /\ r[h].id = r[k].superseded_by /\ r[h].supersedes = r[k].id
                                /\ r[h].label = r[k].label
                      /\ r[k].supersedes # Nobody =>
                            \E h \in Indices(r) :
                                /\ r[h].id = r[k].supersedes /\ r[h].superseded_by = r[k].id
                                /\ r[h].label = r[k].label
    BY DEF Mirrored
  <2>1. PICK i \in Indices(s) : r[k] = s[i] /\ s[i].label # l BY <1>3
  <2>2. r[k].superseded_by # Nobody <=> r[k].to # Current BY <2>1 DEF Good, Mirrored
  <2>3. ASSUME r[k].superseded_by # Nobody
        PROVE  \E h \in Indices(r) :
                  /\ r[h].id = r[k].superseded_by /\ r[h].supersedes = r[k].id
                  /\ r[h].label = r[k].label
    <3>1. PICK j \in Indices(s) : /\ s[j].id = s[i].superseded_by /\ s[j].supersedes = s[i].id
                                  /\ s[j].label = s[i].label
      BY <2>1, <2>3 DEF Good, Mirrored
    <3>2. PICK h \in Indices(r) : r[h] = s[j] BY <1>3, <2>1, <3>1
    <3> QED BY <2>1, <3>1, <3>2
  <2>4. ASSUME r[k].supersedes # Nobody
        PROVE  \E h \in Indices(r) :
                  /\ r[h].id = r[k].supersedes /\ r[h].superseded_by = r[k].id
                  /\ r[h].label = r[k].label
    <3>1. PICK j \in Indices(s) : /\ s[j].id = s[i].supersedes /\ s[j].superseded_by = s[i].id
                                  /\ s[j].label = s[i].label
      BY <2>1, <2>4 DEF Good, Mirrored
    <3>2. PICK h \in Indices(r) : r[h] = s[j] BY <1>3, <2>1, <3>1
    <3> QED BY <2>1, <3>1, <3>2
  <2> QED BY <2>2, <2>3, <2>4
<1>7. PoliciesActive(r) /\ Past(r, n) BY <1>3 DEF Good, PoliciesActive, Past
<1>8. ASSUME NEW x \in Label \ d, NEW t \in 1 .. n,
             \E k \in Indices(r) : r[k].label = x /\ r[k].from <= t
      PROVE  \E k \in Indices(r) :
                /\ r[k].label = x /\ Believed(r[k], t)
                /\ \A h \in Indices(r) : r[h].label = x /\ Believed(r[h], t) => h = k
  <2>1. x # l /\ \E i \in Indices(s) : s[i].label = x /\ s[i].from <= t BY <1>3, <1>8
  <2>2. PICK i \in Indices(s) : /\ s[i].label = x /\ Believed(s[i], t)
                                /\ \A j \in Indices(s) : s[j].label = x /\ Believed(s[j], t) => j = i
    BY <2>1 DEF Good, NoGap
  <2>3. PICK k \in Indices(r) : r[k] = s[i] BY <1>3, <2>1, <2>2
  <2>4. ASSUME NEW h \in Indices(r), r[h].label = x, Believed(r[h], t) PROVE h = k
    <3>1. PICK a \in Indices(s), c \in Indices(s) : r[h] = s[a] /\ r[k] = s[c] /\ (a = c => h = k)
      BY <1>3
    <3>2. a = i /\ c = i BY <2>2, <2>3, <2>4, <3>1
    <3> QED BY <3>1, <3>2
  <2> QED BY <2>2, <2>3, <2>4
<1>9. NoGap(r, n, d) BY <1>8 DEF NoGap
<1>10. Good(r, n, m, d) BY <1>4, <1>5, <1>6, <1>7, <1>9 DEF Good
<1> QED BY <1>3, <1>10 DEF r

(* upsert(): the block at k, if any, is closed and a new one appended. *)
LEMMA GoodExtended ==
    ASSUME NEW s, NEW n \in Nat, n > 0, NEW m, NEW d, Good(s, n, m, d),
           NEW new \in Blocks, new.id \in m, \A i \in Indices(s) : s[i].id # new.id,
           new.to = Current, new.superseded_by = Nobody, new.from <= n,
           NEW k \in 0 .. Len(s),
           k = 0 => /\ new.supersedes = Nobody
                    /\ \A i \in Indices(s) : ~(s[i].to = Current /\ s[i].label = new.label),
           k # 0 => /\ s[k].to = Current /\ s[k].label = new.label /\ s[k].access # "read_only"
                    /\ new.supersedes = s[k].id,
           NEW r \in Seq(Blocks), Len(r) = Len(s) + 1, r[Len(s) + 1] = new,
           \A i \in Indices(s) : i # k => r[i] = s[i],
           k # 0 => /\ r[k].id = s[k].id /\ r[k].label = s[k].label /\ r[k].access = s[k].access
                    /\ r[k].from = s[k].from /\ r[k].supersedes = s[k].supersedes
                    /\ r[k].to = n /\ r[k].superseded_by = new.id,
           NEW e, d \subseteq e, new.from = n \/ new.label \in e
    PROVE  Good(r, n, m, e)
<1> DEFINE z == Len(s) + 1
<1>1. /\ s \in Seq(Blocks) /\ Len(s) \in Nat /\ Indices(s) \subseteq Nat
      /\ \A i \in Indices(s) : s[i] \in Blocks
      /\ \A i \in Indices(s) : i # z
      /\ z \in Indices(r) /\ \A i : i \in Indices(r) <=> i \in Indices(s) \/ i = z
      /\ k # 0 => k \in Indices(s)
      /\ \A i \in Indices(s) : i = k => k # 0
  <2>1. s \in Seq(Blocks) BY DEF Good, Identified
  <2>2. Len(s) \in Nat BY <2>1, LenProperties
  <2> QED BY <2>1, <2>2, BlocksOf DEF Indices
<1>2. /\ r[z] = new
      /\ \A i \in Indices(s) : i # k => r[i] = s[i]
      /\ \A i \in Indices(s) : /\ r[i].id = s[i].id /\ r[i].label = s[i].label
                               /\ r[i].access = s[i].access /\ r[i].from = s[i].from
                               /\ r[i].supersedes = s[i].supersedes
      /\ \A i \in Indices(s) : r[i].to = Current => s[i].to = Current /\ i # k
  <2>1. r[z] = new OBVIOUS
  <2>2. \A i \in Indices(s) : i # k => r[i] = s[i] OBVIOUS
  <2>3. ASSUME NEW i \in Indices(s)
        PROVE  /\ r[i].id = s[i].id /\ r[i].label = s[i].label
               /\ r[i].access = s[i].access /\ r[i].from = s[i].from
               /\ r[i].supersedes = s[i].supersedes
               /\ r[i].to = Current => s[i].to = Current /\ i # k
    <3> HIDE DEF z
    <3>1. CASE i # k BY <2>2, <3>1
    <3>2. CASE i = k BY <1>1, <3>2 DEF Current
    <3> QED BY <3>1, <3>2
  <2> HIDE DEF z
  <2> QED BY <2>1, <2>2, <2>3
<1> HIDE DEF z
<1>3. Identified(r, m)
  <2>1. \A i \in Indices(r) : r[i].id \in m BY <1>1, <1>2 DEF Good, Identified
  <2>2. \A i, j \in Indices(r) : r[i].id = r[j].id => i = j
    BY <1>1, <1>2 DEF Good, Identified
  <2> QED BY <2>1, <2>2 DEF Identified
<1>4. \A i \in Indices(s) : ~(r[i].to = Current /\ r[i].label = new.label)
  <2>1. CASE k = 0 BY <1>2, <2>1
  <2>2. CASE k # 0 BY <1>1, <1>2, <2>2 DEF Good, OneActive
  <2> QED BY <2>1, <2>2
<1>5. OneActive(r)
  <2> SUFFICES ASSUME NEW i \in Indices(r), NEW j \in Indices(r),
                      r[i].to = Current, r[j].to = Current, r[i].label = r[j].label
               PROVE  i = j
    BY DEF OneActive
  <2>1. i = z <=> j = z BY <1>1, <1>2, <1>4
  <2> QED BY <1>1, <1>2, <2>1 DEF Good, OneActive
<1>6. Mirrored(r)
  <2> SUFFICES ASSUME NEW i \in Indices(r)
               PROVE  /\ r[i].superseded_by # Nobody <=> r[i].to # Current
                      /\ r[i].superseded_by # Nobody =>
                            \E j \in Indices(r) :
                                /\ r[j].id = r[i].superseded_by /\ r[j].supersedes = r[i].id
                                /\ r[j].label = r[i].label
                      /\ r[i].supersedes # Nobody =>
                            \E j \in Indices(r) :
                                /\ r[j].id = r[i].supersedes /\ r[j].superseded_by = r[i].id
                                /\ r[j].label = r[i].label
    BY DEF Mirrored
  <2>1. r[i].superseded_by # Nobody <=> r[i].to # Current
    <3>1. CASE i = z BY <1>2, <3>1
    <3>2. CASE i # z /\ i = k BY <1>1, <3>2, BlockFields DEF Current
    <3>3. CASE i # z /\ i # k BY <1>1, <1>2, <3>3 DEF Good, Mirrored
    <3> QED BY <3>1, <3>2, <3>3
  <2>2. ASSUME r[i].superseded_by # Nobody
        PROVE  \E j \in Indices(r) : /\ r[j].id = r[i].superseded_by /\ r[j].supersedes = r[i].id
                                     /\ r[j].label = r[i].label
    <3>1. CASE i = z BY <1>2, <2>2, <3>1
    <3>2. CASE i # z /\ i = k BY <1>1, <1>2, <3>2
    <3>3. CASE i # z /\ i # k
      <4>1. i \in Indices(s) /\ r[i] = s[i] BY <1>1, <1>2, <3>3
      <4>2. PICK j \in Indices(s) : /\ s[j].id = s[i].superseded_by /\ s[j].supersedes = s[i].id
                                    /\ s[j].label = s[i].label
        BY <2>2, <4>1 DEF Good, Mirrored
      <4> QED BY <1>1, <1>2, <4>1, <4>2
    <3> QED BY <3>1, <3>2, <3>3
  <2>3. ASSUME r[i].supersedes # Nobody
        PROVE  \E j \in Indices(r) : /\ r[j].id = r[i].supersedes /\ r[j].superseded_by = r[i].id
                                     /\ r[j].label = r[i].label
    <3>1. CASE i = z
      <4>1. k # 0 /\ k \in Indices(r) BY <1>1, <1>2, <2>3, <3>1
      <4> QED BY <1>2, <3>1, <4>1
    <3>2. CASE i # z
      <4>1. i \in Indices(s) /\ s[i].id = r[i].id /\ s[i].id # Nobody BY <1>1, <1>2, <3>2, BlockFields
      <4>2. PICK j \in Indices(s) : /\ s[j].id = s[i].supersedes /\ s[j].superseded_by = s[i].id
                                    /\ s[j].label = s[i].label
        BY <1>2, <2>3, <4>1 DEF Good, Mirrored
      <4>3. j # k BY <1>1, <4>1, <4>2 DEF Good, Mirrored
      <4> QED BY <1>1, <1>2, <4>1, <4>2, <4>3
    <3> QED BY <3>1, <3>2
  <2> QED BY <2>1, <2>2, <2>3
<1>7. PoliciesActive(r)
  <2>1. ASSUME NEW i \in Indices(r), r[i].access = "read_only" PROVE r[i].to = Current
    <3>1. CASE i = z BY <1>2, <3>1
    <3>2. CASE i # z /\ i = k BY <1>1, <1>2, <2>1, <3>2
    <3>3. CASE i # z /\ i # k BY <1>1, <1>2, <2>1, <3>3 DEF Good, PoliciesActive
    <3> QED BY <3>1, <3>2, <3>3
  <2> QED BY <2>1 DEF PoliciesActive
<1>8. Past(r, n)
  <2>1. ASSUME NEW i \in Indices(r) PROVE r[i].from <= n /\ r[i].to <= n
    <3>1. CASE i = z BY <1>2, <3>1 DEF Current
    <3>2. CASE i # z /\ i = k BY <1>1, <1>2, <3>2 DEF Good, Past
    <3>3. CASE i # z /\ i # k BY <1>1, <1>2, <3>3 DEF Good, Past
    <3> QED BY <3>1, <3>2, <3>3
  <2> QED BY <2>1 DEF Past
<1>9. \A i \in Indices(s) : /\ s[i].from \in Int /\ 0 < s[i].from /\ s[i].from <= n
                            /\ s[i].to \in Int /\ s[i].to <= n
  BY <1>1, BlockFields DEF Good, Past
<1>10. ASSUME NEW x \in Label \ e, NEW t \in 1 .. n,
              \E i \in Indices(r) : r[i].label = x /\ r[i].from <= t
       PROVE  \E i \in Indices(r) :
                 /\ r[i].label = x /\ Believed(r[i], t)
                 /\ \A j \in Indices(r) : r[j].label = x /\ Believed(r[j], t) => j = i
  <2>1. CASE x # new.label
    <3>0. \A i \in Indices(s) : s[i].label = x => i # k BY <1>1, <2>1
    <3>1. \A i \in Indices(r) : r[i].label = x => i \in Indices(s) /\ i # k /\ r[i] = s[i] /\ s[i].label = x
      BY <1>1, <1>2, <2>1, <3>0
    <3>2. \A i \in Indices(s) : s[i].label = x => i \in Indices(r) /\ r[i] = s[i] /\ r[i].label = x
      BY <1>1, <1>2, <2>1, <3>0
    <3>3. PICK i \in Indices(s) :
            /\ s[i].label = x /\ Believed(s[i], t)
            /\ \A j \in Indices(s) : s[j].label = x /\ Believed(s[j], t) => j = i
      BY <1>10, <3>1 DEF Good, NoGap
    <3> QED BY <3>1, <3>2, <3>3
  <2>2. CASE x = new.label
    <3>1. new.from = n BY <1>10, <2>2
    <3>2. n \in 1 .. n OBVIOUS
    <3>3. ASSUME NEW i \in Indices(s), s[i].label = x, NEW u \in 1 .. n, s[i].from <= u
          PROVE  \E a \in Indices(s) :
                    /\ s[a].label = x /\ Believed(s[a], u)
                    /\ \A j \in Indices(s) : s[j].label = x /\ Believed(s[j], u) => j = a
      <4>1. x \in Label \ d OBVIOUS
      <4>2. NoGap(s, n, d) BY DEF Good
      <4>3. \E j \in Indices(s) : s[j].label = x /\ s[j].from <= u BY <3>3
      <4> QED BY <4>1, <4>2, <4>3 DEF NoGap
    (* Before, a label with blocks has an active one. *)
    <3>4. ASSUME NEW i \in Indices(s), s[i].label = x PROVE k # 0
      <4>1. PICK a \in Indices(s) : s[a].label = x /\ Believed(s[a], n)
        BY <1>9, <3>2, <3>3, <3>4
      <4>2. s[a].to = Current BY <1>9, <4>1 DEF Believed
      <4> QED BY <2>2, <4>1, <4>2
    <3>5. CASE t = n
      <4>1. \A i \in Indices(s) : ~(r[i].label = x /\ Believed(r[i], t))
        <5> SUFFICES ASSUME NEW i \in Indices(s), r[i].label = x, Believed(r[i], t) PROVE FALSE
          OBVIOUS
        <5>1. r[i].to # Current BY <1>4, <2>2
        <5>2. r[i].to \in Int /\ r[i].to <= n BY <1>1, <1>8, BlockFields, BlocksOf DEF Past
        <5> QED BY <3>5, <5>1, <5>2 DEF Believed
      <4>2. r[z].label = x /\ Believed(r[z], t) BY <1>2, <2>2, <3>1, <3>5 DEF Believed
      <4> QED BY <1>1, <4>1, <4>2
    <3>6. CASE t < n
      <4>1. ~(new.from <= t) BY <3>1, <3>6
      <4>2. PICK i \in Indices(s) : s[i].label = x /\ s[i].from <= t
        BY <1>1, <1>2, <1>10, <4>1
      <4>3. \A j \in Indices(s) : Believed(r[j], t) <=> Believed(s[j], t)
        <5> SUFFICES ASSUME NEW j \in Indices(s) PROVE Believed(r[j], t) <=> Believed(s[j], t) OBVIOUS
        <5>1. CASE j # k BY <1>2, <5>1
        <5>2. CASE j = k
          <6>1. j # 0 BY <1>1 DEF Indices
          <6>2. r[j].to = n /\ s[j].to = Current /\ r[j].from = s[j].from BY <5>2, <6>1
          <6> QED BY <3>6, <6>2 DEF Believed, Current
        <5> QED BY <5>1, <5>2
      <4>4. PICK a \in Indices(s) :
              /\ s[a].label = x /\ Believed(s[a], t)
              /\ \A j \in Indices(s) : s[j].label = x /\ Believed(s[j], t) => j = a
        BY <3>3, <4>2
      <4>5. ~Believed(r[z], t) BY <1>2, <4>1 DEF Believed
      <4>6. a \in Indices(r) /\ r[a].label = x /\ Believed(r[a], t) BY <1>1, <1>2, <4>3, <4>4
      <4>7. \A j \in Indices(r) : r[j].label = x /\ Believed(r[j], t) => j = a
        BY <1>1, <1>2, <4>3, <4>4, <4>5
      <4> QED BY <4>6, <4>7
    <3> QED BY <3>5, <3>6
  <2> QED BY <2>1, <2>2
<1>11. NoGap(r, n, e) BY <1>10 DEF NoGap
<1> QED BY <1>3, <1>5, <1>6, <1>7, <1>8, <1>11 DEF Good

-----------------------------------------------------------------------------
(* The shared memory while writers come and go. *)

BlockSorts ==
    /\ file \in Seq(Blocks)
    /\ pc \in [Writer -> {"idle", "check", "merge", "open", "write"}]
    /\ req \in [Writer -> Wishes \cup {NoBlock}]
    /\ \A w \in Writer : pc[w] # "idle" => req[w] \in Wishes
    /\ seen \in [Writer -> Blocks \cup {NoBlock}]
    /\ list \in [Writer -> Seq(Blocks)]
    /\ now \in Time /\ minted \subseteq Block /\ calm \in BOOLEAN
    /\ \A w \in Writer : pc[w] \in {"check", "merge"} => req[w].id \in minted /\ req[w].from <= now

Ids(s) == {s[i].id : i \in Indices(s)}

KeptAfter(w) == IF req[w].id = Nobody THEN kept \ req[w].text ELSE kept \cup {req[w].id}

(* A call that nothing overlaps: its block is new to the file, what its    *)
(* read found is still so, and what it is about to write is good.          *)
Call(w) ==
    /\ pc[w] \in {"check", "merge"} => req[w].id \notin Ids(file)
    /\ pc[w] = "merge" => /\ seen[w] = ByLabel(file, req[w].label)
                          /\ seen[w] # NoBlock => seen[w].access # "read_only"
    /\ pc[w] \in {"open", "write"} => /\ Good(list[w], now, minted, dated)
                                      /\ KeptAfter(w) \subseteq Ids(list[w])
    /\ pc[w] = "write" => file = <<>>

CalmInv ==
    calm =>
        /\ \A v, w \in Writer : pc[v] # "idle" /\ pc[w] # "idle" => v = w
        /\ \A w \in Writer : Call(w)
        /\ (\A w \in Writer : pc[w] # "write") => Good(file, now, minted, dated) /\ kept \subseteq Ids(file)

Earned(b) == b.auto => Cardinality(b.users) >= MinSources

(* Every copy of a promoted block has its sources. *)
EarnedInv ==
    /\ \A i \in Indices(file) : Earned(file[i])
    /\ \A w \in Writer : \A i \in Indices(list[w]) : Earned(list[w][i])
    /\ \A w \in Writer : pc[w] # "idle" => Earned(req[w])

LEMMA SupersededFacts ==
    ASSUME NEW s \in Seq(Blocks), NEW old, NEW new \in Blocks, now \in Time
    PROVE  LET r == Superseded(s, old, new) k == Line(s, old) IN
           /\ r \in Seq(Blocks) /\ Len(r) = Len(s)
           /\ \A i \in Indices(s) : i # k => r[i] = s[i]
           /\ k # 0 => /\ r[k].id = s[k].id /\ r[k].label = s[k].label /\ r[k].access = s[k].access
                       /\ r[k].from = s[k].from /\ r[k].supersedes = s[k].supersedes
                       /\ r[k].to = now /\ r[k].superseded_by = new.id
           /\ \A i \in Indices(s) : r[i].auto = s[i].auto /\ r[i].users = s[i].users
<1> DEFINE k == Line(s, old)
           b == [s[k] EXCEPT !.to = now, !.superseded_by = new.id]
<1>1. k \in 0 .. Len(s) /\ Len(s) \in Nat /\ \A i \in Indices(s) : s[i] \in Blocks
  BY LineFacts, BlocksOf
<1>2. CASE k = 0 BY <1>1, <1>2 DEF Superseded, Indices
<1>3. CASE k # 0
  <2>1. k \in 1 .. Len(s) /\ k \in Indices(s) BY <1>1, <1>3 DEF Indices
  <2>2. s[k] \in Blocks BY <1>1, <2>1
  <2>3. b \in Blocks BY <2>2 DEF Blocks
  <2>4. /\ b.id = s[k].id /\ b.label = s[k].label /\ b.access = s[k].access /\ b.from = s[k].from
        /\ b.supersedes = s[k].supersedes /\ b.to = now /\ b.superseded_by = new.id
        /\ b.auto = s[k].auto /\ b.users = s[k].users
    BY <2>2 DEF Blocks
  <2>5. Superseded(s, old, new) = [s EXCEPT ![k] = b]
    BY <1>3 DEF Superseded
  <2> HIDE DEF k, b
  <2>6. /\ [s EXCEPT ![k] = b] \in Seq(Blocks) /\ Len([s EXCEPT ![k] = b]) = Len(s)
        /\ \A i \in 1 .. Len(s) : [s EXCEPT ![k] = b][i] = IF i = k THEN b ELSE s[i]
    BY <2>1, <2>3, ExceptSeq
  <2> QED BY <1>3, <2>1, <2>4, <2>5, <2>6 DEF Indices, k
<1> QED BY <1>2, <1>3

LEMMA OverwrittenFacts ==
    ASSUME NEW lines \in Seq(Blocks), file \in Seq(Blocks), NEW r \in Overwritten(lines)
    PROVE  /\ r \in Seq(Blocks)
           /\ \A i \in Indices(r) : \/ \E j \in Indices(lines) : r[i] = lines[j]
                                    \/ \E j \in Indices(file) : r[i] = file[j]
           /\ file = <<>> => r = lines
<1>0. /\ Len(lines) \in Nat /\ Len(file) \in Nat
      /\ \A i \in 1 .. Len(file) : file[i] \in Blocks
  BY LenProperties
<1>1. CASE file = <<>> /\ r = lines BY <1>1
<1>2. ASSUME NEW k \in 0 .. Len(file), r = lines \o SubSeq(file, k + 1, Len(file)),
             lines # <<>> => k # 0
      PROVE  /\ r \in Seq(Blocks)
             /\ \A i \in Indices(r) : \/ \E j \in Indices(lines) : r[i] = lines[j]
                                      \/ \E j \in Indices(file) : r[i] = file[j]
             /\ file = <<>> => r = lines
  <2> DEFINE rest == SubSeq(file, k + 1, Len(file))
  <2>1. /\ rest \in Seq(Blocks) /\ Len(rest) = IF k + 1 <= Len(file) THEN Len(file) - k ELSE 0
        /\ \A i \in 1 .. Len(file) - k : rest[i] = file[k + i]
    <3>1. \A i \in k + 1 .. Len(file) : file[i] \in Blocks BY <1>0
    <3>2. k + 1 \in Int /\ Len(file) \in Int BY <1>0
    <3>3. /\ rest \in Seq(Blocks)
          /\ Len(rest) = IF k + 1 <= Len(file) THEN Len(file) - (k + 1) + 1 ELSE 0
          /\ \A i \in 1 .. Len(file) - (k + 1) + 1 : rest[i] = file[k + 1 + i - 1]
      BY <3>1, <3>2, SubSeqProperties
    <3> QED BY <1>0, <3>3
  <2> HIDE DEF rest
  <2>2. /\ r = lines \o rest /\ r \in Seq(Blocks) /\ Len(r) = Len(lines) + Len(rest)
        /\ \A i \in 1 .. Len(lines) + Len(rest) :
              r[i] = IF i <= Len(lines) THEN lines[i] ELSE rest[i - Len(lines)]
    <3>1. r = lines \o rest BY <1>2 DEF rest
    <3> QED BY <2>1, <3>1, ConcatProperties
  <2>3. ASSUME NEW i \in Indices(r)
        PROVE  \/ \E j \in Indices(lines) : r[i] = lines[j]
               \/ \E j \in Indices(file) : r[i] = file[j]
    <3>1. CASE i <= Len(lines) BY <1>0, <2>1, <2>2, <3>1 DEF Indices
    <3>2. CASE i > Len(lines)
      <4>1. i \in 1 .. Len(lines) + Len(rest) /\ i - Len(lines) \in 1 .. Len(rest)
        BY <1>0, <2>1, <2>2, <3>2 DEF Indices
      <4>2. r[i] = rest[i - Len(lines)] BY <1>0, <2>2, <3>2, <4>1
      <4>3. i - Len(lines) \in 1 .. Len(file) - k /\ k + (i - Len(lines)) \in Indices(file)
        BY <1>0, <2>1, <4>1 DEF Indices
      <4>4. rest[i - Len(lines)] = file[k + (i - Len(lines))] BY <2>1, <4>3
      <4> QED BY <4>2, <4>3, <4>4
    <3> QED BY <1>0, <2>1, <2>2, <3>1, <3>2 DEF Indices
  <2>4. ASSUME file = <<>> PROVE r = lines
    <3>1. Len(file) = 0 BY <2>4, EmptySeq
    <3>2. rest = <<>>
      <4>1. Len(rest) = 0 BY <2>1, <3>1
      <4> QED BY <2>1, <4>1, EmptySeq
    <3> QED BY <2>2, <3>2, ConcatEmptySeq
  <2> QED BY <2>2, <2>3, <2>4
<1>3. \/ file = <<>> /\ r = lines
      \/ \E k \in 0 .. Len(file) :
            r = lines \o SubSeq(file, k + 1, Len(file)) /\ (lines # <<>> => k # 0)
  <2> DEFINE from == IF lines = <<>> THEN 0 ELSE 1
  <2>1. \/ r \in {lines \o SubSeq(file, k + 1, Len(file)) : k \in from .. Len(file)}
        \/ r \in (IF file = <<>> THEN {lines} ELSE {})
    BY DEF Overwritten
  <2>2. CASE r \in {lines \o SubSeq(file, k + 1, Len(file)) : k \in from .. Len(file)}
    <3>1. PICK k \in from .. Len(file) : r = lines \o SubSeq(file, k + 1, Len(file)) BY <2>2
    <3>2. k \in 0 .. Len(file) /\ (lines # <<>> => k # 0) BY <1>0
    <3> QED BY <3>1, <3>2
  <2>3. CASE r \in (IF file = <<>> THEN {lines} ELSE {}) BY <2>3
  <2> QED BY <2>1, <2>2, <2>3
<1> QED BY <1>1, <1>2, <1>3

LEMMA PrefixFacts ==
    ASSUME NEW s \in Seq(Blocks), NEW k \in 0 .. Len(s)
    PROVE  /\ SubSeq(s, 1, k) \in Seq(Blocks)
           /\ \A i \in Indices(SubSeq(s, 1, k)) : \E j \in Indices(s) : SubSeq(s, 1, k)[i] = s[j]
<1>1. Len(s) \in Nat /\ \A i \in 1 .. k : s[i] \in Blocks /\ i \in Indices(s)
  BY LenProperties DEF Indices
<1>2. /\ SubSeq(s, 1, k) \in Seq(Blocks) /\ Len(SubSeq(s, 1, k)) = IF 1 <= k THEN k - 1 + 1 ELSE 0
      /\ \A i \in 1 .. k - 1 + 1 : SubSeq(s, 1, k)[i] = s[1 + i - 1]
  BY <1>1, SubSeqProperties
<1>3. Indices(SubSeq(s, 1, k)) = 1 .. k BY <1>1, <1>2 DEF Indices
<1>4. \A i \in 1 .. k : SubSeq(s, 1, k)[i] = s[i] BY <1>1, <1>2
<1> QED BY <1>1, <1>2, <1>3, <1>4

LEMMA NewBlockFacts ==
    ASSUME BlockSorts, NEW w \in Writer, pc[w] = "merge"
    PROVE  /\ NewBlock(w) \in Blocks
           /\ NewBlock(w).id = req[w].id /\ NewBlock(w).label = req[w].label
           /\ NewBlock(w).to = Current /\ NewBlock(w).superseded_by = Nobody
           /\ NewBlock(w).from <= now /\ NewBlock(w).access = req[w].access
           /\ req[w].from = 0 => NewBlock(w).from = now
           /\ NewBlock(w).supersedes = IF seen[w] = NoBlock THEN Nobody ELSE seen[w].id
           /\ Earned(req[w]) => Earned(NewBlock(w))
<1>1. /\ req[w] \in Wishes /\ req[w].id \in Block /\ req[w].from <= now
      /\ req[w].from \in 0 .. MaxTime
      /\ now \in Time /\ (seen[w] = NoBlock \/ seen[w] \in Blocks)
  BY DEF BlockSorts, Wishes
<1>2. NewBlock(w) \in Blocks
  <2>1. (IF req[w].users # {} \/ seen[w] = NoBlock THEN req[w].users ELSE seen[w].users)
           \in SUBSET Contributor
    BY <1>1 DEF Wishes, Blocks
  <2>2. (IF req[w].from = 0 THEN now ELSE req[w].from) \in Time
    BY <1>1, BlocksAssumption DEF Time
  <2>3. (IF seen[w] = NoBlock THEN Nobody ELSE seen[w].id) \in Block \cup {Nobody}
    BY <1>1 DEF Blocks
  <2> QED BY <1>1, <2>1, <2>2, <2>3 DEF NewBlock, Blocks, Wishes, Current
<1>3. Earned(req[w]) => Earned(NewBlock(w))
  <2>1. Cardinality({}) = 0 /\ MinSources \in Nat \ {0} BY FS_EmptySet, PromotionAssumption
  <2>2. ASSUME req[w].auto, Cardinality(req[w].users) >= MinSources PROVE req[w].users # {}
    BY <2>1, <2>2
  <2>3. NewBlock(w).auto = req[w].auto
    BY DEF NewBlock
  <2>4. req[w].users # {} => NewBlock(w).users = req[w].users
    BY DEF NewBlock
  <2> QED BY <2>2, <2>3, <2>4 DEF Earned
<1>4. NewBlock(w).from = IF req[w].from = 0 THEN now ELSE req[w].from BY DEF NewBlock
<1>5. NewBlock(w).from <= now BY <1>1, <1>4 DEF Time
<1> QED BY <1>2, <1>3, <1>4, <1>5 DEF NewBlock, Current

(* What upsert is about to write. *)
LEMMA MergeFacts ==
    ASSUME BlockSorts, NEW w \in Writer, Merge(w)
    PROVE  LET new == NewBlock(w) k == Line(file, seen[w]) r == list'[w] IN
           /\ r \in Seq(Blocks) /\ Len(r) = Len(file) + 1 /\ r[Len(file) + 1] = new
           /\ \A i \in Indices(file) : i # k => r[i] = file[i]
           /\ k # 0 => /\ r[k].id = file[k].id /\ r[k].label = file[k].label
                       /\ r[k].access = file[k].access /\ r[k].from = file[k].from
                       /\ r[k].supersedes = file[k].supersedes
                       /\ r[k].to = now /\ r[k].superseded_by = new.id
           /\ \A i \in Indices(file) : r[i].auto = file[i].auto /\ r[i].users = file[i].users
           /\ list' = [list EXCEPT ![w] = r]
<1> DEFINE new == NewBlock(w)
           s == Superseded(file, seen[w], new)
           k == Line(file, seen[w])
<1>1. /\ file \in Seq(Blocks) /\ now \in Time /\ pc[w] = "merge" /\ list' = [list EXCEPT ![w] = Append(s, new)]
  BY DEF BlockSorts, Merge
<1>2. new \in Blocks BY <1>1, NewBlockFacts
<1>3. list'[w] = Append(s, new) BY <1>1 DEF BlockSorts
<1> HIDE DEF new
<1>4. /\ s \in Seq(Blocks) /\ Len(s) = Len(file)
      /\ \A i \in Indices(file) : i # k => s[i] = file[i]
      /\ k # 0 => /\ s[k].id = file[k].id /\ s[k].label = file[k].label /\ s[k].access = file[k].access
                  /\ s[k].from = file[k].from /\ s[k].supersedes = file[k].supersedes
                  /\ s[k].to = now /\ s[k].superseded_by = new.id
      /\ \A i \in Indices(file) : s[i].auto = file[i].auto /\ s[i].users = file[i].users
  BY <1>1, <1>2, SupersededFacts
<1>5. k \in 0 .. Len(file) /\ Len(file) \in Nat BY <1>1, LineFacts, BlocksOf
<1>6. k # 0 => k \in Indices(file) BY <1>5 DEF Indices
<1> HIDE DEF s, k
<1>7. /\ Append(s, new) \in Seq(Blocks) /\ Len(Append(s, new)) = Len(file) + 1
      /\ \A i \in Indices(file) : Append(s, new)[i] = s[i]
      /\ Append(s, new)[Len(file) + 1] = new
  BY <1>2, <1>4, AppendProperties DEF Indices
<1> QED BY <1>1, <1>3, <1>4, <1>6, <1>7 DEF new, k

-----------------------------------------------------------------------------
(* Sorts, and the sources of every copy *)

SortInv == BlockSorts /\ EarnedInv

LEMMA CheckSorts ==
    ASSUME SortInv, NEW w \in Writer, NEW r \in Wishes, Check(w, r), Earned(r),
           UNCHANGED <<file, list, now>>, calm' \in BOOLEAN,
           minted \subseteq minted', minted' \subseteq Block, r.id \in minted', r.from <= now
    PROVE  SortInv'
<1>1. ByLabel(file, r.label) \in Blocks \cup {NoBlock} BY ByLabelFacts DEF SortInv, BlockSorts
<1>2. /\ file' = file /\ list' = list /\ now' = now /\ calm' \in BOOLEAN BY DEF SortInv, BlockSorts
<1>3. \/ /\ pc' = [pc EXCEPT ![w] = "idle"] /\ req' = [req EXCEPT ![w] = NoBlock] /\ seen' = seen
      \/ /\ pc' = [pc EXCEPT ![w] = "merge"] /\ req' = [req EXCEPT ![w] = r]
         /\ seen' = [seen EXCEPT ![w] = ByLabel(file, r.label)]
  BY DEF Check, Goto
<1>4. BlockSorts' BY <1>1, <1>2, <1>3, ZenonT(60) DEF SortInv, BlockSorts
<1>5. EarnedInv' BY <1>2, <1>3 DEF SortInv, BlockSorts, EarnedInv
<1> QED BY <1>4, <1>5 DEF SortInv

LEMMA UpsertSorts ==
    ASSUME SortInv, NEW w \in Writer, NEW l \in Label, NEW us \in SUBSET Contributor,
           NEW auto \in BOOLEAN, auto => Cardinality(us) >= MinSources, Upsert(w, l, us, auto)
    PROVE  SortInv'
<1>1. PICK b \in Block, a \in Access, from \in 0 .. now :
        Mint(b) /\ Check(w, Wanted(b, l, a, {b}, us, auto, from))
  BY DEF Upsert
<1> DEFINE r == Wanted(b, l, a, {b}, us, auto, from)
<1>2. now \in Time /\ from \in 0 .. MaxTime /\ from <= now BY BlocksAssumption DEF SortInv, BlockSorts, Time
<1>3. r \in Wishes /\ r.id = b /\ r.from = from /\ r.auto = auto /\ r.users = us
  BY <1>2 DEF Wanted, Wishes
<1>4. Earned(r) BY <1>3 DEF Earned
<1>5. minted \subseteq minted' /\ minted' \subseteq Block /\ b \in minted'
  BY <1>1 DEF Mint, SortInv, BlockSorts
<1>6. UNCHANGED <<file, list, now>> /\ calm' \in BOOLEAN BY DEF Upsert, Begins, SortInv, BlockSorts
<1> HIDE DEF r
<1> QED BY <1>1, <1>2, <1>3, <1>4, <1>5, <1>6, CheckSorts DEF r

LEMMA AppendSorts ==
    ASSUME SortInv, NEW w \in Writer, NEW l \in Label, AppendToBlock(w, l)
    PROVE  SortInv'
<1> DEFINE old == ByLabel(file, l)
<1>1. PICK b \in Block :
        /\ Mint(b)
        /\ req' = [req EXCEPT ![w] =
                     IF old = NoBlock THEN Wanted(b, l, "read_write", {b}, {}, FALSE, 0)
                     ELSE Wanted(b, l, "read_write", {b} \cup old.text, old.users, old.auto, 0)]
  BY DEF AppendToBlock
<1> DEFINE r == IF old = NoBlock THEN Wanted(b, l, "read_write", {b}, {}, FALSE, 0)
                ELSE Wanted(b, l, "read_write", {b} \cup old.text, old.users, old.auto, 0)
<1>2. old = NoBlock \/ (old \in Blocks /\ \E i \in Indices(file) : old = file[i])
  BY ByLabelFacts DEF SortInv, BlockSorts
<1>3. r \in Wishes /\ r.id = b /\ r.from = 0 /\ Earned(r)
  <2>1. CASE old = NoBlock BY <2>1, BlocksAssumption DEF Wanted, Wishes, Access, Earned
  <2>2. CASE old # NoBlock
    <3>1. old \in Blocks /\ Earned(old) BY <1>2, <2>2 DEF SortInv, EarnedInv
    <3> QED BY <2>2, <3>1, BlocksAssumption DEF Wanted, Wishes, Access, Earned, Blocks
  <2> QED BY <2>1, <2>2
<1>4. /\ pc' = [pc EXCEPT ![w] = "check"] /\ req' = [req EXCEPT ![w] = r]
      /\ UNCHANGED <<file, seen, list, now>> /\ calm' \in BOOLEAN
  BY <1>1 DEF AppendToBlock, Goto, Begins, SortInv, BlockSorts
<1>5. minted \subseteq minted' /\ minted' \subseteq Block /\ b \in minted' /\ 0 <= now
  BY <1>1 DEF Mint, SortInv, BlockSorts, Time
<1> HIDE DEF r
<1>6. BlockSorts' BY <1>3, <1>4, <1>5 DEF SortInv, BlockSorts
<1>7. EarnedInv' BY <1>3, <1>4 DEF SortInv, BlockSorts, EarnedInv
<1> QED BY <1>6, <1>7 DEF SortInv

LEMMA CheckAppendedSorts == ASSUME SortInv, NEW w \in Writer, CheckAppended(w) PROVE SortInv'
<1>1. /\ pc[w] = "check" /\ Check(w, req[w])
      /\ UNCHANGED <<file, list, now>> /\ calm' \in BOOLEAN /\ minted' = minted
  BY DEF CheckAppended, SortInv, BlockSorts
<1>2. /\ req[w] \in Wishes /\ Earned(req[w]) /\ req[w].id \in minted /\ req[w].from <= now
      /\ minted \subseteq minted' /\ minted' \subseteq Block /\ req[w].id \in minted'
  BY <1>1 DEF SortInv, BlockSorts, EarnedInv
<1> QED BY <1>1, <1>2, CheckSorts

LEMMA MergeSorts == ASSUME SortInv, NEW w \in Writer, Merge(w) PROVE SortInv'
<1> DEFINE r == list'[w]
<1>1. /\ r \in Seq(Blocks) /\ Len(r) = Len(file) + 1 /\ r[Len(file) + 1] = NewBlock(w)
      /\ \A i \in Indices(file) : r[i].auto = file[i].auto /\ r[i].users = file[i].users
      /\ list' = [list EXCEPT ![w] = r]
  BY MergeFacts DEF SortInv
<1>2. /\ pc[w] = "merge" /\ pc' = [pc EXCEPT ![w] = "open"]
      /\ UNCHANGED <<file, req, seen, now, minted, calm>>
  BY DEF Merge, Goto
<1>3. Earned(NewBlock(w))
  <2>1. Earned(req[w]) BY <1>2 DEF SortInv, EarnedInv
  <2> QED BY <1>2, <2>1, NewBlockFacts DEF SortInv
<1>4. \A i \in Indices(r) : Earned(r[i])
  <2>1. Len(file) \in Nat BY BlocksOf DEF SortInv, BlockSorts
  <2>2. \A i \in Indices(r) : i \in Indices(file) \/ i = Len(file) + 1 BY <1>1, <2>1 DEF Indices
  <2>3. \A i \in Indices(file) : Earned(file[i]) BY DEF SortInv, EarnedInv
  <2> QED BY <1>1, <1>3, <2>2, <2>3 DEF Earned
<1> HIDE DEF r
<1>5. BlockSorts' BY <1>1, <1>2 DEF SortInv, BlockSorts
<1>6. EarnedInv' BY <1>1, <1>2, <1>4 DEF SortInv, BlockSorts, EarnedInv
<1> QED BY <1>5, <1>6 DEF SortInv

LEMMA RemoveFacts ==
    ASSUME SortInv, NEW w \in Writer, NEW l \in Label, RemoveLabel(w, l)
    PROVE  \E I : LET r == Subsequence(file, I) IN
           /\ \A i : i \in I <=> i \in DOMAIN file /\ file[i].label # l
           /\ I \subseteq Indices(file) /\ r \in Seq(Blocks)
           /\ list' = [list EXCEPT ![w] = r]
           /\ \A k \in Indices(r) : \E i \in Indices(file) : r[k] = file[i]
<1> DEFINE I == {i \in DOMAIN file : file[i].label # l}
<1>1. /\ \A i : i \in I <=> i \in DOMAIN file /\ file[i].label # l
      /\ list' = [list EXCEPT ![w] = Subsequence(file, I)]
  BY DEF RemoveLabel
<1> HIDE DEF I
<1>2. file \in Seq(Blocks) /\ I \subseteq Indices(file) BY <1>1, BlocksOf DEF SortInv, BlockSorts
<1>3. /\ Subsequence(file, I) \in Seq(Blocks)
      /\ \A k \in Indices(Subsequence(file, I)) : \E i \in I : Subsequence(file, I)[k] = file[i]
  BY <1>2, SubsequenceFacts
<1> QED BY <1>1, <1>2, <1>3

LEMMA RemoveWish ==
    ASSUME SortInv, NEW w \in Writer, NEW l \in Label, RemoveLabel(w, l)
    PROVE  /\ req'[w] \in Wishes /\ req'[w].id = Nobody /\ Earned(req'[w])
           /\ req' = [req EXCEPT ![w] = req'[w]]
           /\ \A i \in Indices(file) : file[i].label = l => file[i].id \in req'[w].text
<1> DEFINE r == Wanted(Nobody, l, "read_write", {b.id : b \in {c \in ToSet(file) : c.label = l}}, {}, FALSE, 0)
<1>1. /\ req' = [req EXCEPT ![w] = r] /\ req'[w] = r
  BY DEF RemoveLabel, SortInv, BlockSorts
<1>2. file \in Seq(Blocks) /\ (\A i \in Indices(file) : file[i] \in Blocks) /\ DOMAIN file = Indices(file)
  BY BlocksOf DEF SortInv, BlockSorts
<1>3. {b.id : b \in {c \in ToSet(file) : c.label = l}} \in SUBSET Block
  BY <1>2 DEF ToSet, Range, Blocks
<1>4. r \in Wishes /\ r.id = Nobody /\ Earned(r)
  BY <1>3, BlocksAssumption DEF Wanted, Wishes, Access, Earned
<1>5. \A i \in Indices(file) : file[i].label = l => file[i].id \in r.text
  BY <1>2 DEF Wanted, ToSet, Range
<1> QED BY <1>1, <1>4, <1>5

LEMMA RemoveSorts ==
    ASSUME SortInv, NEW w \in Writer, NEW l \in Label, RemoveLabel(w, l) PROVE SortInv'
<1>1. PICK r \in Seq(Blocks) :
        /\ list' = [list EXCEPT ![w] = r]
        /\ \A k \in Indices(r) : \E i \in Indices(file) : r[k] = file[i]
  <2>1. PICK I : LET r == Subsequence(file, I) IN
           /\ r \in Seq(Blocks)
           /\ list' = [list EXCEPT ![w] = r]
           /\ \A k \in Indices(r) : \E i \in Indices(file) : r[k] = file[i]
    BY RemoveFacts
  <2> QED BY <2>1
<1>2. req'[w] \in Wishes /\ Earned(req'[w]) /\ req' = [req EXCEPT ![w] = req'[w]] BY RemoveWish
<1>3. /\ pc' = [pc EXCEPT ![w] = "open"] /\ calm' \in BOOLEAN
      /\ UNCHANGED <<file, seen, now, minted>>
  BY DEF RemoveLabel, Goto, Begins, SortInv, BlockSorts
<1> DEFINE q == req'[w]
<1> HIDE DEF q
<1>4. q \in Wishes /\ Earned(q) /\ req' = [req EXCEPT ![w] = q] BY <1>2 DEF q
<1>5. BlockSorts' BY <1>1, <1>3, <1>4 DEF SortInv, BlockSorts
<1>6. EarnedInv' BY <1>1, <1>3, <1>4 DEF SortInv, BlockSorts, EarnedInv
<1> QED BY <1>5, <1>6 DEF SortInv

LEMMA TruncateSorts == ASSUME SortInv, NEW w \in Writer, TruncateFile(w) PROVE SortInv'
<1>1. <<>> \in Seq(Blocks) /\ Indices(<<>>) = {} BY EmptySeq DEF Indices
<1>2. /\ pc[w] = "open" /\ pc' = [pc EXCEPT ![w] = "write"] /\ file' = <<>>
      /\ UNCHANGED <<req, seen, list, now, minted, calm>>
  BY DEF TruncateFile, Goto
<1>3. BlockSorts' BY <1>1, <1>2 DEF SortInv, BlockSorts
<1>4. EarnedInv' BY <1>1, <1>2 DEF SortInv, BlockSorts, EarnedInv
<1> QED BY <1>3, <1>4 DEF SortInv

(* A writer is done, or dies; f is what the file then holds. *)
LEMMA EndSorts ==
    ASSUME SortInv, NEW w \in Writer,
           pc' = [pc EXCEPT ![w] = "idle"], req' = [req EXCEPT ![w] = NoBlock],
           seen' = [seen EXCEPT ![w] = NoBlock], list' = [list EXCEPT ![w] = <<>>],
           now' = now, minted' = minted, calm' \in BOOLEAN, file' \in Seq(Blocks),
           \A i \in Indices(file') : Earned(file'[i])
    PROVE  SortInv'
<1>1. <<>> \in Seq(Blocks) /\ Indices(<<>>) = {} BY EmptySeq DEF Indices
<1>2. BlockSorts' BY <1>1 DEF SortInv, BlockSorts
<1>3. EarnedInv' BY <1>1 DEF SortInv, BlockSorts, EarnedInv
<1> QED BY <1>2, <1>3 DEF SortInv

LEMMA OverwrittenEarned ==
    ASSUME SortInv, NEW lines \in Seq(Blocks), \A j \in Indices(lines) : Earned(lines[j]),
           NEW r \in Overwritten(lines)
    PROVE  r \in Seq(Blocks) /\ \A i \in Indices(r) : Earned(r[i])
<1>1. file \in Seq(Blocks) BY DEF SortInv, BlockSorts
<1>2. /\ r \in Seq(Blocks)
      /\ \A i \in Indices(r) : \/ \E j \in Indices(lines) : r[i] = lines[j]
                               \/ \E j \in Indices(file) : r[i] = file[j]
  BY <1>1, OverwrittenFacts
<1>3. \A j \in Indices(file) : Earned(file[j]) BY DEF SortInv, EarnedInv
<1> QED BY <1>2, <1>3

LEMMA WriteSorts == ASSUME SortInv, NEW w \in Writer, WriteFile(w) PROVE SortInv'
<1>1. list[w] \in Seq(Blocks) /\ \A j \in Indices(list[w]) : Earned(list[w][j])
  BY DEF SortInv, BlockSorts, EarnedInv
<1>2. file' \in Overwritten(list[w]) BY DEF WriteFile
<1>3. file' \in Seq(Blocks) /\ \A i \in Indices(file') : Earned(file'[i])
  BY <1>1, <1>2, OverwrittenEarned
<1>4. /\ pc' = [pc EXCEPT ![w] = "idle"] /\ req' = [req EXCEPT ![w] = NoBlock]
      /\ seen' = [seen EXCEPT ![w] = NoBlock] /\ list' = [list EXCEPT ![w] = <<>>]
      /\ now' = now /\ minted' = minted /\ calm' \in BOOLEAN
  BY DEF WriteFile, Goto, SortInv, BlockSorts
<1> QED BY <1>3, <1>4, EndSorts

LEMMA DieSorts == ASSUME SortInv, NEW w \in Writer, Die(w) PROVE SortInv'
<1>1. list[w] \in Seq(Blocks) /\ \A j \in Indices(list[w]) : Earned(list[w][j])
  BY DEF SortInv, BlockSorts, EarnedInv
<1>2. file' \in Seq(Blocks) /\ \A i \in Indices(file') : Earned(file'[i])
  <2>1. CASE file' = file BY <2>1 DEF SortInv, BlockSorts, EarnedInv
  <2>2. ASSUME NEW k \in 0 .. Len(list[w]), file' \in Overwritten(SubSeq(list[w], 1, k))
        PROVE  file' \in Seq(Blocks) /\ \A i \in Indices(file') : Earned(file'[i])
    <3> DEFINE lines == SubSeq(list[w], 1, k)
    <3>1. /\ lines \in Seq(Blocks)
          /\ \A i \in Indices(lines) : \E j \in Indices(list[w]) : lines[i] = list[w][j]
      BY <1>1, PrefixFacts
    <3> HIDE DEF lines
    <3>2. \A i \in Indices(lines) : Earned(lines[i]) BY <1>1, <3>1
    <3>3. file' \in Overwritten(lines) BY <2>2 DEF lines
    <3> QED BY <3>1, <3>2, <3>3, OverwrittenEarned
  <2> QED BY <2>1, <2>2 DEF Die
<1>3. /\ pc' = [pc EXCEPT ![w] = "idle"] /\ req' = [req EXCEPT ![w] = NoBlock]
      /\ seen' = [seen EXCEPT ![w] = NoBlock] /\ list' = [list EXCEPT ![w] = <<>>]
      /\ now' = now /\ minted' = minted /\ calm' \in BOOLEAN
  BY DEF Die, Goto, SortInv, BlockSorts
<1> QED BY <1>2, <1>3, EndSorts

LEMMA TickSorts == ASSUME SortInv, Tick PROVE SortInv'
<1>1. now' \in Time /\ now' = now + 1 /\ now \in Int
  BY BlocksAssumption DEF Tick, SortInv, BlockSorts, Time
<1>2. UNCHANGED <<file, pc, req, seen, list, minted, calm>> BY DEF Tick, writerVars
<1>3. \A w \in Writer : pc[w] \in {"check", "merge"} => req[w].from <= now'
  <2> SUFFICES ASSUME NEW w \in Writer, pc[w] \in {"check", "merge"} PROVE req[w].from <= now' OBVIOUS
  <2>1. req[w] \in Wishes /\ req[w].from <= now BY DEF SortInv, BlockSorts
  <2>2. req[w].from \in Int BY <2>1, BlocksAssumption DEF Wishes
  <2> QED BY <1>1, <2>1, <2>2
<1>4. BlockSorts' BY <1>1, <1>2, <1>3 DEF SortInv, BlockSorts
<1>5. EarnedInv' BY <1>2 DEF SortInv, EarnedInv
<1> QED BY <1>4, <1>5 DEF SortInv

-----------------------------------------------------------------------------
(* Calls that nothing overlaps *)

LEMMA CalmStep ==
    ASSUME NEW w \in Writer,
           calm' => \A v \in Writer : v # w => pc'[v] = "idle",
           calm' => Call(w)',
           calm' /\ pc'[w] # "write" =>
                Good(file', now', minted', dated') /\ kept' \subseteq Ids(file')
    PROVE  CalmInv'
<1> SUFFICES ASSUME calm'
             PROVE  /\ \A u, v \in Writer : pc'[u] # "idle" /\ pc'[v] # "idle" => u = v
                    /\ \A v \in Writer : Call(v)'
                    /\ (\A v \in Writer : pc'[v] # "write") =>
                            Good(file', now', minted', dated') /\ kept' \subseteq Ids(file')
  BY DEF CalmInv
<1>1. ASSUME NEW v \in Writer PROVE Call(v)'
  <2>1. CASE v = w BY <2>1
  <2>2. CASE v # w BY <2>2 DEF Call
  <2> QED BY <2>1, <2>2
<1> QED BY <1>1

LEMMA Others ==
    ASSUME SortInv, CalmInv, calm, NEW w \in Writer, pc[w] # "idle"
    PROVE  \A v \in Writer : v # w => pc[v] = "idle"
BY DEF CalmInv

LEMMA FileNow ==
    ASSUME CalmInv, calm, NEW w \in Writer, \A v \in Writer : v # w => pc[v] = "idle", pc[w] # "write"
    PROVE  Good(file, now, minted, dated) /\ kept \subseteq Ids(file)
<1>1. \A v \in Writer : pc[v] # "write" OBVIOUS
<1> QED BY <1>1 DEF CalmInv

LEMMA CheckCalm ==
    ASSUME SortInv, CalmInv, NEW w \in Writer, NEW r, Check(w, r), pc[w] # "write",
           UNCHANGED <<file, now, kept, dated>>, minted \subseteq minted',
           calm' => calm /\ r.id \notin Ids(file) /\ \A v \in Writer : v # w => pc[v] = "idle"
    PROVE  CalmInv'
<1>1. /\ \A v \in Writer : v # w => pc'[v] = pc[v]
      /\ \/ pc'[w] = "idle"
         \/ /\ pc'[w] = "merge" /\ req'[w] = r /\ seen'[w] = ByLabel(file, r.label)
            /\ ~(seen'[w] # NoBlock /\ seen'[w].access = "read_only")
  BY DEF Check, Goto, SortInv, BlockSorts
<1>2. calm' => Call(w)' BY <1>1 DEF Call, Ids
<1>3. calm' => Good(file', now', minted', dated') /\ kept' \subseteq Ids(file')
  BY FileNow, GoodStill DEF Ids
<1>4. calm' => \A v \in Writer : v # w => pc'[v] = "idle" BY <1>1
<1> QED BY <1>2, <1>3, <1>4, CalmStep

(* An id that is minted now is new to the file. *)
LEMMA Fresh ==
    ASSUME SortInv, CalmInv, calm, NEW w \in Writer,
           \A v \in Writer : pc[v] = "idle", NEW b, Mint(b)
    PROVE  b \notin Ids(file)
<1>1. Good(file, now, minted, dated) BY FileNow
<1> QED BY <1>1 DEF Good, Identified, Ids, Mint

LEMMA UpsertCalm ==
    ASSUME SortInv, CalmInv, NEW w \in Writer, NEW l, NEW us, NEW auto, Upsert(w, l, us, auto)
    PROVE  CalmInv'
<1>1. PICK b \in Block, a \in Access, from \in 0 .. now :
        Mint(b) /\ Check(w, Wanted(b, l, a, {b}, us, auto, from))
  BY DEF Upsert
<1> DEFINE r == Wanted(b, l, a, {b}, us, auto, from)
<1>2. r.id = b BY DEF Wanted
<1>3. /\ UNCHANGED <<file, now, kept, dated>> /\ pc[w] = "idle" /\ minted \subseteq minted'
  BY <1>1 DEF Upsert, Mint, historyVars
<1>4. calm' => calm /\ \A v \in Writer : v # w => pc[v] = "idle" BY DEF Upsert, Begins
<1>5. calm' => b \notin Ids(file) BY <1>1, <1>3, <1>4, Fresh
<1> HIDE DEF r
<1>6. Check(w, r) BY <1>1 DEF r
<1> QED BY <1>2, <1>3, <1>4, <1>5, <1>6, CheckCalm

LEMMA AppendCalm ==
    ASSUME SortInv, CalmInv, NEW w \in Writer, NEW l, AppendToBlock(w, l) PROVE CalmInv'
<1>1. PICK b \in Block : Mint(b) /\ req'[w].id = b
  BY DEF AppendToBlock, Wanted, SortInv, BlockSorts
<1>2. /\ UNCHANGED <<file, now, kept, dated>> /\ pc[w] = "idle" /\ minted \subseteq minted'
      /\ pc'[w] = "check" /\ \A v \in Writer : v # w => pc'[v] = pc[v]
  BY <1>1 DEF AppendToBlock, Mint, historyVars, Goto, SortInv, BlockSorts
<1>3. calm' => calm /\ \A v \in Writer : v # w => pc[v] = "idle" BY DEF AppendToBlock, Begins
<1>4. calm' => b \notin Ids(file) BY <1>1, <1>2, <1>3, Fresh
<1>5. calm' => Call(w)' BY <1>1, <1>2, <1>4 DEF Call, Ids
<1>6. calm' => Good(file', now', minted', dated') /\ kept' \subseteq Ids(file')
  BY <1>2, <1>3, FileNow, GoodStill DEF Ids
<1> QED BY <1>2, <1>3, <1>5, <1>6, CalmStep

LEMMA CheckAppendedCalm ==
    ASSUME SortInv, CalmInv, NEW w \in Writer, CheckAppended(w) PROVE CalmInv'
<1>1. /\ pc[w] = "check" /\ Check(w, req[w]) /\ calm' = calm
      /\ UNCHANGED <<file, now, kept, dated>> /\ minted \subseteq minted'
  BY DEF CheckAppended, historyVars
<1>2. calm' => calm /\ \A v \in Writer : v # w => pc[v] = "idle" BY <1>1, Others
<1>3. calm' => req[w].id \notin Ids(file) BY <1>1 DEF CalmInv, Call
<1> QED BY <1>1, <1>2, <1>3, CheckCalm

(* The line of the block that the first read found. *)
LEMMA MergedLine ==
    ASSUME SortInv, CalmInv, calm, NEW w \in Writer, pc[w] = "merge"
    PROVE  LET k == Line(file, seen[w]) new == NewBlock(w) IN
           /\ k \in 0 .. Len(file)
           /\ k = 0 => /\ new.supersedes = Nobody
                       /\ \A i \in Indices(file) : ~(file[i].to = Current /\ file[i].label = new.label)
           /\ k # 0 => /\ file[k].to = Current /\ file[k].label = new.label
                       /\ file[k].access # "read_only" /\ new.supersedes = file[k].id
<1> DEFINE k == Line(file, seen[w])
           l == req[w].label
<1>1. file \in Seq(Blocks) BY DEF SortInv, BlockSorts
<1>2. /\ seen[w] = ByLabel(file, l)
      /\ seen[w] # NoBlock => seen[w].access # "read_only"
  BY DEF CalmInv, Call
<1>3. /\ NewBlock(w).label = l
      /\ NewBlock(w).supersedes = IF seen[w] = NoBlock THEN Nobody ELSE seen[w].id
  BY NewBlockFacts DEF SortInv
<1>4. Good(file, now, minted, dated)
  <2>1. \A v \in Writer : v # w => pc[v] = "idle" BY Others
  <2> QED BY <2>1, FileNow
<1>5. CASE seen[w] = NoBlock
  <2>1. k = 0 BY <1>1, <1>5, LineFacts
  <2>2. \A i \in Indices(file) : ~(file[i].to = Current /\ file[i].label = l)
    BY <1>1, <1>2, <1>5, ByLabelFacts
  <2>3. Len(file) \in Nat BY <1>1, BlocksOf
  <2> QED BY <1>3, <1>5, <2>1, <2>2, <2>3
<1>6. CASE seen[w] # NoBlock
  <2>1. PICK i \in Indices(file) : seen[w] = file[i] /\ file[i].to = Current /\ file[i].label = l
    BY <1>1, <1>2, <1>6, ByLabelFacts
  <2>2. k \in 0 .. Len(file) /\ k # 0 /\ file[k].id = seen[w].id BY <1>1, <1>6, <2>1, LineFacts
  <2>3. k \in Indices(file) BY <1>1, <2>2, BlocksOf DEF Indices
  <2>4. k = i BY <1>4, <2>1, <2>2, <2>3 DEF Good, Identified
  <2> QED BY <1>2, <1>3, <1>6, <2>1, <2>2, <2>4
<1> QED BY <1>5, <1>6

LEMMA MergeCalm == ASSUME SortInv, CalmInv, NEW w \in Writer, Merge(w) PROVE CalmInv'
<1>1. /\ pc[w] = "merge" /\ pc'[w] = "open" /\ \A v \in Writer : v # w => pc'[v] = pc[v]
      /\ UNCHANGED <<file, req, seen, now, minted, kept, calm>>
      /\ dated' = IF req[w].from = 0 THEN dated ELSE dated \cup {req[w].label}
  BY DEF Merge, Goto, SortInv, BlockSorts
<1> SUFFICES ASSUME calm PROVE CalmInv'
  BY <1>1 DEF CalmInv
<1>2. \A v \in Writer : v # w => pc[v] = "idle" BY <1>1, Others
<1>3. Good(file, now, minted, dated) /\ kept \subseteq Ids(file) BY <1>1, <1>2, FileNow
<1>4. Good(file', now', minted', dated') /\ kept' \subseteq Ids(file')
  <2>1. dated \subseteq dated' BY <1>1
  <2>2. Good(file, now, minted, dated') BY <1>3, <2>1, GoodStill
  <2> QED BY <1>1, <1>3, <2>2 DEF Ids
<1> DEFINE new == NewBlock(w)
           k == Line(file, seen[w])
           r == list'[w]
<1>5. /\ r \in Seq(Blocks) /\ Len(r) = Len(file) + 1 /\ r[Len(file) + 1] = new
      /\ \A i \in Indices(file) : i # k => r[i] = file[i]
      /\ k # 0 => /\ r[k].id = file[k].id /\ r[k].label = file[k].label
                  /\ r[k].access = file[k].access /\ r[k].from = file[k].from
                  /\ r[k].supersedes = file[k].supersedes
                  /\ r[k].to = now /\ r[k].superseded_by = new.id
  BY MergeFacts DEF SortInv
<1>6. /\ new \in Blocks /\ new.id = req[w].id /\ new.label = req[w].label
      /\ new.to = Current /\ new.superseded_by = Nobody /\ new.from <= now
      /\ req[w].from = 0 => new.from = now
  BY <1>1, NewBlockFacts DEF SortInv
<1>7. /\ k \in 0 .. Len(file)
      /\ k = 0 => /\ new.supersedes = Nobody
                  /\ \A i \in Indices(file) : ~(file[i].to = Current /\ file[i].label = new.label)
      /\ k # 0 => /\ file[k].to = Current /\ file[k].label = new.label
                  /\ file[k].access # "read_only" /\ new.supersedes = file[k].id
  BY <1>1, MergedLine
<1>8. /\ now \in Nat /\ now > 0 /\ req[w].id \in minted /\ req[w].id \notin Ids(file)
      /\ req[w].id # Nobody
  BY <1>1, MarksAssumption, BlocksAssumption DEF SortInv, BlockSorts, Time, CalmInv, Call
<1>9. \A i \in Indices(file) : file[i].id # new.id BY <1>6, <1>8 DEF Ids
<1>10. dated \subseteq dated' /\ (new.from = now \/ new.label \in dated') BY <1>1, <1>6
<1>11. new.id \in minted BY <1>6, <1>8
<1> HIDE DEF new, k, r
<1>12. Good(r, now, minted, dated')
  BY <1>3, <1>5, <1>6, <1>7, <1>8, <1>9, <1>10, <1>11, GoodExtended, SMTT(30)
<1>13. KeptAfter(w)' \subseteq Ids(r)
  <2>1. Len(file) \in Nat BY BlocksOf DEF SortInv, BlockSorts
  <2>2. Len(file) + 1 \in Indices(r) /\ \A i \in Indices(file) : i \in Indices(r)
    BY <1>5, <2>1 DEF Indices
  <2>3. new.id \in Ids(r) BY <1>5, <2>2 DEF Ids
  <2>4. \A i \in Indices(file) : r[i].id = file[i].id
    <3> SUFFICES ASSUME NEW i \in Indices(file) PROVE r[i].id = file[i].id OBVIOUS
    <3>1. CASE i = k
      <4>1. k # 0 BY <2>1, <3>1 DEF Indices
      <4> QED BY <1>5, <3>1, <4>1
    <3>2. CASE i # k BY <1>5, <3>2
    <3> QED BY <3>1, <3>2
  <2>5. Ids(file) \subseteq Ids(r) BY <2>2, <2>4 DEF Ids
  <2> QED BY <1>1, <1>3, <1>6, <1>8, <2>3, <2>5 DEF KeptAfter
<1>14. Call(w)'
  BY <1>1, <1>12, <1>13 DEF Call, r
<1> QED BY <1>1, <1>2, <1>4, <1>14, CalmStep

LEMMA RemoveCalm ==
    ASSUME SortInv, CalmInv, NEW w \in Writer, NEW l \in Label, RemoveLabel(w, l) PROVE CalmInv'
<1>1. /\ pc[w] = "idle" /\ pc'[w] = "open" /\ \A v \in Writer : v # w => pc'[v] = pc[v]
      /\ UNCHANGED <<file, now, minted, kept, dated>>
  BY DEF RemoveLabel, Goto, historyVars, SortInv, BlockSorts
<1>2. calm' => calm /\ \A v \in Writer : v # w => pc[v] = "idle" BY DEF RemoveLabel, Begins
<1> SUFFICES ASSUME calm' PROVE CalmInv' BY DEF CalmInv
<1>3. Good(file, now, minted, dated) /\ kept \subseteq Ids(file) BY <1>1, <1>2, FileNow
<1>4. Good(file', now', minted', dated') /\ kept' \subseteq Ids(file') BY <1>1, <1>3 DEF Ids
<1>5. PICK I : /\ \A i : i \in I <=> i \in DOMAIN file /\ file[i].label # l
               /\ list' = [list EXCEPT ![w] = Subsequence(file, I)]
  BY RemoveFacts
<1>6. list'[w] = Subsequence(file, I) BY <1>5 DEF SortInv, BlockSorts
<1>7. /\ Good(Subsequence(file, I), now, minted, dated)
      /\ \A i \in Indices(file) : file[i].label # l =>
            \E k \in Indices(Subsequence(file, I)) : Subsequence(file, I)[k] = file[i]
  <2>1. Good(file, now, minted, dated) BY <1>3
  <2>2. Sparing(file, I, l) BY <1>5 DEF Sparing
  <2> QED BY <2>1, <2>2, GoodWithout
<1>8. /\ req'[w].id = Nobody
      /\ \A i \in Indices(file) : file[i].label = l => file[i].id \in req'[w].text
  BY RemoveWish
<1>9. KeptAfter(w)' \subseteq Ids(list'[w])
  <2> SUFFICES ASSUME NEW b \in kept, b \notin req'[w].text PROVE b \in Ids(list'[w])
    BY <1>1, <1>8 DEF KeptAfter
  <2>1. PICK i \in Indices(file) : file[i].id = b BY <1>3 DEF Ids
  <2>2. file[i].label # l BY <1>8, <2>1
  <2>3. PICK k \in Indices(list'[w]) : list'[w][k] = file[i] BY <1>6, <1>7, <2>2
  <2> QED BY <2>1, <2>3 DEF Ids
<1>10. Call(w)' BY <1>1, <1>6, <1>7, <1>9 DEF Call
<1> QED BY <1>1, <1>2, <1>4, <1>10, CalmStep

LEMMA TruncateCalm == ASSUME SortInv, CalmInv, NEW w \in Writer, TruncateFile(w) PROVE CalmInv'
<1>1. /\ pc[w] = "open" /\ pc'[w] = "write" /\ \A v \in Writer : v # w => pc'[v] = pc[v]
      /\ file' = <<>> /\ UNCHANGED <<req, seen, list, now, minted, kept, dated, calm>>
  BY DEF TruncateFile, Goto, historyVars, SortInv, BlockSorts
<1>2. calm' => \A v \in Writer : v # w => pc'[v] = "idle" BY <1>1, Others
<1>3. calm' => Good(list[w], now, minted, dated) /\ KeptAfter(w) \subseteq Ids(list[w])
  BY <1>1 DEF CalmInv, Call
<1>4. calm' => Call(w)' BY <1>1, <1>3 DEF Call, KeptAfter, Ids
<1> QED BY <1>1, <1>2, <1>4, CalmStep

LEMMA WriteCalm == ASSUME SortInv, CalmInv, NEW w \in Writer, WriteFile(w) PROVE CalmInv'
<1>1. /\ pc[w] = "write" /\ pc'[w] = "idle" /\ \A v \in Writer : v # w => pc'[v] = pc[v]
      /\ file' \in Overwritten(list[w]) /\ kept' = KeptAfter(w)
      /\ UNCHANGED <<now, minted, dated, calm>>
  BY DEF WriteFile, Goto, KeptAfter, SortInv, BlockSorts
<1>2. calm' => \A v \in Writer : v # w => pc'[v] = "idle" BY <1>1, Others
<1>3. calm' => /\ Good(list[w], now, minted, dated) /\ KeptAfter(w) \subseteq Ids(list[w])
               /\ file = <<>>
  BY <1>1 DEF CalmInv, Call
<1>4. list[w] \in Seq(Blocks) /\ file \in Seq(Blocks) BY DEF SortInv, BlockSorts
<1>5. calm' => file' = list[w] BY <1>1, <1>3, <1>4, OverwrittenFacts
<1>6. calm' => Good(file', now', minted', dated') /\ kept' \subseteq Ids(file')
  BY <1>1, <1>3, <1>5
<1>7. calm' => Call(w)' BY <1>1 DEF Call
<1> QED BY <1>2, <1>6, <1>7, CalmStep

LEMMA DieCalm == ASSUME SortInv, CalmInv, NEW w \in Writer, Die(w) PROVE CalmInv'
<1>1. /\ pc[w] # "idle" /\ pc'[w] = "idle" /\ \A v \in Writer : v # w => pc'[v] = pc[v]
      /\ UNCHANGED <<now, minted, kept, dated>>
      /\ calm' => pc[w] # "write" /\ file' = file /\ calm
  BY DEF Die, Goto, historyVars, SortInv, BlockSorts
<1>2. calm' => \A v \in Writer : v # w => pc[v] = "idle" /\ pc'[v] = "idle" BY <1>1, Others
<1>3. calm' => Good(file', now', minted', dated') /\ kept' \subseteq Ids(file')
  BY <1>1, <1>2, FileNow DEF Ids
<1>4. calm' => Call(w)' BY <1>1 DEF Call
<1> QED BY <1>2, <1>3, <1>4, CalmStep

LEMMA TickCalm == ASSUME SortInv, CalmInv, Tick PROVE CalmInv'
<1>1. /\ now \in Nat /\ now > 0 /\ now' = now + 1
      /\ UNCHANGED <<file, pc, req, seen, list, minted, kept, dated, calm>>
  BY BlocksAssumption DEF Tick, writerVars, historyVars, SortInv, BlockSorts, Time
<1> SUFFICES ASSUME calm PROVE CalmInv' BY <1>1 DEF CalmInv
<1>2. \A s : Good(s, now, minted, dated) => Good(s, now', minted', dated')
  BY <1>1, GoodLater
<1>3. \A w \in Writer : Call(w)'
  <2> SUFFICES ASSUME NEW w \in Writer PROVE Call(w)' OBVIOUS
  <2>1. Call(w) BY DEF CalmInv
  <2> QED BY <1>1, <1>2, <2>1 DEF Call, Ids, KeptAfter
<1>4. (\A w \in Writer : pc'[w] # "write") =>
          Good(file', now', minted', dated') /\ kept' \subseteq Ids(file')
  BY <1>1, <1>2 DEF CalmInv, Ids
<1> QED BY <1>1, <1>3, <1>4 DEF CalmInv

LEMMA StillInv == ASSUME SortInv, CalmInv, UNCHANGED blocksVars PROVE SortInv' /\ CalmInv'
BY DEF blocksVars, writerVars, historyVars, SortInv, BlockSorts, EarnedInv, CalmInv, Call, KeptAfter, Ids

-----------------------------------------------------------------------------
(* Verdicts *)

Proposal == [label : Label, users : SUBSET Contributor, outcome : Int]

VerdictEarned ==
    verdict.decision = "auto_promote" =>
        /\ Cardinality(verdict.users) >= MinSources
        /\ verdict.check # "failed"
        /\ RequireVerification => verdict.check = "passed"
        /\ verdict.self \in 0 .. 100 => verdict.outcome # NoOutcome

LEMMA PromotedFacts ==
    ASSUME NEW c \in Proposal, NEW self \in Int, NEW check \in Checks,
           Evaluate(c, self, check) = "auto_promote"
    PROVE  /\ Cardinality(c.users) >= MinSources
           /\ check # "failed" /\ (RequireVerification => check = "passed")
           /\ self \in 0 .. 100 => c.outcome # NoOutcome
<1>1. IsFiniteSet(c.users) BY ConsolidationAssumption, FS_Subset DEF Proposal
<1>2. Cardinality(c.users) \in Nat /\ MinSources \in Nat /\ AutoThreshold \in Nat
  BY <1>1, FS_CardinalityType, PromotionAssumption
<1>3. /\ Verified(check) # "failed" /\ ~(Cardinality(c.users) < MinSources)
      /\ Score(c, self) >= 100 * AutoThreshold
  BY DEF Evaluate
<1>4. check # "failed" /\ (RequireVerification => check = "passed")
  BY <1>3, PromotionAssumption DEF Verified, Checks
<1>5. ASSUME self \in 0 .. 100, c.outcome = NoOutcome PROVE FALSE
  <2> DEFINE u == Cardinality(c.users)
             f == Frequency(u, u)
  <2>1. f \in 0 .. 100
    <3>1. ((120 * u) \div (IF u < 3 THEN 3 ELSE u)) \in Int BY <1>2
    <3> HIDE DEF u
    <3>2. \A x \in Int : Clamp(x) \in 0 .. 100 BY DEF Clamp
    <3> QED BY <3>1, <3>2 DEF Frequency
  <2>2. Score(c, self) = 50 * f + 40 * 0 + 10 * self
    BY <1>5 DEF Score, WeightFreq, WeightOutcome, WeightSelf
  <2> HIDE DEF f
  <2>3. Score(c, self) <= 6000 BY <1>5, <2>1, <2>2
  <2>4. 100 * AutoThreshold > 6000 BY <1>2, ThresholdAssumption DEF WeightFreq, WeightSelf
  <2> QED BY <1>2, <1>3, <2>1, <2>2, <2>3, <2>4
<1> QED BY <1>2, <1>3, <1>4, <1>5

LEMMA CandidatesFacts ==
    ASSUME NEW m \in Memories PROVE Candidates(m) \in Seq(Proposal)
<1>1. m \in Seq(ToSet(m)) /\ \A e \in ToSet(m) : e.user \in Contributor /\ e.label \in Label
  BY ConsolidationAssumption
<1>2. /\ Len(m) \in Nat /\ DOMAIN m = 1 .. Len(m)
      /\ \A i \in DOMAIN m : m[i].user \in Contributor /\ m[i].label \in Label
  BY <1>1, LenProperties DEF ToSet, Range
<1>3. IsFiniteSet(DOMAIN m) /\ DOMAIN m \subseteq Int BY <1>2, FS_Interval
<1> DEFINE firsts == {i \in Episodes(m) :
                        Cardinality(Group(m, i)) >= 2 /\ \A j \in Group(m, i) : i <= j}
<1>4. IsFiniteSet(firsts) /\ firsts \subseteq DOMAIN m /\ firsts \subseteq Int
  <2>1. firsts \in SUBSET (DOMAIN m) BY DEF Episodes
  <2> QED BY <1>3, <2>1, FS_Subset
<1>5. ASSUME NEW i \in DOMAIN m PROVE Candidate(m, i) \in Proposal
  <2>1. {m[j].user : j \in Group(m, i)} \in SUBSET Contributor
    BY <1>2 DEF Group, Episodes
  <2>2. Correlation(m, Group(m, i)) \in Int
    <3> DEFINE linked == OutcomesOf(m, Group(m, i))
               won == {o \in linked : m[o].success}
    <3>1. linked \in SUBSET (DOMAIN m) /\ won \in SUBSET linked BY DEF OutcomesOf
    <3>2. IsFiniteSet(linked) /\ IsFiniteSet(won) BY <1>3, <3>1, FS_Subset
    <3>3. Cardinality(linked) \in Nat /\ Cardinality(won) \in Nat BY <3>2, FS_CardinalityType
    <3>4. linked # {} => Cardinality(linked) > 0 BY <3>2, <3>3, FS_EmptySet
    <3>5. linked # {} => (100 * Cardinality(won)) \div Cardinality(linked) \in Int BY <3>3, <3>4
    <3> QED BY <3>5 DEF Correlation, NoOutcome
  <2> QED BY <1>2, <1>5, <2>1, <2>2 DEF Candidate, Proposal
<1> HIDE DEF firsts
<1>6. Cardinality(firsts) \in Nat /\ \A n \in 1 .. Cardinality(firsts) : Nth(firsts, n) \in firsts
  BY <1>4, NthFacts
<1>7. \A n \in 1 .. Cardinality(firsts) : Candidate(m, Nth(firsts, n)) \in Proposal
  BY <1>4, <1>5, <1>6
<1>8. Candidates(m) = [n \in 1 .. Cardinality(firsts) |-> Candidate(m, Nth(firsts, n))]
  BY DEF Candidates, firsts
<1>9. Candidates(m) \in [1 .. Cardinality(firsts) -> Proposal] BY <1>7, <1>8
<1> QED BY <1>6, <1>9, SeqDef

-----------------------------------------------------------------------------
(* The specification *)

RunInv == entries \in Memories /\ candidates \in Seq(Proposal) /\ VerdictEarned

ConsolidationInv == SortInv /\ CalmInv /\ RunInv

LEMMA ConsolidationInvInit == ConsolidationInit => ConsolidationInv
<1> SUFFICES ASSUME ConsolidationInit PROVE ConsolidationInv OBVIOUS
<1>1. <<>> \in Seq(Blocks) /\ Indices(<<>>) = {} /\ <<>> \in Seq(Proposal)
  BY EmptySeq DEF Indices
<1>2. /\ file = <<>> /\ pc = [w \in Writer |-> "idle"] /\ req = [w \in Writer |-> NoBlock]
      /\ seen = [w \in Writer |-> NoBlock] /\ list = [w \in Writer |-> <<>>]
      /\ now = 1 /\ minted = {} /\ kept = {} /\ calm = TRUE
      /\ entries \in Memories /\ candidates = <<>> /\ verdict = Unjudged
  BY DEF ConsolidationInit, BlocksInit, Idle
<1>3. BlockSorts BY <1>1, <1>2, BlocksAssumption DEF BlockSorts, Time
<1>4. EarnedInv BY <1>1, <1>2 DEF EarnedInv
<1>5. CalmInv BY <1>2, GoodEmpty DEF CalmInv, Call, Ids
<1>6. RunInv BY <1>1, <1>2 DEF RunInv, VerdictEarned, Unjudged
<1> QED BY <1>3, <1>4, <1>5, <1>6 DEF ConsolidationInv, SortInv

LEMMA JudgeFacts ==
    ASSUME RunInv, candidates # <<>>, NEW d, Judge(d)
    PROVE  /\ VerdictEarned'
           /\ Head(candidates) \in Proposal /\ Tail(candidates) \in Seq(Proposal)
           /\ d = "auto_promote" => Cardinality(Head(candidates).users) >= MinSources
<1>1. Head(candidates) \in Proposal /\ Tail(candidates) \in Seq(Proposal)
  BY HeadTailProperties DEF RunInv
<1> DEFINE c == Head(candidates)
<1>2. PICK self \in SelfScores, check \in Checks :
        /\ d = Evaluate(c, self, check)
        /\ verdict' = [outcome |-> c.outcome, users |-> c.users,
                       self |-> self, check |-> check, decision |-> d]
  BY DEF Judge
<1> HIDE DEF c
<1>3. self \in Int /\ c \in Proposal BY <1>1, ConsolidationAssumption DEF c
<1>4. d = "auto_promote" => /\ Cardinality(c.users) >= MinSources
                            /\ check # "failed" /\ (RequireVerification => check = "passed")
                            /\ self \in 0 .. 100 => c.outcome # NoOutcome
  BY <1>2, <1>3, PromotedFacts
<1> QED BY <1>1, <1>2, <1>4 DEF VerdictEarned, c

LEMMA CallerInv ==
    ASSUME ConsolidationInv, NEW w \in Writer, Caller(w) PROVE SortInv' /\ CalmInv'
<1>1. ASSUME NEW l \in Label, Upsert(w, l, {}, FALSE) PROVE SortInv' /\ CalmInv'
  <2>1. {} \in SUBSET Contributor /\ FALSE \in BOOLEAN OBVIOUS
  <2> QED BY <1>1, <2>1, UpsertSorts, UpsertCalm DEF ConsolidationInv
<1>2. ASSUME NEW l \in Label, AppendToBlock(w, l) PROVE SortInv' /\ CalmInv'
  BY <1>2, AppendSorts, AppendCalm DEF ConsolidationInv
<1>3. ASSUME NEW l \in Label, RemoveLabel(w, l) PROVE SortInv' /\ CalmInv'
  BY <1>3, RemoveSorts, RemoveCalm DEF ConsolidationInv
<1>4. CASE CheckAppended(w) BY <1>4, CheckAppendedSorts, CheckAppendedCalm DEF ConsolidationInv
<1>5. CASE Die(w) BY <1>5, DieSorts, DieCalm DEF ConsolidationInv
<1> QED BY <1>1, <1>2, <1>3, <1>4, <1>5 DEF Caller

LEMMA SavesInv ==
    ASSUME ConsolidationInv, NEW w \in Writer, Saves(w) PROVE SortInv' /\ CalmInv'
<1>1. CASE Merge(w) BY <1>1, MergeSorts, MergeCalm DEF ConsolidationInv
<1>2. CASE TruncateFile(w) BY <1>2, TruncateSorts, TruncateCalm DEF ConsolidationInv
<1>3. CASE WriteFile(w) BY <1>3, WriteSorts, WriteCalm DEF ConsolidationInv
<1> QED BY <1>1, <1>2, <1>3 DEF Saves

LEMMA ConsolidationInvNext ==
    ConsolidationInv /\ [ConsolidationNext]_consolidationVars => ConsolidationInv'
<1> SUFFICES ASSUME ConsolidationInv, [ConsolidationNext]_consolidationVars
             PROVE  ConsolidationInv'
  OBVIOUS
<1> USE DEF ConsolidationInv
<1>1. ASSUME UNCHANGED runVars PROVE RunInv'
  BY <1>1 DEF RunInv, VerdictEarned, runVars
<1>2. ASSUME UNCHANGED blocksVars PROVE SortInv' /\ CalmInv'
  BY <1>2, StillInv
<1>3. CASE UNCHANGED consolidationVars BY <1>1, <1>2, <1>3 DEF consolidationVars
<1>4. CASE Start
  <2>1. candidates' \in Seq(Proposal) BY <1>4, CandidatesFacts DEF Start, RunInv
  <2> QED BY <1>2, <1>4, <2>1 DEF Start, RunInv, VerdictEarned
<1>5. CASE Promote
  <2> DEFINE c == Head(candidates)
  <2>1. /\ candidates # <<>> /\ Judge("auto_promote") /\ entries' = entries
        /\ Upsert(Consolidator, c.label, c.users, TRUE)
        /\ candidates' = <<>> \/ candidates' = Tail(candidates)
    BY <1>5 DEF Promote, Turn
  <2>2. /\ VerdictEarned' /\ c \in Proposal /\ Tail(candidates) \in Seq(Proposal)
        /\ Cardinality(c.users) >= MinSources
    BY <2>1, JudgeFacts
  <2>3. <<>> \in Seq(Proposal) BY EmptySeq
  <2>4. RunInv' BY <2>1, <2>2, <2>3 DEF RunInv
  <2>5. c.label \in Label /\ c.users \in SUBSET Contributor /\ Consolidator \in Writer
    BY <2>2, ConsolidationAssumption DEF Proposal
  <2> HIDE DEF c
  <2>6. SortInv' BY <2>1, <2>2, <2>5, UpsertSorts
  <2>7. CalmInv' BY <2>1, <2>5, UpsertCalm
  <2> QED BY <2>4, <2>6, <2>7
<1>6. CASE Enqueue \/ SkipCandidate
  <2>1. /\ candidates # <<>> /\ (\E d : Judge(d)) /\ candidates' = Tail(candidates)
        /\ UNCHANGED <<blocksVars, entries>>
    BY <1>6 DEF Enqueue, SkipCandidate, Turn
  <2>2. RunInv' BY <2>1, JudgeFacts DEF RunInv
  <2> QED BY <1>2, <2>1, <2>2
<1>7. CASE Finish
  BY <1>2, <1>7 DEF Finish, RunInv, VerdictEarned
<1>8. CASE DieInRun
  <2>1. Die(Consolidator) /\ Consolidator \in Writer BY <1>8, ConsolidationAssumption DEF DieInRun
  <2>2. <<>> \in Seq(Proposal) BY EmptySeq
  <2>3. RunInv' BY <1>8, <2>2 DEF DieInRun, RunInv, VerdictEarned
  <2> QED BY <2>1, <2>3, DieSorts, DieCalm
<1>9. CASE (\E w \in Writer : Saves(w)) /\ UNCHANGED runVars BY <1>1, <1>9, SavesInv
<1>10. CASE (\E w \in Writer \ {Consolidator} : Caller(w)) /\ UNCHANGED runVars
  BY <1>1, <1>10, CallerInv
<1>11. CASE Tick /\ UNCHANGED runVars BY <1>1, <1>11, TickSorts, TickCalm
<1> QED BY <1>3, <1>4, <1>5, <1>6, <1>7, <1>8, <1>9, <1>10, <1>11 DEF ConsolidationNext

LEMMA ConsolidationAlways == ConsolidationSpec => []ConsolidationInv
BY ConsolidationInvInit, ConsolidationInvNext, PTL DEF ConsolidationSpec

LEMMA SettledFile ==
    ASSUME ConsolidationInv, Settled
    PROVE  /\ Good(file, now, minted, dated) /\ kept \subseteq Ids(file)
           /\ DOMAIN file = Indices(file) /\ \A x : x \in ToSet(file) <=> \E i \in Indices(file) : x = file[i]
<1>1. Good(file, now, minted, dated) /\ kept \subseteq Ids(file)
  BY DEF ConsolidationInv, CalmInv, Settled
<1>2. DOMAIN file = Indices(file) BY BlocksOf DEF ConsolidationInv, SortInv, BlockSorts
<1> QED BY <1>1, <1>2 DEF ToSet, Range

(* While calls do not overlap and no save is cut short, supersede chains   *)
(* are whole at every moment between saves.                                *)
THEOREM ChainIsWhole == ConsolidationSpec => []ChainWhole
<1>1. ConsolidationInv => ChainWhole
  <2> SUFFICES ASSUME ConsolidationInv, Settled, NEW i \in Indices(file)
               PROVE  LET b == file[i] IN
                      /\ \A j \in DOMAIN file :
                            b.to = Current /\ file[j].to = Current /\ b.label = file[j].label => i = j
                      /\ b.superseded_by # Nobody <=> b.to # Current
                      /\ b.superseded_by # Nobody =>
                            \E c \in ToSet(file) :
                                c.id = b.superseded_by /\ c.supersedes = b.id /\ c.label = b.label
                      /\ b.supersedes # Nobody =>
                            \E c \in ToSet(file) :
                                c.id = b.supersedes /\ c.superseded_by = b.id /\ c.label = b.label
    BY SettledFile DEF ChainWhole
  <2>1. OneActive(file) /\ Mirrored(file) BY SettledFile DEF Good
  <2>2. \A j \in Indices(file) : file[j] \in ToSet(file) BY SettledFile
  <2> QED BY <2>1, <2>2, SettledFile DEF OneActive, Mirrored
<1> QED BY <1>1, ConsolidationAlways, PTL

(* ... what an upsert or append returned can still be looked up ... *)
THEOREM NothingIsForgotten == ConsolidationSpec => []NothingForgotten
<1>1. ConsolidationInv => NothingForgotten
  <2> SUFFICES ASSUME ConsolidationInv, Settled PROVE kept \subseteq {b.id : b \in ToSet(file)}
    BY DEF NothingForgotten
  <2> QED BY SettledFile DEF Ids
<1> QED BY <1>1, ConsolidationAlways, PTL

(* ... as_of() has one answer for every moment of a label nobody backdated *)
THEOREM HistoryIsWhole == ConsolidationSpec => []HistoryHasNoGap
<1>1. ConsolidationInv => HistoryHasNoGap
  <2> SUFFICES ASSUME ConsolidationInv, Settled, NEW l \in Label \ dated, NEW t \in 1 .. now,
                      \E b \in ToSet(file) : b.label = l /\ b.from <= t
               PROVE  Cardinality(AsOf(file, t, l)) = 1
    BY DEF HistoryHasNoGap
  <2>1. \E i \in Indices(file) : file[i].label = l /\ file[i].from <= t BY SettledFile
  <2>2. PICK i \in Indices(file) :
          /\ file[i].label = l /\ Believed(file[i], t)
          /\ \A j \in Indices(file) : file[j].label = l /\ Believed(file[j], t) => j = i
    BY <2>1, SettledFile DEF Good, NoGap
  <2>3. AsOf(file, t, l) = {file[i]} BY <2>2, SettledFile DEF AsOf, Believed
  <2> QED BY <2>3, FS_Singleton
<1> QED BY <1>1, ConsolidationAlways, PTL

(* ... and a policy block stays the active block of its label. *)
THEOREM PoliciesStay == ConsolidationSpec => []PolicyStays
<1>1. ConsolidationInv => PolicyStays
  <2> SUFFICES ASSUME ConsolidationInv, Settled, NEW b \in ToSet(file), b.access = "read_only"
               PROVE  b.to = Current
    BY DEF PolicyStays
  <2> QED BY SettledFile DEF Good, PoliciesActive
<1> QED BY <1>1, ConsolidationAlways, PTL

(* Whatever overlaps and however saves are cut short, a promoted block has *)
(* its sources, and a verdict to promote passed the gates.                 *)
THEOREM PromotionsAlwaysEarned == ConsolidationSpec => []PromotionsEarned
<1>1. ConsolidationInv => PromotionsEarned
  <2> SUFFICES ASSUME ConsolidationInv PROVE PromotionsEarned OBVIOUS
  <2>1. \A b \in ToSet(file) : b.auto => Cardinality(b.users) >= MinSources
    <3>1. DOMAIN file = Indices(file) BY BlocksOf DEF ConsolidationInv, SortInv, BlockSorts
    <3> QED BY <3>1 DEF ConsolidationInv, SortInv, EarnedInv, Earned, ToSet, Range
  <2>2. VerdictEarned BY DEF ConsolidationInv, RunInv
  <2> QED BY <2>1, <2>2 DEF PromotionsEarned, VerdictEarned
<1> QED BY <1>1, ConsolidationAlways, PTL

-----------------------------------------------------------------------------
(* Lists made of sets *)

(* R is a strict order of the members of S. *)
Ordered(S, R) ==
    /\ \A x \in S : <<x, x>> \notin R
    /\ \A x, y \in S : x # y => <<x, y>> \in R \/ <<y, x>> \in R
    /\ \A x, y, z \in S : <<x, y>> \in R /\ <<y, z>> \in R => <<x, z>> \in R

(* s lists the members of S in the order R. *)
Lists(s, S, R) ==
    /\ s \in Seq(S) /\ Len(s) = Cardinality(S)
    /\ \A x \in S : \E k \in 1 .. Len(s) : s[k] = x
    /\ \A k, n \in 1 .. Len(s) : k < n <=> <<s[k], s[n]>> \in R
    /\ \A k, n \in 1 .. Len(s) : s[k] = s[n] => k = n

LEMMA Arranging ==
    ASSUME NEW S, IsFiniteSet(S), NEW R, Ordered(S, R)
    PROVE  Lists(Arranged(S, R), S, R)
<1> DEFINE N == Cardinality(S)
           before(x) == {y \in S : <<y, x>> \in R}
           place == [x \in S |-> Cardinality(before(x))]
           s == Arranged(S, R)
<1>1. N \in Nat BY FS_CardinalityType
<1>2. ASSUME NEW x \in S PROVE IsFiniteSet(before(x)) /\ Cardinality(before(x)) \in 0 .. N - 1
  <2>1. before(x) \in SUBSET S /\ x \notin before(x) BY DEF Ordered
  <2>2. /\ IsFiniteSet(before(x)) /\ Cardinality(before(x)) \in Nat /\ Cardinality(before(x)) <= N
        /\ Cardinality(before(x)) = N => before(x) = S
    BY <2>1, FS_Subset, FS_CardinalityType
  <2> HIDE DEF N, before
  <2> QED BY <1>1, <2>1, <2>2
<1> DEFINE finite(x) == IsFiniteSet(before(x)) /\ Cardinality(before(x)) \in Int
<1>0. \A x \in S : finite(x)
  <2> HIDE DEF before, N
  <2> QED BY <1>1, <1>2
<1>3. ASSUME NEW x \in S, NEW y \in S, <<x, y>> \in R PROVE Cardinality(before(x)) < Cardinality(before(y))
  <2>1. before(x) \in SUBSET before(y) /\ x \in before(y) /\ x \notin before(x)
    BY <1>3 DEF Ordered
  <2>2. finite(x) /\ finite(y) BY ONLY <1>0, x \in S, y \in S
  <2>3. /\ Cardinality(before(x)) <= Cardinality(before(y))
        /\ Cardinality(before(x)) = Cardinality(before(y)) => before(x) = before(y)
    BY <2>1, <2>2, FS_Subset
  <2> HIDE DEF before
  <2> QED BY <2>1, <2>2, <2>3
<1>4. place \in [S -> 0 .. N - 1] BY <1>2
<1>5. ASSUME NEW x \in S, NEW y \in S, place[x] = place[y] PROVE x = y
  <2>1. finite(x) /\ finite(y) BY ONLY <1>0, x \in S, y \in S
  <2>3. Cardinality(before(x)) = Cardinality(before(y)) BY <1>5
  <2> HIDE DEF before, place
  <2>2. <<x, y>> \notin R /\ <<y, x>> \notin R BY <1>3, <2>1, <2>3
  <2> QED BY <2>2 DEF Ordered
<1>6. place \in Injection(S, 0 .. N - 1) BY <1>4, <1>5 DEF Injection, IsInjective
<1>7. IsFiniteSet(0 .. N - 1) /\ Cardinality(0 .. N - 1) = N BY <1>1, FS_Interval
<1>8. place \in Surjection(S, 0 .. N - 1) BY <1>6, <1>7, FS_Injection
<1>9. \A n \in 0 .. N - 1 : \E x \in S : place[x] = n BY <1>8 DEF Surjection
<1>10. s = [k \in 1 .. N |-> CHOOSE x \in S : Cardinality(before(x)) = k - 1] BY DEF Arranged
<1>11. \A x \in S : place[x] = Cardinality(before(x)) /\ place[x] \in 0 .. N - 1 BY <1>2
<1>12. ASSUME NEW k \in 1 .. N PROVE s[k] \in S /\ place[s[k]] = k - 1
  <2>1. s[k] = CHOOSE x \in S : Cardinality(before(x)) = k - 1 BY <1>10
  <2>2. k - 1 \in 0 .. N - 1 BY <1>1
  <2>3. \E x \in S : Cardinality(before(x)) = k - 1 BY <1>9, <1>11, <2>2
  <2> HIDE DEF s, before, place
  <2>4. s[k] \in S /\ Cardinality(before(s[k])) = k - 1 BY <2>1, <2>3
  <2> QED BY <1>11, <2>4
<1>13. s \in Seq(S) /\ Len(s) = N
  <2>1. s \in [1 .. N -> S] BY <1>10, <1>12
  <2> HIDE DEF s, N
  <2>2. s \in Seq(S) BY <1>1, <2>1, SeqDef
  <2>3. Len(s) = N BY <1>1, <2>1, <2>2, LenProperties
  <2> QED BY <2>2, <2>3
<1>14. \A x, y \in S : <<x, y>> \in R => place[x] < place[y] BY <1>3, <1>11
<1>15. \A x, y \in S : place[x] = place[y] => x = y BY <1>5
<1> HIDE DEF N, s, place, before
<1>16. ASSUME NEW x \in S PROVE \E k \in 1 .. N : s[k] = x
  <2>1. place[x] + 1 \in 1 .. N BY <1>1, <1>11
  <2>2. s[place[x] + 1] \in S /\ place[s[place[x] + 1]] = place[x] BY <1>11, <1>12, <2>1
  <2> QED BY <1>15, <2>1, <2>2
<1>17. ASSUME NEW k \in 1 .. N, NEW n \in 1 .. N PROVE k < n <=> <<s[k], s[n]>> \in R
  <2>1. s[k] \in S /\ s[n] \in S /\ place[s[k]] = k - 1 /\ place[s[n]] = n - 1 BY <1>12
  <2>2. <<s[k], s[n]>> \in R => k < n BY <1>1, <1>14, <2>1
  <2>3. <<s[n], s[k]>> \in R => n < k BY <1>1, <1>14, <2>1
  <2>4. s[k] = s[n] => k = n BY <1>1, <2>1
  <2>5. s[k] # s[n] => <<s[k], s[n]>> \in R \/ <<s[n], s[k]>> \in R BY <2>1 DEF Ordered
  <2> QED BY <1>1, <2>2, <2>3, <2>4, <2>5
<1>18. ASSUME NEW k \in 1 .. N, NEW n \in 1 .. N, s[k] = s[n] PROVE k = n
  BY <1>1, <1>12, <1>18
<1> QED BY <1>13, <1>16, <1>17, <1>18 DEF Lists, N, s

(* The first records of a list. *)
LEMMA Cutting ==
    ASSUME NEW S, NEW s \in Seq(S), NEW limit \in Nat
    PROVE  /\ Cut(s, limit) \in Seq(S)
           /\ Len(Cut(s, limit)) = IF limit < Len(s) THEN limit ELSE Len(s)
           /\ \A k \in 1 .. Len(Cut(s, limit)) : Cut(s, limit)[k] = s[k]
<1> DEFINE n == IF limit < Len(s) THEN limit ELSE Len(s)
<1>1. Len(s) \in Nat /\ \A k \in 1 .. Len(s) : s[k] \in S BY LenProperties
<1>2. n \in Nat /\ n <= Len(s) BY <1>1
<1>3. Cut(s, limit) = SubSeq(s, 1, n) BY DEF Cut
<1> HIDE DEF n
<1>4. /\ SubSeq(s, 1, n) \in Seq(S) /\ Len(SubSeq(s, 1, n)) = n
      /\ \A k \in 1 .. n : SubSeq(s, 1, n)[k] = s[k]
  BY <1>1, <1>2, SubSeqProperties
<1> QED BY <1>3, <1>4 DEF n

-----------------------------------------------------------------------------
(* Answers *)

(* Records, none twice. *)
Hits(hits, T) ==
    /\ hits \in Seq(T)
    /\ \A k, n \in 1 .. Len(hits) : hits[k] = hits[n] => k = n

Answered(answers, T) ==
    answers \in Seq(Seq(T)) /\ \A i \in 1 .. Len(answers) : Hits(answers[i], T)

LEMMA RankFacts ==
    ASSUME NEW T, NEW hits, Hits(hits, T), NEW x, Contains(hits, x)
    PROVE  /\ Rank(hits, x) \in 1 .. Len(hits) /\ hits[Rank(hits, x)] = x
           /\ \A k \in 1 .. Len(hits) : hits[k] = x => k = Rank(hits, x)
<1>1. DOMAIN hits = 1 .. Len(hits) BY LenProperties DEF Hits
<1>2. \E k \in DOMAIN hits : hits[k] = x BY <1>1 DEF Contains
<1>3. Rank(hits, x) \in DOMAIN hits /\ hits[Rank(hits, x)] = x BY <1>2 DEF Rank
<1> QED BY <1>1, <1>3 DEF Hits

LEMMA Earlier ==
    ASSUME NEW T, NEW hits, Hits(hits, T), NEW x, NEW y
    PROVE  Precedes(hits, x, y) <=>
               Contains(hits, x) /\ Contains(hits, y) /\ Rank(hits, x) < Rank(hits, y)
<1>1. Len(hits) \in Nat /\ DOMAIN hits = 1 .. Len(hits) BY LenProperties DEF Hits
<1>2. ASSUME NEW k \in DOMAIN hits, NEW n \in DOMAIN hits, k < n, hits[k] = x, hits[n] = y
      PROVE  Contains(hits, x) /\ Contains(hits, y) /\ Rank(hits, x) < Rank(hits, y)
  <2>1. Contains(hits, x) /\ Contains(hits, y) BY <1>1, <1>2 DEF Contains
  <2>2. k = Rank(hits, x) /\ n = Rank(hits, y) BY <1>1, <1>2, <2>1, RankFacts
  <2> QED BY <1>2, <2>1, <2>2
<1>3. ASSUME Contains(hits, x), Contains(hits, y), Rank(hits, x) < Rank(hits, y)
      PROVE  Precedes(hits, x, y)
  <2>1. /\ Rank(hits, x) \in DOMAIN hits /\ hits[Rank(hits, x)] = x
        /\ Rank(hits, y) \in DOMAIN hits /\ hits[Rank(hits, y)] = y
    BY <1>1, <1>3, RankFacts
  <2> QED BY <1>3, <2>1 DEF Precedes
<1> QED BY <1>2, <1>3 DEF Precedes

LEMMA FoundNamed ==
    ASSUME NEW T, NEW answers, Answered(answers, T)
    PROVE  /\ Len(answers) \in Nat /\ DOMAIN answers = 1 .. Len(answers)
           /\ \A x : /\ Naming(answers, x) \subseteq 1 .. Len(answers)
                     /\ x \in Found(answers) <=> Naming(answers, x) # {}
           /\ Found(answers) \subseteq T
<1>1. /\ Len(answers) \in Nat /\ DOMAIN answers = 1 .. Len(answers)
      /\ \A i \in 1 .. Len(answers) : answers[i] \in Seq(T)
  BY LenProperties DEF Answered, Hits
<1>2. ASSUME NEW i \in 1 .. Len(answers)
      PROVE  ToSet(answers[i]) \subseteq T /\ \A x : x \in ToSet(answers[i]) <=> Contains(answers[i], x)
  <2>1. DOMAIN answers[i] = 1 .. Len(answers[i]) /\ \A k \in 1 .. Len(answers[i]) : answers[i][k] \in T
    BY <1>1, LenProperties
  <2> QED BY <2>1 DEF ToSet, Contains
<1>3. \A x : Naming(answers, x) \subseteq 1 .. Len(answers) BY <1>1 DEF Naming
<1>4. \A x : x \in Found(answers) <=> \E i \in 1 .. Len(answers) : x \in ToSet(answers[i])
  BY <1>1 DEF Found
<1>5. \A x : x \in Found(answers) <=> Naming(answers, x) # {} BY <1>1, <1>2, <1>4 DEF Naming
<1>6. Found(answers) \subseteq T BY <1>2, <1>4
<1> QED BY <1>1, <1>3, <1>5, <1>6

LEMMA Image ==
    ASSUME NEW T, NEW s \in Seq(T)
    PROVE  /\ IsFiniteSet(ToSet(s)) /\ Cardinality(ToSet(s)) <= Len(s)
           /\ (\A k, n \in 1 .. Len(s) : s[k] = s[n] => k = n) => Cardinality(ToSet(s)) = Len(s)
<1>1. Len(s) \in Nat /\ DOMAIN s = 1 .. Len(s) /\ s = [k \in 1 .. Len(s) |-> s[k]] BY LenProperties
<1>2. IsFiniteSet(1 .. Len(s)) /\ Cardinality(1 .. Len(s)) = Len(s)
  <2> DEFINE n == Len(s)
  <2> HIDE DEF n
  <2>1. n \in Nat BY <1>1 DEF n
  <2>2. IsFiniteSet(1 .. n) /\ Cardinality(1 .. n) = n BY <2>1, FS_Interval
  <2> QED BY <2>2 DEF n
<1>3. s \in Surjection(1 .. Len(s), ToSet(s)) BY <1>1 DEF Surjection, ToSet
<1>4. /\ IsFiniteSet(ToSet(s)) /\ Cardinality(ToSet(s)) <= Len(s)
      /\ Cardinality(ToSet(s)) = Len(s) <=> s \in Injection(1 .. Len(s), ToSet(s))
  BY <1>2, <1>3, FS_Surjection
<1>5. ASSUME \A k, n \in 1 .. Len(s) : s[k] = s[n] => k = n
      PROVE  s \in Injection(1 .. Len(s), ToSet(s))
  BY <1>1, <1>3, <1>5 DEF Injection, Surjection, IsInjective
<1> QED BY <1>4, <1>5

LEMMA FoundFinite ==
    ASSUME NEW T, NEW answers, Answered(answers, T) PROVE IsFiniteSet(Found(answers))
<1> DEFINE n == Len(answers)
           sets == {ToSet(answers[i]) : i \in DOMAIN answers}
           f == [i \in 1 .. n |-> ToSet(answers[i])]
<1>1. n \in Nat /\ DOMAIN answers = 1 .. n BY FoundNamed
<1>2. f \in Surjection(1 .. n, sets) BY <1>1 DEF Surjection
<1>3. IsFiniteSet(1 .. n) BY <1>1, FS_Interval
<1>4. IsFiniteSet(sets) BY <1>2, <1>3, FS_Surjection
<1>5. ASSUME NEW i \in 1 .. n PROVE IsFiniteSet(ToSet(answers[i]))
  <2>1. answers[i] \in Seq(T) BY <1>5 DEF Answered, Hits
  <2> QED BY <2>1, Image
<1>6. \A U \in sets : IsFiniteSet(U) BY <1>1, <1>5
<1> HIDE DEF sets
<1>7. IsFiniteSet(UNION sets) BY <1>4, <1>6, FS_UNION
<1> QED BY <1>7 DEF Found, sets

LEMMA FirstFacts ==
    ASSUME NEW T, NEW answers, Answered(answers, T), NEW x \in Found(answers)
    PROVE  /\ First(answers, x) \in 1 .. Len(answers) /\ Contains(answers[First(answers, x)], x)
           /\ \A i \in 1 .. Len(answers) : Contains(answers[i], x) => First(answers, x) <= i
<1> DEFINE I == Naming(answers, x)
<1>1. Len(answers) \in Nat /\ DOMAIN answers = 1 .. Len(answers) /\ I \subseteq 1 .. Len(answers) /\ I # {}
  BY FoundNamed
<1>2. \E i \in I : \A j \in I : i <= j
  <2> HIDE DEF I
  <2>1. I \subseteq Nat BY <1>1
  <2>2. PICK m \in I : \A j \in I : <<j, m>> \notin OpToRel(<, Nat)
    BY <1>1, <2>1, NatLessThanWellFounded, WFMin
  <2>3. \A j \in I : ~(j < m) BY <2>1, <2>2 DEF OpToRel
  <2>4. \A j \in I : m <= j BY <2>1, <2>3
  <2> QED BY <2>4
<1>3. First(answers, x) \in I /\ \A j \in I : First(answers, x) <= j
  <2>1. First(answers, x) = CHOOSE i \in I : \A j \in I : i <= j BY DEF First
  <2> HIDE DEF I
  <2> QED BY <1>2, <2>1
<1> QED BY <1>1, <1>3 DEF Naming

LEMMA SeenFacts ==
    ASSUME NEW T, NEW answers, Answered(answers, T), NEW x \in Found(answers), NEW y \in Found(answers)
    PROVE  <<x, y>> \in Seen(answers) <=>
             LET i == First(answers, x)
                 j == First(answers, y)
             IN i < j \/ (i = j /\ Rank(answers[i], x) < Rank(answers[i], y))
BY DEF Seen

LEMMA SeenOrdered ==
    ASSUME NEW T, NEW answers, Answered(answers, T) PROVE Ordered(Found(answers), Seen(answers))
<1> DEFINE S == Found(answers)
           at(x) == First(answers, x)
           rank(x) == Rank(answers[at(x)], x)
<1>1. ASSUME NEW x \in S
      PROVE  at(x) \in Int /\ rank(x) \in Int /\ answers[at(x)][rank(x)] = x
  <2>1. at(x) \in 1 .. Len(answers) /\ Contains(answers[at(x)], x) BY FirstFacts
  <2>2. Hits(answers[at(x)], T) BY <2>1 DEF Answered
  <2>3. rank(x) \in 1 .. Len(answers[at(x)]) /\ answers[at(x)][rank(x)] = x BY <2>1, <2>2, RankFacts
  <2>4. Len(answers) \in Nat /\ Len(answers[at(x)]) \in Nat BY <2>2, FoundNamed, LenProperties DEF Hits
  <2> HIDE DEF at, rank
  <2> QED BY <2>1, <2>3, <2>4
<1>2. \A x, y \in S : <<x, y>> \in Seen(answers) <=> at(x) < at(y) \/ (at(x) = at(y) /\ rank(x) < rank(y))
  BY DEF Seen
<1> HIDE DEF S, at, rank
<1>3. \A x \in S : <<x, x>> \notin Seen(answers) BY <1>1, <1>2
<1>4. \A x, y \in S : x # y => <<x, y>> \in Seen(answers) \/ <<y, x>> \in Seen(answers) BY <1>1, <1>2
<1>5. \A x, y, z \in S : <<x, y>> \in Seen(answers) /\ <<y, z>> \in Seen(answers) => <<x, z>> \in Seen(answers)
  BY <1>1, <1>2
<1> QED BY <1>3, <1>4, <1>5 DEF Ordered, S

-----------------------------------------------------------------------------
(* Sums *)

(* Induction up to a bound, from the least counterexample. *)
LEMMA Climb ==
    ASSUME NEW n \in Nat, NEW I \in SUBSET (0 .. n), 0 \in I,
           \A i \in 1 .. n : i - 1 \in I => i \in I
    PROVE  I = 0 .. n
<1> SUFFICES ASSUME (0 .. n) \ I # {} PROVE FALSE OBVIOUS
<1>1. (0 .. n) \ I \subseteq Nat OBVIOUS
<1>2. PICK m \in (0 .. n) \ I : \A j \in (0 .. n) \ I : <<j, m>> \notin OpToRel(<, Nat)
  BY <1>1, NatLessThanWellFounded, WFMin
<1>6. m \in 0 .. n /\ m \notin I BY <1>2
<1>7. m # 0 BY <1>6
<1>3. m \in 1 .. n /\ m - 1 \in 0 .. n BY <1>6, <1>7
<1>4. m - 1 \notin I BY <1>6, <1>3
<1>5. <<m - 1, m>> \in OpToRel(<, Nat) BY <1>3 DEF OpToRel
<1> QED BY <1>2, <1>3, <1>4, <1>5

Solves(g, n, b, f) == g[0] = b /\ \A i \in 1 .. n : g[i] = f[i][g[i - 1]]

(* A recursion over 1 .. n with values in V has a solution. *)
LEMMA Solvable ==
    ASSUME NEW V, NEW n \in Nat, NEW b \in V, NEW f \in [1 .. n -> [V -> V]]
    PROVE  \E g \in [0 .. n -> V] : Solves(g, n, b, f)
<1> DEFINE I == {k \in 0 .. n : \E g \in [0 .. k -> V] : Solves(g, k, b, f)}
<1>1. 0 \in I
  <2>1. [i \in 0 .. 0 |-> b] \in [0 .. 0 -> V] OBVIOUS
  <2>2. Solves([i \in 0 .. 0 |-> b], 0, b, f) BY DEF Solves
  <2>3. 0 \in 0 .. n OBVIOUS
  <2>4. \E g \in [0 .. 0 -> V] : Solves(g, 0, b, f) BY <2>1, <2>2
  <2> QED BY <2>3, <2>4
<1>2. ASSUME NEW k \in 1 .. n, k - 1 \in I PROVE k \in I
  <2>1. PICK g \in [0 .. k - 1 -> V] : Solves(g, k - 1, b, f) BY <1>2
  <2> DEFINE h == [i \in 0 .. k |-> IF i = k THEN f[k][g[k - 1]] ELSE g[i]]
  <2>2. g[k - 1] \in V /\ f[k][g[k - 1]] \in V
    <3>1. k - 1 \in 0 .. k - 1 OBVIOUS
    <3>2. g[k - 1] \in V BY <2>1, <3>1
    <3>3. f[k] \in [V -> V] OBVIOUS
    <3> QED BY <3>2, <3>3
  <2>3. h \in [0 .. k -> V] BY <2>1, <2>2
  <2>4. h[0] = b BY <2>1 DEF Solves
  <2>5. ASSUME NEW i \in 1 .. k PROVE h[i] = f[i][h[i - 1]]
    <3>1. h[i - 1] = g[i - 1] OBVIOUS
    <3>2. CASE i = k BY <3>1, <3>2
    <3>3. CASE i # k
      <4>1. i \in 1 .. k - 1 /\ h[i] = g[i] BY <3>3
      <4> QED BY <2>1, <3>1, <4>1 DEF Solves
    <3> QED BY <3>2, <3>3
  <2>6. Solves(h, k, b, f) BY <2>4, <2>5 DEF Solves
  <2>7. k \in 0 .. n OBVIOUS
  <2> QED BY <2>3, <2>6, <2>7
<1> HIDE DEF I
<1>3. I \in SUBSET (0 .. n) BY DEF I
<1>4. I = 0 .. n BY <1>1, <1>2, <1>3, Climb
<1>5. n \in I BY <1>4
<1> QED BY <1>5 DEF I

-----------------------------------------------------------------------------
(* Fractions *)

Frac == Nat \X (Nat \ {0})
AtMost(p, q) == Below(p, q) \/ Level(p, q)

LEMMA Products ==
    ASSUME NEW a \in Nat, NEW b \in Nat, NEW c \in Nat \ {0}
    PROVE  /\ a * c \in Nat
           /\ a * c < b * c <=> a < b
           /\ a * c <= b * c <=> a <= b
OBVIOUS

LEMMA FracParts ==
    ASSUME NEW p \in Frac, NEW q \in Frac
    PROVE  /\ p[1] \in Nat /\ p[2] \in Nat \ {0} /\ p = <<p[1], p[2]>>
           /\ Below(p, q) <=> p[1] * q[2] < q[1] * p[2]
           /\ AtMost(p, q) <=> p[1] * q[2] <= q[1] * p[2]
           /\ p[1] * q[2] \in Nat /\ p[2] * q[2] \in Nat \ {0}
<1>1. p[1] \in Nat /\ p[2] \in Nat \ {0} /\ q[1] \in Nat /\ q[2] \in Nat \ {0} /\ p = <<p[1], p[2]>>
  BY DEF Frac
<1>2. p[1] * q[2] \in Nat /\ q[1] * p[2] \in Nat /\ p[2] * q[2] \in Nat \ {0}
  BY <1>1
<1> QED BY <1>1, <1>2 DEF Below, AtMost, Level

LEMMA PlusFacts ==
    ASSUME NEW p \in Frac, NEW q \in Frac
    PROVE  /\ Plus(p, q) \in Frac
           /\ Plus(p, q)[1] = p[1] * q[2] + q[1] * p[2] /\ Plus(p, q)[2] = p[2] * q[2]
<1>1. p[1] * q[2] \in Nat /\ q[1] * p[2] \in Nat /\ p[2] * q[2] \in Nat \ {0} BY FracParts
<1> QED BY <1>1 DEF Frac, Plus

LEMMA PlusNothing ==
    ASSUME NEW p \in Frac
    PROVE  <<0, 1>> \in Frac /\ Plus(p, <<0, 1>>) = p /\ Plus(<<0, 1>>, p) = p
<1>1. p[1] \in Nat /\ p[2] \in Nat /\ p = <<p[1], p[2]>> BY FracParts
<1>2. p[1] * 1 + 0 * p[2] = p[1] /\ p[2] * 1 = p[2] /\ 0 * p[2] + p[1] * 1 = p[1] /\ 1 * p[2] = p[2]
  BY <1>1
<1> QED BY <1>1, <1>2 DEF Plus, Frac

LEMMA NothingLeast == ASSUME NEW p \in Frac PROVE AtMost(<<0, 1>>, p)
<1>1. <<0, 1>> \in Frac BY DEF Frac
<1>2. p[1] \in Nat /\ p[2] \in Nat BY FracParts
<1>3. 0 * p[2] <= p[1] * 1 BY <1>2
<1> QED BY <1>1, <1>3, FracParts

LEMMA Compared ==
    ASSUME NEW p \in Frac, NEW q \in Frac
    PROVE  /\ AtMost(p, p) /\ ~Below(p, p)
           /\ Below(p, q) \/ AtMost(q, p)
           /\ Below(p, q) => ~AtMost(q, p)
           /\ AtMost(p, q) /\ AtMost(q, p) <=> Level(p, q)
BY FracParts DEF Level

(* p below q below r. *)
LEMMA Chained ==
    ASSUME NEW p \in Frac, NEW q \in Frac, NEW r \in Frac, AtMost(p, q), AtMost(q, r)
    PROVE  AtMost(p, r) /\ (Below(p, q) \/ Below(q, r) => Below(p, r))
<1> DEFINE a == p[1]  b == p[2]  c == q[1]  d == q[2]  e == r[1]  f == r[2]
<1>1. /\ a \in Nat /\ b \in Nat \ {0} /\ c \in Nat /\ d \in Nat \ {0} /\ e \in Nat /\ f \in Nat \ {0}
  BY FracParts
<1>2. a * d <= c * b /\ c * f <= e * d
  BY FracParts
<1>3. /\ Below(p, q) <=> a * d < c * b
      /\ Below(q, r) <=> c * f < e * d
      /\ Below(p, r) <=> a * f < e * b
      /\ AtMost(p, r) <=> a * f <= e * b
  BY FracParts
<1> HIDE DEF a, b, c, d, e, f
<1>4. a * d \in Nat /\ c * b \in Nat /\ c * f \in Nat /\ e * d \in Nat /\ a * f \in Nat /\ e * b \in Nat
  BY <1>1
<1>5. /\ (a * d) * f <= (c * b) * f /\ (a * d < c * b => (a * d) * f < (c * b) * f)
      /\ (c * f) * b <= (e * d) * b /\ (c * f < e * d => (c * f) * b < (e * d) * b)
  BY <1>1, <1>2, <1>4, Products
<1>6. (a * d) * f = (a * f) * d /\ (c * b) * f = (c * f) * b /\ (e * d) * b = (e * b) * d
  BY <1>1
<1>7. /\ (a * f) * d <= (e * b) * d
      /\ a * d < c * b \/ c * f < e * d => (a * f) * d < (e * b) * d
  <2> DEFINE u == (a * d) * f  v == (c * b) * f  w == (e * d) * b
  <2>1. u \in Nat /\ v \in Nat /\ w \in Nat BY <1>1, <1>4
  <2>2. u <= v /\ v <= w /\ (a * d < c * b => u < v) /\ (c * f < e * d => v < w) BY <1>5, <1>6
  <2> HIDE DEF u, v, w
  <2>3. u <= w /\ (a * d < c * b \/ c * f < e * d => u < w) BY <2>1, <2>2
  <2> QED BY <1>6, <2>3 DEF u, w
<1>8. /\ a * f <= e * b
      /\ a * d < c * b \/ c * f < e * d => a * f < e * b
  BY <1>1, <1>4, <1>7, Products
<1> QED BY <1>3, <1>8

(* Of two sums, the one of the greater terms is the greater. *)
LEMMA PlusGrows ==
    ASSUME NEW p \in Frac, NEW q \in Frac, NEW r \in Frac, NEW s \in Frac, AtMost(p, q), AtMost(r, s)
    PROVE  /\ AtMost(Plus(p, r), Plus(q, s))
           /\ Below(p, q) \/ Below(r, s) => Below(Plus(p, r), Plus(q, s))
<1> DEFINE a == p[1]  b == p[2]  c == q[1]  d == q[2]
           e == r[1]  f == r[2]  g == s[1]  h == s[2]
<1>1. /\ a \in Nat /\ b \in Nat \ {0} /\ c \in Nat /\ d \in Nat \ {0}
      /\ e \in Nat /\ f \in Nat \ {0} /\ g \in Nat /\ h \in Nat \ {0}
  BY FracParts
<1>2. a * d <= c * b /\ e * h <= g * f BY FracParts
<1>3. (Below(p, q) <=> a * d < c * b) /\ (Below(r, s) <=> e * h < g * f) BY FracParts
<1>4. /\ Below(Plus(p, r), Plus(q, s)) <=> (a * f + e * b) * (d * h) < (c * h + g * d) * (b * f)
      /\ AtMost(Plus(p, r), Plus(q, s)) <=> (a * f + e * b) * (d * h) <= (c * h + g * d) * (b * f)
  BY PlusFacts, FracParts
<1> HIDE DEF a, b, c, d, e, f, g, h
<1>5. a * d \in Nat /\ c * b \in Nat /\ e * h \in Nat /\ g * f \in Nat
      /\ f * h \in Nat \ {0} /\ b * d \in Nat \ {0}
  BY <1>1
<1> DEFINE u == (a * d) * (f * h)  v == (c * b) * (f * h)
           x == (e * h) * (b * d)  y == (g * f) * (b * d)
<1>6. /\ u <= v /\ (a * d < c * b => u < v) /\ x <= y /\ (e * h < g * f => x < y)
      /\ u \in Nat /\ v \in Nat /\ x \in Nat /\ y \in Nat
  BY <1>2, <1>5, Products
<1>7. (a * f + e * b) * (d * h) = u + x /\ (c * h + g * d) * (b * f) = v + y
  BY <1>1
<1> HIDE DEF u, v, x, y
<1>8. u + x <= v + y /\ (a * d < c * b \/ e * h < g * f => u + x < v + y) BY <1>6
<1> QED BY <1>3, <1>4, <1>7, <1>8

-----------------------------------------------------------------------------
(* Scores *)

(* g[i] is what the first i answers give x. *)
Sums(g, strategy, answers, x) ==
    /\ g[0] = <<0, 1>>
    /\ \A i \in 1 .. Len(answers) : g[i] = Plus(g[i - 1], Gain(strategy, answers[i], x))

LEMMA PointsFacts ==
    ASSUME NEW strategy, NEW n \in Nat \ {0}, NEW k \in 1 .. n, NEW m \in 1 .. n
    PROVE  /\ Points(strategy, n, k) \in Frac
           /\ k < m => Below(Points(strategy, n, m), Points(strategy, n, k))
<1>1. CASE strategy = "weighted"
  <2>1. \A j : Points(strategy, n, j) = <<n - (j - 1), n>> BY <1>1 DEF Points
  <2> DEFINE a == n - (k - 1)  b == n - (m - 1)
  <2>2. a \in Nat /\ b \in Nat /\ (k < m => b < a) OBVIOUS
  <2>3. Below(<<b, n>>, <<a, n>>) <=> b * n < a * n BY DEF Below
  <2> HIDE DEF a, b
  <2>4. b * n < a * n <=> b < a BY <2>2, Products
  <2>5. <<a, n>> \in Frac BY <2>2 DEF Frac
  <2> QED BY <2>1, <2>2, <2>3, <2>4, <2>5 DEF a, b
<1>2. CASE strategy # "weighted"
  <2>1. \A j : Points(strategy, n, j) = <<1, 60 + j>> BY <1>2 DEF Points, RrfK
  <2> QED BY <2>1 DEF Frac, Below
<1> QED BY <1>1, <1>2

LEMMA GainFacts ==
    ASSUME NEW T, NEW hits, Hits(hits, T), NEW strategy, NEW x, NEW y
    PROVE  /\ Gain(strategy, hits, x) \in Frac
           /\ Precedes(hits, x, y) => Below(Gain(strategy, hits, y), Gain(strategy, hits, x))
<1>1. Len(hits) \in Nat BY LenProperties DEF Hits
<1>2. ASSUME NEW z, Contains(hits, z)
      PROVE  /\ Gain(strategy, hits, z) = Points(strategy, Len(hits), Rank(hits, z))
             /\ Len(hits) \in Nat \ {0} /\ Rank(hits, z) \in 1 .. Len(hits)
  <2>1. Rank(hits, z) \in 1 .. Len(hits) BY <1>2, RankFacts
  <2> DEFINE n == Len(hits)
  <2> HIDE DEF n
  <2>2. n \in Nat /\ Rank(hits, z) \in 1 .. n BY <1>1, <2>1 DEF n
  <2>3. n \in Nat \ {0} BY <2>2
  <2> QED BY <1>2, <2>1, <2>3 DEF Gain, n
<1>3. Gain(strategy, hits, x) \in Frac
  <2>1. CASE Contains(hits, x) BY <1>2, <2>1, PointsFacts
  <2>2. CASE ~Contains(hits, x) BY <2>2 DEF Gain, Frac
  <2> QED BY <2>1, <2>2
<1>4. ASSUME Precedes(hits, x, y) PROVE Below(Gain(strategy, hits, y), Gain(strategy, hits, x))
  <2>1. Contains(hits, x) /\ Contains(hits, y) /\ Rank(hits, x) < Rank(hits, y) BY <1>4, Earlier
  <2> DEFINE k == Rank(hits, x)
             m == Rank(hits, y)
             n == Len(hits)
  <2>2. /\ Gain(strategy, hits, x) = Points(strategy, n, k)
        /\ Gain(strategy, hits, y) = Points(strategy, n, m)
        /\ n \in Nat \ {0} /\ k \in 1 .. n /\ m \in 1 .. n /\ k < m
    BY <1>2, <2>1
  <2> HIDE DEF k, m, n
  <2> QED BY <2>2, PointsFacts
<1> QED BY <1>3, <1>4

LEMMA ScoreSums ==
    ASSUME NEW T, NEW answers, Answered(answers, T), NEW strategy, NEW x
    PROVE  \E g \in [0 .. Len(answers) -> Frac] :
              Sums(g, strategy, answers, x) /\ FusedScore(strategy, answers, x) = g[Len(answers)]
<1> DEFINE n == Len(answers)
           gain(i) == Gain(strategy, answers[i], x)
           Sum(g) == [i \in 0 .. n |-> IF i = 0 THEN <<0, 1>> ELSE Plus(g[i - 1], gain(i))]
           sum == CHOOSE g : g = Sum(g)
           f == [i \in 1 .. n |-> [v \in Frac |-> Plus(v, gain(i))]]
<1>1. n \in Nat BY FoundNamed
<1>2. ASSUME NEW i \in 1 .. n PROVE gain(i) \in Frac
  <2>1. Hits(answers[i], T) BY DEF Answered
  <2> QED BY <2>1, GainFacts
<1>3. FusedScore(strategy, answers, x) = sum[n] BY DEF FusedScore
<1> HIDE DEF n, gain
<1>4. f \in [1 .. n -> [Frac -> Frac]] BY <1>2, PlusFacts
<1>5. \A i \in 1 .. n, v \in Frac : f[i][v] = Plus(v, gain(i)) OBVIOUS
<1> HIDE DEF f
<1>6. PICK g \in [0 .. n -> Frac] : Solves(g, n, <<0, 1>>, f)
  <2>1. <<0, 1>> \in Frac BY DEF Frac
  <2> QED BY ONLY <1>1, <1>4, <2>1, Solvable
<1>7. g[0] = <<0, 1>> /\ \A i \in 1 .. n : g[i] = Plus(g[i - 1], gain(i))
  <2>1. ASSUME NEW i \in 1 .. n PROVE g[i] = Plus(g[i - 1], gain(i))
    <3>1. g[i - 1] \in Frac /\ g[i] = f[i][g[i - 1]] BY <1>1, <1>6 DEF Solves
    <3> QED BY <1>5, <3>1
  <2> QED BY <1>6, <2>1 DEF Solves
<1>8. g = Sum(g)
  <2>1. ASSUME NEW i \in 0 .. n PROVE g[i] = IF i = 0 THEN <<0, 1>> ELSE Plus(g[i - 1], gain(i))
    <3>1. CASE i = 0 BY <1>7, <3>1
    <3>2. CASE i # 0
      <4>1. i \in 1 .. n BY <1>1, <3>2
      <4> QED BY <1>7, <3>2, <4>1
    <3> QED BY <3>1, <3>2
  <2> QED BY <1>6, <2>1
<1>9. sum = Sum(sum) BY <1>8
<1> HIDE DEF sum
<1>10. sum[0] = <<0, 1>> /\ \A i \in 1 .. n : sum[i] = Plus(sum[i - 1], gain(i))
  <2>1. \A i \in 0 .. n : sum[i] = Sum(sum)[i] BY <1>9
  <2>2. 0 \in 0 .. n /\ \A i \in 1 .. n : i \in 0 .. n /\ i # 0 BY <1>1
  <2>3. \A i \in 0 .. n : Sum(sum)[i] = IF i = 0 THEN <<0, 1>> ELSE Plus(sum[i - 1], gain(i)) OBVIOUS
  <2> HIDE DEF Sum
  <2> QED BY <2>1, <2>2, <2>3
<1>11. sum \in [0 .. n -> Frac]
  <2> DEFINE I == {i \in 0 .. n : sum[i] \in Frac}
  <2>1. 0 \in I
    <3>1. <<0, 1>> \in Frac BY ONLY DEF Frac
    <3>2. sum[0] \in Frac BY ONLY <1>10, <3>1
    <3>3. 0 \in 0 .. n BY ONLY <1>1
    <3> QED BY ONLY <3>2, <3>3 DEF I
  <2>2. ASSUME NEW i \in 1 .. n, i - 1 \in I PROVE i \in I BY <1>2, <1>10, <2>2, PlusFacts
  <2>3. I \in SUBSET (0 .. n) OBVIOUS
  <2> HIDE DEF I
  <2>4. I = 0 .. n BY <1>1, <2>1, <2>2, <2>3, Climb
  <2>5. sum = [i \in 0 .. n |-> sum[i]] BY <1>9
  <2>6. \A i \in 0 .. n : sum[i] \in Frac BY <2>4 DEF I
  <2> QED BY <2>5, <2>6
<1>12. Sums(sum, strategy, answers, x) BY <1>10 DEF Sums, n, gain
<1> QED BY <1>3, <1>11, <1>12 DEF n

(* What every answer that names y puts further ahead, has the higher score. *)
LEMMA ScoreGrows ==
    ASSUME NEW T, NEW answers, Answered(answers, T), NEW strategy, NEW x, NEW y \in Found(answers),
           \A i \in 1 .. Len(answers) : Contains(answers[i], y) => Precedes(answers[i], x, y)
    PROVE  Below(FusedScore(strategy, answers, y), FusedScore(strategy, answers, x))
<1> DEFINE n == Len(answers)
           a(i) == Gain(strategy, answers[i], x)
           b(i) == Gain(strategy, answers[i], y)
<1>1. n \in Nat BY FoundNamed
<1>2. PICK m \in 1 .. n : Contains(answers[m], y) BY FirstFacts
<1>3. ASSUME NEW i \in 1 .. n
      PROVE  a(i) \in Frac /\ b(i) \in Frac /\ AtMost(b(i), a(i)) /\ (i = m => Below(b(i), a(i)))
  <2>1. Hits(answers[i], T) BY DEF Answered
  <2>2. a(i) \in Frac /\ b(i) \in Frac BY <2>1, GainFacts
  <2>3. CASE Contains(answers[i], y)
    <3>1. Precedes(answers[i], x, y) BY <2>3
    <3>2. Below(b(i), a(i)) BY <2>1, <3>1, GainFacts
    <3> QED BY <2>2, <3>2 DEF AtMost
  <2>4. CASE ~Contains(answers[i], y)
    <3>1. b(i) = <<0, 1>> /\ i # m BY <1>2, <2>4 DEF Gain
    <3> HIDE DEF a, b
    <3>2. AtMost(<<0, 1>>, a(i)) BY <2>2, NothingLeast
    <3> QED BY <2>2, <3>1, <3>2
  <2> QED BY <2>3, <2>4
<1>4. PICK g \in [0 .. n -> Frac] : Sums(g, strategy, answers, x) /\ FusedScore(strategy, answers, x) = g[n]
  BY ScoreSums
<1>5. PICK h \in [0 .. n -> Frac] : Sums(h, strategy, answers, y) /\ FusedScore(strategy, answers, y) = h[n]
  BY ScoreSums
<1>6. /\ g[0] = <<0, 1>> /\ h[0] = <<0, 1>>
      /\ \A i \in 1 .. n : g[i] = Plus(g[i - 1], a(i)) /\ h[i] = Plus(h[i - 1], b(i))
  BY <1>4, <1>5 DEF Sums
<1> DEFINE I == {i \in 0 .. n : AtMost(h[i], g[i]) /\ (m <= i => Below(h[i], g[i]))}
<1> HIDE DEF n, a, b
<1>7. 0 \in I
  <2>1. <<0, 1>> \in Frac BY DEF Frac
  <2>2. AtMost(h[0], g[0]) BY <1>6, <2>1, NothingLeast
  <2> QED BY <1>1, <1>2, <2>2
<1>8. ASSUME NEW i \in 1 .. n, i - 1 \in I PROVE i \in I
  <2>1. g[i - 1] \in Frac /\ h[i - 1] \in Frac /\ i \in 0 .. n BY <1>1
  <2>2. AtMost(h[i - 1], g[i - 1]) /\ (m <= i - 1 => Below(h[i - 1], g[i - 1])) BY <1>8
  <2>3. g[i] = Plus(g[i - 1], a(i)) /\ h[i] = Plus(h[i - 1], b(i)) BY <1>6
  <2>4. a(i) \in Frac /\ b(i) \in Frac /\ AtMost(b(i), a(i)) /\ (i = m => Below(b(i), a(i))) BY <1>3
  <2>5. AtMost(h[i], g[i]) BY <2>1, <2>2, <2>3, <2>4, PlusGrows
  <2>6. m <= i - 1 \/ i = m => Below(h[i], g[i]) BY <2>1, <2>2, <2>3, <2>4, PlusGrows
  <2>7. m <= i => m <= i - 1 \/ i = m BY <1>1
  <2> QED BY <2>1, <2>5, <2>6, <2>7
<1>9. I \in SUBSET (0 .. n) OBVIOUS
<1> HIDE DEF I
<1>10. I = 0 .. n BY <1>1, <1>7, <1>8, <1>9, Climb
<1>11. n \in I BY <1>1, <1>10
<1>12. Below(h[n], g[n]) BY <1>1, <1>2, <1>11 DEF I
<1> QED BY <1>4, <1>5, <1>12

(* A record that one answer names has the points of its place there. *)
LEMMA ScoreOfOne ==
    ASSUME NEW T, NEW answers, Answered(answers, T), NEW strategy, NEW x,
           NEW m \in 1 .. Len(answers),
           \A i \in 1 .. Len(answers) : Contains(answers[i], x) => i = m
    PROVE  FusedScore(strategy, answers, x) = Gain(strategy, answers[m], x)
<1> DEFINE n == Len(answers)
           a(i) == Gain(strategy, answers[i], x)
<1>1. n \in Nat BY FoundNamed
<1>2. ASSUME NEW i \in 1 .. n PROVE a(i) \in Frac /\ (i # m => a(i) = <<0, 1>>)
  <2>1. Hits(answers[i], T) BY DEF Answered
  <2>2. i # m => a(i) = <<0, 1>> BY DEF Gain
  <2> QED BY <2>1, <2>2, GainFacts
<1>3. PICK g \in [0 .. n -> Frac] : Sums(g, strategy, answers, x) /\ FusedScore(strategy, answers, x) = g[n]
  BY ScoreSums
<1>4. g[0] = <<0, 1>> /\ \A i \in 1 .. n : g[i] = Plus(g[i - 1], a(i)) BY <1>3 DEF Sums
<1> DEFINE I == {i \in 0 .. n : g[i] = IF i < m THEN <<0, 1>> ELSE a(m)}
<1>5. m \in 1 .. n OBVIOUS
<1> HIDE DEF n, a
<1>6. 0 \in I
  <2>1. 0 \in 0 .. n /\ 0 < m BY <1>1, <1>5
  <2>2. g[0] = IF 0 < m THEN <<0, 1>> ELSE a(m) BY <1>4, <2>1
  <2> QED BY <2>1, <2>2
<1>7. ASSUME NEW i \in 1 .. n, i - 1 \in I PROVE i \in I
  <2>1. i \in 0 .. n /\ g[i - 1] = (IF i - 1 < m THEN <<0, 1>> ELSE a(m)) BY <1>1, <1>7
  <2>2. g[i] = Plus(g[i - 1], a(i)) /\ a(i) \in Frac /\ (i # m => a(i) = <<0, 1>>) BY <1>2, <1>4
  <2>3. a(m) \in Frac BY <1>2, <1>5
  <2>4. CASE i < m
    <3>1. i - 1 < m /\ i # m BY <1>1, <1>5, <2>4
    <3>2. <<0, 1>> \in Frac BY DEF Frac
    <3> QED BY <2>1, <2>2, <2>4, <3>1, <3>2, PlusNothing
  <2>5. CASE i = m
    <3>1. i - 1 < m /\ ~(i < m) BY <1>1, <1>5, <2>5
    <3> QED BY <2>1, <2>2, <2>3, <2>5, <3>1, PlusNothing
  <2>6. CASE m < i
    <3>1. ~(i - 1 < m) /\ ~(i < m) /\ i # m BY <1>1, <1>5, <2>6
    <3> QED BY <2>1, <2>2, <2>3, <3>1, PlusNothing
  <2> QED BY <1>1, <1>5, <2>4, <2>5, <2>6
<1>8. I \in SUBSET (0 .. n) OBVIOUS
<1> HIDE DEF I
<1>9. I = 0 .. n BY <1>1, <1>6, <1>7, <1>8, Climb
<1>10. n \in I BY <1>1, <1>9
<1>11. g[n] = a(m) BY <1>1, <1>5, <1>10 DEF I
<1> QED BY <1>3, <1>11 DEF a

-----------------------------------------------------------------------------
(* Fused answers *)

LEMMA AheadFacts ==
    ASSUME NEW T, NEW answers, Answered(answers, T), NEW strategy, NEW x \in Found(answers), NEW y \in Found(answers)
    PROVE  <<x, y>> \in Ahead(strategy, answers) <=>
             IF strategy \in {"union", "intersection"} THEN <<x, y>> \in Seen(answers)
             ELSE \/ Below(FusedScore(strategy, answers, y), FusedScore(strategy, answers, x))
                  \/ /\ Level(FusedScore(strategy, answers, y), FusedScore(strategy, answers, x))
                     /\ <<x, y>> \in Seen(answers)
BY DEF Ahead

LEMMA ScoreType ==
    ASSUME NEW T, NEW answers, Answered(answers, T), NEW strategy, NEW x
    PROVE  FusedScore(strategy, answers, x) \in Frac
<1>1. Len(answers) \in Nat BY FoundNamed
<1>2. PICK g \in [0 .. Len(answers) -> Frac] :
        Sums(g, strategy, answers, x) /\ FusedScore(strategy, answers, x) = g[Len(answers)]
  BY ScoreSums
<1> QED BY <1>1, <1>2

LEMMA AheadOrdered ==
    ASSUME NEW T, NEW answers, Answered(answers, T), NEW strategy
    PROVE  Ordered(Found(answers), Ahead(strategy, answers))
<1> DEFINE S == Found(answers)
           score(x) == FusedScore(strategy, answers, x)
           R == Seen(answers)
           A == Ahead(strategy, answers)
<1>1. Ordered(S, R) BY SeenOrdered
<1>2. CASE strategy \in {"union", "intersection"} BY <1>1, <1>2 DEF Ahead
<1>3. CASE strategy \notin {"union", "intersection"}
  <2>1. \A x, y \in S :
           <<x, y>> \in A <=>
               Below(score(y), score(x)) \/ (Level(score(y), score(x)) /\ <<x, y>> \in R)
    BY <1>3, AheadFacts
  <2>2. \A x \in S : score(x) \in Frac BY ScoreType
  <2> HIDE DEF S, score, R, A
  <2>3. ASSUME NEW x \in S PROVE <<x, x>> \notin A
    <3>1. <<x, x>> \notin R /\ score(x) \in Frac BY <1>1, <2>2 DEF Ordered
    <3> QED BY <2>1, <3>1, Compared
  <2>4. ASSUME NEW x \in S, NEW y \in S, x # y PROVE <<x, y>> \in A \/ <<y, x>> \in A
    <3>1. <<x, y>> \in R \/ <<y, x>> \in R BY <1>1, <2>4 DEF Ordered
    <3>2. score(x) \in Frac /\ score(y) \in Frac BY <2>2
    <3>3. \/ Below(score(x), score(y)) \/ Below(score(y), score(x))
          \/ Level(score(x), score(y)) /\ Level(score(y), score(x))
      BY <3>2, Compared DEF AtMost
    <3> QED BY <2>1, <3>1, <3>3
  <2>5. ASSUME NEW x \in S, NEW y \in S, NEW z \in S, <<x, y>> \in A, <<y, z>> \in A PROVE <<x, z>> \in A
    <3>1. <<x, y>> \in R /\ <<y, z>> \in R => <<x, z>> \in R BY <1>1 DEF Ordered
    <3>2. score(x) \in Frac /\ score(y) \in Frac /\ score(z) \in Frac BY <2>2
    <3>3. AtMost(score(z), score(y)) /\ AtMost(score(y), score(x)) BY <2>1, <2>5 DEF AtMost
    <3>4. /\ AtMost(score(z), score(x))
          /\ Below(score(z), score(y)) \/ Below(score(y), score(x)) => Below(score(z), score(x))
      BY <3>2, <3>3, Chained
    <3>5. ~Below(score(z), score(x)) => <<x, y>> \in R /\ <<y, z>> \in R BY <2>1, <2>5, <3>4
    <3> QED BY <2>1, <3>1, <3>4, <3>5 DEF AtMost
  <2>6. Ordered(S, A) BY <2>3, <2>4, <2>5 DEF Ordered
  <2> QED BY <2>6 DEF S, A
<1> QED BY <1>2, <1>3

LEMMA AgreedAhead ==
    ASSUME NEW T, NEW answers, Answered(answers, T), NEW strategy,
           NEW x, NEW y \in Found(answers), AgreeOn(answers, x, y)
    PROVE  x \in Found(answers) /\ <<x, y>> \in Ahead(strategy, answers)
<1>1. Len(answers) \in Nat /\ DOMAIN answers = 1 .. Len(answers) BY FoundNamed
<1>2. ASSUME NEW i \in 1 .. Len(answers), Contains(answers[i], y)
      PROVE  /\ Precedes(answers[i], x, y) /\ Contains(answers[i], x)
             /\ Rank(answers[i], x) < Rank(answers[i], y)
  <2>1. Hits(answers[i], T) BY DEF Answered
  <2>2. Precedes(answers[i], x, y) BY <1>1, <1>2 DEF AgreeOn
  <2> QED BY <2>1, <2>2, Earlier
<1> DEFINE i == First(answers, x)
           j == First(answers, y)
<1>3. j \in 1 .. Len(answers) /\ Contains(answers[j], y) BY FirstFacts
<1>4. Contains(answers[j], x) /\ Rank(answers[j], x) < Rank(answers[j], y) BY <1>2, <1>3
<1>5. x \in Found(answers)
  <2>1. j \in Naming(answers, x) BY <1>1, <1>3, <1>4 DEF Naming
  <2> QED BY <2>1, FoundNamed
<1>6. i \in 1 .. Len(answers) /\ i <= j BY <1>3, <1>4, <1>5, FirstFacts
<1>7. <<x, y>> \in Seen(answers)
  <2>1. <<x, y>> \in Seen(answers) <=> i < j \/ (i = j /\ Rank(answers[i], x) < Rank(answers[i], y))
    BY <1>5, SeenFacts
  <2> HIDE DEF i, j
  <2>2. i < j \/ i = j BY <1>1, <1>3, <1>6
  <2> QED BY <1>4, <2>1, <2>2
<1>8. Below(FusedScore(strategy, answers, y), FusedScore(strategy, answers, x))
  <2>1. \A k \in 1 .. Len(answers) : Contains(answers[k], y) => Precedes(answers[k], x, y) BY <1>2
  <2> QED BY <2>1, ScoreGrows
<1> QED BY <1>5, <1>7, <1>8, AheadFacts

(* What y is shown for, x is. *)
LEMMA AgreedKept ==
    ASSUME NEW T, NEW answers, Answered(answers, T), NEW strategy,
           NEW x, NEW y \in Kept(strategy, answers), AgreeOn(answers, x, y)
    PROVE  x \in Kept(strategy, answers) /\ <<x, y>> \in Ahead(strategy, answers)
<1>1. y \in Found(answers) BY DEF Kept
<1>2. x \in Found(answers) /\ <<x, y>> \in Ahead(strategy, answers) BY <1>1, AgreedAhead
<1>3. Len(answers) \in Nat /\ DOMAIN answers = 1 .. Len(answers)
      /\ Naming(answers, x) \subseteq 1 .. Len(answers) /\ Naming(answers, y) \subseteq 1 .. Len(answers)
  BY FoundNamed
<1>4. Naming(answers, y) \in SUBSET Naming(answers, x)
  <2> SUFFICES ASSUME NEW i \in DOMAIN answers, Contains(answers[i], y) PROVE Contains(answers[i], x)
    BY DEF Naming
  <2>1. Precedes(answers[i], x, y) BY DEF AgreeOn
  <2>2. Hits(answers[i], T) BY <1>3 DEF Answered
  <2> QED BY <2>1, <2>2, Earlier
<1>5. Cardinality(Naming(answers, y)) <= Cardinality(Naming(answers, x))
      /\ Cardinality(Naming(answers, y)) \in Nat /\ Cardinality(Naming(answers, x)) \in Nat
  <2>1. IsFiniteSet(1 .. Len(answers)) BY <1>3, FS_Interval
  <2>2. Naming(answers, x) \in SUBSET (1 .. Len(answers)) BY <1>3
  <2>3. IsFiniteSet(Naming(answers, x)) BY <2>1, <2>2, FS_Subset
  <2>4. IsFiniteSet(Naming(answers, y)) /\ Cardinality(Naming(answers, y)) <= Cardinality(Naming(answers, x))
    BY <1>4, <2>3, FS_Subset
  <2> QED BY <2>3, <2>4, FS_CardinalityType
<1>6. CASE strategy = "intersection"
  <2>1. Cardinality(Naming(answers, y)) >= 2 BY <1>6 DEF Kept, MinAgreement
  <2>2. Cardinality(Naming(answers, x)) >= 2 BY <1>5, <2>1
  <2> QED BY <1>2, <1>6, <2>2 DEF Kept, MinAgreement
<1>7. CASE strategy # "intersection" BY <1>2, <1>7 DEF Kept
<1> QED BY <1>2, <1>6, <1>7

(* The fused list before it is cut. *)
LEMMA FusedLists ==
    ASSUME NEW T, NEW answers, Answered(answers, T), NEW strategy
    PROVE  /\ Kept(strategy, answers) \in SUBSET Found(answers) /\ IsFiniteSet(Kept(strategy, answers))
           /\ Lists(Arranged(Kept(strategy, answers), Ahead(strategy, answers)),
                    Kept(strategy, answers), Ahead(strategy, answers))
<1>1. Kept(strategy, answers) \in SUBSET Found(answers) BY DEF Kept
<1>2. IsFiniteSet(Found(answers)) BY FoundFinite
<1>3. IsFiniteSet(Kept(strategy, answers)) BY <1>1, <1>2, FS_Subset
<1>4. Ordered(Kept(strategy, answers), Ahead(strategy, answers)) BY <1>1, AheadOrdered DEF Ordered
<1> QED BY <1>1, <1>3, <1>4, Arranging

(* Whatever the backends answer, and whichever share records: the fused    *)
(* list shows nothing twice and nothing that was not found, is as long as  *)
(* it may be, and keeps what the answers agree on.                         *)
LEMMA FuseFacts ==
    ASSUME NEW T, NEW answers, Answered(answers, T), NEW strategy, NEW limit \in Nat, NEW s,
           s = Fuse(strategy, answers, limit)
    PROVE  /\ s \in Seq(Found(answers))
           /\ \A k, n \in 1 .. Len(s) : s[k] = s[n] => k = n
           /\ Len(s) = LET N == Cardinality(Kept(strategy, answers)) IN IF N < limit THEN N ELSE limit
           /\ \A x, y : y \in ToSet(s) /\ AgreeOn(answers, x, y) => Precedes(s, x, y)
<1> DEFINE S == Kept(strategy, answers)
           A == Ahead(strategy, answers)
           r == Arranged(S, A)
           N == Cardinality(S)
<1>1. S \in SUBSET Found(answers) /\ IsFiniteSet(S) /\ Lists(r, S, A) BY FusedLists
<1>2. s = Cut(r, limit) BY DEF Fuse
<1>3. \A x, y : y \in S /\ AgreeOn(answers, x, y) => x \in S /\ <<x, y>> \in A BY AgreedKept
<1>4. N \in Nat BY <1>1, FS_CardinalityType
<1>5. /\ r \in Seq(S) /\ Len(r) = N
      /\ \A x \in S : \E k \in 1 .. N : r[k] = x
      /\ \A k, n \in 1 .. N : k < n <=> <<r[k], r[n]>> \in A
      /\ \A k, n \in 1 .. N : r[k] = r[n] => k = n
  BY <1>1 DEF Lists
<1> HIDE DEF r, S, A
<1>6. /\ s \in Seq(S) /\ Len(s) = IF limit < N THEN limit ELSE N
      /\ \A k \in 1 .. Len(s) : s[k] = r[k]
  <2>1. r \in Seq(S) /\ Len(r) = N BY <1>5
  <2>2. /\ Cut(r, limit) \in Seq(S) /\ Len(Cut(r, limit)) = IF limit < Len(r) THEN limit ELSE Len(r)
        /\ \A k \in 1 .. Len(Cut(r, limit)) : Cut(r, limit)[k] = r[k]
    BY ONLY limit \in Nat, <2>1, Cutting
  <2> QED BY <1>2, <2>1, <2>2
<1> HIDE DEF N
<1>7. Len(s) \in Nat /\ Len(s) <= N /\ Len(s) = IF N < limit THEN N ELSE limit BY <1>4, <1>6
<1>8. \A k, n \in 1 .. Len(s) : s[k] = s[n] => k = n BY <1>4, <1>5, <1>6, <1>7
<1>9. DOMAIN s = 1 .. Len(s) /\ (\A k \in 1 .. Len(s) : s[k] \in S) BY <1>6, LenProperties
<1>10. s \in Seq(Found(answers))
  <2>1. s \in [1 .. Len(s) -> S] BY <1>6, LenProperties
  <2>2. s \in [1 .. Len(s) -> Found(answers)] BY <1>1, <2>1
  <2> QED BY <1>7, <2>2, SeqDef
<1>11. ASSUME NEW x, NEW y, y \in ToSet(s), AgreeOn(answers, x, y) PROVE Precedes(s, x, y)
  <2>1. PICK n \in 1 .. Len(s) : s[n] = y BY <1>9, <1>11 DEF ToSet
  <2>2. y \in S /\ x \in S /\ <<x, y>> \in A BY <1>3, <1>9, <1>11, <2>1
  <2>3. PICK k \in 1 .. N : r[k] = x BY <1>5, <2>2
  <2>4. n \in 1 .. N /\ r[n] = y BY <1>4, <1>6, <1>7, <2>1
  <2>5. k < n BY <1>5, <2>2, <2>3, <2>4
  <2>6. k \in 1 .. Len(s) /\ s[k] = x BY <1>4, <1>6, <1>7, <2>1, <2>3, <2>5
  <2> QED BY <1>9, <2>1, <2>5, <2>6 DEF Precedes
<1> QED BY <1>7, <1>8, <1>10, <1>11 DEF S, N

(* No two answers share a record. *)
NoneShared(answers) ==
    \A i, j \in 1 .. Len(answers) : \A x :
        Contains(answers[i], x) /\ Contains(answers[j], x) => i = j

Heard(answers) == {i \in DOMAIN answers : answers[i] # <<>>}

(* The first place is worth the same in every answer. *)
LEMMA BestPoints ==
    ASSUME NEW strategy, NEW n \in Nat \ {0}, NEW m \in Nat \ {0}
    PROVE  /\ Points(strategy, n, 1) \in Frac
           /\ AtMost(Points(strategy, n, 1), Points(strategy, m, 1))
<1>0. Points(strategy, n, 1) \in Frac BY PointsFacts
<1>1. CASE strategy = "weighted"
  <2>1. Points(strategy, n, 1) = <<n, n>> /\ Points(strategy, m, 1) = <<m, m>> BY <1>1 DEF Points
  <2>2. n * m = m * n OBVIOUS
  <2> QED BY <1>0, <2>1, <2>2 DEF AtMost, Level
<1>2. CASE strategy # "weighted" BY <1>0, <1>2 DEF Points, RrfK, AtMost, Level
<1> QED BY <1>1, <1>2

LEMMA HeadFacts ==
    ASSUME NEW T, NEW answers, Answered(answers, T), NEW i \in Heard(answers)
    PROVE  /\ i \in 1 .. Len(answers) /\ Len(answers[i]) \in Nat \ {0} /\ Hits(answers[i], T)
           /\ Head(answers[i]) = answers[i][1] /\ Contains(answers[i], answers[i][1])
           /\ answers[i][1] \in Found(answers) /\ Rank(answers[i], answers[i][1]) = 1
<1>1. i \in 1 .. Len(answers) /\ answers[i] # <<>> /\ DOMAIN answers = 1 .. Len(answers)
  BY FoundNamed DEF Heard
<1>2. Hits(answers[i], T) /\ answers[i] \in Seq(T) BY <1>1 DEF Answered, Hits
<1> DEFINE hits == answers[i]
           n == Len(hits)
<1>3. n \in Nat /\ n # 0 BY <1>1, <1>2, LenProperties, EmptySeq DEF Hits
<1> HIDE DEF n
<1>4. n \in Nat \ {0} /\ 1 \in 1 .. n BY <1>3
<1>5. Contains(hits, hits[1]) BY <1>4 DEF Contains, n
<1>6. Rank(hits, hits[1]) = 1 BY <1>2, <1>4, <1>5, RankFacts DEF n
<1>7. hits[1] \in Found(answers)
  <2>1. i \in Naming(answers, hits[1]) BY <1>1, <1>5 DEF Naming
  <2> QED BY <2>1, FoundNamed
<1>8. Head(hits) = hits[1] BY <1>1, <1>2, HeadTailProperties
<1> QED BY <1>1, <1>2, <1>4, <1>5, <1>6, <1>7, <1>8 DEF n

(* What scores no less than a backend's best hit is another's best hit. *)
LEMMA Leads ==
    ASSUME NEW T, NEW answers, Answered(answers, T), NoneShared(answers), NEW strategy,
           NEW i \in Heard(answers), NEW x \in Found(answers),
           AtMost(FusedScore(strategy, answers, answers[i][1]), FusedScore(strategy, answers, x))
    PROVE  \E j \in Heard(answers) : x = answers[j][1]
<1>1. /\ i \in 1 .. Len(answers) /\ Len(answers[i]) \in Nat \ {0}
      /\ Contains(answers[i], answers[i][1]) /\ Rank(answers[i], answers[i][1]) = 1
  BY HeadFacts
<1>2. FusedScore(strategy, answers, answers[i][1]) = Points(strategy, Len(answers[i]), 1)
  <2>1. \A j \in 1 .. Len(answers) : Contains(answers[j], answers[i][1]) => j = i BY <1>1 DEF NoneShared
  <2>2. FusedScore(strategy, answers, answers[i][1]) = Gain(strategy, answers[i], answers[i][1])
    BY <1>1, <2>1, ScoreOfOne
  <2> QED BY <1>1, <2>2 DEF Gain
<1>3. PICK j \in 1 .. Len(answers) : Contains(answers[j], x) BY FirstFacts
<1>4. Hits(answers[j], T) BY DEF Answered
<1> DEFINE n == Len(answers[j])
           k == Rank(answers[j], x)
<1>5. k \in 1 .. n /\ answers[j][k] = x BY <1>3, <1>4, RankFacts
<1>6. n \in Nat BY <1>4, LenProperties DEF Hits
<1>7. FusedScore(strategy, answers, x) = Points(strategy, n, k)
  <2>1. \A m \in 1 .. Len(answers) : Contains(answers[m], x) => m = j BY <1>3 DEF NoneShared
  <2>2. FusedScore(strategy, answers, x) = Gain(strategy, answers[j], x) BY <2>1, ScoreOfOne
  <2> QED BY <1>3, <2>2 DEF Gain
<1>8. j \in Heard(answers)
  <2>1. DOMAIN answers = 1 .. Len(answers) BY FoundNamed
  <2>2. answers[j] # <<>>
    <3>1. Len(<<>>) = 0 OBVIOUS
    <3> HIDE DEF n, k
    <3>2. n # 0 BY <1>5, <1>6
    <3> QED BY <3>1, <3>2 DEF n
  <2> QED BY <2>1, <2>2 DEF Heard
<1> HIDE DEF n, k
<1>9. n \in Nat \ {0} /\ 1 \in 1 .. n BY <1>5, <1>6
<1> DEFINE P == Points(strategy, n, k)
           P1 == Points(strategy, n, 1)
           Q1 == Points(strategy, Len(answers[i]), 1)
<1>10. Q1 \in Frac /\ P1 \in Frac /\ AtMost(P1, Q1) BY <1>1, <1>9, BestPoints
<1>11. P \in Frac /\ (1 < k => Below(P, P1)) BY <1>5, <1>9, PointsFacts
<1>12. AtMost(Q1, P) BY <1>2, <1>7
<1> HIDE DEF P, P1, Q1
<1>13. ~Below(P, P1)
  <2> SUFFICES ASSUME Below(P, P1) PROVE FALSE OBVIOUS
  <2>1. AtMost(P, P1) BY DEF AtMost
  <2>2. Below(P, Q1) BY <1>10, <1>11, <2>1, Chained
  <2> QED BY <1>10, <1>11, <1>12, <2>2, Compared
<1>14. k = 1 BY <1>5, <1>6, <1>11, <1>13
<1> QED BY <1>5, <1>8, <1>14

LEMMA BestShown ==
    ASSUME NEW T, NEW answers, Answered(answers, T), NoneShared(answers),
           NEW strategy, strategy \notin {"union", "intersection"},
           NEW limit \in Nat, Cardinality(Heard(answers)) <= limit, NEW i \in Heard(answers)
    PROVE  Head(answers[i]) \in ToSet(Fuse(strategy, answers, limit))
<1> DEFINE S == Found(answers)
           A == Ahead(strategy, answers)
           r == Arranged(S, A)
           h == answers[i][1]
           H == Heard(answers)
           tops == {answers[j][1] : j \in H}
<1>1. Head(answers[i]) = h /\ h \in S BY HeadFacts
<1>2. Kept(strategy, answers) = S BY DEF Kept
<1>3. IsFiniteSet(S) /\ Lists(r, S, A) BY <1>2, FusedLists
<1>4. /\ r \in Seq(S)
      /\ \A x \in S : \E k \in 1 .. Len(r) : r[k] = x
      /\ \A k, n \in 1 .. Len(r) : k < n <=> <<r[k], r[n]>> \in A
      /\ \A k, n \in 1 .. Len(r) : r[k] = r[n] => k = n
  BY <1>3 DEF Lists
<1>5. Len(r) \in Nat /\ \A k \in 1 .. Len(r) : r[k] \in S BY <1>4, LenProperties
<1>6. PICK p \in 1 .. Len(r) : r[p] = h BY <1>1, <1>4
<1>7. ASSUME NEW k \in 1 .. p PROVE r[k] \in tops
  <2>1. k \in 1 .. Len(r) BY <1>5
  <2>2. r[k] \in S BY <1>5, <2>1
  <2>3. AtMost(FusedScore(strategy, answers, h), FusedScore(strategy, answers, r[k]))
    <3>1. FusedScore(strategy, answers, h) \in Frac BY ScoreType
    <3>2. CASE k = p BY <1>6, <3>1, <3>2, Compared
    <3>3. CASE k # p
      <4>1. <<r[k], h>> \in A
        <5>1. k < p BY <1>5, <3>3
        <5> HIDE DEF r, A, h
        <5> QED BY <1>4, <1>6, <2>1, <5>1
      <4> QED BY <1>1, <2>2, <4>1, AheadFacts DEF AtMost
    <3> QED BY <3>2, <3>3
  <2>4. \E j \in H : r[k] = answers[j][1]
    <3> DEFINE x == r[k]
    <3>1. /\ x \in Found(answers)
          /\ AtMost(FusedScore(strategy, answers, answers[i][1]), FusedScore(strategy, answers, x))
      BY <2>2, <2>3
    <3> HIDE DEF x
    <3>2. \E j \in Heard(answers) : x = answers[j][1] BY <3>1, Leads
    <3> QED BY <3>2 DEF x
  <2> QED BY <2>4
<1>8. IsFiniteSet(H) /\ Cardinality(H) \in Nat
  <2>1. DOMAIN answers = 1 .. Len(answers) /\ Len(answers) \in Nat BY FoundNamed
  <2>2. IsFiniteSet(DOMAIN answers) BY <2>1, FS_Interval
  <2>3. H \in SUBSET DOMAIN answers BY DEF Heard
  <2> QED BY <2>2, <2>3, FS_Subset, FS_CardinalityType
<1>9. IsFiniteSet(tops) /\ Cardinality(tops) <= Cardinality(H) /\ Cardinality(tops) \in Nat
  <2> DEFINE f == [j \in H |-> answers[j][1]]
  <2>1. f \in Surjection(H, tops) BY DEF Surjection
  <2> HIDE DEF f, H, tops
  <2> QED BY <1>8, <2>1, FS_Surjection, FS_CardinalityType
<1> HIDE DEF S, A, r, h, tops
<1>10. p <= Cardinality(tops)
  <2> DEFINE f == [k \in 1 .. p |-> r[k]]
  <2>1. \A k \in 1 .. p : k \in 1 .. Len(r) BY <1>5
  <2>2. f \in [1 .. p -> tops] BY <1>7
  <2>3. f \in Injection(1 .. p, tops) BY <1>4, <2>1, <2>2 DEF Injection, IsInjective
  <2>4. p \in Nat /\ p >= 1 BY <1>5
  <2>5. IsFiniteSet(1 .. p) /\ Cardinality(1 .. p) = p BY <2>4, FS_Interval
  <2> HIDE DEF f
  <2>6. Cardinality(1 .. p) <= Cardinality(tops) BY <1>9, <2>3, <2>5, FS_Injection
  <2> QED BY <2>5, <2>6
<1>11. p \in Nat /\ p <= limit /\ p <= Len(r) /\ p >= 1
  <2>1. Cardinality(H) <= limit OBVIOUS
  <2> HIDE DEF H
  <2> QED BY <1>5, <1>8, <1>9, <1>10, <2>1
<1>12. /\ Cut(r, limit) \in Seq(S) /\ Len(Cut(r, limit)) = IF limit < Len(r) THEN limit ELSE Len(r)
       /\ \A k \in 1 .. Len(Cut(r, limit)) : Cut(r, limit)[k] = r[k]
  BY <1>4, Cutting
<1>13. p \in 1 .. Len(Cut(r, limit)) /\ DOMAIN Cut(r, limit) = 1 .. Len(Cut(r, limit))
  BY <1>5, <1>11, <1>12, LenProperties
<1>14. h \in ToSet(Cut(r, limit)) BY <1>6, <1>12, <1>13 DEF ToSet
<1>15. Fuse(strategy, answers, limit) = Cut(r, limit) BY <1>2 DEF Fuse, r, S, A
<1> QED BY <1>1, <1>14, <1>15

LEMMA FusedFair ==
    ASSUME NEW T, NEW answers, Answered(answers, T), NoneShared(answers), Limit \in Nat,
           NEW p, p.answers = answers, p.shown = Fuse(p.fusion, answers, Limit)
    PROVE  Fair(p)
<1> DEFINE s == p.shown
           N == Cardinality(Kept(p.fusion, answers))
<1>1. /\ s \in Seq(Found(answers))
      /\ \A k, n \in 1 .. Len(s) : s[k] = s[n] => k = n
      /\ Len(s) = IF N < Limit THEN N ELSE Limit
      /\ \A x, y : y \in ToSet(s) /\ AgreeOn(answers, x, y) => Precedes(s, x, y)
  BY FuseFacts
<1>2. DOMAIN s = 1 .. Len(s) /\ \A k \in 1 .. Len(s) : s[k] \in Found(answers) BY <1>1, LenProperties
<1>3. IsInjective(s) /\ ToSet(s) \subseteq Found(answers) BY <1>1, <1>2 DEF IsInjective, ToSet
<1>4. p.fusion # "intersection" => Kept(p.fusion, answers) = Found(answers) BY DEF Kept
<1>5. ASSUME p.fusion \notin {"intersection", "union"}, Cardinality(Heard(answers)) <= Limit
      PROVE  \A i \in Heard(answers) : Head(answers[i]) \in ToSet(s)
  BY <1>5, BestShown
<1> HIDE DEF s
<1> QED BY <1>1, <1>3, <1>4, <1>5 DEF Fair, Heard, s

(* A backend asked alone shows what it found. *)
LEMMA AloneFair ==
    ASSUME NEW T, NEW hits, Hits(hits, T), Limit \in Nat, Len(hits) <= Limit,
           NEW p, p.answers = <<hits>>, p.shown = hits
    PROVE  Fair(p)
<1>1. hits \in Seq(T) /\ DOMAIN hits = 1 .. Len(hits) /\ Len(hits) \in Nat BY LenProperties DEF Hits
<1>2. DOMAIN <<hits>> = {1} /\ <<hits>>[1] = hits OBVIOUS
<1>3. Found(<<hits>>) = ToSet(hits) BY <1>2 DEF Found
<1>4. Cardinality(ToSet(hits)) = Len(hits) BY <1>1, Image DEF Hits
<1>5. IsInjective(hits) BY <1>1 DEF Hits, IsInjective
<1>6. ASSUME NEW x \in ToSet(hits), NEW y \in ToSet(hits), AgreeOn(<<hits>>, x, y)
      PROVE  Precedes(hits, x, y)
  <2>1. Contains(hits, y) BY <1>1 DEF Contains, ToSet
  <2> QED BY <1>2, <1>6, <2>1 DEF AgreeOn
<1>7. ASSUME hits # <<>> PROVE Head(hits) \in ToSet(hits)
  <2>1. Len(hits) # 0 /\ Head(hits) = hits[1] BY <1>1, <1>7, EmptySeq, HeadTailProperties
  <2>2. 1 \in 1 .. Len(hits) BY <1>1, <2>1
  <2> QED BY <1>1, <2>1, <2>2 DEF ToSet
<1>8. Len(hits) = IF Len(hits) < Limit THEN Len(hits) ELSE Limit
  <2> DEFINE n == Len(hits)
  <2>1. n \in Nat /\ n <= Limit BY <1>1
  <2> HIDE DEF n
  <2>2. n = IF n < Limit THEN n ELSE Limit BY <2>1
  <2> QED BY <2>2 DEF n
<1> QED BY <1>2, <1>3, <1>4, <1>5, <1>6, <1>7, <1>8 DEF Fair

-----------------------------------------------------------------------------
(* The memory page *)

LoomOk(l) == l \in Loom /\ l.plan.members # <<>>

OneBackend ==
    /\ \A b \in Backend : \A i \in 1 .. Len(store[b]) : store[b][i].id <= written
    /\ \A b, c \in Backend : \A i \in 1 .. Len(store[b]), j \in 1 .. Len(store[c]) :
          store[b][i].id = store[c][j].id => b = c

Held(l) == l # None => LoomOk(l)
Shown(p) == p # NoPage => Fair(p)

(* Every loom that is or will be searched is one a policy gives, no record *)
(* is in two backends, and what the pages show is fair.                    *)
PageInv ==
    /\ policy \in Policies \cup {None}
    /\ Held(loom)
    /\ \A t \in Thread : todo[t] \in {Keeping, <<"show">>} => LoomOk(built[t].loom)
    /\ OneBackend
    /\ page = [t \in Thread |-> page[t]] /\ \A t \in Thread : Shown(page[t])

LEMMA SelectedType ==
    ASSUME NEW T, NEW s \in Seq(T), NEW I \in SUBSET (1 .. Len(s))
    PROVE  Subsequence(s, I) \in Seq(T)
BY SubsequenceFacts DEF Indices

LEMMA BuiltType ==
    ASSUME NEW p \in Policies \cup {None}, NEW bad
    PROVE  Built(p, bad) \in Plan /\ Built(p, bad).members # <<>>
<1>1. ASSUME NEW b \in Backend PROVE Single(b) \in Plan /\ Single(b).members # <<>>
  <2>1. <<b>> \in Seq(Backend) /\ <<b>> # <<>> OBVIOUS
  <2> QED BY <2>1 DEF Single, Plan
<1>2. "json" \in Backend BY RecallAssumption
<1>3. CASE p = None BY <1>1, <1>2, <1>3 DEF Built
<1>4. CASE p # None
  <2>1. p \in Policy BY <1>4, PolicyAssumption
  <2> DEFINE members == Loads(p.members, bad)
  <2>2. members \in Seq(Backend)
    <3>1. p.members \in Seq(Backend) BY <2>1 DEF Policy
    <3>2. {i \in 1 .. Len(p.members) : p.members[i] \notin bad} \in SUBSET (1 .. Len(p.members)) OBVIOUS
    <3> QED BY <3>1, <3>2, SelectedType DEF Loads
  <2>3. CASE p.kind = "routed" /\ p.router = "llm" BY <1>1, <1>2, <2>3 DEF Built
  <2>4. CASE ~(p.kind = "routed" /\ p.router = "llm")
    <3> DEFINE rest == IF p.kind = "single" THEN Single(Head(members))
                       ELSE [kind |-> p.kind, members |-> members,
                             fusion |-> IF p.kind = "routed" THEN "rrf" ELSE p.fusion,
                             target |-> IF p.target = "?" \/ (p.kind = "routed" /\ p.target \in bad)
                                        THEN Head(members) ELSE p.target]
    <3>1. Built(p, bad) = IF members = <<>> THEN Single("json") ELSE rest BY <1>4, <2>4 DEF Built
    <3> HIDE DEF members
    <3>2. ASSUME members # <<>> PROVE rest \in Plan /\ rest.members # <<>>
      <4>1. Head(members) \in Backend BY <2>2, <3>2, HeadTailProperties
      <4>2. CASE p.kind = "single" BY <1>1, <4>1, <4>2
      <4>3. CASE p.kind # "single" BY <2>1, <2>2, <3>2, <4>1, <4>3 DEF Plan, Policy
      <4> QED BY <4>2, <4>3
    <3> HIDE DEF rest
    <3> QED BY <1>1, <1>2, <3>1, <3>2
  <2> QED BY <2>3, <2>4
<1> QED BY <1>3, <1>4

(* The backends that the rules name. *)
Name == {"json", "mem0", "zep", "hindsight", "letta"}

LEMMA AskedType ==
    ASSUME NEW plan \in Plan, plan.members # <<>>, NEW asked \in Asked(plan)
    PROVE  asked \in Seq(Backend) /\ asked # <<>>
<1> DEFINE m == plan.members
           present(names) == Subsequence(names, {i \in 1 .. Len(names) : Contains(m, names[i])})
<1>1. m \in Seq(Backend) /\ m # <<>> BY DEF Plan
<1>2. Len(m) \in Nat /\ DOMAIN m = 1 .. Len(m) /\ Len(m) # 0 /\ \A i \in 1 .. Len(m) : m[i] \in Backend
  BY <1>1, LenProperties, EmptySeq
<1>3. ASSUME NEW names \in Seq(Name) PROVE present(names) \in Seq(Backend)
  <2> DEFINE r == present(names)
             I == {i \in 1 .. Len(names) : Contains(m, names[i])}
  <2>1. I \in SUBSET (1 .. Len(names)) /\ r = Subsequence(names, I) OBVIOUS
  <2>3. \A i \in I : names[i] \in Backend BY <1>2 DEF Contains
  <2> HIDE DEF I, r
  <2>2. r \in Seq(Name) /\ \A k \in 1 .. Len(r) : \E i \in I : r[k] = names[i]
    <3>1. names \in Seq(Name) /\ I \subseteq Indices(names) BY <2>1 DEF Indices
    <3>2. /\ Subsequence(names, I) \in Seq(Name)
          /\ \A k \in Indices(Subsequence(names, I)) : \E i \in I : Subsequence(names, I)[k] = names[i]
      BY ONLY <3>1, SubsequenceFacts
    <3> QED BY <2>1, <3>2 DEF Indices
  <2>4. \A k \in 1 .. Len(r) : r[k] \in Backend BY <2>2, <2>3
  <2>5. r \in [1 .. Len(r) -> Backend] /\ Len(r) \in Nat BY <2>2, <2>4, LenProperties
  <2>6. r \in Seq(Backend) BY <2>5, SeqDef
  <2> QED BY <2>6 DEF r
<1>4. Ensemble \in Seq(Name) /\ \A r \in Rules : r \in Seq(Name)
  <2>1. <<"mem0", "hindsight", "json">> \in Seq(Name) BY DEF Name
  <2>2. <<"json", "mem0">> \in Seq(Name) BY DEF Name
  <2>3. <<"zep", "mem0", "hindsight">> \in Seq(Name) BY DEF Name
  <2>4. <<"hindsight", "mem0", "letta">> \in Seq(Name) BY DEF Name
  <2> QED BY <2>1, <2>2, <2>3, <2>4 DEF Ensemble, Rules
<1>5. Cut(m, 3) \in Seq(Backend) /\ Cut(m, 3) # <<>>
  <2>1. /\ Cut(m, 3) \in Seq(Backend)
        /\ Len(Cut(m, 3)) = IF 3 < Len(m) THEN 3 ELSE Len(m)
    BY <1>1, Cutting
  <2> DEFINE n == Len(m)
             c == Cut(m, 3)
  <2>2. n \in Nat /\ n # 0 /\ Len(c) = IF 3 < n THEN 3 ELSE n BY <1>2, <2>1
  <2> HIDE DEF m, n, c
  <2>3. Len(c) # 0 BY <2>2
  <2>4. Len(<<>>) = 0 OBVIOUS
  <2>5. c # <<>> BY <2>3, <2>4
  <2> QED BY <2>1, <2>5 DEF c
<1>6. CASE plan.kind # "routed" BY <1>1, <1>6 DEF Asked
<1>7. CASE plan.kind = "routed"
  <2> HIDE DEF present
  <2>1. asked \in {IF present(Ensemble) # <<>> THEN present(Ensemble) ELSE Cut(m, 3)}
                  \cup {present(r) : r \in {s \in Rules : present(s) # <<>>}}
    BY <1>7 DEF Asked, Routes, present
  <2>2. CASE asked \in {present(r) : r \in {s \in Rules : present(s) # <<>>}} BY <1>3, <1>4, <2>2
  <2>3. CASE asked = IF present(Ensemble) # <<>> THEN present(Ensemble) ELSE Cut(m, 3)
    BY <1>3, <1>4, <1>5, <2>3
  <2> QED BY <2>1, <2>2, <2>3
<1> QED BY <1>6, <1>7

IdsOf(b, u) == {store[b][i].id : i \in Mine(b, u)}

LEMMA IdsFinite ==
    ASSUME Kinds, NEW b \in Backend, NEW u PROVE IsFiniteSet(IdsOf(b, u)) /\ IdsOf(b, u) \subseteq Nat
<1>1. store[b] \in Seq(Stored) BY DEF Kinds
<1>2. DOMAIN store[b] = 1 .. Len(store[b]) /\ Len(store[b]) \in Nat
      /\ \A i \in 1 .. Len(store[b]) : store[b][i] \in Stored
  BY <1>1, LenProperties
<1>3. IsFiniteSet(DOMAIN store[b]) BY <1>2, FS_Interval
<1>4. Mine(b, u) \in SUBSET DOMAIN store[b] BY DEF Mine
<1>5. IsFiniteSet(Mine(b, u)) BY <1>3, <1>4, FS_Subset
<1> DEFINE f == [i \in Mine(b, u) |-> store[b][i].id]
<1>6. f \in Surjection(Mine(b, u), IdsOf(b, u)) BY DEF Surjection, IdsOf
<1>7. IsFiniteSet(IdsOf(b, u)) BY <1>5, <1>6, FS_Surjection
<1>8. IdsOf(b, u) \subseteq Nat BY <1>2, <1>4 DEF IdsOf, Stored
<1> QED BY <1>7, <1>8

(* What a backend answers is a list of ids of its own records. *)
LEMMA RankingFacts ==
    ASSUME Kinds, NEW b \in Backend, NEW u, NEW hits \in Rankings(b, u)
    PROVE  /\ Hits(hits, Nat) /\ Len(hits) <= Limit
           /\ \A x : Contains(hits, x) => x \in IdsOf(b, u)
<1>1. PICK S \in SUBSET IdsOf(b, u) : Cardinality(S) <= Limit /\ hits \in SetToSeqs(S)
  BY DEF Rankings, IdsOf
<1>2. IsFiniteSet(S) /\ S \subseteq Nat BY IdsFinite, FS_Subset
<1> DEFINE n == Cardinality(S)
<1>3. n \in Nat /\ n <= Limit BY <1>1, <1>2, FS_CardinalityType
<1>4. hits \in [1 .. n -> S] /\ \A i, j \in 1 .. n : i # j => hits[i] # hits[j]
  BY <1>1 DEF SetToSeqs
<1> HIDE DEF n
<1>5. hits \in Seq(Nat) /\ Len(hits) = n
  <2>1. hits \in [1 .. n -> Nat] BY <1>2, <1>4
  <2>2. hits \in Seq(Nat) BY <1>3, <2>1, SeqDef
  <2> QED BY <1>3, <2>1, <2>2, LenProperties
<1>6. Hits(hits, Nat) BY <1>4, <1>5 DEF Hits
<1>7. \A x : Contains(hits, x) => x \in IdsOf(b, u) BY <1>1, <1>4, <1>5 DEF Contains
<1> QED BY <1>3, <1>5, <1>6, <1>7

(* What one backend holds, no other does. *)
LEMMA IdsApart ==
    ASSUME Kinds, OneBackend, NEW b \in Backend, NEW c \in Backend, NEW u, NEW x,
           x \in IdsOf(b, u), x \in IdsOf(c, u)
    PROVE  b = c
<1>1. \A d \in Backend : DOMAIN store[d] = 1 .. Len(store[d]) BY LenProperties DEF Kinds
<1>2. PICK i \in 1 .. Len(store[b]) : x = store[b][i].id BY <1>1 DEF IdsOf, Mine
<1>3. PICK j \in 1 .. Len(store[c]) : x = store[c][j].id BY <1>1 DEF IdsOf, Mine
<1> QED BY <1>2, <1>3 DEF OneBackend

LEMMA AnswerFacts ==
    ASSUME Kinds, OneBackend, NEW asked \in Seq(Backend), NEW order \in Orders(asked), NEW u,
           NEW answers \in Answers(order, u)
    PROVE  Answered(answers, Nat) /\ NoneShared(answers)
<1> DEFINE S == ToSet(asked)
           n == Cardinality(S)
<1>1. S \subseteq Backend
  <2>1. DOMAIN asked = 1 .. Len(asked) /\ \A i \in 1 .. Len(asked) : asked[i] \in Backend BY LenProperties
  <2> QED BY <2>1 DEF ToSet
<1>2. n \in Nat BY Image, FS_CardinalityType
<1>3. order \in [1 .. n -> S] /\ \A i, j \in 1 .. n : i # j => order[i] # order[j]
  BY DEF Orders, SetToSeqs
<1>4. /\ DOMAIN order = 1 .. n /\ DOMAIN answers = 1 .. n /\ answers = [i \in 1 .. n |-> answers[i]]
      /\ \A i \in 1 .. n : answers[i] \in {<<>>} \cup Rankings(order[i], u)
  BY <1>3 DEF Answers
<1> HIDE DEF n, S
<1>5. ASSUME NEW i \in 1 .. n
      PROVE  /\ order[i] \in Backend /\ Hits(answers[i], Nat)
             /\ \A x : Contains(answers[i], x) => x \in IdsOf(order[i], u)
  <2>1. order[i] \in Backend BY <1>1, <1>3
  <2>2. CASE answers[i] = <<>>
    <3>1. <<>> \in Seq(Nat) /\ Len(<<>>) = 0 OBVIOUS
    <3>2. Hits(<<>>, Nat) /\ \A x : ~Contains(<<>>, x) BY <3>1 DEF Hits, Contains
    <3> QED BY <2>1, <2>2, <3>2
  <2>3. CASE answers[i] \in Rankings(order[i], u) BY <2>1, <2>3, RankingFacts
  <2> QED BY <1>4, <2>2, <2>3
<1>6. answers \in Seq(Seq(Nat)) /\ Len(answers) = n
  <2>1. \A i \in 1 .. n : answers[i] \in Seq(Nat) BY <1>5 DEF Hits
  <2>2. answers \in [1 .. n -> Seq(Nat)] BY <1>4, <2>1
  <2>3. answers \in Seq(Seq(Nat)) BY <1>2, <2>2, SeqDef
  <2> QED BY <1>2, <2>2, <2>3, LenProperties
<1>7. Answered(answers, Nat) BY <1>5, <1>6 DEF Answered
<1>8. ASSUME NEW i \in 1 .. n, NEW j \in 1 .. n, NEW x, Contains(answers[i], x), Contains(answers[j], x)
      PROVE  i = j
  <2>1. order[i] = order[j] BY <1>5, <1>8, IdsApart
  <2> QED BY <1>3, <2>1
<1> QED BY <1>6, <1>7, <1>8 DEF NoneShared

LEMMA ShowMoves ==
    ASSUME NEW s \in Programs, s # <<>>
    PROVE  /\ Head(s) = "show" => s = <<"show">>
           /\ Tail(s) = <<"show">> => s = Keeping
           /\ Tail(s) = Keeping => Head(s) = "load"
<1> USE ProgramHeads DEF Whole, Set, Running, Closing, Keeping
<1>1. CASE s = Whole BY <1>1
<1>2. CASE s = Set BY <1>2
<1>3. CASE s = Running BY <1>3
<1>4. CASE s = Closing BY <1>4
<1>5. CASE s = <<"run">> BY <1>5
<1>6. CASE s = <<"loom", "load", "keep", "show">> BY <1>6
<1>7. CASE s = <<"load", "keep", "show">> BY <1>7
<1>8. CASE s = Keeping BY <1>8
<1>9. CASE s = <<"show">> BY <1>9
<1>10. CASE s = <<"flow", "record">> BY <1>10
<1>11. CASE s = <<"record">> BY <1>11
<1>12. CASE s = <<"truncate", "write", "clear">> BY <1>12
<1>13. CASE s = <<"write", "clear">> BY <1>13
<1>14. CASE s = <<"keys", "clear">> BY <1>14
<1>15. CASE s = <<"clear">> BY <1>15
<1> QED BY <1>1, <1>2, <1>3, <1>4, <1>5, <1>6, <1>7, <1>8, <1>9, <1>10, <1>11, <1>12, <1>13, <1>14, <1>15 DEF Programs

LEMMA PageInit == Init => PageInv
<1> SUFFICES ASSUME Init PROVE PageInv OBVIOUS
<1>1. /\ policy \in Policies /\ loom = None /\ store = [b \in Backend |-> <<>>]
      /\ todo = [t \in Thread |-> <<>>] /\ page = [t \in Thread |-> NoPage]
  BY DEF Init
<1>2. \A b \in Backend : 1 .. Len(store[b]) = {} BY <1>1
<1>3. OneBackend BY <1>2 DEF OneBackend
<1>4. \A t \in Thread : todo[t] \notin {Keeping, <<"show">>} BY <1>1 DEF Keeping
<1> QED BY <1>1, <1>3, <1>4 DEF PageInv, Held, Shown

OnlyBuilt(t) == \A s \in Thread : s # t => built'[s] = built[s]

LEMMA PageStep ==
    ASSUME PageInv, LoomInv, NEW t \in Thread, NEW x,
           todo' = [todo EXCEPT ![t] = x], OnlyBuilt(t),
           x \in {Keeping, <<"show">>} => LoomOk(built'[t].loom),
           policy' \in Policies \cup {None}, Held(loom'), OneBackend',
           NEW p, page' = [page EXCEPT ![t] = p], Shown(p)
    PROVE  PageInv'
<1>1. /\ page = [s \in Thread |-> page[s]] /\ \A s \in Thread : Shown(page[s])
      /\ \A s \in Thread : todo[s] \in {Keeping, <<"show">>} => LoomOk(built[s].loom)
  BY DEF PageInv
<1>2. todo \in [Thread -> Programs] BY DEF LoomInv, LoomShape
<1>3. page' = [s \in Thread |-> page'[s]] /\ \A s \in Thread : page'[s] = IF s = t THEN p ELSE page[s]
  BY <1>1
<1>4. \A s \in Thread : Shown(page'[s]) BY <1>1, <1>3
<1>5. \A s \in Thread : todo'[s] = IF s = t THEN x ELSE todo[s] BY <1>2
<1>6. \A s \in Thread : todo'[s] \in {Keeping, <<"show">>} => LoomOk(built'[s].loom)
  BY <1>1, <1>5 DEF OnlyBuilt
<1> QED BY <1>3, <1>4, <1>6 DEF PageInv, Shown, Held

LEMMA PageStays ==
    ASSUME PageInv, LoomInv, NEW t \in Thread, NEW x,
           todo' = [todo EXCEPT ![t] = x], OnlyBuilt(t),
           x \in {Keeping, <<"show">>} => LoomOk(built'[t].loom),
           policy' \in Policies \cup {None}, Held(loom'), OneBackend', page' = page
    PROVE  PageInv'
<1>1. page = [s \in Thread |-> page[s]] /\ Shown(page[t]) BY DEF PageInv
<1>2. page' = [page EXCEPT ![t] = page[t]] BY <1>1
<1> QED BY <1>1, <1>2, PageStep

(* A record is written to one backend, under a new id. *)
LEMMA WriteApart ==
    ASSUME Kinds, OneBackend, NEW t \in Thread, NEW b, NEW e \in BOOLEAN, Write(b, t, e)
    PROVE  OneBackend'
<1> DEFINE r == [id |-> written + 1, user |-> user[t], ephemeral |-> e]
<1>1. /\ written' = written + 1 /\ written \in Nat
      /\ store' = [store EXCEPT ![b] = Append(store[b], r)]
  BY DEF Write, Kinds
<1>2. r.id = written + 1 OBVIOUS
<1>3. r \in Stored BY DEF Kinds, Stored
<1> HIDE DEF r
<1>4. ASSUME NEW c \in Backend, NEW i \in 1 .. Len(store'[c])
      PROVE  \/ i \in 1 .. Len(store[c]) /\ store'[c][i].id = store[c][i].id
             \/ c = b /\ store'[c][i].id = written + 1
  <2>1. CASE c = b
    <3>1. store'[c] = Append(store[c], r) BY <1>1, <2>1 DEF Kinds
    <3>2. store[c] \in Seq(Stored) BY DEF Kinds
    <3>3. /\ Len(store[c]) \in Nat /\ Len(store'[c]) = Len(store[c]) + 1
          /\ store'[c][Len(store[c]) + 1] = r
          /\ \A k \in 1 .. Len(store[c]) : store'[c][k] = store[c][k]
      BY <1>3, <3>1, <3>2, AppendProperties, LenProperties
    <3>4. i \in 1 .. Len(store[c]) \/ i = Len(store[c]) + 1 BY <1>4, <3>3
    <3> QED BY <1>2, <2>1, <3>3, <3>4
  <2>2. CASE c # b BY <1>1, <1>4, <2>2 DEF Kinds
  <2> QED BY <2>1, <2>2
<1>5. \A c \in Backend : \A i \in 1 .. Len(store[c]) : store[c][i].id \in Nat /\ store[c][i].id <= written
  <2> SUFFICES ASSUME NEW c \in Backend, NEW i \in 1 .. Len(store[c])
               PROVE  store[c][i].id \in Nat /\ store[c][i].id <= written OBVIOUS
  <2>1. store[c] \in Seq(Stored) BY DEF Kinds
  <2>2. store[c][i] \in Stored BY <2>1, LenProperties
  <2> QED BY <2>2 DEF Stored, OneBackend
<1>6. ASSUME NEW c \in Backend, NEW i \in 1 .. Len(store'[c]) PROVE store'[c][i].id <= written'
  BY <1>1, <1>4, <1>5, <1>6
<1>7. ASSUME NEW c \in Backend, NEW d \in Backend, NEW i \in 1 .. Len(store'[c]), NEW j \in 1 .. Len(store'[d]),
             store'[c][i].id = store'[d][j].id
      PROVE  c = d
  <2>1. CASE i \in 1 .. Len(store[c]) /\ store'[c][i].id = store[c][i].id
    <3>1. CASE j \in 1 .. Len(store[d]) /\ store'[d][j].id = store[d][j].id
      BY <1>7, <2>1, <3>1 DEF OneBackend
    <3>2. CASE d = b /\ store'[d][j].id = written + 1 BY <1>1, <1>5, <1>7, <2>1, <3>2
    <3> QED BY <1>4, <3>1, <3>2
  <2>2. CASE c = b /\ store'[c][i].id = written + 1
    <3>1. CASE j \in 1 .. Len(store[d]) /\ store'[d][j].id = store[d][j].id
      BY <1>1, <1>5, <1>7, <2>2, <3>1
    <3>2. CASE d = b /\ store'[d][j].id = written + 1 BY <2>2, <3>2
    <3> QED BY <1>4, <3>1, <3>2
  <2> QED BY <1>4, <2>1, <2>2
<1> QED BY <1>6, <1>7 DEF OneBackend

LEMMA OneBackendStays == ASSUME OneBackend, UNCHANGED <<store, written>> PROVE OneBackend'
BY DEF OneBackend

LEMMA PageNow ==
    ASSUME PageInv, UNCHANGED <<store, written>>
    PROVE  policy \in Policies \cup {None} /\ Held(loom) /\ OneBackend'
BY OneBackendStays DEF PageInv

LEMMA RequestPage == ASSUME PageInv, LoomInv, NEW t \in Thread, Request(t) PROVE PageInv'
<1>1. PICK x \in {Whole, <<"run">>, <<"loom", "load", "keep", "show">>, <<"flow", "record">>,
                  <<"truncate", "write", "clear">>, <<"keys", "clear">>} :
        /\ todo' = [todo EXCEPT ![t] = x] /\ page' = [page EXCEPT ![t] = NoPage]
        /\ UNCHANGED <<policy, loom, store, built, written>>
  BY DEF Request, Chat, OpenPage, Flow, Settings, Begin, shared, Whole
<1>2. x \notin {Keeping, <<"show">>} BY <1>1 DEF Whole, Keeping
<1>3. OnlyBuilt(t) BY <1>1 DEF OnlyBuilt
<1>4. policy' \in Policies \cup {None} /\ Held(loom') /\ OneBackend' BY <1>1, PageNow
<1>5. Shown(NoPage) BY DEF Shown
<1> QED BY <1>1, <1>2, <1>3, <1>4, <1>5, PageStep

(* A step of a chat or a flow's record: no loom changes hands. *)
LEMMA PlainPage ==
    ASSUME PageInv, LoomInv, NEW t \in Thread, NEW step, At(t, step),
           step \notin {"load", "keep"}, Continue(t), OnlyBuilt(t),
           policy' \in Policies \cup {None}, Held(loom'), OneBackend',
           NEW p, page' = [page EXCEPT ![t] = p], Shown(p)
    PROVE  PageInv'
<1>1. todo[t] \in Programs /\ Moves(todo[t]) /\ Head(todo[t]) = step BY AtStep
<1>2. todo[t] # <<>> BY DEF At, Busy
<1>3. Tail(todo[t]) # <<"show">>
  <2>1. Head(Keeping) = "keep" BY ProgramHeads
  <2> QED BY <1>1, <1>2, <2>1, ShowMoves
<1>4. Tail(todo[t]) # Keeping
  BY <1>1, <1>2, ShowMoves
<1>5. todo' = [todo EXCEPT ![t] = Tail(todo[t])] BY DEF Continue
<1> QED BY <1>3, <1>4, <1>5, PageStep

LEMMA ChatPage ==
    ASSUME Kinds, PageInv, LoomInv, NEW t \in Thread,
           \/ SaveMode(t) \/ SetMode(t) \/ Answer(t) \/ Restore(t) \/ RecordEpisode(t)
           \/ Truncate(t) \/ WritePolicy(t) \/ SaveKeys(t) \/ Clear(t) \/ RunFlow(t)
    PROVE  PageInv'
<1>1. PICK step \in Steps \ {"load", "keep"} : At(t, step) /\ Continue(t)
  BY DEF SaveMode, SetMode, Answer, Restore, RecordEpisode, Truncate, WritePolicy, SaveKeys, Clear, RunFlow, Steps
<1>2. page' = page /\ OnlyBuilt(t)
  <2>1. CASE RunFlow(t) BY <2>1 DEF RunFlow, OnlyBuilt, LoomInv, LoomShape
  <2>2. CASE ~RunFlow(t)
    BY <2>2 DEF SaveMode, SetMode, Answer, Restore, RecordEpisode, Truncate, WritePolicy, SaveKeys, Clear,
                registers, OnlyBuilt
  <2> QED BY <2>1, <2>2
<1>3. page' = [page EXCEPT ![t] = page[t]] /\ Shown(page[t]) BY <1>2 DEF PageInv
<1>4. OneBackend'
  <2>1. CASE RecordEpisode(t)
    <3>1. CASE UNCHANGED <<store, written>> BY <3>1, OneBackendStays DEF PageInv
    <3>2. PICK b : Write(b, t, FALSE) \/ UNCHANGED <<store, written>> BY <2>1 DEF RecordEpisode
    <3> QED BY <3>1, <3>2, WriteApart DEF PageInv
  <2>2. CASE ~RecordEpisode(t)
    <3>1. UNCHANGED <<store, written>>
      BY <2>2 DEF SaveMode, SetMode, Answer, Restore, Truncate, WritePolicy, SaveKeys, Clear, RunFlow, shared, bounds
    <3> QED BY <3>1, OneBackendStays DEF PageInv
  <2> QED BY <2>1, <2>2
<1>5. policy' \in Policies \cup {None}
  <2>1. policy \in Policies \cup {None} BY DEF PageInv
  <2>2. CASE WritePolicy(t) BY <2>2 DEF WritePolicy
  <2>3. CASE Truncate(t) BY <2>3 DEF Truncate
  <2>4. CASE ~WritePolicy(t) /\ ~Truncate(t)
    BY <2>1, <2>4 DEF SaveMode, SetMode, Answer, Restore, RecordEpisode, SaveKeys, Clear, RunFlow, shared
  <2> QED BY <2>2, <2>3, <2>4
<1>6. Held(loom')
  <2>1. Held(loom) BY DEF PageInv
  <2>2. loom' \in {loom, None}
    BY DEF SaveMode, SetMode, Answer, Restore, RecordEpisode, Truncate, WritePolicy, SaveKeys, Clear, RunFlow, shared
  <2> QED BY <2>1, <2>2 DEF Held
<1> QED BY <1>1, <1>2, <1>3, <1>4, <1>5, <1>6, PlainPage

LEMMA RememberPage == ASSUME Kinds, PageInv, LoomInv, NEW t \in Thread, Remember(t) PROVE PageInv'
<1>1. UNCHANGED <<policy, loom, todo, built, page>> BY DEF Remember
<1>2. OneBackend'
  <2>1. CASE UNCHANGED <<store, written>> BY <2>1, OneBackendStays DEF PageInv
  <2>2. CASE Write("json", t, ephemeral[t])
    <3>1. ephemeral[t] \in BOOLEAN BY DEF Kinds
    <3> QED BY <2>2, <3>1, WriteApart DEF PageInv
  <2> QED BY <2>1, <2>2 DEF Remember
<1> QED BY <1>1, <1>2 DEF PageInv, Held, Shown

LEMMA GetLoomPage == ASSUME PageInv, LoomInv, NEW t \in Thread, GetLoom(t) PROVE PageInv'
<1>1. /\ At(t, "loom") /\ UNCHANGED <<policy, loom, store, written, page>>
      /\ built' = [built EXCEPT ![t] = [cache |-> cache, loom |-> loom]]
      /\ todo' = [todo EXCEPT ![t] = IF loom = None THEN Tail(todo[t]) ELSE <<"show">>]
  BY DEF GetLoom, shared, bounds
<1>2. OnlyBuilt(t) /\ built'[t].loom = loom BY <1>1 DEF OnlyBuilt, LoomInv, LoomShape
<1>3. policy' \in Policies \cup {None} /\ Held(loom') /\ OneBackend' BY <1>1, PageNow
<1>4. todo[t] \in Programs /\ Moves(todo[t]) /\ Head(todo[t]) = "loom" /\ todo[t] # <<>>
  BY <1>1, AtStep DEF At, Busy
<1>5. Tail(todo[t]) \notin {Keeping, <<"show">>}
  <2>1. Head(Keeping) = "keep" BY ProgramHeads
  <2> QED BY <1>4, <2>1, ShowMoves
<1> DEFINE x == IF loom = None THEN Tail(todo[t]) ELSE <<"show">>
<1>6. x \in {Keeping, <<"show">>} => LoomOk(built'[t].loom)
  <2>1. CASE loom = None BY <1>5, <2>1
  <2>2. CASE loom # None BY <1>2, <2>2 DEF PageInv, Held
  <2> QED BY <2>1, <2>2
<1>7. todo' = [todo EXCEPT ![t] = x] BY <1>1
<1> HIDE DEF x
<1> QED BY <1>1, <1>2, <1>3, <1>6, <1>7, PageStays

LEMMA LoadPage == ASSUME Kinds, PageInv, LoomInv, NEW t \in Thread, Load(t) PROVE PageInv'
<1> DEFINE l == [user |-> user[t], plan |-> Built(policy, broken)]
<1>1. /\ At(t, "load") /\ Continue(t) /\ UNCHANGED <<policy, loom, store, written, page>>
      /\ built' = [built EXCEPT ![t].loom = l]
  BY DEF Load, shared, bounds
<1>2. LoomOk(l)
  <2>1. Built(policy, broken) \in Plan /\ Built(policy, broken).members # <<>> BY BuiltType DEF PageInv
  <2>2. user[t] \in User BY DEF Kinds
  <2> QED BY <2>1, <2>2 DEF LoomOk, Loom
<1> HIDE DEF l
<1>3. OnlyBuilt(t) /\ built'[t].loom = l BY <1>1 DEF OnlyBuilt, LoomInv, LoomShape
<1>4. policy' \in Policies \cup {None} /\ Held(loom') /\ OneBackend' BY <1>1, PageNow
<1>5. todo' = [todo EXCEPT ![t] = Tail(todo[t])] BY <1>1 DEF Continue
<1> QED BY <1>1, <1>2, <1>3, <1>4, <1>5, PageStays

LEMMA KeepPage == ASSUME PageInv, LoomInv, NEW t \in Thread, Keep(t) PROVE PageInv'
<1>1. /\ At(t, "keep") /\ Continue(t) /\ UNCHANGED <<policy, store, written, page, built>>
      /\ loom' \in {built[t].loom, loom}
  BY DEF Keep, registers, bounds
<1>2. todo[t] = Keeping BY <1>1, AtStep DEF Moves
<1>3. LoomOk(built[t].loom) /\ Held(loom) BY <1>2 DEF PageInv
<1>4. Held(loom') BY <1>1, <1>3 DEF Held
<1>5. OnlyBuilt(t) BY <1>1 DEF OnlyBuilt
<1>6. policy' \in Policies \cup {None} /\ OneBackend' BY <1>1, PageNow
<1>7. todo' = [todo EXCEPT ![t] = Tail(todo[t])] BY <1>1 DEF Continue
<1> QED BY <1>1, <1>3, <1>4, <1>5, <1>6, <1>7, PageStays

LEMMA ShowPage == ASSUME Kinds, PageInv, LoomInv, NEW t \in Thread, Show(t) PROVE PageInv'
<1> DEFINE m == built[t].loom
<1>1. /\ At(t, "show") /\ Continue(t) /\ UNCHANGED <<policy, loom, store, built, written>>
      /\ \E asked \in Asked(m.plan) :
            IF m.plan.kind = "composite" \/ Len(asked) > 1
            THEN \E order \in Orders(asked) : \E answers \in Answers(order, m.user) :
                   page' = [page EXCEPT ![t] =
                     [of |-> m.user, fusion |-> m.plan.fusion, answers |-> answers,
                      shown |-> Fuse(m.plan.fusion, answers, Limit)]]
            ELSE \/ \E hits \in Rankings(asked[1], m.user) :
                      page' = [page EXCEPT ![t] =
                        [of |-> m.user, fusion |-> "rrf", answers |-> <<hits>>, shown |-> hits]]
                 \/ UNCHANGED page
  BY DEF Show, shared, bounds
<1>2. LoomOk(m)
  <2>1. todo[t] = <<"show">> BY <1>1, AtStep, ShowMoves DEF At, Busy
  <2> QED BY <2>1 DEF PageInv
<1> HIDE DEF m
<1>3. m.plan \in Plan /\ m.plan.members # <<>> BY <1>2 DEF LoomOk, Loom
<1>4. Limit \in Nat BY RecallAssumption
<1>5. OneBackend BY DEF PageInv
<1>6. \E p : page' = [page EXCEPT ![t] = p] /\ Shown(p)
  <2>1. PICK asked \in Asked(m.plan) :
            IF m.plan.kind = "composite" \/ Len(asked) > 1
            THEN \E order \in Orders(asked) : \E answers \in Answers(order, m.user) :
                   page' = [page EXCEPT ![t] =
                     [of |-> m.user, fusion |-> m.plan.fusion, answers |-> answers,
                      shown |-> Fuse(m.plan.fusion, answers, Limit)]]
            ELSE \/ \E hits \in Rankings(asked[1], m.user) :
                      page' = [page EXCEPT ![t] =
                        [of |-> m.user, fusion |-> "rrf", answers |-> <<hits>>, shown |-> hits]]
                 \/ UNCHANGED page
    BY <1>1
  <2>2. asked \in Seq(Backend) /\ asked # <<>> BY <1>3, AskedType
  <2>3. CASE UNCHANGED page
    <3>1. page' = [page EXCEPT ![t] = page[t]] /\ Shown(page[t]) BY <2>3 DEF PageInv
    <3> QED BY <3>1
  <2>4. ASSUME NEW order \in Orders(asked), NEW answers \in Answers(order, m.user),
               page' = [page EXCEPT ![t] =
                 [of |-> m.user, fusion |-> m.plan.fusion, answers |-> answers,
                  shown |-> Fuse(m.plan.fusion, answers, Limit)]]
        PROVE  \E p : page' = [page EXCEPT ![t] = p] /\ Shown(p)
    <3> DEFINE p == [of |-> m.user, fusion |-> m.plan.fusion, answers |-> answers,
                     shown |-> Fuse(m.plan.fusion, answers, Limit)]
    <3>1. Answered(answers, Nat) /\ NoneShared(answers) BY <1>5, <2>2, AnswerFacts
    <3>2. p.answers = answers /\ p.shown = Fuse(p.fusion, answers, Limit) OBVIOUS
    <3>3. page' = [page EXCEPT ![t] = p] BY <2>4
    <3> HIDE DEF p
    <3>4. Fair(p) BY <1>4, <3>1, <3>2, FusedFair
    <3> QED BY <3>3, <3>4 DEF Shown
  <2>5. ASSUME NEW hits \in Rankings(asked[1], m.user),
               page' = [page EXCEPT ![t] =
                 [of |-> m.user, fusion |-> "rrf", answers |-> <<hits>>, shown |-> hits]]
        PROVE  \E p : page' = [page EXCEPT ![t] = p] /\ Shown(p)
    <3> DEFINE p == [of |-> m.user, fusion |-> "rrf", answers |-> <<hits>>, shown |-> hits]
    <3>1. asked[1] \in Backend
      <4>1. Len(asked) \in Nat \ {0} BY <2>2, EmptySeq
      <4> QED BY <2>2, <4>1, LenProperties
    <3>2. Hits(hits, Nat) /\ Len(hits) <= Limit BY <3>1, RankingFacts
    <3>3. p.answers = <<hits>> /\ p.shown = hits OBVIOUS
    <3>4. page' = [page EXCEPT ![t] = p] BY <2>5
    <3> HIDE DEF p
    <3>5. Fair(p) BY <1>4, <3>2, <3>3, AloneFair
    <3> QED BY <3>4, <3>5 DEF Shown
  <2> QED BY <2>1, <2>3, <2>4, <2>5
<1>7. OnlyBuilt(t) BY <1>1 DEF OnlyBuilt
<1>8. policy' \in Policies \cup {None} /\ Held(loom') /\ OneBackend' BY <1>1, PageNow
<1> QED BY <1>1, <1>6, <1>7, <1>8, PlainPage

LEMMA PageNext == Kinds /\ LoomInv /\ PageInv /\ [Next]_vars => PageInv'
<1> SUFFICES ASSUME Kinds, LoomInv, PageInv, [Next]_vars PROVE PageInv' OBVIOUS
<1>1. CASE UNCHANGED vars
  BY <1>1, OneBackendStays DEF vars, shared, registers, bounds, PageInv, Held, Shown
<1>2. ASSUME NEW t \in Thread, Step(t) PROVE PageInv'
  BY <1>2, ChatPage, RememberPage, GetLoomPage, LoadPage, KeepPage, ShowPage DEF Step
<1> QED BY <1>1, <1>2, RequestPage DEF Next

(* A memory page keeps the order its backends agree on, shows nothing      *)
(* twice or unfound, is filled unless agreement is asked for, and has each *)
(* backend's best hit if ranks are weighed and there is room for them.     *)
THEOREM FairlyFusedAlways == Spec => []FairlyFused
<1>1. Spec => []Kinds BY KindsInit, KindsNext, PTL DEF Spec
<1>2. Spec => []LoomInv BY LoomInit, LoomNext, PTL DEF Spec
<1>3. PageInv => FairlyFused BY DEF PageInv, FairlyFused, Shown
<1> QED BY <1>1, <1>2, <1>3, PageInit, PageNext, PTL DEF Spec
=============================================================================
