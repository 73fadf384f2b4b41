-------------------------------- MODULE Recall --------------------------------
(***************************************************************************)
(* The personal memory (layer 1) as the Streamlit app and flows use it:    *)
(* praxia/memory/{personal,policy,composite,router}.py and the JSON        *)
(* backend, praxia/core/orchestrator.py, and the chat, memory page and     *)
(* settings of praxia/ui/app.py.                                           *)
(*                                                                         *)
(* The scripts of all sessions are threads of one process.  They share its *)
(* environment, in which an ephemeral chat sets PRAXIA_MEMORY_MODE for as  *)
(* long as its agent runs, and one cached orchestrator, the loom, which    *)
(* the settings drop after they save a policy or credentials.  A flow runs *)
(* in a process of its own with a loom of its own; processes share the     *)
(* policy file and the backends.                                           *)
(*                                                                         *)
(* Streamlit's cache leaves arguments that start with an underscore out of *)
(* its key: there is one entry, whoever asks.  Clearing it replaces the    *)
(* cache, so that a loom computed meanwhile lands in a dead one.           *)
(***************************************************************************)
EXTENDS Fusion, Selection

CONSTANTS
    Thread, User,
    Backend,     \* names of backends that are installed, "json" among them
    Policies,    \* policies that admins choose from, see Policy
    None,        \* no loom, no policy file content
    Limit,       \* how many records a search asks for
    MaxOps,      \* bound on the operations begun
    MaxRecords   \* bound on the records written

ASSUME RecallAssumption ==
    /\ "json" \in Backend
    /\ Limit \in Nat \ {0}
    /\ MaxOps \in Nat /\ MaxRecords \in Nat

VARIABLES
    mode,       \* PRAXIA_MEMORY_MODE of the app's process
    policy,     \* memory_policy.json; None when it does not parse
    broken,     \* backends that fail to load: a key or a package is missing
    loom,       \* the cached orchestrator's memory, or None
    cache,      \* how often the cache was cleared
    store,      \* each backend's records
    todo,       \* what each thread still has to do
    user,       \* for whom
    ephemeral,  \* whether its chat is an ephemeral one
    saved,      \* the mode it found
    agent,      \* the mode of its agent's memory, built at the first tool call
    built,      \* the memory it built or was given, and for which cache
    page,       \* what its memory page was answered and shows
    begun, written,
    configured, \* history: the mode the operator set
    clean       \* history: no two ephemeral chats have overlapped

shared == <<mode, policy, broken, loom, cache, store>>
registers == <<user, ephemeral, saved, agent, built, page>>
bounds == <<begun, written>>
ghosts == <<configured, clean>>
vars == <<shared, todo, registers, bounds, ghosts>>

Mode == {"unset", "read_only"}   \* "accumulate" and anything else count as unset
Record == [id: 1 .. MaxRecords, user: User, ephemeral: BOOLEAN]
Plan == [kind: {"single", "composite", "routed"}, members: Seq(Backend),
         fusion: {"rrf", "union", "intersection", "weighted", "llm_rerank"},
         target: Backend \cup {"?"}]
Loom == [user: User, plan: Plan]
Policy == [kind: {"single", "composite", "routed"}, members: Seq(Backend),
           fusion: {"rrf", "union", "intersection", "weighted", "llm_rerank"},
           target: Backend \cup {"?"}, router: {"rule", "llm"}]
NoPage == [of |-> None]

ASSUME PolicyAssumption == Policies \subseteq Policy

Steps == {"save_mode", "set_mode", "run", "restore", "loom", "load", "keep", "show",
          "flow", "record", "truncate", "write", "keys", "clear"}

TypeOK ==
    /\ mode \in Mode /\ configured \in Mode /\ clean \in BOOLEAN
    /\ policy \in Policies \cup {None}
    /\ broken \subseteq Backend \ {"json"}
    /\ loom \in Loom \cup {None}
    /\ cache \in Nat /\ begun \in 0 .. MaxOps /\ written \in 0 .. MaxRecords
    /\ store \in [Backend -> Seq(Record)]
    /\ todo \in [Thread -> Seq(Steps)]
    /\ user \in [Thread -> User]
    /\ ephemeral \in [Thread -> BOOLEAN]
    /\ saved \in [Thread -> Mode]
    /\ agent \in [Thread -> Mode \cup {"none"}]
    /\ \A t \in Thread : built[t].cache \in Nat /\ built[t].loom \in Loom \cup {None}

Busy(t) == todo[t] # <<>>
At(t, step) == Busy(t) /\ Head(todo[t]) = step
Continue(t) == todo' = [todo EXCEPT ![t] = Tail(@)]

(* An ephemeral chat is under way from the moment it looks at the mode. *)
InEphemeral(t) == ephemeral[t] /\ Busy(t) /\ Head(todo[t]) \in {"set_mode", "run", "restore"}

-----------------------------------------------------------------------------
(* Policies and what is built from them. *)

Single(b) == [kind |-> "single", members |-> <<b>>, fusion |-> "rrf", target |-> b]

Loads(names, bad) == Subsequence(names, {i \in 1 .. Len(names) : names[i] \notin bad})

(* build_personal_backend.  A composite keeps its target though it did not *)
(* load; a routed policy is given another.                                 *)
Built(p, bad) ==
    IF p = None \/ (p.kind = "routed" /\ p.router = "llm") THEN Single("json")
    ELSE LET members == Loads(p.members, bad) IN
         IF members = <<>> THEN Single("json")
         ELSE IF p.kind = "single" THEN Single(Head(members))
         ELSE [kind |-> p.kind, members |-> members,
               fusion |-> IF p.kind = "routed" THEN "rrf" ELSE p.fusion,
               target |-> IF p.target = "?" \/ (p.kind = "routed" /\ p.target \in bad)
                          THEN Head(members) ELSE p.target]

(* DEFAULT_RULES and the default ensemble of RuleRouter. *)
Rules == {<<"json", "mem0">>, <<"zep", "mem0", "hindsight">>,
          <<"mem0", "hindsight", "json">>, <<"hindsight", "mem0", "letta">>}
Ensemble == <<"mem0", "hindsight", "json">>

(* RuleRouter.route, for the rules a query may match. *)
Routes(members) ==
    LET present(names) == Subsequence(names, {i \in 1 .. Len(names) : Contains(members, names[i])})
        default == IF present(Ensemble) # <<>> THEN present(Ensemble) ELSE Cut(members, 3)
    IN {default} \cup {present(r) : r \in {s \in Rules : present(s) # <<>>}}

(* Which backends a search asks. *)
Asked(plan) == IF plan.kind = "routed" THEN Routes(plan.members) ELSE {plan.members}

Mine(b, u) == {i \in DOMAIN store[b] : store[b][i].user = u}

(* A backend ranks what matches the query as it sees fit. *)
Rankings(b, u) ==
    LET found == {store[b][i].id : i \in Mine(b, u)}
    IN UNION {SetToSeqs(S) : S \in {T \in SUBSET found : Cardinality(T) <= Limit}}

Orders(names) == SetToSeqs(ToSet(names))

Answers(order, u) ==
    {answers \in [DOMAIN order -> {<<>>} \cup UNION {Rankings(b, u) : b \in ToSet(order)}] :
        \A i \in DOMAIN order : answers[i] \in {<<>>} \cup Rankings(order[i], u)}

-----------------------------------------------------------------------------
Init ==
    /\ configured \in Mode /\ mode = configured
    /\ policy \in Policies
    /\ broken \in SUBSET (Backend \ {"json"})
    /\ loom = None /\ cache = 0
    /\ store = [b \in Backend |-> <<>>]
    /\ todo = [t \in Thread |-> <<>>]
    /\ \E u \in User : user = [t \in Thread |-> u]
    /\ ephemeral = [t \in Thread |-> FALSE]
    /\ saved = [t \in Thread |-> "unset"]
    /\ agent = [t \in Thread |-> "none"]
    /\ built = [t \in Thread |-> [cache |-> 0, loom |-> None]]
    /\ page = [t \in Thread |-> NoPage]
    /\ begun = 0 /\ written = 0 /\ clean = TRUE

Begin(t, u, steps) ==
    /\ ~Busy(t)
    /\ begun < MaxOps
    /\ begun' = begun + 1
    /\ user' = [user EXCEPT ![t] = u]
    /\ todo' = [todo EXCEPT ![t] = steps]
    /\ page' = [page EXCEPT ![t] = NoPage]
    /\ UNCHANGED <<shared, saved, built, written, ghosts>>

(* A message is sent in the Run tab. *)
Chat(t) ==
    \E u \in User, e \in BOOLEAN :
        /\ Begin(t, u, IF e THEN <<"save_mode", "set_mode", "run", "restore">> ELSE <<"run">>)
        /\ ephemeral' = [ephemeral EXCEPT ![t] = e]
        /\ agent' = [agent EXCEPT ![t] = "none"]

(* The memory page is opened, with a search.  Every script gets the loom    *)
(* first; the others do nothing with it that matters here.                 *)
OpenPage(t) ==
    \E u \in User : Begin(t, u, <<"loom", "load", "keep", "show">>) /\ UNCHANGED <<ephemeral, agent>>

(* A flow is run from the command line or the SDK. *)
Flow(t) == \E u \in User : Begin(t, u, <<"flow", "record">>) /\ UNCHANGED <<ephemeral, agent>>

(* Mutant: the cache is dropped before the file is written. *)
Settings_ClearsFirst(t) ==
    \E u \in User, steps \in {<<"clear", "truncate", "write">>, <<"clear", "keys">>} :
        Begin(t, u, steps) /\ UNCHANGED <<ephemeral, agent>>

(* An admin saves the memory policy, or the credentials. *)
Settings(t) ==
    \E u \in User, steps \in {<<"truncate", "write", "clear">>, <<"keys", "clear">>} :
        Begin(t, u, steps) /\ UNCHANGED <<ephemeral, agent>>

-----------------------------------------------------------------------------
(* A chat. *)

SaveMode(t) ==
    /\ At(t, "save_mode")
    /\ saved' = [saved EXCEPT ![t] = mode]
    /\ clean' = (clean /\ \A s \in Thread \ {t} : ~InEphemeral(s))
    /\ Continue(t)
    /\ UNCHANGED <<shared, user, ephemeral, agent, built, page, bounds, configured>>

SetMode(t) ==
    /\ At(t, "set_mode")
    /\ mode' = "read_only"
    /\ Continue(t)
    /\ UNCHANGED <<policy, broken, loom, cache, store, registers, bounds, ghosts>>

Write(b, t, e) ==
    /\ written < MaxRecords
    /\ written' = written + 1
    /\ store' = [store EXCEPT ![b] =
                   Append(@, [id |-> written + 1, user |-> user[t], ephemeral |-> e])]

(* The agent records a fact: record_fact, and PersonalMemory as its first   *)
(* tool call builds it, whose mode stays.                                  *)
Remember(t) ==
    /\ At(t, "run")
    /\ agent' = [agent EXCEPT ![t] = IF @ = "none" THEN mode ELSE @]
    /\ IF agent'[t] = "read_only" THEN UNCHANGED <<store, written>>
       ELSE Write("json", t, ephemeral[t])
    /\ UNCHANGED <<mode, policy, broken, loom, cache, todo, user, ephemeral, saved, built, page,
                   begun, ghosts>>

(* The agent answers or raises. *)
Answer(t) ==
    /\ At(t, "run")
    /\ Continue(t)
    /\ UNCHANGED <<shared, registers, bounds, ghosts>>

(* Mutant: what was there is not put back. *)
Restore_Unset(t) ==
    /\ At(t, "restore")
    /\ mode' = "unset"
    /\ Continue(t)
    /\ UNCHANGED <<policy, broken, loom, cache, store, registers, bounds, ghosts>>

(* finally: *)
Restore(t) ==
    /\ At(t, "restore")
    /\ mode' = saved[t]
    /\ Continue(t)
    /\ UNCHANGED <<policy, broken, loom, cache, store, registers, bounds, ghosts>>

-----------------------------------------------------------------------------
(* The loom and the memory page. *)

Computing(t) == Busy(t) /\ Head(todo[t]) \in {"load", "keep"} /\ built[t].cache = cache

(* get_loom, under the cache's lock for computing its value. *)
GetLoom(t) ==
    /\ At(t, "loom")
    /\ \A s \in Thread \ {t} : ~Computing(s)
    /\ built' = [built EXCEPT ![t] = [cache |-> cache, loom |-> loom]]
    /\ todo' = [todo EXCEPT ![t] = IF loom = None THEN Tail(@) ELSE <<"show">>]
    /\ UNCHANGED <<shared, user, ephemeral, saved, agent, page, bounds, ghosts>>

(* Praxia.__init__ *)
Load(t) ==
    /\ At(t, "load")
    /\ built' = [built EXCEPT ![t].loom = [user |-> user[t], plan |-> Built(policy, broken)]]
    /\ Continue(t)
    /\ UNCHANGED <<shared, user, ephemeral, saved, agent, page, bounds, ghosts>>

Keep(t) ==
    /\ At(t, "keep")
    /\ loom' = IF built[t].cache = cache THEN built[t].loom ELSE loom
    /\ Continue(t)
    /\ UNCHANGED <<mode, policy, broken, cache, store, registers, bounds, ghosts>>

(* PersonalMemory.search of the loom's memory.  A composite, or a router    *)
(* that chose several backends, takes their answers in the order in which  *)
(* they finish, an empty one for each that fails; a backend asked alone    *)
(* answers, or its exception ends the page.                                *)
Show(t) ==
    /\ At(t, "show")
    /\ LET m == built[t].loom IN
       \E asked \in Asked(m.plan) :
          IF m.plan.kind = "composite" \/ Len(asked) > 1
          THEN \E order \in Orders(asked) : \E answers \in Answers(order, m.user) :
                 page' = [page EXCEPT ![t] =
                   [of |-> m.user, fusion |-> m.plan.fusion, answers |-> answers,
                    shown |-> Fuse(m.plan.fusion, answers, Limit)]]
          ELSE \/ \E hits \in Rankings(asked[1], m.user) :
                    page' = [page EXCEPT ![t] =
                      [of |-> m.user, fusion |-> "rrf", answers |-> <<hits>>, shown |-> hits]]
               \/ UNCHANGED page
    /\ Continue(t)
    /\ UNCHANGED <<shared, user, ephemeral, saved, agent, built, bounds, ghosts>>

-----------------------------------------------------------------------------
(* A flow: Praxia.__init__ and run, whose search is Show's, and then       *)
(* record_episode; a target that is not a member raises, and the process   *)
(* of a flow may be read-only itself.                                      *)
RunFlow(t) ==
    /\ At(t, "flow")
    /\ built' = [built EXCEPT ![t].loom = [user |-> user[t], plan |-> Built(policy, broken)]]
    /\ Continue(t)
    /\ UNCHANGED <<shared, user, ephemeral, saved, agent, page, bounds, ghosts>>

RecordEpisode(t) ==
    /\ At(t, "record")
    /\ LET plan == built[t].loom.plan IN
       \/ Contains(plan.members, plan.target) /\ Write(plan.target, t, FALSE)
       \/ UNCHANGED <<store, written>>
    /\ Continue(t)
    /\ UNCHANGED <<mode, policy, broken, loom, cache, registers, begun, ghosts>>

-----------------------------------------------------------------------------
(* The settings. *)

(* MemoryAdminPolicy.save rewrites the file in place: over what another      *)
(* admin wrote meanwhile, the text of one may end in the other's.          *)
Truncate(t) ==
    /\ At(t, "truncate")
    /\ policy' = None
    /\ Continue(t)
    /\ UNCHANGED <<mode, broken, loom, cache, store, registers, bounds, ghosts>>

WritePolicy(t) ==
    /\ At(t, "write")
    /\ policy' \in Policies \cup (IF policy = None THEN {} ELSE {None})
    /\ Continue(t)
    /\ UNCHANGED <<mode, broken, loom, cache, store, registers, bounds, ghosts>>

SaveKeys(t) ==
    /\ At(t, "keys")
    /\ broken' \in SUBSET (Backend \ {"json"})
    /\ Continue(t)
    /\ UNCHANGED <<mode, policy, loom, cache, store, registers, bounds, ghosts>>

(* st.cache_resource.clear() *)
Clear(t) ==
    /\ At(t, "clear")
    /\ loom' = None
    /\ cache' = cache + 1
    /\ Continue(t)
    /\ UNCHANGED <<mode, policy, broken, store, registers, bounds, ghosts>>

Request(t) == Chat(t) \/ OpenPage(t) \/ Flow(t) \/ Settings(t)

Step(t) ==
    \/ SaveMode(t) \/ SetMode(t) \/ Remember(t) \/ Answer(t) \/ Restore(t)
    \/ GetLoom(t) \/ Load(t) \/ Keep(t) \/ Show(t)
    \/ RunFlow(t) \/ RecordEpisode(t)
    \/ Truncate(t) \/ WritePolicy(t) \/ SaveKeys(t) \/ Clear(t)

Next == \E t \in Thread : Request(t) \/ Step(t)

Spec == Init /\ [][Next]_vars

-----------------------------------------------------------------------------
(* Properties. *)

(* As long as no two ephemeral chats overlap, none of them leaves a record *)
(* in any backend, however ordinary chats and flows run beside it; and the *)
(* process is read-only exactly while one of them is under way, so that    *)
(* chats begun afterwards remember again.                                  *)
EphemeralOnly ==
    clean =>
      /\ \A b \in Backend : \A i \in DOMAIN store[b] : ~store[b][i].ephemeral
      /\ mode = IF \E t \in Thread : InEphemeral(t) /\ ~At(t, "set_mode")
                THEN "read_only" ELSE configured

(* No loom outlives the policy and the credentials it was built from:      *)
(* once every admin has cleared the cache, what is served was built from   *)
(* what is on file, also when a script was building it meanwhile.          *)
LoomFollowsPolicy ==
    loom # None /\ (\A t \in Thread : Busy(t) => Head(todo[t]) \notin {"truncate", "write", "keys", "clear"})
       => loom.plan = Built(policy, broken)

Precedes(s, x, y) ==
    \E i, j \in DOMAIN s : i < j /\ s[i] = x /\ s[j] = y

AgreeOn(answers, x, y) ==
    \A i \in DOMAIN answers : Contains(answers[i], y) => Precedes(answers[i], x, y)

Fair(p) ==
    LET found == Found(p.answers)
        heard == {i \in DOMAIN p.answers : p.answers[i] # <<>>}
    IN /\ IsInjective(p.shown) /\ ToSet(p.shown) \subseteq found
       /\ \A x \in found : \A y \in ToSet(p.shown) :
            AgreeOn(p.answers, x, y) => Precedes(p.shown, x, y)
       /\ p.fusion # "intersection" =>
            Len(p.shown) = IF Cardinality(found) < Limit THEN Cardinality(found) ELSE Limit
       /\ p.fusion \notin {"intersection", "union"} /\ Cardinality(heard) <= Limit =>
            \A i \in heard : Head(p.answers[i]) \in ToSet(p.shown)

(* Whatever order the backends finish in and whichever fail, a page keeps  *)
(* the order its backends agree on, shows nothing twice and nothing that   *)
(* was not found, and under every strategy but agreement it is filled, and *)
(* under the two that weigh ranks the best hit of each backend that        *)
(* answered is on it if there is room for one from each.                   *)
FairlyFused == \A t \in Thread : page[t] # NoPage => Fair(page[t])

(* What a memory page shows is the memory of the user who opened it. *)
OwnMemory == \A t \in Thread : page[t] # NoPage => page[t].of = user[t]
=============================================================================
