----------------------------- MODULE Connections -----------------------------
(***************************************************************************)
(* The users' connections to OAuth providers: praxia/connectors/oauth      *)
(* (state_store.py, token_store.py, flow.py) as praxia/server/routers/     *)
(* oauth.py and the connectors drive them.                                 *)
(*                                                                         *)
(* oauth_states.json holds the flows that wait for their callback; it is   *)
(* replaced through one shared .tmp, and what happens to that is in        *)
(* RecordFiles.  oauth_tokens.jsonl holds a line per connection and is     *)
(* truncated and rewritten as a whole.  Nothing is locked, and calls to a  *)
(* provider take up to fifteen seconds between the accesses to the files.  *)
(*                                                                         *)
(* A flow is the number of its state token.  Access and refresh tokens are *)
(* numbered as the provider issues them; refresh token 0 is no token.      *)
(***************************************************************************)
EXTENDS Naturals, Sequences, FiniteSets

CONSTANTS
    Thread,        \* threads that serve requests and connectors
    User, Provider,
    StatesFile, NoRecord, NoFile, Empty, Torn,   \* see RecordFiles
    MaxRequests    \* bound on the requests served

ASSUME ConnectionsAssumption ==
    /\ MaxRequests \in Nat
    /\ {NoFile, Empty, Torn} \cap [pending : SUBSET (1 .. MaxRequests)] = {}

VARIABLES
    file, tmp, job, fd, windows,   \* oauth_states.json, see RecordFiles
    tokens,    \* oauth_tokens.jsonl
    ahead,     \* what each thread still has to do
    flow,      \* the flow it starts or finishes
    states,    \* the states it read and will write
    hand,      \* the token it has in hand
    lines,     \* what it will write to the truncated tokens file
    flows,     \* every flow started: who, with which provider, and whether its
               \* address was handed out
    stale,     \* flows whose state is past its time to live
    redeemed,  \* provider: flows whose code was exchanged
    valid,     \* provider: the refresh tokens it accepts
    expired,   \* access tokens past their expiry
    issued,    \* how many tokens the providers have issued
    served,    \* how many requests have begun
    exchanged, \* history: how often each flow's code was sent to the provider
    waiting,   \* history: flows put and not popped
    told,      \* history: the connections, as the requests answered left them
    ordered,   \* history: no two requests were in the states file at once
    calm,      \* history: nor in the tokens file, or with one connection, and
               \* no crash and no lost answer hit one that was
    keyed      \* history: every line of the tokens file that a rewrite was to
               \* keep could be decrypted and encrypted again

files == <<file, tmp, job, fd, windows>>
registers == <<flow, states, hand, lines>>
provider == <<redeemed, valid, issued>>
clock == <<stale, expired>>
ghosts == <<exchanged, waiting, told, ordered, calm, keyed>>
connectionsVars == <<files, tokens, ahead, registers, flows, provider, clock, served, ghosts>>

Files == INSTANCE RecordFiles WITH Record <- {StatesFile}, Actor <- Thread

Flow == 1 .. MaxRequests
Token == [user: User, provider: Provider, access: Nat, refresh: Nat]
Steps == {"put", "pop", "open", "fill", "rename", "exchange", "get", "refresh",
          "reread", "without", "truncate", "write"}

TypeOK ==
    /\ Files!FilesTypeOK([pending: SUBSET Flow])
    /\ tokens \subseteq Token
    /\ ahead \in [Thread -> Seq(Steps)]
    /\ flow \in [Thread -> 0 .. MaxRequests]
    /\ states \in [Thread -> SUBSET Flow]
    /\ hand \in [Thread -> Token]
    /\ lines \in [Thread -> SUBSET Token]
    /\ flows \in Seq([user: User, provider: Provider, given: BOOLEAN])
    /\ stale \subseteq Flow /\ redeemed \subseteq Flow
    /\ valid \subseteq Nat /\ expired \subseteq Nat /\ issued \in Nat
    /\ served \in 0 .. MaxRequests
    /\ exchanged \in [Flow -> Nat] /\ waiting \subseteq Flow
    /\ told \subseteq Token
    /\ ordered \in BOOLEAN /\ calm \in BOOLEAN /\ keyed \in BOOLEAN

Busy(t) == ahead[t] # <<>>
At(t, step) == Busy(t) /\ Head(ahead[t]) = step
Continue(t) == ahead' = [ahead EXCEPT ![t] = Tail(@)]
EndRequest(t) == ahead' = [ahead EXCEPT ![t] = <<>>]

Same(x, y) == x.user = y.user /\ x.provider = y.provider
Others(file0, y) == {x \in file0 : ~Same(x, y)}

(* Who is where: between reading and replacing the states, between reading *)
(* and rewriting the tokens, or in the middle of changing one connection.  *)
InStates(t) == Busy(t) /\ Head(ahead[t]) \in {"open", "fill", "rename"}
InTokens(t) == Busy(t) /\ Head(ahead[t]) \in {"truncate", "write"}
Holds(t, x) ==
    /\ Busy(t) /\ Head(ahead[t]) \in {"refresh", "reread", "truncate", "write"}
    /\ Same(hand[t], x)

Alone(t, Is(_)) == \A s \in Thread \ {t} : ~Is(s)

-----------------------------------------------------------------------------
Saving == <<"reread", "truncate", "write">>
Replacing == <<"open", "fill", "rename">>

(* One connection exists from the start, with a refresh token or without. *)
ConnectionsInit ==
    \E u \in User, p \in Provider, r \in {0, 1} :
      LET x == [user |-> u, provider |-> p, access |-> 1, refresh |-> r] IN
      /\ file = [r0 \in {StatesFile} |-> NoFile]
      /\ tmp = [r0 \in {StatesFile} |-> NoFile]
      /\ fd = [t \in Thread |-> "closed"]
      /\ windows \in BOOLEAN
      /\ job = [t \in Thread |-> StatesFile]
      /\ tokens = {x} /\ told = {x}
      /\ ahead = [t \in Thread |-> <<>>]
      /\ flow = [t \in Thread |-> 0]
      /\ states = [t \in Thread |-> {}]
      /\ hand = [t \in Thread |-> x]
      /\ lines = [t \in Thread |-> {}]
      /\ flows = <<>>
      /\ stale = {} /\ redeemed = {}
      /\ valid = {r} \ {0} /\ expired = {} /\ issued = 1
      /\ served = 0
      /\ exchanged = [s \in Flow |-> 0] /\ waiting = {}
      /\ ordered = TRUE /\ calm = TRUE /\ keyed = TRUE

BeginRequest(t, steps) ==
    /\ ~Busy(t)
    /\ served < MaxRequests
    /\ served' = served + 1
    /\ ahead' = [ahead EXCEPT ![t] = steps]
    /\ UNCHANGED <<files, tokens, states, lines, provider, clock, ghosts>>

(* POST /oauth/{provider}/start *)
Start(t) ==
    \E u \in User, p \in Provider :
        /\ BeginRequest(t, <<"put">> \o Replacing)
        /\ flows' = Append(flows, [user |-> u, provider |-> p, given |-> FALSE])
        /\ flow' = [flow EXCEPT ![t] = Len(flows) + 1]
        /\ UNCHANGED hand

(* GET /oauth/{provider}/callback, which a browser may send again; the path *)
(* may name another provider than the flow's.                              *)
Callback(t) ==
    \E s \in DOMAIN flows, p \in Provider :
        /\ flows[s].given
        /\ BeginRequest(t, <<"pop">> \o Replacing \o <<"exchange">> \o Saving)
        /\ flow' = [flow EXCEPT ![t] = s]
        /\ hand' = [hand EXCEPT ![t] =
                      [user |-> flows[s].user, provider |-> p, access |-> 0, refresh |-> 0]]
        /\ UNCHANGED flows

Named(t, u, p) ==
    hand' = [hand EXCEPT ![t] = [user |-> u, provider |-> p, access |-> 0, refresh |-> 0]]

(* oauth_token_for, in a connector. *)
Use(t) ==
    \E u \in User, p \in Provider :
        BeginRequest(t, <<"get">>) /\ Named(t, u, p) /\ UNCHANGED <<flow, flows>>

(* DELETE /oauth/{provider} *)
Disconnect(t) ==
    \E u \in User, p \in Provider :
        BeginRequest(t, <<"without", "truncate", "write">>) /\ Named(t, u, p)
            /\ UNCHANGED <<flow, flows>>

-----------------------------------------------------------------------------
(* The states. *)

(* _read and _prune_expired: a file that does not parse holds nothing. *)
Live ==
    IF file[StatesFile] \in {NoFile, Empty, Torn} THEN {} ELSE file[StatesFile].pending \ stale

(* PersistentStateStore.put *)
Put(t) ==
    /\ At(t, "put")
    /\ states' = [states EXCEPT ![t] = Live \cup {flow[t]}]
    /\ Continue(t)
    /\ ordered' = (ordered /\ Alone(t, InStates))
    /\ UNCHANGED <<files, tokens, flow, hand, lines, flows, provider, clock, served,
                   exchanged, waiting, told, calm, keyed>>

(* Mutant: the state is handed out and stays. *)
Pop_Peeks(t) ==
    /\ At(t, "pop")
    /\ states' = [states EXCEPT ![t] = Live]
    /\ ahead' = [ahead EXCEPT ![t] =
                  IF flow[t] \in Live /\ flows[flow[t]].provider = hand[t].provider
                  THEN Tail(@) ELSE Replacing]
    /\ ordered' = (ordered /\ Alone(t, InStates))
    /\ UNCHANGED <<files, tokens, flow, hand, lines, flows, provider, clock, served,
                   exchanged, waiting, told, calm, keyed>>

(* PersistentStateStore.pop, and the checks of exchange_code: the request  *)
(* ends after the states are written if the state is unknown, expired or   *)
(* of another provider.                                                    *)
Pop(t) ==
    /\ At(t, "pop")
    /\ states' = [states EXCEPT ![t] = Live \ {flow[t]}]
    /\ ahead' = [ahead EXCEPT ![t] =
                  IF flow[t] \in Live /\ flows[flow[t]].provider = hand[t].provider
                  THEN Tail(@) ELSE Replacing]
    /\ ordered' = (ordered /\ Alone(t, InStates))
    /\ UNCHANGED <<files, tokens, flow, hand, lines, flows, provider, clock, served,
                   exchanged, waiting, told, calm, keyed>>

stateSteps == <<tokens, registers, provider, clock, served, exchanged, told, ordered, calm,
                keyed>>

OpenTmp(t) ==
    /\ At(t, "open")
    /\ Files!OpenTmp(t)
    /\ Continue(t)
    /\ UNCHANGED <<stateSteps, flows, waiting>>

FillTmp(t) ==
    /\ At(t, "fill")
    /\ Files!WriteOut(t, [pending |-> states[t]])
    /\ Continue(t)
    /\ UNCHANGED <<stateSteps, flows, job, waiting>>

(* os.replace: fails when another request renamed the .tmp away, and on    *)
(* Windows while another one has it open; the request ends.                *)
Rename(t) ==
    /\ At(t, "rename")
    /\ \/ /\ Files!Replace(t)
          /\ IF flow[t] \in states[t]
             THEN /\ waiting' = waiting \cup {flow[t]}
                  /\ flows' = [flows EXCEPT ![flow[t]].given = TRUE]
             ELSE waiting' = waiting \ {flow[t]} /\ UNCHANGED flows
          /\ Continue(t)
       \/ /\ Files!ReplaceBlocked(t) \/ tmp[StatesFile] = NoFile
          /\ EndRequest(t)
          /\ UNCHANGED <<file, tmp, fd, windows, flows, waiting>>
    /\ UNCHANGED <<stateSteps, job>>

-----------------------------------------------------------------------------
(* The providers. *)

Fresh == issued + 1

(* Steps into a change of one connection. *)
Hold(t, x) == calm' = (calm /\ \A s \in Thread \ {t} : ~Holds(s, x))

(* exchange_code: the provider accepts a code once; the call may fail, and *)
(* its answer may come without a refresh token.                            *)
Exchange(t) ==
    /\ At(t, "exchange")
    /\ exchanged' = [exchanged EXCEPT ![flow[t]] = @ + 1]
    /\ \/ /\ EndRequest(t)
          /\ redeemed' \in {redeemed, redeemed \cup {flow[t]}}
          /\ UNCHANGED <<hand, valid, issued, calm>>
       \/ \E r \in {0, Fresh} :
            /\ flow[t] \notin redeemed
            /\ redeemed' = redeemed \cup {flow[t]}
            /\ issued' = Fresh
            /\ valid' = valid \cup ({r} \ {0})
            /\ hand' = [hand EXCEPT ![t].access = Fresh, ![t].refresh = r]
            /\ Hold(t, hand[t])
            /\ Continue(t)
    /\ UNCHANGED <<files, tokens, flow, states, lines, flows, clock, served,
                   waiting, told, ordered, keyed>>

(* OAuthTokenStore.get, and whether oauth_token_for refreshes; there may be *)
(* no line of the connection, or none that decrypts.                       *)
Get(t) ==
    /\ At(t, "get")
    /\ \/ \E x \in tokens :
            /\ Same(x, hand[t])
            /\ hand' = [hand EXCEPT ![t] = x]
            /\ IF x.access \in expired /\ x.refresh # 0
               THEN ahead' = [ahead EXCEPT ![t] = <<"refresh">> \o Saving] /\ Hold(t, x)
               ELSE EndRequest(t) /\ UNCHANGED calm
       \/ EndRequest(t) /\ UNCHANGED <<hand, calm>>
    /\ UNCHANGED <<files, tokens, flow, states, lines, flows, provider, clock, served,
                   exchanged, waiting, told, ordered, keyed>>

(* Mutant: the refresh token of the answer is not looked at. *)
Refresh_KeepsOld(t) ==
    /\ At(t, "refresh")
    /\ \/ EndRequest(t) /\ UNCHANGED <<hand, provider, calm>>
       \/ /\ hand[t].refresh \in valid
          /\ issued' = Fresh
          /\ \E rotates \in BOOLEAN, answered \in BOOLEAN :
               LET r == IF rotates THEN Fresh ELSE hand[t].refresh IN
               /\ valid' = (valid \ {hand[t].refresh}) \cup {r}
               /\ IF answered
                  THEN hand' = [hand EXCEPT ![t].access = Fresh] /\ Continue(t) /\ UNCHANGED calm
                  ELSE calm' = FALSE /\ EndRequest(t) /\ UNCHANGED hand
          /\ UNCHANGED redeemed
    /\ UNCHANGED <<files, tokens, flow, states, lines, flows, clock, served,
                   exchanged, waiting, told, ordered, keyed>>

(* OAuthTokenStore.refresh: the provider answers with a new access token    *)
(* and perhaps a refresh token that replaces the old one; or the call       *)
(* fails; or its answer is lost after the provider has acted.               *)
Refresh(t) ==
    /\ At(t, "refresh")
    /\ \/ EndRequest(t) /\ UNCHANGED <<hand, provider, calm>>
       \/ /\ hand[t].refresh \in valid
          /\ issued' = Fresh
          /\ \E rotates \in BOOLEAN, answered \in BOOLEAN :
               LET r == IF rotates THEN Fresh ELSE hand[t].refresh IN
               /\ valid' = (valid \ {hand[t].refresh}) \cup {r}
               /\ IF answered
                  THEN /\ hand' = [hand EXCEPT ![t].access = Fresh, ![t].refresh = r]
                       /\ Continue(t) /\ UNCHANGED calm
                  ELSE calm' = FALSE /\ EndRequest(t) /\ UNCHANGED hand
          /\ UNCHANGED redeemed
    /\ UNCHANGED <<files, tokens, flow, states, lines, flows, clock, served,
                   exchanged, waiting, told, ordered, keyed>>

-----------------------------------------------------------------------------
(* The tokens. *)

tokenSteps == <<files, flow, states, flows, provider, clock, served, exchanged, waiting, ordered>>

(* OAuthTokenStore.save: the other connections as they are now, and ours.  *)
(* list_all leaves out the lines that _decrypt_line cannot open, because    *)
(* the key service fails or has another key.                               *)
Reread(t) ==
    /\ At(t, "reread")
    /\ \E legible \in SUBSET tokens :
         /\ lines' = [lines EXCEPT ![t] = Others(legible, hand[t]) \cup {hand[t]}]
         /\ keyed' = (keyed /\ Others(legible, hand[t]) = Others(tokens, hand[t]))
    /\ calm' = (calm /\ Alone(t, InTokens))
    /\ Continue(t)
    /\ UNCHANGED <<tokenSteps, tokens, hand, told>>

(* OAuthTokenStore.delete: leaves the file alone if it finds no connection. *)
Without(t) ==
    /\ At(t, "without")
    /\ \E legible \in SUBSET tokens :
         /\ lines' = [lines EXCEPT ![t] = Others(legible, hand[t])]
         /\ IF Others(legible, hand[t]) = legible
            THEN EndRequest(t) /\ UNCHANGED <<calm, keyed>>
            ELSE /\ Continue(t)
                 /\ calm' = (calm /\ Alone(t, InTokens)
                                  /\ \A s \in Thread \ {t} : ~Holds(s, hand[t]))
                 /\ keyed' = (keyed /\ Others(legible, hand[t]) = Others(tokens, hand[t]))
    /\ UNCHANGED <<tokenSteps, tokens, hand, told>>

Truncate(t) ==
    /\ At(t, "truncate")
    /\ tokens' = {}
    /\ Continue(t)
    /\ UNCHANGED <<tokenSteps, hand, lines, told, calm, keyed>>

(* Some lines that somebody else wrote since may be left behind ours.  A    *)
(* key service that fails at one line ends the request with the file as     *)
(* far as it was written; ours is the last line.                           *)
Write(t) ==
    /\ At(t, "write")
    /\ \E left \in SUBSET tokens :
         \/ /\ tokens' = lines[t] \cup left
            /\ told' = Others(told, hand[t]) \cup {x \in lines[t] : Same(x, hand[t])}
            /\ Continue(t)
            /\ UNCHANGED keyed
         \/ /\ \E sealed \in SUBSET (lines[t] \ {hand[t]}) :
                 sealed # lines[t] /\ tokens' = sealed \cup left
            /\ keyed' = FALSE
            /\ EndRequest(t)
            /\ UNCHANGED told
    /\ UNCHANGED <<tokenSteps, hand, lines, calm>>

-----------------------------------------------------------------------------
(* Time passes for a state or an access token; the process dies. *)

StateExpires ==
    \E s \in waiting \ stale :
        /\ stale' = stale \cup {s}
        /\ UNCHANGED <<files, tokens, ahead, registers, flows, provider, expired, served, ghosts>>

TokenExpires ==
    \E x \in tokens :
        /\ x.access \notin expired
        /\ expired' = expired \cup {x.access}
        /\ UNCHANGED <<files, tokens, ahead, registers, flows, provider, stale, served, ghosts>>

Crash ==
    /\ \E t \in Thread : Busy(t)
    /\ ahead' = [t \in Thread |-> <<>>]
    /\ fd' = [t \in Thread |-> "closed"]
    /\ calm' = (calm /\ \A t \in Thread : ~Holds(t, hand[t]))
    /\ UNCHANGED <<file, tmp, job, windows, tokens, registers, flows, provider, clock, served,
                   exchanged, waiting, told, ordered, keyed>>

Request(t) == Start(t) \/ Callback(t) \/ Use(t) \/ Disconnect(t)

Step(t) ==
    \/ Put(t) \/ Pop(t) \/ OpenTmp(t) \/ FillTmp(t) \/ Rename(t)
    \/ Exchange(t) \/ Get(t) \/ Refresh(t)
    \/ Reread(t) \/ Without(t) \/ Truncate(t) \/ Write(t)

ConnectionsNext ==
    \/ \E t \in Thread : Request(t) \/ Step(t)
    \/ StateExpires \/ TokenExpires \/ Crash

ConnectionsSpec == ConnectionsInit /\ [][ConnectionsNext]_connectionsVars

-----------------------------------------------------------------------------
(* Properties. *)

(* As long as no two requests are inside the states file at once, a flow's *)
(* code goes to the provider at most once however often its callback is    *)
(* sent, and no flow is forgotten before its time: what can be read are    *)
(* the flows put and not yet popped, whatever crashes.                     *)
FlowsServedOnce ==
    ordered => /\ \A s \in Flow : exchanged[s] <= 1
               /\ Live = waiting \ stale

(* As long as no two requests rewrite the tokens file at once or change    *)
(* one connection at once, every line of the file is a connection as it    *)
(* was last made or renewed, none that was cut, with a refresh token its   *)
(* provider still accepts: calls for different connections may overlap     *)
(* anywhere else, and a rotated refresh token is never left behind.  As    *)
(* long as no rewrite met a line that does not decrypt or encrypt, every   *)
(* connection is there; one such line is enough to lose connections.       *)
ConnectionsKept ==
    calm => /\ tokens \subseteq told
            /\ keyed /\ (\A t \in Thread : ~At(t, "write")) => tokens = told
            /\ \A x \in tokens : \/ x.refresh \in valid \cup {0}
                                 \/ \E t \in Thread : Holds(t, x)
=============================================================================
