------------------------------ MODULE Accounts ------------------------------
(***************************************************************************)
(* The user accounts of praxia/auth/users.py as praxia/auth/manager.py and *)
(* praxia/scim/server.py use them.                                         *)
(*                                                                         *)
(* users.jsonl holds one line per account.  Every operation reads the file *)
(* whole, some of them several times, and changes it either by appending a *)
(* line or by truncating it and writing all lines anew; nothing is locked. *)
(* A request is the sequence of these accesses that is still ahead of it;  *)
(* a request that finds no account, or finds a name taken, ends there.     *)
(*                                                                         *)
(* The file is the set of its parsable lines: of two lines that answer one *)
(* lookup either may come first.  api_keys.jsonl is written and never read *)
(* by this code, and is left out.  An account's id is the number of its    *)
(* first key; keys are numbered in the order they are issued.              *)
(***************************************************************************)
EXTENDS Naturals, Sequences, FiniteSets

CONSTANTS
    Thread,        \* threads of the processes that serve users, admins and SCIM
    Name,          \* usernames
    BootName,      \* the bootstrap account's name
    Email,
    NoEmail,
    LocalPart,     \* the username an SSO signup derives from an email ...
    Suffixed,      \* ... and the one it falls back to when that is taken
    MaxRequests    \* bound on the requests served

ASSUME AccountsAssumption ==
    /\ BootName \in Name
    /\ NoEmail \notin Email
    /\ LocalPart \in [Email -> Name]
    /\ Suffixed \in [Name -> Name]
    /\ MaxRequests \in Nat

VARIABLES
    rows,      \* users.jsonl
    todo,      \* the file accesses each thread still has to make
    hand,      \* the User object it has in hand
    change,    \* the fields its update will set
    lines,     \* what it will write to the truncated file
    flip,      \* what a SCIM PUT says about "active": the set of its value, or {}
    served,    \* how many requests have begun
    issued,    \* history: the keys handed out, each with its account's id
    told,      \* history: the accounts, as the requests answered so far left them
    calm       \* history: no request began during another, no crash cut a rewrite

vars == <<rows, todo, hand, change, lines, flip, served, issued, told, calm>>

Roles == {"admin", "member"}
Keys == Nat
Row == [id: Keys, name: Name, email: Email \cup {NoEmail}, role: Roles,
        active: BOOLEAN, key: Keys]

Blank == [id |-> 0, name |-> BootName, email |-> NoEmail, role |-> "member",
          active |-> TRUE, key |-> 0]

Steps == {"byId", "byName", "byEmail", "localPart", "free", "freeNew", "none", "append",
          "reread", "without", "truncate", "write", "flip"}

(* What a request can set. *)
Unchanged == [f \in {} |-> 0]
Fields ==
    UNION {{Unchanged}, [name : Name], [role : Roles], [active : BOOLEAN], [key : Keys],
           [email : Email], [email : Email \cup {NoEmail}, role : Roles]}

(* setattr on the User object for every field the request names. *)
Changed(row, fields) ==
    [f \in DOMAIN row |-> IF f \in DOMAIN fields THEN fields[f] ELSE row[f]]

TypeOK ==
    /\ rows \subseteq Row
    /\ todo \in [Thread -> Seq(Steps)]
    /\ hand \in [Thread -> Row]
    /\ change \in [Thread -> Fields]
    /\ lines \in [Thread -> SUBSET Row]
    /\ flip \in [Thread -> SUBSET BOOLEAN]
    /\ served \in 0 .. MaxRequests
    /\ issued \subseteq Keys \X Keys
    /\ told \subseteq Row
    /\ calm \in BOOLEAN

(* Two accounts: the bootstrap admin and one that came through SSO. *)
First == [Blank EXCEPT !.id = 1, !.key = 1, !.role = "admin"]
Second(e) == [Blank EXCEPT !.id = 2, !.key = 2, !.name = LocalPart[e], !.email = e]

Init ==
    /\ \E e \in Email : LocalPart[e] # BootName /\ rows = {First, Second(e)}
    /\ todo = [t \in Thread |-> <<>>]
    /\ hand = [t \in Thread |-> Blank]
    /\ change = [t \in Thread |-> Unchanged]
    /\ lines = [t \in Thread |-> {}]
    /\ flip = [t \in Thread |-> {}]
    /\ served = 0
    /\ issued = {<<1, 1>>, <<2, 2>>}
    /\ told = rows
    /\ calm = TRUE

Busy(t) == todo[t] # <<>>
Rewriting(t) == Busy(t) /\ Head(todo[t]) = "write"

-----------------------------------------------------------------------------
(* The requests, by what they will do with the file. *)

(* Mutant: the file is opened for writing before it is read. *)
Rewrite_OpensFirst == <<"truncate", "reread", "write">>

Rewrite == <<"reread", "truncate", "write">>

Creation == <<"free", "append">>
Deactivation == <<"byName", "byId">> \o Rewrite
Deletion == <<"byName", "without", "truncate", "write">>

Begin(t, steps, user, fields, active) ==
    /\ ~Busy(t)
    /\ served < MaxRequests
    /\ served' = served + 1
    /\ todo' = [todo EXCEPT ![t] = steps]
    /\ hand' = [hand EXCEPT ![t] = user]
    /\ change' = [change EXCEPT ![t] = fields]
    /\ flip' = [flip EXCEPT ![t] = active]
    /\ calm' = (calm /\ \A s \in Thread : ~Busy(s))
    /\ UNCHANGED <<rows, lines, told>>

(* A request that hands out a key, drawn before anybody can tell. *)
NewKey == Cardinality(issued) + 1

BeginNew(t, steps, name, email, role) ==
    /\ Begin(t, steps, [Blank EXCEPT !.id = NewKey, !.key = NewKey, !.name = name,
                                     !.email = email, !.role = role], Unchanged, {})
    /\ issued' = issued \cup {<<NewKey, NewKey>>}

BeginOld(t, steps, user, fields, active) ==
    Begin(t, steps, user, fields, active) /\ UNCHANGED issued

Named(n) == [Blank EXCEPT !.name = n]
Numbered(i) == [Blank EXCEPT !.id = i]
Ids == {r.id : r \in rows}

(* AuthManager.create_user, and SCIM's POST, which looks the name up once  *)
(* more before it.                                                         *)
CreateUser(t) ==
    \E n \in Name, steps \in {Creation, <<"free">> \o Creation} :
        BeginNew(t, steps, n, NoEmail, "member")

(* AuthManager.__init__: whoever builds a manager while no account exists  *)
(* creates the first admin.                                                *)
Bootstrap(t) == BeginNew(t, <<"none">> \o Creation, BootName, NoEmail, "admin")

(* AuthManager.update_user and grant_role. *)
UpdateUser(t) ==
    \E n \in Name :
        \/ \E new \in Name :
              BeginOld(t, <<"byName", "freeNew">> \o Rewrite, Named(n), [name |-> new], {})
        \/ \E r \in Roles :
              BeginOld(t, <<"byName">> \o Rewrite, Named(n), [role |-> r], {})
        \/ \E b \in BOOLEAN :
              BeginOld(t, <<"byName">> \o Rewrite, Named(n), [active |-> b], {})

DeactivateUser(t) ==
    \E n \in Name : BeginOld(t, Deactivation, Named(n), [active |-> FALSE], {})

DeleteUser(t) == \E n \in Name : BeginOld(t, Deletion, Named(n), Unchanged, {})

(* UserStore.rotate_api_key. *)
RotateKey(t) ==
    \E i \in Ids :
        /\ Begin(t, <<"byId">> \o Rewrite, Numbered(i), [key |-> NewKey], {})
        /\ issued' = issued \cup {<<NewKey, i>>}

(* AuthManager.upsert_sso_user; the role comes from the provider's groups. *)
UpsertSsoUser(t) ==
    \E e \in Email, r \in Roles : BeginNew(t, <<"byEmail">>, LocalPart[e], e, r)

(* SCIM's PUT: the email first, then "active" if the payload has it. *)
ReplaceUser(t) ==
    \E i \in Ids, e \in Email, active \in {{}, {TRUE}, {FALSE}} :
        BeginOld(t, <<"byId", "byName">> \o Rewrite \o <<"flip">>, Numbered(i),
                 [email |-> e], active)

(* SCIM's PATCH acts on "active": false only. *)
PatchUser(t) ==
    \E i \in Ids :
        BeginOld(t, <<"byId">> \o Deactivation, Numbered(i), [active |-> FALSE], {})

(* SCIM's DELETE. *)
RemoveUser(t) ==
    \E i \in Ids : BeginOld(t, <<"byId">> \o Deletion, Numbered(i), Unchanged, {})

-----------------------------------------------------------------------------
(* The accesses to the file. *)

At(t, step) == Busy(t) /\ Head(todo[t]) = step

Continue(t) == todo' = [todo EXCEPT ![t] = Tail(@)]
End(t) == todo' = [todo EXCEPT ![t] = <<>>]

reading == <<rows, change, lines, flip, served, issued, told, calm>>

(* A lookup: the account goes into the request's hand, or the request ends *)
(* with 404 or ValueError.                                                 *)
LookUp(t, step, Wanted(_)) ==
    /\ At(t, step)
    /\ \/ \E r \in rows : Wanted(r) /\ hand' = [hand EXCEPT ![t] = r] /\ Continue(t)
       \/ (\A r \in rows : ~Wanted(r)) /\ End(t) /\ UNCHANGED hand
    /\ UNCHANGED reading

GetById(t) == LookUp(t, "byId", LAMBDA r : r.id = hand[t].id)

GetByName(t) == LookUp(t, "byName", LAMBDA r : r.name = hand[t].name)

Taken(name) == \E r \in rows : r.name = name

(* Goes on if the condition holds, or ends the request. *)
Require(t, step, condition) ==
    /\ At(t, step)
    /\ IF condition THEN Continue(t) ELSE End(t)
    /\ UNCHANGED hand
    /\ UNCHANGED reading

(* UserStore.create refuses a name that is taken. *)
CheckFree(t) == Require(t, "free", ~Taken(hand[t].name))

(* Mutant: renaming does not ask whether the new name is taken. *)
CheckFreeNew_Skipped(t) == Require(t, "freeNew", TRUE)

CheckFreeNew(t) ==
    Require(t, "freeNew", change[t].name = hand[t].name \/ ~Taken(change[t].name))

CheckNone(t) == Require(t, "none", rows = {})

(* Mutant: a login takes the key drawn for a signup. *)
FindByEmail_Rekeyed(t) ==
    /\ At(t, "byEmail")
    /\ \/ \E r \in rows :
            /\ r.email = hand[t].email
            /\ hand' = [hand EXCEPT ![t] = r]
            /\ change' = [change EXCEPT ![t] = [role |-> hand[t].role, key |-> hand[t].key]]
            /\ todo' = [todo EXCEPT ![t] = Rewrite]
       \/ /\ \A r \in rows : r.email # hand[t].email
          /\ todo' = [todo EXCEPT ![t] = <<"localPart">> \o Creation \o Rewrite]
          /\ UNCHANGED <<hand, change>>
    /\ UNCHANGED <<rows, lines, flip, served, issued, told, calm>>

(* upsert_sso_user: an account with this email is updated with the claims  *)
(* of the provider, otherwise one is created.                              *)
FindByEmail(t) ==
    /\ At(t, "byEmail")
    /\ \/ \E r \in rows :
            /\ r.email = hand[t].email
            /\ hand' = [hand EXCEPT ![t] = r]
            /\ change' = [change EXCEPT ![t] = [email |-> hand[t].email, role |-> hand[t].role]]
            /\ todo' = [todo EXCEPT ![t] = Rewrite]
       \/ /\ \A r \in rows : r.email # hand[t].email
          /\ todo' = [todo EXCEPT ![t] = <<"localPart">> \o Creation \o Rewrite]
          /\ UNCHANGED <<hand, change>>
    /\ UNCHANGED <<rows, lines, flip, served, issued, told, calm>>

AvoidCollision(t) ==
    /\ At(t, "localPart")
    /\ hand' = [hand EXCEPT ![t].name = IF Taken(@) THEN Suffixed[@] ELSE @]
    /\ Continue(t)
    /\ UNCHANGED reading

AppendRow(t) ==
    /\ At(t, "append")
    /\ rows' = rows \cup {hand[t]}
    /\ told' = told \cup {hand[t]}
    /\ Continue(t)
    /\ UNCHANGED <<hand, change, lines, flip, served, issued, calm>>

(* UserStore.update reads the file once more: every other account as it is *)
(* there now, and this one as the request has it.                          *)
Reread(t) ==
    LET user == Changed(hand[t], change[t]) IN
    /\ At(t, "reread")
    /\ hand' = [hand EXCEPT ![t] = user]
    /\ lines' = [lines EXCEPT ![t] = {r \in rows : r.id # user.id} \cup {user}]
    /\ Continue(t)
    /\ UNCHANGED <<rows, change, flip, served, issued, told, calm>>

(* UserStore.delete. *)
Without(t) ==
    /\ At(t, "without")
    /\ lines' = [lines EXCEPT ![t] = {r \in rows : r.id # hand[t].id}]
    /\ IF lines'[t] = rows THEN End(t) ELSE Continue(t)
    /\ UNCHANGED <<rows, hand, change, flip, served, issued, told, calm>>

(* open("w") *)
Truncate(t) ==
    /\ At(t, "truncate")
    /\ rows' = {}
    /\ Continue(t)
    /\ UNCHANGED <<hand, change, lines, flip, served, issued, told, calm>>

(* The lines land at the start of the file; of what somebody else wrote    *)
(* since the truncation, some may be left behind them.                     *)
WriteRows(t) ==
    /\ At(t, "write")
    /\ \E left \in SUBSET rows : rows' = lines[t] \cup left
    /\ told' = IF hand[t] \in lines[t]
               THEN {IF r.id = hand[t].id THEN Changed(r, change[t]) ELSE r : r \in told}
               ELSE {r \in told : r.id # hand[t].id}
    /\ Continue(t)
    /\ UNCHANGED <<hand, change, lines, flip, served, issued, calm>>

(* The activation half of SCIM's PUT. *)
Flip(t) ==
    /\ At(t, "flip")
    /\ todo' = [todo EXCEPT ![t] =
                  IF flip[t] \subseteq {hand[t].active} THEN <<>>
                  ELSE IF TRUE \in flip[t] THEN <<"byName">> \o Rewrite ELSE Deactivation]
    /\ change' = [change EXCEPT ![t] =
                    [active |-> TRUE \in flip[t]]]
    /\ UNCHANGED <<rows, hand, lines, flip, served, issued, told, calm>>

(* The process dies: its threads stop where they are. *)
Crash ==
    /\ \E t \in Thread : Busy(t)
    /\ calm' = (calm /\ \A t \in Thread : ~Rewriting(t))
    /\ todo' = [t \in Thread |-> <<>>]
    /\ UNCHANGED <<rows, hand, change, lines, flip, served, issued, told>>

-----------------------------------------------------------------------------
Request(t) ==
    \/ CreateUser(t) \/ Bootstrap(t) \/ UpdateUser(t) \/ DeactivateUser(t) \/ DeleteUser(t)
    \/ RotateKey(t) \/ UpsertSsoUser(t) \/ ReplaceUser(t) \/ PatchUser(t) \/ RemoveUser(t)

Access(t) ==
    \/ GetById(t) \/ GetByName(t) \/ CheckFree(t) \/ CheckFreeNew(t) \/ CheckNone(t)
    \/ FindByEmail(t) \/ AvoidCollision(t) \/ AppendRow(t) \/ Reread(t) \/ Without(t)
    \/ Truncate(t) \/ WriteRows(t) \/ Flip(t)

Next == (\E t \in Thread : Request(t) \/ Access(t)) \/ Crash

Spec == Init /\ [][Next]_vars

-----------------------------------------------------------------------------
(* Properties. *)

(* An API key opens the account it was issued for or none, however         *)
(* requests overlap or crash: lines lost, revived or left over in the file *)
(* never pair a key with somebody else's account.                          *)
KeyOpensItsOwner == \A r \in rows : <<r.key, r.id>> \in issued

(* While requests do not overlap, the file holds the accounts as the last  *)
(* requests left them: fields a request does not name stay as they were,   *)
(* a rotated or deleted key and a deactivated account open nothing until   *)
(* somebody says otherwise, and no account is lost, though a SCIM PUT or an *)
(* SSO signup rewrites the file twice and may crash in between.            *)
AsLastTold ==
    calm => /\ rows \subseteq told
            /\ (\A t \in Thread : ~Rewriting(t)) => rows = told

(* While requests do not overlap, no two accounts share a username, the    *)
(* ones SSO signups derive from emails and renamed ones included.          *)
OneAccountPerName == calm => \A r, s \in rows : r.name = s.name => r = s
=============================================================================
