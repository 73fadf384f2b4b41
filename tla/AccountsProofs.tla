--------------------------- MODULE AccountsProofs ---------------------------
(* Accounts: an API key opens the account it was issued for or none, and   *)
(* requests that do not overlap leave users.jsonl as they were told, one   *)
(* account per name; for any number of threads, requests and names, and    *)
(* whatever crashes.                                                       *)
EXTENDS Accounts, FiniteSetTheorems, SequenceTheorems, TLAPS

Sound(r) == <<r.key, r.id>> \in issued

(* While a rotation is on its way it looks its account up by id only, so   *)
(* the new key stays with the id it was issued for.                        *)
RotationSteps ==
    {<<>>, <<"write">>, <<"truncate", "write">>, <<"reread", "truncate", "write">>,
     <<"byId", "reread", "truncate", "write">>}

RotationHeads == {"byId", "reread", "truncate", "write"}

HandSound ==
    \A t \in Thread : Busy(t) => Head(todo[t]) \in {"byId", "byName"} \/ Sound(hand[t])

LinesSound == \A t \in Thread : \A r \in lines[t] : Sound(r)

ChangeSound ==
    \A t \in Thread : "key" \in DOMAIN change[t] =>
        todo[t] \in RotationSteps /\ <<change[t].key, hand[t].id>> \in issued

Typed == TypeOK /\ IsFiniteSet(issued)

IInv == Typed /\ KeyOpensItsOwner /\ LinesSound /\ HandSound /\ ChangeSound

-----------------------------------------------------------------------------
(* Records of accounts. *)

LEMMA ChangedType ==
    ASSUME NEW r \in Row, NEW c \in Fields
    PROVE  /\ Changed(r, c) \in Row
           /\ Changed(r, c).id = r.id
           /\ "key" \notin DOMAIN c => Changed(r, c).key = r.key
           /\ "key" \in DOMAIN c => Changed(r, c).key = c.key
<1>1. CASE c = Unchanged BY <1>1 DEF Changed, Row, Unchanged
<1>2. CASE c \in [name : Name] BY <1>2 DEF Changed, Row
<1>3. CASE c \in [role : Roles] BY <1>3 DEF Changed, Row
<1>4. CASE c \in [active : BOOLEAN] BY <1>4 DEF Changed, Row
<1>5. CASE c \in [key : Keys] BY <1>5 DEF Changed, Row
<1>6. CASE c \in [email : Email] BY <1>6 DEF Changed, Row
<1>7. CASE c \in [email : Email \cup {NoEmail}, role : Roles] BY <1>7 DEF Changed, Row
<1> QED BY <1>1, <1>2, <1>3, <1>4, <1>5, <1>6, <1>7 DEF Fields

LEMMA BlankType == Blank \in Row
BY AccountsAssumption DEF Blank, Row, Keys, Roles

LEMMA FieldTypes ==
    /\ Unchanged \in Fields
    /\ \A n \in Name : [name |-> n] \in Fields
    /\ \A r \in Roles : [role |-> r] \in Fields
    /\ \A b \in BOOLEAN : [active |-> b] \in Fields
    /\ \A k \in Keys : [key |-> k] \in Fields
    /\ \A e \in Email : [email |-> e] \in Fields
    /\ \A e \in Email \cup {NoEmail}, r \in Roles : [email |-> e, role |-> r] \in Fields
BY DEF Fields

LEMMA NoKeyField ==
    /\ "key" \notin DOMAIN Unchanged
    /\ \A n \in Name : "key" \notin DOMAIN [name |-> n]
    /\ \A r \in Roles : "key" \notin DOMAIN [role |-> r]
    /\ \A b \in BOOLEAN : "key" \notin DOMAIN [active |-> b]
    /\ \A e \in Email : "key" \notin DOMAIN [email |-> e]
    /\ \A e \in Email \cup {NoEmail}, r \in Roles : "key" \notin DOMAIN [email |-> e, role |-> r]
BY DEF Unchanged

(* What is known of a program put together from two. *)
LEMMA Joined ==
    ASSUME NEW p \in Seq(Steps), NEW s \in Seq(Steps), p # <<>>
    PROVE  p \o s \in Seq(Steps) /\ p \o s # <<>> /\ Head(p \o s) = Head(p)
<1>1. p \o s \in Seq(Steps) /\ Len(p \o s) = Len(p) + Len(s) /\ (p \o s)[1] = p[1]
  BY ConcatProperties, LenProperties
<1>2. Len(p) > 0 /\ Len(s) \in Nat BY LenProperties, EmptySeq
<1> QED BY <1>1, <1>2

LEMMA Prefixed ==
    ASSUME NEW x \in Steps, NEW s \in Seq(Steps)
    PROVE  Tail(<<x>> \o s) = s
<1> DEFINE w == <<x>> \o s
<1>1. <<x>> \in Seq(Steps) /\ Len(<<x>>) = 1 OBVIOUS
<1>2. /\ w \in Seq(Steps) /\ Len(w) = 1 + Len(s)
      /\ \A i \in 1 .. 1 + Len(s) : w[i] = IF i <= 1 THEN <<x>>[i] ELSE s[i - 1]
  BY <1>1, ConcatProperties
<1>3. Len(s) \in Nat BY LenProperties
<1> HIDE DEF w
<1>4. w # <<>> BY <1>2, <1>3, EmptySeq
<1>5. Tail(w) \in Seq(Steps) /\ Len(Tail(w)) = Len(s)
  BY <1>2, <1>3, <1>4, HeadTailProperties
<1>6. \A i \in 1 .. Len(s) : Tail(w)[i] = s[i]
  BY <1>2, <1>3, <1>4, HeadTailProperties
<1>7. Tail(w) = s BY <1>5, <1>6, SeqEqual
<1> QED BY <1>7 DEF w

LEMMA Programs ==
    /\ Rewrite \in Seq(Steps) /\ Creation \in Seq(Steps)
    /\ Deactivation \in Seq(Steps) /\ Deletion \in Seq(Steps)
    /\ Rewrite # <<>> /\ Creation # <<>> /\ Deactivation # <<>> /\ Deletion # <<>>
    /\ Head(Deactivation) = "byName" /\ Head(Deletion) = "byName"
<1>1. Rewrite \in Seq(Steps) /\ Creation \in Seq(Steps) /\ Deletion \in Seq(Steps)
      /\ Rewrite # <<>> /\ Creation # <<>> /\ Deletion # <<>> /\ Head(Deletion) = "byName"
  BY DEF Rewrite, Creation, Deletion, Steps
<1>2. <<"byName", "byId">> \in Seq(Steps) /\ <<"byName", "byId">> # <<>>
      /\ Head(<<"byName", "byId">>) = "byName"
  BY DEF Steps
<1> QED BY <1>1, <1>2, Joined DEF Deactivation

LEMMA RotationProgram ==
    /\ <<"byId">> \o Rewrite \in RotationSteps
    /\ \A s \in RotationSteps : s # <<>> => Tail(s) \in RotationSteps /\ Head(s) \in RotationHeads
<1>1. <<"byId">> \o Rewrite = <<"byId", "reread", "truncate", "write">>
  <2> DEFINE w == <<"byId">> \o Rewrite
             v == <<"byId", "reread", "truncate", "write">>
  <2>1. /\ w \in Seq(Steps) /\ Len(w) = 1 + 3
        /\ \A i \in 1 .. 1 + 3 : w[i] = IF i <= 1 THEN <<"byId">>[i] ELSE Rewrite[i - 1]
    BY ConcatProperties, <<"byId">> \in Seq(Steps), Rewrite \in Seq(Steps), Len(<<"byId">>) = 1,
       Len(Rewrite) = 3 DEF Rewrite, Steps
  <2>2. v \in Seq(Steps) /\ Len(v) = 4 BY DEF Steps
  <2>3. \A i \in 1 .. 4 : w[i] = v[i] BY <2>1 DEF Rewrite
  <2> HIDE DEF w, v
  <2>4. w = v BY <2>1, <2>2, <2>3, SeqEqual
  <2> QED BY <2>4 DEF w, v
<1>2. \A s \in RotationSteps : s # <<>> => Tail(s) \in RotationSteps /\ Head(s) \in RotationHeads
  <2> SUFFICES ASSUME NEW s \in RotationSteps, s # <<>>
               PROVE  Tail(s) \in RotationSteps /\ Head(s) \in RotationHeads
    OBVIOUS
  <2>1. CASE s = <<"write">> BY <2>1 DEF RotationSteps, RotationHeads
  <2>2. CASE s = <<"truncate", "write">> BY <2>2 DEF RotationSteps, RotationHeads
  <2>3. CASE s = <<"reread", "truncate", "write">> BY <2>3 DEF RotationSteps, RotationHeads
  <2>4. CASE s = <<"byId", "reread", "truncate", "write">> BY <2>4 DEF RotationSteps, RotationHeads
  <2> QED BY <2>1, <2>2, <2>3, <2>4 DEF RotationSteps
<1> QED BY <1>1, <1>2 DEF RotationSteps

LEMMA NextKey ==
    ASSUME Typed
    PROVE  /\ NewKey \in Keys
           /\ \A i \in Keys : /\ issued \cup {<<NewKey, i>>} \subseteq Keys \X Keys
                              /\ IsFiniteSet(issued \cup {<<NewKey, i>>})
<1>1. Cardinality(issued) \in Nat BY FS_CardinalityType DEF Typed
<1>2. NewKey \in Keys BY <1>1 DEF NewKey, Keys
<1>3. \A i \in Keys : IsFiniteSet(issued \cup {<<NewKey, i>>}) BY FS_AddElement DEF Typed
<1> QED BY <1>2, <1>3 DEF Typed, TypeOK

-----------------------------------------------------------------------------
(* Requests. *)

LEMMA BeginKeeps ==
    ASSUME IInv, NEW t \in Thread, NEW steps \in Seq(Steps), NEW user \in Row,
           NEW fields \in Fields, NEW active \in SUBSET BOOLEAN,
           Begin(t, steps, user, fields, active), steps # <<>>,
           issued \subseteq issued', issued' \subseteq Keys \X Keys, IsFiniteSet(issued'),
           Head(steps) \in {"byId", "byName"} \/ <<user.key, user.id>> \in issued',
           "key" \in DOMAIN fields =>
              steps \in RotationSteps /\ <<fields.key, user.id>> \in issued'
    PROVE  IInv'
<1>1. TypeOK'
  <2>1. todo' \in [Thread -> Seq(Steps)] BY DEF IInv, Typed, TypeOK, Begin
  <2>2. hand' \in [Thread -> Row] BY DEF IInv, Typed, TypeOK, Begin
  <2>3. change' \in [Thread -> Fields] BY DEF IInv, Typed, TypeOK, Begin
  <2>4. flip' \in [Thread -> SUBSET BOOLEAN] BY DEF IInv, Typed, TypeOK, Begin
  <2>5. rows' \subseteq Row /\ lines' \in [Thread -> SUBSET Row] /\ told' \subseteq Row
    BY DEF IInv, Typed, TypeOK, Begin
  <2>6. served' \in 0 .. MaxRequests BY AccountsAssumption DEF IInv, Typed, TypeOK, Begin
  <2>7. calm' \in BOOLEAN BY DEF IInv, Typed, TypeOK, Begin
  <2> QED BY <2>1, <2>2, <2>3, <2>4, <2>5, <2>6, <2>7 DEF TypeOK
<1>2. KeyOpensItsOwner' BY DEF IInv, KeyOpensItsOwner, Begin
<1>3. LinesSound' BY DEF IInv, LinesSound, Sound, Begin
<1>4. HandSound'
  <2> SUFFICES ASSUME NEW s \in Thread, Busy(s)'
               PROVE  Head(todo'[s]) \in {"byId", "byName"} \/ <<hand'[s].key, hand'[s].id>> \in issued'
    BY DEF HandSound, Sound
  <2>1. CASE s = t BY <2>1 DEF IInv, Typed, TypeOK, Begin
  <2>2. CASE s # t BY <2>2 DEF IInv, Typed, TypeOK, Begin, HandSound, Sound, Busy
  <2> QED BY <2>1, <2>2
<1>5. ChangeSound'
  <2> SUFFICES ASSUME NEW s \in Thread, "key" \in DOMAIN (change'[s])
               PROVE  todo'[s] \in RotationSteps /\ <<change'[s].key, hand'[s].id>> \in issued'
    BY DEF ChangeSound
  <2>1. CASE s = t BY <2>1 DEF IInv, Typed, TypeOK, Begin
  <2>2. CASE s # t BY <2>2 DEF IInv, Typed, TypeOK, Begin, ChangeSound
  <2> QED BY <2>1, <2>2
<1> QED BY <1>1, <1>2, <1>3, <1>4, <1>5 DEF IInv, Typed

(* A request that draws a key starts with a sound account in hand. *)
LEMMA BeginNewKeeps ==
    ASSUME IInv, NEW t \in Thread, NEW steps \in Seq(Steps), steps # <<>>,
           NEW n \in Name, NEW e \in Email \cup {NoEmail}, NEW r \in Roles,
           BeginNew(t, steps, n, e, r)
    PROVE  IInv'
<1> DEFINE user == [Blank EXCEPT !.id = NewKey, !.key = NewKey, !.name = n, !.email = e, !.role = r]
<1>1. NewKey \in Keys /\ issued' \subseteq Keys \X Keys /\ IsFiniteSet(issued')
  BY NextKey DEF IInv, BeginNew
<1>2. user \in Row /\ user.key = NewKey /\ user.id = NewKey BY <1>1, BlankType DEF Row, Blank
<1>3. Begin(t, steps, user, Unchanged, {}) /\ issued' = issued \cup {<<NewKey, NewKey>>}
  BY DEF BeginNew
<1> HIDE DEF user
<1> QED BY <1>1, <1>2, <1>3, BeginKeeps, FieldTypes, NoKeyField

LEMMA BeginOldKeeps ==
    ASSUME IInv, NEW t \in Thread, NEW steps \in Seq(Steps), steps # <<>>, NEW user \in Row,
           NEW fields \in Fields, NEW active \in SUBSET BOOLEAN,
           BeginOld(t, steps, user, fields, active),
           Head(steps) \in {"byId", "byName"}, "key" \notin DOMAIN fields
    PROVE  IInv'
<1>1. Begin(t, steps, user, fields, active) /\ issued' = issued BY DEF BeginOld
<1>2. issued \subseteq Keys \X Keys /\ IsFiniteSet(issued) BY DEF IInv, Typed, TypeOK
<1> QED BY <1>1, <1>2, BeginKeeps

LEMMA Queries ==
    ASSUME Typed
    PROVE  (\A n \in Name : Named(n) \in Row) /\ (\A i \in Ids : i \in Keys /\ Numbered(i) \in Row)
BY BlankType DEF Named, Numbered, Ids, Typed, TypeOK, Row, Blank

IsProgram(s) == s \in Seq(Steps) /\ s # <<>>
IsLookup(s) == IsProgram(s) /\ Head(s) \in {"byId", "byName"}

LEMMA JoinedProgram ==
    ASSUME NEW p, IsProgram(p), NEW s, IsProgram(s)
    PROVE  IsProgram(p \o s) /\ Head(p \o s) = Head(p)
BY Joined DEF IsProgram

LEMMA RequestPrograms ==
    /\ IsProgram(Creation) /\ IsProgram(<<"free">> \o Creation)
    /\ IsProgram(<<"none">> \o Creation) /\ IsProgram(<<"byEmail">>)
    /\ IsLookup(<<"byName", "freeNew">> \o Rewrite) /\ IsLookup(<<"byName">> \o Rewrite)
    /\ IsLookup(Deactivation) /\ IsLookup(Deletion)
    /\ IsLookup(<<"byId">> \o Rewrite)
    /\ IsLookup(<<"byId", "byName">> \o Rewrite \o <<"flip">>)
    /\ IsLookup(<<"byId">> \o Deactivation) /\ IsLookup(<<"byId">> \o Deletion)
    /\ IsProgram(<<"localPart">> \o Creation \o Rewrite)
<1>1. IsProgram(Rewrite) /\ IsProgram(Creation) /\ IsLookup(Deactivation) /\ IsLookup(Deletion)
  BY Programs DEF IsProgram, IsLookup
<1>2. IsProgram(<<"free">>) /\ IsProgram(<<"none">>) /\ IsProgram(<<"byEmail">>)
      /\ IsProgram(<<"flip">>) /\ IsProgram(<<"localPart">>)
  BY DEF IsProgram, Steps
<1>3. /\ IsProgram(<<"byName">>) /\ Head(<<"byName">>) = "byName"
      /\ IsProgram(<<"byId">>) /\ Head(<<"byId">>) = "byId"
  BY DEF IsProgram, Steps
<1>4. /\ IsProgram(<<"byName", "freeNew">>) /\ Head(<<"byName", "freeNew">>) = "byName"
      /\ IsProgram(<<"byId", "byName">>) /\ Head(<<"byId", "byName">>) = "byId"
  BY DEF IsProgram, Steps
<1>5. IsProgram(<<"free">> \o Creation) BY <1>1, <1>2, JoinedProgram
<1>6. IsProgram(<<"none">> \o Creation) BY <1>1, <1>2, JoinedProgram
<1>7. IsLookup(<<"byName", "freeNew">> \o Rewrite) BY <1>1, <1>4, JoinedProgram DEF IsLookup
<1>8. IsLookup(<<"byName">> \o Rewrite) BY <1>1, <1>3, JoinedProgram DEF IsLookup
<1>9. IsLookup(<<"byId">> \o Rewrite) BY <1>1, <1>3, JoinedProgram DEF IsLookup
<1>10. IsLookup(<<"byId", "byName">> \o Rewrite) BY <1>1, <1>4, JoinedProgram DEF IsLookup
<1>11. IsLookup(<<"byId", "byName">> \o Rewrite \o <<"flip">>)
  BY <1>2, <1>10, JoinedProgram DEF IsLookup
<1>12. IsLookup(<<"byId">> \o Deactivation) BY <1>1, <1>3, JoinedProgram DEF IsLookup
<1>13. IsLookup(<<"byId">> \o Deletion) BY <1>1, <1>3, JoinedProgram DEF IsLookup
<1>14. IsProgram(<<"localPart">> \o Creation) BY <1>1, <1>2, JoinedProgram
<1>15. IsProgram(<<"localPart">> \o Creation \o Rewrite) BY <1>1, <1>14, JoinedProgram
<1> QED BY <1>1, <1>2, <1>5, <1>6, <1>7, <1>8, <1>9, <1>11, <1>12, <1>13, <1>15

(* An update or deletion of the account found by a name or an id. *)
LEMMA LookupKeeps ==
    ASSUME IInv, NEW t \in Thread, NEW steps, IsLookup(steps), NEW user \in Row,
           NEW fields \in Fields, NEW active \in SUBSET BOOLEAN, "key" \notin DOMAIN fields,
           BeginOld(t, steps, user, fields, active)
    PROVE  IInv'
BY BeginOldKeeps DEF IsLookup, IsProgram

LEMMA RequestKeeps ==
    ASSUME IInv, NEW t \in Thread, Request(t)
    PROVE  IInv'
<1>1. CASE CreateUser(t)
  <2>1. PICK n \in Name, steps \in {Creation, <<"free">> \o Creation} :
           BeginNew(t, steps, n, NoEmail, "member")
    BY <1>1 DEF CreateUser
  <2>2. steps \in Seq(Steps) /\ steps # <<>> BY RequestPrograms DEF IsProgram
  <2> QED BY <2>1, <2>2, BeginNewKeeps DEF Roles
<1>2. CASE Bootstrap(t)
  BY <1>2, BeginNewKeeps, AccountsAssumption, RequestPrograms DEF Bootstrap, Roles, IsProgram
<1>3. CASE UpdateUser(t)
  <2> DEFINE named == <<"byName", "freeNew">> \o Rewrite
             other == <<"byName">> \o Rewrite
  <2>1. PICK n \in Name : \/ \E new \in Name : BeginOld(t, named, Named(n), [name |-> new], {})
                          \/ \E r \in Roles : BeginOld(t, other, Named(n), [role |-> r], {})
                          \/ \E b \in BOOLEAN : BeginOld(t, other, Named(n), [active |-> b], {})
    BY <1>3 DEF UpdateUser
  <2>2. Named(n) \in Row BY Queries DEF IInv
  <2>3. IsLookup(named) /\ IsLookup(other) BY RequestPrograms
  <2> HIDE DEF named, other
  <2>4. CASE \E new \in Name : BeginOld(t, named, Named(n), [name |-> new], {})
    <3>1. PICK new \in Name : BeginOld(t, named, Named(n), [name |-> new], {}) BY <2>4
    <3>2. [name |-> new] \in Fields /\ "key" \notin DOMAIN [name |-> new] BY FieldTypes, NoKeyField
    <3> QED BY <3>1, <3>2, <2>2, <2>3, LookupKeeps
  <2>5. CASE \E r \in Roles : BeginOld(t, other, Named(n), [role |-> r], {})
    <3>1. PICK r \in Roles : BeginOld(t, other, Named(n), [role |-> r], {}) BY <2>5
    <3>2. [role |-> r] \in Fields /\ "key" \notin DOMAIN [role |-> r] BY FieldTypes, NoKeyField
    <3> QED BY <3>1, <3>2, <2>2, <2>3, LookupKeeps
  <2>6. CASE \E b \in BOOLEAN : BeginOld(t, other, Named(n), [active |-> b], {})
    <3>1. PICK b \in BOOLEAN : BeginOld(t, other, Named(n), [active |-> b], {}) BY <2>6
    <3>2. [active |-> b] \in Fields /\ "key" \notin DOMAIN [active |-> b] BY FieldTypes, NoKeyField
    <3> QED BY <3>1, <3>2, <2>2, <2>3, LookupKeeps
  <2> QED BY <2>1, <2>4, <2>5, <2>6
<1>4. CASE DeactivateUser(t)
  <2>1. PICK n \in Name : BeginOld(t, Deactivation, Named(n), [active |-> FALSE], {})
    BY <1>4 DEF DeactivateUser
  <2>2. Named(n) \in Row BY Queries DEF IInv
  <2>3. [active |-> FALSE] \in Fields /\ "key" \notin DOMAIN [active |-> FALSE]
    BY FieldTypes, NoKeyField
  <2> QED BY <2>1, <2>2, <2>3, LookupKeeps, RequestPrograms
<1>5. CASE DeleteUser(t)
  <2>1. PICK n \in Name : BeginOld(t, Deletion, Named(n), Unchanged, {})
    BY <1>5 DEF DeleteUser
  <2>2. Named(n) \in Row BY Queries DEF IInv
  <2> QED BY <2>1, <2>2, LookupKeeps, RequestPrograms, FieldTypes, NoKeyField
<1>6. CASE RotateKey(t)
  <2> DEFINE steps == <<"byId">> \o Rewrite
  <2>1. PICK i \in Ids : /\ Begin(t, steps, Numbered(i), [key |-> NewKey], {})
                         /\ issued' = issued \cup {<<NewKey, i>>}
    BY <1>6 DEF RotateKey
  <2>2. Numbered(i) \in Row /\ i \in Keys /\ Numbered(i).id = i
    BY Queries DEF IInv, Numbered, Blank
  <2>3. NewKey \in Keys /\ issued' \subseteq Keys \X Keys /\ IsFiniteSet(issued')
    BY <2>1, <2>2, NextKey DEF IInv
  <2>4. [key |-> NewKey] \in Fields /\ [key |-> NewKey].key = NewKey BY <2>3, FieldTypes
  <2>5. IsLookup(steps) /\ steps \in RotationSteps BY RotationProgram, RequestPrograms
  <2> HIDE DEF steps
  <2>6. steps \in Seq(Steps) /\ steps # <<>> /\ Head(steps) \in {"byId", "byName"}
    BY <2>5 DEF IsLookup, IsProgram
  <2>7. issued \subseteq issued' /\ <<NewKey, Numbered(i).id>> \in issued' BY <2>1, <2>2
  <2> DEFINE fields == [key |-> NewKey]
  <2>8. fields \in Fields /\ fields.key = NewKey BY <2>4
  <2> HIDE DEF fields
  <2>9. Begin(t, steps, Numbered(i), fields, {}) BY <2>1 DEF fields
  <2> QED BY <2>2, <2>3, <2>5, <2>6, <2>7, <2>8, <2>9, BeginKeeps
<1>7. CASE UpsertSsoUser(t)
  <2>1. PICK e \in Email, r \in Roles : BeginNew(t, <<"byEmail">>, LocalPart[e], e, r)
    BY <1>7 DEF UpsertSsoUser
  <2>2. LocalPart[e] \in Name BY AccountsAssumption
  <2> QED BY <2>1, <2>2, BeginNewKeeps, RequestPrograms DEF IsProgram
<1>8. CASE ReplaceUser(t)
  <2> DEFINE steps == <<"byId", "byName">> \o Rewrite \o <<"flip">>
  <2>1. PICK i \in Ids, e \in Email, active \in {{}, {TRUE}, {FALSE}} :
          BeginOld(t, steps, Numbered(i), [email |-> e], active)
    BY <1>8 DEF ReplaceUser
  <2>2. Numbered(i) \in Row BY Queries DEF IInv
  <2>3. IsLookup(steps) BY RequestPrograms
  <2>4. [email |-> e] \in Fields /\ "key" \notin DOMAIN [email |-> e] BY FieldTypes, NoKeyField
  <2> HIDE DEF steps
  <2> QED BY <2>1, <2>2, <2>3, <2>4, LookupKeeps
<1>9. CASE PatchUser(t)
  <2> DEFINE steps == <<"byId">> \o Deactivation
  <2>1. PICK i \in Ids : BeginOld(t, steps, Numbered(i), [active |-> FALSE], {})
    BY <1>9 DEF PatchUser
  <2>2. Numbered(i) \in Row BY Queries DEF IInv
  <2>3. IsLookup(steps) BY RequestPrograms
  <2>4. [active |-> FALSE] \in Fields /\ "key" \notin DOMAIN [active |-> FALSE]
    BY FieldTypes, NoKeyField
  <2> HIDE DEF steps
  <2> QED BY <2>1, <2>2, <2>3, <2>4, LookupKeeps
<1>10. CASE RemoveUser(t)
  <2> DEFINE steps == <<"byId">> \o Deletion
  <2>1. PICK i \in Ids : BeginOld(t, steps, Numbered(i), Unchanged, {})
    BY <1>10 DEF RemoveUser
  <2>2. Numbered(i) \in Row BY Queries DEF IInv
  <2>3. IsLookup(steps) BY RequestPrograms
  <2> HIDE DEF steps
  <2> QED BY <2>1, <2>2, <2>3, LookupKeeps, FieldTypes, NoKeyField
<1> QED BY <1>1, <1>2, <1>3, <1>4, <1>5, <1>6, <1>7, <1>8, <1>9, <1>10 DEF Request

-----------------------------------------------------------------------------
(* Accesses to the file.  Most change one thread's program by a step, and  *)
(* at most one account or one set of lines.                                *)

(* What an access by t leaves in its hands. *)
LEMMA AccessKeeps ==
    ASSUME IInv, NEW t \in Thread, UNCHANGED <<flip, served, issued, calm>>,
           NEW todo1 \in Seq(Steps), todo' = [todo EXCEPT ![t] = todo1],
           NEW hand1 \in Row, hand' = [hand EXCEPT ![t] = hand1],
           NEW change1 \in Fields, change' = [change EXCEPT ![t] = change1],
           NEW lines1 \in SUBSET Row, lines' = [lines EXCEPT ![t] = lines1],
           rows' \subseteq Row, told' \subseteq Row,
           \A r \in rows' : Sound(r), \A r \in lines1 : Sound(r),
           todo1 # <<>> => Head(todo1) \in {"byId", "byName"} \/ Sound(hand1),
           "key" \in DOMAIN change1 =>
               todo1 \in RotationSteps /\ <<change1.key, hand1.id>> \in issued
    PROVE  IInv'
<1>1. TypeOK'
  <2>1. todo' \in [Thread -> Seq(Steps)] BY DEF IInv, Typed, TypeOK
  <2>2. hand' \in [Thread -> Row] BY DEF IInv, Typed, TypeOK
  <2>3. change' \in [Thread -> Fields] BY DEF IInv, Typed, TypeOK
  <2>4. lines' \in [Thread -> SUBSET Row] BY DEF IInv, Typed, TypeOK
  <2>5. flip' \in [Thread -> SUBSET BOOLEAN] /\ served' \in 0 .. MaxRequests
        /\ issued' \subseteq Keys \X Keys /\ calm' \in BOOLEAN
    BY DEF IInv, Typed, TypeOK
  <2> QED BY <2>1, <2>2, <2>3, <2>4, <2>5 DEF TypeOK
<1>2. KeyOpensItsOwner' BY DEF KeyOpensItsOwner, Sound
<1>3. LinesSound'
  <2> SUFFICES ASSUME NEW s \in Thread, NEW r \in lines'[s] PROVE <<r.key, r.id>> \in issued'
    BY DEF LinesSound, Sound
  <2>1. CASE s = t BY <2>1 DEF IInv, Typed, TypeOK, Sound
  <2>2. CASE s # t BY <2>2 DEF IInv, Typed, TypeOK, LinesSound, Sound
  <2> QED BY <2>1, <2>2
<1>4. HandSound'
  <2> SUFFICES ASSUME NEW s \in Thread, todo'[s] # <<>>
               PROVE  Head(todo'[s]) \in {"byId", "byName"} \/ <<hand'[s].key, hand'[s].id>> \in issued'
    BY DEF HandSound, Sound, Busy
  <2>1. CASE s = t BY <2>1 DEF IInv, Typed, TypeOK, Sound
  <2>2. CASE s # t BY <2>2 DEF IInv, Typed, TypeOK, HandSound, Sound, Busy
  <2> QED BY <2>1, <2>2
<1>5. ChangeSound'
  <2> SUFFICES ASSUME NEW s \in Thread, "key" \in DOMAIN (change'[s])
               PROVE  todo'[s] \in RotationSteps /\ <<change'[s].key, hand'[s].id>> \in issued'
    BY DEF ChangeSound
  <2>1. CASE s = t BY <2>1 DEF IInv, Typed, TypeOK
  <2>2. CASE s # t BY <2>2 DEF IInv, Typed, TypeOK, ChangeSound
  <2> QED BY <2>1, <2>2
<1> QED BY <1>1, <1>2, <1>3, <1>4, <1>5 DEF IInv, Typed

(* The registers of a thread, and what the invariant says of them. *)
LEMMA Registers ==
    ASSUME IInv, NEW t \in Thread, Busy(t)
    PROVE  /\ todo[t] \in Seq(Steps) /\ todo[t] # <<>> /\ Tail(todo[t]) \in Seq(Steps)
           /\ <<>> \in Seq(Steps)
           /\ hand[t] \in Row /\ change[t] \in Fields /\ lines[t] \in SUBSET Row
           /\ hand = [hand EXCEPT ![t] = hand[t]]
           /\ change = [change EXCEPT ![t] = change[t]]
           /\ lines = [lines EXCEPT ![t] = lines[t]]
           /\ rows \subseteq Row /\ told \subseteq Row
           /\ \A r \in rows : Sound(r)
           /\ \A r \in lines[t] : Sound(r)
           /\ Head(todo[t]) \notin {"byId", "byName"} => Sound(hand[t])
           /\ "key" \in DOMAIN change[t] =>
                 /\ todo[t] \in RotationSteps /\ Tail(todo[t]) \in RotationSteps
                 /\ <<>> \in RotationSteps /\ Head(todo[t]) \in RotationHeads
                 /\ <<change[t].key, hand[t].id>> \in issued
<1>1. todo[t] \in Seq(Steps) /\ hand[t] \in Row /\ change[t] \in Fields /\ lines[t] \in SUBSET Row
  BY DEF IInv, Typed, TypeOK
<1>2. todo[t] # <<>> BY DEF Busy
<1>3. Tail(todo[t]) \in Seq(Steps) /\ <<>> \in Seq(Steps) BY <1>1, <1>2
<1>4. /\ hand = [hand EXCEPT ![t] = hand[t]]
      /\ change = [change EXCEPT ![t] = change[t]]
      /\ lines = [lines EXCEPT ![t] = lines[t]]
  BY DEF IInv, Typed, TypeOK
<1>5. /\ rows \subseteq Row /\ told \subseteq Row /\ \A r \in rows : Sound(r)
      /\ \A r \in lines[t] : Sound(r)
  BY DEF IInv, Typed, TypeOK, KeyOpensItsOwner, LinesSound, Sound
<1>6. Head(todo[t]) \notin {"byId", "byName"} => Sound(hand[t]) BY DEF IInv, HandSound
<1>7. "key" \in DOMAIN change[t] =>
        todo[t] \in RotationSteps /\ <<change[t].key, hand[t].id>> \in issued
  BY DEF IInv, ChangeSound
<1>8. <<>> \in RotationSteps BY DEF RotationSteps
<1> QED BY <1>1, <1>2, <1>3, <1>4, <1>5, <1>6, <1>7, <1>8, RotationProgram

(* Going on, or stopping, with the registers as they are. *)
LEMMA MoveKeeps ==
    ASSUME IInv, NEW t \in Thread, Busy(t), Sound(hand[t]) \/ End(t),
           Continue(t) \/ End(t), UNCHANGED <<flip, served, issued, calm>>,
           UNCHANGED <<hand, change, lines>>,
           rows' \subseteq Row, told' \subseteq Row, \A r \in rows' : Sound(r)
    PROVE  IInv'
<1>1. CASE Continue(t) /\ Sound(hand[t]) BY <1>1, Registers, AccessKeeps DEF Continue
<1>2. CASE End(t)
  <2>1. PICK none : none = <<>> OBVIOUS
  <2>2. none \in Seq(Steps) /\ todo' = [todo EXCEPT ![t] = none] BY <1>2, <2>1 DEF End
  <2>3. "key" \in DOMAIN change[t] =>
          none \in RotationSteps /\ <<change[t].key, hand[t].id>> \in issued
    BY <2>1, Registers
  <2> QED BY <2>1, <2>2, <2>3, Registers, AccessKeeps
<1> QED BY <1>1, <1>2

LEMMA LookUpKeeps ==
    ASSUME IInv, NEW t \in Thread, GetById(t) \/ GetByName(t)
    PROVE  IInv'
<1>1. Busy(t) BY DEF GetById, GetByName, LookUp, At
<1>2. UNCHANGED <<flip, served, issued, calm, rows, change, lines, told>>
  BY DEF GetById, GetByName, LookUp, reading
<1>3. CASE hand' = hand /\ End(t) BY <1>1, <1>2, <1>3, Registers, MoveKeeps
<1>4. CASE \E r \in rows : /\ r.id = hand[t].id \/ Head(todo[t]) = "byName"
                           /\ hand' = [hand EXCEPT ![t] = r] /\ Continue(t)
  <2>1. PICK r \in rows : /\ r.id = hand[t].id \/ Head(todo[t]) = "byName"
                          /\ hand' = [hand EXCEPT ![t] = r] /\ Continue(t)
    BY <1>4
  <2>2. r \in Row /\ Sound(r) BY <1>1, Registers
  <2>3. "key" \in DOMAIN change[t] => <<change[t].key, r.id>> \in issued
    BY <2>1, <1>1, Registers DEF RotationHeads
  <2> QED BY <2>1, <2>2, <2>3, <1>1, <1>2, Registers, AccessKeeps DEF Continue
<1> QED BY <1>3, <1>4 DEF GetById, GetByName, LookUp, At

LEMMA RequireKeeps ==
    ASSUME IInv, NEW t \in Thread, CheckFree(t) \/ CheckFreeNew(t) \/ CheckNone(t)
    PROVE  IInv'
<1>1. Busy(t) /\ Head(todo[t]) \notin {"byId", "byName"}
  BY DEF CheckFree, CheckFreeNew, CheckNone, Require, At
<1>2. /\ UNCHANGED <<flip, served, issued, calm>> /\ UNCHANGED <<hand, change, lines>>
      /\ UNCHANGED <<rows, told>> /\ (Continue(t) \/ End(t))
  BY DEF CheckFree, CheckFreeNew, CheckNone, Require, reading
<1> QED BY <1>1, <1>2, Registers, MoveKeeps

LEMMA FindByEmailKeeps ==
    ASSUME IInv, NEW t \in Thread, FindByEmail(t)
    PROVE  IInv'
<1>1. Busy(t) /\ Sound(hand[t]) BY Registers DEF FindByEmail, At
<1>2. UNCHANGED <<flip, served, issued, calm>> /\ UNCHANGED <<rows, lines, told>>
  BY DEF FindByEmail
<1>3. CASE /\ todo' = [todo EXCEPT ![t] = <<"localPart">> \o Creation \o Rewrite]
           /\ UNCHANGED <<hand, change>>
           /\ \A r \in rows : r.email # hand[t].email
  <2>1. PICK steps : steps = <<"localPart">> \o Creation \o Rewrite OBVIOUS
  <2>2. IsProgram(steps) BY <2>1, RequestPrograms
  <2>3. "key" \notin DOMAIN change[t] BY <1>1, Registers DEF FindByEmail, At, RotationHeads
  <2>4. todo' = [todo EXCEPT ![t] = steps] /\ steps \in Seq(Steps) BY <1>3, <2>1, <2>2 DEF IsProgram
  <2>5. /\ hand' = [hand EXCEPT ![t] = hand[t]] /\ change' = [change EXCEPT ![t] = change[t]]
        /\ lines' = [lines EXCEPT ![t] = lines[t]]
    BY <1>1, <1>2, <1>3, Registers
  <2>6. rows' \subseteq Row /\ told' \subseteq Row /\ \A r \in rows' : Sound(r)
    BY <1>1, <1>2, Registers
  <2>7. hand[t] \in Row /\ change[t] \in Fields /\ lines[t] \in SUBSET Row
        /\ \A r \in lines[t] : Sound(r)
    BY <1>1, Registers
  <2> QED BY <2>3, <2>4, <2>5, <2>6, <2>7, <1>1, <1>2, AccessKeeps
<1>4. CASE \E r \in rows :
            /\ r.email = hand[t].email
            /\ hand' = [hand EXCEPT ![t] = r]
            /\ change' = [change EXCEPT ![t] = [email |-> hand[t].email, role |-> hand[t].role]]
            /\ todo' = [todo EXCEPT ![t] = Rewrite]
  <2>1. PICK r \in rows :
            /\ hand' = [hand EXCEPT ![t] = r]
            /\ change' = [change EXCEPT ![t] = [email |-> hand[t].email, role |-> hand[t].role]]
            /\ todo' = [todo EXCEPT ![t] = Rewrite]
    BY <1>4
  <2>2. hand[t].email \in Email \cup {NoEmail} /\ hand[t].role \in Roles /\ r \in Row /\ Sound(r)
    BY <1>1, Registers DEF Row
  <2> DEFINE fields == [email |-> hand[t].email, role |-> hand[t].role]
  <2>3. fields \in Fields /\ "key" \notin DOMAIN fields BY <2>2, FieldTypes, NoKeyField
  <2>4. change' = [change EXCEPT ![t] = fields] BY <2>1
  <2>5. Rewrite \in Seq(Steps) BY Programs
  <2> HIDE DEF fields
  <2>6. rows' \subseteq Row /\ told' \subseteq Row /\ \A q \in rows' : Sound(q)
    BY <1>1, <1>2, Registers
  <2>7. lines' = [lines EXCEPT ![t] = lines[t]] /\ lines[t] \in SUBSET Row
        /\ \A q \in lines[t] : Sound(q)
    BY <1>1, <1>2, Registers
  <2> QED BY <2>1, <2>2, <2>3, <2>4, <2>5, <2>6, <2>7, <1>1, <1>2, AccessKeeps
<1> QED BY <1>3, <1>4 DEF FindByEmail

LEMMA AvoidCollisionKeeps ==
    ASSUME IInv, NEW t \in Thread, AvoidCollision(t)
    PROVE  IInv'
<1> DEFINE row == [hand[t] EXCEPT !.name = IF Taken(@) THEN Suffixed[@] ELSE @]
<1>1. Busy(t) /\ Head(todo[t]) = "localPart" BY DEF AvoidCollision, At
<1>2. Sound(hand[t]) /\ hand[t] \in Row BY <1>1, Registers
<1>3. row \in Row /\ row.id = hand[t].id /\ row.key = hand[t].key
  BY <1>2, AccountsAssumption DEF Row
<1>4. hand' = [hand EXCEPT ![t] = row] /\ Continue(t) BY <1>1, Registers DEF AvoidCollision
<1>5. UNCHANGED <<flip, served, issued, calm, rows, change, lines, told>>
  BY DEF AvoidCollision, reading
<1>6. Sound(row) BY <1>2, <1>3 DEF Sound
<1> HIDE DEF row
<1>7. rows' \subseteq Row /\ told' \subseteq Row /\ \A q \in rows' : Sound(q)
  BY <1>1, <1>5, Registers
<1>8. /\ lines' = [lines EXCEPT ![t] = lines[t]] /\ lines[t] \in SUBSET Row
      /\ \A q \in lines[t] : Sound(q)
      /\ change' = [change EXCEPT ![t] = change[t]] /\ change[t] \in Fields
  BY <1>1, <1>5, Registers
<1>9. todo' = [todo EXCEPT ![t] = Tail(todo[t])] /\ Tail(todo[t]) \in Seq(Steps)
  BY <1>1, <1>4, Registers DEF Continue
<1>10. "key" \in DOMAIN change[t] =>
         Tail(todo[t]) \in RotationSteps /\ <<change[t].key, row.id>> \in issued
  BY <1>1, <1>3, Registers
<1> QED BY <1>1, <1>3, <1>4, <1>5, <1>6, <1>7, <1>8, <1>9, <1>10, AccessKeeps

LEMMA WritingKeeps ==
    ASSUME IInv, NEW t \in Thread, AppendRow(t) \/ Truncate(t)
    PROVE  IInv'
<1>1. Busy(t) /\ Sound(hand[t]) /\ hand[t] \in Row BY Registers DEF AppendRow, Truncate, At
<1>2. rows' \subseteq Row /\ told' \subseteq Row /\ \A r \in rows' : Sound(r)
  BY <1>1, Registers DEF AppendRow, Truncate
<1>3. /\ UNCHANGED <<flip, served, issued, calm>> /\ UNCHANGED <<hand, change, lines>>
      /\ Continue(t)
  BY DEF AppendRow, Truncate
<1> QED BY <1>1, <1>2, <1>3, MoveKeeps

LEMMA RereadKeeps ==
    ASSUME IInv, NEW t \in Thread, Reread(t)
    PROVE  IInv'
<1> DEFINE user == Changed(hand[t], change[t])
           all == {r \in rows : r.id # user.id} \cup {user}
<1>1. Busy(t) /\ Sound(hand[t]) /\ hand[t] \in Row /\ change[t] \in Fields
  BY Registers DEF Reread, At
<1>2. /\ user \in Row /\ user.id = hand[t].id
      /\ "key" \notin DOMAIN change[t] => user.key = hand[t].key
      /\ "key" \in DOMAIN change[t] => user.key = change[t].key
  BY <1>1, ChangedType
<1>3. Sound(user) BY <1>1, <1>2, Registers DEF Sound
<1>4. /\ hand' = [hand EXCEPT ![t] = user] /\ lines' = [lines EXCEPT ![t] = all] /\ Continue(t)
      /\ UNCHANGED <<rows, change, flip, served, issued, told, calm>>
  BY DEF Reread
<1> HIDE DEF user
<1>5. all \in SUBSET Row /\ \A r \in all : Sound(r) BY <1>1, <1>2, <1>3, Registers
<1> HIDE DEF all
<1>6. rows' \subseteq Row /\ told' \subseteq Row /\ \A q \in rows' : Sound(q)
  BY <1>1, <1>4, Registers
<1>7. change' = [change EXCEPT ![t] = change[t]] BY <1>1, <1>4, Registers
<1>8. todo' = [todo EXCEPT ![t] = Tail(todo[t])] /\ Tail(todo[t]) \in Seq(Steps)
  BY <1>1, <1>4, Registers DEF Continue
<1>9. "key" \in DOMAIN change[t] =>
         Tail(todo[t]) \in RotationSteps /\ <<change[t].key, user.id>> \in issued
  BY <1>1, <1>2, Registers
<1> QED BY <1>1, <1>2, <1>3, <1>4, <1>5, <1>6, <1>7, <1>8, <1>9, AccessKeeps

LEMMA WithoutKeeps ==
    ASSUME IInv, NEW t \in Thread, Without(t)
    PROVE  IInv'
<1> DEFINE all == {r \in rows : r.id # hand[t].id}
<1>1. Busy(t) /\ Sound(hand[t]) BY Registers DEF Without, At
<1>2. /\ lines' = [lines EXCEPT ![t] = all] /\ (Continue(t) \/ End(t))
      /\ UNCHANGED <<rows, hand, change, flip, served, issued, told, calm>>
  BY DEF Without
<1>3. all \in SUBSET Row /\ \A r \in all : Sound(r) BY <1>1, Registers
<1>4. PICK rest : rest \in {<<>>, Tail(todo[t])} /\ todo' = [todo EXCEPT ![t] = rest]
  BY <1>2 DEF Continue, End
<1>5. rest \in Seq(Steps) BY <1>1, <1>4, Registers
<1>6. "key" \in DOMAIN change[t] => rest \in RotationSteps BY <1>1, <1>4, Registers
<1> HIDE DEF all
<1> QED BY <1>1, <1>2, <1>3, <1>4, <1>5, <1>6, Registers, AccessKeeps

LEMMA WriteRowsKeeps ==
    ASSUME IInv, NEW t \in Thread, WriteRows(t)
    PROVE  IInv'
<1>1. Busy(t) /\ Sound(hand[t]) BY Registers DEF WriteRows, At
<1>2. PICK left \in SUBSET rows : rows' = lines[t] \cup left BY DEF WriteRows
<1>3. rows' \subseteq Row /\ \A r \in rows' : Sound(r) BY <1>1, <1>2, Registers
<1>4. told' \subseteq Row
  <2>1. \A r \in told : Changed(r, change[t]) \in Row BY <1>1, Registers, ChangedType
  <2> QED BY <1>1, <2>1, Registers DEF WriteRows
<1>5. /\ UNCHANGED <<flip, served, issued, calm>> /\ UNCHANGED <<hand, change, lines>>
      /\ Continue(t)
  BY DEF WriteRows
<1> QED BY <1>1, <1>3, <1>4, <1>5, MoveKeeps

LEMMA FlipKeeps ==
    ASSUME IInv, NEW t \in Thread, Flip(t)
    PROVE  IInv'
<1> DEFINE found == <<"byName">> \o Rewrite
<1>1. Busy(t) /\ Sound(hand[t]) BY Registers DEF Flip, At
<1>2. PICK steps : /\ steps \in {<<>>, found, Deactivation}
                   /\ todo' = [todo EXCEPT ![t] = steps]
  BY DEF Flip
<1>3. IsLookup(found) /\ IsLookup(Deactivation) BY RequestPrograms
<1> HIDE DEF found
<1>4. steps \in Seq(Steps)
  <2>1. <<>> \in Seq(Steps) BY <1>1, Registers
  <2> QED BY <1>2, <1>3, <2>1 DEF IsLookup, IsProgram
<1> DEFINE fields == [active |-> TRUE \in flip[t]]
<1>5. fields \in [active : BOOLEAN] /\ "key" \notin DOMAIN fields OBVIOUS
<1>6. change' = [change EXCEPT ![t] = fields] BY DEF Flip
<1>7. UNCHANGED <<rows, hand, lines, flip, served, issued, told, calm>> BY DEF Flip
<1> HIDE DEF fields
<1>8. fields \in Fields BY <1>5 DEF Fields
<1>9. rows' \subseteq Row /\ told' \subseteq Row /\ \A q \in rows' : Sound(q)
  BY <1>1, <1>7, Registers
<1>10. /\ lines' = [lines EXCEPT ![t] = lines[t]] /\ lines[t] \in SUBSET Row
       /\ \A q \in lines[t] : Sound(q)
       /\ hand' = [hand EXCEPT ![t] = hand[t]] /\ hand[t] \in Row
  BY <1>1, <1>7, Registers
<1> QED BY <1>1, <1>2, <1>4, <1>5, <1>6, <1>7, <1>8, <1>9, <1>10, AccessKeeps

LEMMA CrashKeeps ==
    ASSUME IInv, Crash
    PROVE  IInv'
<1>1. todo' = [t \in Thread |-> <<>>] /\ UNCHANGED <<rows, hand, change, lines, flip, served, issued, told>>
      /\ calm' \in BOOLEAN
  BY DEF Crash, IInv, Typed, TypeOK
<1>2. todo' \in [Thread -> Seq(Steps)] BY <1>1
<1>3. TypeOK' BY <1>1, <1>2 DEF IInv, Typed, TypeOK
<1>4. HandSound' BY <1>1 DEF HandSound, Busy
<1>5. ChangeSound'
  <2> SUFFICES ASSUME NEW s \in Thread, "key" \in DOMAIN (change'[s])
               PROVE  todo'[s] \in RotationSteps /\ <<change'[s].key, hand'[s].id>> \in issued'
    BY DEF ChangeSound
  <2> QED BY <1>1 DEF IInv, ChangeSound, RotationSteps
<1>6. KeyOpensItsOwner' /\ LinesSound' /\ IsFiniteSet(issued)'
  BY <1>1 DEF IInv, Typed, KeyOpensItsOwner, LinesSound, Sound
<1> QED BY <1>3, <1>4, <1>5, <1>6 DEF IInv, Typed

LEMMA StutterKeeps ==
    ASSUME IInv, UNCHANGED vars
    PROVE  IInv'
BY DEF IInv, Typed, TypeOK, KeyOpensItsOwner, LinesSound, HandSound, ChangeSound, Sound, Busy, vars

-----------------------------------------------------------------------------
LEMMA Initially == Init => IInv
<1> SUFFICES ASSUME Init PROVE IInv
  OBVIOUS
<1>1. PICK e \in Email : rows = {First, Second(e)} BY DEF Init
<1>2. First \in Row /\ First.id = 1 /\ First.key = 1 BY BlankType DEF First, Blank, Row, Keys, Roles
<1>3. Second(e) \in Row /\ Second(e).id = 2 /\ Second(e).key = 2
  BY BlankType, AccountsAssumption DEF Second, Blank, Row, Keys, Roles
<1>4. issued \subseteq Keys \X Keys /\ IsFiniteSet(issued)
  <2>1. issued = {<<1, 1>>, <<2, 2>>} BY DEF Init
  <2>2. IsFiniteSet({<<1, 1>>}) BY FS_Singleton
  <2>3. issued = {<<1, 1>>} \cup {<<2, 2>>} BY <2>1
  <2>4. IsFiniteSet(issued) BY <2>2, <2>3, FS_AddElement
  <2>5. issued \subseteq Keys \X Keys BY <2>1 DEF Keys
  <2> QED BY <2>4, <2>5
<1>5. TypeOK
  <2>1. rows \subseteq Row /\ told \subseteq Row BY <1>1, <1>2, <1>3 DEF Init
  <2>2. todo \in [Thread -> Seq(Steps)] BY DEF Init
  <2>3. hand \in [Thread -> Row] /\ change \in [Thread -> Fields] BY BlankType, FieldTypes DEF Init
  <2>4. lines \in [Thread -> SUBSET Row] /\ flip \in [Thread -> SUBSET BOOLEAN] BY DEF Init
  <2>5. served \in 0 .. MaxRequests /\ calm \in BOOLEAN BY AccountsAssumption DEF Init
  <2> QED BY <2>1, <2>2, <2>3, <2>4, <2>5, <1>4 DEF TypeOK
<1>6. KeyOpensItsOwner BY <1>1, <1>2, <1>3 DEF Init, KeyOpensItsOwner
<1>7. LinesSound /\ HandSound BY DEF Init, LinesSound, HandSound, Busy
<1>8. ChangeSound BY NoKeyField DEF Init, ChangeSound
<1> QED BY <1>4, <1>5, <1>6, <1>7, <1>8 DEF IInv, Typed

LEMMA Stepwise == IInv /\ [Next]_vars => IInv'
<1> SUFFICES ASSUME IInv, [Next]_vars PROVE IInv'
  OBVIOUS
<1>1. CASE UNCHANGED vars BY <1>1, StutterKeeps
<1>2. CASE Crash BY <1>2, CrashKeeps
<1>3. CASE \E t \in Thread : Request(t) BY <1>3, RequestKeeps
<1>4. CASE \E t \in Thread : Access(t)
  <2>1. PICK t \in Thread : Access(t) BY <1>4
  <2> QED
    BY <2>1, LookUpKeeps, RequireKeeps, FindByEmailKeeps, AvoidCollisionKeeps, WritingKeeps,
       RereadKeeps, WithoutKeeps, WriteRowsKeeps, FlipKeeps DEF Access
<1> QED BY <1>1, <1>2, <1>3, <1>4 DEF Next

-----------------------------------------------------------------------------
(* What holds while requests do not overlap.  The accounts a request may   *)
(* still change are in the file, in its hand or among its lines; what it   *)
(* needs to know of them is told by the access that comes next.            *)

(* What may follow what in a program, and that none ends on a truncation.  *)
Follows ==
    ({"byId", "byName"} \X {"byId", "byName", "freeNew", "reread", "without"})
    \cup {<<"none", "free">>, <<"localPart", "free">>, <<"free", "free">>, <<"free", "append">>,
          <<"append", "reread">>, <<"freeNew", "reread">>, <<"reread", "truncate">>,
          <<"without", "truncate">>, <<"truncate", "write">>, <<"write", "flip">>}

Ordered(s) ==
    /\ \A i \in 1 .. Len(s) - 1 : <<s[i], s[i + 1]>> \in Follows
    /\ s # <<>> => s[Len(s)] # "truncate"

(* The program of a request that renames an account, from any point on. *)
RenameSteps ==
    {<<>>, <<"write">>, <<"truncate", "write">>, <<"reread", "truncate", "write">>,
     <<"freeNew", "reread", "truncate", "write">>,
     <<"byName", "freeNew", "reread", "truncate", "write">>}

Counted(keys) == \A p \in keys : p[1] <= Cardinality(keys) /\ p[2] <= Cardinality(keys)

Course ==
    /\ \A t \in Thread : Ordered(todo[t])
    /\ \A t \in Thread : "name" \in DOMAIN change[t] => todo[t] \in RenameSteps
    /\ Counted(issued)

Distinct(s) == \A r, q \in s : r.id = q.id \/ r.name = q.name => r = q

Outcome(user, fields, new, all) ==
    IF user \in new
    THEN {IF r.id = user.id THEN Changed(r, fields) ELSE r : r \in all}
    ELSE {r \in all : r.id # user.id}

Fit(step, user, fields, new, all) ==
    /\ step \in {"byEmail", "localPart", "none", "free", "append"} => \A r \in all : r.id # user.id
    /\ step = "append" => \A r \in all : r.name # user.name
    /\ step \in {"freeNew", "reread", "without"} => user \in all
    /\ step = "reread" /\ "name" \in DOMAIN fields =>
          fields.name = user.name \/ \A r \in all : r.name # fields.name
    /\ step \in {"truncate", "write"} => new = Outcome(user, fields, new, all) /\ Distinct(new)

Told(steps, user, fields, new, file, all) ==
    /\ Distinct(all)
    /\ steps # <<>> => Fit(Head(steps), user, fields, new, all)
    /\ file = IF steps # <<>> /\ Head(steps) = "write" THEN {} ELSE all

CalmInv ==
    calm => /\ \A s, t \in Thread : Busy(s) /\ Busy(t) => s = t
            /\ \A t \in Thread : Busy(t) =>
                  Told(todo[t], hand[t], change[t], lines[t], rows, told)
            /\ (\A t \in Thread : ~Busy(t)) => Distinct(told) /\ rows = told

LEMMA OrderedTail ==
    ASSUME NEW s \in Seq(Steps), s # <<>>, Ordered(s)
    PROVE  /\ Ordered(Tail(s)) /\ Tail(s) \in Seq(Steps)
           /\ Tail(s) # <<>> => <<Head(s), Head(Tail(s))>> \in Follows
           /\ Head(s) = "truncate" => Tail(s) # <<>>
<1>1. Len(s) \in Nat /\ Len(s) > 0 BY LenProperties, EmptySeq
<1>2. Tail(s) \in Seq(Steps) /\ Len(Tail(s)) = Len(s) - 1 /\ Head(s) = s[1]
      /\ \A i \in 1 .. Len(s) - 1 : Tail(s)[i] = s[i + 1]
  BY <1>1, HeadTailProperties
<1>3. ASSUME Tail(s) # <<>>
      PROVE  <<Head(s), Head(Tail(s))>> \in Follows /\ Tail(s)[Len(Tail(s))] # "truncate"
  <2>1. Len(s) - 1 \in Nat /\ Len(s) - 1 > 0 BY <1>1, <1>2, <1>3, EmptySeq, LenProperties
  <2>2. Head(Tail(s)) = s[2] BY <1>2, <2>1
  <2>3. <<s[1], s[2]>> \in Follows BY <2>1 DEF Ordered
  <2>4. Tail(s)[Len(s) - 1] = s[Len(s)] BY <1>1, <1>2, <2>1
  <2> QED BY <1>2, <2>2, <2>3, <2>4 DEF Ordered
<1>4. \A i \in 1 .. Len(Tail(s)) - 1 : <<Tail(s)[i], Tail(s)[i + 1]>> \in Follows
  <2> SUFFICES ASSUME NEW i \in 1 .. Len(Tail(s)) - 1
               PROVE  <<Tail(s)[i], Tail(s)[i + 1]>> \in Follows
    OBVIOUS
  <2>1. i \in 1 .. Len(s) - 1 /\ i + 1 \in 1 .. Len(s) - 1 BY <1>1, <1>2
  <2>2. Tail(s)[i] = s[i + 1] /\ Tail(s)[i + 1] = s[(i + 1) + 1] BY <1>2, <2>1
  <2> QED BY <2>1, <2>2 DEF Ordered
<1>5. Head(s) = "truncate" => Tail(s) # <<>>
  <2> SUFFICES ASSUME Tail(s) = <<>> PROVE Head(s) # "truncate" OBVIOUS
  <2>1. Len(s) = 1 BY <1>1, <1>2
  <2> QED BY <1>2, <2>1 DEF Ordered
<1> QED BY <1>2, <1>3, <1>4, <1>5 DEF Ordered

LEMMA OrderedJoined ==
    ASSUME NEW p \in Seq(Steps), NEW s \in Seq(Steps), p # <<>>, s # <<>>, Ordered(p), Ordered(s),
           <<p[Len(p)], Head(s)>> \in Follows
    PROVE  Ordered(p \o s) /\ (p \o s)[Len(p \o s)] = s[Len(s)]
<1>1. Len(p) \in Nat /\ Len(s) \in Nat /\ Len(p) > 0 /\ Len(s) > 0 BY LenProperties, EmptySeq
<1>2. /\ p \o s \in Seq(Steps) /\ Len(p \o s) = Len(p) + Len(s)
      /\ \A i \in 1 .. Len(p) + Len(s) : (p \o s)[i] = IF i <= Len(p) THEN p[i] ELSE s[i - Len(p)]
  BY ConcatProperties
<1> DEFINE w == p \o s
<1> HIDE DEF w
<1>3. \A i \in 1 .. Len(p) + Len(s) - 1 : <<w[i], w[i + 1]>> \in Follows
  <2> SUFFICES ASSUME NEW i \in 1 .. Len(p) + Len(s) - 1 PROVE <<w[i], w[i + 1]>> \in Follows OBVIOUS
  <2>1. CASE i < Len(p)
    <3>1. w[i] = p[i] /\ w[i + 1] = p[i + 1] BY <1>1, <1>2, <2>1 DEF w
    <3> QED BY <1>1, <2>1, <3>1 DEF Ordered
  <2>2. CASE i = Len(p)
    <3>1. w[i] = p[Len(p)] /\ w[i + 1] = s[1] BY <1>1, <1>2, <2>2 DEF w
    <3> QED BY <1>1, <3>1
  <2>3. CASE i > Len(p)
    <3> DEFINE j == i - Len(p)
    <3>1. j \in 1 .. Len(s) - 1 BY <1>1, <2>3
    <3>2. w[i] = s[j] /\ w[i + 1] = s[j + 1] BY <1>1, <1>2, <2>3 DEF w
    <3> QED BY <3>1, <3>2 DEF Ordered
  <2> QED BY <1>1, <2>1, <2>2, <2>3
<1>4. w[Len(w)] = s[Len(s)] BY <1>1, <1>2 DEF w
<1>5. s[Len(s)] # "truncate" BY DEF Ordered
<1> QED BY <1>2, <1>3, <1>4, <1>5 DEF Ordered, w


(* The programs of requests. *)
LEMMA RequestOrder ==
    /\ Ordered(Rewrite) /\ Ordered(Creation) /\ Ordered(<<"free">> \o Creation)
    /\ Ordered(<<"none">> \o Creation) /\ Ordered(<<"byEmail">>)
    /\ Ordered(<<"byName", "freeNew">> \o Rewrite) /\ Ordered(<<"byName">> \o Rewrite)
    /\ Ordered(Deactivation) /\ Ordered(Deletion)
    /\ Ordered(<<"byId">> \o Rewrite)
    /\ Ordered(<<"byId", "byName">> \o Rewrite \o <<"flip">>)
    /\ Ordered(<<"byId">> \o Deactivation) /\ Ordered(<<"byId">> \o Deletion)
    /\ Ordered(<<"localPart">> \o Creation \o Rewrite)
<1>1. /\ Ordered(Rewrite) /\ Rewrite \in Seq(Steps) /\ Rewrite # <<>>
      /\ Head(Rewrite) = "reread" /\ Rewrite[Len(Rewrite)] = "write"
  BY DEF Rewrite, Ordered, Follows, Steps
<1>2. /\ Ordered(Creation) /\ Creation \in Seq(Steps) /\ Creation # <<>>
      /\ Head(Creation) = "free" /\ Creation[Len(Creation)] = "append"
  BY DEF Creation, Ordered, Follows, Steps
<1>3. /\ Ordered(Deletion) /\ Deletion \in Seq(Steps) /\ Deletion # <<>>
      /\ Head(Deletion) = "byName"
  BY DEF Deletion, Ordered, Follows, Steps
<1>4. ASSUME NEW x \in Steps \ {"truncate"}
      PROVE  <<x>> \in Seq(Steps) /\ <<x>> # <<>> /\ Ordered(<<x>>) /\ Len(<<x>>) = 1 /\ <<x>>[1] = x
  BY DEF Ordered
<1>5. ASSUME NEW x \in {"byId", "byName"}, NEW y \in {"byId", "byName", "freeNew"}
      PROVE  /\ <<x, y>> \in Seq(Steps) /\ <<x, y>> # <<>> /\ Ordered(<<x, y>>)
             /\ <<x, y>>[Len(<<x, y>>)] = y
  BY DEF Ordered, Follows, Steps
<1>6. /\ <<"none", "free">> \in Follows /\ <<"free", "free">> \in Follows
      /\ <<"localPart", "free">> \in Follows /\ <<"append", "reread">> \in Follows
      /\ <<"freeNew", "reread">> \in Follows /\ <<"write", "flip">> \in Follows
      /\ \A x, y \in {"byId", "byName"} : <<x, y>> \in Follows /\ <<x, "reread">> \in Follows
  BY DEF Follows
<1>7. {"none", "free", "localPart", "byName", "byId", "byEmail", "flip"} \subseteq Steps \ {"truncate"}
  BY DEF Steps
<1>8. Ordered(<<"free">> \o Creation) BY <1>2, <1>4, <1>6, <1>7, OrderedJoined
<1>9. Ordered(<<"none">> \o Creation) BY <1>2, <1>4, <1>6, <1>7, OrderedJoined
<1>10. Ordered(<<"byEmail">>) BY <1>4, <1>7
<1>11. Ordered(<<"byName", "freeNew">> \o Rewrite) BY <1>1, <1>5, <1>6, OrderedJoined
<1>12. Ordered(<<"byName">> \o Rewrite) BY <1>1, <1>4, <1>6, <1>7, OrderedJoined
<1>13. Ordered(<<"byId">> \o Rewrite) BY <1>1, <1>4, <1>6, <1>7, OrderedJoined
<1>14. Ordered(Deactivation) BY <1>1, <1>5, <1>6, OrderedJoined DEF Deactivation
<1>15. Ordered(<<"byId", "byName">> \o Rewrite \o <<"flip">>)
  <2> DEFINE front == <<"byId", "byName">> \o Rewrite
  <2>1. Ordered(front) /\ front[Len(front)] = "write" BY <1>1, <1>5, <1>6, OrderedJoined
  <2>2. front \in Seq(Steps) /\ front # <<>> BY <1>1, <1>5, Joined
  <2>3. /\ <<"flip">> \in Seq(Steps) /\ <<"flip">> # <<>> /\ Ordered(<<"flip">>)
        /\ Head(<<"flip">>) = "flip"
    BY <1>4, <1>7
  <2> HIDE DEF front
  <2>4. Ordered(front \o <<"flip">>) BY <1>6, <2>1, <2>2, <2>3, OrderedJoined
  <2> QED BY <2>4 DEF front
<1>16. Ordered(<<"byId">> \o Deactivation)
  <2>1. Deactivation \in Seq(Steps) /\ Deactivation # <<>> /\ Head(Deactivation) = "byName" BY Programs
  <2> QED BY <1>4, <1>6, <1>7, <1>14, <2>1, OrderedJoined
<1>17. Ordered(<<"byId">> \o Deletion) BY <1>3, <1>4, <1>6, <1>7, OrderedJoined
<1>18. Ordered(<<"localPart">> \o Creation \o Rewrite)
  <2> DEFINE front == <<"localPart">> \o Creation
  <2>1. Ordered(front) /\ front[Len(front)] = "append" BY <1>2, <1>4, <1>6, <1>7, OrderedJoined
  <2>2. front \in Seq(Steps) /\ front # <<>> BY <1>2, <1>4, <1>7, Joined
  <2> HIDE DEF front
  <2>3. Ordered(front \o Rewrite) BY <1>1, <1>6, <2>1, <2>2, OrderedJoined
  <2> QED BY <2>3 DEF front
<1> QED BY <1>1, <1>2, <1>3, <1>8, <1>9, <1>10, <1>11, <1>12, <1>13, <1>14, <1>15, <1>16, <1>17, <1>18

LEMMA RenameProgram ==
    /\ <<"byName", "freeNew">> \o Rewrite \in RenameSteps
    /\ <<>> \in RenameSteps
    /\ \A s \in RenameSteps : s # <<>> =>
          /\ Tail(s) \in RenameSteps
          /\ Head(s) \in {"byName", "freeNew", "reread", "truncate", "write"}
          /\ Head(s) = "byName" => Tail(s) # <<>> /\ Head(Tail(s)) = "freeNew"
<1>1. <<"byName", "freeNew">> \o Rewrite = <<"byName", "freeNew", "reread", "truncate", "write">>
  <2> DEFINE w == <<"byName", "freeNew">> \o Rewrite
             v == <<"byName", "freeNew", "reread", "truncate", "write">>
  <2>1. /\ w \in Seq(Steps) /\ Len(w) = 2 + 3
        /\ \A i \in 1 .. 2 + 3 : w[i] = IF i <= 2 THEN <<"byName", "freeNew">>[i] ELSE Rewrite[i - 2]
    BY ConcatProperties, <<"byName", "freeNew">> \in Seq(Steps), Rewrite \in Seq(Steps),
       Len(<<"byName", "freeNew">>) = 2, Len(Rewrite) = 3 DEF Rewrite, Steps
  <2>2. v \in Seq(Steps) /\ Len(v) = 5 BY DEF Steps
  <2>3. \A i \in 1 .. 5 : w[i] = v[i] BY <2>1 DEF Rewrite
  <2> HIDE DEF w, v
  <2>4. w = v BY <2>1, <2>2, <2>3, SeqEqual
  <2> QED BY <2>4 DEF w, v
<1>2. ASSUME NEW s \in RenameSteps, s # <<>>
      PROVE  /\ Tail(s) \in RenameSteps
             /\ Head(s) \in {"byName", "freeNew", "reread", "truncate", "write"}
             /\ Head(s) = "byName" => Tail(s) # <<>> /\ Head(Tail(s)) = "freeNew"
  <2>1. CASE s = <<"write">> BY <2>1 DEF RenameSteps
  <2>2. CASE s = <<"truncate", "write">> BY <2>2 DEF RenameSteps
  <2>3. CASE s = <<"reread", "truncate", "write">> BY <2>3 DEF RenameSteps
  <2>4. CASE s = <<"freeNew", "reread", "truncate", "write">> BY <2>4 DEF RenameSteps
  <2>5. CASE s = <<"byName", "freeNew", "reread", "truncate", "write">> BY <2>5 DEF RenameSteps
  <2> QED BY <1>2, <2>1, <2>2, <2>3, <2>4, <2>5 DEF RenameSteps
<1> QED BY <1>1, <1>2 DEF RenameSteps

LEMMA Counting ==
    ASSUME Typed, Counted(issued), NEW i \in Keys, i <= NewKey
    PROVE  Counted(issued \cup {<<NewKey, i>>})
<1>1. Cardinality(issued) \in Nat BY FS_CardinalityType DEF Typed
<1>2. \A p \in issued : p[1] \in Nat /\ p[2] \in Nat /\ p = <<p[1], p[2]>>
  BY DEF Typed, TypeOK, Keys
<1>3. <<NewKey, i>> \notin issued
  <2> SUFFICES ASSUME <<NewKey, i>> \in issued PROVE FALSE OBVIOUS
  <2>1. <<NewKey, i>>[1] <= Cardinality(issued) BY DEF Counted
  <2> QED BY <1>1, <2>1 DEF NewKey
<1>4. Cardinality(issued \cup {<<NewKey, i>>}) = NewKey
  BY <1>3, FS_AddElement DEF Typed, NewKey
<1>5. NewKey = Cardinality(issued) + 1 BY DEF NewKey
<1> SUFFICES ASSUME NEW p \in issued \cup {<<NewKey, i>>} PROVE p[1] <= NewKey /\ p[2] <= NewKey
  BY <1>4 DEF Counted
<1>6. CASE p \in issued BY <1>1, <1>2, <1>5, <1>6 DEF Counted
<1>7. CASE p = <<NewKey, i>> BY <1>1, <1>5, <1>7
<1> QED BY <1>6, <1>7

LEMMA ChangedName ==
    ASSUME NEW r \in Row, NEW c \in Fields
    PROVE  /\ "name" \notin DOMAIN c => Changed(r, c).name = r.name
           /\ "name" \in DOMAIN c => Changed(r, c).name = c.name
<1>1. CASE c = Unchanged BY <1>1 DEF Changed, Row, Unchanged
<1>2. CASE c \in [name : Name] BY <1>2 DEF Changed, Row
<1>3. CASE c \in [role : Roles] BY <1>3 DEF Changed, Row
<1>4. CASE c \in [active : BOOLEAN] BY <1>4 DEF Changed, Row
<1>5. CASE c \in [key : Keys] BY <1>5 DEF Changed, Row
<1>6. CASE c \in [email : Email] BY <1>6 DEF Changed, Row
<1>7. CASE c \in [email : Email \cup {NoEmail}, role : Roles] BY <1>7 DEF Changed, Row
<1> QED BY <1>1, <1>2, <1>3, <1>4, <1>5, <1>6, <1>7 DEF Fields

(* What an update that read the file once more is about to write. *)
LEMMA Rewritten ==
    ASSUME NEW all \in SUBSET Row, Distinct(all), NEW user \in all, NEW c \in Fields,
           "name" \in DOMAIN c => c.name = user.name \/ \A r \in all : r.name # c.name,
           NEW new, new = {r \in all : r.id # user.id} \cup {Changed(user, c)}
    PROVE  Changed(user, c) \in new /\ new = Outcome(Changed(user, c), c, new, all) /\ Distinct(new)
<1> DEFINE after == Changed(user, c)
<1>1. after \in new OBVIOUS
<1>2. after.id = user.id BY ChangedType
<1>3. after.name = user.name \/ \A r \in all : r.name # after.name BY ChangedName
<1>4. \A r \in all : r.id = user.id => r = user BY DEF Distinct
<1>5. new = {IF r.id = after.id THEN Changed(r, c) ELSE r : r \in all}
  <2>1. ASSUME NEW x \in new PROVE \E r \in all : x = IF r.id = after.id THEN Changed(r, c) ELSE r
    <3>1. CASE x = after BY <1>2, <3>1
    <3>2. CASE x \in all /\ x.id # user.id BY <1>2, <3>2
    <3> QED BY <2>1, <3>1, <3>2
  <2>2. ASSUME NEW r \in all PROVE (IF r.id = after.id THEN Changed(r, c) ELSE r) \in new
    <3>1. CASE r.id = user.id
      <4>1. r = user BY <1>4, <3>1
      <4> QED BY <1>1, <1>2, <4>1
    <3>2. CASE r.id # user.id BY <1>2, <3>2
    <3> QED BY <3>1, <3>2
  <2> QED BY <2>1, <2>2
<1>6. Distinct(new)
  <2> SUFFICES ASSUME NEW r \in new, NEW q \in new, r.id = q.id \/ r.name = q.name PROVE r = q
    BY DEF Distinct
  <2>1. ASSUME NEW x \in new, x # after PROVE x \in all /\ x.id # user.id BY <2>1
  <2>2. CASE r = after /\ q = after BY <2>2
  <2>3. ASSUME NEW x \in new, x # after PROVE x.id # after.id /\ x.name # after.name
    <3>1. x \in all /\ x.id # user.id /\ x # user BY <2>1, <2>3
    <3> QED BY <1>2, <1>3, <3>1 DEF Distinct
  <2>4. CASE r # after /\ q # after BY <2>1, <2>4 DEF Distinct
  <2> HIDE DEF after
  <2> QED BY <2>2, <2>3, <2>4
<1> HIDE DEF after
<1>7. new = Outcome(after, c, new, all) BY <1>1, <1>5 DEF Outcome
<1> QED BY <1>1, <1>6, <1>7 DEF after

(* A step of t that leaves the others alone, and comes while nobody else   *)
(* is under way or the accounts need not be as told any more.              *)
LEMMA CalmStep ==
    ASSUME IInv, Course, CalmInv, NEW t \in Thread,
           NEW todo1 \in Seq(Steps), Ordered(todo1), todo' = [todo EXCEPT ![t] = todo1],
           NEW hand1 \in Row, hand' = [hand EXCEPT ![t] = hand1],
           NEW change1 \in Fields, change' = [change EXCEPT ![t] = change1],
           NEW lines1 \in SUBSET Row, lines' = [lines EXCEPT ![t] = lines1],
           "name" \in DOMAIN change1 => todo1 \in RenameSteps,
           Counted(issued'),
           calm' => /\ calm /\ \A s \in Thread : s # t => ~Busy(s)
                    /\ Told(todo1, hand1, change1, lines1, rows', told')
    PROVE  Course' /\ CalmInv'
<1>1. /\ todo'[t] = todo1 /\ hand'[t] = hand1 /\ change'[t] = change1 /\ lines'[t] = lines1
      /\ \A s \in Thread : s # t => todo'[s] = todo[s] /\ change'[s] = change[s]
  BY DEF IInv, Typed, TypeOK
<1>2. Course' BY <1>1 DEF Course
<1>3. ASSUME calm' PROVE CalmInv'
  <2>1. \A s \in Thread : Busy(s)' => s = t BY <1>1, <1>3 DEF Busy
  <2>2. Told(todo'[t], hand'[t], change'[t], lines'[t], rows', told') BY <1>1, <1>3
  <2>3. ~Busy(t)' => Distinct(told') /\ rows' = told' BY <2>2 DEF Told, Busy
  <2>4. \A s \in Thread : Busy(s)' => Told(todo'[s], hand'[s], change'[s], lines'[s], rows', told')
    BY <2>1, <2>2
  <2> QED BY <2>1, <2>3, <2>4 DEF CalmInv
<1> QED BY <1>2, <1>3 DEF CalmInv

(* An access of t. *)
LEMMA CalmAccess ==
    ASSUME IInv, Course, CalmInv, NEW t \in Thread, Busy(t),
           NEW todo1 \in Seq(Steps), Ordered(todo1), todo' = [todo EXCEPT ![t] = todo1],
           NEW hand1 \in Row, hand' = [hand EXCEPT ![t] = hand1],
           NEW change1 \in Fields, change' = [change EXCEPT ![t] = change1],
           NEW lines1 \in SUBSET Row, lines' = [lines EXCEPT ![t] = lines1],
           "name" \in DOMAIN change1 => todo1 \in RenameSteps,
           UNCHANGED <<issued, calm>>,
           calm => Told(todo1, hand1, change1, lines1, rows', told')
    PROVE  Course' /\ CalmInv'
<1>1. calm => \A s \in Thread : s # t => ~Busy(s) BY DEF CalmInv
<1>2. Counted(issued') BY DEF Course
<1> QED BY <1>1, <1>2, CalmStep

(* What an access finds. *)
LEMMA CalmNow ==
    ASSUME IInv, Course, CalmInv, NEW t \in Thread, Busy(t)
    PROVE  /\ Ordered(todo[t]) /\ Ordered(Tail(todo[t])) /\ Ordered(<<>>)
           /\ Tail(todo[t]) # <<>> => <<Head(todo[t]), Head(Tail(todo[t]))>> \in Follows
           /\ Head(todo[t]) = "truncate" => Tail(todo[t]) # <<>>
           /\ "name" \in DOMAIN change[t] =>
                 /\ Tail(todo[t]) \in RenameSteps /\ <<>> \in RenameSteps
                 /\ Head(todo[t]) \in {"byName", "freeNew", "reread", "truncate", "write"}
                 /\ Head(todo[t]) = "byName" => Tail(todo[t]) # <<>> /\ Head(Tail(todo[t])) = "freeNew"
           /\ calm => Told(todo[t], hand[t], change[t], lines[t], rows, told)
<1>1. todo[t] \in Seq(Steps) /\ todo[t] # <<>> BY Registers
<1>2. Ordered(todo[t]) BY DEF Course
<1>3. "name" \in DOMAIN change[t] => todo[t] \in RenameSteps BY DEF Course
<1>4. Ordered(<<>>) BY DEF Ordered
<1>5. calm => Told(todo[t], hand[t], change[t], lines[t], rows, told) BY DEF CalmInv
<1> QED BY <1>1, <1>2, <1>3, <1>4, <1>5, OrderedTail, RenameProgram

(* Accesses that only read, one by one. *)
LEMMA LookUpCalm ==
    ASSUME IInv, Course, CalmInv, NEW t \in Thread, GetById(t) \/ GetByName(t)
    PROVE  Course' /\ CalmInv'
<1>1. Busy(t) /\ Head(todo[t]) \in {"byId", "byName"} BY DEF GetById, GetByName, LookUp, At
<1>2. UNCHANGED <<issued, calm, rows, change, lines, told>>
  BY DEF GetById, GetByName, LookUp, reading
<1>3. /\ change' = [change EXCEPT ![t] = change[t]] /\ change[t] \in Fields
      /\ lines' = [lines EXCEPT ![t] = lines[t]] /\ lines[t] \in SUBSET Row
  BY <1>1, <1>2, Registers
<1>4. CASE hand' = hand /\ End(t)
  <2>1. PICK none : none = <<>> OBVIOUS
  <2>2. none \in Seq(Steps) /\ todo' = [todo EXCEPT ![t] = none] BY <1>4, <2>1 DEF End
  <2>3. /\ hand' = [hand EXCEPT ![t] = hand[t]] /\ hand[t] \in Row
    BY <1>1, <1>4, Registers
  <2>4. Ordered(none) /\ ("name" \in DOMAIN change[t] => none \in RenameSteps) BY <1>1, <2>1, CalmNow
  <2>5. calm => Told(none, hand[t], change[t], lines[t], rows', told')
    BY <1>1, <1>2, <2>1, CalmNow DEF Told
  <2> QED BY <2>2, <2>3, <2>4, <2>5, <1>1, <1>2, <1>3, CalmAccess
<1>5. CASE \E r \in rows : hand' = [hand EXCEPT ![t] = r] /\ Continue(t)
  <2>1. PICK r \in rows : hand' = [hand EXCEPT ![t] = r] /\ Continue(t) BY <1>5
  <2>2. r \in Row BY <1>1, Registers
  <2>3. todo' = [todo EXCEPT ![t] = Tail(todo[t])] /\ Tail(todo[t]) \in Seq(Steps)
    BY <1>1, <2>1, Registers DEF Continue
  <2>4. Ordered(Tail(todo[t])) /\ ("name" \in DOMAIN change[t] => Tail(todo[t]) \in RenameSteps)
    BY <1>1, CalmNow
  <2>5. ASSUME calm PROVE Told(Tail(todo[t]), r, change[t], lines[t], rows', told')
    <3>1. Told(todo[t], hand[t], change[t], lines[t], rows, told) BY <1>1, <2>5, CalmNow
    <3>2. rows' = told' /\ told' = told /\ rows = told /\ Distinct(told') BY <1>1, <1>2, <3>1 DEF Told
    <3>3. ASSUME Tail(todo[t]) # <<>>
          PROVE  /\ Head(Tail(todo[t])) \in {"byId", "byName", "freeNew", "reread", "without"}
                 /\ Head(Tail(todo[t])) = "reread" => "name" \notin DOMAIN change[t]
      BY <1>1, <3>3, CalmNow DEF Follows
    <3>4. Tail(todo[t]) # <<>> => Fit(Head(Tail(todo[t])), r, change[t], lines[t], told')
      BY <3>2, <3>3 DEF Fit
    <3>5. Tail(todo[t]) # <<>> => Head(Tail(todo[t])) # "write" BY <3>3
    <3> QED BY <3>2, <3>4, <3>5 DEF Told
  <2> QED BY <2>1, <2>2, <2>3, <2>4, <2>5, <1>1, <1>2, <1>3, CalmAccess
<1> QED BY <1>4, <1>5 DEF GetById, GetByName, LookUp

(* What t goes on with, or does not, when it leaves its registers alone. *)
LEMMA CalmMove ==
    ASSUME IInv, Course, CalmInv, NEW t \in Thread, Busy(t),
           UNCHANGED <<hand, change, lines, issued, calm>>,
           \/ Continue(t) /\ (calm => Told(Tail(todo[t]), hand[t], change[t], lines[t], rows', told'))
           \/ End(t) /\ UNCHANGED <<rows, told>> /\ Head(todo[t]) # "write"
    PROVE  Course' /\ CalmInv'
<1>1. /\ change' = [change EXCEPT ![t] = change[t]] /\ change[t] \in Fields
      /\ lines' = [lines EXCEPT ![t] = lines[t]] /\ lines[t] \in SUBSET Row
      /\ hand' = [hand EXCEPT ![t] = hand[t]] /\ hand[t] \in Row
  BY Registers
<1>2. CASE End(t) /\ UNCHANGED <<rows, told>> /\ Head(todo[t]) # "write"
  <2>1. PICK none : none = <<>> OBVIOUS
  <2>2. none \in Seq(Steps) /\ todo' = [todo EXCEPT ![t] = none] BY <1>2, <2>1 DEF End
  <2>3. Ordered(none) /\ ("name" \in DOMAIN change[t] => none \in RenameSteps) BY <2>1, CalmNow
  <2>4. calm => Told(none, hand[t], change[t], lines[t], rows', told')
    BY <1>2, <2>1, CalmNow DEF Told
  <2> QED BY <2>2, <2>3, <2>4, <1>1, CalmAccess
<1>3. CASE /\ Continue(t)
           /\ (calm => Told(Tail(todo[t]), hand[t], change[t], lines[t], rows', told'))
  <2>1. todo' = [todo EXCEPT ![t] = Tail(todo[t])] /\ Tail(todo[t]) \in Seq(Steps)
    BY <1>3, Registers DEF Continue
  <2>2. Ordered(Tail(todo[t])) /\ ("name" \in DOMAIN change[t] => Tail(todo[t]) \in RenameSteps)
    BY CalmNow
  <2> QED BY <2>1, <2>2, <1>1, <1>3, CalmAccess
<1> QED BY <1>2, <1>3

LEMMA RequireCalm ==
    ASSUME IInv, Course, CalmInv, NEW t \in Thread, CheckFree(t) \/ CheckFreeNew(t) \/ CheckNone(t)
    PROVE  Course' /\ CalmInv'
<1>1. Busy(t) /\ Head(todo[t]) \in {"free", "freeNew", "none"}
  BY DEF CheckFree, CheckFreeNew, CheckNone, Require, At
<1>2. UNCHANGED <<hand, change, lines, issued, calm, rows, told>>
  BY DEF CheckFree, CheckFreeNew, CheckNone, Require, reading
<1>3. CASE End(t) BY <1>1, <1>2, <1>3, CalmMove
<1>4. CASE Continue(t) /\ ~End(t)
  <2>1. ASSUME calm PROVE Told(Tail(todo[t]), hand[t], change[t], lines[t], rows', told')
    <3>1. Told(todo[t], hand[t], change[t], lines[t], rows, told) BY <1>1, <2>1, CalmNow
    <3>2. rows' = told' /\ told' = told /\ rows = told /\ Distinct(told')
          /\ Fit(Head(todo[t]), hand[t], change[t], lines[t], told')
      BY <1>1, <1>2, <3>1, Registers DEF Told
    <3>3. ASSUME Tail(todo[t]) # <<>>
          PROVE  Fit(Head(Tail(todo[t])), hand[t], change[t], lines[t], told')
                 /\ Head(Tail(todo[t])) # "write"
      <4>1. <<Head(todo[t]), Head(Tail(todo[t]))>> \in Follows BY <1>1, <3>3, CalmNow
      <4>2. CASE Head(todo[t]) = "free"
        <5>1. ~Taken(hand[t].name) BY <1>4, <4>2 DEF CheckFree, CheckFreeNew, CheckNone, Require, At
        <5>2. Head(Tail(todo[t])) \in {"free", "append"} BY <4>1, <4>2 DEF Follows
        <5> QED BY <3>2, <4>2, <5>1, <5>2 DEF Fit, Taken
      <4>3. CASE Head(todo[t]) = "freeNew"
        <5>1. change[t].name = hand[t].name \/ ~Taken(change[t].name)
          BY <1>4, <4>3 DEF CheckFree, CheckFreeNew, CheckNone, Require, At
        <5>2. Head(Tail(todo[t])) = "reread" BY <4>1, <4>3 DEF Follows
        <5> QED BY <3>2, <4>3, <5>1, <5>2 DEF Fit, Taken
      <4>4. CASE Head(todo[t]) = "none"
        <5>1. Head(Tail(todo[t])) = "free" BY <4>1, <4>4 DEF Follows
        <5> QED BY <3>2, <4>4, <5>1 DEF Fit
      <4> QED BY <1>1, <4>2, <4>3, <4>4
    <3> QED BY <3>2, <3>3 DEF Told
  <2> QED BY <2>1, <1>1, <1>2, <1>4, CalmMove
<1> QED BY <1>3, <1>4 DEF CheckFree, CheckFreeNew, CheckNone, Require

LEMMA FindByEmailCalm ==
    ASSUME IInv, Course, CalmInv, NEW t \in Thread, FindByEmail(t)
    PROVE  Course' /\ CalmInv'
<1>1. Busy(t) /\ Head(todo[t]) = "byEmail" /\ hand[t] \in Row BY Registers DEF FindByEmail, At
<1>2. UNCHANGED <<issued, calm, rows, lines, told>> BY DEF FindByEmail
<1>3. lines' = [lines EXCEPT ![t] = lines[t]] /\ lines[t] \in SUBSET Row BY <1>1, <1>2, Registers
<1>4. calm => /\ rows' = told' /\ told' = told /\ rows = told /\ Distinct(told')
              /\ \A r \in told : r.id # hand[t].id
  BY <1>1, <1>2, CalmNow DEF Told, Fit, Busy
<1>5. CASE /\ todo' = [todo EXCEPT ![t] = <<"localPart">> \o Creation \o Rewrite]
           /\ UNCHANGED <<hand, change>>
  <2>1. PICK steps : steps = <<"localPart">> \o Creation \o Rewrite OBVIOUS
  <2>2. IsProgram(steps) /\ Ordered(steps) BY <2>1, RequestPrograms, RequestOrder
  <2>3. Head(steps) = "localPart"
    <3>1. <<"localPart">> \in Seq(Steps) /\ <<"localPart">> # <<>> /\ Head(<<"localPart">>) = "localPart"
      BY DEF Steps
    <3>2. <<"localPart">> \o Creation \in Seq(Steps) /\ <<"localPart">> \o Creation # <<>>
          /\ Head(<<"localPart">> \o Creation) = "localPart"
      BY <3>1, Joined, Programs
    <3> DEFINE front == <<"localPart">> \o Creation
    <3> HIDE DEF front
    <3>3. Head(front \o Rewrite) = "localPart" BY <3>2, Joined, Programs DEF front
    <3> QED BY <2>1, <3>3 DEF front
  <2>4. "name" \notin DOMAIN change[t] BY <1>1, CalmNow
  <2>5. todo' = [todo EXCEPT ![t] = steps] /\ steps \in Seq(Steps) BY <1>5, <2>1, <2>2 DEF IsProgram
  <2>6. /\ hand' = [hand EXCEPT ![t] = hand[t]] /\ change' = [change EXCEPT ![t] = change[t]]
        /\ hand[t] \in Row /\ change[t] \in Fields
    BY <1>1, <1>5, Registers
  <2>7. calm => Told(steps, hand[t], change[t], lines[t], rows', told')
    BY <1>4, <2>3 DEF Told, Fit
  <2> QED BY <1>1, <1>2, <1>3, <2>2, <2>4, <2>5, <2>6, <2>7, CalmAccess
<1>6. CASE \E r \in rows :
            /\ hand' = [hand EXCEPT ![t] = r]
            /\ change' = [change EXCEPT ![t] = [email |-> hand[t].email, role |-> hand[t].role]]
            /\ todo' = [todo EXCEPT ![t] = Rewrite]
  <2>1. PICK r \in rows :
            /\ hand' = [hand EXCEPT ![t] = r]
            /\ change' = [change EXCEPT ![t] = [email |-> hand[t].email, role |-> hand[t].role]]
            /\ todo' = [todo EXCEPT ![t] = Rewrite]
    BY <1>6
  <2>2. hand[t].email \in Email \cup {NoEmail} /\ hand[t].role \in Roles /\ r \in Row
    BY <1>1, Registers DEF Row
  <2> DEFINE fields == [email |-> hand[t].email, role |-> hand[t].role]
  <2>3. fields \in Fields /\ "name" \notin DOMAIN fields BY <2>2, FieldTypes
  <2>4. change' = [change EXCEPT ![t] = fields] BY <2>1
  <2>5. Rewrite \in Seq(Steps) /\ Ordered(Rewrite) BY Programs, RequestOrder
  <2>6. Head(Rewrite) = "reread" BY DEF Rewrite
  <2> HIDE DEF fields
  <2>7. calm => Told(Rewrite, r, fields, lines[t], rows', told')
    BY <1>4, <2>3, <2>6 DEF Told, Fit
  <2> QED BY <2>1, <2>2, <2>3, <2>4, <2>5, <2>7, <1>1, <1>2, <1>3, CalmAccess
<1> QED BY <1>5, <1>6 DEF FindByEmail

LEMMA AvoidCollisionCalm ==
    ASSUME IInv, Course, CalmInv, NEW t \in Thread, AvoidCollision(t)
    PROVE  Course' /\ CalmInv'
<1> DEFINE row == [hand[t] EXCEPT !.name = IF Taken(@) THEN Suffixed[@] ELSE @]
<1>1. Busy(t) /\ Head(todo[t]) = "localPart" /\ hand[t] \in Row BY Registers DEF AvoidCollision, At
<1>2. row \in Row /\ row.id = hand[t].id BY <1>1, AccountsAssumption DEF Row
<1>3. hand' = [hand EXCEPT ![t] = row] /\ Continue(t) BY <1>1, Registers DEF AvoidCollision
<1> HIDE DEF row
<1>4. UNCHANGED <<issued, calm, rows, change, lines, told>> BY DEF AvoidCollision, reading
<1>5. /\ lines' = [lines EXCEPT ![t] = lines[t]] /\ lines[t] \in SUBSET Row
      /\ change' = [change EXCEPT ![t] = change[t]] /\ change[t] \in Fields
  BY <1>1, <1>4, Registers
<1>6. todo' = [todo EXCEPT ![t] = Tail(todo[t])] /\ Tail(todo[t]) \in Seq(Steps)
  BY <1>1, <1>3, Registers DEF Continue
<1>7. Ordered(Tail(todo[t])) /\ "name" \notin DOMAIN change[t] BY <1>1, CalmNow
<1>8. ASSUME calm PROVE Told(Tail(todo[t]), row, change[t], lines[t], rows', told')
  <2>1. /\ rows' = told' /\ told' = told /\ Distinct(told') /\ \A r \in told : r.id # hand[t].id
    BY <1>1, <1>4, <1>8, CalmNow DEF Told, Fit, Busy
  <2>2. Tail(todo[t]) # <<>> => Head(Tail(todo[t])) = "free" BY <1>1, CalmNow DEF Follows
  <2> QED BY <1>2, <2>1, <2>2 DEF Told, Fit
<1> QED BY <1>1, <1>2, <1>3, <1>4, <1>5, <1>6, <1>7, <1>8, CalmAccess

LEMMA AppendRowCalm ==
    ASSUME IInv, Course, CalmInv, NEW t \in Thread, AppendRow(t)
    PROVE  Course' /\ CalmInv'
<1>1. Busy(t) /\ Head(todo[t]) = "append" BY DEF AppendRow, At
<1>2. /\ UNCHANGED <<hand, change, lines, issued, calm>> /\ Continue(t)
      /\ rows' = rows \cup {hand[t]} /\ told' = told \cup {hand[t]}
  BY DEF AppendRow
<1>3. ASSUME calm PROVE Told(Tail(todo[t]), hand[t], change[t], lines[t], rows', told')
  <2>1. /\ rows = told /\ Distinct(told)
        /\ \A r \in told : r.id # hand[t].id /\ r.name # hand[t].name
    BY <1>1, <1>3, CalmNow DEF Told, Fit, Busy
  <2>2. Distinct(told') /\ rows' = told' BY <1>2, <2>1 DEF Distinct
  <2>3. Tail(todo[t]) # <<>> => Head(Tail(todo[t])) = "reread" BY <1>1, CalmNow DEF Follows
  <2>4. "name" \notin DOMAIN change[t] BY <1>1, CalmNow
  <2>5. hand[t] \in told' BY <1>2
  <2> QED BY <2>2, <2>3, <2>4, <2>5 DEF Told, Fit
<1> QED BY <1>1, <1>2, <1>3, CalmMove

LEMMA RereadCalm ==
    ASSUME IInv, Course, CalmInv, NEW t \in Thread, Reread(t)
    PROVE  Course' /\ CalmInv'
<1> DEFINE user == Changed(hand[t], change[t])
           new == {r \in rows : r.id # user.id} \cup {user}
<1>1. Busy(t) /\ Head(todo[t]) = "reread" /\ hand[t] \in Row /\ change[t] \in Fields /\ rows \subseteq Row
  BY Registers DEF Reread, At
<1>2. /\ hand' = [hand EXCEPT ![t] = user] /\ lines' = [lines EXCEPT ![t] = new] /\ Continue(t)
      /\ UNCHANGED <<rows, change, issued, told, calm>>
  BY DEF Reread
<1>3. user \in Row /\ user.id = hand[t].id BY <1>1, ChangedType
<1>4. new \in SUBSET Row BY <1>1, <1>3
<1>5. change' = [change EXCEPT ![t] = change[t]] BY <1>1, <1>2, Registers
<1>6. todo' = [todo EXCEPT ![t] = Tail(todo[t])] /\ Tail(todo[t]) \in Seq(Steps)
  BY <1>1, <1>2, Registers DEF Continue
<1>7. Ordered(Tail(todo[t])) /\ ("name" \in DOMAIN change[t] => Tail(todo[t]) \in RenameSteps)
  BY <1>1, CalmNow
<1>8. ASSUME calm PROVE Told(Tail(todo[t]), user, change[t], new, rows', told')
  <2>1. /\ rows = told /\ Distinct(told) /\ hand[t] \in told
        /\ "name" \in DOMAIN change[t] =>
              change[t].name = hand[t].name \/ \A r \in told : r.name # change[t].name
    BY <1>1, <1>8, CalmNow DEF Told, Fit, Busy
  <2>2. new = {r \in told : r.id # hand[t].id} \cup {Changed(hand[t], change[t])} BY <1>3, <2>1
  <2>3. told \in SUBSET Row BY <1>1, <2>1
  <2> HIDE DEF new
  <2>4. new = Outcome(Changed(hand[t], change[t]), change[t], new, told) /\ Distinct(new)
    BY <1>1, <2>1, <2>2, <2>3, Rewritten
  <2>5. Tail(todo[t]) # <<>> => Head(Tail(todo[t])) = "truncate" BY <1>1, CalmNow DEF Follows
  <2>6. new = Outcome(user, change[t], new, told) BY <2>4
  <2> HIDE DEF user
  <2> QED BY <1>2, <2>1, <2>4, <2>5, <2>6 DEF Told, Fit
<1> HIDE DEF user, new
<1> QED BY <1>1, <1>2, <1>3, <1>4, <1>5, <1>6, <1>7, <1>8, CalmAccess

LEMMA WithoutCalm ==
    ASSUME IInv, Course, CalmInv, NEW t \in Thread, Without(t)
    PROVE  Course' /\ CalmInv'
<1> DEFINE new == {r \in rows : r.id # hand[t].id}
<1>1. Busy(t) /\ Head(todo[t]) = "without" /\ rows \subseteq Row BY Registers DEF Without, At
<1>2. /\ lines' = [lines EXCEPT ![t] = new] /\ (Continue(t) \/ End(t))
      /\ UNCHANGED <<rows, hand, change, issued, told, calm>>
  BY DEF Without
<1>3. new \in SUBSET Row BY <1>1
<1>4. PICK rest : rest \in {<<>>, Tail(todo[t])} /\ todo' = [todo EXCEPT ![t] = rest]
  BY <1>2 DEF Continue, End
<1>5. rest \in Seq(Steps) BY <1>1, <1>4, Registers
<1>6. Ordered(rest) /\ "name" \notin DOMAIN change[t] BY <1>1, <1>4, CalmNow
<1>7. /\ hand' = [hand EXCEPT ![t] = hand[t]] /\ hand[t] \in Row
      /\ change' = [change EXCEPT ![t] = change[t]] /\ change[t] \in Fields
  BY <1>1, <1>2, Registers
<1>8. ASSUME calm PROVE Told(rest, hand[t], change[t], new, rows', told')
  <2>1. rows = told /\ Distinct(told) BY <1>1, <1>8, CalmNow DEF Told, Busy
  <2>2. new = {r \in told : r.id # hand[t].id} /\ hand[t] \notin new /\ Distinct(new)
    BY <2>1 DEF Distinct
  <2> HIDE DEF new
  <2>3. new = Outcome(hand[t], change[t], new, told) BY <2>2 DEF Outcome
  <2>4. rest # <<>> => Head(rest) = "truncate" BY <1>1, <1>4, CalmNow DEF Follows
  <2> QED BY <1>2, <2>1, <2>2, <2>3, <2>4 DEF Told, Fit
<1> HIDE DEF new
<1> QED BY <1>1, <1>2, <1>3, <1>4, <1>5, <1>6, <1>7, <1>8, CalmAccess

LEMMA TruncateCalm ==
    ASSUME IInv, Course, CalmInv, NEW t \in Thread, Truncate(t)
    PROVE  Course' /\ CalmInv'
<1>1. Busy(t) /\ Head(todo[t]) = "truncate" BY DEF Truncate, At
<1>2. /\ UNCHANGED <<hand, change, lines, issued, calm, told>> /\ Continue(t) /\ rows' = {}
  BY DEF Truncate
<1>3. ASSUME calm PROVE Told(Tail(todo[t]), hand[t], change[t], lines[t], rows', told')
  <2>1. /\ Distinct(told') /\ Distinct(lines[t])
        /\ lines[t] = Outcome(hand[t], change[t], lines[t], told')
    BY <1>1, <1>2, <1>3, CalmNow DEF Told, Fit, Busy
  <2>2. Tail(todo[t]) # <<>> /\ Head(Tail(todo[t])) = "write" BY <1>1, CalmNow DEF Follows
  <2> QED BY <1>2, <2>1, <2>2 DEF Told, Fit
<1> QED BY <1>1, <1>2, <1>3, CalmMove

LEMMA WriteRowsCalm ==
    ASSUME IInv, Course, CalmInv, NEW t \in Thread, WriteRows(t)
    PROVE  Course' /\ CalmInv'
<1>1. Busy(t) /\ Head(todo[t]) = "write" BY DEF WriteRows, At
<1>2. /\ UNCHANGED <<hand, change, lines, issued, calm>> /\ Continue(t)
      /\ \E left \in SUBSET rows : rows' = lines[t] \cup left
      /\ told' = Outcome(hand[t], change[t], lines[t], told)
  BY DEF WriteRows, Outcome
<1>3. ASSUME calm PROVE Told(Tail(todo[t]), hand[t], change[t], lines[t], rows', told')
  <2>1. /\ rows = {} /\ Distinct(lines[t])
        /\ lines[t] = Outcome(hand[t], change[t], lines[t], told)
    BY <1>1, <1>3, CalmNow DEF Told, Fit, Busy
  <2>2. rows' = lines[t] /\ told' = lines[t] BY <1>2, <2>1
  <2>3. Tail(todo[t]) # <<>> => Head(Tail(todo[t])) = "flip" BY <1>1, CalmNow DEF Follows
  <2> QED BY <2>1, <2>2, <2>3 DEF Told, Fit
<1> QED BY <1>1, <1>2, <1>3, CalmMove

LEMMA FlipCalm ==
    ASSUME IInv, Course, CalmInv, NEW t \in Thread, Flip(t)
    PROVE  Course' /\ CalmInv'
<1> DEFINE found == <<"byName">> \o Rewrite
           fields == [active |-> TRUE \in flip[t]]
<1>1. Busy(t) /\ Head(todo[t]) = "flip" BY DEF Flip, At
<1>2. PICK steps : /\ steps \in {<<>>, found, Deactivation}
                   /\ todo' = [todo EXCEPT ![t] = steps]
  BY DEF Flip
<1>3. IsLookup(found) /\ IsLookup(Deactivation) /\ Ordered(found) /\ Ordered(Deactivation)
  BY RequestPrograms, RequestOrder
<1> HIDE DEF found
<1>4. steps \in Seq(Steps) /\ Ordered(steps)
      /\ (steps # <<>> => Head(steps) \in {"byId", "byName"})
  <2>1. <<>> \in Seq(Steps) /\ Ordered(<<>>) BY <1>1, Registers, CalmNow
  <2> QED BY <1>2, <1>3, <2>1 DEF IsLookup, IsProgram
<1>5. fields \in [active : BOOLEAN] /\ "name" \notin DOMAIN fields OBVIOUS
<1>6. change' = [change EXCEPT ![t] = fields] BY DEF Flip
<1>7. UNCHANGED <<rows, hand, lines, issued, told, calm>> BY DEF Flip
<1> HIDE DEF fields
<1>8. fields \in Fields BY <1>5 DEF Fields
<1>9. /\ lines' = [lines EXCEPT ![t] = lines[t]] /\ lines[t] \in SUBSET Row
      /\ hand' = [hand EXCEPT ![t] = hand[t]] /\ hand[t] \in Row
  BY <1>1, <1>7, Registers
<1>10. ASSUME calm PROVE Told(steps, hand[t], fields, lines[t], rows', told')
  <2>1. rows = told /\ Distinct(told) BY <1>1, <1>10, CalmNow DEF Told, Busy
  <2> QED BY <1>4, <1>7, <2>1 DEF Told, Fit
<1> QED BY <1>1, <1>2, <1>4, <1>5, <1>6, <1>7, <1>8, <1>9, <1>10, CalmAccess

LEMMA BeginCalm ==
    ASSUME IInv, Course, CalmInv, NEW t \in Thread, NEW steps, IsProgram(steps), Ordered(steps),
           NEW user \in Row, NEW fields \in Fields, NEW active, Begin(t, steps, user, fields, active),
           "name" \in DOMAIN fields => steps \in RenameSteps, Counted(issued'),
           \/ Head(steps) \in {"byId", "byName"}
           \/ Head(steps) \in {"free", "none", "byEmail"} /\ \A r \in rows : r.id # user.id
    PROVE  Course' /\ CalmInv'
<1>1. /\ todo' = [todo EXCEPT ![t] = steps] /\ hand' = [hand EXCEPT ![t] = user]
      /\ change' = [change EXCEPT ![t] = fields] /\ UNCHANGED <<rows, lines, told>>
      /\ calm' = (calm /\ \A s \in Thread : ~Busy(s))
  BY DEF Begin
<1>2. lines' = [lines EXCEPT ![t] = lines[t]] /\ lines[t] \in SUBSET Row
  BY <1>1 DEF IInv, Typed, TypeOK
<1>3. steps \in Seq(Steps) BY DEF IsProgram
<1>4. ASSUME calm' PROVE /\ calm /\ \A s \in Thread : s # t => ~Busy(s)
                         /\ Told(steps, user, fields, lines[t], rows', told')
  <2>1. calm /\ \A s \in Thread : ~Busy(s) BY <1>1, <1>4
  <2>2. Distinct(told) /\ rows = told BY <2>1 DEF CalmInv
  <2>3. Told(steps, user, fields, lines[t], rows', told') BY <1>1, <2>2 DEF Told, Fit
  <2> QED BY <2>1, <2>3
<1> QED BY <1>1, <1>2, <1>3, <1>4, CalmStep

(* Keys drawn for a new account are nobody's id. *)
LEMMA BeginNewCalm ==
    ASSUME IInv, Course, CalmInv, NEW t \in Thread, NEW steps, IsProgram(steps), Ordered(steps),
           Head(steps) \in {"free", "none", "byEmail"},
           NEW n \in Name, NEW e \in Email \cup {NoEmail}, NEW r \in Roles,
           BeginNew(t, steps, n, e, r)
    PROVE  Course' /\ CalmInv'
<1> DEFINE user == [Blank EXCEPT !.id = NewKey, !.key = NewKey, !.name = n, !.email = e, !.role = r]
<1>1. NewKey \in Keys BY NextKey DEF IInv
<1>2. user \in Row /\ user.id = NewKey BY <1>1, BlankType DEF Row, Blank
<1>3. Begin(t, steps, user, Unchanged, {}) /\ issued' = issued \cup {<<NewKey, NewKey>>}
  BY DEF BeginNew
<1> HIDE DEF user
<1>4. Counted(issued')
  <2>1. NewKey <= NewKey BY <1>1 DEF Keys
  <2> QED BY <1>1, <1>3, <2>1, Counting DEF Course, IInv
<1>5. \A q \in rows : q.id # user.id
  <2> SUFFICES ASSUME NEW q \in rows PROVE q.id # NewKey BY <1>2
  <2>1. <<q.key, q.id>> \in issued /\ q.id \in Nat
    BY DEF IInv, KeyOpensItsOwner, Typed, TypeOK, Row, Keys
  <2>2. q.id <= Cardinality(issued) BY <2>1 DEF Course, Counted
  <2>3. Cardinality(issued) \in Nat BY FS_CardinalityType DEF IInv, Typed
  <2> QED BY <2>1, <2>2, <2>3 DEF NewKey
<1>6. Unchanged \in Fields /\ "name" \notin DOMAIN Unchanged BY FieldTypes DEF Unchanged
<1> QED BY <1>2, <1>3, <1>4, <1>5, <1>6, BeginCalm

(* An update or deletion of the account found by a name or an id. *)
LEMMA BeginOldCalm ==
    ASSUME IInv, Course, CalmInv, NEW t \in Thread, NEW steps, IsLookup(steps), Ordered(steps),
           NEW user \in Row, NEW fields \in Fields, NEW active,
           "name" \in DOMAIN fields => steps \in RenameSteps,
           BeginOld(t, steps, user, fields, active)
    PROVE  Course' /\ CalmInv'
<1>1. Begin(t, steps, user, fields, active) /\ issued' = issued BY DEF BeginOld
<1>2. Counted(issued') BY <1>1 DEF Course
<1> QED BY <1>1, <1>2, BeginCalm DEF IsLookup

LEMMA RequestCalm ==
    ASSUME IInv, Course, CalmInv, NEW t \in Thread, Request(t)
    PROVE  Course' /\ CalmInv'
<1>0. /\ Head(Creation) = "free" /\ Head(<<"free">> \o Creation) = "free"
      /\ Head(<<"none">> \o Creation) = "none" /\ Head(<<"byEmail">>) = "byEmail"
  <2>1. \A x \in {"free", "none"} : <<x>> \in Seq(Steps) /\ <<x>> # <<>> /\ Head(<<x>>) = x
    BY DEF Steps
  <2>2. Head(<<"free">> \o Creation) = "free" /\ Head(<<"none">> \o Creation) = "none"
    BY <2>1, Joined, Programs
  <2> QED BY <2>2 DEF Creation
<1>1. CASE CreateUser(t)
  <2>1. PICK n \in Name, steps \in {Creation, <<"free">> \o Creation} :
           BeginNew(t, steps, n, NoEmail, "member")
    BY <1>1 DEF CreateUser
  <2>2. IsProgram(steps) /\ Ordered(steps) /\ Head(steps) = "free"
    BY <1>0, RequestPrograms, RequestOrder
  <2> QED BY <2>1, <2>2, BeginNewCalm DEF Roles
<1>2. CASE Bootstrap(t)
  <2> DEFINE steps == <<"none">> \o Creation
  <2>1. BeginNew(t, steps, BootName, NoEmail, "admin") BY <1>2 DEF Bootstrap
  <2>2. IsProgram(steps) /\ Ordered(steps) /\ Head(steps) = "none"
    BY <1>0, RequestPrograms, RequestOrder
  <2> HIDE DEF steps
  <2> QED BY <2>1, <2>2, BeginNewCalm, AccountsAssumption DEF Roles
<1>3. CASE UpdateUser(t)
  <2> DEFINE named == <<"byName", "freeNew">> \o Rewrite
             other == <<"byName">> \o Rewrite
  <2>1. PICK n \in Name : \/ \E new \in Name : BeginOld(t, named, Named(n), [name |-> new], {})
                          \/ \E r \in Roles : BeginOld(t, other, Named(n), [role |-> r], {})
                          \/ \E b \in BOOLEAN : BeginOld(t, other, Named(n), [active |-> b], {})
    BY <1>3 DEF UpdateUser
  <2>2. Named(n) \in Row BY Queries DEF IInv
  <2>3. /\ IsLookup(named) /\ IsLookup(other) /\ Ordered(named) /\ Ordered(other)
        /\ named \in RenameSteps
    BY RequestPrograms, RequestOrder, RenameProgram
  <2> HIDE DEF named, other
  <2>4. CASE \E new \in Name : BeginOld(t, named, Named(n), [name |-> new], {})
    <3>1. PICK new \in Name : BeginOld(t, named, Named(n), [name |-> new], {}) BY <2>4
    <3>2. [name |-> new] \in Fields BY FieldTypes
    <3> QED BY <3>1, <3>2, <2>2, <2>3, BeginOldCalm
  <2>5. CASE \E r \in Roles : BeginOld(t, other, Named(n), [role |-> r], {})
    <3>1. PICK r \in Roles : BeginOld(t, other, Named(n), [role |-> r], {}) BY <2>5
    <3>2. [role |-> r] \in Fields /\ "name" \notin DOMAIN [role |-> r] BY FieldTypes
    <3> QED BY <3>1, <3>2, <2>2, <2>3, BeginOldCalm
  <2>6. CASE \E b \in BOOLEAN : BeginOld(t, other, Named(n), [active |-> b], {})
    <3>1. PICK b \in BOOLEAN : BeginOld(t, other, Named(n), [active |-> b], {}) BY <2>6
    <3>2. [active |-> b] \in Fields /\ "name" \notin DOMAIN [active |-> b] BY FieldTypes
    <3> QED BY <3>1, <3>2, <2>2, <2>3, BeginOldCalm
  <2> QED BY <2>1, <2>4, <2>5, <2>6
<1>4. CASE DeactivateUser(t)
  <2>1. PICK n \in Name : BeginOld(t, Deactivation, Named(n), [active |-> FALSE], {})
    BY <1>4 DEF DeactivateUser
  <2>2. Named(n) \in Row BY Queries DEF IInv
  <2>3. [active |-> FALSE] \in Fields /\ "name" \notin DOMAIN [active |-> FALSE] BY FieldTypes
  <2> QED BY <2>1, <2>2, <2>3, BeginOldCalm, RequestPrograms, RequestOrder
<1>5. CASE DeleteUser(t)
  <2>1. PICK n \in Name : BeginOld(t, Deletion, Named(n), Unchanged, {}) BY <1>5 DEF DeleteUser
  <2>2. Named(n) \in Row BY Queries DEF IInv
  <2>3. Unchanged \in Fields /\ "name" \notin DOMAIN Unchanged BY FieldTypes DEF Unchanged
  <2> QED BY <2>1, <2>2, <2>3, BeginOldCalm, RequestPrograms, RequestOrder
<1>6. CASE RotateKey(t)
  <2> DEFINE steps == <<"byId">> \o Rewrite
             fields == [key |-> NewKey]
  <2>1. PICK i \in Ids : Begin(t, steps, Numbered(i), fields, {}) /\ issued' = issued \cup {<<NewKey, i>>}
    BY <1>6 DEF RotateKey
  <2>2. Numbered(i) \in Row /\ i \in Keys BY Queries DEF IInv
  <2>3. NewKey \in Keys BY NextKey DEF IInv
  <2>4. fields \in Fields /\ "name" \notin DOMAIN fields BY <2>3, FieldTypes
  <2>5. IsProgram(steps) /\ Ordered(steps) /\ Head(steps) \in {"byId", "byName"}
    BY RequestPrograms, RequestOrder DEF IsLookup
  <2>6. i <= NewKey
    <3>1. PICK q \in rows : q.id = i BY DEF Ids
    <3>2. <<q.key, q.id>> \in issued BY DEF IInv, KeyOpensItsOwner
    <3>3. q.id <= Cardinality(issued) BY <3>2 DEF Course, Counted
    <3>4. Cardinality(issued) \in Nat BY FS_CardinalityType DEF IInv, Typed
    <3> QED BY <2>2, <3>1, <3>3, <3>4 DEF NewKey, Keys
  <2>7. Counted(issued') BY <2>1, <2>2, <2>6, Counting DEF Course, IInv
  <2> HIDE DEF steps, fields
  <2> QED BY <2>1, <2>2, <2>4, <2>5, <2>7, BeginCalm
<1>7. CASE UpsertSsoUser(t)
  <2>1. PICK e \in Email, r \in Roles : BeginNew(t, <<"byEmail">>, LocalPart[e], e, r)
    BY <1>7 DEF UpsertSsoUser
  <2>2. LocalPart[e] \in Name BY AccountsAssumption
  <2>3. IsProgram(<<"byEmail">>) /\ Ordered(<<"byEmail">>) BY RequestPrograms, RequestOrder
  <2> QED BY <1>0, <2>1, <2>2, <2>3, BeginNewCalm
<1>8. CASE ReplaceUser(t)
  <2> DEFINE steps == <<"byId", "byName">> \o Rewrite \o <<"flip">>
  <2>1. PICK i \in Ids, e \in Email, active \in {{}, {TRUE}, {FALSE}} :
           BeginOld(t, steps, Numbered(i), [email |-> e], active)
    BY <1>8 DEF ReplaceUser
  <2>2. Numbered(i) \in Row BY Queries DEF IInv
  <2>3. [email |-> e] \in Fields /\ "name" \notin DOMAIN [email |-> e] BY FieldTypes
  <2>4. IsLookup(steps) /\ Ordered(steps) BY RequestPrograms, RequestOrder
  <2> HIDE DEF steps
  <2> QED BY <2>1, <2>2, <2>3, <2>4, BeginOldCalm
<1>9. CASE PatchUser(t)
  <2> DEFINE steps == <<"byId">> \o Deactivation
  <2>1. PICK i \in Ids : BeginOld(t, steps, Numbered(i), [active |-> FALSE], {})
    BY <1>9 DEF PatchUser
  <2>2. Numbered(i) \in Row BY Queries DEF IInv
  <2>3. [active |-> FALSE] \in Fields /\ "name" \notin DOMAIN [active |-> FALSE] BY FieldTypes
  <2>4. IsLookup(steps) /\ Ordered(steps) BY RequestPrograms, RequestOrder
  <2> HIDE DEF steps
  <2> QED BY <2>1, <2>2, <2>3, <2>4, BeginOldCalm
<1>10. CASE RemoveUser(t)
  <2> DEFINE steps == <<"byId">> \o Deletion
  <2>1. PICK i \in Ids : BeginOld(t, steps, Numbered(i), Unchanged, {}) BY <1>10 DEF RemoveUser
  <2>2. Numbered(i) \in Row BY Queries DEF IInv
  <2>3. Unchanged \in Fields /\ "name" \notin DOMAIN Unchanged BY FieldTypes DEF Unchanged
  <2>4. IsLookup(steps) /\ Ordered(steps) BY RequestPrograms, RequestOrder
  <2> HIDE DEF steps
  <2> QED BY <2>1, <2>2, <2>3, <2>4, BeginOldCalm
<1> QED BY <1>1, <1>2, <1>3, <1>4, <1>5, <1>6, <1>7, <1>8, <1>9, <1>10 DEF Request

(* A crash between accesses leaves the accounts as they are; one within a  *)
(* rewrite ends the calm.                                                  *)
LEMMA CrashCalm ==
    ASSUME IInv, Course, CalmInv, Crash
    PROVE  Course' /\ CalmInv'
<1>1. /\ \A t \in Thread : todo'[t] = <<>>
      /\ UNCHANGED <<rows, change, issued, told>>
      /\ calm' = (calm /\ \A t \in Thread : ~Rewriting(t))
  BY DEF Crash
<1>2. Course' BY <1>1, RenameProgram DEF Course, Ordered
<1>3. ASSUME calm' PROVE CalmInv'
  <2>1. Distinct(told) /\ rows = told
    <3>1. CASE \A t \in Thread : ~Busy(t) BY <1>1, <1>3, <3>1 DEF CalmInv
    <3>2. CASE \E t \in Thread : Busy(t)
      <4>1. PICK t \in Thread : Busy(t) BY <3>2
      <4>2. Told(todo[t], hand[t], change[t], lines[t], rows, told) BY <1>1, <1>3, <4>1, CalmNow
      <4> QED BY <1>1, <1>3, <4>1, <4>2 DEF Told, Rewriting
    <3> QED BY <3>1, <3>2
  <2>2. \A t \in Thread : ~Busy(t)' BY <1>1 DEF Busy
  <2> QED BY <1>1, <2>1, <2>2 DEF CalmInv
<1> QED BY <1>2, <1>3 DEF CalmInv

LEMMA CalmInitially == Init => Course /\ CalmInv
<1> SUFFICES ASSUME Init PROVE Course /\ CalmInv OBVIOUS
<1>1. \A t \in Thread : todo[t] = <<>> /\ change[t] = Unchanged BY DEF Init
<1>2. Counted(issued)
  <2> DEFINE first == {<<1, 1>>}
  <2>1. issued = first \cup {<<2, 2>>} BY DEF Init
  <2>2. IsFiniteSet(first) /\ Cardinality(first) = 1 BY FS_Singleton
  <2>3. <<2, 2>> \notin first OBVIOUS
  <2>4. issued = {<<1, 1>>, <<2, 2>>} BY DEF Init
  <2> HIDE DEF first
  <2>5. Cardinality(issued) = 1 + 1 BY <2>1, <2>2, <2>3, FS_AddElement
  <2> QED BY <2>4, <2>5 DEF Counted
<1>3. Course BY <1>1, <1>2, RenameProgram DEF Course, Ordered, Unchanged
<1>4. \A t \in Thread : ~Busy(t) BY <1>1 DEF Busy
<1>5. PICK e \in Email : LocalPart[e] # BootName /\ rows = {First, Second(e)} BY DEF Init
<1>6. /\ First.id = 1 /\ Second(e).id = 2
      /\ First.name = BootName /\ Second(e).name = LocalPart[e]
  BY DEF First, Second, Blank
<1>7. Distinct(rows) BY <1>5, <1>6 DEF Distinct
<1>8. told = rows BY DEF Init
<1> QED BY <1>3, <1>4, <1>7, <1>8 DEF CalmInv

LEMMA CalmStepwise == IInv /\ Course /\ CalmInv /\ [Next]_vars => Course' /\ CalmInv'
<1> SUFFICES ASSUME IInv, Course, CalmInv, [Next]_vars PROVE Course' /\ CalmInv'
  OBVIOUS
<1>1. CASE UNCHANGED vars
  BY <1>1 DEF Course, CalmInv, Busy, vars
<1>2. CASE Crash BY <1>2, CrashCalm
<1>3. CASE \E t \in Thread : Request(t) BY <1>3, RequestCalm
<1>4. CASE \E t \in Thread : Access(t)
  <2>1. PICK t \in Thread : Access(t) BY <1>4
  <2> QED
    BY <2>1, LookUpCalm, RequireCalm, FindByEmailCalm, AvoidCollisionCalm, AppendRowCalm,
       RereadCalm, WithoutCalm, TruncateCalm, WriteRowsCalm, FlipCalm DEF Access
<1> QED BY <1>1, <1>2, <1>3, <1>4 DEF Next

LEMMA CalmAlways == Spec => [](IInv /\ CalmInv)
<1>1. Init => IInv /\ Course /\ CalmInv BY Initially, CalmInitially
<1>2. IInv /\ Course /\ CalmInv /\ [Next]_vars => (IInv /\ Course /\ CalmInv)'
  BY Stepwise, CalmStepwise
<1> QED BY <1>1, <1>2, PTL DEF Spec


(* The accounts, the copies of them in flight and what they will be        *)
(* written back as keep their types.                                       *)
THEOREM AccountsTyped == Spec => []TypeOK
<1>1. IInv => TypeOK BY DEF IInv, Typed
<1> QED BY Initially, Stepwise, <1>1, PTL DEF Spec

(* However requests of any kind overlap or crash between two accesses to   *)
(* users.jsonl, a key there stands beside the id it was issued for.        *)
THEOREM KeysStayWithTheirOwner == Spec => []KeyOpensItsOwner
<1>1. IInv => KeyOpensItsOwner BY DEF IInv
<1> QED BY Initially, Stepwise, <1>1, PTL DEF Spec


(* While requests do not overlap, and however they crash outside of a      *)
(* rewrite, users.jsonl holds the accounts as the requests answered so far *)
(* left them, or is being rewritten.                                       *)
THEOREM AsLastToldAlways == Spec => []AsLastTold
<1>1. IInv /\ CalmInv => AsLastTold
  <2> SUFFICES ASSUME CalmInv, calm
               PROVE  rows \subseteq told /\ ((\A t \in Thread : ~Rewriting(t)) => rows = told)
    BY DEF AsLastTold
  <2>1. CASE \A t \in Thread : ~Busy(t) BY <2>1 DEF CalmInv
  <2>2. CASE \E t \in Thread : Busy(t)
    <3>1. PICK t \in Thread : Busy(t) BY <2>2
    <3>2. Told(todo[t], hand[t], change[t], lines[t], rows, told) BY <3>1 DEF CalmInv
    <3> QED BY <3>1, <3>2 DEF Told, Rewriting
  <2> QED BY <2>1, <2>2
<1> QED BY <1>1, CalmAlways, PTL

(* ... and no two accounts share a name, renamed ones and those of SSO     *)
(* signups included.                                                       *)
THEOREM OneAccountPerNameAlways == Spec => []OneAccountPerName
<1>1. IInv /\ CalmInv => OneAccountPerName
  <2> SUFFICES ASSUME CalmInv, calm PROVE Distinct(rows) BY DEF OneAccountPerName, Distinct
  <2>1. CASE \A t \in Thread : ~Busy(t) BY <2>1 DEF CalmInv
  <2>2. CASE \E t \in Thread : Busy(t)
    <3>1. PICK t \in Thread : Busy(t) BY <2>2
    <3>2. Told(todo[t], hand[t], change[t], lines[t], rows, told) BY <3>1 DEF CalmInv
    <3> QED BY <3>1, <3>2 DEF Told, Distinct
  <2> QED BY <2>1, <2>2
<1> QED BY <1>1, CalmAlways, PTL
=============================================================================
