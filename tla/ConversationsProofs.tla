------------------------- MODULE ConversationsProofs -------------------------
(***************************************************************************)
(* Badges, the workspace file and the thread, for any number of requests,  *)
(* messages, operations, edits by the user and crashes, on either          *)
(* platform: no badge appears for an apply that changed nothing,           *)
(* however requests overwrite one another's thread; and as long as changes *)
(* of one file do not overlap, the workspace file is never half written,   *)
(* the thread loses nothing, a deleted thread stays deleted, and what an   *)
(* agent was sent of the thread is a stretch of it, before its own prompt. *)
(***************************************************************************)
EXTENDS Conversations, SequenceTheorems, FiniteSetTheorems, FunctionTheorems, TLAPS

Titles == Title \cup {"", "derived"}

(* The threads all of whose badges are for operations of applied. *)
Honest(applied) ==
    {c \in Chats : \A i \in 1 .. Len(c.messages) : c.messages[i].applied \subseteq applied}

Fcn(f, S) == f = [x \in S |-> f[x]]

Shape ==
    /\ Fcn(file, Record) /\ Fcn(pc, Actor) /\ Fcn(data, Actor) /\ Fcn(job, Actor)
    /\ \A a \in Actor :
          /\ pc[a] \in {"open", "write"} => job[a] = Chat
          /\ pc[a] \in {"tmp", "fill", "replace"} => job[a] = Doc

(* Every copy of the thread is honest, on disk or in a request's memory,   *)
(* and a request that is about to add a badge has carried its operation    *)
(* out.                                                                    *)
BadgeInv ==
    /\ Shape
    /\ file[Chat] \in Honest(took) \cup Unreadable \cup {NoFile}
    /\ \A a \in Actor : pc[a] \in {"open", "write"} => data[a] \in Honest(took)
    /\ \A a \in Actor : pc[a] = "badge" => a \in took

-----------------------------------------------------------------------------
(* Threads a request makes of one it read *)

LEMMA Places == Chat \in Record /\ Doc \in Record /\ Doc # Chat
BY ThreadsAssumption, ConversationsAssumption

LEMMA Grows ==
    ASSUME NEW S, NEW T, S \subseteq T PROVE Honest(S) \subseteq Honest(T)
BY DEF Honest

LEMMA NewHonest ==
    ASSUME NEW t \in Titles, NEW S PROVE NewThread(t) \in Honest(S)
<1> DEFINE text == NewThread(t).messages
<1>1. <<>> \in Seq(Messages) /\ Len(<<>>) = 0 BY EmptySeq
<1>2. NewThread(t) \in Chats /\ text = <<>> BY <1>1 DEF NewThread, Chats, Titles
<1> HIDE DEF text
<1>3. Len(text) = 0 BY <1>1, <1>2
<1>4. ASSUME NEW i \in 1 .. Len(text) PROVE text[i].applied \subseteq S BY <1>3
<1> QED BY <1>2, <1>4 DEF Honest, text

LEMMA OneMore ==
    ASSUME NEW s \in Seq(Messages), NEW m \in Messages, NEW S, m.applied \subseteq S,
           \A i \in 1 .. Len(s) : s[i].applied \subseteq S
    PROVE  /\ Append(s, m) \in Seq(Messages)
           /\ \A i \in 1 .. Len(Append(s, m)) : Append(s, m)[i].applied \subseteq S
<1>1. Append(s, m) \in Seq(Messages) /\ Len(Append(s, m)) = Len(s) + 1 BY AppendProperties
<1>2. Append(s, m)[Len(s) + 1] = m BY AppendProperties
<1>3. \A i \in 1 .. Len(s) : Append(s, m)[i] = s[i] BY AppendProperties
<1>4. Len(s) \in Nat BY LenProperties
<1>5. ASSUME NEW i \in 1 .. Len(Append(s, m)) PROVE Append(s, m)[i].applied \subseteq S
  <2>1. i \in 1 .. Len(s) \/ i = Len(s) + 1 BY <1>1, <1>4
  <2>2. CASE i \in 1 .. Len(s)
    <3>1. Append(s, m)[i] = s[i] BY <1>3, <2>2
    <3> QED BY <2>2, <3>1
  <2>3. CASE i = Len(s) + 1
    <3>1. Append(s, m)[i] = m BY <1>2, <2>3
    <3> QED BY <3>1
  <2> QED BY <2>1, <2>2, <2>3
<1> QED BY <1>1, <1>5

LEMMA PostedHonest ==
    ASSUME file[Chat] \in Honest(took), NEW a \in Actor, NEW role \in Roles, NEW blank \in BOOLEAN
    PROVE  Posted(a, role, blank) \in Honest(took)
<1> DEFINE old == file[Chat].messages
           m == Message(a, role)
           new == Append(old, m)
<1>1. /\ old \in Seq(Messages) /\ file[Chat].title \in Titles
      /\ \A i \in 1 .. Len(old) : old[i].applied \subseteq took
  BY DEF Honest, Chats, Titles
<1>2. m \in Messages /\ m.applied \subseteq took BY DEF Message, Messages, Roles
<1>3. Posted(a, role, blank).messages = new BY DEF Posted
<1>4. Posted(a, role, blank).title \in Titles BY <1>1 DEF Posted, Titles
<1> HIDE DEF old, m
<1>5. new \in Seq(Messages) /\ \A i \in 1 .. Len(new) : new[i].applied \subseteq took
  BY <1>1, <1>2, OneMore
<1> HIDE DEF new
<1>6. Posted(a, role, blank) \in Chats BY <1>3, <1>4, <1>5 DEF Posted, Chats, Titles
<1> QED BY <1>3, <1>5, <1>6 DEF Honest

LEMMA RenamedHonest ==
    ASSUME file[Chat] \in Honest(took), NEW t \in Title
    PROVE  [file[Chat] EXCEPT !.title = t] \in Honest(took)
<1>1. t \in Titles BY DEF Titles
<1> QED BY <1>1 DEF Honest, Chats, Titles

LEMMA BadgedHonest ==
    ASSUME file[Chat] \in Honest(took), NEW a \in Actor, a \in took,
           NEW i \in DOMAIN file[Chat].messages
    PROVE  [file[Chat] EXCEPT !.messages[i].applied = @ \cup {a}] \in Honest(took)
<1> DEFINE c == file[Chat]
           old == c.messages
           m == [old[i] EXCEPT !.applied = @ \cup {a}]
           new == [old EXCEPT ![i] = m]
<1>1. /\ c \in Chats /\ old \in Seq(Messages) /\ i \in 1 .. Len(old)
      /\ \A j \in 1 .. Len(old) : old[j] \in Messages /\ old[j].applied \subseteq took
  BY LenProperties, ElementOfSeq DEF Honest, Chats, Titles
<1>2. m \in Messages /\ m.applied \subseteq took BY <1>1 DEF Messages
<1> HIDE DEF m
<1>3. new \in Seq(Messages) /\ \A j \in 1 .. Len(new) : new[j].applied \subseteq took
  BY <1>1, <1>2, ExceptSeq
<1>4. [c EXCEPT !.messages[i].applied = @ \cup {a}] = [c EXCEPT !.messages = new] BY DEF m
<1> HIDE DEF new
<1>5. [c EXCEPT !.messages = new] \in Honest(took) BY <1>1, <1>3 DEF Honest, Chats, Titles
<1> QED BY <1>4, <1>5

-----------------------------------------------------------------------------
LEMMA BadgeInit == Init => BadgeInv
<1> SUFFICES ASSUME Init PROVE BadgeInv OBVIOUS
<1>1. PICK t \in Titles, doc \in Docs :
        file = [r \in Record |-> IF r = Chat THEN NewThread(t) ELSE doc]
  BY DEF Init, Titles
<1>2. file[Chat] \in Honest(took) BY <1>1, Places, NewHonest
<1> QED BY <1>1, <1>2 DEF Init, ThreadsInit, BadgeInv, Shape, Fcn

(* Reading the thread to write chat back. *)
LEMMA AmendInv ==
    ASSUME BadgeInv, NEW a \in Actor, NEW chat,
           file[Chat] \in Honest(took) => chat \in Honest(took), Amend(a, chat), UNCHANGED took
    PROVE  BadgeInv'
<1>1. file[Chat] \in Honest(took) BY DEF BadgeInv, Amend, Readable
<1> QED BY <1>1 DEF Amend, Goto, Touch, BadgeInv, Shape, Fcn

LEMMA NoReadInv == ASSUME BadgeInv, NEW a \in Actor, CannotRead(a), UNCHANGED took PROVE BadgeInv'
BY DEF CannotRead, Reply, Goto, fileVars, BadgeInv, Shape, Fcn, Unreadable

LEMMA ThreadInv == ASSUME BadgeInv, NEW a \in Actor, ThreadStep(a) PROVE BadgeInv'
<1>0. UNCHANGED took BY DEF ThreadStep, workVars
<1> USE <1>0 DEF Fcn, Unreadable
<1>1. CASE CannotRead(a) BY <1>1, NoReadInv
<1>2. CASE Rename(a) /\ ~CannotRead(a)
  <2>1. PICK t \in Title :
          /\ Readable
          /\ IF t = file[Chat].title
             THEN Reply(a, 200) /\ UNCHANGED <<fileVars, data, historyVars>>
             ELSE Amend(a, [file[Chat] EXCEPT !.title = t])
    BY <1>2 DEF Rename
  <2>2. CASE t = file[Chat].title
    BY <2>1, <2>2 DEF Reply, Goto, fileVars, BadgeInv, Shape
  <2>3. CASE t # file[Chat].title
    BY <2>1, <2>3, RenamedHonest, AmendInv
  <2> QED BY <2>2, <2>3
<1>3. CASE AppendMessage(a) /\ ~CannotRead(a)
  <2>1. PICK role \in Roles, blank \in BOOLEAN : Amend(a, Posted(a, role, blank))
    BY <1>3 DEF AppendMessage
  <2> QED BY <2>1, PostedHonest, AmendInv
<1>4. CASE Delete(a) BY <1>4 DEF Delete, Reply, Goto, Touch, BadgeInv, Shape
<1>5. CASE Unlink(a)
  BY <1>5, Places DEF Unlink, UnlinkFile, Reply, Goto, BadgeInv, Shape
<1>6. CASE Open(a)
  BY <1>6, Places DEF Open, OpenFile, Goto, BadgeInv, Shape
<1>7. CASE Write(a)
  <2>1. job[a] = Chat /\ data[a] \in Honest(took) BY <1>7 DEF Write, BadgeInv, Shape
  <2>2. /\ Fcn(file, Record)'
        /\ file'[Chat] \in Honest(took) \cup Unreadable \cup {NoFile}
    BY <1>7, <2>1, Places DEF Write, WriteOut, Overlay, BadgeInv, Shape
  <2> QED BY <1>7, <2>2 DEF Write, Reply, Goto, BadgeInv, Shape
<1> QED BY <1>1, <1>2, <1>3, <1>4, <1>5, <1>6, <1>7 DEF ThreadStep

LEMMA RunInv == ASSUME BadgeInv, NEW a \in Actor, RunStep(a) PROVE BadgeInv'
<1>0. UNCHANGED took
  BY DEF RunStep, BeginRun, StorePrompt, Propose, Answer, Fail, StoreReply, workVars
<1> USE <1>0 DEF Fcn
<1>1. CASE CannotRead(a) BY <1>1, NoReadInv
<1>2. CASE StorePrompt(a) /\ ~CannotRead(a)
  BY <1>2, PostedHonest, AmendInv DEF StorePrompt, Roles
<1>3. CASE StoreReply(a) /\ ~CannotRead(a)
  BY <1>3, PostedHonest, AmendInv DEF StoreReply, Roles
<1>4. CASE BeginRun(a) BY <1>4 DEF BeginRun, Goto, fileVars, BadgeInv, Shape
<1>5. CASE Propose(a)
  BY <1>5 DEF Propose, fileVars, threadVars, requestVars, BadgeInv, Shape
<1>6. CASE Answer(a) BY <1>6 DEF Answer, Goto, fileVars, BadgeInv, Shape
<1>7. CASE Fail(a) BY <1>7 DEF Fail, Reply, Goto, fileVars, BadgeInv, Shape
<1> QED BY <1>1, <1>2, <1>3, <1>4, <1>5, <1>6, <1>7 DEF RunStep

LEMMA ApplyInv == ASSUME BadgeInv, NEW a \in Actor, ApplyStep(a) PROVE BadgeInv'
<1> USE DEF Fcn, Unreadable
<1>1. CASE BeginApply(a)
  <2>1. /\ UNCHANGED <<file, data, took>>
        /\ job' = [job EXCEPT ![a] = Doc]
        /\ \/ pc' = [pc EXCEPT ![a] = "tmp"]
           \/ pc' = [pc EXCEPT ![a] = "done"]
    BY <1>1 DEF BeginApply, Prepare, Reply, Goto, Touch
  <2>2. pc[a] = "idle" BY <1>1 DEF BeginApply, Is
  <2> QED BY <2>1, <2>2 DEF BadgeInv, Shape
<1>2. CASE ApplyDelete(a)
  <2>1. took \subseteq took' BY <1>2 DEF ApplyDelete
  <2>2. Honest(took) \subseteq Honest(took') BY <2>1, Grows
  <2>3. /\ file' = file \/ file' = [file EXCEPT ![Doc] = NoFile]
        /\ UNCHANGED data
        /\ job' = [job EXCEPT ![a] = Doc]
        /\ \/ pc' = [pc EXCEPT ![a] = "badge"] /\ a \in took'
           \/ pc' = [pc EXCEPT ![a] = "done"]
    BY <1>2 DEF ApplyDelete, UnlinkFile, Reply, Goto, Touch
  <2> QED BY <2>1, <2>2, <2>3, Places DEF BadgeInv, Shape
<1>3. CASE OpenDraft(a)
  BY <1>3 DEF OpenDraft, OpenTmp, Goto, workVars, BadgeInv, Shape
<1>4. CASE FillDraft(a)
  <2>1. job[a] = Doc BY <1>4 DEF FillDraft, BadgeInv, Shape
  <2>2. Fcn(file, Record)' /\ file'[Chat] = file[Chat]
    BY <1>4, <2>1, Places DEF FillDraft, WriteOut, BadgeInv, Shape
  <2> QED BY <1>4, <2>1, <2>2 DEF FillDraft, Goto, workVars, BadgeInv, Shape
<1>5. CASE ReplaceDoc(a)
  <2>1. job[a] = Doc BY <1>5 DEF ReplaceDoc, BadgeInv, Shape
  <2>2. took \subseteq took' BY <1>5 DEF ReplaceDoc
  <2>3. Honest(took) \subseteq Honest(took') BY <2>2, Grows
  <2>4. /\ Fcn(file, Record)' /\ file'[Chat] = file[Chat]
        /\ UNCHANGED <<job, data>>
        /\ \/ pc' = [pc EXCEPT ![a] = "badge"] /\ a \in took'
           \/ pc' = [pc EXCEPT ![a] = "done"]
    BY <1>5, <2>1, Places DEF ReplaceDoc, Replace, Reply, Goto, fileVars, BadgeInv, Shape
  <2> QED BY <2>1, <2>2, <2>3, <2>4 DEF BadgeInv, Shape
<1>6. CASE Badge(a)
  <2>0. a \in took /\ UNCHANGED took BY <1>6 DEF Badge, BadgeInv, workVars
  <2>1. CASE Readable /\ Holds(origin[a]) # {}
    <3>1. PICK i \in Holds(origin[a]) :
            Amend(a, [file[Chat] EXCEPT !.messages[i].applied = @ \cup {a}])
      BY <1>6, <2>1 DEF Badge
    <3>2. i \in DOMAIN file[Chat].messages BY DEF Holds
    <3> QED BY <2>0, <3>1, <3>2, BadgedHonest, AmendInv
  <2>2. CASE ~(Readable /\ Holds(origin[a]) # {})
    BY <1>6, <2>0, <2>2 DEF Badge, Reply, Goto, fileVars, BadgeInv, Shape
  <2> QED BY <2>1, <2>2
<1> QED BY <1>1, <1>2, <1>3, <1>4, <1>5, <1>6 DEF ApplyStep

LEMMA BadgeNext == BadgeInv /\ [Next]_vars => BadgeInv'
<1> SUFFICES ASSUME BadgeInv, [Next]_vars PROVE BadgeInv' OBVIOUS
<1>1. ASSUME NEW a \in Actor, ThreadStep(a) PROVE BadgeInv' BY <1>1, ThreadInv
<1>2. ASSUME NEW a \in Actor, RunStep(a) PROVE BadgeInv' BY <1>2, RunInv
<1>3. ASSUME NEW a \in Actor, ApplyStep(a) PROVE BadgeInv' BY <1>3, ApplyInv
<1>4. CASE UserEdits
  BY <1>4, Places DEF UserEdits, requestVars, BadgeInv, Shape, Fcn
<1>5. CASE Crash
  BY <1>5 DEF Crash, BadgeInv, Shape, Fcn
<1>6. CASE UNCHANGED vars
  BY <1>6 DEF vars, fileVars, threadVars, requestVars, workVars, BadgeInv, Shape, Fcn
<1> QED BY <1>1, <1>2, <1>3, <1>4, <1>5, <1>6 DEF Next

-----------------------------------------------------------------------------
(* The workspace file.  As long as applies and edits have not overlapped,  *)
(* the one apply under way has the .tmp for itself: it is empty until the  *)
(* draft is in it, and what replaces the file is that draft.               *)

Texts == [Passage -> Nat]

DocQuiet ==
    /\ \A a, b \in Actor : pc[a] \in DocWindow /\ pc[b] \in DocWindow => a = b
    /\ file[Doc] \in Texts \cup {NoFile}
    /\ \A a \in Actor :
          /\ pc[a] \in DocWindow => draft[a] \in Texts
          /\ pc[a] = "fill" => fd[a] = "tmp" /\ tmp[Doc] = Empty
          /\ pc[a] = "replace" => tmp[Doc] = draft[a]

DocShape ==
    /\ Fcn(tmp, Record) /\ Fcn(fd, Actor) /\ Fcn(draft, Actor)
    /\ queue \in [Actor -> Seq(Op)]

DocInv == DocShape /\ (Doc \in quiet => DocQuiet)

LEMMA OutcomeText ==
    ASSUME NEW op \in Op, op.op # "delete_file", NEW t \in Texts, NEW new \in Outcome(op, t)
    PROVE  new \in Texts
<1>1. CASE op.op = "edit_file"
  <2>1. op \in Edit BY <1>1 DEF Op, Whole, Edit, Removal
  <2>2. new = Edited(op, t) BY <1>1 DEF Outcome
  <2> QED BY <2>1, <2>2 DEF Edited, Texts, Edit
<1>2. CASE op.op # "edit_file"
  <2>1. op \in Whole BY <1>2 DEF Op, Whole, Edit, Removal
  <2>2. new = op.text BY <1>2 DEF Outcome
  <2> QED BY <2>1, <2>2 DEF Whole, Texts
<1> QED BY <1>1, <1>2

LEMMA TextIsTexts == Text \subseteq Texts
<1>1. 0 .. MaxText \subseteq Nat BY WorkspaceAssumption
<1> QED BY <1>1 DEF Text, Texts

LEMMA BlankText == Blank \in Texts
BY DEF Blank, Texts

LEMMA TextsReadable == \A t \in Texts : t \notin Unreadable
BY ConversationsAssumption DEF Texts

LEMMA DocInit == Init => DocInv
<1> SUFFICES ASSUME Init PROVE DocInv OBVIOUS
<1>1. PICK t \in Title \cup {""}, doc \in Docs :
        file = [r \in Record |-> IF r = Chat THEN NewThread(t) ELSE doc]
  BY DEF Init
<1>2. doc \in Texts \cup {NoFile} BY ConversationsAssumption, TextIsTexts
<1>3. file[Doc] \in Texts \cup {NoFile} BY <1>1, <1>2, Places
<1>4. <<>> \in Seq(Op) BY EmptySeq
<1> QED BY <1>1, <1>3, <1>4 DEF Init, ThreadsInit, DocInv, DocShape, DocQuiet, DocWindow, Shape, Fcn

(* Steps that leave the workspace file and its applies alone. *)
LEMMA Aside ==
    ASSUME DocInv, DocShape', Doc \in quiet' => Doc \in quiet,
           \A a \in Actor :
              \/ pc'[a] \notin DocWindow
              \/ pc'[a] = pc[a] /\ fd'[a] = fd[a] /\ draft'[a] = draft[a],
           file'[Doc] = file[Doc], tmp'[Doc] = tmp[Doc]
    PROVE  DocInv'
BY DEF DocInv, DocQuiet, DocWindow

LEMMA DocAmend ==
    ASSUME BadgeInv, DocInv, NEW a \in Actor, NEW chat, Amend(a, chat), UNCHANGED <<queue, draft>>
    PROVE  DocInv'
<1>1. DocShape' BY DEF Amend, DocInv, DocShape, Fcn
<1> QED BY <1>1, Aside DEF Amend, Touch, Goto, DocWindow, BadgeInv, Shape, Fcn

LEMMA DocReply ==
    ASSUME BadgeInv, DocInv, NEW a \in Actor, NEW code, Reply(a, code),
           UNCHANGED <<file, tmp, fd, quiet, queue, draft>>
    PROVE  DocInv'
<1>1. DocShape' BY DEF DocInv, DocShape, Fcn
<1> QED BY <1>1, Aside DEF Reply, Goto, DocWindow, BadgeInv, Shape, Fcn

LEMMA DocThread == ASSUME BadgeInv, DocInv, NEW a \in Actor, ThreadStep(a) PROVE DocInv'
<1>0. UNCHANGED <<queue, draft>> BY DEF ThreadStep, workVars
<1>1. CASE CannotRead(a)
  BY <1>0, <1>1, DocReply DEF CannotRead, fileVars, historyVars
<1>2. CASE Rename(a) /\ ~CannotRead(a)
  <2>1. CASE Reply(a, 200) /\ UNCHANGED <<fileVars, data, historyVars>>
    BY <1>0, <2>1, DocReply DEF fileVars, historyVars
  <2> QED BY <1>0, <1>2, <2>1, DocAmend DEF Rename
<1>3. CASE AppendMessage(a) /\ ~CannotRead(a)
  BY <1>0, <1>3, DocAmend DEF AppendMessage
<1>4. CASE Delete(a)
  <2>1. DocShape' BY <1>0, <1>4 DEF Delete, DocInv, DocShape, Fcn
  <2> QED
    BY <1>0, <1>4, <2>1, Aside DEF Delete, Reply, Goto, Touch, DocWindow, BadgeInv, Shape, Fcn
<1>5. CASE Unlink(a)
  <2>1. DocShape' BY <1>0, <1>5 DEF Unlink, UnlinkFile, DocInv, DocShape, Fcn
  <2>2. \A b \in Actor : pc[b] \in DocWindow => fd'[b] = fd[b]
    BY <1>5, Places DEF Unlink, UnlinkFile, DocWindow, BadgeInv, Shape
  <2>3. file'[Doc] = file[Doc] /\ tmp' = tmp
    BY <1>5, Places DEF Unlink, UnlinkFile, BadgeInv, Shape, Fcn
  <2> QED BY <1>0, <1>5, <2>1, <2>2, <2>3, Aside DEF Unlink, Reply, Goto, DocWindow, BadgeInv, Shape, Fcn
<1>6. CASE Open(a)
  <2>1. DocShape' BY <1>0, <1>6 DEF Open, OpenFile, DocInv, DocShape, Fcn
  <2>2. file'[Doc] = file[Doc] /\ tmp' = tmp
    BY <1>6, Places DEF Open, OpenFile, BadgeInv, Shape, Fcn
  <2> QED BY <1>0, <1>6, <2>1, <2>2, Aside
          DEF Open, OpenFile, Goto, historyVars, DocWindow, BadgeInv, Shape, DocInv, DocShape, Fcn
<1>7. CASE Write(a)
  <2>1. DocShape' BY <1>0, <1>7 DEF Write, WriteOut, DocInv, DocShape, Fcn
  <2>2. file'[Doc] = file[Doc] /\ tmp'[Doc] = tmp[Doc]
    BY <1>7, Places DEF Write, WriteOut, BadgeInv, Shape, DocInv, DocShape, Fcn
  <2> QED BY <1>0, <1>7, <2>1, <2>2, Aside
          DEF Write, WriteOut, Reply, Goto, DocWindow, BadgeInv, Shape, DocInv, DocShape, Fcn
<1> QED BY <1>1, <1>2, <1>3, <1>4, <1>5, <1>6, <1>7 DEF ThreadStep

LEMMA DocRun == ASSUME BadgeInv, DocInv, NEW a \in Actor, RunStep(a) PROVE DocInv'
<1>1. CASE StorePrompt(a) \/ StoreReply(a)
  BY <1>1, DocAmend, DocReply
     DEF StorePrompt, StoreReply, CannotRead, fileVars, historyVars, workVars
<1>2. CASE BeginRun(a)
  <2>1. DocShape' BY <1>2 DEF BeginRun, fileVars, DocInv, DocShape, Fcn
  <2> QED BY <1>2, <2>1, Aside
          DEF BeginRun, Goto, fileVars, historyVars, DocWindow, BadgeInv, Shape, Fcn
<1>3. CASE Propose(a)
  <2>1. PICK op \in Op : queue' = [queue EXCEPT ![a] = Append(@, op)]
    BY <1>3, ConversationsAssumption DEF Propose
  <2>2. Append(queue[a], op) \in Seq(Op) BY AppendProperties DEF DocInv, DocShape
  <2>3. DocShape' BY <1>3, <2>1, <2>2 DEF Propose, fileVars, DocInv, DocShape, Fcn
  <2> QED BY <1>3, <2>3, Aside DEF Propose, fileVars, threadVars, requestVars, historyVars, DocWindow
<1>4. CASE Answer(a)
  <2>1. DocShape' BY <1>4 DEF Answer, fileVars, workVars, DocInv, DocShape, Fcn
  <2> QED BY <1>4, <2>1, Aside
          DEF Answer, Goto, fileVars, historyVars, workVars, DocWindow, BadgeInv, Shape, Fcn
<1>5. CASE Fail(a)
  <2>1. <<>> \in Seq(Op) BY EmptySeq
  <2>2. DocShape' BY <1>5, <2>1 DEF Fail, fileVars, DocInv, DocShape, Fcn
  <2> QED BY <1>5, <2>2, Aside
          DEF Fail, Reply, Goto, fileVars, historyVars, DocWindow, BadgeInv, Shape, Fcn
<1> QED BY <1>1, <1>2, <1>3, <1>4, <1>5 DEF RunStep

(* An apply that has read what it needs and goes on to write new. *)
LEMMA DocApply == ASSUME BadgeInv, DocInv, NEW a \in Actor, ApplyStep(a) PROVE DocInv'
<1>0. queue \in [Actor -> Seq(Op)] /\ UNCHANGED queue
  BY DEF DocInv, DocShape, ApplyStep, BeginApply, ApplyDelete, OpenDraft, FillDraft, ReplaceDoc,
         Badge, workVars
<1>1. CASE BeginApply(a)
  <2>0. PICK r \in Actor : \E i \in DOMAIN queue[r] :
          queue[r][i].op # "delete_file" /\ Prepare(a, queue[r][i])
    BY <1>1 DEF BeginApply
  <2>1. PICK i \in DOMAIN queue[r] :
          queue[r][i].op # "delete_file" /\ Prepare(a, queue[r][i])
    BY <2>0
  <2>2. queue[r][i] \in Op BY <1>0, LenProperties, ElementOfSeq
  <2>3. /\ UNCHANGED <<file, tmp, fd>> /\ DocShape' /\ pc[a] = "idle"
        /\ job' = [job EXCEPT ![a] = Doc]
        /\ Doc \in quiet' => /\ Doc \in quiet
                             /\ \A b \in Actor \ {a} : ~Busy(b, Doc)
    BY <1>0, <1>1, <2>1 DEF BeginApply, Is, Prepare, Reply, Goto, Touch, DocInv, DocShape, Fcn
  <2>4. CASE pc' = [pc EXCEPT ![a] = "tmp"] /\ Doc \in quiet'
    <3>1. \A b \in Actor : pc'[b] \in DocWindow => b = a
      BY <2>3, <2>4 DEF Busy, DocWindow, BadgeInv, Shape, Fcn
    <3>2. file[Doc] \in Texts \cup {NoFile} BY <2>3, <2>4 DEF DocInv, DocQuiet
    <3>3. PICK t \in (IF queue[r][i].op = "edit_file" THEN ReadsAs(file[Doc]) ELSE {Blank}) :
            \E new \in Outcome(queue[r][i], t) : draft' = [draft EXCEPT ![a] = new]
      BY <2>1, <2>3, <2>4 DEF Prepare, Reply, Goto, BadgeInv, Shape, Fcn
    <3>4. t \in Texts BY <3>2, <3>3, BlankText, TextsReadable DEF ReadsAs, Unreadable
    <3>5. draft'[a] \in Texts
      BY <2>1, <2>2, <3>3, <3>4, OutcomeText DEF DocInv, DocShape, Fcn
    <3>6. pc'[a] = "tmp" BY <2>4 DEF BadgeInv, Shape, Fcn
    <3> QED BY <2>3, <3>1, <3>2, <3>5, <3>6 DEF DocInv, DocQuiet, DocWindow
  <2>5. CASE pc' = [pc EXCEPT ![a] = "done"] /\ UNCHANGED draft
    BY <2>3, <2>5, Aside DEF DocWindow, BadgeInv, Shape, Fcn
  <2>6. CASE Doc \notin quiet' BY <2>3, <2>6 DEF DocInv
  <2> QED BY <2>1, <2>4, <2>5, <2>6 DEF Prepare, Reply, Goto
<1>2. CASE ApplyDelete(a)
  <2>1. /\ DocShape' /\ UNCHANGED <<tmp, draft>>
        /\ pc' = [pc EXCEPT ![a] = "badge"] \/ pc' = [pc EXCEPT ![a] = "done"]
        /\ Doc \in quiet' => /\ Doc \in quiet
                             /\ \A b \in Actor \ {a} : ~Busy(b, Doc)
    BY <1>2 DEF ApplyDelete, UnlinkFile, Reply, Goto, Touch, DocInv, DocShape, Fcn
  <2>2. file'[Doc] \in {file[Doc], NoFile}
    BY <1>2, Places DEF ApplyDelete, UnlinkFile, BadgeInv, Shape, Fcn
  <2>3. Doc \in quiet' => \A b \in Actor : pc'[b] \notin DocWindow
    BY <2>1 DEF Busy, DocWindow, BadgeInv, Shape, Fcn
  <2> QED BY <2>1, <2>2, <2>3 DEF DocInv, DocQuiet, DocWindow
<1>3. CASE OpenDraft(a)
  <2>1. /\ pc[a] = "tmp" /\ job[a] = Doc /\ UNCHANGED <<file, quiet, draft>>
        /\ pc' = [pc EXCEPT ![a] = "fill"] /\ fd' = [fd EXCEPT ![a] = "tmp"]
        /\ tmp' = [tmp EXCEPT ![Doc] = Empty]
    BY <1>3 DEF OpenDraft, OpenTmp, Goto, historyVars, workVars, BadgeInv, Shape
  <2>2. DocShape' BY <1>0, <2>1 DEF DocInv, DocShape, Fcn
  <2>3. tmp'[Doc] = Empty /\ pc'[a] = "fill" /\ fd'[a] = "tmp"
        /\ \A b \in Actor \ {a} : pc'[b] = pc[b]
    BY <2>1, Places DEF DocInv, DocShape, BadgeInv, Shape, Fcn
  <2> QED BY <2>1, <2>2, <2>3 DEF DocInv, DocQuiet, DocWindow
<1>4. CASE FillDraft(a)
  <2>1. /\ pc[a] = "fill" /\ job[a] = Doc /\ UNCHANGED <<quiet, draft>>
        /\ pc' = [pc EXCEPT ![a] = "replace"] /\ WriteOut(a, draft[a])
    BY <1>4 DEF FillDraft, Goto, historyVars, workVars, BadgeInv, Shape
  <2>2. DocShape' BY <1>0, <2>1 DEF WriteOut, DocInv, DocShape, Fcn
  <2>3. CASE Doc \in quiet
    <3>1. fd[a] = "tmp" /\ tmp[Doc] = Empty /\ draft[a] \in Texts
      BY <2>1, <2>3 DEF DocInv, DocQuiet, DocWindow
    <3>2. UNCHANGED file /\ tmp'[Doc] = draft[a]
      BY <2>1, <3>1, Places DEF WriteOut, Overlay, DocInv, DocShape, Fcn
    <3>3. pc'[a] = "replace" /\ \A b \in Actor \ {a} : pc'[b] = pc[b]
      BY <2>1 DEF BadgeInv, Shape, Fcn
    <3> QED BY <2>1, <2>2, <2>3, <3>1, <3>2, <3>3 DEF DocInv, DocQuiet, DocWindow
  <2> QED BY <2>1, <2>2, <2>3 DEF DocInv
<1>5. CASE ReplaceDoc(a)
  <2>1. /\ pc[a] = "replace" /\ job[a] = Doc /\ UNCHANGED <<quiet, draft>>
        /\ pc' = [pc EXCEPT ![a] = "badge"] \/ pc' = [pc EXCEPT ![a] = "done"]
        /\ Replace(a) \/ UNCHANGED <<file, tmp, fd>>
    BY <1>5 DEF ReplaceDoc, Reply, Goto, fileVars, historyVars, BadgeInv, Shape
  <2>2. DocShape' BY <1>0, <2>1 DEF Replace, DocInv, DocShape, Fcn
  <2>3. Doc \in quiet => file'[Doc] \in Texts \cup {NoFile}
    BY <2>1, Places DEF Replace, DocInv, DocQuiet, DocWindow, BadgeInv, Shape, Fcn
  <2>4. Doc \in quiet => \A b \in Actor : pc'[b] \notin DocWindow
    BY <2>1 DEF DocInv, DocQuiet, DocWindow, BadgeInv, Shape, Fcn
  <2> QED BY <2>1, <2>2, <2>3, <2>4 DEF DocInv, DocQuiet, DocWindow
<1>6. CASE Badge(a)
  <2>0. UNCHANGED draft BY <1>6 DEF Badge, workVars
  <2>1. CASE Readable /\ Holds(origin[a]) # {}
    BY <1>0, <1>6, <2>0, <2>1, DocAmend DEF Badge
  <2>2. CASE ~(Readable /\ Holds(origin[a]) # {})
    BY <1>0, <1>6, <2>0, <2>2, DocReply DEF Badge, fileVars, historyVars
  <2> QED BY <2>1, <2>2
<1> QED BY <1>1, <1>2, <1>3, <1>4, <1>5, <1>6 DEF ApplyStep

LEMMA DocNext == BadgeInv /\ DocInv /\ [Next]_vars => DocInv'
<1> SUFFICES ASSUME BadgeInv, DocInv, [Next]_vars PROVE DocInv' OBVIOUS
<1>1. ASSUME NEW a \in Actor, ThreadStep(a) PROVE DocInv' BY <1>1, DocThread
<1>2. ASSUME NEW a \in Actor, RunStep(a) PROVE DocInv' BY <1>2, DocRun
<1>3. ASSUME NEW a \in Actor, ApplyStep(a) PROVE DocInv' BY <1>3, DocApply
<1>4. CASE UserEdits
  <2>1. PICK doc \in Docs : file' = [file EXCEPT ![Doc] = doc] BY <1>4 DEF UserEdits
  <2>2. doc \in Texts \cup {NoFile} BY ConversationsAssumption, TextIsTexts
  <2>3. DocShape' BY <1>4 DEF UserEdits, DocInv, DocShape, Fcn
  <2>4. file'[Doc] \in Texts \cup {NoFile}
    BY <2>1, <2>2, Places DEF BadgeInv, Shape, Fcn
  <2>5. Doc \in quiet' => Doc \in quiet /\ \A a \in Actor : pc'[a] \notin DocWindow
    BY <1>4 DEF UserEdits, requestVars, Busy, DocWindow, BadgeInv, Shape
  <2> QED BY <2>3, <2>4, <2>5 DEF DocInv, DocQuiet, DocWindow
<1>5. CASE Crash
  <2>1. <<>> \in Seq(Op) BY EmptySeq
  <2>2. DocShape' BY <1>5, <2>1 DEF Crash, DocInv, DocShape, Fcn
  <2> QED BY <1>5, <2>2, Aside DEF Crash, DocWindow
<1>6. CASE UNCHANGED vars
  BY <1>6 DEF vars, fileVars, threadVars, requestVars, historyVars, workVars, DocInv, DocShape,
              DocQuiet, Fcn
<1> QED BY <1>1, <1>2, <1>3, <1>4, <1>5, <1>6 DEF Next

(* Only a rename or a deletion is counted, and as long as applies have not  *)
(* overlapped, a rename puts the apply's own draft there.                   *)
LandInv == Doc \in quiet => took \subseteq landed

LEMMA LandKept == ASSUME LandInv, UNCHANGED <<took, landed>>, quiet' \subseteq quiet PROVE LandInv'
BY DEF LandInv

LEMMA QuietShrinks == [Next]_vars => quiet' \subseteq quiet
<1> SUFFICES ASSUME [Next]_vars PROVE quiet' \subseteq quiet OBVIOUS
<1>1. ASSUME NEW a \in Actor, NEW r, Touch(a, r) PROVE quiet' \subseteq quiet BY <1>1 DEF Touch
<1>2. ASSUME NEW a \in Actor, CannotRead(a) PROVE quiet' = quiet
  BY <1>2 DEF CannotRead, historyVars
<1>3. ASSUME NEW a \in Actor, ThreadStep(a) PROVE quiet' \subseteq quiet
  BY <1>1, <1>2, <1>3
  DEF ThreadStep, Rename, AppendMessage, Delete, Unlink, Open, Write, Amend, historyVars
<1>4. ASSUME NEW a \in Actor, RunStep(a) PROVE quiet' \subseteq quiet
  BY <1>1, <1>2, <1>4
  DEF RunStep, BeginRun, StorePrompt, Propose, Answer, Fail, StoreReply, Amend, historyVars, threadVars
<1>5. ASSUME NEW a \in Actor, ApplyStep(a) PROVE quiet' \subseteq quiet
  BY <1>1, <1>5
  DEF ApplyStep, BeginApply, ApplyDelete, OpenDraft, FillDraft, ReplaceDoc, Badge, Amend, historyVars
<1>6. CASE UserEdits BY <1>6 DEF UserEdits
<1>7. CASE Crash BY <1>7 DEF Crash
<1>8. CASE UNCHANGED vars BY <1>8 DEF vars, threadVars, historyVars
<1> QED BY <1>3, <1>4, <1>5, <1>6, <1>7, <1>8 DEF Next

LEMMA LandNext == BadgeInv /\ DocInv /\ LandInv /\ [Next]_vars => LandInv'
<1> SUFFICES ASSUME BadgeInv, DocInv, LandInv, [Next]_vars PROVE LandInv' OBVIOUS
<1>1. quiet' \subseteq quiet BY QuietShrinks
<1>2. ASSUME NEW a \in Actor, ApplyDelete(a) PROVE LandInv'
  BY <1>1, <1>2 DEF ApplyDelete, LandInv
<1>3. ASSUME NEW a \in Actor, ReplaceDoc(a) PROVE LandInv'
  <2>1. pc[a] = "replace" /\ job[a] = Doc BY <1>3 DEF ReplaceDoc, BadgeInv, Shape
  <2>2. CASE UNCHANGED <<took, landed>> BY <1>1, <2>2, LandKept
  <2>3. CASE Replace(a) /\ took' = took \cup {a}
             /\ landed' = IF file'[Doc] = draft[a] THEN landed \cup {a} ELSE landed
    <3>1. Doc \in quiet => file'[Doc] = draft[a]
      BY <2>1, <2>3, Places DEF Replace, DocInv, DocQuiet, BadgeInv, Shape, Fcn
    <3> QED BY <1>1, <2>3, <3>1 DEF LandInv
  <2> QED BY <1>3, <2>2, <2>3 DEF ReplaceDoc
<1>4. ASSUME NEW a \in Actor, ThreadStep(a) \/ RunStep(a) PROVE UNCHANGED <<took, landed>>
  BY <1>4 DEF ThreadStep, RunStep, BeginRun, StorePrompt, Propose, Answer, Fail, StoreReply, workVars
<1>5. ASSUME NEW a \in Actor, ApplyStep(a), ~ApplyDelete(a), ~ReplaceDoc(a)
      PROVE  UNCHANGED <<took, landed>>
  BY <1>5 DEF ApplyStep, BeginApply, OpenDraft, FillDraft, Badge, workVars
<1>6. CASE UserEdits \/ Crash \/ UNCHANGED vars
  <2>1. UNCHANGED <<took, landed>> BY <1>6 DEF UserEdits, Crash, vars, workVars
  <2> QED BY <1>1, <2>1, LandKept
<1> QED BY <1>1, <1>2, <1>3, <1>4, <1>5, <1>6, LandKept DEF Next

(* A badge under a message stands for an apply whose rename or deletion    *)
(* went through, whatever requests overlap and whenever the server dies;   *)
(* and for the apply's own text in the file as long as no two changes of   *)
(* the file have overlapped.                                               *)
THEOREM BadgesAreTrue == Spec => []BadgeMeansApplied
<1>1. BadgeInv /\ LandInv => BadgeMeansApplied
  <2> SUFFICES ASSUME BadgeInv, LandInv, Readable, NEW i \in DOMAIN file[Chat].messages
               PROVE  /\ file[Chat].messages[i].applied \subseteq took
                      /\ Doc \in quiet => file[Chat].messages[i].applied \subseteq landed
    BY DEF BadgeMeansApplied
  <2>1. file[Chat] \in Honest(took) BY DEF BadgeInv, Readable
  <2>2. file[Chat].messages \in Seq(Messages) BY <2>1 DEF Honest, Chats, Titles
  <2>3. i \in 1 .. Len(file[Chat].messages) BY <2>2, LenProperties
  <2>4. file[Chat].messages[i].applied \subseteq took BY <2>1, <2>3 DEF Honest
  <2> QED BY <2>4 DEF LandInv
<1>2. Init => LandInv BY DEF Init, LandInv
<1> QED BY <1>1, <1>2, BadgeInit, BadgeNext, DocInit, DocNext, LandNext, PTL DEF Spec

(* The workspace file is never half written, for any requests, operations  *)
(* and crashes, as long as its changes do not overlap.                     *)
THEOREM NeverHalfWrittenAlways == Spec => []NeverHalfWritten
<1>1. DocInv => NeverHalfWritten
  BY TextsReadable, FilesAssumption DEF DocInv, DocQuiet, NeverHalfWritten, Unreadable
<1> QED BY <1>1, BadgeInit, BadgeNext, DocInit, DocNext, PTL DEF Spec

-----------------------------------------------------------------------------
(* The thread.  As long as its rewrites have not overlapped, it holds what *)
(* was stored, or is being rewritten by a request whose copy does, and     *)
(* which also holds what that request is about to record; and after the    *)
(* DELETE there is neither a file nor a request that would create one.     *)

IdsOf(c) == {Id(c.messages[i]) : i \in DOMAIN c.messages}
BadgesOf(c) == UNION {c.messages[i].applied : i \in DOMAIN c.messages}

Keeps(c) == stored \subseteq IdsOf(c) /\ badged \subseteq BadgesOf(c)
KeepsTitle(c) == named # "" => c.title = named

Own(a, c) ==
    /\ kind[a] \in {"append", "run"} => <<a, Last(c.messages).role>> \in IdsOf(c)
    /\ kind[a] = "apply" => a \in BadgesOf(c)

ChatShape ==
    \A a \in Actor :
        /\ pc[a] = "unlink" => job[a] = Chat
        /\ pc[a] \in {"ask", "agent", "reply"} => kind[a] = "run"
        /\ pc[a] \in DocWindow \cup {"badge"} => kind[a] = "apply"

ChatKept ==
    /\ (\A a \in Actor : pc[a] # "write") => /\ Readable
                                             /\ Keeps(file[Chat]) /\ KeepsTitle(file[Chat])
    /\ \A a \in Actor : pc[a] \in {"open", "write"} =>
          /\ Keeps(data[a]) /\ Own(a, data[a])
          /\ kind[a] # "rename" => KeepsTitle(data[a])
    /\ \A a \in Actor : pc[a] = "write" => fd[a] = "file" /\ file[Chat] = Empty

ChatQuiet ==
    /\ \A a, b \in Actor : pc[a] \in ChatWindow /\ pc[b] \in ChatWindow => a = b
    /\ gone => file[Chat] = NoFile /\ \A a \in Actor : pc[a] \notin ChatWindow
    /\ ~gone => ChatKept

ChatInv == ChatShape /\ (Chat \in quiet => ChatQuiet)

(* Any sequence with all the messages of another, their badges included.   *)
LEMMA MoreKeeps ==
    ASSUME NEW c, NEW d, Keeps(c),
           \A i \in DOMAIN c.messages :
              /\ i \in DOMAIN d.messages
              /\ Id(d.messages[i]) = Id(c.messages[i])
              /\ c.messages[i].applied \subseteq d.messages[i].applied
    PROVE  Keeps(d)
<1>1. IdsOf(c) \subseteq IdsOf(d) BY DEF IdsOf
<1>2. BadgesOf(c) \subseteq BadgesOf(d)
  <2>1. ASSUME NEW x \in BadgesOf(c) PROVE x \in BadgesOf(d)
    <3>1. PICK i \in DOMAIN c.messages : x \in c.messages[i].applied BY DEF BadgesOf
    <3>2. i \in DOMAIN d.messages /\ x \in d.messages[i].applied BY <3>1
    <3> QED BY <3>2 DEF BadgesOf
  <2> QED BY <2>1
<1> QED BY <1>1, <1>2 DEF Keeps

LEMMA PostedKeeps ==
    ASSUME file[Chat] \in Chats, Keeps(file[Chat]), KeepsTitle(file[Chat]),
           NEW a \in Actor, NEW role \in Roles, NEW blank \in BOOLEAN, kind[a] # "apply"
    PROVE  LET c == Posted(a, role, blank) IN Keeps(c) /\ Own(a, c) /\ KeepsTitle(c)
<1> DEFINE old == file[Chat].messages
           m == Message(a, role)
           c == Posted(a, role, blank)
<1>1. old \in Seq(Messages) BY DEF Chats
<1>2. m \in Messages /\ m.role = role /\ Id(m) = <<a, role>> BY DEF Message, Messages, Roles, Id
<1>3. c.messages = Append(old, m) BY DEF Posted
<1> HIDE DEF m, old
<1>4. /\ Append(old, m) \in Seq(Messages) /\ Len(Append(old, m)) = Len(old) + 1
      /\ Append(old, m)[Len(old) + 1] = m
      /\ \A i \in 1 .. Len(old) : Append(old, m)[i] = old[i]
  BY <1>1, <1>2, AppendProperties
<1>5. /\ Len(old) \in Nat /\ DOMAIN old = 1 .. Len(old)
      /\ DOMAIN Append(old, m) = 1 .. Len(old) + 1
  BY <1>1, <1>4, LenProperties
<1>6. Keeps(c)
  <2>1. ASSUME NEW i \in DOMAIN old
        PROVE  i \in DOMAIN Append(old, m) /\ Append(old, m)[i] = old[i]
    BY <1>4, <1>5
  <2> QED BY <1>3, <2>1, MoreKeeps DEF old
<1>7. Own(a, c)
  <2>1. Last(c.messages) = m BY <1>3, <1>4 DEF Last
  <2>2. Len(old) + 1 \in DOMAIN c.messages /\ c.messages[Len(old) + 1] = m BY <1>3, <1>4, <1>5
  <2> QED BY <1>2, <2>1, <2>2 DEF Own, IdsOf
<1>8. KeepsTitle(c) BY DEF KeepsTitle, Posted
<1> QED BY <1>6, <1>7, <1>8

LEMMA BadgedKeeps ==
    ASSUME file[Chat] \in Chats, Keeps(file[Chat]), KeepsTitle(file[Chat]),
           NEW a \in Actor, kind[a] = "apply", NEW i \in DOMAIN file[Chat].messages
    PROVE  LET c == [file[Chat] EXCEPT !.messages[i].applied = @ \cup {a}]
           IN  Keeps(c) /\ Own(a, c) /\ KeepsTitle(c)
<1> DEFINE old == file[Chat].messages
           m == [old[i] EXCEPT !.applied = @ \cup {a}]
           new == [old EXCEPT ![i] = m]
           c == [file[Chat] EXCEPT !.messages[i].applied = @ \cup {a}]
<1>1. old \in Seq(Messages) /\ old[i] \in Messages
  BY LenProperties, ElementOfSeq DEF Chats
<1>2. m.by = old[i].by /\ m.role = old[i].role /\ m.applied = old[i].applied \cup {a}
  BY <1>1 DEF Messages
<1>3. c.messages = new /\ c.title = file[Chat].title BY DEF Chats
<1>4. DOMAIN new = DOMAIN old /\ new[i] = m /\ \A j \in DOMAIN old \ {i} : new[j] = old[j]
  OBVIOUS
<1>5. Keeps(c)
  <2>1. ASSUME NEW j \in DOMAIN old
        PROVE  Id(new[j]) = Id(old[j]) /\ old[j].applied \subseteq new[j].applied
    BY <1>2, <1>4 DEF Id
  <2>2. \A j \in DOMAIN file[Chat].messages :
          /\ j \in DOMAIN c.messages
          /\ Id(c.messages[j]) = Id(file[Chat].messages[j])
          /\ file[Chat].messages[j].applied \subseteq c.messages[j].applied
    BY <1>3, <1>4, <2>1
  <2> HIDE DEF c
  <2> QED BY <2>2, MoreKeeps
<1>6. a \in BadgesOf(c)
  <2>1. i \in DOMAIN c.messages /\ a \in c.messages[i].applied BY <1>2, <1>3, <1>4
  <2> QED BY <2>1 DEF BadgesOf
<1> QED BY <1>3, <1>5, <1>6 DEF Own, KeepsTitle

LEMMA RenamedKeeps ==
    ASSUME file[Chat] \in Chats, Keeps(file[Chat]), NEW a \in Actor, NEW t, kind[a] = "rename"
    PROVE  LET c == [file[Chat] EXCEPT !.title = t] IN Keeps(c) /\ Own(a, c)
BY DEF Chats, Keeps, IdsOf, BadgesOf, Own

LEMMA ChatInit == Init => ChatInv
<1> SUFFICES ASSUME Init PROVE ChatInv OBVIOUS
<1>1. PICK t \in Title \cup {""}, doc \in Docs :
        file = [r \in Record |-> IF r = Chat THEN NewThread(t) ELSE doc]
  BY DEF Init
<1>2. file[Chat] = NewThread(t) BY <1>1, Places
<1>3. <<>> \in Seq(Messages) BY EmptySeq
<1>4. NewThread(t) \in Chats BY <1>3 DEF NewThread, Chats
<1>5. Readable BY <1>2, <1>4, ThreadsAssumption DEF Readable
<1>6. Keeps(file[Chat]) /\ KeepsTitle(file[Chat]) BY DEF Init, ThreadsInit, Keeps, KeepsTitle
<1> QED BY <1>5, <1>6 DEF Init, ThreadsInit, ChatInv, ChatShape, ChatQuiet, ChatKept, ChatWindow,
        DocWindow

(* Steps that leave the thread and its rewrites alone. *)
LEMMA Apart ==
    ASSUME ChatInv, ChatShape', Chat \in quiet' => Chat \in quiet,
           UNCHANGED <<kind, stored, badged, named, gone>>, file'[Chat] = file[Chat],
           \A a \in Actor :
              \/ pc'[a] \notin ChatWindow /\ (pc[a] = "write" => Chat \notin quiet')
              \/ pc'[a] = pc[a] /\ fd'[a] = fd[a] /\ data'[a] = data[a]
    PROVE  ChatInv'
<1> SUFFICES ASSUME Chat \in quiet' PROVE ChatQuiet' BY DEF ChatInv
<1>1. ChatQuiet BY DEF ChatInv
<1>2. ASSUME ~gone PROVE ChatKept'
  <2>1. ChatKept BY <1>1, <1>2 DEF ChatQuiet
  <2>2. (\A a \in Actor : pc'[a] # "write") => \A a \in Actor : pc[a] # "write"
    BY DEF ChatWindow
  <2>3. ASSUME \A a \in Actor : pc'[a] # "write"
        PROVE  (Readable /\ Keeps(file[Chat]) /\ KeepsTitle(file[Chat]))'
    <3>1. Readable /\ Keeps(file[Chat]) /\ KeepsTitle(file[Chat]) BY <2>1, <2>2, <2>3 DEF ChatKept
    <3>2. IdsOf(file[Chat])' = IdsOf(file[Chat]) /\ BadgesOf(file[Chat])' = BadgesOf(file[Chat])
      BY DEF IdsOf, BadgesOf
    <3> QED BY <3>1, <3>2 DEF Readable, Keeps, KeepsTitle
  <2>4. ASSUME NEW a \in Actor, pc'[a] \in {"open", "write"}
        PROVE  /\ Keeps(data[a])' /\ Own(a, data[a])'
               /\ kind[a]' # "rename" => KeepsTitle(data[a])'
    <3>1. pc'[a] = pc[a] /\ data'[a] = data[a] BY <2>4 DEF ChatWindow
    <3>2. /\ Keeps(data[a]) /\ Own(a, data[a])
          /\ kind[a] # "rename" => KeepsTitle(data[a])
      BY <2>1, <2>4, <3>1 DEF ChatKept
    <3>3. IdsOf(data[a])' = IdsOf(data[a]) /\ BadgesOf(data[a])' = BadgesOf(data[a])
      BY <3>1 DEF IdsOf, BadgesOf
    <3> QED BY <3>1, <3>2, <3>3 DEF Keeps, KeepsTitle, Own
  <2>5. ASSUME NEW a \in Actor, pc'[a] = "write" PROVE fd'[a] = "file" /\ file'[Chat] = Empty
    BY <2>1, <2>5 DEF ChatKept, ChatWindow
  <2> QED BY <2>3, <2>4, <2>5 DEF ChatKept
<1> QED BY <1>1, <1>2 DEF ChatQuiet

LEMMA ChatReply ==
    ASSUME BadgeInv, ChatInv, NEW a \in Actor, NEW code, Reply(a, code), pc[a] \notin ChatWindow,
           UNCHANGED <<file, fd, job, data, kind, historyVars>>
    PROVE  ChatInv'
<1>1. pc' = [pc EXCEPT ![a] = "done"] /\ Fcn(pc, Actor) BY DEF Reply, Goto, BadgeInv, Shape
<1>2. ChatShape'
  BY <1>1 DEF ChatInv, ChatShape, DocWindow, Fcn
<1> QED BY <1>1, <1>2, Apart DEF historyVars, ChatWindow, Fcn

(* A request has read the thread and will write back a copy that keeps it. *)
LEMMA ChatAmend ==
    ASSUME BadgeInv, ChatInv, NEW a \in Actor, NEW chat, Amend(a, chat), UNCHANGED kind,
           Keeps(file[Chat]) /\ KeepsTitle(file[Chat]) =>
              /\ Keeps(chat) /\ Own(a, chat)
              /\ kind[a] # "rename" => KeepsTitle(chat)
    PROVE  ChatInv'
<1>1. /\ Readable /\ pc' = [pc EXCEPT ![a] = "open"] /\ data' = [data EXCEPT ![a] = chat]
      /\ job' = [job EXCEPT ![a] = Chat]
      /\ UNCHANGED <<file, kind, stored, badged, named, gone>>
      /\ Fcn(pc, Actor) /\ Fcn(data, Actor) /\ Fcn(job, Actor)
  BY DEF Amend, Goto, Touch, BadgeInv, Shape
<1>2. ChatShape' BY <1>1 DEF ChatInv, ChatShape, DocWindow, Fcn
<1> SUFFICES ASSUME Chat \in quiet' PROVE ChatQuiet' BY <1>2 DEF ChatInv
<1>3. Chat \in quiet /\ \A b \in Actor \ {a} : ~Busy(b, Chat) BY DEF Amend, Touch
<1>4. \A b \in Actor \ {a} : pc[b] \notin ChatWindow
  BY <1>3 DEF Busy, ChatWindow, ChatInv, ChatShape, BadgeInv, Shape
<1>5. ~gone /\ ChatKept
  BY <1>1, <1>3 DEF ChatInv, ChatQuiet, Readable
<1>6. pc[a] # "write" BY <1>1, <1>5 DEF ChatKept, Readable, Unreadable
<1>7. Keeps(file[Chat]) /\ KeepsTitle(file[Chat]) BY <1>4, <1>5, <1>6 DEF ChatKept, ChatWindow
<1>8. pc'[a] = "open" /\ data'[a] = chat /\ \A b \in Actor \ {a} : pc'[b] \notin ChatWindow
  BY <1>1, <1>4 DEF Fcn
<1>9. ChatKept'
  BY <1>1, <1>7, <1>8 DEF ChatKept, ChatWindow, Readable, Keeps, KeepsTitle, Own, IdsOf, BadgesOf
<1> QED BY <1>1, <1>5, <1>8, <1>9 DEF ChatQuiet

(* What the thread holds while somebody reads it. *)
LEMMA ReadIsChat == BadgeInv /\ Readable => file[Chat] \in Chats
BY DEF BadgeInv, Readable, Honest

LEMMA ChatThread ==
    ASSUME BadgeInv, BadgeInv', DocShape, ChatInv, NEW a \in Actor, ThreadStep(a) PROVE ChatInv'
<1>1. CASE Rename(a)
  <2>0. pc[a] \notin ChatWindow /\ kind[a] = "rename" /\ UNCHANGED kind
    BY <1>1 DEF Rename, Is, ChatWindow
  <2>1. CASE CannotRead(a)
    BY <2>0, <2>1, ChatReply DEF CannotRead, fileVars
  <2>2. CASE Reply(a, 200) /\ UNCHANGED <<fileVars, data, historyVars>>
    BY <2>0, <2>2, ChatReply DEF fileVars
  <2>3. CASE \E t \in Title : Amend(a, [file[Chat] EXCEPT !.title = t])
    <3>1. PICK t \in Title : Amend(a, [file[Chat] EXCEPT !.title = t]) BY <2>3
    <3>2. file[Chat] \in Chats BY <3>1, ReadIsChat DEF Amend
    <3> QED BY <2>0, <3>1, <3>2, RenamedKeeps, ChatAmend
  <2> QED BY <1>1, <2>1, <2>2, <2>3 DEF Rename
<1>2. CASE AppendMessage(a)
  <2>0. pc[a] \notin ChatWindow /\ kind[a] = "append" /\ UNCHANGED kind
    BY <1>2 DEF AppendMessage, Is, ChatWindow
  <2>1. CASE CannotRead(a)
    BY <2>0, <2>1, ChatReply DEF CannotRead, fileVars
  <2>2. CASE \E role \in Roles, blank \in BOOLEAN : Amend(a, Posted(a, role, blank))
    <3>1. PICK role \in Roles, blank \in BOOLEAN : Amend(a, Posted(a, role, blank)) BY <2>2
    <3>2. file[Chat] \in Chats BY <3>1, ReadIsChat DEF Amend
    <3> QED BY <2>0, <3>1, <3>2, PostedKeeps, ChatAmend
  <2> QED BY <1>2, <2>1, <2>2 DEF AppendMessage
<1>3. CASE Delete(a)
  <2>0. pc[a] = "idle" /\ UNCHANGED <<file, fd, data, kind, stored, badged, named, gone>>
    BY <1>3 DEF Delete, Is
  <2>1. CASE file[Chat] = NoFile
    BY <1>3, <2>0, <2>1, ChatReply DEF Delete, historyVars, ChatWindow
  <2>2. CASE file[Chat] # NoFile
    <3>1. /\ pc' = [pc EXCEPT ![a] = "unlink"] /\ job' = [job EXCEPT ![a] = Chat]
          /\ Chat \in quiet' => Chat \in quiet /\ \A b \in Actor \ {a} : ~Busy(b, Chat)
      BY <1>3, <2>2 DEF Delete, Goto, Touch
    <3>2. ChatShape' BY <2>0, <3>1 DEF ChatInv, ChatShape, DocWindow, BadgeInv, Shape, Fcn
    <3>3. ASSUME Chat \in quiet' PROVE ChatQuiet'
      <4>1. Chat \in quiet /\ \A b \in Actor \ {a} : pc[b] \notin ChatWindow
        BY <3>1, <3>3 DEF Busy, ChatWindow, ChatInv, ChatShape, BadgeInv, Shape
      <4>2. ~gone /\ ChatKept BY <2>2, <4>1 DEF ChatInv, ChatQuiet
      <4>3. pc'[a] = "unlink" /\ \A b \in Actor \ {a} : pc'[b] \notin ChatWindow
        BY <3>1, <4>1 DEF BadgeInv, Shape, Fcn
      <4>4. Readable /\ Keeps(file[Chat]) /\ KeepsTitle(file[Chat])
        BY <2>0, <4>1, <4>2 DEF ChatKept, ChatWindow
      <4>5. ChatKept'
        BY <2>0, <4>3, <4>4 DEF ChatKept, ChatWindow, Readable, Keeps, KeepsTitle, IdsOf, BadgesOf
      <4> QED BY <2>0, <4>2, <4>3, <4>5 DEF ChatQuiet
    <3> QED BY <3>2, <3>3 DEF ChatInv
  <2> QED BY <2>1, <2>2
<1>4. CASE Unlink(a)
  <2>1. /\ pc[a] = "unlink" /\ pc' = [pc EXCEPT ![a] = "done"]
        /\ UNCHANGED <<job, kind, data, stored, badged, named, quiet>>
        /\ \/ file' = file /\ gone' = gone
           \/ file' = [file EXCEPT ![Chat] = NoFile]
    BY <1>4 DEF Unlink, UnlinkFile, Reply, Goto
  <2>2. ChatShape' BY <2>1 DEF ChatInv, ChatShape, DocWindow, BadgeInv, Shape, Fcn
  <2>3. ASSUME Chat \in quiet PROVE ChatQuiet'
    <3>1. ~gone /\ ChatKept BY <2>1, <2>3 DEF ChatInv, ChatQuiet, ChatWindow
    <3>2. \A b \in Actor : pc'[b] \notin ChatWindow /\ pc[b] # "write"
      BY <2>1, <2>3 DEF ChatInv, ChatQuiet, ChatWindow, BadgeInv, Shape, Fcn
    <3>3. Readable /\ Keeps(file[Chat]) /\ KeepsTitle(file[Chat])
      BY <3>1, <3>2 DEF ChatKept
    <3>4. CASE file' = file /\ gone' = gone
      <4>1. ChatKept'
        BY <2>1, <3>2, <3>3, <3>4 DEF ChatKept, ChatWindow, Readable, Keeps, KeepsTitle, IdsOf, BadgesOf
      <4> QED BY <3>1, <3>2, <3>4, <4>1 DEF ChatQuiet
    <3>5. CASE file' = [file EXCEPT ![Chat] = NoFile]
      <4>1. file'[Chat] = NoFile BY <3>5, Places DEF BadgeInv, Shape, Fcn
      <4>2. file[Chat] # NoFile BY <3>3 DEF Readable
      <4>3. gone' BY <1>4, <4>1, <4>2 DEF Unlink
      <4> QED BY <3>2, <4>1, <4>3 DEF ChatQuiet
    <3> QED BY <2>1, <3>4, <3>5
  <2> QED BY <2>1, <2>2, <2>3 DEF ChatInv
<1>5. CASE Open(a)
  <2>1. /\ pc[a] = "open" /\ pc' = [pc EXCEPT ![a] = "write"] /\ job[a] = Chat
        /\ file' = [file EXCEPT ![Chat] = Empty] /\ fd' = [fd EXCEPT ![a] = "file"]
        /\ UNCHANGED <<job, kind, data, stored, badged, named, gone, quiet>>
    BY <1>5 DEF Open, OpenFile, Goto, historyVars, BadgeInv, Shape
  <2>2. ChatShape' BY <2>1 DEF ChatInv, ChatShape, DocWindow, BadgeInv, Shape, Fcn
  <2>3. ASSUME Chat \in quiet PROVE ChatQuiet'
    <3>1. ~gone /\ ChatKept BY <2>1, <2>3 DEF ChatInv, ChatQuiet, ChatWindow
    <3>2. pc'[a] = "write" /\ \A b \in Actor \ {a} : pc'[b] \notin ChatWindow
      BY <2>1, <2>3 DEF ChatInv, ChatQuiet, ChatWindow, BadgeInv, Shape, Fcn
    <3>3. fd'[a] = "file" /\ file'[Chat] = Empty
      BY <2>1, Places DEF DocShape, BadgeInv, Shape, Fcn
    <3>4. Keeps(data[a]) /\ Own(a, data[a]) /\ (kind[a] # "rename" => KeepsTitle(data[a]))
      BY <2>1, <3>1 DEF ChatKept
    <3>5. ChatKept'
      BY <2>1, <3>2, <3>3, <3>4 DEF ChatKept, ChatWindow, Keeps, KeepsTitle, Own, IdsOf, BadgesOf
    <3> QED BY <2>1, <3>1, <3>2, <3>5 DEF ChatQuiet
  <2> QED BY <2>1, <2>2, <2>3 DEF ChatInv
<1>6. CASE Write(a)
  <2>1. /\ pc[a] = "write" /\ job[a] = Chat /\ WriteOut(a, data[a])
        /\ \/ pc' = [pc EXCEPT ![a] = "agent"] /\ kind[a] = "run"
           \/ pc' = [pc EXCEPT ![a] = "done"]
        /\ UNCHANGED <<job, kind, gone, quiet>>
        /\ stored' = IF kind[a] \in {"append", "run"}
                     THEN stored \cup {<<a, Last(data[a].messages).role>>} ELSE stored
        /\ badged' = IF kind[a] = "apply" THEN badged \cup {a} ELSE badged
        /\ named' = IF kind[a] = "rename" THEN data[a].title ELSE named
    BY <1>6 DEF Write, Reply, Goto, BadgeInv, Shape
  <2>2. ChatShape' BY <2>1 DEF ChatInv, ChatShape, DocWindow, BadgeInv, Shape, Fcn
  <2>3. ASSUME Chat \in quiet PROVE ChatQuiet'
    <3>1. ~gone /\ ChatKept BY <2>1, <2>3 DEF ChatInv, ChatQuiet, ChatWindow
    <3>2. \A b \in Actor : pc'[b] \notin ChatWindow
      BY <2>1, <2>3 DEF ChatInv, ChatQuiet, ChatWindow, BadgeInv, Shape, Fcn
    <3>3. fd[a] = "file" /\ file[Chat] = Empty BY <2>1, <3>1 DEF ChatKept
    <3>4. file'[Chat] = data[a]
      BY <2>1, <3>3, Places DEF WriteOut, Overlay, BadgeInv, Shape, Fcn
    <3>5. data[a] \in Chats BY <2>1 DEF BadgeInv, Honest
    <3>6. Readable' BY <3>4, <3>5, ThreadsAssumption DEF Readable
    <3>7. Keeps(data[a]) /\ Own(a, data[a]) /\ (kind[a] # "rename" => KeepsTitle(data[a]))
      BY <2>1, <3>1 DEF ChatKept
    <3>8. stored' \subseteq IdsOf(data[a]) /\ badged' \subseteq BadgesOf(data[a])
      BY <2>1, <3>7 DEF Keeps, Own
    <3>9. Keeps(file[Chat])' BY <3>4, <3>8 DEF Keeps, IdsOf, BadgesOf
    <3>10. KeepsTitle(file[Chat])' BY <2>1, <3>4, <3>7 DEF KeepsTitle
    <3>11. ChatKept' BY <3>2, <3>6, <3>9, <3>10 DEF ChatKept, ChatWindow
    <3> QED BY <2>1, <3>1, <3>2, <3>11 DEF ChatQuiet
  <2> QED BY <2>1, <2>2, <2>3 DEF ChatInv
<1> QED BY <1>1, <1>2, <1>3, <1>4, <1>5, <1>6 DEF ThreadStep

LEMMA ChatRun ==
    ASSUME BadgeInv, DocShape, ChatInv, NEW a \in Actor, RunStep(a) PROVE ChatInv'
<1>1. CASE StorePrompt(a) \/ StoreReply(a)
  <2>0. pc[a] \notin ChatWindow /\ kind[a] = "run" /\ UNCHANGED kind
    BY <1>1 DEF StorePrompt, StoreReply, ChatWindow, ChatInv, ChatShape
  <2>1. CASE CannotRead(a) BY <2>0, <2>1, ChatReply DEF CannotRead, fileVars
  <2>2. CASE Amend(a, Posted(a, "user", FALSE))
    BY <2>0, <2>2, ReadIsChat, PostedKeeps, ChatAmend DEF Amend, Roles
  <2>3. CASE Amend(a, Posted(a, "assistant", FALSE))
    BY <2>0, <2>3, ReadIsChat, PostedKeeps, ChatAmend DEF Amend, Roles
  <2> QED BY <1>1, <2>1, <2>2, <2>3 DEF StorePrompt, StoreReply
<1>2. CASE BeginRun(a)
  <2>1. ChatShape'
    BY <1>2 DEF BeginRun, Is, Goto, fileVars, ChatInv, ChatShape, DocWindow, BadgeInv, Shape, Fcn
  <2> QED BY <1>2, <2>1, Apart
          DEF BeginRun, Is, Goto, fileVars, historyVars, ChatWindow, BadgeInv, Shape, Fcn
<1>3. CASE Propose(a)
  <2>1. ChatShape' BY <1>3 DEF Propose, fileVars, threadVars, requestVars, ChatInv, ChatShape
  <2> QED BY <1>3, <2>1, Apart DEF Propose, fileVars, threadVars, requestVars, historyVars
<1>4. CASE Answer(a)
  <2>1. ChatShape'
    BY <1>4 DEF Answer, Goto, fileVars, ChatInv, ChatShape, DocWindow, BadgeInv, Shape, Fcn
  <2> QED BY <1>4, <2>1, Apart
          DEF Answer, Goto, fileVars, historyVars, ChatWindow, BadgeInv, Shape, Fcn
<1>5. CASE Fail(a)
  BY <1>5, ChatReply DEF Fail, fileVars, ChatWindow
<1> QED BY <1>1, <1>2, <1>3, <1>4, <1>5 DEF RunStep

LEMMA ChatApply ==
    ASSUME BadgeInv, BadgeInv', DocShape, ChatInv, NEW a \in Actor, ApplyStep(a) PROVE ChatInv'
<1>1. CASE BeginApply(a)
  <2>1. /\ UNCHANGED <<file, tmp, fd, kind, data, stored, badged, named, gone>>
        /\ pc[a] = "idle" /\ kind[a] = "apply" /\ job' = [job EXCEPT ![a] = Doc]
        /\ pc' = [pc EXCEPT ![a] = "tmp"] \/ pc' = [pc EXCEPT ![a] = "done"]
        /\ quiet' \subseteq quiet
    BY <1>1 DEF BeginApply, Is, Prepare, Reply, Goto, Touch
  <2>2. ChatShape' BY <2>1 DEF ChatInv, ChatShape, DocWindow, BadgeInv, Shape, Fcn
  <2> QED BY <2>1, <2>2, Apart DEF ChatWindow, BadgeInv, Shape, Fcn
<1>2. CASE ApplyDelete(a)
  <2>1. /\ UNCHANGED <<kind, data, stored, badged, named, gone>>
        /\ pc[a] = "idle" /\ kind[a] = "apply" /\ job' = [job EXCEPT ![a] = Doc]
        /\ pc' = [pc EXCEPT ![a] = "badge"] \/ pc' = [pc EXCEPT ![a] = "done"]
        /\ quiet' \subseteq quiet
    BY <1>2 DEF ApplyDelete, Is, Reply, Goto, Touch
  <2>2. ChatShape' BY <2>1 DEF ChatInv, ChatShape, DocWindow, BadgeInv, Shape, Fcn
  <2>3. file'[Chat] = file[Chat] BY <1>2, Places DEF ApplyDelete, UnlinkFile, BadgeInv, Shape, Fcn
  <2>4. \A b \in Actor : job[b] = Chat => fd'[b] = fd[b]
    BY <1>2, Places DEF ApplyDelete, UnlinkFile
  <2>5. \A b \in Actor \ {a} : pc'[b] = pc[b] BY <2>1 DEF BadgeInv, Shape, Fcn
  <2>6. \A b \in Actor : pc[b] \in ChatWindow => job[b] = Chat
    BY DEF ChatWindow, ChatInv, ChatShape, BadgeInv, Shape
  <2>7. pc'[a] \notin ChatWindow BY <2>1 DEF ChatWindow, BadgeInv, Shape, Fcn
  <2>8. \A b \in Actor :
          \/ pc'[b] \notin ChatWindow /\ pc[b] # "write"
          \/ pc'[b] = pc[b] /\ fd'[b] = fd[b] /\ data'[b] = data[b]
    <3>1. \A b \in Actor \ {a} : pc[b] \in ChatWindow => fd'[b] = fd[b] BY <2>4, <2>6
    <3>2. \A b \in Actor \ {a} : pc[b] \notin ChatWindow =>
            pc'[b] \notin ChatWindow /\ pc[b] # "write"
      BY <2>5 DEF ChatWindow
    <3> QED BY <2>1, <2>5, <2>7, <3>1, <3>2
  <2> QED BY <2>1, <2>2, <2>3, <2>8, Apart
<1>3. CASE OpenDraft(a)
  <2>1. /\ pc[a] = "tmp" /\ UNCHANGED <<file, job, kind, data, historyVars>>
        /\ pc' = [pc EXCEPT ![a] = "fill"] /\ fd' = [fd EXCEPT ![a] = "tmp"]
    BY <1>3 DEF OpenDraft, OpenTmp, Goto
  <2>2. ChatShape' BY <2>1 DEF ChatInv, ChatShape, DocWindow, BadgeInv, Shape, Fcn
  <2> QED BY <2>1, <2>2, Apart DEF historyVars, ChatWindow, DocShape, BadgeInv, Shape, Fcn
<1>4. CASE FillDraft(a)
  <2>1. /\ pc[a] = "fill" /\ job[a] = Doc /\ UNCHANGED <<job, kind, data, historyVars>>
        /\ pc' = [pc EXCEPT ![a] = "replace"] /\ fd' = [fd EXCEPT ![a] = "closed"]
    BY <1>4 DEF FillDraft, WriteOut, Goto, BadgeInv, Shape
  <2>2. ChatShape' BY <2>1 DEF ChatInv, ChatShape, DocWindow, BadgeInv, Shape, Fcn
  <2>3. file'[Chat] = file[Chat]
    BY <1>4, <2>1, Places DEF FillDraft, WriteOut, BadgeInv, Shape, Fcn
  <2> QED BY <2>1, <2>2, <2>3, Apart DEF historyVars, ChatWindow, DocShape, BadgeInv, Shape, Fcn
<1>5. CASE ReplaceDoc(a)
  <2>1. /\ pc[a] = "replace" /\ job[a] = Doc /\ UNCHANGED <<job, kind, data, historyVars>>
        /\ pc' = [pc EXCEPT ![a] = "badge"] \/ pc' = [pc EXCEPT ![a] = "done"]
        /\ Replace(a) \/ UNCHANGED <<file, tmp, fd>>
    BY <1>5 DEF ReplaceDoc, Reply, Goto, fileVars, BadgeInv, Shape
  <2>2. ChatShape' BY <2>1 DEF ChatInv, ChatShape, DocWindow, BadgeInv, Shape, Fcn
  <2>3. file'[Chat] = file[Chat] BY <2>1, Places DEF Replace, BadgeInv, Shape, Fcn
  <2>4. \A b \in Actor : job[b] = Chat => fd'[b] = fd[b] BY <2>1, Places DEF Replace
  <2>5. \A b \in Actor \ {a} : pc'[b] = pc[b] BY <2>1 DEF BadgeInv, Shape, Fcn
  <2>6. \A b \in Actor : pc[b] \in ChatWindow => job[b] = Chat
    BY DEF ChatWindow, ChatInv, ChatShape, BadgeInv, Shape
  <2>7. pc'[a] \notin ChatWindow BY <2>1 DEF ChatWindow, BadgeInv, Shape, Fcn
  <2>8. \A b \in Actor :
          \/ pc'[b] \notin ChatWindow /\ pc[b] # "write"
          \/ pc'[b] = pc[b] /\ fd'[b] = fd[b] /\ data'[b] = data[b]
    <3>1. \A b \in Actor \ {a} : pc[b] \in ChatWindow => fd'[b] = fd[b] BY <2>4, <2>6
    <3>2. \A b \in Actor \ {a} : pc[b] \notin ChatWindow =>
            pc'[b] \notin ChatWindow /\ pc[b] # "write"
      BY <2>5 DEF ChatWindow
    <3> QED BY <2>1, <2>5, <2>7, <3>1, <3>2
  <2> QED BY <2>1, <2>2, <2>3, <2>8, Apart DEF historyVars
<1>6. CASE Badge(a)
  <2>0. pc[a] = "badge" /\ kind[a] = "apply" /\ UNCHANGED kind
    BY <1>6 DEF Badge, ChatInv, ChatShape
  <2>1. CASE Readable /\ Holds(origin[a]) # {}
    <3>1. PICK i \in Holds(origin[a]) :
            Amend(a, [file[Chat] EXCEPT !.messages[i].applied = @ \cup {a}])
      BY <1>6, <2>1 DEF Badge
    <3>2. i \in DOMAIN file[Chat].messages /\ file[Chat] \in Chats
      BY <2>1, ReadIsChat DEF Holds
    <3> QED BY <2>0, <3>1, <3>2, BadgedKeeps, ChatAmend
  <2>2. CASE ~(Readable /\ Holds(origin[a]) # {})
    BY <1>6, <2>0, <2>2, ChatReply DEF Badge, fileVars, ChatWindow
  <2> QED BY <2>1, <2>2
<1> QED BY <1>1, <1>2, <1>3, <1>4, <1>5, <1>6 DEF ApplyStep

LEMMA ChatNext == BadgeInv /\ BadgeInv' /\ DocInv /\ ChatInv /\ [Next]_vars => ChatInv'
<1> SUFFICES ASSUME BadgeInv, BadgeInv', DocShape, ChatInv, [Next]_vars PROVE ChatInv'
  BY DEF DocInv
<1>1. ASSUME NEW a \in Actor, ThreadStep(a) PROVE ChatInv' BY <1>1, ChatThread
<1>2. ASSUME NEW a \in Actor, RunStep(a) PROVE ChatInv' BY <1>2, ChatRun
<1>3. ASSUME NEW a \in Actor, ApplyStep(a) PROVE ChatInv' BY <1>3, ChatApply
<1>4. CASE UserEdits
  <2>1. ChatShape' BY <1>4 DEF UserEdits, requestVars, ChatInv, ChatShape
  <2>2. file'[Chat] = file[Chat] BY <1>4, Places DEF UserEdits, BadgeInv, Shape, Fcn
  <2> QED BY <1>4, <2>1, <2>2, Apart DEF UserEdits, requestVars
<1>5. CASE Crash
  <2>1. \A a \in Actor : pc'[a] \in {"idle", "done", "dead"} BY <1>5 DEF Crash
  <2>2. ChatShape' BY <2>1 DEF ChatShape, DocWindow
  <2>3. Chat \in quiet' => \A a \in Actor : pc[a] # "write" BY <1>5 DEF Crash
  <2> QED BY <1>5, <2>1, <2>2, <2>3, Apart DEF Crash, ChatWindow
<1>6. CASE UNCHANGED vars
  <2>1. ChatShape'
    BY <1>6 DEF vars, fileVars, threadVars, requestVars, ChatInv, ChatShape
  <2> QED BY <1>6, <2>1, Apart DEF vars, fileVars, threadVars, requestVars, historyVars
<1> QED BY <1>1, <1>2, <1>3, <1>4, <1>5, <1>6 DEF Next

(* Whatever was stored in a thread stays in it until it is deleted, and a  *)
(* deleted thread stays deleted, for any requests, titles and messages, as *)
(* long as no two rewrites of the thread overlap: an agent's run may take  *)
(* as long as it likes in between.                                         *)
THEOREM NothingLostAlways == Spec => []NothingLost
<1>1. BadgeInv /\ ChatInv => NothingLost
  <2> SUFFICES ASSUME BadgeInv, ChatInv, Settled(Chat), ~gone
               PROVE  /\ Readable /\ stored \subseteq Ids
                      /\ badged \subseteq BadgesOf(file[Chat])
                      /\ named # "" => file[Chat].title = named
    BY DEF NothingLost, BadgesOf
  <2>1. \A a \in Actor : pc[a] # "write" BY DEF Settled, BadgeInv, Shape
  <2>2. ChatKept BY DEF Settled, ChatInv, ChatQuiet
  <2> QED BY <2>1, <2>2 DEF ChatKept, Keeps, KeepsTitle, IdsOf, Ids
<1> QED BY <1>1, BadgeInit, BadgeNext, DocInit, DocNext, ChatInit, ChatNext, PTL DEF Spec

(* After a DELETE that succeeded no late reply, badge or rename creates    *)
(* the thread again, for any requests.                                     *)
THEOREM DeletedStaysAlways == Spec => []DeletedStays
<1>1. ChatInv => DeletedStays BY DEF ChatInv, ChatQuiet, DeletedStays
<1> QED BY <1>1, BadgeInit, BadgeNext, DocInit, DocNext, ChatInit, ChatNext, PTL DEF Spec

-----------------------------------------------------------------------------
(* Selections *)

Indices(s) == 1 .. Len(s)

UpTo(I, n) == {i \in I : i <= n}

LEMMA Ranks ==
    ASSUME NEW I, I \subseteq Int, IsFiniteSet(I)
    PROVE  /\ Cardinality(I) \in Nat
           /\ \A i \in I : Cardinality(UpTo(I, i)) \in 1 .. Cardinality(I)
           /\ \A i, k \in I : Cardinality(UpTo(I, i)) = Cardinality(UpTo(I, k)) => i = k
           /\ \A n \in 1 .. Cardinality(I) : \E i \in I : Cardinality(UpTo(I, i)) = n
<1> DEFINE N == Cardinality(I)
           rank == [i \in I |-> Cardinality(UpTo(I, i))]
<1>1. N \in Nat BY FS_CardinalityType
<1>2. \A i \in I : IsFiniteSet(UpTo(I, i)) /\ Cardinality(UpTo(I, i)) \in 0 .. N
  <2>1. \A i \in I : UpTo(I, i) \in SUBSET I BY DEF UpTo
  <2> QED BY <1>1, <2>1, FS_Subset, FS_CardinalityType
<1>3. ASSUME NEW i \in I PROVE Cardinality(UpTo(I, i)) \in 1 .. N
  <2>1. i \in UpTo(I, i) BY DEF UpTo
  <2> QED BY <1>1, <1>2, <2>1, FS_EmptySet
<1>4. ASSUME NEW i \in I, NEW k \in I, Cardinality(UpTo(I, i)) = Cardinality(UpTo(I, k)), i < k
      PROVE  FALSE
  <2>0. \A j \in I : j \in Int OBVIOUS
  <2>4. \A j \in I : j <= i => j <= k BY <1>4, <2>0
  <2>1. UpTo(I, i) \in SUBSET UpTo(I, k) BY <2>4 DEF UpTo
  <2>2. UpTo(I, i) = UpTo(I, k) BY <1>2, <1>4, <2>1, FS_Subset
  <2>3. k \in UpTo(I, k) /\ k \notin UpTo(I, i) BY <1>4 DEF UpTo
  <2> QED BY <2>2, <2>3
<1>5. \A i, k \in I : Cardinality(UpTo(I, i)) = Cardinality(UpTo(I, k)) => i = k
  <2> SUFFICES ASSUME NEW i \in I, NEW k \in I, i # k,
                      Cardinality(UpTo(I, i)) = Cardinality(UpTo(I, k))
               PROVE  FALSE OBVIOUS
  <2>1. i < k \/ k < i OBVIOUS
  <2> QED BY <1>4, <2>1
<1>6. rank \in [I -> 1 .. N] BY <1>3
<1>7. rank \in Injection(I, 1 .. N) BY <1>5, <1>6 DEF Injection, IsInjective
<1>8. IsFiniteSet(1 .. N) /\ Cardinality(1 .. N) = N BY <1>1, FS_Interval
<1>9. rank \in Surjection(I, 1 .. N) BY <1>7, <1>8, FS_Injection
<1>10. \A n \in 1 .. N : \E i \in I : rank[i] = n BY <1>9 DEF Surjection
<1> QED BY <1>1, <1>3, <1>5, <1>10

LEMMA NthRank ==
    ASSUME NEW I, I \subseteq Int, IsFiniteSet(I), NEW n \in 1 .. Cardinality(I)
    PROVE  /\ Nth(I, n) \in I /\ Cardinality(UpTo(I, Nth(I, n))) = n
           /\ \A i \in I : Cardinality(UpTo(I, i)) = n => Nth(I, n) = i
<1>1. Nth(I, n) = CHOOSE i \in I : Cardinality(UpTo(I, i)) = n BY DEF Nth, UpTo
<1> QED BY <1>1, Ranks

(* J is I from lo to n, counted from lo. *)
Shifted(I, J, lo, n) ==
    /\ I \subseteq Int /\ IsFiniteSet(I) /\ J \subseteq Nat \ {0} /\ IsFiniteSet(J)
    /\ lo \in Int /\ n \in Int /\ lo <= n + 1
    /\ \A j \in 1 .. n - lo + 1 : j \in J <=> j + lo - 1 \in I

(* The members of I up to n are those before lo and those from lo on.      *)
LEMMA Split ==
    ASSUME NEW I, NEW J, NEW lo, NEW n, Shifted(I, J, lo, n)
    PROVE  Cardinality(UpTo(I, n)) = Cardinality(UpTo(I, lo - 1)) + Cardinality(UpTo(J, n - lo + 1))
<1> DEFINE early == UpTo(I, lo - 1)
           late == {i \in I : lo <= i /\ i <= n}
           count == UpTo(J, n - lo + 1)
           shift == [j \in count |-> j + lo - 1]
<1> USE DEF Shifted
<1>1. early \in SUBSET I /\ late \in SUBSET I /\ count \in SUBSET J BY DEF UpTo
<1>2. IsFiniteSet(early) /\ IsFiniteSet(late) /\ IsFiniteSet(count) BY <1>1, FS_Subset
<1>0. \A i \in I : i \in Int OBVIOUS
<1>3. UpTo(I, n) = early \cup late /\ early \cap late = {}
  <2>1. \A i \in I : i <= n <=> i <= lo - 1 \/ (lo <= i /\ i <= n) BY <1>0
  <2>2. \A i \in I : ~(i <= lo - 1 /\ lo <= i) BY <1>0
  <2> QED BY <2>1, <2>2 DEF UpTo
<1>4. shift \in Bijection(count, late)
  <2>5. \A j \in J : j \in Nat \ {0} OBVIOUS
  <2>1. \A j \in count : j \in Int /\ j \in J /\ j \in 1 .. n - lo + 1 BY <2>5 DEF UpTo
  <2>6. \A j \in count : j + lo - 1 \in late BY <2>1
  <2>2. shift \in [count -> late] BY <2>6
  <2>3. \A j, k \in count : shift[j] = shift[k] => j = k BY <2>1
  <2>4. ASSUME NEW i \in late PROVE \E j \in count : shift[j] = i
    <3>1. i - lo + 1 \in 1 .. n - lo + 1 /\ (i - lo + 1) + lo - 1 = i OBVIOUS
    <3>2. i - lo + 1 \in count BY <3>1 DEF UpTo
    <3> QED BY <3>1, <3>2
  <2> HIDE DEF shift
  <2> QED BY <2>2, <2>3, <2>4, Fun_IsBij, Fun_IsSurj, Fun_IsInj
<1>5. ExistsBijection(count, late) BY <1>4 DEF ExistsBijection
<1>6. Cardinality(late) = Cardinality(count) BY <1>2, <1>5, FS_Bijection
<1> HIDE DEF early, late, count
<1>7. Cardinality(UpTo(I, n)) = Cardinality(early) + Cardinality(late) - Cardinality({})
  BY <1>2, <1>3, FS_Union
<1>8. Cardinality(early) \in Nat /\ Cardinality(late) \in Nat BY <1>2, FS_CardinalityType
<1> QED BY <1>6, <1>7, <1>8, FS_EmptySet DEF early, count

LEMMA SubsequenceType ==
    ASSUME NEW T, NEW s \in Seq(T), NEW I, I \subseteq Indices(s)
    PROVE  /\ I \subseteq Int /\ IsFiniteSet(I) /\ Cardinality(I) \in Nat
           /\ Subsequence(s, I) \in Seq(T) /\ Len(Subsequence(s, I)) = Cardinality(I)
           /\ \A k \in 1 .. Cardinality(I) :
                 /\ Nth(I, k) \in I /\ Cardinality(UpTo(I, Nth(I, k))) = k
                 /\ Subsequence(s, I)[k] = s[Nth(I, k)]
<1> DEFINE r == Subsequence(s, I)
<1>0. Len(s) \in Nat /\ \A i \in 1 .. Len(s) : s[i] \in T BY LenProperties
<1>1. IsFiniteSet(1 .. Len(s)) /\ I \in SUBSET (1 .. Len(s)) BY <1>0, FS_Interval DEF Indices
<1>2. IsFiniteSet(I) /\ Cardinality(I) \in Nat BY <1>1, FS_Subset, FS_CardinalityType
<1>3. \A i \in I : i \in Int BY <1>0, <1>1
<1>4. \A k \in 1 .. Cardinality(I) : Nth(I, k) \in I /\ Cardinality(UpTo(I, Nth(I, k))) = k
  BY <1>2, <1>3, NthRank
<1>5. r = [k \in 1 .. Cardinality(I) |-> s[Nth(I, k)]] BY DEF Subsequence
<1>6. \A k \in 1 .. Cardinality(I) : r[k] = s[Nth(I, k)] /\ r[k] \in T BY <1>0, <1>1, <1>4, <1>5
<1>7. r \in [1 .. Cardinality(I) -> T] BY <1>5, <1>6
<1>8. r \in Seq(T) /\ Len(r) = Cardinality(I) BY <1>2, <1>5, <1>7, SeqDef, LenProperties
<1> QED BY <1>2, <1>3, <1>4, <1>6, <1>8

(* I is a set of indices of s, and J those of them from lo to hi, counted  *)
(* from lo.                                                                *)
Within(s, I, J, lo, hi) ==
    /\ I \subseteq Indices(s) /\ lo \in Nat \ {0} /\ hi \in Nat /\ lo <= hi + 1 /\ hi <= Len(s)
    /\ J \subseteq 1 .. hi - lo + 1
    /\ \A j \in 1 .. hi - lo + 1 : j \in J <=> j + lo - 1 \in I

(* part is a stretch of all, and nothing up to its end is from after hi.   *)
Ends(part, all, s, hi) ==
    \E k \in 0 .. Len(all) - Len(part) :
        /\ SubSeq(all, k + 1, k + Len(part)) = part
        /\ \A j \in 1 .. k + Len(part) : \E i \in 1 .. hi : all[j] = s[i]

(* What is selected from a stretch of a sequence is a stretch of what is   *)
(* selected from the whole, and all up to its end comes from no later than *)
(* the end of the stretch.                                                 *)
LEMMA Stretch ==
    ASSUME NEW T, NEW s \in Seq(T), NEW I, NEW J, NEW lo, NEW hi, Within(s, I, J, lo, hi)
    PROVE  Ends(Subsequence(SubSeq(s, lo, hi), J), Subsequence(s, I), s, hi)
<1> DEFINE all == Subsequence(s, I)
           window == SubSeq(s, lo, hi)
           part == Subsequence(window, J)
           k == Cardinality(UpTo(I, lo - 1))
           n == Cardinality(J)
           N == Cardinality(I)
<1> USE DEF Within
<1>0. Len(s) \in Nat /\ \A i \in 1 .. Len(s) : s[i] \in T BY LenProperties
<1>1. /\ window \in Seq(T) /\ Len(window) = hi - lo + 1
      /\ \A j \in 1 .. hi - lo + 1 : window[j] = s[lo + j - 1]
  BY <1>0, SubSeqProperties
<1> HIDE DEF window
<1>2. J \subseteq Indices(window) BY <1>1 DEF Indices
<1>3. /\ I \subseteq Int /\ IsFiniteSet(I) /\ N \in Nat /\ all \in Seq(T) /\ Len(all) = N
      /\ \A m \in 1 .. N : /\ Nth(I, m) \in I /\ Cardinality(UpTo(I, Nth(I, m))) = m
                           /\ all[m] = s[Nth(I, m)]
  <2>1. s \in Seq(T) /\ I \subseteq Indices(s) OBVIOUS
  <2>2. /\ I \subseteq Int /\ IsFiniteSet(I) /\ Cardinality(I) \in Nat
        /\ Subsequence(s, I) \in Seq(T) /\ Len(Subsequence(s, I)) = Cardinality(I)
        /\ \A m \in 1 .. Cardinality(I) :
                 /\ Nth(I, m) \in I /\ Cardinality(UpTo(I, Nth(I, m))) = m
                 /\ Subsequence(s, I)[m] = s[Nth(I, m)]
    BY ONLY <2>1, SubsequenceType
  <2> QED BY <2>2
<1>4. /\ J \subseteq Int /\ IsFiniteSet(J) /\ n \in Nat /\ part \in Seq(T) /\ Len(part) = n
      /\ \A m \in 1 .. n : /\ Nth(J, m) \in J /\ Cardinality(UpTo(J, Nth(J, m))) = m
                           /\ part[m] = window[Nth(J, m)]
  <2>1. window \in Seq(T) /\ J \subseteq Indices(window) BY <1>1, <1>2
  <2>2. /\ J \subseteq Int /\ IsFiniteSet(J) /\ Cardinality(J) \in Nat
        /\ Subsequence(window, J) \in Seq(T) /\ Len(Subsequence(window, J)) = Cardinality(J)
        /\ \A m \in 1 .. Cardinality(J) :
                 /\ Nth(J, m) \in J /\ Cardinality(UpTo(J, Nth(J, m))) = m
                 /\ Subsequence(window, J)[m] = window[Nth(J, m)]
    BY ONLY <2>1, SubsequenceType
  <2> QED BY <2>2
<1>5. \A j \in J : j \in Nat \ {0} /\ j \in 1 .. hi - lo + 1 OBVIOUS
<1>6. UpTo(I, lo - 1) \in SUBSET I /\ UpTo(I, hi) \in SUBSET I BY DEF UpTo
<1>7. k \in Nat /\ k <= N /\ IsFiniteSet(UpTo(I, hi)) BY <1>3, <1>6, FS_Subset, FS_CardinalityType
<1>8. ASSUME NEW m \in Int, lo <= m + 1, m <= hi
      PROVE  Cardinality(UpTo(I, m)) = k + Cardinality(UpTo(J, m - lo + 1))
  <2>1. \A j \in 1 .. m - lo + 1 : j \in 1 .. hi - lo + 1 BY <1>8
  <2>2. J \subseteq Nat \ {0} /\ \A j \in 1 .. m - lo + 1 : j \in J <=> j + lo - 1 \in I
    BY <1>5, <2>1
  <2>3. Shifted(I, J, lo, m) BY <1>3, <1>4, <1>8, <2>2 DEF Shifted
  <2> QED BY <2>3, Split
<1>9. UpTo(J, hi - lo + 1) = J
  <2>1. \A j \in J : j <= hi - lo + 1 BY <1>5
  <2> QED BY <2>1 DEF UpTo
<1>10. Cardinality(UpTo(I, hi)) = k + n BY <1>8, <1>9
<1>11. k + n <= N BY <1>3, <1>6, <1>10, FS_Subset
<1>12. ASSUME NEW m \in 1 .. n PROVE part[m] = all[k + m]
  <2> DEFINE y == Nth(J, m)
  <2>1. y \in J /\ Cardinality(UpTo(J, y)) = m /\ part[m] = window[y] BY <1>4
  <2> HIDE DEF y
  <2>2. y \in 1 .. hi - lo + 1 /\ window[y] = s[lo + y - 1] BY <1>1, <1>5, <2>1
  <2>3. y + lo - 1 \in I /\ lo + y - 1 = y + lo - 1 BY <2>1, <2>2
  <2>4. Cardinality(UpTo(I, y + lo - 1)) = k + m
    <3>1. y + lo - 1 \in Int /\ lo <= (y + lo - 1) + 1 /\ y + lo - 1 <= hi BY <2>2
    <3>2. (y + lo - 1) - lo + 1 = y BY <2>2
    <3> HIDE DEF k
    <3> QED BY <1>8, <2>1, <3>1, <3>2
  <2>5. k + m \in 1 .. N BY <1>3, <1>4, <1>7, <1>11
  <2>6. Nth(I, k + m) = y + lo - 1
    <3> DEFINE at == k + m
               i == y + lo - 1
    <3>1. /\ I \subseteq Int /\ IsFiniteSet(I) /\ at \in 1 .. Cardinality(I)
          /\ i \in I /\ Cardinality(UpTo(I, i)) = at
      BY <1>3, <2>3, <2>4, <2>5
    <3> HIDE DEF at, i
    <3>2. Nth(I, at) = i BY ONLY <3>1, NthRank
    <3> QED BY <3>2 DEF at, i
  <2> QED BY <1>3, <2>1, <2>2, <2>3, <2>5, <2>6
<1>13. ASSUME NEW j \in 1 .. k + n PROVE \E i \in 1 .. hi : all[j] = s[i]
  <2>1. j \in 1 .. N BY <1>3, <1>4, <1>7, <1>11
  <2> DEFINE i == Nth(I, j)
  <2>2. i \in I /\ Cardinality(UpTo(I, i)) = j /\ all[j] = s[i] BY <1>3, <2>1
  <2> HIDE DEF i
  <2>3. i \in 1 .. Len(s) BY <2>2 DEF Indices
  <2>4. ASSUME hi < i PROVE FALSE
    <3>1. \A x \in I : x \in Int BY <1>3
    <3>2. \A x \in I : x <= hi => x <= i BY <2>3, <2>4, <3>1
    <3>3. UpTo(I, hi) \in SUBSET UpTo(I, i) BY <3>2 DEF UpTo
    <3>4. i \in UpTo(I, i) /\ i \notin UpTo(I, hi) BY <2>2, <2>3, <2>4 DEF UpTo
    <3>5. UpTo(I, i) \in SUBSET I BY DEF UpTo
    <3>6. IsFiniteSet(UpTo(I, i)) BY <1>3, <3>5, FS_Subset
    <3>7. /\ Cardinality(UpTo(I, hi)) <= Cardinality(UpTo(I, i))
          /\ Cardinality(UpTo(I, i)) = Cardinality(UpTo(I, hi)) => UpTo(I, i) = UpTo(I, hi)
      BY <3>3, <3>6, FS_Subset
    <3> HIDE DEF k, n
    <3> QED BY <1>4, <1>7, <1>10, <2>2, <3>4, <3>7
  <2> QED BY <2>2, <2>3, <2>4
<1>14. SubSeq(all, k + 1, k + n) = part
  <2> DEFINE from == k + 1
             to == k + n
  <2>1. /\ from \in Int /\ to \in Int /\ to - from + 1 = n /\ (from <= to <=> n # 0)
        /\ \A m \in 1 .. n : from + m - 1 = k + m
    <3> HIDE DEF k, n
    <3> QED BY <1>4, <1>7
  <2>2. \A m \in from .. to : all[m] \in T
    <3> HIDE DEF k, n, all
    <3> QED BY <1>3, <1>4, <1>7, <1>11, LenProperties
  <2> HIDE DEF from, to, k, n, all, part
  <2>3. /\ SubSeq(all, from, to) \in Seq(T)
        /\ Len(SubSeq(all, from, to)) = IF from <= to THEN to - from + 1 ELSE 0
        /\ \A m \in 1 .. to - from + 1 : SubSeq(all, from, to)[m] = all[from + m - 1]
    BY <2>1, <2>2, SubSeqProperties
  <2>4. Len(SubSeq(all, from, to)) = n BY <1>4, <2>1, <2>3
  <2>5. \A m \in 1 .. n : SubSeq(all, from, to)[m] = part[m] BY <1>12, <2>1, <2>3
  <2>6. SubSeq(all, from, to) = part BY <1>4, <2>3, <2>4, <2>5, SeqEqual
  <2> QED BY <2>6 DEF from, to
<1> HIDE DEF all, part, n, k
<1>15. k \in 0 .. Len(all) - Len(part) BY <1>3, <1>4, <1>7, <1>11
<1>16. Ends(part, all, s, hi) BY <1>4, <1>13, <1>14, <1>15 DEF Ends
<1> QED BY <1>16 DEF all, part, window

-----------------------------------------------------------------------------
(* What an agent has seen.  A history is what was said in a stretch of the *)
(* thread that ends before the run's own prompt.  As long as rewrites do   *)
(* not overlap, a thread only grows, so the stretch stays where it is, in  *)
(* the file and in the copy of whoever rewrites it; and a run that has not *)
(* begun has said nothing yet.                                             *)

Heard == Actor \X Roles

IdsIn(c) == IdsInOrder(c.messages)

Begins(ids, new) == Len(ids) <= Len(new) /\ \A j \in 1 .. Len(ids) : new[j] = ids[j]

Saw(h, a, ids) ==
    \E lo \in 1 .. Len(ids) + 1, hi \in 0 .. Len(ids) :
        /\ lo <= hi + 1
        /\ h = Turns(SubSeq(ids, lo, hi))
        /\ \A j \in 1 .. hi : ids[j] # <<a, "user">>

Told(p, h, ids) ==
    /\ \A j \in 1 .. Len(ids) : p[ids[j][1]] # "idle"
    /\ \A a \in Actor : h[a] # <<>> => Saw(h[a], a, ids)

SeenQuiet ==
    /\ (\A a \in Actor : pc[a] # "write") => Told(pc, sent, IdsIn(file[Chat]))
    /\ \A a \in Actor :
          /\ pc[a] \in {"open", "write"} => Told(pc, sent, IdsIn(data[a]))
          /\ pc[a] = "open" => Begins(IdsIn(file[Chat]), IdsIn(data[a]))

SeenInv == Fcn(sent, Actor) /\ (Chat \in quiet /\ ~gone => SeenQuiet)

LEMMA IdsType ==
    ASSUME NEW c \in Chats
    PROVE  /\ IdsIn(c) \in Seq(Heard) /\ Len(IdsIn(c)) = Len(c.messages)
           /\ \A j \in 1 .. Len(c.messages) : IdsIn(c)[j] = Id(c.messages[j])
<1> DEFINE s == c.messages
<1>1. s \in Seq(Messages) BY DEF Chats
<1> HIDE DEF s
<1>2. Len(s) \in Nat /\ DOMAIN s = 1 .. Len(s) /\ \A j \in 1 .. Len(s) : s[j] \in Messages
  BY <1>1, LenProperties
<1>3. \A j \in 1 .. Len(s) : Id(s[j]) \in Heard BY <1>2 DEF Messages, Id, Heard
<1>4. IdsInOrder(s) = [j \in 1 .. Len(s) |-> Id(s[j])] BY <1>2 DEF IdsInOrder
<1>5. IdsInOrder(s) \in [1 .. Len(s) -> Heard] BY <1>3, <1>4
<1>6. IdsInOrder(s) \in Seq(Heard) BY <1>2, <1>5, SeqDef
<1>7. Len(IdsInOrder(s)) = Len(s) BY <1>2, <1>4, <1>6, LenProperties
<1> QED BY <1>4, <1>6, <1>7 DEF IdsIn, s

LEMMA SawMeans ==
    ASSUME NEW ids \in Seq(Heard), NEW a, NEW h, Saw(h, a, ids)
    PROVE  \E k \in 0 .. Len(Turns(ids)) - Len(h) :
              /\ SubSeq(Turns(ids), k + 1, k + Len(h)) = h
              /\ \A j \in 1 .. k + Len(h) : Turns(ids)[j] # <<a, "user">>
<1>1. PICK lo \in 1 .. Len(ids) + 1, hi \in 0 .. Len(ids) :
        /\ lo <= hi + 1
        /\ h = Turns(SubSeq(ids, lo, hi))
        /\ \A j \in 1 .. hi : ids[j] # <<a, "user">>
  BY DEF Saw
<1> DEFINE said(s) == {i \in 1 .. Len(s) : s[i][2] \in {"user", "assistant"}}
           window == SubSeq(ids, lo, hi)
<1>2. Len(ids) \in Nat /\ DOMAIN ids = 1 .. Len(ids) /\ \A j \in 1 .. Len(ids) : ids[j] \in Heard
  BY LenProperties
<1>3. /\ window \in Seq(Heard) /\ Len(window) = hi - lo + 1
      /\ \A j \in 1 .. hi - lo + 1 : window[j] = ids[lo + j - 1]
  <2>1. lo \in Int /\ hi \in Int /\ \A j \in lo .. hi : ids[j] \in Heard BY <1>2
  <2> QED BY <1>1, <1>2, <2>1, SubSeqProperties
<1> HIDE DEF window
<1>4. DOMAIN window = 1 .. Len(window) BY <1>3, LenProperties
<1>5. Turns(ids) = Subsequence(ids, said(ids)) /\ h = Subsequence(window, said(window))
  BY <1>1, <1>2, <1>4 DEF Turns, window
<1>6. /\ said(ids) \subseteq Indices(ids) /\ said(window) \subseteq 1 .. hi - lo + 1
      /\ lo \in Nat \ {0} /\ hi \in Nat /\ lo <= hi + 1 /\ hi <= Len(ids)
  BY <1>1, <1>2, <1>3 DEF Indices
<1>7. \A j \in 1 .. hi - lo + 1 : j \in said(window) <=> j + lo - 1 \in said(ids)
  <2>1. \A j \in 1 .. hi - lo + 1 : j + lo - 1 = lo + j - 1 /\ j + lo - 1 \in 1 .. Len(ids)
    BY <1>2, <1>6
  <2> QED BY <1>3, <2>1
<1> HIDE DEF said
<1>8. Ends(h, Turns(ids), ids, hi)
  <2> DEFINE I == said(ids)
             J == said(window)
  <2>1. Within(ids, I, J, lo, hi) BY <1>6, <1>7 DEF Within
  <2> HIDE DEF I, J
  <2>2. Ends(Subsequence(SubSeq(ids, lo, hi), J), Subsequence(ids, I), ids, hi) BY <2>1, Stretch
  <2> QED BY <1>5, <2>2 DEF window, I, J
<1> QED BY <1>1, <1>8 DEF Ends

LEMMA SameStretch ==
    ASSUME NEW ids \in Seq(Heard), NEW new \in Seq(Heard), Begins(ids, new),
           NEW lo \in 1 .. Len(ids) + 1, NEW hi \in 0 .. Len(ids)
    PROVE  SubSeq(new, lo, hi) = SubSeq(ids, lo, hi)
<1>1. /\ Len(ids) \in Nat /\ \A j \in 1 .. Len(ids) : ids[j] \in Heard /\ new[j] = ids[j]
  BY LenProperties DEF Begins
<1>2. lo \in Int /\ hi \in Int /\ \A j \in lo .. hi : ids[j] \in Heard /\ new[j] \in Heard
  BY <1>1
<1>3. /\ SubSeq(ids, lo, hi) \in Seq(Heard)
      /\ Len(SubSeq(ids, lo, hi)) = IF lo <= hi THEN hi - lo + 1 ELSE 0
      /\ \A i \in 1 .. hi - lo + 1 : SubSeq(ids, lo, hi)[i] = ids[lo + i - 1]
  BY <1>2, SubSeqProperties
<1>4. /\ SubSeq(new, lo, hi) \in Seq(Heard)
      /\ Len(SubSeq(new, lo, hi)) = IF lo <= hi THEN hi - lo + 1 ELSE 0
      /\ \A i \in 1 .. hi - lo + 1 : SubSeq(new, lo, hi)[i] = new[lo + i - 1]
  BY <1>2, SubSeqProperties
<1>5. \A i \in 1 .. Len(SubSeq(new, lo, hi)) :
        i \in 1 .. hi - lo + 1 /\ lo + i - 1 \in 1 .. Len(ids)
  BY <1>1, <1>2, <1>4
<1> QED BY <1>1, <1>3, <1>4, <1>5, SeqEqual

LEMMA SawMore ==
    ASSUME NEW ids \in Seq(Heard), NEW new \in Seq(Heard), Begins(ids, new), NEW h, NEW a,
           Saw(h, a, ids)
    PROVE  Saw(h, a, new)
<1>1. PICK lo \in 1 .. Len(ids) + 1, hi \in 0 .. Len(ids) :
        /\ lo <= hi + 1
        /\ h = Turns(SubSeq(ids, lo, hi))
        /\ \A j \in 1 .. hi : ids[j] # <<a, "user">>
  BY DEF Saw
<1>2. SubSeq(new, lo, hi) = SubSeq(ids, lo, hi) BY SameStretch
<1>3. Len(ids) \in Nat /\ Len(new) \in Nat /\ Len(ids) <= Len(new) BY LenProperties DEF Begins
<1>4. lo \in 1 .. Len(new) + 1 /\ hi \in 0 .. Len(new) BY <1>3
<1>5. \A j \in 1 .. hi : new[j] # <<a, "user">> BY <1>1, <1>3 DEF Begins
<1> QED BY <1>1, <1>2, <1>4, <1>5 DEF Saw

LEMMA ToldMore ==
    ASSUME NEW ids \in Seq(Heard), NEW new \in Seq(Heard), Begins(ids, new),
           NEW p, NEW q, NEW h, Told(p, h, ids),
           \A b \in Actor : p[b] # "idle" => q[b] # "idle",
           \A j \in 1 .. Len(new) : j \in 1 .. Len(ids) \/ q[new[j][1]] # "idle"
    PROVE  Told(q, h, new)
<1>1. ASSUME NEW j \in 1 .. Len(new) PROVE q[new[j][1]] # "idle"
  <2>1. CASE j \in 1 .. Len(ids)
    <3>1. ids[j] \in Heard /\ new[j] = ids[j] BY <2>1, LenProperties DEF Begins
    <3>2. ids[j][1] \in Actor BY <3>1 DEF Heard
    <3> QED BY <2>1, <3>1, <3>2 DEF Told
  <2> QED BY <2>1
<1>2. ASSUME NEW a \in Actor, h[a] # <<>> PROVE Saw(h[a], a, new)
  BY <1>2, SawMore DEF Told
<1> QED BY <1>1, <1>2 DEF Told

LEMMA BeginsSelf == \A ids \in Seq(Heard) : Begins(ids, ids)
BY LenProperties DEF Begins

LEMMA ToldStays ==
    ASSUME NEW ids \in Seq(Heard), NEW p, NEW q, NEW h, Told(p, h, ids),
           \A b \in Actor : p[b] # "idle" => q[b] # "idle"
    PROVE  Told(q, h, ids)
BY BeginsSelf, ToldMore

(* Threads a request makes of one it read. *)
LEMMA PostedIds ==
    ASSUME file[Chat] \in Chats, NEW a \in Actor, NEW role \in Roles, NEW blank
    PROVE  IdsIn(Posted(a, role, blank)) = Append(IdsIn(file[Chat]), <<a, role>>)
<1> DEFINE old == file[Chat].messages
           m == Message(a, role)
           new == Append(old, m)
           ids == IdsInOrder(old)
<1>1. old \in Seq(Messages) BY DEF Chats
<1>2. m \in Messages /\ Id(m) = <<a, role>> BY DEF Message, Messages, Roles, Id
<1>3. IdsIn(Posted(a, role, blank)) = IdsInOrder(new) BY DEF Posted, IdsIn
<1>4. /\ ids \in Seq(Heard) /\ Len(ids) = Len(old)
      /\ \A j \in 1 .. Len(old) : ids[j] = Id(old[j])
  BY IdsType DEF IdsIn
<1> HIDE DEF old, m, ids
<1>5. /\ new \in Seq(Messages) /\ Len(new) = Len(old) + 1 /\ new[Len(old) + 1] = m
      /\ \A j \in 1 .. Len(old) : new[j] = old[j]
  BY <1>1, <1>2, AppendProperties
<1>6. Len(old) \in Nat /\ DOMAIN new = 1 .. Len(old) + 1 BY <1>1, <1>5, LenProperties
<1>7. <<a, role>> \in Heard BY DEF Heard
<1>8. /\ Append(ids, <<a, role>>) \in Seq(Heard) /\ Len(Append(ids, <<a, role>>)) = Len(old) + 1
      /\ Append(ids, <<a, role>>)[Len(old) + 1] = <<a, role>>
      /\ \A j \in 1 .. Len(old) : Append(ids, <<a, role>>)[j] = ids[j]
  BY <1>4, <1>7, AppendProperties
<1> HIDE DEF new
<1>9. IdsInOrder(new) = [j \in 1 .. Len(old) + 1 |-> Id(new[j])] BY <1>6 DEF IdsInOrder
<1>10. \A j \in 1 .. Len(old) + 1 : Id(new[j]) = Append(ids, <<a, role>>)[j]
  <2>1. \A j \in 1 .. Len(old) + 1 : j \in 1 .. Len(old) \/ j = Len(old) + 1 BY <1>6
  <2> QED BY <1>2, <1>4, <1>5, <1>8, <2>1
<1>11. Append(ids, <<a, role>>) = [j \in 1 .. Len(old) + 1 |-> Append(ids, <<a, role>>)[j]]
  BY <1>8, LenProperties
<1>12. IdsInOrder(new) = Append(ids, <<a, role>>) BY <1>9, <1>10, <1>11
<1> QED BY <1>3, <1>12 DEF IdsIn, ids, old

LEMMA BadgedIds ==
    ASSUME file[Chat] \in Chats, NEW a \in Actor, NEW i \in DOMAIN file[Chat].messages
    PROVE  LET c == [file[Chat] EXCEPT !.messages[i].applied = @ \cup {a}]
           IN  IdsIn(c) = IdsIn(file[Chat])
<1> DEFINE old == file[Chat].messages
           m == [old[i] EXCEPT !.applied = @ \cup {a}]
           new == [old EXCEPT ![i] = m]
           c == [file[Chat] EXCEPT !.messages[i].applied = @ \cup {a}]
<1>1. old \in Seq(Messages) /\ old[i] \in Messages
  <2>1. old \in Seq(Messages) BY DEF Chats
  <2> HIDE DEF old
  <2>2. i \in DOMAIN old => old[i] \in Messages BY <2>1, LenProperties, ElementOfSeq
  <2> QED BY <2>1, <2>2 DEF old
<1>2. Id(m) = Id(old[i]) BY <1>1 DEF Messages, Id
<1>3. c.messages = new BY DEF Chats
<1>4. DOMAIN new = DOMAIN old /\ new[i] = m /\ \A j \in DOMAIN old \ {i} : new[j] = old[j]
  OBVIOUS
<1> HIDE DEF c, m, new
<1>5. \A j \in DOMAIN old : Id(new[j]) = Id(old[j]) BY <1>2, <1>4
<1> HIDE DEF old
<1>6. IdsInOrder(new) = IdsInOrder(old) BY <1>4, <1>5 DEF IdsInOrder
<1> QED BY <1>3, <1>6 DEF IdsIn, c, old

(* How a rewrite changes what was said: not at all, or by a's next word.   *)
Adds(a, ids, new) == new = ids \/ \E role \in Roles : new = Append(ids, <<a, role>>)

LEMMA AddsBegins ==
    ASSUME NEW a \in Actor, NEW ids \in Seq(Heard), NEW new, Adds(a, ids, new)
    PROVE  /\ new \in Seq(Heard) /\ Begins(ids, new)
           /\ \A j \in 1 .. Len(new) : j \in 1 .. Len(ids) \/ new[j][1] = a
<1>1. CASE new = ids BY <1>1, BeginsSelf
<1>2. CASE \E role \in Roles : new = Append(ids, <<a, role>>)
  <2>1. PICK role \in Roles : new = Append(ids, <<a, role>>) BY <1>2
  <2> DEFINE m == <<a, role>>
  <2>2. m \in Heard /\ m[1] = a BY DEF Heard
  <2> HIDE DEF m
  <2>3. /\ new \in Seq(Heard) /\ Len(new) = Len(ids) + 1 /\ new[Len(ids) + 1] = m
        /\ \A j \in 1 .. Len(ids) : new[j] = ids[j]
    BY <2>1, <2>2, AppendProperties DEF m
  <2>4. Len(ids) \in Nat BY LenProperties
  <2>5. \A j \in 1 .. Len(new) : j \in 1 .. Len(ids) \/ j = Len(ids) + 1 BY <2>3, <2>4
  <2> QED BY <2>2, <2>3, <2>4, <2>5 DEF Begins
<1> QED BY <1>1, <1>2 DEF Adds

LEMMA SeenInit == Init => SeenInv
<1> SUFFICES ASSUME Init PROVE SeenInv OBVIOUS
<1>1. PICK t \in Titles, doc \in Docs :
        file = [r \in Record |-> IF r = Chat THEN NewThread(t) ELSE doc]
  BY DEF Init, Titles
<1>2. file[Chat] = NewThread(t) /\ file[Chat].messages = <<>> BY <1>1, Places DEF NewThread
<1>3. <<>> \in Seq(Messages) /\ Len(<<>>) = 0 BY EmptySeq
<1>4. NewThread(t) \in Chats BY <1>3 DEF NewThread, Chats, Titles
<1>5. Len(IdsIn(file[Chat])) = 0 BY <1>2, <1>3, <1>4, IdsType
<1>6. \A a \in Actor : sent[a] = <<>> /\ pc[a] = "idle" BY DEF Init, ThreadsInit
<1>7. \A j \in 1 .. Len(IdsIn(file[Chat])) : FALSE BY <1>5
<1>8. Told(pc, sent, IdsIn(file[Chat])) BY <1>6, <1>7 DEF Told
<1>9. Fcn(sent, Actor) BY DEF Init, Fcn
<1> QED BY <1>6, <1>8, <1>9 DEF SeenInv, SeenQuiet

(* Steps that leave the thread, its rewrites and what was sent alone. *)
LEMMA SeenApart ==
    ASSUME BadgeInv, BadgeInv', ChatInv, SeenInv, UNCHANGED <<sent, gone>>,
           Chat \in quiet' => Chat \in quiet, file'[Chat] = file[Chat],
           \A a \in Actor : pc[a] # "idle" => pc'[a] # "idle",
           \A a \in Actor :
              \/ pc'[a] \notin {"open", "write"} /\ (pc[a] = "write" => Chat \notin quiet')
              \/ pc'[a] = pc[a] /\ data'[a] = data[a]
    PROVE  SeenInv'
<1>0. Fcn(sent, Actor)' BY DEF SeenInv, Fcn
<1> SUFFICES ASSUME Chat \in quiet', ~gone PROVE SeenQuiet' BY <1>0 DEF SeenInv
<1>1. SeenQuiet /\ ChatKept BY DEF SeenInv, ChatInv, ChatQuiet
<1>2. ASSUME \A a \in Actor : pc'[a] # "write" PROVE Told(pc', sent', IdsIn(file'[Chat]))
  <2>1. \A a \in Actor : pc[a] # "write" BY <1>2
  <2>2. file[Chat] \in Chats BY <1>1, <2>1, ReadIsChat DEF ChatKept
  <2>3. IdsIn(file[Chat]) \in Seq(Heard) BY <2>2, IdsType
  <2>4. Told(pc, sent, IdsIn(file[Chat])) BY <1>1, <2>1 DEF SeenQuiet
  <2> QED BY <2>3, <2>4, ToldStays
<1>3. ASSUME NEW a \in Actor, pc'[a] \in {"open", "write"}
      PROVE  /\ Told(pc', sent', IdsIn(data'[a]))
             /\ pc'[a] = "open" => Begins(IdsIn(file'[Chat]), IdsIn(data'[a]))
  <2>1. pc'[a] = pc[a] /\ data'[a] = data[a] BY <1>3
  <2>2. data[a] \in Chats BY <1>3, <2>1 DEF BadgeInv, Honest
  <2>3. IdsIn(data[a]) \in Seq(Heard) BY <2>2, IdsType
  <2>4. /\ Told(pc, sent, IdsIn(data[a]))
        /\ pc[a] = "open" => Begins(IdsIn(file[Chat]), IdsIn(data[a]))
    BY <1>1, <1>3, <2>1 DEF SeenQuiet
  <2>5. Told(pc', sent, IdsIn(data[a])) BY <2>3, <2>4, ToldStays
  <2> QED BY <2>1, <2>4, <2>5
<1> QED BY <1>2, <1>3 DEF SeenQuiet

LEMMA SeenReply ==
    ASSUME BadgeInv, BadgeInv', ChatInv, SeenInv, NEW a \in Actor, NEW code, Reply(a, code),
           pc[a] \notin ChatWindow, UNCHANGED <<file, data, sent, quiet, gone>>
    PROVE  SeenInv'
<1>1. pc' = [pc EXCEPT ![a] = "done"] /\ Fcn(pc, Actor) BY DEF Reply, Goto, BadgeInv, Shape
<1>2. \A b \in Actor : \/ pc'[b] \notin ChatWindow /\ pc[b] # "write"
                       \/ pc'[b] = pc[b] /\ data'[b] = data[b]
  BY <1>1 DEF Fcn, ChatWindow
<1>3. \A b \in Actor : pc[b] # "idle" => pc'[b] # "idle" BY <1>1 DEF Fcn
<1> QED BY <1>2, <1>3, SeenApart DEF ChatWindow

(* A request has read the thread and will write back what was said, with   *)
(* at most its own message added.                                          *)
LEMMA SeenAmend ==
    ASSUME BadgeInv, ChatInv, SeenInv, NEW a \in Actor, NEW chat, Amend(a, chat), UNCHANGED sent,
           Adds(a, IdsIn(file[Chat]), IdsIn(chat))
    PROVE  SeenInv'
<1>1. /\ Readable /\ pc' = [pc EXCEPT ![a] = "open"] /\ data' = [data EXCEPT ![a] = chat]
      /\ UNCHANGED <<file, gone>> /\ Fcn(pc, Actor) /\ Fcn(data, Actor)
  BY DEF Amend, Goto, BadgeInv, Shape
<1>0. Fcn(sent, Actor)' BY DEF SeenInv, Fcn
<1> SUFFICES ASSUME Chat \in quiet', ~gone PROVE SeenQuiet' BY <1>0, <1>1 DEF SeenInv
<1>3. Chat \in quiet /\ \A b \in Actor \ {a} : ~Busy(b, Chat) BY DEF Amend, Touch
<1>4. \A b \in Actor \ {a} : pc[b] \notin ChatWindow
  BY <1>3 DEF Busy, ChatWindow, ChatInv, ChatShape, BadgeInv, Shape
<1>5. SeenQuiet /\ ChatKept BY <1>3 DEF SeenInv, ChatInv, ChatQuiet
<1>6. pc[a] # "write" BY <1>1, <1>5 DEF ChatKept, Readable, Unreadable
<1>7. \A b \in Actor : pc[b] # "write" BY <1>4, <1>6 DEF ChatWindow
<1> DEFINE ids == IdsIn(file[Chat])
           new == IdsIn(chat)
<1>8. ids \in Seq(Heard) BY <1>1, ReadIsChat, IdsType
<1>9. Told(pc, sent, ids) BY <1>5, <1>7 DEF SeenQuiet
<1>10. /\ pc'[a] = "open" /\ data'[a] = chat
       /\ \A b \in Actor \ {a} : pc'[b] = pc[b]
       /\ \A b \in Actor \ {a} : pc'[b] \notin ChatWindow
  BY <1>1, <1>4 DEF Fcn
<1>11. Adds(a, ids, new) OBVIOUS
<1> HIDE DEF ids, new
<1>12. /\ new \in Seq(Heard) /\ Begins(ids, new)
       /\ \A j \in 1 .. Len(new) : j \in 1 .. Len(ids) \/ new[j][1] = a
  BY <1>8, <1>11, AddsBegins
<1>13. /\ \A b \in Actor : pc[b] # "idle" => pc'[b] # "idle"
       /\ \A j \in 1 .. Len(new) : j \in 1 .. Len(ids) \/ pc'[new[j][1]] # "idle"
  BY <1>10, <1>12
<1>14. Told(pc', sent, new) BY <1>8, <1>9, <1>12, <1>13, ToldMore
<1>15. Told(pc', sent, ids) BY <1>8, <1>9, <1>13, ToldStays
<1> QED BY <1>1, <1>10, <1>12, <1>14, <1>15 DEF SeenQuiet, ChatWindow, ids, new

LEMMA SeenThread ==
    ASSUME BadgeInv, BadgeInv', ChatInv, SeenInv, NEW a \in Actor, ThreadStep(a) PROVE SeenInv'
<1>0. UNCHANGED sent /\ Fcn(sent, Actor)' BY DEF ThreadStep, workVars, SeenInv, Fcn
<1>1. CASE (Rename(a) \/ AppendMessage(a)) /\ CannotRead(a)
  <2>1. pc[a] \notin ChatWindow BY <1>1 DEF Rename, AppendMessage, Is, ChatWindow
  <2> QED BY <1>0, <1>1, <2>1, SeenReply DEF CannotRead, fileVars, historyVars
<1>2. CASE (Rename(a) \/ AppendMessage(a)) /\ ~CannotRead(a)
  <2>0. pc[a] \notin ChatWindow BY <1>2 DEF Rename, AppendMessage, Is, ChatWindow
  <2>1. CASE Reply(a, 200) /\ UNCHANGED <<fileVars, data, historyVars>>
    BY <1>0, <2>0, <2>1, SeenReply DEF fileVars, historyVars
  <2>2. CASE \E t \in Title : Readable /\ Amend(a, [file[Chat] EXCEPT !.title = t])
    <3>1. PICK t \in Title : Readable /\ Amend(a, [file[Chat] EXCEPT !.title = t]) BY <2>2
    <3>2. file[Chat] \in Chats BY <3>1, ReadIsChat
    <3> DEFINE chat == [file[Chat] EXCEPT !.title = t]
    <3>3. chat.messages = file[Chat].messages BY <3>2 DEF Chats
    <3> HIDE DEF chat
    <3>4. Adds(a, IdsIn(file[Chat]), IdsIn(chat)) BY <3>3 DEF Adds, IdsIn
    <3> QED BY <1>0, <3>1, <3>4, SeenAmend DEF chat
  <2>3. CASE \E role \in Roles, blank \in BOOLEAN :
                Readable /\ Amend(a, Posted(a, role, blank))
    <3>1. PICK role \in Roles, blank \in BOOLEAN : Readable /\ Amend(a, Posted(a, role, blank))
      BY <2>3
    <3>2. Adds(a, IdsIn(file[Chat]), IdsIn(Posted(a, role, blank)))
      BY <3>1, ReadIsChat, PostedIds DEF Adds
    <3> QED BY <1>0, <3>1, <3>2, SeenAmend
  <2> QED BY <1>2, <2>1, <2>2, <2>3 DEF Rename, AppendMessage
<1>3. CASE Delete(a)
  <2>1. /\ pc[a] = "idle" /\ UNCHANGED <<file, data, gone>>
        /\ Chat \in quiet' => Chat \in quiet
        /\ pc' = [pc EXCEPT ![a] = "unlink"] \/ pc' = [pc EXCEPT ![a] = "done"]
    BY <1>3 DEF Delete, Is, Goto, Reply, Touch
  <2>2. /\ pc'[a] \in {"unlink", "done"} /\ data'[a] = data[a]
        /\ \A b \in Actor \ {a} : pc'[b] = pc[b]
    BY <2>1 DEF BadgeInv, Shape, Fcn
  <2> QED BY <1>0, <2>1, <2>2, SeenApart
<1>4. CASE Unlink(a)
  <2>1. /\ pc[a] = "unlink" /\ pc' = [pc EXCEPT ![a] = "done"] /\ UNCHANGED <<data, quiet>>
        /\ \/ file' = file /\ gone' = gone
           \/ file' = [file EXCEPT ![Chat] = NoFile]
    BY <1>4 DEF Unlink, UnlinkFile, Reply, Goto
  <2>2. \A b \in Actor : \/ pc'[b] \notin ChatWindow /\ pc[b] # "write"
                         \/ pc'[b] = pc[b] /\ data'[b] = data[b]
    BY <2>1 DEF BadgeInv, Shape, Fcn, ChatWindow
  <2>3. \A b \in Actor : pc[b] # "idle" => pc'[b] # "idle" BY <2>1 DEF BadgeInv, Shape, Fcn
  <2>4. CASE file' = file /\ gone' = gone
    BY <1>0, <2>1, <2>2, <2>3, <2>4, SeenApart DEF ChatWindow
  <2>5. CASE file' = [file EXCEPT ![Chat] = NoFile]
    <3>1. file'[Chat] = NoFile BY <2>5, Places DEF BadgeInv, Shape, Fcn
    <3> SUFFICES ASSUME Chat \in quiet, ~gone' PROVE FALSE BY <1>0, <2>1 DEF SeenInv
    <3>2. ~gone BY <1>4 DEF Unlink
    <3>3. ChatQuiet /\ ChatKept BY <3>2 DEF ChatInv, ChatQuiet
    <3>4. \A b \in Actor : pc[b] # "write" BY <2>1, <3>3 DEF ChatQuiet, ChatWindow
    <3>5. file[Chat] # NoFile BY <3>3, <3>4 DEF ChatKept, Readable
    <3>6. gone' BY <1>4, <3>1, <3>5 DEF Unlink
    <3> QED BY <3>6
  <2> QED BY <2>1, <2>4, <2>5
<1>5. CASE Open(a)
  <2>1. /\ pc[a] = "open" /\ pc' = [pc EXCEPT ![a] = "write"]
        /\ UNCHANGED <<data, gone, quiet>>
    BY <1>5 DEF Open, OpenFile, Goto, historyVars
  <2>2. pc'[a] = "write" /\ \A b \in Actor \ {a} : pc'[b] = pc[b]
    BY <2>1 DEF BadgeInv, Shape, Fcn
  <2> SUFFICES ASSUME Chat \in quiet, ~gone PROVE SeenQuiet' BY <1>0, <2>1 DEF SeenInv
  <2>3. SeenQuiet /\ ChatQuiet BY DEF SeenInv, ChatInv
  <2>4. \A b \in Actor \ {a} : pc'[b] \notin ChatWindow
    BY <2>1, <2>2, <2>3 DEF ChatQuiet, ChatWindow
  <2>5. \A b \in Actor : pc[b] # "idle" => pc'[b] # "idle" BY <2>2
  <2>6. Told(pc, sent, IdsIn(data[a])) BY <2>1, <2>3 DEF SeenQuiet
  <2>7. data[a] \in Chats BY <2>1 DEF BadgeInv, Honest
  <2>8. Told(pc', sent', IdsIn(data'[a])) BY <1>0, <2>1, <2>5, <2>6, <2>7, IdsType, ToldStays
  <2> QED BY <2>2, <2>4, <2>8 DEF SeenQuiet, ChatWindow
<1>6. CASE Write(a)
  <2>1. /\ pc[a] = "write" /\ job[a] = Chat /\ WriteOut(a, data[a])
        /\ pc' = [pc EXCEPT ![a] = "agent"] \/ pc' = [pc EXCEPT ![a] = "done"]
        /\ UNCHANGED <<data, gone, quiet>>
    BY <1>6 DEF Write, Reply, Goto, BadgeInv, Shape
  <2>2. pc'[a] \in {"agent", "done"} /\ \A b \in Actor \ {a} : pc'[b] = pc[b]
    BY <2>1 DEF BadgeInv, Shape, Fcn
  <2> SUFFICES ASSUME Chat \in quiet, ~gone PROVE SeenQuiet' BY <1>0, <2>1 DEF SeenInv
  <2>3. SeenQuiet /\ ChatQuiet /\ ChatKept BY DEF SeenInv, ChatInv, ChatQuiet
  <2>4. \A b \in Actor : pc'[b] \notin ChatWindow
    BY <2>1, <2>2, <2>3 DEF ChatQuiet, ChatWindow
  <2>5. \A b \in Actor : pc[b] # "idle" => pc'[b] # "idle" BY <2>2
  <2>6. fd[a] = "file" /\ file[Chat] = Empty BY <2>1, <2>3 DEF ChatKept
  <2>7. file'[Chat] = data[a]
    BY <2>1, <2>6, Places DEF WriteOut, Overlay, BadgeInv, Shape, Fcn
  <2>8. Told(pc, sent, IdsIn(data[a])) BY <2>1, <2>3 DEF SeenQuiet
  <2>9. data[a] \in Chats BY <2>1 DEF BadgeInv, Honest
  <2>10. Told(pc', sent', IdsIn(file'[Chat]))
    BY <1>0, <2>5, <2>7, <2>8, <2>9, IdsType, ToldStays
  <2> QED BY <2>4, <2>10 DEF SeenQuiet, ChatWindow
<1> QED BY <1>1, <1>2, <1>3, <1>4, <1>5, <1>6 DEF ThreadStep

(* The history of a run that begins is a stretch up to the end of the      *)
(* thread it was read from, and of every thread that begins with that one. *)
LEMMA HistorySeen ==
    ASSUME NEW ids \in Seq(Heard), NEW a, \A j \in 1 .. Len(ids) : ids[j][1] # a
    PROVE  Saw(Turns(LastOf(ids, MaxHistory)), a, ids)
<1> DEFINE lo == IF Len(ids) > MaxHistory THEN Len(ids) - MaxHistory + 1 ELSE 1
<1>1. MaxHistory \in Nat \ {0} /\ Len(ids) \in Nat BY ThreadsAssumption, LenProperties
<1>2. lo \in 1 .. Len(ids) + 1 /\ lo <= Len(ids) + 1 BY <1>1
<1>3. LastOf(ids, MaxHistory) = SubSeq(ids, lo, Len(ids)) BY DEF LastOf
<1>4. ASSUME NEW j \in 1 .. Len(ids) PROVE ids[j] # <<a, "user">>
  <2>1. ids[j][1] # a OBVIOUS
  <2>2. <<a, "user">>[1] = a OBVIOUS
  <2> QED BY <2>1, <2>2
<1>5. Len(ids) \in 0 .. Len(ids) BY <1>1
<1> HIDE DEF lo
<1> QED BY <1>2, <1>3, <1>4, <1>5 DEF Saw

Recalls(given, ids) ==
    \/ given = <<>>
    \/ \E old \in Seq(Heard) : Begins(old, ids) /\ given = Turns(LastOf(old, MaxHistory))

LEMMA ToldAsked ==
    ASSUME NEW ids \in Seq(Heard), NEW a \in Actor, NEW p, NEW q, NEW h, NEW g,
           p[a] = "idle", Told(p, h, ids), \A b \in Actor : p[b] # "idle" => q[b] # "idle",
           \A b \in Actor \ {a} : g[b] = h[b], Recalls(g[a], ids)
    PROVE  Told(q, g, ids)
<1>1. Told(q, h, ids) BY ToldStays
<1>2. \A j \in 1 .. Len(ids) : ids[j][1] # a BY DEF Told
<1>3. ASSUME g[a] # <<>> PROVE Saw(g[a], a, ids)
  <2>1. PICK old \in Seq(Heard) : Begins(old, ids) /\ g[a] = Turns(LastOf(old, MaxHistory))
    BY <1>3 DEF Recalls
  <2>2. \A j \in 1 .. Len(old) : old[j][1] # a
    <3>1. Len(old) \in Nat /\ Len(ids) \in Nat BY LenProperties
    <3> QED BY <1>2, <2>1, <3>1 DEF Begins
  <2>3. Saw(g[a], a, old) BY <2>1, <2>2, HistorySeen
  <2> QED BY <2>1, <2>3, SawMore
<1> QED BY <1>1, <1>3 DEF Told

LEMMA SeenRun ==
    ASSUME BadgeInv, BadgeInv', ChatInv, SeenInv, NEW a \in Actor, RunStep(a) PROVE SeenInv'
<1>1. CASE StorePrompt(a) \/ StoreReply(a)
  <2>0. pc[a] \notin ChatWindow /\ UNCHANGED sent
    BY <1>1 DEF StorePrompt, StoreReply, ChatWindow, workVars
  <2>1. CASE CannotRead(a)
    BY <2>0, <2>1, SeenReply DEF CannotRead, fileVars, historyVars
  <2>2. CASE \E role \in Roles : Readable /\ Amend(a, Posted(a, role, FALSE))
    <3>1. PICK role \in Roles : Readable /\ Amend(a, Posted(a, role, FALSE)) BY <2>2
    <3>2. Adds(a, IdsIn(file[Chat]), IdsIn(Posted(a, role, FALSE)))
      BY <3>1, ReadIsChat, PostedIds DEF Adds
    <3> QED BY <2>0, <3>1, <3>2, SeenAmend
  <2> QED BY <1>1, <2>1, <2>2 DEF StorePrompt, StoreReply, Roles
<1>2. CASE BeginRun(a)
  <2>1. /\ pc[a] = "idle" /\ pc' = [pc EXCEPT ![a] = "ask"]
        /\ sent' = [sent EXCEPT ![a] = History] /\ UNCHANGED <<file, data, quiet, gone>>
    BY <1>2 DEF BeginRun, Is, Goto, fileVars, historyVars
  <2>2. Fcn(sent, Actor)' BY <2>1 DEF SeenInv, Fcn
  <2> SUFFICES ASSUME Chat \in quiet, ~gone PROVE SeenQuiet' BY <2>1, <2>2 DEF SeenInv
  <2>3. SeenQuiet /\ ChatKept BY DEF SeenInv, ChatInv, ChatQuiet
  <2>4. /\ \A b \in Actor \ {a} : pc'[b] = pc[b] /\ sent'[b] = sent[b]
        /\ pc'[a] = "ask" /\ sent'[a] = History
        /\ \A b \in Actor : pc[b] # "idle" => pc'[b] # "idle"
    BY <2>1 DEF SeenInv, BadgeInv, Shape, Fcn
  <2>9. /\ pc[a] = "idle" /\ a \in Actor
        /\ \A b \in Actor : pc[b] # "idle" => pc'[b] # "idle"
        /\ \A b \in Actor \ {a} : sent'[b] = sent[b]
    BY <2>1, <2>4
  <2> DEFINE ids == IdsIn(file[Chat])
  <2>5. \/ History = <<>>
        \/ file[Chat] \in Chats /\ Readable /\ History = Turns(LastOf(ids, MaxHistory))
    BY ReadIsChat DEF History, IdsIn
  <2>6. file[Chat] \in Chats => ids \in Seq(Heard) BY IdsType
  <2> HIDE DEF ids
  <2>7. ASSUME \A b \in Actor : pc'[b] # "write" PROVE Told(pc', sent', IdsIn(file'[Chat]))
    <3>1. \A b \in Actor : pc[b] # "write" BY <2>1, <2>4, <2>7
    <3>2. file[Chat] \in Chats BY <2>3, <3>1, ReadIsChat DEF ChatKept
    <3>3. Told(pc, sent, ids) BY <2>3, <3>1 DEF SeenQuiet, ids
    <3>4. ids \in Seq(Heard) /\ Begins(ids, ids) BY <2>6, <3>2, BeginsSelf
    <3>6. Recalls(sent'[a], ids) BY <2>4, <2>5, <3>4 DEF Recalls
    <3>5. Told(pc', sent', ids) BY ONLY <2>9, <3>3, <3>4, <3>6, ToldAsked
    <3> QED BY <2>1, <3>5 DEF ids
  <2>8. ASSUME NEW b \in Actor, pc'[b] \in {"open", "write"}
        PROVE  /\ Told(pc', sent', IdsIn(data'[b]))
               /\ pc'[b] = "open" => Begins(IdsIn(file'[Chat]), IdsIn(data'[b]))
    <3>1. pc'[b] = pc[b] /\ data'[b] = data[b] BY <2>1, <2>4, <2>8
    <3>2. data[b] \in Chats BY <2>8, <3>1 DEF BadgeInv, Honest
    <3> DEFINE new == IdsIn(data[b])
    <3>3. Told(pc, sent, new) /\ (pc[b] = "open" => Begins(ids, new))
      BY <2>3, <2>8, <3>1 DEF SeenQuiet, ids
    <3>4. new \in Seq(Heard) BY <3>2, IdsType
    <3> HIDE DEF new
    <3>5. Recalls(sent'[a], new)
      <4>1. CASE History = <<>> BY <2>4, <4>1 DEF Recalls
      <4>2. CASE History # <<>>
        <5>1. Readable /\ file[Chat] \in Chats /\ History = Turns(LastOf(ids, MaxHistory))
          BY <2>5, <4>2
        <5>2. pc[b] # "write" BY <2>3, <5>1 DEF ChatKept, Readable, Unreadable
        <5>3. Begins(ids, new) /\ ids \in Seq(Heard) BY <2>6, <2>8, <3>1, <3>3, <5>1, <5>2
        <5> QED BY <2>4, <5>1, <5>3 DEF Recalls
      <4> QED BY <4>1, <4>2
    <3>7. Told(pc', sent', new) BY ONLY <2>9, <3>3, <3>4, <3>5, ToldAsked
    <3> QED BY <2>1, <3>1, <3>3, <3>7 DEF ids, new
  <2> QED BY <2>7, <2>8 DEF SeenQuiet
<1>3. CASE Propose(a)
  BY <1>3, SeenApart DEF Propose, fileVars, threadVars, requestVars, historyVars
<1>4. CASE Answer(a)
  <2>1. /\ pc[a] = "agent" /\ pc' = [pc EXCEPT ![a] = "reply"]
        /\ UNCHANGED <<file, data, quiet, gone, sent>>
    BY <1>4 DEF Answer, Goto, fileVars, historyVars, workVars
  <2>2. pc'[a] = "reply" /\ \A b \in Actor \ {a} : pc'[b] = pc[b]
    BY <2>1 DEF BadgeInv, Shape, Fcn
  <2> QED BY <2>1, <2>2, SeenApart
<1>5. CASE Fail(a)
  BY <1>5, SeenReply DEF Fail, fileVars, historyVars, ChatWindow
<1> QED BY <1>1, <1>2, <1>3, <1>4, <1>5 DEF RunStep

LEMMA SeenApply ==
    ASSUME BadgeInv, BadgeInv', ChatInv, SeenInv, NEW a \in Actor, ApplyStep(a) PROVE SeenInv'
<1>0. UNCHANGED sent
  BY DEF ApplyStep, BeginApply, ApplyDelete, OpenDraft, FillDraft, ReplaceDoc, Badge, workVars
<1>1. CASE ~Badge(a)
  <2>1. /\ pc[a] \in {"idle", "tmp", "fill", "replace"} /\ UNCHANGED <<data, gone>>
        /\ \E to \in {"tmp", "done", "badge", "fill", "replace"} : pc' = [pc EXCEPT ![a] = to]
        /\ Chat \in quiet' => Chat \in quiet
    BY <1>1 DEF ApplyStep, BeginApply, ApplyDelete, Prepare, OpenDraft, FillDraft, ReplaceDoc, Is,
                Touch, Reply, Goto, historyVars
  <2>2. pc'[a] \in {"tmp", "done", "badge", "fill", "replace"} /\ \A b \in Actor \ {a} : pc'[b] = pc[b]
    BY <2>1 DEF BadgeInv, Shape, Fcn
  <2>3. file'[Chat] = file[Chat]
    <3>1. CASE BeginApply(a) \/ OpenDraft(a) BY <3>1 DEF BeginApply, OpenDraft, OpenTmp
    <3>2. CASE ApplyDelete(a)
      BY <3>2, Places DEF ApplyDelete, UnlinkFile, BadgeInv, Shape, Fcn
    <3>3. CASE FillDraft(a) BY <3>3, Places DEF FillDraft, WriteOut, BadgeInv, Shape, Fcn
    <3>4. CASE ReplaceDoc(a)
      BY <3>4, Places DEF ReplaceDoc, Replace, fileVars, BadgeInv, Shape, Fcn
    <3> QED BY <1>1, <3>1, <3>2, <3>3, <3>4 DEF ApplyStep
  <2> QED BY <1>0, <2>1, <2>2, <2>3, SeenApart
<1>2. CASE Badge(a)
  <2>0. pc[a] = "badge" BY <1>2 DEF Badge
  <2>1. CASE Readable /\ Holds(origin[a]) # {}
    <3>1. PICK i \in Holds(origin[a]) :
            Amend(a, [file[Chat] EXCEPT !.messages[i].applied = @ \cup {a}])
      BY <1>2, <2>1 DEF Badge
    <3>2. i \in DOMAIN file[Chat].messages /\ file[Chat] \in Chats
      BY <2>1, ReadIsChat DEF Holds
    <3>3. Adds(a, IdsIn(file[Chat]), IdsIn([file[Chat] EXCEPT !.messages[i].applied = @ \cup {a}]))
      BY <3>2, BadgedIds DEF Adds
    <3> QED BY <1>0, <3>1, <3>3, SeenAmend
  <2>2. CASE ~(Readable /\ Holds(origin[a]) # {})
    BY <1>0, <1>2, <2>0, <2>2, SeenReply DEF Badge, fileVars, historyVars, ChatWindow
  <2> QED BY <2>1, <2>2
<1> QED BY <1>1, <1>2

LEMMA SeenNext == BadgeInv /\ BadgeInv' /\ ChatInv /\ SeenInv /\ [Next]_vars => SeenInv'
<1> SUFFICES ASSUME BadgeInv, BadgeInv', ChatInv, SeenInv, [Next]_vars PROVE SeenInv' OBVIOUS
<1>1. ASSUME NEW a \in Actor, ThreadStep(a) PROVE SeenInv' BY <1>1, SeenThread
<1>2. ASSUME NEW a \in Actor, RunStep(a) PROVE SeenInv' BY <1>2, SeenRun
<1>3. ASSUME NEW a \in Actor, ApplyStep(a) PROVE SeenInv' BY <1>3, SeenApply
<1>4. CASE UserEdits
  <2>1. file'[Chat] = file[Chat] BY <1>4, Places DEF UserEdits, BadgeInv, Shape, Fcn
  <2> QED BY <1>4, <2>1, SeenApart DEF UserEdits, requestVars
<1>5. CASE Crash
  <2>1. /\ UNCHANGED <<sent, gone, file>>
        /\ Chat \in quiet' => Chat \in quiet /\ \A a \in Actor : pc[a] # "write"
        /\ pc' = [a \in Actor |-> IF pc[a] \in {"idle", "done"} THEN pc[a] ELSE "dead"]
    BY <1>5 DEF Crash
  <2>2. \A a \in Actor : /\ pc'[a] \notin {"open", "write"}
                         /\ pc[a] # "idle" => pc'[a] # "idle"
                         /\ pc[a] = "write" => Chat \notin quiet'
    BY <2>1
  <2> QED BY <2>1, <2>2, SeenApart
<1>6. CASE UNCHANGED vars
  BY <1>6, SeenApart DEF vars, fileVars, threadVars, requestVars, historyVars, workVars
<1> QED BY <1>1, <1>2, <1>3, <1>4, <1>5, <1>6 DEF Next

(* The history an agent is given is an unbroken stretch of the thread as   *)
(* it stands from then on, and older than the run's own prompt, for any    *)
(* requests, messages and window, as long as no two rewrites of the thread *)
(* overlap.                                                                *)
THEOREM AgentSawThePastAlways == Spec => []AgentSawThePast
<1>1. BadgeInv /\ ChatInv /\ SeenInv => AgentSawThePast
  <2> SUFFICES ASSUME BadgeInv, ChatInv, SeenInv, Settled(Chat), Readable, NEW a \in Actor,
                      sent[a] # <<>>
               PROVE  \E k \in 0 .. Len(Turns(IdsIn(file[Chat]))) - Len(sent[a]) :
                         /\ SubSeq(Turns(IdsIn(file[Chat])), k + 1, k + Len(sent[a])) = sent[a]
                         /\ \A j \in 1 .. k + Len(sent[a]) :
                               Turns(IdsIn(file[Chat]))[j] # <<a, "user">>
    BY DEF AgentSawThePast, IdsIn
  <2>1. \A b \in Actor : pc[b] # "write" BY DEF Settled, BadgeInv, Shape
  <2>2. ~gone BY DEF Settled, ChatInv, ChatQuiet, Readable
  <2>3. Told(pc, sent, IdsIn(file[Chat])) BY <2>1, <2>2 DEF Settled, SeenInv, SeenQuiet
  <2>4. Saw(sent[a], a, IdsIn(file[Chat])) BY <2>3 DEF Told
  <2>5. IdsIn(file[Chat]) \in Seq(Heard) BY ReadIsChat, IdsType
  <2> QED BY <2>4, <2>5, SawMeans
<1> QED BY <1>1, BadgeInit, BadgeNext, DocInit, DocNext, ChatInit, ChatNext, SeenInit, SeenNext, PTL
        DEF Spec
=============================================================================
