---------------------------- MODULE Conversations ----------------------------
(***************************************************************************)
(* POST /agent/run and POST /workspace/apply (server/routers/agent.py) on  *)
(* a thread and a workspace file, side by side with the thread endpoints   *)
(* (module Threads).  A run stores the user's prompt, lets the agent work  *)
(* for as long as it takes, then stores the reply; the operations it       *)
(* queued come back with the response.  An apply changes the workspace     *)
(* file, then records that in the message the operation came with.         *)
(***************************************************************************)
EXTENDS Threads, Workspace, Selection

CONSTANTS
    Doc,         \* the workspace file
    Docs,        \* what the user may make of it: texts, or NoFile
    Proposals,   \* operations an agent may ask for
    MaxOps,      \* bound on the operations of a run
    MaxEdits,    \* bound on the changes the user makes to the file
    MaxCrashes   \* bound on deaths of the server

ASSUME ConversationsAssumption ==
    /\ Doc \in Record /\ Doc # Chat
    /\ Docs \subseteq Text \cup {NoFile}
    /\ Proposals \subseteq Op
    /\ \A mark \in Unreadable : mark \notin [Passage -> Nat]
    /\ MaxOps \in Nat /\ MaxEdits \in Nat /\ MaxCrashes \in Nat

VARIABLES
    sent,      \* the history the agent was given, as <<request, role>>
    queue,     \* pending_file_ops of each run
    origin,    \* the run whose message an apply request names
    draft,     \* the text an apply request is about to write
    took,      \* history: apply requests whose rename or unlink went through
    landed,    \* history: those whose own text was then in the file, or whose
               \* deletion left none
    edits, crashes

workVars == <<sent, queue, origin, draft, took, landed, edits, crashes>>
vars == <<fileVars, threadVars, workVars>>

TypeOK ==
    /\ ThreadsTypeOK
    /\ file[Doc] \in Text \cup Unreadable \cup {NoFile}
    /\ tmp[Doc] \in Text \cup Unreadable \cup {NoFile}
    /\ fd \in [Actor -> {"closed", "tmp", "file", "unlinked"}]
    /\ \A a \in Actor :
          /\ Len(sent[a]) <= MaxHistory
          /\ \A i \in DOMAIN sent[a] : sent[a][i] \in Actor \X {"user", "assistant"}
          /\ Len(queue[a]) <= MaxOps
          /\ queue[a] # <<>> => kind[a] = "run"
          /\ pc[a] \in {"tmp", "fill", "replace"} => draft[a] \in Text
    /\ took \subseteq Actor /\ landed \subseteq Actor
    /\ edits \in 0 .. MaxEdits /\ crashes \in 0 .. MaxCrashes

Init ==
    /\ \E t \in Title \cup {""}, doc \in Docs :
          file = [r \in Record |-> IF r = Chat THEN NewThread(t) ELSE doc]
    /\ tmp = [r \in Record |-> NoFile]
    /\ fd = [a \in Actor |-> "closed"] /\ job = [a \in Actor |-> NoRecord]
    /\ windows \in BOOLEAN
    /\ ThreadsInit
    /\ sent = [a \in Actor |-> <<>>] /\ queue = [a \in Actor |-> <<>>]
    /\ origin = [a \in Actor |-> NoRecord] /\ draft = [a \in Actor |-> NoFile]
    /\ took = {} /\ landed = {} /\ edits = 0 /\ crashes = 0

-----------------------------------------------------------------------------
(* run_agent *)

Id(m) == <<m.by, m.role>>

LastOf(s, n) == SubSeq(s, IF Len(s) > n THEN Len(s) - n + 1 ELSE 1, Len(s))

IdsInOrder(messages) == [i \in DOMAIN messages |-> Id(messages[i])]

(* What was said by the user and the assistant, without the system's notes. *)
Turns(ids) == Subsequence(ids, {i \in DOMAIN ids : ids[i][2] \in {"user", "assistant"}})

(* _load_thread_history: nothing when the file is not there or unreadable. *)
History ==
    IF ~Readable THEN <<>> ELSE Turns(LastOf(IdsInOrder(file[Chat].messages), MaxHistory))

(* The request's earlier checks change nothing. *)
BeginRun(a) ==
    /\ Is(a, "run")
    /\ Goto(a, "ask")
    /\ sent' = [sent EXCEPT ![a] = History]
    /\ UNCHANGED <<fileVars, data, status, historyVars, queue, origin, draft, took, landed, edits, crashes>>

(* Mutant: the history is read once the prompt is stored. *)
StorePrompt_ThenHistory(a) ==
    /\ pc[a] = "ask"
    /\ CannotRead(a) \/ (Readable /\ Amend(a, Posted(a, "user", FALSE)))
    /\ sent' = [sent EXCEPT ![a] =
                  IF Readable THEN LastOf(Append(@, <<a, "user">>), MaxHistory) ELSE @]
    /\ UNCHANGED <<kind, queue, origin, draft, took, landed, edits, crashes>>

(* _append_to_thread with the prompt, which is never blank. *)
StorePrompt(a) ==
    /\ pc[a] = "ask"
    /\ CannotRead(a) \/ (Readable /\ Amend(a, Posted(a, "user", FALSE)))
    /\ UNCHANGED <<kind, workVars>>

(* What a file's text reads as: one cut short as nothing, a mixture of two *)
(* as any text; there is none to read when there is no file.               *)
ReadsAs(content) ==
    IF content = NoFile THEN {}
    ELSE IF content = Empty THEN {Blank}
    ELSE IF content = Torn THEN Text ELSE {content}

(* Mutant: the file tool carries an edit out on the spot. *)
Propose_AtOnce(a) ==
    /\ pc[a] = "agent" /\ Len(queue[a]) < MaxOps
    /\ \E op \in Proposals :
          /\ queue' = [queue EXCEPT ![a] = Append(@, op)]
          /\ file' = [file EXCEPT ![Doc] = Empty]
    /\ UNCHANGED <<tmp, job, fd, windows, threadVars, sent, origin, draft, took, landed, edits, crashes>>

(* The agent calls a file tool, which looks at the file and queues; what   *)
(* it refuses leaves no trace.                                             *)
Propose(a) ==
    /\ pc[a] = "agent" /\ Len(queue[a]) < MaxOps
    /\ \E op \in Proposals :
          /\ CASE op.op = "render_document" -> TRUE
               [] op.op = "delete_file" -> file[Doc] # NoFile
               [] op.op = "write_file" -> Size(op.text) <= MaxText
               [] op.op = "edit_file" ->
                    \E t \in ReadsAs(file[Doc]) : Outcome(op, t) # {}
          /\ queue' = [queue EXCEPT ![a] = Append(@, op)]
    /\ UNCHANGED <<fileVars, threadVars, sent, origin, draft, took, landed, edits, crashes>>

(* The agent has answered. *)
Answer(a) ==
    /\ pc[a] = "agent"
    /\ Goto(a, "reply")
    /\ UNCHANGED <<fileVars, kind, data, status, historyVars, workVars>>

(* The run raised: what it queued is lost with it, the prompt stays. *)
Fail(a) ==
    /\ pc[a] = "agent"
    /\ Reply(a, 500)
    /\ queue' = [queue EXCEPT ![a] = <<>>]
    /\ UNCHANGED <<fileVars, kind, data, historyVars, sent, origin, draft, took, landed, edits, crashes>>

(* Mutant: the reply is added to the thread as it was when the prompt was. *)
StoreReply_Stale(a) ==
    /\ pc[a] = "reply"
    /\ \/ CannotRead(a)
       \/ Readable /\ Amend(a, [data[a] EXCEPT !.messages = Append(@, Message(a, "assistant"))])
    /\ UNCHANGED <<kind, workVars>>

(* Mutant: a missing thread is created again for the reply. *)
StoreReply_Recreates(a) ==
    /\ pc[a] = "reply"
    /\ data' = [data EXCEPT ![a].messages = Append(@, Message(a, "assistant"))]
    /\ Goto(a, "open")
    /\ Touch(a, Chat)
    /\ UNCHANGED <<file, tmp, fd, windows, status, stored, badged, named, gone, kind, workVars>>

(* _append_to_thread with the reply. *)
StoreReply(a) ==
    /\ pc[a] = "reply"
    /\ CannotRead(a) \/ (Readable /\ Amend(a, Posted(a, "assistant", FALSE)))
    /\ UNCHANGED <<kind, workVars>>

-----------------------------------------------------------------------------
(* apply_workspace_op *)

(* apply_pending_op up to the point where it knows what to write: the text *)
(* of an edited file is read now, not when the edit was proposed.          *)
Prepare(a, op) ==
    LET before == IF op.op = "edit_file" THEN ReadsAs(file[Doc]) ELSE {Blank}
    IN  \/ /\ \E t \in before : \E new \in Outcome(op, t) : draft' = [draft EXCEPT ![a] = new]
           /\ Goto(a, "tmp")
           /\ UNCHANGED status
        \/ /\ \/ op.op = "render_document"     \* the exporter may fail
              \/ before = {}                  \* nothing to edit
              \/ \E t \in before : Outcome(op, t) = {}
           /\ Reply(a, 400)
           /\ UNCHANGED draft

(* The user approves an operation of a run whose response has come. *)
BeginApply(a) ==
    /\ Is(a, "apply")
    /\ \E r \in Actor : \E i \in DOMAIN queue[r] :
          /\ status[r] = 200
          /\ queue[r][i].op # "delete_file"
          /\ origin' = [origin EXCEPT ![a] = r]
          /\ Prepare(a, queue[r][i])
    /\ Touch(a, Doc)
    /\ UNCHANGED <<file, tmp, fd, windows, data, stored, badged, named, gone,
                   sent, queue, took, landed, edits, crashes>>

(* The same for a deletion, which asks and acts at once; a file already    *)
(* gone is an answer, not an error.                                        *)
ApplyDelete(a) ==
    /\ Is(a, "apply")
    /\ \E r \in Actor : \E i \in DOMAIN queue[r] :
          /\ status[r] = 200
          /\ queue[r][i].op = "delete_file"
          /\ origin' = [origin EXCEPT ![a] = r]
    /\ Touch(a, Doc)
    /\ UnlinkFile(a, Doc)
    /\ IF file'[Doc] = NoFile
       THEN /\ Goto(a, "badge") /\ UNCHANGED status
            /\ took' = took \cup {a} /\ landed' = landed \cup {a}
       ELSE Reply(a, 400) /\ UNCHANGED <<took, landed>>
    /\ UNCHANGED <<data, stored, badged, named, gone, sent, queue, draft, edits, crashes>>

(* Mutant: the draft is written over the file itself. *)
OpenDraft_InPlace(a) ==
    /\ pc[a] = "tmp"
    /\ OpenFile(a)
    /\ Goto(a, "fill")
    /\ UNCHANGED <<kind, data, status, historyVars, workVars>>

(* tmp.write_bytes, then os.replace *)
OpenDraft(a) ==
    /\ pc[a] = "tmp"
    /\ OpenTmp(a)
    /\ Goto(a, "fill")
    /\ UNCHANGED <<kind, data, status, historyVars, workVars>>

FillDraft(a) ==
    /\ pc[a] = "fill"
    /\ WriteOut(a, draft[a]) /\ UNCHANGED job
    /\ Goto(a, "replace")
    /\ UNCHANGED <<kind, data, status, historyVars, workVars>>

(* Mutant: an os.replace that fails is not noticed. *)
ReplaceDoc_BadgesAnyway(a) ==
    /\ pc[a] = "replace"
    /\ \/ /\ Replace(a) /\ UNCHANGED job
          /\ took' = took \cup {a}
          /\ landed' = IF file'[Doc] = draft[a] THEN landed \cup {a} ELSE landed
       \/ (tmp[Doc] = NoFile \/ ReplaceBlocked(a)) /\ UNCHANGED <<fileVars, took, landed>>
    /\ Goto(a, "badge")
    /\ UNCHANGED <<kind, data, status, historyVars, sent, queue, origin, draft, edits, crashes>>

(* The .praxia-tmp may be gone, renamed by another apply, or hold what     *)
(* another apply has put there by now, and then that is what replaces the  *)
(* file.  Windows refuses to replace a file another thread has open.       *)
(* Nothing cleans up.                                                      *)
ReplaceDoc(a) ==
    /\ pc[a] = "replace"
    /\ \/ /\ Replace(a) /\ UNCHANGED job
          /\ Goto(a, "badge")
          /\ took' = took \cup {a}
          /\ landed' = IF file'[Doc] = draft[a] THEN landed \cup {a} ELSE landed
          /\ UNCHANGED status
       \/ /\ tmp[Doc] = NoFile \/ ReplaceBlocked(a)
          /\ Reply(a, 400)
          /\ UNCHANGED <<fileVars, took, landed>>
    /\ UNCHANGED <<kind, data, historyVars, sent, queue, origin, draft, edits, crashes>>

Holds(r) == {i \in DOMAIN file[Chat].messages : Id(file[Chat].messages[i]) = <<r, "assistant">>}

(* _append_applied_op_to_message: silent when there is nothing to add to. *)
Badge(a) ==
    /\ pc[a] = "badge"
    /\ IF Readable /\ Holds(origin[a]) # {}
       THEN \E i \in Holds(origin[a]) :
               Amend(a, [file[Chat] EXCEPT !.messages[i].applied = @ \cup {a}])
       ELSE Reply(a, 200) /\ UNCHANGED <<fileVars, data, historyVars>>
    /\ UNCHANGED <<kind, workVars>>

-----------------------------------------------------------------------------
(* The rest of the world *)

(* The user saves the file with an editor, or removes it. *)
UserEdits ==
    /\ edits < MaxEdits /\ edits' = edits + 1
    /\ \E doc \in Docs : file' = [file EXCEPT ![Doc] = doc]
    /\ quiet' = IF \E a \in Actor : Busy(a, Doc) THEN quiet \ {Doc} ELSE quiet
    /\ UNCHANGED <<tmp, job, fd, windows, requestVars, stored, badged, named, gone,
                   sent, queue, origin, draft, took, landed, crashes>>

(* The server dies; what was open for writing stays as it is. *)
Crash ==
    /\ crashes < MaxCrashes /\ crashes' = crashes + 1
    /\ pc' = [a \in Actor |-> IF pc[a] \in {"idle", "done"} THEN pc[a] ELSE "dead"]
    /\ fd' = [a \in Actor |-> "closed"]
    /\ data' = [a \in Actor |-> NoFile] /\ draft' = [a \in Actor |-> NoFile]
    /\ job' = [a \in Actor |-> NoRecord]
    /\ queue' = [a \in Actor |-> IF pc[a] = "done" THEN queue[a] ELSE <<>>]
    /\ quiet' = IF \E a \in Actor : pc[a] = "write" THEN quiet \ {Chat} ELSE quiet
    /\ UNCHANGED <<file, tmp, windows, kind, status, stored, badged, named, gone,
                   sent, origin, took, landed, edits>>

ThreadStep(a) ==
    /\ Rename(a) \/ AppendMessage(a) \/ Delete(a) \/ Unlink(a) \/ Open(a) \/ Write(a)
    /\ UNCHANGED workVars

RunStep(a) ==
    BeginRun(a) \/ StorePrompt(a) \/ Propose(a) \/ Answer(a) \/ Fail(a) \/ StoreReply(a)

ApplyStep(a) ==
    \/ BeginApply(a) \/ ApplyDelete(a) \/ OpenDraft(a) \/ FillDraft(a)
    \/ ReplaceDoc(a) \/ Badge(a)

Next ==
    \/ \E a \in Actor : ThreadStep(a) \/ RunStep(a) \/ ApplyStep(a)
    \/ UserEdits \/ Crash

Spec == Init /\ [][Next]_vars

-----------------------------------------------------------------------------
(* Properties.  quiet keeps the files whose changes never overlapped and   *)
(* were not cut short by a crash.  A run is a change of the thread at its  *)
(* two ends only: runs, and everything the devices do while an agent       *)
(* works, interleave freely in a quiet thread.                             *)

Settled(r) == r \in quiet /\ ~\E a \in Actor : job[a] = r /\ pc[a] \in {"write", "unlink"}

Ids == {Id(file[Chat].messages[i]) : i \in DOMAIN file[Chat].messages}

(* Every message that was stored, every badge of an applied operation and  *)
(* the title the user gave stay in the thread until it is deleted: neither *)
(* router writes back something it read before another's change.           *)
NothingLost ==
    Settled(Chat) /\ ~gone =>
        /\ Readable
        /\ stored \subseteq Ids
        /\ badged \subseteq UNION {file[Chat].messages[i].applied : i \in DOMAIN file[Chat].messages}
        /\ named # "" => file[Chat].title = named

(* A deleted thread stays deleted, also when a run that began before the   *)
(* DELETE ends after it.                                                   *)
DeletedStays == Chat \in quiet /\ gone => file[Chat] = NoFile

(* What a run's agent was sent as history is an unbroken stretch of the    *)
(* conversation, and all of it older than the run's own prompt, which is   *)
(* thus in front of the agent once.                                        *)
AgentSawThePast ==
    Settled(Chat) /\ Readable =>
        LET ids == Turns(IdsInOrder(file[Chat].messages))
        IN  \A a \in Actor : sent[a] # <<>> =>
                \E k \in 0 .. Len(ids) - Len(sent[a]) :
                    /\ SubSeq(ids, k + 1, k + Len(sent[a])) = sent[a]
                    /\ \A j \in 1 .. k + Len(sent[a]) : ids[j] # <<a, "user">>

(* The workspace file is never half written, not even when the server dies *)
(* in the middle of an apply.                                              *)
NeverHalfWritten == Doc \in quiet => file[Doc] \notin Unreadable

(* A badge under a message ("saved to ...") is there only for an apply     *)
(* whose rename or deletion went through, or a deletion that found the     *)
(* file gone, whatever overlaps and whenever the server dies; and as long  *)
(* as no two changes of the file overlap, what that rename put there is    *)
(* the apply's own text.  When applies do overlap, it may be another's, or *)
(* half of it: they share one .praxia-tmp.                                 *)
BadgeMeansApplied ==
    Readable =>
        LET shown == UNION {file[Chat].messages[i].applied : i \in DOMAIN file[Chat].messages}
        IN  shown \subseteq took /\ (Doc \in quiet => shown \subseteq landed)

=============================================================================
