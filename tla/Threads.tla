------------------------------- MODULE Threads -------------------------------
(***************************************************************************)
(* A chat thread, chats/<user>/<thread>.json, as the thread endpoints      *)
(* (praxia/server/routers/threads.py) and the agent endpoint's own helpers *)
(* (routers/agent.py) read and write it.  Both read the whole file, change *)
(* it in memory and rewrite it in place with write_text: no lock, no .tmp. *)
(* The devices of one user share the thread, so requests overlap.          *)
(*                                                                         *)
(* A request is a thread of the server.  The agent run, the only request   *)
(* that touches the file more than once, is in module Conversations.       *)
(***************************************************************************)
EXTENDS RecordFiles, Sequences, FiniteSets, SequencesExt

CONSTANTS
    Chat,         \* the thread's file
    Title,        \* titles a user gives a thread
    Workloads,    \* what requests come in, a kind for each actor
    MaxHistory    \* max_messages of _load_thread_history

Kinds == {"rename", "append", "delete", "run", "apply"}

Roles == {"user", "assistant", "system"}

(* applied is applied_file_operations: the requests that applied one.      *)
Messages == [by : Actor, role : Roles, applied : SUBSET Actor]

Chats == [title : Title \cup {"", "derived"}, messages : Seq(Messages)]

ASSUME ThreadsAssumption ==
    /\ Chat \in Record
    /\ Workloads \subseteq [Actor -> Kinds \cup {"none"}]
    /\ MaxHistory \in Nat \ {0}
    /\ {"", "derived"} \cap Title = {}
    /\ \A mark \in Unreadable \cup {NoFile} : mark \notin Chats

VARIABLES
    pc, kind,   \* where each request is, and what it is
    data,       \* the thread as the request will write it back
    status,     \* the response's code; 0 before it
    stored,     \* history: the messages written, as <<request, role>>
    badged,     \* history: the requests whose applied operation was recorded
    named,      \* history: the title last given
    gone,       \* history: a DELETE has succeeded
    quiet       \* history: the files no two requests changed at a time

requestVars == <<pc, kind, data, status>>
historyVars == <<stored, badged, named, gone, quiet>>
threadVars == <<requestVars, historyVars>>

(* between reading a file and having changed it *)
ChatWindow == {"open", "write", "unlink"}
DocWindow == {"tmp", "fill", "replace"}

ThreadsTypeOK ==
    /\ pc \in [Actor -> {"idle", "ask", "agent", "reply", "badge", "done", "dead"}
                        \cup ChatWindow \cup DocWindow]
    /\ kind \in Workloads
    /\ file[Chat] \in Unreadable \cup {NoFile} \cup Chats
    /\ \A a \in Actor : pc[a] \in {"open", "write"} => data[a] \in Chats
    /\ status \in [Actor -> {0, 200, 400, 404, 500}]
    /\ stored \subseteq Actor \X Roles /\ badged \subseteq Actor
    /\ named \in Title \cup {""} /\ gone \in BOOLEAN /\ quiet \subseteq Record

(* POST /threads has just answered with the new thread's id. *)
NewThread(title) == [title |-> title, messages |-> <<>>]

ThreadsInit ==
    /\ named = file[Chat].title
    /\ pc = [a \in Actor |-> "idle"] /\ kind \in Workloads
    /\ data = [a \in Actor |-> NoFile] /\ status = [a \in Actor |-> 0]
    /\ stored = {} /\ badged = {} /\ gone = FALSE /\ quiet = Record

-----------------------------------------------------------------------------
(* What the handlers are made of *)

Goto(a, label) == pc' = [pc EXCEPT ![a] = label]

Reply(a, code) ==
    /\ Goto(a, "done")
    /\ status' = [status EXCEPT ![a] = code]

(* A request of kind k comes in. *)
Is(a, k) ==
    /\ pc[a] = "idle" /\ kind[a] = k
    /\ UNCHANGED kind

Busy(a, r) == job[a] = r /\ pc[a] \in ChatWindow \cup DocWindow

(* a starts to change r, perhaps while another request does. *)
Touch(a, r) ==
    /\ job' = [job EXCEPT ![a] = r]
    /\ quiet' = IF \E b \in Actor \ {a} : Busy(b, r) THEN quiet \ {r} ELSE quiet

Readable == file[Chat] \notin Unreadable \cup {NoFile}

(* The request has read the thread and is about to write chat back. *)
Amend(a, chat) ==
    /\ Readable
    /\ data' = [data EXCEPT ![a] = chat]
    /\ Goto(a, "open")
    /\ Touch(a, Chat)
    /\ UNCHANGED <<file, tmp, fd, windows, status, stored, badged, named, gone>>

(* 404 when there is no file, 500 when what is there does not parse. *)
CannotRead(a) ==
    /\ ~Readable
    /\ Reply(a, IF file[Chat] = NoFile THEN 404 ELSE 500)
    /\ UNCHANGED <<fileVars, data, historyVars>>

Message(a, role) == [by |-> a, role |-> role, applied |-> {}]

(* Mutant: the first user message retitles the thread whatever its title. *)
Posted_Retitles(a, role, blank) ==
    [title |-> IF role = "user" /\ ~blank THEN "derived" ELSE file[Chat].title,
     messages |-> Append(file[Chat].messages, Message(a, role))]

(* The thread with a's message added; a thread without a title takes the   *)
(* user message's first words, if it has any.                              *)
Posted(a, role, blank) ==
    [title |-> IF file[Chat].title = "" /\ role = "user" /\ ~blank
               THEN "derived" ELSE file[Chat].title,
     messages |-> Append(file[Chat].messages, Message(a, role))]

-----------------------------------------------------------------------------
(* The thread endpoints *)

(* PATCH: nothing is saved when the title is the one it has. *)
Rename(a) ==
    /\ Is(a, "rename")
    /\ \/ CannotRead(a)
       \/ \E t \in Title : Readable /\
             IF t = file[Chat].title
             THEN /\ Reply(a, 200)
                  /\ UNCHANGED <<fileVars, data, historyVars>>
             ELSE Amend(a, [file[Chat] EXCEPT !.title = t])

(* POST /messages *)
AppendMessage(a) ==
    /\ Is(a, "append")
    /\ \/ CannotRead(a)
       \/ \E role \in Roles, blank \in BOOLEAN : Readable /\ Amend(a, Posted(a, role, blank))

(* DELETE: exists(), then unlink(). *)
Delete(a) ==
    /\ Is(a, "delete")
    /\ IF file[Chat] = NoFile
       THEN /\ Reply(a, 404)
            /\ UNCHANGED <<job, quiet>>
       ELSE /\ Goto(a, "unlink")
            /\ Touch(a, Chat)
            /\ UNCHANGED status
    /\ UNCHANGED <<file, tmp, fd, windows, data, stored, badged, named, gone>>

(* unlink() of a file another thread has open is refused on Windows; of a  *)
(* file that is already gone, everywhere.                                  *)
Unlink(a) ==
    /\ pc[a] = "unlink"
    /\ UnlinkFile(a, Chat)
    /\ IF file[Chat] # NoFile /\ file'[Chat] = NoFile
       THEN Reply(a, 200) /\ gone' = TRUE
       ELSE Reply(a, 500) /\ UNCHANGED gone
    /\ UNCHANGED <<job, kind, data, stored, badged, named, quiet>>

-----------------------------------------------------------------------------
(* write_text, for every handler *)

(* open(path, "w"): truncates, and creates the file again if it is gone. *)
Open(a) ==
    /\ pc[a] = "open"
    /\ OpenFile(a)
    /\ Goto(a, "write")
    /\ UNCHANGED <<kind, data, status, historyVars>>

(* The text is written and the file closed.  A run goes on to the agent    *)
(* once its prompt is stored; for every other request this was all.        *)
Write(a) ==
    /\ pc[a] = "write"
    /\ WriteOut(a, data[a]) /\ UNCHANGED job
    /\ IF kind[a] = "run" /\ Last(data[a].messages) = Message(a, "user")
       THEN Goto(a, "agent") /\ UNCHANGED status
       ELSE Reply(a, 200)
    /\ stored' = IF kind[a] \in {"append", "run"}
                 THEN stored \cup {<<a, Last(data[a].messages).role>>} ELSE stored
    /\ badged' = IF kind[a] = "apply" THEN badged \cup {a} ELSE badged
    /\ named' = IF kind[a] = "rename" THEN data[a].title ELSE named
    /\ UNCHANGED <<kind, data, gone, quiet>>
=============================================================================
