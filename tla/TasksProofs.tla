---------------------------- MODULE TasksProofs ----------------------------
(***************************************************************************)
(* Proofs about the task queue, for every set of tasks, of threads serving *)
(* DELETE and GET, and for every number of retries and crashes.            *)
(***************************************************************************)
EXTENDS Tasks, TLAPS

(* What the assumptions on the constants say about the set of actors. *)
LEMMA Actors ==
    /\ Record \subseteq Actor /\ Deleter \subseteq Actor /\ Poller \subseteq Actor
    /\ Reaper \in Actor
    /\ \A r \in Record : r # NoRecord /\ r # Reaper /\ r \notin Deleter /\ r \notin Poller
    /\ \A d \in Deleter : d # Reaper /\ d \notin Poller /\ d \notin Record
    /\ \A p \in Poller : p # Reaper
    /\ MaxTries \in Nat \ {0} /\ MaxCrashes \in Nat
BY TasksAssumption, FilesAssumption

(* What is not a payload is no status. *)
LEMMA Contents ==
    /\ NoFile \notin Status /\ Empty \notin Status /\ Torn \notin Status
    /\ NoFile \notin InFlight /\ Empty \notin InFlight /\ Torn \notin InFlight
    /\ NoFile # Empty /\ NoFile # Torn /\ Empty # Torn
BY TasksAssumption, FilesAssumption DEF Status

-----------------------------------------------------------------------------
(* Type correctness. *)

LEMMA InitType == Init => TypeOK
BY Actors DEF Init, TypeOK, FilesInit, FilesTypeOK, NoJobs, Status, InFlight

Moved == Saving \cup {"idle", "queued", "invoking", "finished", "dead", "unlink", "reading"}

LEMMA AfterSaveType == ASSUME NEW a \in Actor, rec[a] \in Status PROVE AfterSave(a) \in Moved
BY DEF AfterSave, Moved, Saving, Status, InFlight, Terminal

(* The handle operations keep the files typed, whoever performs them on a  *)
(* record.                                                                 *)
LEMMA HandleTypes ==
    ASSUME FilesTypeOK(Status), NEW a \in Actor, job[a] \in Record, job' = job,
           OpenTmp(a) \/ OpenFile(a) \/ Replace(a) \/ UnlinkTmp(a)
             \/ (\E s \in Status : WriteOut(a, s))
    PROVE  FilesTypeOK(Status)'
<1> USE DEF FilesTypeOK, Unreadable
<1>1. CASE OpenTmp(a) BY <1>1 DEF OpenTmp
<1>2. CASE OpenFile(a) BY <1>2 DEF OpenFile
<1>3. CASE Replace(a)
  <2>1. file' \in [Record -> Status \cup Unreadable \cup {NoFile}] BY <1>3 DEF Replace
  <2>2. tmp' \in [Record -> Status \cup Unreadable \cup {NoFile}] BY <1>3 DEF Replace
  <2>3. fd' \in [Actor -> {"closed", "tmp", "file", "unlinked"}] BY <1>3 DEF Replace
  <2> QED BY <2>1, <2>2, <2>3, <1>3 DEF Replace
<1>4. CASE UnlinkTmp(a) BY <1>4 DEF UnlinkTmp
<1>5. ASSUME NEW s \in Status, WriteOut(a, s) PROVE FilesTypeOK(Status)'
  <2>1. \A old : Overlay(old, s) \subseteq Status \cup Unreadable BY DEF Overlay
  <2>2. CASE fd[a] = "tmp" BY <1>5, <2>1, <2>2 DEF WriteOut
  <2>3. CASE fd[a] = "file" BY <1>5, <2>1, <2>3 DEF WriteOut
  <2>4. CASE fd[a] = "unlinked" BY <1>5, <2>4 DEF WriteOut
  <2> QED BY <1>5, <2>2, <2>3, <2>4 DEF WriteOut
<1> QED BY <1>1, <1>2, <1>3, <1>4, <1>5

(* Every actor that saves or unlinks works on a record, which the type     *)
(* invariant alone does not say.                                           *)
Working(a) == pc[a] \in Saving \cup {"unlink"}

JobsOK ==
    /\ \A r \in Record : job[r] = r
    /\ \A a \in Actor : Working(a) => job[a] \in Record

Typed == TypeOK /\ JobsOK

LEMMA InitTyped == Init => Typed
BY InitType, Actors DEF Init, Typed, JobsOK, NoJobs, Working, Saving

LEMMA SaveTyped ==
    ASSUME Typed, NEW a \in Record \cup Deleter, Save(a) PROVE Typed'
<1> USE DEF Typed, TypeOK, Goto, serverVars
<1>0. /\ a \in Actor /\ a # Reaper BY Actors
<1>1. /\ pc[a] \in Saving /\ job[a] \in Record
  BY <1>0 DEF Save, SaveOpen, SaveWrite, SaveReplace, SaveRetry, SaveFails, SaveFallback,
              SaveRewrite, SaveCleanup, Saving, JobsOK, Working
<1>2. FilesTypeOK(Status)'
  <2>1. CASE SaveOpen(a) BY <2>1, <1>0, <1>1, HandleTypes DEF SaveOpen, OpenTmp
  <2>2. CASE SaveWrite(a) BY <2>2, <1>0, <1>1, HandleTypes DEF SaveWrite
  <2>3. CASE SaveReplace(a) BY <2>3, <1>0, <1>1, HandleTypes DEF SaveReplace
  <2>4. CASE SaveRetry(a) BY <2>4 DEF SaveRetry, fileVars, FilesTypeOK
  <2>5. CASE SaveFails(a) BY <2>5, <1>0, Actors DEF SaveFails, FilesTypeOK, NoJobs
  <2>6. CASE SaveFallback(a) BY <2>6, <1>0, <1>1, HandleTypes DEF SaveFallback, OpenFile
  <2>7. CASE SaveRewrite(a) BY <2>7, <1>0, <1>1, HandleTypes DEF SaveRewrite
  <2>8. CASE SaveCleanup(a) BY <2>8, <1>0, <1>1, HandleTypes DEF SaveCleanup, UnlinkTmp
  <2> QED BY <2>1, <2>2, <2>3, <2>4, <2>5, <2>6, <2>7, <2>8 DEF Save
<1>3. /\ pc' \in [Actor -> Moved] /\ tries' \in [Actor -> 0 .. MaxTries]
      /\ UNCHANGED <<rec, server, todo, crashes, asked>>
  BY <1>0, Actors, AfterSaveType
     DEF Save, SaveOpen, SaveWrite, SaveReplace, SaveRetry, SaveFails, SaveFallback,
         SaveRewrite, SaveCleanup, Moved, Saving
<1>4. JobsOK'
  <2>1. CASE SaveFails(a) BY <2>1, <1>0, Actors DEF SaveFails, JobsOK, Working, NoJobs, Saving, FilesTypeOK
  <2>2. CASE ~SaveFails(a)
    <3>1. UNCHANGED job
      BY <2>2 DEF Save, SaveOpen, SaveWrite, SaveReplace, SaveRetry, SaveFallback, SaveRewrite,
                  SaveCleanup, OpenTmp, OpenFile, WriteOut, Replace, UnlinkTmp, fileVars
    <3>2. \A b \in Actor : b # a => pc'[b] = pc[b]
      BY DEF Save, SaveOpen, SaveWrite, SaveReplace, SaveRetry, SaveFails, SaveFallback,
             SaveRewrite, SaveCleanup
    <3> QED BY <3>1, <3>2, <1>1 DEF JobsOK, Working
  <2> QED BY <2>1, <2>2
<1> QED BY <1>2, <1>3, <1>4 DEF Moved

LEMMA NextTyped == Typed /\ [Next]_vars => Typed'
<1> SUFFICES ASSUME Typed, [Next]_vars PROVE Typed' OBVIOUS
<1> USE Actors DEF Typed, TypeOK, Goto, serverVars, FilesTypeOK, fileVars, JobsOK, Working, Saving,
                   Status, InFlight, Terminal, Unreadable
<1>1. ASSUME NEW r \in Record, Create(r) \/ Begin(r) \/ Invoke(r) PROVE Typed'
  BY <1>1 DEF Create, Begin, Invoke, StartSave
<1>2. ASSUME NEW a \in Record \cup Deleter, Save(a) PROVE Typed'
  BY <1>2, SaveTyped
<1>3. ASSUME NEW d \in Deleter, NEW r \in Record, BeginDelete(d, r) PROVE Typed'
  BY <1>3 DEF BeginDelete
<1>4. ASSUME NEW d \in Deleter, FinishDelete(d) PROVE Typed'
  <2>1. FilesTypeOK(Status)' BY <1>4 DEF FinishDelete, UnlinkFile
  <2> QED BY <1>4, <2>1 DEF FinishDelete
<1>5. ASSUME NEW p \in Poller, NEW r \in Record, PollOpen(p, r) PROVE Typed'
  BY <1>5 DEF PollOpen
<1>6. ASSUME NEW p \in Poller, PollClose(p) PROVE Typed'
  BY <1>6 DEF PollClose
<1>7. CASE Crash BY <1>7 DEF Crash, NoJobs
<1>8. CASE Boot BY <1>8 DEF Boot
<1>9. ASSUME NEW r \in Record, ReapSkip(r) PROVE Typed' BY <1>9 DEF ReapSkip
<1>10. ASSUME NEW r \in Record, ReapOpen(r) PROVE Typed' BY <1>10 DEF ReapOpen
<1>11. CASE ReapWrite BY <1>11 DEF ReapWrite
<1>12. CASE BootDone BY <1>12 DEF BootDone
<1>13. CASE UNCHANGED vars BY <1>13 DEF vars
<1> QED BY <1>1, <1>2, <1>3, <1>4, <1>5, <1>6, <1>7, <1>8, <1>9, <1>10, <1>11, <1>12, <1>13
        DEF Next, Worker, Delete, Poll, Reap

(* Every variable keeps its type, in every behaviour: in particular no     *)
(* save counts beyond MaxTries attempts and every save works on a record.  *)
THEOREM TypeCorrect == Spec => []TypeOK
<1>1. Spec => []Typed BY InitTyped, NextTyped, PTL DEF Spec
<1> QED BY <1>1, PTL DEF Typed

-----------------------------------------------------------------------------
(* Attended, on a file system where a rename never fails.                  *)

(* Where each kind of actor can be. *)
Places ==
    /\ \A r \in Record :
          pc[r] \in {"idle", "open", "write", "replace", "queued", "invoking", "finished", "dead"}
    /\ \A d \in Deleter :
          /\ pc[d] \in {"idle", "open", "write", "replace", "unlink"}
          /\ pc[d] \in {"open", "write", "replace"} => rec[d] = "cancelled"
          /\ pc[d] # "idle" => job[d] \in Record
    /\ \A p \in Poller : pc[p] \in {"idle", "reading"}
    /\ pc[Reaper] \in {"idle", "write"}
    /\ pc[Reaper] = "write" => server = "booting" /\ rec[Reaper] = "error" /\ job[Reaper] \in Record

(* A dead or booting server has no thread but the reaper. *)
Quiet ==
    server # "up" =>
        /\ \A r \in Record : pc[r] \in {"idle", "finished", "dead"}
        /\ \A d \in Deleter : pc[d] = "idle"

(* The reaper has not passed a record that is still in flight. *)
ToReap == server = "booting" => \A r \in Record : file[r] \in InFlight => r \in todo

(* A DELETE is about to unlink r. *)
Unlinking(r) == \E d \in Deleter : pc[d] = "unlink" /\ job[d] = r

(* Once the worker writes its last status, the .tmp holds no earlier one:  *)
(* it was truncated, and only DELETEs write there besides.                 *)
LastWord ==
    \A r \in Record :
        pc[r] \in {"write", "replace"} /\ rec[r] \notin InFlight => tmp[r] \notin InFlight

(* A DELETE has renamed the .tmp the worker was saving to. *)
Displaced(r) ==
    \/ pc[r] = "write" /\ fd[r] # "tmp"
    \/ pc[r] = "replace" /\ tmp[r] = NoFile

(* It is then on its way to unlink whatever it published, the worker's     *)
(* status included.                                                        *)
Swept ==
    \A r \in Record :
        /\ Displaced(r) /\ file[r] \in InFlight => Unlinking(r)
        /\ pc[r] = "write" /\ fd[r] = "file" => Unlinking(r)

Kept ==
    server = "up" => \A r \in Record : file[r] \in InFlight => Live(r) \/ Unlinking(r)

InvParts == Places /\ Quiet /\ ToReap /\ LastWord /\ Swept /\ Kept

LEMMA InitInv == Init => InvParts
<1> SUFFICES ASSUME Init PROVE InvParts OBVIOUS
<1>1. \A a \in Actor : pc[a] = "idle" BY DEF Init
<1>2. \A r \in Record : file[r] \notin InFlight BY Contents DEF Init, FilesInit
<1>3. Places BY <1>1, Actors DEF Places
<1>4. Quiet /\ ToReap BY DEF Init, Quiet, ToReap
<1>5. LastWord /\ Swept /\ Kept BY <1>1, <1>2, Actors DEF LastWord, Swept, Kept, Displaced
<1> QED BY <1>3, <1>4, <1>5 DEF InvParts

(* What a thread of an up server may assume. *)
LEMMA SaverUp ==
    ASSUME Typed, InvParts, NEW a \in Record \cup Deleter, pc[a] \in Saving
    PROVE  /\ server = "up" /\ pc[Reaper] = "idle" /\ a \in Actor /\ a # Reaper
           /\ job[a] \in Record /\ rec[a] \in Status
           /\ pc[a] \in {"open", "write", "replace"}
           /\ a \in Deleter => rec[a] = "cancelled"
           /\ a \in Record => job[a] = a
BY Actors DEF Typed, TypeOK, JobsOK, Working, InvParts, Places, Quiet, Saving

LEMMA SaveOpenInv ==
    ASSUME Typed, InvParts, NEW a \in Record \cup Deleter, SaveOpen(a) PROVE InvParts'
<1>0. pc[a] = "open" /\ pc' = [pc EXCEPT ![a] = "write"] /\ fd' = [fd EXCEPT ![a] = "tmp"]
      /\ tmp' = [tmp EXCEPT ![job[a]] = Empty]
      /\ UNCHANGED <<file, job, rec, server, todo>>
  BY DEF SaveOpen, OpenTmp, Goto, serverVars
<1>1. a \in Actor /\ a # Reaper /\ server = "up" /\ job[a] \in Record
  BY <1>0, SaverUp DEF Saving
<1>2. (Places /\ Quiet /\ ToReap)'
  BY <1>0, <1>1, Actors DEF InvParts, Places, Quiet, ToReap, Typed, TypeOK, FilesTypeOK
<1>3. \A r \in Record : Unlinking(r)' <=> Unlinking(r)
  BY <1>0, <1>1, Actors DEF Unlinking, Typed, TypeOK, FilesTypeOK
<1>4. LastWord'
  BY <1>0, <1>1, Actors, Contents DEF InvParts, LastWord, Typed, TypeOK, FilesTypeOK, InFlight, JobsOK
<1>5. (Swept /\ Kept)'
  BY <1>0, <1>1, <1>3, Actors, Contents
     DEF InvParts, Swept, Kept, Displaced, Live, Saving, Typed, TypeOK, FilesTypeOK, JobsOK
<1> QED BY <1>2, <1>4, <1>5 DEF InvParts

LEMMA SaveWriteInv ==
    ASSUME Typed, InvParts, NEW a \in Record \cup Deleter, SaveWrite(a) PROVE InvParts'
<1>0. /\ pc[a] = "write" /\ pc' = [pc EXCEPT ![a] = "replace"]
      /\ fd' = [fd EXCEPT ![a] = "closed"]
      /\ UNCHANGED <<job, rec, server, todo>>
  BY DEF SaveWrite, WriteOut, Goto, serverVars
<1>1. /\ a \in Actor /\ a # Reaper /\ server = "up" /\ job[a] \in Record /\ rec[a] \in Status
      /\ a \in Deleter => rec[a] = "cancelled"
      /\ a \in Record => job[a] = a
  BY <1>0, SaverUp DEF Saving
<1>2. (Places /\ Quiet /\ ToReap)'
  BY <1>0, <1>1, Actors DEF InvParts, Places, Quiet, ToReap, Typed, TypeOK, FilesTypeOK
<1>3. \A r \in Record : Unlinking(r)' <=> Unlinking(r)
  BY <1>0, <1>1, Actors DEF Unlinking, Typed, TypeOK, FilesTypeOK
<1>4. CASE fd[a] = "tmp"
  <2>1. PICK c \in {rec[a], Torn} : tmp' = [tmp EXCEPT ![job[a]] = c] /\ UNCHANGED file
    BY <1>4 DEF SaveWrite, WriteOut, Overlay
  <2>2. c # NoFile /\ (c \in InFlight => a \in Record /\ c = rec[a])
    BY <1>1, <2>1, Contents DEF InFlight, Status, Terminal
  <2>3. LastWord'
    BY <1>0, <1>1, <2>1, <2>2, Actors DEF InvParts, LastWord, Typed, TypeOK, FilesTypeOK, JobsOK
  <2>4. (Swept /\ Kept)'
    BY <1>0, <1>1, <1>3, <1>4, <2>1, <2>2, Actors
       DEF InvParts, Swept, Kept, Displaced, Live, Saving, Typed, TypeOK, FilesTypeOK, JobsOK
  <2> QED BY <1>2, <2>3, <2>4 DEF InvParts
<1>5. CASE fd[a] = "file"
  <2>1. PICK c \in {rec[a], Torn} : file' = [file EXCEPT ![job[a]] = c] /\ UNCHANGED tmp
    BY <1>5 DEF SaveWrite, WriteOut, Overlay
  <2>2. c \in InFlight => a \in Record /\ c = rec[a]
    BY <1>1, <2>1, Contents DEF InFlight, Status, Terminal
  <2>3. LastWord'
    BY <1>0, <1>1, <2>1, Actors DEF InvParts, LastWord, Typed, TypeOK, FilesTypeOK, JobsOK
  <2>4. (Places /\ Quiet /\ ToReap)' BY <1>2
  <2>5. (Swept /\ Kept)'
    BY <1>0, <1>1, <1>3, <1>5, <2>1, <2>2, Actors
       DEF InvParts, Swept, Kept, Displaced, Live, Saving, Typed, TypeOK, FilesTypeOK, JobsOK
  <2> QED BY <2>4, <2>3, <2>5 DEF InvParts
<1>6. CASE fd[a] = "unlinked"
  <2>1. UNCHANGED <<file, tmp>> BY <1>6 DEF SaveWrite, WriteOut
  <2>2. LastWord'
    BY <1>0, <1>1, <2>1, Actors DEF InvParts, LastWord, Typed, TypeOK, FilesTypeOK, JobsOK
  <2>3. (Swept /\ Kept)'
    BY <1>0, <1>1, <1>3, <1>6, <2>1, Actors
       DEF InvParts, Swept, Kept, Displaced, Live, Saving, Typed, TypeOK, FilesTypeOK, JobsOK
  <2> QED BY <1>2, <2>2, <2>3 DEF InvParts
<1> QED BY <1>4, <1>5, <1>6 DEF SaveWrite, WriteOut

(* The rename takes the .tmp away from whoever else was saving, and gives  *)
(* its content to the record.                                              *)
LEMMA SaveReplaceInv ==
    ASSUME Typed, InvParts, NEW a \in Record \cup Deleter, SaveReplace(a) PROVE InvParts'
<1>0. /\ pc[a] = "replace" /\ pc' = [pc EXCEPT ![a] = AfterSave(a)]
      /\ tmp[job[a]] # NoFile
      /\ file' = [file EXCEPT ![job[a]] = tmp[job[a]]]
      /\ tmp' = [tmp EXCEPT ![job[a]] = NoFile]
      /\ UNCHANGED <<job, rec, server, todo>>
  BY DEF SaveReplace, Replace, Goto, serverVars
<1>1. /\ a \in Actor /\ a # Reaper /\ server = "up" /\ job[a] \in Record /\ rec[a] \in Status
      /\ a \in Record => job[a] = a
  BY <1>0, SaverUp DEF Saving
<1>2. PICK after :
        /\ pc' = [pc EXCEPT ![a] = after]
        /\ a \in Deleter => after = "unlink"
        /\ a \in Record => after \in {"queued", "invoking", "finished"}
        /\ a \in Record /\ rec[a] \in InFlight => after \in {"queued", "invoking"}
  <2>1. a \in Deleter => AfterSave(a) = "unlink" BY DEF AfterSave
  <2>2. a \in Record => a \notin Deleter BY Actors
  <2>3. a \notin Deleter => AfterSave(a) \in {"queued", "invoking", "finished"}
    BY <1>1 DEF AfterSave, Status, InFlight, Terminal
  <2>4. a \notin Deleter /\ rec[a] \in InFlight => AfterSave(a) \in {"queued", "invoking"}
    BY DEF AfterSave, InFlight, Terminal
  <2> QED BY <1>0, <2>1, <2>2, <2>3, <2>4
<1>3. /\ \A b \in Actor : b # a => pc'[b] = pc[b]
      /\ pc'[a] = after
  BY <1>1, <1>2 DEF Typed, TypeOK
<1>9. \A b \in Actor : job[b] # job[a] => fd'[b] = fd[b]
  BY DEF SaveReplace, Replace
<1>4. (Places /\ Quiet /\ ToReap)'
  <2>1. Places' BY <1>0, <1>1, <1>2, <1>3, Actors DEF InvParts, Places
  <2>2. server' = "up" BY <1>0, <1>1
  <2> QED BY <2>1, <2>2 DEF Quiet, ToReap
<1>5. LastWord'
  <2> SUFFICES ASSUME NEW r \in Record, pc'[r] \in {"write", "replace"}, rec'[r] \notin InFlight
               PROVE  tmp'[r] \notin InFlight
    BY DEF LastWord
  <2>1. CASE r = a BY <2>1, <1>2, <1>3
  <2>2. CASE r # a
    <3>1. tmp[r] \notin InFlight BY <2>2, <1>0, <1>3, Actors DEF InvParts, LastWord
    <3> QED BY <3>1, <1>0, <1>1, Contents DEF Typed, TypeOK, FilesTypeOK, InFlight
  <2> QED BY <2>1, <2>2
<1>6. \A r \in Record : Unlinking(r) => Unlinking(r)'
  BY <1>0, <1>1, <1>2, <1>3, Actors DEF Unlinking
<1>7. CASE a \in Deleter
  <2>1. Unlinking(job[a])' BY <1>0, <1>1, <1>2, <1>3, <1>7 DEF Unlinking
  <2>2. \A r \in Record : pc'[r] = pc[r] BY <1>3, <1>7, Actors
  <2>3. Swept'
    BY <1>0, <1>1, <1>3, <1>6, <1>9, <2>1, <2>2, Actors
       DEF InvParts, Swept, Displaced, Typed, TypeOK, FilesTypeOK, JobsOK
  <2>4. Kept'
    BY <1>0, <1>1, <1>6, <2>1, <2>2 DEF InvParts, Kept, Live, Typed, TypeOK, FilesTypeOK
  <2> QED BY <1>4, <1>5, <2>3, <2>4 DEF InvParts
<1>8. CASE a \in Record
  <2>1. \A r \in Record :
            r # a => pc'[r] = pc[r] /\ fd'[r] = fd[r] /\ tmp'[r] = tmp[r] /\ file'[r] = file[r]
    BY <1>0, <1>1, <1>3, <1>8, <1>9, Actors DEF Typed, TypeOK, FilesTypeOK, JobsOK
  <2>2. pc'[a] \in {"queued", "invoking", "finished"} BY <1>2, <1>3, <1>8
  <2>3. Swept' BY <1>6, <2>1, <2>2, <1>8 DEF InvParts, Swept, Displaced
  <2>4. file'[a] \in InFlight => Live(a)'
    <3>1. file'[a] = tmp[a] BY <1>0, <1>1, <1>8 DEF Typed, TypeOK, FilesTypeOK
    <3>2. tmp[a] \in InFlight => rec[a] \in InFlight BY <1>0, <1>8 DEF InvParts, LastWord
    <3> QED BY <3>1, <3>2, <1>2, <1>3, <1>8 DEF Live
  <2>5. Kept' BY <1>0, <1>6, <2>1, <2>4, <1>8 DEF InvParts, Kept, Live
  <2> QED BY <1>4, <1>5, <2>3, <2>5 DEF InvParts
<1> QED BY <1>7, <1>8

(* A worker whose .tmp was renamed away dies: the DELETE that renamed it   *)
(* still has to unlink what it published.                                  *)
LEMMA SaveFailsInv ==
    ASSUME Typed, InvParts, NEW a \in Record \cup Deleter, SaveFails(a) PROVE InvParts'
<1>0. /\ pc[a] = "replace" /\ tmp[job[a]] = NoFile
      /\ pc' = [pc EXCEPT ![a] = IF a \in Record THEN "dead" ELSE "idle"]
      /\ job' = [job EXCEPT ![a] = NoJobs[a]]
      /\ UNCHANGED <<file, tmp, fd, rec, server, todo>>
  BY DEF SaveFails, Goto, serverVars
<1>1. /\ a \in Actor /\ a # Reaper /\ server = "up"
      /\ a \in Record => job[a] = a
  BY <1>0, SaverUp DEF Saving
<1>2. \A b \in Actor : b # a => pc'[b] = pc[b] /\ job'[b] = job[b]
  BY <1>0
<1>3. \A r \in Record : Unlinking(r)' <=> Unlinking(r)
  BY <1>0, <1>1, <1>2, Actors DEF Unlinking, Typed, TypeOK, FilesTypeOK
<1>4. (Places /\ Quiet /\ ToReap)'
  BY <1>0, <1>1, <1>2, Actors DEF InvParts, Places, Quiet, ToReap, Typed, TypeOK, FilesTypeOK
<1>5. (LastWord /\ Swept)'
  BY <1>0, <1>1, <1>2, <1>3, Actors
     DEF InvParts, LastWord, Swept, Displaced, Typed, TypeOK, FilesTypeOK
<1>6. Kept'
  BY <1>0, <1>1, <1>2, <1>3, Actors DEF InvParts, Swept, Displaced, Kept, Live, Typed, TypeOK
<1> QED BY <1>4, <1>5, <1>6 DEF InvParts

LEMMA SaveInv ==
    ASSUME ~windows, Typed, InvParts, NEW a \in Record \cup Deleter, Save(a) PROVE InvParts'
<1>1. ~SaveRetry(a) BY DEF SaveRetry, ReplaceBlocked
<1>2. ~(SaveFallback(a) \/ SaveRewrite(a) \/ SaveCleanup(a))
  BY SaverUp DEF SaveFallback, SaveRewrite, SaveCleanup, Saving
<1> QED BY <1>1, <1>2, SaveOpenInv, SaveWriteInv, SaveReplaceInv, SaveFailsInv DEF Save

LEMMA WorkerInv ==
    ASSUME Typed, InvParts, NEW r \in Record, Create(r) \/ Begin(r) \/ Invoke(r)
    PROVE  InvParts'
<1>0. /\ pc' = [pc EXCEPT ![r] = "open"] /\ pc[r] \in {"idle", "queued", "invoking"}
      /\ \E s \in Status : rec' = [rec EXCEPT ![r] = s]
      /\ UNCHANGED <<file, tmp, job, fd, server, todo>>
  BY DEF Create, Begin, Invoke, StartSave, Goto, fileVars, serverVars, Status, InFlight, Terminal
<1>1. r \in Actor /\ server = "up" /\ pc'[r] = "open"
      /\ \A b \in Actor : b # r => pc'[b] = pc[b] /\ rec'[b] = rec[b]
  BY <1>0, Actors DEF Create, Begin, Invoke, StartSave, InvParts, Quiet, Typed, TypeOK
<1>2. \A x \in Record : Unlinking(x)' <=> Unlinking(x)
  BY <1>0, <1>1, Actors DEF Unlinking
<1>3. Places' BY <1>0, <1>1, Actors DEF InvParts, Places
<1>4. (Quiet /\ ToReap)' BY <1>0, <1>1 DEF Quiet, ToReap
<1>5. (LastWord /\ Swept)'
  BY <1>0, <1>1, <1>2, Actors DEF InvParts, LastWord, Swept, Displaced
<1>6. Kept' BY <1>0, <1>1, <1>2, Actors DEF InvParts, Kept, Live, Saving
<1> QED BY <1>3, <1>4, <1>5, <1>6 DEF InvParts

LEMMA BeginDeleteInv ==
    ASSUME Typed, InvParts, NEW d \in Deleter, NEW r \in Record, BeginDelete(d, r)
    PROVE  InvParts'
<1>0. /\ server = "up" /\ pc[d] = "idle"
      /\ job' = [job EXCEPT ![d] = r]
      /\ \/ pc' = [pc EXCEPT ![d] = "open"] /\ rec' = [rec EXCEPT ![d] = "cancelled"]
         \/ pc' = [pc EXCEPT ![d] = "unlink"] /\ UNCHANGED rec
      /\ UNCHANGED <<file, tmp, fd, server, todo>>
  BY DEF BeginDelete, Goto, serverVars
<1>1. /\ d \in Actor
      /\ pc'[d] \in {"open", "unlink"} /\ job'[d] = r /\ (pc'[d] = "open" => rec'[d] = "cancelled")
      /\ \A b \in Actor : b # d => pc'[b] = pc[b] /\ rec'[b] = rec[b] /\ job'[b] = job[b]
  BY <1>0, Actors DEF Typed, TypeOK, FilesTypeOK
<1>2. \A x \in Record : Unlinking(x) => Unlinking(x)'
  BY <1>0, <1>1, Actors DEF Unlinking
<1>3. Places' BY <1>0, <1>1, Actors DEF InvParts, Places
<1>4. (Quiet /\ ToReap)' BY <1>0 DEF Quiet, ToReap
<1>5. (LastWord /\ Swept /\ Kept)'
  BY <1>0, <1>1, <1>2, Actors DEF InvParts, LastWord, Swept, Displaced, Kept, Live
<1> QED BY <1>3, <1>4, <1>5 DEF InvParts

(* The unlink removes the record, so nothing needs sweeping any more, and  *)
(* a worker writing through a handle on it writes into the void.           *)
LEMMA FinishDeleteInv ==
    ASSUME ~windows, Typed, InvParts, NEW d \in Deleter, FinishDelete(d) PROVE InvParts'
<1> DEFINE x == job[d]
<1>0. /\ pc[d] = "unlink" /\ pc' = [pc EXCEPT ![d] = "idle"]
      /\ job' = [job EXCEPT ![d] = NoRecord]
      /\ file' = [file EXCEPT ![x] = NoFile]
      /\ UNCHANGED <<tmp, rec, server, todo>>
  BY DEF FinishDelete, UnlinkFile, Goto, serverVars
<1>1. /\ d \in Actor /\ x \in Record /\ server = "up"
      /\ pc'[d] = "idle"
      /\ \A b \in Actor : b # d => pc'[b] = pc[b] /\ job'[b] = job[b]
      /\ \A b \in Actor : fd'[b] = IF job[b] = x /\ fd[b] = "file" THEN "unlinked" ELSE fd[b]
      /\ file'[x] = NoFile /\ \A r \in Record : r # x => file'[r] = file[r]
  BY <1>0, Actors DEF FinishDelete, UnlinkFile, Typed, TypeOK, FilesTypeOK, JobsOK, Working, InvParts, Quiet
<1>2. \A r \in Record : r # x => (Unlinking(r) => Unlinking(r)')
  BY <1>0, <1>1, Actors DEF Unlinking
<1>3. Places' BY <1>0, <1>1, Actors DEF InvParts, Places
<1>4. (Quiet /\ ToReap)' BY <1>0, <1>1 DEF Quiet, ToReap
<1>5. LastWord' BY <1>0, <1>1, Actors DEF InvParts, LastWord
<1>6. \A r \in Record : job[r] = r /\ r \in Actor /\ r # d /\ pc'[r] = pc[r]
  BY <1>1, Actors DEF Typed, JobsOK
<1>7. file'[x] \notin InFlight BY <1>1, Contents DEF InFlight
<1>8. Swept'
  BY <1>0, <1>1, <1>2, <1>6, <1>7 DEF InvParts, Swept, Displaced
<1>9. Kept' BY <1>0, <1>1, <1>2, <1>6, <1>7 DEF InvParts, Kept, Live
<1> QED BY <1>3, <1>4, <1>5, <1>8, <1>9 DEF InvParts

LEMMA PollInv ==
    ASSUME Typed, InvParts, NEW p \in Poller, Poll(p) PROVE InvParts'
<1>0. /\ \E s \in {"reading", "idle"} : pc' = [pc EXCEPT ![p] = s]
      /\ \E r \in Record \cup {NoRecord} : job' = [job EXCEPT ![p] = r]
      /\ \E h \in {"file", "closed"} : fd' = [fd EXCEPT ![p] = h]
      /\ UNCHANGED <<file, tmp, rec, server, todo>>
  BY DEF Poll, PollOpen, PollClose, Goto, serverVars
<1>1. /\ p \in Actor /\ pc'[p] \in {"reading", "idle"}
      /\ \A b \in Actor : b # p => pc'[b] = pc[b] /\ job'[b] = job[b] /\ fd'[b] = fd[b]
  BY <1>0, Actors DEF Typed, TypeOK, FilesTypeOK
<1>2. \A x \in Record : Unlinking(x)' <=> Unlinking(x)
  BY <1>0, <1>1, Actors DEF Unlinking
<1>3. (Places /\ Quiet /\ ToReap)'
  BY <1>0, <1>1, Actors DEF InvParts, Places, Quiet, ToReap
<1>4. (LastWord /\ Swept /\ Kept)'
  BY <1>0, <1>1, <1>2, Actors DEF InvParts, LastWord, Swept, Displaced, Kept, Live
<1> QED BY <1>3, <1>4 DEF InvParts

(* A crash leaves files and no threads; nothing is promised until a boot.  *)
LEMMA CrashInv == ASSUME Typed, InvParts, Crash PROVE InvParts'
<1>1. /\ server' = "down"
      /\ \A r \in Record : pc'[r] \in {"idle", "finished", "dead"}
      /\ \A a \in Actor \ Record : pc'[a] = "idle"
  BY Actors DEF Crash, InvParts, Places
<1>2. Places' BY <1>1, Actors DEF Places
<1>3. (Quiet /\ ToReap /\ LastWord /\ Swept /\ Kept)'
  BY <1>1, Actors DEF Quiet, ToReap, LastWord, Swept, Displaced, Kept
<1> QED BY <1>2, <1>3 DEF InvParts

(* Booting: the reaper visits every record there is, and the server        *)
(* accepts requests only when it is through.                               *)
LEMMA BootInv ==
    ASSUME Typed, InvParts, Boot \/ Reap \/ BootDone PROVE InvParts'
<1> USE Actors DEF Typed, TypeOK, FilesTypeOK, JobsOK
<1>1. CASE Boot
  <2>1. server' = "booting" /\ UNCHANGED <<pc, rec, job, file, tmp, fd>>
    BY <1>1 DEF Boot, fileVars
  <2>2. (Places /\ Quiet)' BY <1>1, <2>1 DEF Boot, InvParts, Places, Quiet
  <2>3. ToReap' BY <1>1, <2>1, Contents DEF Boot, ToReap, InFlight
  <2>4. (LastWord /\ Swept /\ Kept)'
    BY <2>1, <2>2 DEF Quiet, LastWord, Swept, Displaced, Kept
  <2> QED BY <2>2, <2>3, <2>4 DEF InvParts
<1>2. ASSUME NEW r \in Record, ReapSkip(r) PROVE InvParts'
  <2>1. /\ server = "booting" /\ file[r] \notin InFlight /\ todo' = todo \ {r}
        /\ UNCHANGED <<pc, rec, job, file, tmp, fd, server>>
    BY <1>2 DEF ReapSkip, fileVars
  <2>2. (Places /\ Quiet /\ ToReap)' BY <2>1 DEF InvParts, Places, Quiet, ToReap
  <2>3. (LastWord /\ Swept /\ Kept)' BY <2>1, <2>2 DEF Quiet, LastWord, Swept, Displaced, Kept
  <2> QED BY <2>2, <2>3 DEF InvParts
<1>3. ASSUME NEW r \in Record, ReapOpen(r) PROVE InvParts'
  <2>1. /\ server = "booting" /\ pc' = [pc EXCEPT ![Reaper] = "write"]
        /\ job' = [job EXCEPT ![Reaper] = r] /\ rec' = [rec EXCEPT ![Reaper] = "error"]
        /\ file' = [file EXCEPT ![r] = Empty] /\ UNCHANGED <<server, todo>>
    BY <1>3 DEF ReapOpen, Goto, serverVars
  <2>2. /\ pc'[Reaper] = "write" /\ rec'[Reaper] = "error" /\ job'[Reaper] = r
        /\ \A b \in Actor \ {Reaper} : pc'[b] = pc[b] /\ rec'[b] = rec[b] /\ job'[b] = job[b]
    BY <2>1
  <2>3. (Places /\ Quiet)' BY <2>1, <2>2 DEF InvParts, Places, Quiet
  <2>4. ToReap' BY <2>1, Contents DEF InvParts, ToReap, InFlight
  <2>5. (LastWord /\ Swept /\ Kept)' BY <2>1, <2>3 DEF Quiet, LastWord, Swept, Displaced, Kept
  <2> QED BY <2>3, <2>4, <2>5 DEF InvParts
<1>4. CASE ReapWrite
  <2>1. /\ server = "booting" /\ rec[Reaper] = "error" /\ job[Reaper] \in Record
        /\ pc' = [pc EXCEPT ![Reaper] = "idle"] /\ todo' = todo \ {job[Reaper]}
        /\ file' = [file EXCEPT ![job[Reaper]] = "error"]
        /\ job' = [job EXCEPT ![Reaper] = NoRecord]
        /\ UNCHANGED <<rec, server>>
    BY <1>4 DEF ReapWrite, Goto, InvParts, Places
  <2>2. pc'[Reaper] = "idle" /\ \A b \in Actor \ {Reaper} : pc'[b] = pc[b] /\ job'[b] = job[b]
    BY <2>1
  <2>3. (Places /\ Quiet)' BY <2>1, <2>2 DEF InvParts, Places, Quiet
  <2>4. ToReap' BY <2>1 DEF InvParts, ToReap, InFlight
  <2>5. (LastWord /\ Swept /\ Kept)' BY <2>1, <2>3 DEF Quiet, LastWord, Swept, Displaced, Kept
  <2> QED BY <2>3, <2>4, <2>5 DEF InvParts
<1>5. CASE BootDone
  <2>1. /\ server = "booting" /\ server' = "up" /\ pc[Reaper] = "idle"
        /\ UNCHANGED <<pc, rec, job, file, tmp, fd>>
        /\ \A r \in Record : file[r] \notin InFlight
    BY <1>5 DEF BootDone, fileVars, InvParts, ToReap
  <2>2. (Places /\ Quiet /\ ToReap)' BY <2>1 DEF InvParts, Places, Quiet, ToReap
  <2>3. (LastWord /\ Swept /\ Kept)'
    BY <2>1 DEF InvParts, Quiet, LastWord, Swept, Displaced, Kept
  <2> QED BY <2>2, <2>3 DEF InvParts
<1> QED BY <1>1, <1>2, <1>3, <1>4, <1>5 DEF Reap

LEMMA NextInv == ~windows /\ Typed /\ InvParts /\ [Next]_vars => InvParts'
<1> SUFFICES ASSUME ~windows, Typed, InvParts, [Next]_vars PROVE InvParts' OBVIOUS
<1>1. ASSUME NEW r \in Record, Worker(r) PROVE InvParts'
  BY <1>1, WorkerInv, SaveInv DEF Worker
<1>2. ASSUME NEW d \in Deleter, Delete(d) PROVE InvParts'
  BY <1>2, BeginDeleteInv, FinishDeleteInv, SaveInv DEF Delete
<1>3. CASE UNCHANGED vars
  BY <1>3 DEF vars, fileVars, InvParts, Places, Quiet, ToReap, LastWord, Swept, Displaced, Kept, Unlinking, Live
<1> QED BY <1>1, <1>2, <1>3, PollInv, CrashInv, BootInv DEF Next

(* The platform does not change under the server. *)
LEMMA PlatformStays == [Next]_vars => windows' = windows
<1> USE DEF fileVars
<1>1. ASSUME NEW a \in Actor, Save(a) PROVE windows' = windows
  BY <1>1 DEF Save, SaveOpen, SaveWrite, SaveReplace, SaveRetry, SaveFails, SaveFallback,
              SaveRewrite, SaveCleanup, OpenTmp, OpenFile, WriteOut, Replace, UnlinkTmp
<1>2. ASSUME NEW r \in Record, Worker(r) PROVE windows' = windows
  BY <1>1, <1>2, Actors DEF Worker, Create, Begin, Invoke, StartSave
<1>3. ASSUME NEW d \in Deleter, Delete(d) PROVE windows' = windows
  BY <1>1, <1>3, Actors DEF Delete, BeginDelete, FinishDelete, UnlinkFile
<1>4. ASSUME NEW p \in Poller, Poll(p) PROVE windows' = windows
  BY <1>4 DEF Poll, PollOpen, PollClose
<1>5. ASSUME Crash \/ Boot \/ Reap \/ BootDone PROVE windows' = windows
  BY <1>5 DEF Crash, Boot, Reap, ReapSkip, ReapOpen, ReapWrite, BootDone
<1> QED BY <1>2, <1>3, <1>4, <1>5 DEF Next, vars

(* On POSIX, for any number of tasks and request threads and any number of *)
(* crashes: while the server accepts requests, a task that is still in     *)
(* flight on disk has a worker, or a DELETE that is about to remove it.    *)
(* The invariant rests on two facts about the shared .tmp: a saver can     *)
(* displace another only by a rename that takes it to its own unlink       *)
(* (Swept), and a worker's last word is never an earlier one (LastWord).   *)
THEOREM AttendedAlways == Spec => []Attended
<1> DEFINE Inv == Typed /\ (~windows => InvParts)
<1>1. Init => Inv BY InitTyped, InitInv
<1>2. Inv /\ [Next]_vars => Inv' BY NextTyped, NextInv, PlatformStays
<1>3. Inv => Attended
  BY DEF InvParts, Kept, Unlinking, Attended, Deleting
<1> HIDE DEF Inv
<1> QED BY <1>1, <1>2, <1>3, PTL DEF Spec

-----------------------------------------------------------------------------
(* The promise of TaskLifecycle, on every platform. *)

Own == Status \ {"cancelled"}

(* What the record said before the save in progress. *)
Before(status) ==
    IF status = "pending" THEN NoFile ELSE IF status = "running" THEN "pending" ELSE "running"

(* Nobody but its worker and the reaper touches a record no DELETE was     *)
(* asked for, so every step of a save finds what the step before left.     *)
Mine(r) ==
    /\ \A d \in Deleter : job[d] # r
    /\ rec[r] \in Own
    /\ pc[r] \in {"idle", "open", "write", "replace", "fallback", "rewrite", "cleanup",
                  "queued", "invoking", "finished", "dead"}
    /\ pc[r] = "idle" => file[r] = NoFile
    /\ pc[r] \in {"open", "write", "replace", "fallback"} => file[r] = Before(rec[r])
    /\ pc[r] = "write" => fd[r] = "tmp" /\ tmp[r] = Empty
    /\ pc[r] = "replace" => tmp[r] = rec[r]
    /\ pc[r] = "rewrite" => fd[r] = "file" /\ file[r] = Empty
    /\ pc[r] = "cleanup" => file[r] = rec[r]
    /\ pc[r] = "queued" => file[r] = "pending"
    /\ pc[r] = "invoking" => file[r] = "running"
    /\ pc[r] = "finished" => file[r] = rec[r] /\ rec[r] \in {"done", "error"}
    /\ pc[r] = "dead" => file[r] \in Own \cup {NoFile, Empty}
    /\ job[Reaper] = r => pc[r] = "dead" /\ file[r] = Empty

(* The reaper, and the threads of a server that is not up. *)
Restart ==
    /\ pc[Reaper] \in {"idle", "write"}
    /\ pc[Reaper] = "idle" <=> job[Reaper] = NoRecord
    /\ pc[Reaper] = "write" => server = "booting" /\ rec[Reaper] = "error"
    /\ \A p \in Poller : pc[p] \in {"idle", "reading"}
    /\ \A r \in Record : server # "up" => pc[r] \in {"idle", "finished", "dead"}
    /\ \A d \in Deleter : server # "up" => pc[d] = "idle"
    /\ \A d \in Deleter : pc[d] = "idle" => job[d] = NoRecord

Alone == Restart /\ \A r \in Record \ asked : Mine(r)

LEMMA InitAlone == Init => Alone
<1> SUFFICES ASSUME Init PROVE Alone OBVIOUS
<1>1. /\ \A a \in Actor : pc[a] = "idle" /\ rec[a] = "pending" /\ job[a] = NoJobs[a]
      /\ \A r \in Record : file[r] = NoFile
  BY DEF Init, FilesInit
<1>2. \A a \in Actor \ Record : job[a] = NoRecord BY <1>1 DEF NoJobs
<1>3. Restart BY <1>1, <1>2, Actors DEF Restart, Init
<1>4. ASSUME NEW r \in Record PROVE Mine(r)
  BY <1>1, <1>2, Actors DEF Mine, Own, Status, InFlight, Terminal
<1> QED BY <1>3, <1>4 DEF Alone

(* A saver leaves the files and handles of other records alone. *)
LEMMA SaveElsewhere ==
    ASSUME Typed, NEW a \in Record \cup Deleter, Save(a), NEW r \in Record, r # a, job[a] # r
    PROVE  UNCHANGED <<file[r], tmp[r], fd[r], pc[r], rec[r], job[r]>>
<1> USE Actors DEF Typed, TypeOK, FilesTypeOK, JobsOK, Goto, serverVars, fileVars
<1>0. a \in Actor /\ r \in Actor /\ job[r] = r OBVIOUS
<1>1. CASE SaveOpen(a) BY <1>0, <1>1 DEF SaveOpen, OpenTmp
<1>2. CASE SaveWrite(a) BY <1>0, <1>2 DEF SaveWrite, WriteOut
<1>3. CASE SaveReplace(a) BY <1>0, <1>3 DEF SaveReplace, Replace
<1>4. CASE SaveRetry(a) BY <1>0, <1>4 DEF SaveRetry
<1>5. CASE SaveFails(a) BY <1>0, <1>5 DEF SaveFails
<1>6. CASE SaveFallback(a) BY <1>0, <1>6 DEF SaveFallback, OpenFile
<1>7. CASE SaveRewrite(a) BY <1>0, <1>7 DEF SaveRewrite, WriteOut
<1>8. CASE SaveCleanup(a) BY <1>0, <1>8 DEF SaveCleanup, UnlinkTmp
<1> QED BY <1>1, <1>2, <1>3, <1>4, <1>5, <1>6, <1>7, <1>8 DEF Save

(* What every step of a save leaves as it is. *)
LEMMA SaveFrame ==
    ASSUME Typed, NEW a \in Record \cup Deleter, Save(a)
    PROVE  /\ UNCHANGED <<rec, asked, server>>
           /\ \A b \in Actor : b # a => pc'[b] = pc[b] /\ job'[b] = job[b]
           /\ job'[a] \in {job[a], NoJobs[a]}
           /\ pc[a] \in Saving
           /\ pc'[a] = "idle" => a \in Deleter /\ job'[a] = NoRecord
<1> USE Actors DEF Typed, TypeOK, FilesTypeOK, JobsOK, Goto, serverVars, fileVars, Saving
<1>0. a \in Actor /\ AfterSave(a) # "idle"
  BY DEF AfterSave, Status, InFlight, Terminal
<1>1. CASE SaveOpen(a) BY <1>0, <1>1 DEF SaveOpen, OpenTmp
<1>2. CASE SaveWrite(a) BY <1>0, <1>2 DEF SaveWrite
<1>3. CASE SaveReplace(a) BY <1>0, <1>3 DEF SaveReplace
<1>4. CASE SaveRetry(a) BY <1>0, <1>4 DEF SaveRetry
<1>5. CASE SaveFails(a) BY <1>0, <1>5 DEF SaveFails, NoJobs
<1>6. CASE SaveFallback(a) BY <1>0, <1>6 DEF SaveFallback, OpenFile
<1>7. CASE SaveRewrite(a) BY <1>0, <1>7 DEF SaveRewrite
<1>8. CASE SaveCleanup(a) BY <1>0, <1>8 DEF SaveCleanup, UnlinkTmp
<1> QED BY <1>1, <1>2, <1>3, <1>4, <1>5, <1>6, <1>7, <1>8 DEF Save

(* A step of the worker's own save. *)
LEMMA SaveOwn ==
    ASSUME Typed, Alone, NEW r \in Record \ asked, Save(r)
    PROVE  /\ Mine(r)'
           /\ \/ file'[r] = file[r]
              \/ file[r] = Before(rec[r]) /\ file'[r] = Empty /\ pc'[r] = "rewrite"
              \/ file[r] = Before(rec[r]) /\ file'[r] = rec[r]
              \/ pc[r] = "rewrite" /\ file[r] = Empty /\ file'[r] = rec[r]
<1>0. /\ r \in Actor /\ job[r] = r /\ Mine(r) /\ rec[r] \in Own /\ r \notin Deleter /\ r # Reaper
  BY Actors DEF Typed, JobsOK, Alone, Mine
<1>1. /\ UNCHANGED <<rec, asked, server>>
      /\ \A b \in Actor : b # r => pc'[b] = pc[b] /\ job'[b] = job[b]
      /\ pc[r] \in Saving
  BY SaveFrame
<1>2. /\ \A d \in Deleter : job'[d] # r
      /\ job'[Reaper] # r
  BY <1>0, <1>1, Actors DEF Mine, Saving
<1>3. /\ AfterSave(r) \in {"queued", "invoking", "finished"}
      /\ AfterSave(r) = "queued" => rec[r] = "pending"
      /\ AfterSave(r) = "invoking" => rec[r] = "running"
      /\ AfterSave(r) = "finished" => rec[r] \in {"done", "error"}
  BY <1>0 DEF AfterSave, Own, Status, InFlight, Terminal
<1> USE <1>0, <1>1, <1>2, <1>3 DEF Typed, TypeOK, FilesTypeOK, Goto, serverVars, fileVars
<1>4. CASE SaveOpen(r) BY <1>4 DEF SaveOpen, OpenTmp, Mine
<1>5. CASE SaveWrite(r)
  <2>1. fd[r] = "tmp" /\ tmp[r] = Empty /\ pc[r] = "write" BY <1>5 DEF SaveWrite, Mine
  <2>2. tmp' = [tmp EXCEPT ![r] = rec[r]] /\ UNCHANGED file /\ pc' = [pc EXCEPT ![r] = "replace"]
    BY <1>5, <2>1 DEF SaveWrite, WriteOut, Overlay
  <2> QED BY <2>1, <2>2 DEF Mine
<1>6. CASE SaveReplace(r)
  <2>1. /\ pc[r] = "replace" /\ tmp[r] = rec[r] /\ file[r] = Before(rec[r])
        /\ pc' = [pc EXCEPT ![r] = AfterSave(r)]
        /\ file' = [file EXCEPT ![r] = tmp[r]]
    BY <1>6 DEF SaveReplace, Replace, Mine
  <2>2. file'[r] = rec[r] /\ pc'[r] = AfterSave(r) BY <2>1
  <2> QED BY <2>1, <2>2 DEF Mine
<1>7. CASE SaveRetry(r) BY <1>7 DEF SaveRetry, Mine
<1>8. CASE SaveFails(r) BY <1>8, Contents DEF SaveFails, Mine, Own
<1>9. CASE SaveFallback(r) BY <1>9 DEF SaveFallback, OpenFile, Mine
<1>10. CASE SaveRewrite(r)
  <2>1. fd[r] = "file" /\ file[r] = Empty /\ pc[r] = "rewrite" BY <1>10 DEF SaveRewrite, Mine
  <2>2. file' = [file EXCEPT ![r] = rec[r]] /\ pc' = [pc EXCEPT ![r] = "cleanup"]
    BY <1>10, <2>1 DEF SaveRewrite, WriteOut, Overlay
  <2> QED BY <2>1, <2>2 DEF Mine
<1>11. CASE SaveCleanup(r)
  <2>1. pc[r] = "cleanup" /\ file[r] = rec[r] /\ UNCHANGED file
        /\ pc' = [pc EXCEPT ![r] = AfterSave(r)]
    BY <1>11 DEF SaveCleanup, UnlinkTmp, Mine
  <2> QED BY <2>1 DEF Mine
<1> QED BY <1>4, <1>5, <1>6, <1>7, <1>8, <1>9, <1>10, <1>11 DEF Save

(* Mine depends on nothing but these. *)
LEMMA MineKept ==
    ASSUME NEW r \in Record, Mine(r),
           UNCHANGED <<file[r], tmp[r], fd[r], pc[r], rec[r]>>,
           \A d \in Deleter : job'[d] # r, job'[Reaper] = r => job[Reaper] = r
    PROVE  Mine(r)'
BY DEF Mine


LEMMA SaveAlone ==
    ASSUME Typed, Alone, NEW a \in Record \cup Deleter, Save(a) PROVE Alone'
<1> USE SaveFrame, Actors DEF Typed, TypeOK, JobsOK, FilesTypeOK
<1>0. /\ a \in Actor /\ a # Reaper /\ a \notin Poller /\ Restart
      /\ pc[a] \in Saving /\ server' = server
      /\ \A b \in Actor : b # a => pc'[b] = pc[b] /\ job'[b] = job[b]
      /\ pc'[a] = "idle" => a \in Deleter /\ job'[a] = NoRecord
      /\ UNCHANGED rec
  BY DEF Alone
<1>6. server = "up"
  <2>1. pc[a] \notin {"idle", "finished", "dead"} BY <1>0 DEF Saving
  <2> QED BY <1>0, <2>1 DEF Restart
<1>1. Restart'
  <2>1. \A p \in Poller : p # a /\ pc'[p] = pc[p] BY <1>0
  <2>2. pc'[Reaper] = pc[Reaper] /\ job'[Reaper] = job[Reaper] BY <1>0
  <2>3. \A d \in Deleter : pc'[d] = "idle" => job'[d] = NoRecord BY <1>0 DEF Restart
  <2> QED BY <1>0, <1>6, <2>1, <2>2, <2>3 DEF Restart
<1>2. ASSUME NEW r \in Record, r \notin asked PROVE Mine(r)'
  <2>1. CASE r = a BY <1>2, <2>1, SaveOwn
  <2>2. CASE r # a
    <3>1. job[a] # r BY <1>2, <2>2 DEF Alone, Mine
    <3>2. UNCHANGED <<file[r], tmp[r], fd[r], pc[r], rec[r]>> BY <2>2, <3>1, SaveElsewhere
    <3>3. Mine(r) BY <1>2 DEF Alone
    <3>4. \A d \in Deleter : job'[d] # r
      <4>1. a \in Deleter => NoJobs[a] = NoRecord BY <1>0 DEF NoJobs
      <4>2. \A d \in Deleter : job[d] # r BY <3>3 DEF Mine
      <4>3. job'[a] \in {job[a], NoJobs[a]} BY SaveFrame
      <4> QED BY <1>0, <3>1, <4>1, <4>2, <4>3
    <3>5. job'[Reaper] = job[Reaper] OBVIOUS
    <3> QED BY <3>2, <3>3, <3>4, <3>5, MineKept
  <2> QED BY <2>1, <2>2
<1>3. asked' = asked OBVIOUS
<1> QED BY <1>1, <1>2, <1>3 DEF Alone

LEMMA WorkerAlone ==
    ASSUME Typed, Alone, NEW x \in Record, Create(x) \/ Begin(x) \/ Invoke(x)
    PROVE  Alone' /\ UNCHANGED <<file, job, asked>> /\ pc[x] # "rewrite" /\ pc'[x] # "rewrite"
           /\ \A r \in Record : r # x => pc'[r] = pc[r] /\ rec'[r] = rec[r]
<1>0. /\ pc' = [pc EXCEPT ![x] = "open"] /\ pc[x] \in {"idle", "queued", "invoking"}
      /\ UNCHANGED <<file, tmp, job, fd, server, asked>>
      /\ \/ pc[x] = "idle" /\ rec' = [rec EXCEPT ![x] = "pending"] /\ server = "up"
         \/ pc[x] = "queued" /\ rec' = [rec EXCEPT ![x] = "running"]
         \/ pc[x] = "invoking" /\ \E s \in {"done", "error"} : rec' = [rec EXCEPT ![x] = s]
  BY DEF Create, Begin, Invoke, StartSave, Goto, fileVars, serverVars
<1>1. /\ x \in Actor /\ x \notin Deleter /\ x # Reaper /\ x \notin Poller /\ pc'[x] = "open"
      /\ \A b \in Actor : b # x => pc'[b] = pc[b] /\ rec'[b] = rec[b]
      /\ rec'[x] \in Own
  BY <1>0, Actors DEF Typed, TypeOK, Own, Status, InFlight, Terminal
<1>2. server = "up" BY <1>0 DEF Alone, Restart
<1>3. Restart' BY <1>0, <1>1, <1>2, Actors DEF Alone, Restart
<1>4. ASSUME NEW r \in Record, r \notin asked PROVE Mine(r)'
  <2>1. CASE r = x
    <3>1. file[x] = Before(rec'[x])
      BY <1>0, <1>1, <1>4, <2>1 DEF Alone, Mine, Before, Typed, TypeOK
    <3> QED BY <1>0, <1>1, <1>4, <2>1, <3>1 DEF Alone, Mine
  <2>2. CASE r # x BY <1>0, <1>1, <1>4, <2>2, Actors, MineKept DEF Alone, Mine
  <2> QED BY <2>1, <2>2
<1> QED BY <1>0, <1>1, <1>3, <1>4, Actors DEF Alone

LEMMA BeginDeleteAlone ==
    ASSUME Typed, Alone, NEW d \in Deleter, NEW x \in Record, BeginDelete(d, x)
    PROVE  /\ Alone' /\ UNCHANGED file /\ asked' = asked \cup {x} /\ file[x] \in Status
           /\ job'[Reaper] = job[Reaper]
           /\ \A r \in Record : pc'[r] = pc[r] /\ rec'[r] = rec[r]
<1>0. /\ pc[d] = "idle" /\ file[x] \in Status
      /\ job' = [job EXCEPT ![d] = x] /\ asked' = asked \cup {x}
      /\ \/ pc' = [pc EXCEPT ![d] = "open"] /\ rec' = [rec EXCEPT ![d] = "cancelled"]
         \/ pc' = [pc EXCEPT ![d] = "unlink"] /\ UNCHANGED rec
      /\ UNCHANGED <<file, tmp, fd, server>> /\ server = "up"
  BY DEF BeginDelete, Goto
<1>1. /\ d \in Actor /\ pc'[d] # "idle" /\ job'[d] = x
      /\ \A b \in Actor : b # d => pc'[b] = pc[b] /\ job'[b] = job[b] /\ rec'[b] = rec[b]
  BY <1>0, Actors DEF Typed, TypeOK, FilesTypeOK
<1>2. Restart' BY <1>0, <1>1, Actors DEF Alone, Restart
<1>3. ASSUME NEW r \in Record, r \notin asked' PROVE Mine(r)'
  <2>1. r # x /\ Mine(r) BY <1>0, <1>3 DEF Alone
  <2>2. \A e \in Deleter : job'[e] # r BY <1>0, <1>1, <2>1, Actors DEF Mine
  <2>3. job'[Reaper] = job[Reaper] BY <1>1, Actors
  <2> QED BY <1>0, <1>1, <2>1, <2>2, <2>3, Actors, MineKept
<1> QED BY <1>0, <1>1, <1>2, <1>3, Actors DEF Alone

LEMMA FinishDeleteAlone ==
    ASSUME Typed, Alone, NEW d \in Deleter, FinishDelete(d)
    PROVE  /\ Alone' /\ UNCHANGED asked /\ job'[Reaper] = job[Reaper]
           /\ \A r \in Record \ asked : file'[r] = file[r] /\ pc'[r] = pc[r] /\ rec'[r] = rec[r]
<1>0. /\ pc[d] = "unlink" /\ pc' = [pc EXCEPT ![d] = "idle"]
      /\ job' = [job EXCEPT ![d] = NoRecord]
      /\ UNCHANGED <<tmp, rec, server, asked>>
  BY DEF FinishDelete, UnlinkFile, Goto, serverVars
<1>1. /\ d \in Actor /\ pc'[d] = "idle" /\ job'[d] = NoRecord
      /\ \A b \in Actor : b # d => pc'[b] = pc[b] /\ job'[b] = job[b]
      /\ job[d] \in Record
  BY <1>0, Actors DEF Typed, TypeOK, FilesTypeOK, JobsOK, Working
<1>2. ASSUME NEW r \in Record \ asked PROVE job[d] # r
  <2>1. Mine(r) BY DEF Alone
  <2> QED BY <2>1 DEF Mine
<1>3. ASSUME NEW r \in Record \ asked PROVE file'[r] = file[r] /\ fd'[r] = fd[r]
  <2>1. job[r] = r /\ r \in Actor BY Actors DEF Typed, JobsOK
  <2> QED BY <1>1, <1>2, <1>3, <2>1 DEF FinishDelete, UnlinkFile, Typed, TypeOK, FilesTypeOK
<1>4. Restart' BY <1>0, <1>1, Actors DEF Alone, Restart
<1>5. ASSUME NEW r \in Record \ asked PROVE Mine(r)'
  <2>1. Mine(r) BY DEF Alone
  <2>2. \A e \in Deleter : job'[e] # r BY <1>1, <2>1, Actors DEF Mine
  <2>3. job'[Reaper] = job[Reaper] BY <1>1, Actors
  <2> QED BY <1>0, <1>1, <1>3, <2>1, <2>2, <2>3, Actors, MineKept
<1> QED BY <1>0, <1>1, <1>3, <1>4, <1>5, Actors DEF Alone

LEMMA PollAlone ==
    ASSUME Typed, Alone, NEW p \in Poller, Poll(p)
    PROVE  /\ Alone' /\ UNCHANGED <<asked, file>> /\ job'[Reaper] = job[Reaper]
           /\ \A r \in Record : pc'[r] = pc[r] /\ rec'[r] = rec[r]
<1>0. /\ \E s \in {"reading", "idle"} : pc' = [pc EXCEPT ![p] = s]
      /\ \E r \in Record \cup {NoRecord} : job' = [job EXCEPT ![p] = r]
      /\ \E h \in {"file", "closed"} : fd' = [fd EXCEPT ![p] = h]
      /\ UNCHANGED <<file, tmp, rec, server, asked>>
  BY DEF Poll, PollOpen, PollClose, Goto, serverVars
<1>1. /\ p \in Actor /\ pc'[p] \in {"reading", "idle"}
      /\ \A b \in Actor : b # p => pc'[b] = pc[b] /\ job'[b] = job[b] /\ fd'[b] = fd[b]
  BY <1>0, Actors DEF Typed, TypeOK, FilesTypeOK
<1>2. Restart' BY <1>0, <1>1, Actors DEF Alone, Restart
<1>3. ASSUME NEW r \in Record \ asked PROVE Mine(r)'
  BY <1>0, <1>1, Actors, MineKept DEF Alone, Mine
<1> QED BY <1>0, <1>1, <1>2, <1>3, Actors DEF Alone

LEMMA CrashAlone == ASSUME Typed, Alone, Crash PROVE Alone' /\ UNCHANGED <<asked, file, rec>>
<1>1. /\ server' = "down" /\ UNCHANGED <<asked, file, rec>> /\ job' = NoJobs
      /\ \A r \in Record : pc'[r] = IF pc[r] \in {"idle", "finished"} THEN pc[r] ELSE "dead"
      /\ \A a \in Actor \ Record : pc'[a] = "idle" /\ job'[a] = NoRecord
  BY Actors DEF Crash, NoJobs
<1>2. Restart' BY <1>1, Actors DEF Restart
<1>3. ASSUME NEW r \in Record \ asked PROVE Mine(r)'
  BY <1>1, Actors DEF Alone, Mine, Own, Before, Status, InFlight, Terminal
<1> QED BY <1>1, <1>2, <1>3 DEF Alone

LEMMA BootAlone ==
    ASSUME Typed, Alone, Boot \/ BootDone \/ (\E x \in Record : ReapSkip(x))
    PROVE  Alone' /\ UNCHANGED <<asked, file, pc, job, rec>>
<1>1. /\ UNCHANGED <<asked, file, tmp, fd, pc, job, rec>>
      /\ server # "up" /\ (server' = "up" => pc[Reaper] = "idle")
      /\ pc[Reaper] = "write" => server' = server
  BY DEF Boot, BootDone, ReapSkip, fileVars, Alone, Restart
<1>2. Restart' BY <1>1 DEF Alone, Restart
<1>3. ASSUME NEW r \in Record \ asked PROVE Mine(r)' BY <1>1, MineKept DEF Alone, Mine
<1> QED BY <1>1, <1>2, <1>3 DEF Alone

LEMMA ReapOpenAlone ==
    ASSUME Typed, Alone, NEW x \in Record, ReapOpen(x)
    PROVE  /\ Alone' /\ UNCHANGED asked /\ file[x] \in InFlight /\ file'[x] = Empty
           /\ job[Reaper] = NoRecord /\ job'[Reaper] = x
           /\ \A r \in Record : /\ pc'[r] = pc[r] /\ rec'[r] = rec[r]
                                /\ r # x => file'[r] = file[r]
<1>1. /\ server = "booting" /\ pc' = [pc EXCEPT ![Reaper] = "write"] /\ pc[Reaper] = "idle"
      /\ job' = [job EXCEPT ![Reaper] = x] /\ rec' = [rec EXCEPT ![Reaper] = "error"]
      /\ file' = [file EXCEPT ![x] = Empty] /\ file[x] \in InFlight
      /\ UNCHANGED <<server, asked, tmp>> /\ fd' = [fd EXCEPT ![Reaper] = "file"]
  BY DEF ReapOpen, Goto, serverVars
<1>2. /\ pc'[Reaper] = "write" /\ rec'[Reaper] = "error" /\ job'[Reaper] = x
      /\ \A b \in Actor \ {Reaper} : pc'[b] = pc[b] /\ rec'[b] = rec[b] /\ job'[b] = job[b]
                                     /\ fd'[b] = fd[b]
      /\ file'[x] = Empty /\ \A r \in Record : r # x => file'[r] = file[r]
  BY <1>1, Actors DEF Typed, TypeOK, FilesTypeOK
<1>3. Restart' BY <1>1, <1>2, Actors DEF Alone, Restart
<1>4. ASSUME NEW r \in Record \ asked PROVE Mine(r)'
  <2>1. CASE r = x
    <3>1. pc[x] \in {"idle", "finished", "dead"} /\ Mine(x) BY <1>1, <1>4, <2>1 DEF Alone, Restart
    <3>2. pc[x] = "dead"
      BY <1>1, <3>1, Contents DEF Mine, InFlight
    <3> QED BY <1>1, <1>2, <2>1, <3>1, <3>2, Actors DEF Mine
  <2>2. CASE r # x
    BY <1>1, <1>2, <2>2, Actors, MineKept DEF Alone, Mine
  <2> QED BY <2>1, <2>2
<1> QED BY <1>1, <1>2, <1>3, <1>4, Actors DEF Alone, Restart

LEMMA ReapWriteAlone ==
    ASSUME Typed, Alone, ReapWrite
    PROVE  /\ Alone' /\ UNCHANGED asked /\ job[Reaper] \in Record /\ file'[job[Reaper]] = "error"
           /\ job'[Reaper] = NoRecord
           /\ \A r \in Record : /\ pc'[r] = pc[r] /\ rec'[r] = rec[r]
                                /\ r # job[Reaper] => file'[r] = file[r]
<1>1. /\ server = "booting" /\ rec[Reaper] = "error" /\ job[Reaper] \in Record
      /\ pc[Reaper] = "write" /\ pc' = [pc EXCEPT ![Reaper] = "idle"]
      /\ file' = [file EXCEPT ![job[Reaper]] = "error"]
      /\ job' = [job EXCEPT ![Reaper] = NoRecord]
      /\ fd' = [fd EXCEPT ![Reaper] = "closed"]
      /\ UNCHANGED <<rec, server, asked, tmp>>
  BY Actors DEF ReapWrite, Goto, Alone, Restart, Typed, JobsOK, Working, Saving
<1>2. /\ pc'[Reaper] = "idle" /\ job'[Reaper] = NoRecord
      /\ \A b \in Actor \ {Reaper} : pc'[b] = pc[b] /\ job'[b] = job[b] /\ fd'[b] = fd[b]
      /\ file'[job[Reaper]] = "error"
      /\ \A r \in Record : r # job[Reaper] => file'[r] = file[r]
  BY <1>1, Actors DEF Typed, TypeOK, FilesTypeOK
<1>3. Restart' BY <1>1, <1>2, Actors DEF Alone, Restart
<1>4. ASSUME NEW r \in Record \ asked PROVE Mine(r)'
  <2>1. CASE r = job[Reaper]
    BY <1>1, <1>2, <1>4, <2>1, Actors DEF Alone, Mine, Own, Status, Terminal
  <2>2. CASE r # job[Reaper]
    BY <1>1, <1>2, <2>2, Actors, MineKept DEF Alone, Mine
  <2> QED BY <2>1, <2>2
<1> QED BY <1>1, <1>2, <1>3, <1>4, Actors DEF Alone

LEMMA NextAlone == Typed /\ Alone /\ [Next]_vars => Alone'
<1> SUFFICES ASSUME Typed, Alone, [Next]_vars PROVE Alone' OBVIOUS
<1>1. ASSUME NEW r \in Record, Worker(r) PROVE Alone'
  BY <1>1, WorkerAlone, SaveAlone DEF Worker
<1>2. ASSUME NEW d \in Deleter, Delete(d) PROVE Alone'
  BY <1>2, BeginDeleteAlone, FinishDeleteAlone, SaveAlone DEF Delete
<1>3. CASE Reap BY <1>3, BootAlone, ReapOpenAlone, ReapWriteAlone DEF Reap
<1>4. CASE UNCHANGED vars
  <2>1. ASSUME NEW r \in Record \ asked PROVE Mine(r)'
    BY <1>4, MineKept DEF Alone, Mine, vars, fileVars
  <2> QED BY <1>4, <2>1 DEF vars, fileVars, Alone, Restart
<1> QED BY <1>1, <1>2, <1>3, <1>4, PollAlone, CrashAlone, BootAlone DEF Next

(* A result the worker recorded is on disk for good unless somebody asks   *)
(* for a DELETE: retries, direct writes, crashes and boots all keep it.    *)
THEOREM ResultAlwaysKept == Spec => []ResultKept
<1> DEFINE Inv == Typed /\ Alone
<1>1. Init => Inv BY InitTyped, InitAlone
<1>2. Inv /\ [Next]_vars => Inv' BY NextTyped, NextAlone
<1>3. Inv => ResultKept BY DEF Alone, Mine, ResultKept
<1> HIDE DEF Inv
<1> QED BY <1>1, <1>2, <1>3, PTL DEF Spec

-----------------------------------------------------------------------------
(* The queue implements TaskLifecycle. *)

LEMMA Phases ==
    ASSUME Alone, NEW r \in Record, r \notin asked
    PROVE  /\ file[r] \in Own \cup {NoFile, Empty}
           /\ file[r] \in Own => Phase(r) = file[r]
           /\ file[r] = NoFile => Phase(r) = "absent"
           /\ file[r] = Empty =>
                 Phase(r) = IF job[Reaper] = r THEN "running"
                            ELSE IF pc[r] = "rewrite" THEN Prior(rec[r]) ELSE "lost"
           /\ file[r] = Before(rec[r]) => Phase(r) = Prior(rec[r])
<1>1. Mine(r) BY DEF Alone
<1>2. file[r] \in Own \cup {NoFile, Empty} /\ rec[r] \in Own
  BY <1>1 DEF Mine, Before, Own, Status, InFlight, Terminal
<1>3. Own \subseteq Status BY DEF Own
<1>4. file[r] \in Own => Phase(r) = file[r] BY <1>3, Contents DEF Phase, Unreadable
<1>5. file[r] = NoFile => Phase(r) = "absent" BY Contents DEF Phase
<1>6. file[r] = Empty =>
         Phase(r) = IF job[Reaper] = r THEN "running"
                    ELSE IF pc[r] = "rewrite" THEN Prior(rec[r]) ELSE "lost"
  BY Contents DEF Phase, Unreadable
<1>7. file[r] = Before(rec[r]) => Phase(r) = Prior(rec[r])
  BY <1>2, <1>4, <1>5 DEF Before, Prior, Own, Status, InFlight, Terminal
<1> QED BY <1>2, <1>4, <1>5, <1>6, <1>7

(* The same in the state after a step. *)
LEMMA PhasesNext ==
    ASSUME Alone', NEW r \in Record, r \notin asked'
    PROVE  /\ file'[r] \in Own => Phase(r)' = file'[r]
           /\ file'[r] = Empty =>
                 Phase(r)' = IF job'[Reaper] = r THEN "running"
                             ELSE IF pc'[r] = "rewrite" THEN Prior(rec'[r]) ELSE "lost"
<1>1. Own \subseteq Status BY DEF Own
<1>2. file'[r] \in Own => Phase(r)' = file'[r] BY <1>1, Contents DEF Phase, Unreadable
<1> QED BY <1>2, Contents DEF Phase, Unreadable

LEMMA PhaseWithdrawn ==
    ASSUME NEW r \in Record
    PROVE  (r \in asked => Phase(r) = "withdrawn") /\ (r \in asked' => Phase(r)' = "withdrawn")
BY DEF Phase

LEMMA PhaseKept ==
    ASSUME NEW r \in Record, r \in asked <=> r \in asked',
           r \notin asked => /\ file'[r] = file[r] /\ rec'[r] = rec[r]
                             /\ pc'[r] = "rewrite" <=> pc[r] = "rewrite"
                             /\ job'[Reaper] = r <=> job[Reaper] = r
    PROVE  Phase(r)' = Phase(r)
<1>1. CASE r \in asked BY <1>1, PhaseWithdrawn
<1>2. CASE r \notin asked
  <2>1. /\ file'[r] = file[r] /\ rec'[r] = rec[r] /\ r \notin asked'
        /\ pc'[r] = "rewrite" <=> pc[r] = "rewrite"
        /\ job'[Reaper] = r <=> job[Reaper] = r
    BY <1>2
  <2> QED BY <1>2, <2>1 DEF Phase, Prior, Unreadable
<1> QED BY <1>1, <1>2

(* One task changes its phase, in a way the promise allows. *)
OneMoves(x) ==
    /\ \/ Phase(x)' = Phase(x)
       \/ Phase(x) = "absent" /\ Phase(x)' = "pending"
       \/ Phase(x) = "pending" /\ Phase(x)' = "running"
       \/ Phase(x) \in {"pending", "running"} /\ Phase(x)' \in {"done", "error"}
       \/ /\ Phase(x) \in {"pending", "running", "done", "error"}
          /\ Phase(x)' = "withdrawn"
    /\ \A r \in Record : r # x => Phase(r)' = Phase(r)

LEMMA OneMovesAllowed ==
    ASSUME NEW x \in Record, OneMoves(x)
    PROVE  [Promise!LifecycleNext]_([r \in Record |-> Phase(r)])
<1> DEFINE old == [r \in Record |-> Phase(r)]
           new == [r \in Record |-> Phase(r)']
<1>1. new = [old EXCEPT ![x] = Phase(x)'] BY DEF OneMoves
<1>2. CASE Phase(x)' = Phase(x) BY <1>2 DEF OneMoves
<1>3. CASE Phase(x) = "absent" /\ Phase(x)' = "pending"
  <2>1. Promise!Submit(x) BY <1>1, <1>3 DEF Promise!Submit, Promise!Enter
  <2> QED BY <2>1 DEF Promise!LifecycleNext
<1>4. CASE Phase(x) = "pending" /\ Phase(x)' = "running"
  <2>1. Promise!Start(x) BY <1>1, <1>4 DEF Promise!Start, Promise!Enter
  <2> QED BY <2>1 DEF Promise!LifecycleNext
<1>5. CASE Phase(x) \in {"pending", "running"} /\ Phase(x)' \in {"done", "error"}
  <2>1. Promise!Conclude(x)
    BY <1>1, <1>5 DEF Promise!Conclude, Promise!Enter, Promise!Waiting, Promise!Results
  <2> QED BY <2>1 DEF Promise!LifecycleNext
<1>6. CASE Phase(x) \in {"pending", "running", "done", "error"} /\ Phase(x)' = "withdrawn"
  <2>1. Promise!Withdraw(x)
    BY <1>1, <1>6 DEF Promise!Withdraw, Promise!Enter, Promise!Waiting, Promise!Results
  <2> QED BY <2>1 DEF Promise!LifecycleNext
<1> QED BY <1>2, <1>3, <1>4, <1>5, <1>6 DEF OneMoves

(* A crash loses the records being rewritten, none of which had a result. *)
LEMMA CrashAllowed ==
    ASSUME Typed, Alone, Crash
    PROVE  [Promise!LifecycleNext]_([r \in Record |-> Phase(r)])
<1> DEFINE lost == {r \in Record \ asked : file[r] = Empty /\ Phase(r) # "lost"}
<1>1. Alone' /\ UNCHANGED <<asked, file, rec>> BY CrashAlone
<1>2. /\ job'[Reaper] = NoRecord
      /\ \A r \in Record : pc'[r] # "rewrite"
  BY Actors DEF Crash, NoJobs
<1>3. ASSUME NEW r \in lost PROVE Phase(r) \in {"absent", "pending", "running"} /\ Phase(r)' = "lost"
  <2>1. Phase(r) \in {"running", Prior(rec[r])} BY Phases
  <2>2. Phase(r)' = "lost" BY <1>1, <1>2, PhasesNext, Actors
  <2>3. Prior(rec[r]) \in {"absent", "pending", "running"}
    BY DEF Prior, Alone, Mine, Own, Status, InFlight, Terminal
  <2> QED BY <2>1, <2>2, <2>3
<1>4. ASSUME NEW r \in Record, r \notin lost PROVE Phase(r)' = Phase(r)
  <2>1. CASE r \in asked BY <1>1, <2>1, PhaseWithdrawn
  <2>2. CASE r \notin asked /\ file[r] = Empty
    <3>1. Phase(r) = "lost" BY <1>4, <2>2
    <3>2. Phase(r)' = "lost" BY <1>1, <1>2, <2>2, PhasesNext, Actors
    <3> QED BY <3>1, <3>2
  <2>3. CASE r \notin asked /\ file[r] # Empty
    <3>1. file[r] \notin Unreadable BY <2>3, Phases, Contents DEF Own, Unreadable
    <3> QED BY <1>1, <2>3, <3>1 DEF Phase
  <2> QED BY <2>1, <2>2, <2>3
<1> HIDE DEF lost
<1>5. lost \in SUBSET Record BY DEF lost
<1>6. Promise!Lose(lost)
  BY <1>3, <1>4, <1>5 DEF Promise!Lose, Promise!Waiting
<1> QED BY <1>5, <1>6 DEF Promise!LifecycleNext

(* A save of the record's own worker, or of a DELETE. *)
LEMMA SaveMoves ==
    ASSUME Typed, Alone, NEW a \in Record \cup Deleter, Save(a)
    PROVE  \E x \in Record : OneMoves(x)
<1>0. /\ UNCHANGED <<rec, asked, server>> /\ a # Reaper /\ job'[Reaper] = job[Reaper] /\ Alone'
      /\ job[a] \in Record /\ (a \in Record => job[a] = a)
  BY SaveFrame, SaveAlone, Actors DEF Typed, JobsOK, Working
<1>1. ASSUME NEW r \in Record, r # a, job[a] # r PROVE Phase(r)' = Phase(r)
  BY <1>0, <1>1, SaveElsewhere, PhaseKept
<1>2. CASE a \in Deleter
  <2>1. job[a] \in asked BY <1>0, <1>2 DEF Alone, Mine
  <2>2. PICK x \in Record : x = job[a] BY <1>0
  <2>3. Phase(x)' = Phase(x)
    <3>1. x \in asked /\ x \in asked' BY <1>0, <2>1, <2>2
    <3> QED BY <3>1, PhaseWithdrawn
  <2>4. ASSUME NEW r \in Record, r # x PROVE Phase(r)' = Phase(r)
    <3>1. r # a BY <1>2, Actors
    <3> QED BY <1>1, <2>2, <2>4, <3>1
  <2> QED BY <2>3, <2>4 DEF OneMoves
<1>3. CASE a \in Record
  <2>1. CASE a \in asked BY <1>0, <1>1, <1>3, <2>1, PhaseWithdrawn DEF OneMoves
  <2>2. CASE a \notin asked
    <3>1. /\ Mine(a) /\ Mine(a)' /\ rec[a] \in Own
          /\ \/ file'[a] = file[a]
             \/ file[a] = Before(rec[a]) /\ file'[a] = Empty /\ pc'[a] = "rewrite"
             \/ file[a] = Before(rec[a]) /\ file'[a] = rec[a]
             \/ pc[a] = "rewrite" /\ file[a] = Empty /\ file'[a] = rec[a]
      BY <1>3, <2>2, SaveOwn DEF Alone, Mine
    <3>2. job[Reaper] # a /\ job'[Reaper] # a
      <4>1. pc[a] \in Saving BY SaveFrame
      <4>2. pc[a] # "dead" BY <4>1 DEF Saving
      <4> QED BY <1>0, <3>1, <4>2 DEF Mine
    <3>3. \/ Phase(a)' = Phase(a)
          \/ Phase(a) = Prior(rec[a]) /\ Phase(a)' = rec[a]
      <4>1. CASE file'[a] = file[a] /\ file[a] # Empty
        <5>1. file[a] \notin Unreadable BY <1>3, <2>2, <4>1, Phases, Contents DEF Own, Unreadable
        <5> QED BY <1>0, <2>2, <4>1, <5>1 DEF Phase
      <4>2. CASE file'[a] = file[a] /\ file[a] = Empty
        <5>1. pc[a] = "rewrite" /\ pc'[a] = "rewrite"
          <6>1. pc[a] \in Saving BY SaveFrame
          <6>2. pc[a] = "rewrite"
            BY <3>1, <4>2, <6>1, Contents
               DEF Mine, Before, Own, Saving, Status, InFlight, Terminal
          <6>3. rec[a] # Empty BY <3>1, Contents DEF Own
          <6>4. pc'[a] # "rewrite" => file'[a] # Empty
            BY <3>1, <4>2, <6>2, <6>3, <1>3, <1>0
               DEF Save, SaveOpen, SaveWrite, SaveReplace, SaveRetry, SaveFails, SaveFallback,
                   SaveRewrite, SaveCleanup, WriteOut, Overlay, Mine, Typed, TypeOK, FilesTypeOK
          <6> QED BY <4>2, <6>2, <6>4
        <5> QED BY <1>0, <1>3, <2>2, <4>2, <5>1, PhaseKept
      <4>3. CASE file[a] = Before(rec[a]) /\ file'[a] = Empty /\ pc'[a] = "rewrite"
        BY <1>0, <1>3, <2>2, <3>2, <4>3, Phases, PhasesNext
      <4>4. CASE file[a] = Before(rec[a]) /\ file'[a] = rec[a]
        BY <1>0, <1>3, <2>2, <3>1, <4>4, Phases, PhasesNext
      <4>5. CASE pc[a] = "rewrite" /\ file[a] = Empty /\ file'[a] = rec[a]
        BY <1>0, <1>3, <2>2, <3>1, <3>2, <4>5, Phases, PhasesNext
      <4> QED BY <3>1, <4>1, <4>2, <4>3, <4>4, <4>5
    <3>4. \/ rec[a] = "pending" /\ Prior(rec[a]) = "absent"
          \/ rec[a] = "running" /\ Prior(rec[a]) = "pending"
          \/ rec[a] \in {"done", "error"} /\ Prior(rec[a]) = "running"
      BY <3>1 DEF Own, Status, InFlight, Terminal, Prior
    <3> QED BY <1>0, <1>1, <1>3, <3>3, <3>4 DEF OneMoves
  <2> QED BY <2>1, <2>2
<1> QED BY <1>2, <1>3

LEMMA NextMoves ==
    ASSUME Typed, Alone, [Next]_vars
    PROVE  [Promise!LifecycleNext]_([r \in Record |-> Phase(r)])
<1>1. ASSUME NEW a \in Record \cup Deleter, Save(a)
      PROVE  [Promise!LifecycleNext]_([r \in Record |-> Phase(r)])
  BY <1>1, SaveMoves, OneMovesAllowed
<1>2. ASSUME NEW x \in Record, Create(x) \/ Begin(x) \/ Invoke(x)
      PROVE  [Promise!LifecycleNext]_([r \in Record |-> Phase(r)])
  <2>1. /\ UNCHANGED <<file, job, asked>> /\ pc[x] # "rewrite" /\ pc'[x] # "rewrite"
        /\ \A r \in Record : r # x => pc'[r] = pc[r] /\ rec'[r] = rec[r]
    BY <1>2, WorkerAlone
  <2>2. Phase(x)' = Phase(x) BY <2>1 DEF Phase, Unreadable
  <2>3. \A r \in Record : r # x => Phase(r)' = Phase(r) BY <2>1, PhaseKept
  <2> QED BY <2>2, <2>3, OneMovesAllowed DEF OneMoves
<1>3. ASSUME NEW d \in Deleter, NEW x \in Record, BeginDelete(d, x)
      PROVE  [Promise!LifecycleNext]_([r \in Record |-> Phase(r)])
  <2>1. /\ UNCHANGED file /\ asked' = asked \cup {x} /\ file[x] \in Status
        /\ job'[Reaper] = job[Reaper]
        /\ \A r \in Record : pc'[r] = pc[r] /\ rec'[r] = rec[r]
    BY <1>3, BeginDeleteAlone
  <2>2. \A r \in Record : r # x => Phase(r)' = Phase(r) BY <2>1, PhaseKept
  <2>3. Phase(x)' = "withdrawn" BY <2>1, PhaseWithdrawn
  <2>4. x \notin asked => Phase(x) \in {"pending", "running", "done", "error"}
    BY <2>1, Phases, Contents DEF Own, Status, InFlight, Terminal
  <2>5. x \in asked => Phase(x) = "withdrawn" BY PhaseWithdrawn
  <2> QED BY <2>2, <2>3, <2>4, <2>5, OneMovesAllowed DEF OneMoves
<1>4. ASSUME (\E d \in Deleter : FinishDelete(d)) \/ (\E p \in Poller : Poll(p))
             \/ Boot \/ BootDone \/ (\E x \in Record : ReapSkip(x)) \/ UNCHANGED vars
      PROVE  [Promise!LifecycleNext]_([r \in Record |-> Phase(r)])
  <2>1. /\ UNCHANGED asked /\ job'[Reaper] = job[Reaper]
        /\ \A r \in Record \ asked : file'[r] = file[r] /\ pc'[r] = pc[r] /\ rec'[r] = rec[r]
    BY <1>4, FinishDeleteAlone, PollAlone, BootAlone DEF vars, fileVars
  <2>2. \A r \in Record : Phase(r)' = Phase(r) BY <2>1, PhaseKept
  <2> QED BY <2>2
<1>5. ASSUME NEW x \in Record, ReapOpen(x)
      PROVE  [Promise!LifecycleNext]_([r \in Record |-> Phase(r)])
  <2>1. /\ Alone' /\ UNCHANGED asked /\ file[x] \in InFlight /\ file'[x] = Empty
        /\ job[Reaper] = NoRecord /\ job'[Reaper] = x
        /\ \A r \in Record : /\ pc'[r] = pc[r] /\ rec'[r] = rec[r]
                             /\ r # x => file'[r] = file[r]
    BY <1>5, ReapOpenAlone
  <2>2. \A r \in Record : r # x => Phase(r)' = Phase(r) BY <2>1, PhaseKept, Actors
  <2>3. CASE x \in asked BY <2>1, <2>2, <2>3, PhaseWithdrawn, OneMovesAllowed DEF OneMoves
  <2>4. CASE x \notin asked
    <3>1. Phase(x) \in {"pending", "running"}
      BY <2>1, <2>4, Phases DEF Own, Status, InFlight, Terminal
    <3>2. Phase(x)' = "running" BY <2>1, <2>4, PhasesNext
    <3> QED BY <2>2, <3>1, <3>2, OneMovesAllowed DEF OneMoves
  <2> QED BY <2>3, <2>4
<1>6. ASSUME ReapWrite
      PROVE  [Promise!LifecycleNext]_([r \in Record |-> Phase(r)])
  <2>0. PICK x \in Record : x = job[Reaper] BY <1>6, ReapWriteAlone
  <2>1. /\ Alone' /\ UNCHANGED asked /\ x \in Record /\ file'[x] = "error"
        /\ job'[Reaper] = NoRecord
        /\ \A r \in Record : /\ pc'[r] = pc[r] /\ rec'[r] = rec[r]
                             /\ r # x => file'[r] = file[r]
    BY <1>6, <2>0, ReapWriteAlone
  <2>2. \A r \in Record : r # x => Phase(r)' = Phase(r) BY <2>0, <2>1, PhaseKept, Actors
  <2>3. CASE x \in asked BY <2>1, <2>2, <2>3, PhaseWithdrawn, OneMovesAllowed DEF OneMoves
  <2>4. CASE x \notin asked
    <3>1. file[x] = Empty BY <2>0, <2>4 DEF Alone, Mine
    <3>2. Phase(x) = "running" BY <2>0, <2>4, <3>1, Phases
    <3>3. Phase(x)' = "error"
      <4>1. "error" \in Own BY DEF Own, Status, Terminal
      <4>2. x \notin asked' /\ file'[x] \in Own /\ file'[x] = "error" BY <2>1, <2>4, <4>1
      <4> QED BY <2>1, <4>2, PhasesNext
    <3> QED BY <2>1, <2>2, <3>2, <3>3, OneMovesAllowed DEF OneMoves
  <2> QED BY <2>3, <2>4
<1> QED BY <1>1, <1>2, <1>3, <1>4, <1>5, <1>6, CrashAllowed DEF Next, Worker, Delete, Reap

(* The task queue implements TaskLifecycle, its liveness apart: every step *)
(* of a save, a DELETE, a poll, a crash, a boot or the reaper shows a      *)
(* client a step of the promise, or nothing.                               *)
THEOREM KeepsItsPromise == Spec => Promise!LifecycleSpec
<1> DEFINE Inv == Typed /\ Alone
<1>1. Init => Inv BY InitTyped, InitAlone
<1>2. Inv /\ [Next]_vars => Inv' BY NextTyped, NextAlone
<1>3. Init => Promise!LifecycleInit
  <2> SUFFICES ASSUME Init PROVE Promise!LifecycleInit OBVIOUS
  <2>1. ASSUME NEW r \in Record PROVE Phase(r) = "absent"
    <3>1. file[r] = NoFile /\ r \notin asked BY DEF Init, FilesInit
    <3> QED BY <3>1 DEF Phase
  <2> QED BY <2>1 DEF Promise!LifecycleInit
<1>4. Inv /\ [Next]_vars => [Promise!LifecycleNext]_([r \in Record |-> Phase(r)])
  BY NextMoves
<1> HIDE DEF Inv
<1> QED BY <1>1, <1>2, <1>3, <1>4, PTL DEF Spec, Promise!LifecycleSpec
-----------------------------------------------------------------------------
(* No revival, on a file system where a rename never fails.                *)

Early(r) == pc[r] = "queued" \/ (pc[r] \in {"open", "write", "replace"} /\ rec[r] = "running")

(* Nobody can ask for a record to be deleted before it is there. *)
Unasked ==
    \A r \in Record :
        pc[r] = "idle" \/ (pc[r] \in {"open", "write", "replace"} /\ rec[r] = "pending")
            => r \notin asked

(* Until the worker has said "running", a final status in the record, or   *)
(* one about to be written there through a handle on it, is a DELETE's     *)
(* that has yet to unlink.                                                 *)
Withdrawn ==
    \A r \in Record : Early(r) =>
        /\ file[r] \in Terminal => Unlinking(r)
        /\ \A d \in Deleter : pc[d] = "write" /\ job[d] = r /\ fd[d] = "file" => Unlinking(r)

Calm == Typed /\ InvParts /\ Alone /\ Unasked /\ Withdrawn

LEMMA InitUnasked == Init => Unasked /\ Withdrawn
BY Actors DEF Init, Unasked, Withdrawn, Early

(* A record that is not there yet, or only pending in the .tmp, has no     *)
(* DELETE.                                                                 *)
LEMMA UnaskedFacts ==
    ASSUME Calm, NEW r \in Record,
           pc[r] = "idle" \/ (pc[r] \in {"open", "write", "replace"} /\ rec[r] = "pending")
    PROVE  /\ r \notin asked /\ file[r] = NoFile
           /\ \A d \in Deleter : job[d] # r
           /\ pc[r] = "replace" => tmp[r] = "pending"
<1>1. r \notin asked BY DEF Calm, Unasked
<1>2. Mine(r) BY <1>1 DEF Calm, Alone
<1> QED BY <1>1, <1>2 DEF Mine, Before

LEMMA WorkerWithdrawn ==
    ASSUME Calm, NEW r \in Record, Create(r) \/ Begin(r) \/ Invoke(r)
    PROVE  (Unasked /\ Withdrawn)' /\ UNCHANGED file
<1>0. /\ pc' = [pc EXCEPT ![r] = "open"]
      /\ \/ pc[r] = "idle" /\ rec' = [rec EXCEPT ![r] = "pending"]
         \/ pc[r] = "queued" /\ rec' = [rec EXCEPT ![r] = "running"]
         \/ \E s \in {"done", "error"} : rec' = [rec EXCEPT ![r] = s]
      /\ UNCHANGED <<file, tmp, job, fd, asked>>
  BY DEF Create, Begin, Invoke, StartSave, Goto, fileVars, serverVars
<1>1. r \in Actor /\ pc'[r] = "open"
      /\ \A b \in Actor : b # r => pc'[b] = pc[b] /\ rec'[b] = rec[b]
  BY <1>0, Actors DEF Calm, Typed, TypeOK
<1>2. \A x \in Record : Unlinking(x)' <=> Unlinking(x) BY <1>0, <1>1, Actors DEF Unlinking
<1>3. \/ pc[r] = "idle" /\ rec'[r] = "pending"
      \/ pc[r] = "queued" /\ rec'[r] = "running"
      \/ rec'[r] \in {"done", "error"}
  BY <1>0, <1>1 DEF Calm, Typed, TypeOK
<1>4. Unasked' BY <1>0, <1>1, <1>3, Actors DEF Calm, Unasked
<1>5. Withdrawn' BY <1>0, <1>1, <1>2, <1>3, Actors DEF Calm, Withdrawn, Early
<1> QED BY <1>0, <1>4, <1>5

LEMMA SaveOpenWithdrawn ==
    ASSUME Calm, NEW a \in Record \cup Deleter, SaveOpen(a)
    PROVE  (Unasked /\ Withdrawn)' /\ UNCHANGED file
<1>0. /\ pc[a] = "open" /\ pc' = [pc EXCEPT ![a] = "write"] /\ fd' = [fd EXCEPT ![a] = "tmp"]
      /\ UNCHANGED <<file, job, rec, asked>>
  BY DEF SaveOpen, OpenTmp, Goto, serverVars
<1>1. a \in Actor /\ pc'[a] = "write" /\ fd'[a] = "tmp"
      /\ \A b \in Actor : b # a => pc'[b] = pc[b] /\ fd'[b] = fd[b]
  BY <1>0, Actors DEF Calm, Typed, TypeOK, FilesTypeOK
<1>2. \A x \in Record : Unlinking(x)' <=> Unlinking(x) BY <1>0, <1>1, Actors DEF Unlinking
<1>3. Unasked' BY <1>0, <1>1, Actors DEF Calm, Unasked
<1>4. Withdrawn' BY <1>0, <1>1, <1>2, Actors DEF Calm, Withdrawn, Early
<1> QED BY <1>0, <1>3, <1>4

LEMMA SaveWriteWithdrawn ==
    ASSUME Calm, NEW a \in Record \cup Deleter, SaveWrite(a)
    PROVE  /\ (Unasked /\ Withdrawn)'
           /\ \A r \in Record : file'[r] # file[r] => Deleting(r)
<1>0. /\ pc[a] = "write" /\ pc' = [pc EXCEPT ![a] = "replace"]
      /\ fd' = [fd EXCEPT ![a] = "closed"]
      /\ UNCHANGED <<job, rec, asked>>
  BY DEF SaveWrite, WriteOut, Goto, serverVars
<1>1. /\ a \in Actor /\ pc'[a] = "replace" /\ job[a] \in Record
      /\ a \in Record => job[a] = a
      /\ \A b \in Actor : b # a => pc'[b] = pc[b] /\ fd'[b] = fd[b]
  BY <1>0, SaverUp DEF Calm, Saving, Typed, TypeOK, FilesTypeOK
<1>2. \A x \in Record : Unlinking(x)' <=> Unlinking(x) BY <1>0, <1>1, Actors DEF Unlinking
<1>3. /\ \A x \in Record : x # job[a] => file'[x] = file[x]
      /\ fd[a] # "file" => file' = file
      /\ file'[job[a]] \in {rec[a], Torn, file[job[a]]}
  BY <1>1 DEF SaveWrite, WriteOut, Overlay, Calm, Typed, TypeOK, FilesTypeOK
<1>4. Unasked' BY <1>0, <1>1, Actors DEF Calm, Unasked
<1>5. a \in Record /\ Early(a) => rec[a] = "running" BY <1>0 DEF Early
<1>6. ASSUME NEW r \in Record, Early(r)', file'[r] \in Terminal PROVE Unlinking(r)
  <2>1. Early(r) BY <1>0, <1>1, <1>6, Actors DEF Early
  <2>2. file[r] \in Terminal => Unlinking(r) BY <2>1 DEF Calm, Withdrawn
  <2>3. CASE file'[r] = file[r] BY <1>6, <2>2, <2>3
  <2>4. CASE file'[r] # file[r]
    <3>1. r = job[a] /\ fd[a] = "file" BY <1>3, <2>4
    <3>2. a \in Deleter
      <4>1. CASE a \in Record
        <5>1. rec[a] = "running" BY <1>1, <1>5, <2>1, <3>1, <4>1
        <5> QED BY <1>3, <1>6, <2>4, <3>1, <5>1, Contents DEF Terminal, Status
      <4> QED BY <4>1
    <3> QED BY <1>0, <2>1, <3>1, <3>2 DEF Calm, Withdrawn
  <2> QED BY <2>3, <2>4
<1>7. ASSUME NEW r \in Record, Early(r)', NEW d \in Deleter,
             pc'[d] = "write", job'[d] = r, fd'[d] = "file"
      PROVE  Unlinking(r)
  <2>1. Early(r) BY <1>0, <1>1, <1>7, Actors DEF Early
  <2>2. d # a /\ pc[d] = "write" /\ fd[d] = "file" /\ job[d] = r
    BY <1>0, <1>1, <1>7, Actors
  <2> QED BY <2>1, <2>2 DEF Calm, Withdrawn
<1>8. Withdrawn' BY <1>2, <1>6, <1>7 DEF Withdrawn
<1>9. ASSUME NEW r \in Record, file'[r] # file[r] PROVE Deleting(r)
  <2>1. r = job[a] /\ fd[a] = "file" BY <1>3, <1>9
  <2>2. CASE a \in Record
    <3>1. Unlinking(r) BY <1>0, <1>1, <2>1, <2>2 DEF Calm, InvParts, Swept
    <3> QED BY <3>1 DEF Unlinking, Deleting
  <2> QED BY <2>1, <2>2 DEF Deleting
<1> QED BY <1>4, <1>8, <1>9

(* A worker that renames while it says "pending" is alone with its record; *)
(* a DELETE that renames has yet to unlink.                                *)
LEMMA SaveReplaceWithdrawn ==
    ASSUME Calm, NEW a \in Record \cup Deleter, SaveReplace(a)
    PROVE  /\ (Unasked /\ Withdrawn)'
           /\ \A r \in Record : file[r] \in Terminal /\ file'[r] \in InFlight => Deleting(r)
<1> DEFINE x == job[a]
<1>0. /\ pc[a] = "replace" /\ pc' = [pc EXCEPT ![a] = AfterSave(a)]
      /\ file' = [file EXCEPT ![x] = tmp[x]]
      /\ UNCHANGED <<job, rec, asked>>
  BY DEF SaveReplace, Replace, Goto, serverVars
<1>1. /\ a \in Actor /\ x \in Record /\ rec[a] \in Status
      /\ a \in Record => x = a
      /\ \A b \in Actor : b # a => pc'[b] = pc[b]
      /\ \A b \in Actor : job[b] # x => fd'[b] = fd[b]
      /\ pc'[a] = AfterSave(a)
      /\ file'[x] = tmp[x] /\ \A r \in Record : r # x => file'[r] = file[r]
  BY <1>0, SaverUp DEF SaveReplace, Replace, Calm, Saving, Typed, TypeOK, FilesTypeOK
<1>2. \A r \in Record : Unlinking(r) => Unlinking(r)'
  BY <1>0, <1>1, Actors DEF Unlinking
<1>3. pc'[a] \in {"unlink", "queued", "invoking", "finished"}
  BY <1>1 DEF AfterSave, Status, InFlight
<1>4. Unasked' BY <1>0, <1>1, <1>3, Actors DEF Calm, Unasked
<1>5. ASSUME NEW r \in Record, r # x, Early(r)'
      PROVE  /\ file'[r] \in Terminal => Unlinking(r)'
             /\ \A d \in Deleter : pc'[d] = "write" /\ job'[d] = r /\ fd'[d] = "file" => Unlinking(r)'
  <2>1. r # a BY <1>1, <1>5
  <2>2. Early(r) BY <1>0, <1>1, <1>5, <2>1, Actors DEF Early
  <2>3. file'[r] = file[r] BY <1>1, <1>5
  <2>4. \A d \in Deleter : pc'[d] = "write" /\ job'[d] = r /\ fd'[d] = "file" =>
                             pc[d] = "write" /\ job[d] = r /\ fd[d] = "file"
    BY <1>0, <1>1, <1>3, <1>5, Actors
  <2> QED BY <1>2, <2>2, <2>3, <2>4 DEF Calm, Withdrawn
<1>6. CASE a \in Deleter
  <2>1. \A r \in Record : r = x => Unlinking(r)'
    BY <1>0, <1>1, <1>6 DEF Unlinking, AfterSave
  <2>2. Withdrawn' BY <1>5, <2>1 DEF Withdrawn
  <2>3. \A r \in Record : file'[r] # file[r] => Deleting(r) BY <1>1, <1>6 DEF Deleting
  <2>4. Terminal \cap InFlight = {} BY DEF Terminal, InFlight
  <2> QED BY <1>4, <2>2, <2>3, <2>4
<1>7. CASE a \in Record
  <2>1. x = a BY <1>1, <1>7
  <2>2. Early(a)' => rec[a] = "pending"
    BY <1>0, <1>1, <1>3, <1>7, Actors DEF Early, AfterSave, Status, InFlight, Terminal
  <2>3. rec[a] = "pending" => tmp[a] = "pending" /\ \A d \in Deleter : job[d] # a
    BY <1>0, <1>7, UnaskedFacts
  <2>4. "pending" \notin Terminal BY DEF Terminal
  <2>5. Early(a)' => file'[a] \notin Terminal /\ \A d \in Deleter : job'[d] # a
    BY <1>0, <1>1, <2>1, <2>2, <2>3, <2>4
  <2>6. Withdrawn' BY <1>5, <2>1, <2>5 DEF Withdrawn
  <2>7. ASSUME NEW r \in Record, file[r] \in Terminal, file'[r] \in InFlight PROVE Deleting(r)
    <3>1. r = a /\ tmp[a] \in InFlight BY <1>1, <2>1, <2>7 DEF Terminal, InFlight
    <3>2. rec[a] \in InFlight BY <1>0, <1>7, <3>1 DEF Calm, InvParts, LastWord
    <3>3. rec[a] # "pending"
      <4>1. rec[a] = "pending" => file[a] = NoFile BY <1>0, <1>7, UnaskedFacts
      <4> QED BY <2>7, <3>1, <4>1, Contents DEF Status
    <3>4. Early(a) BY <1>0, <3>2, <3>3 DEF Early, InFlight
    <3>5. Unlinking(a) BY <1>7, <2>7, <3>1, <3>4 DEF Calm, Withdrawn
    <3> QED BY <3>1, <3>5 DEF Unlinking, Deleting
  <2> QED BY <1>4, <2>6, <2>7
<1> QED BY <1>6, <1>7

LEMMA SaveFailsWithdrawn ==
    ASSUME Calm, NEW a \in Record \cup Deleter, SaveFails(a)
    PROVE  (Unasked /\ Withdrawn)' /\ UNCHANGED file
<1>0. /\ pc[a] = "replace"
      /\ pc' = [pc EXCEPT ![a] = IF a \in Record THEN "dead" ELSE "idle"]
      /\ job' = [job EXCEPT ![a] = NoJobs[a]]
      /\ UNCHANGED <<file, fd, rec, asked>>
  BY DEF SaveFails, Goto, serverVars
<1>1. a \in Actor /\ (a \in Record => pc'[a] = "dead") /\ (a \in Deleter => pc'[a] = "idle")
      /\ \A b \in Actor : b # a => pc'[b] = pc[b] /\ job'[b] = job[b]
  BY <1>0, Actors DEF Calm, Typed, TypeOK, FilesTypeOK
<1>2. \A x \in Record : Unlinking(x) => Unlinking(x)'
  BY <1>0, <1>1, Actors DEF Unlinking
<1>3. Unasked' BY <1>0, <1>1, Actors DEF Calm, Unasked
<1>4. Withdrawn' BY <1>0, <1>1, <1>2, Actors DEF Calm, Withdrawn, Early
<1> QED BY <1>0, <1>3, <1>4

LEMMA SaveWithdrawn ==
    ASSUME ~windows, Calm, NEW a \in Record \cup Deleter, Save(a)
    PROVE  /\ (Unasked /\ Withdrawn)'
           /\ \A r \in Record : file[r] \in Terminal /\ file'[r] \in InFlight => Deleting(r)
<1>1. ~SaveRetry(a) BY DEF SaveRetry, ReplaceBlocked
<1>2. ~(SaveFallback(a) \/ SaveRewrite(a) \/ SaveCleanup(a))
  BY SaverUp DEF SaveFallback, SaveRewrite, SaveCleanup, Saving, Calm
<1>3. Terminal \cap InFlight = {} BY DEF Terminal, InFlight
<1>4. CASE SaveOpen(a) BY <1>3, <1>4, SaveOpenWithdrawn
<1>5. CASE SaveWrite(a) BY <1>3, <1>5, SaveWriteWithdrawn
<1>6. CASE SaveReplace(a) BY <1>6, SaveReplaceWithdrawn
<1>7. CASE SaveFails(a) BY <1>3, <1>7, SaveFailsWithdrawn
<1> QED BY <1>1, <1>2, <1>4, <1>5, <1>6, <1>7 DEF Save

LEMMA BeginDeleteWithdrawn ==
    ASSUME Calm, NEW d \in Deleter, NEW r \in Record, BeginDelete(d, r)
    PROVE  (Unasked /\ Withdrawn)' /\ UNCHANGED file
<1>0. /\ pc[d] = "idle" /\ file[r] \in Status
      /\ job' = [job EXCEPT ![d] = r] /\ asked' = asked \cup {r}
      /\ \/ pc' = [pc EXCEPT ![d] = "open"] /\ rec' = [rec EXCEPT ![d] = "cancelled"]
         \/ pc' = [pc EXCEPT ![d] = "unlink"] /\ UNCHANGED rec
      /\ UNCHANGED <<file, fd>>
  BY DEF BeginDelete, Goto
<1>1. /\ d \in Actor /\ pc'[d] \in {"open", "unlink"}
      /\ \A b \in Actor : b # d => pc'[b] = pc[b] /\ rec'[b] = rec[b] /\ job'[b] = job[b]
  BY <1>0, Actors DEF Calm, Typed, TypeOK, FilesTypeOK
<1>2. \A x \in Record : Unlinking(x) => Unlinking(x)' BY <1>0, <1>1, Actors DEF Unlinking
<1>3. Unasked'
  <2>1. ~(pc[r] = "idle" \/ (pc[r] \in {"open", "write", "replace"} /\ rec[r] = "pending"))
    BY <1>0, UnaskedFacts, Contents
  <2> QED BY <1>0, <1>1, <2>1, Actors DEF Calm, Unasked
<1>4. Withdrawn' BY <1>0, <1>1, <1>2, Actors DEF Calm, Withdrawn, Early
<1> QED BY <1>0, <1>3, <1>4

LEMMA FinishDeleteWithdrawn ==
    ASSUME ~windows, Calm, NEW d \in Deleter, FinishDelete(d)
    PROVE  /\ (Unasked /\ Withdrawn)'
           /\ \A r \in Record : file'[r] # file[r] => Deleting(r)
<1> DEFINE x == job[d]
<1>0. /\ pc[d] = "unlink" /\ pc' = [pc EXCEPT ![d] = "idle"]
      /\ job' = [job EXCEPT ![d] = NoRecord]
      /\ file' = [file EXCEPT ![x] = NoFile]
      /\ UNCHANGED <<rec, asked>>
  BY DEF FinishDelete, UnlinkFile, Goto, serverVars
<1>1. /\ d \in Actor /\ x \in Record /\ pc'[d] = "idle"
      /\ \A b \in Actor : b # d => pc'[b] = pc[b] /\ job'[b] = job[b]
      /\ \A b \in Actor : fd'[b] = IF job[b] = x /\ fd[b] = "file" THEN "unlinked" ELSE fd[b]
      /\ file'[x] = NoFile /\ \A r \in Record : r # x => file'[r] = file[r]
  BY <1>0, Actors DEF FinishDelete, UnlinkFile, Calm, Typed, TypeOK, FilesTypeOK, JobsOK, Working
<1>2. \A r \in Record : r # x => (Unlinking(r) => Unlinking(r)')
  BY <1>0, <1>1, Actors DEF Unlinking
<1>3. Unasked' BY <1>0, <1>1, Actors DEF Calm, Unasked
<1>4. file'[x] \notin Terminal BY <1>1, Contents DEF Status
<1>5. \A b \in Deleter : b # d /\ job[b] = x => fd'[b] # "file" BY <1>1, Actors
<1>6. \A r \in Record : Early(r)' => Early(r) BY <1>0, <1>1, Actors DEF Early
<1>7. Withdrawn' BY <1>0, <1>1, <1>2, <1>4, <1>5, <1>6, Actors DEF Calm, Withdrawn
<1>8. \A r \in Record : file'[r] # file[r] => Deleting(r) BY <1>1 DEF Deleting
<1> QED BY <1>3, <1>7, <1>8

LEMMA PollWithdrawn ==
    ASSUME Calm, NEW p \in Poller, Poll(p) PROVE (Unasked /\ Withdrawn)' /\ UNCHANGED file
<1>0. /\ \E s \in {"reading", "idle"} : pc' = [pc EXCEPT ![p] = s]
      /\ \E r \in Record \cup {NoRecord} : job' = [job EXCEPT ![p] = r]
      /\ \E h \in {"file", "closed"} : fd' = [fd EXCEPT ![p] = h]
      /\ UNCHANGED <<file, rec, asked>>
  BY DEF Poll, PollOpen, PollClose, Goto, serverVars
<1>1. p \in Actor /\ \A b \in Actor : b # p => pc'[b] = pc[b] /\ job'[b] = job[b] /\ fd'[b] = fd[b]
  BY <1>0, Actors DEF Calm, Typed, TypeOK, FilesTypeOK
<1>2. \A x \in Record : Unlinking(x)' <=> Unlinking(x)
  BY <1>0, <1>1, Actors DEF Calm, InvParts, Places, Unlinking
<1>3. Unasked' BY <1>0, <1>1, Actors DEF Calm, Unasked
<1>4. Withdrawn' BY <1>0, <1>1, <1>2, Actors DEF Calm, Withdrawn, Early
<1> QED BY <1>0, <1>3, <1>4

(* Without a server nobody is early, and the reaper writes "error" only. *)
LEMMA BootWithdrawn ==
    ASSUME Calm, Crash \/ Boot \/ Reap \/ BootDone
    PROVE  /\ (Unasked /\ Withdrawn)'
           /\ \A r \in Record : file'[r] = file[r] \/ file'[r] \notin InFlight
<1>1. CASE Crash
  <2>1. \A r \in Record : pc'[r] \in {"idle", "finished", "dead"}
                          /\ (pc'[r] = "idle" => pc[r] = "idle")
    BY <1>1, Actors DEF Crash, Calm, InvParts, Places
  <2>2. UNCHANGED <<file, asked>> BY <1>1 DEF Crash
  <2> QED BY <2>1, <2>2 DEF Calm, Unasked, Withdrawn, Early
<1>2. ASSUME Boot \/ Reap \/ BootDone
      PROVE  /\ server # "up" /\ UNCHANGED asked
             /\ \A r \in Record : pc'[r] = pc[r]
             /\ \A r \in Record : file'[r] = file[r] \/ file'[r] \notin InFlight
  <2> USE Actors DEF Calm, Typed, TypeOK, FilesTypeOK, Goto, serverVars, fileVars
  <2>1. CASE Boot \/ BootDone BY <2>1 DEF Boot, BootDone
  <2>2. ASSUME NEW r \in Record, ReapSkip(r) PROVE <1>2!2
    BY <2>2 DEF ReapSkip
  <2>3. ASSUME NEW r \in Record, ReapOpen(r) PROVE <1>2!2
    BY <2>3, Contents DEF ReapOpen
  <2>4. CASE ReapWrite
    <3>1. server = "booting" /\ rec[Reaper] = "error" /\ job[Reaper] \in Record
      BY <2>4 DEF ReapWrite, InvParts, Places
    <3> QED BY <2>4, <3>1 DEF ReapWrite, InFlight
  <2> QED BY <1>2, <2>1, <2>2, <2>3, <2>4 DEF Reap
<1>3. CASE Boot \/ Reap \/ BootDone
  <2>1. \A r \in Record : pc'[r] \in {"idle", "finished", "dead"} /\ pc'[r] = pc[r]
    BY <1>2, <1>3 DEF Calm, InvParts, Quiet
  <2>2. Unasked' /\ Withdrawn' BY <1>2, <1>3, <2>1 DEF Calm, Unasked, Withdrawn, Early
  <2> QED BY <1>2, <1>3, <2>2
<1> QED BY <1>1, <1>3

LEMMA NextWithdrawn ==
    ASSUME ~windows, Calm, [Next]_vars
    PROVE  /\ (Unasked /\ Withdrawn)'
           /\ \A r \in Record : file[r] \in Terminal /\ file'[r] \in InFlight => Deleting(r)
<1>0. Terminal \cap InFlight = {} BY DEF Terminal, InFlight
<1> DEFINE Good == /\ (Unasked /\ Withdrawn)'
                   /\ \A r \in Record :
                        file[r] \in Terminal /\ file'[r] \in InFlight => Deleting(r)
<1>1. ASSUME NEW r \in Record, Worker(r) PROVE Good
  BY <1>0, <1>1, WorkerWithdrawn, SaveWithdrawn DEF Worker
<1>2. ASSUME NEW d \in Deleter, Delete(d) PROVE Good
  BY <1>0, <1>2, BeginDeleteWithdrawn, FinishDeleteWithdrawn, SaveWithdrawn DEF Delete
<1>3. ASSUME NEW p \in Poller, Poll(p) PROVE Good BY <1>0, <1>3, PollWithdrawn
<1>4. CASE Crash \/ Boot \/ Reap \/ BootDone BY <1>0, <1>4, BootWithdrawn
<1>5. CASE UNCHANGED vars
  BY <1>0, <1>5 DEF vars, fileVars, Calm, Unasked, Withdrawn, Early, Unlinking
<1> QED BY <1>1, <1>2, <1>3, <1>4, <1>5 DEF Next

(* On POSIX, whatever DELETEs, crashes and boots do to one another, a task *)
(* that showed a final status is in flight again only while a DELETE of it *)
(* is still being served.                                                  *)
THEOREM NoRevivalAlways == Spec => NoRevival
<1> DEFINE Inv == Typed /\ Alone /\ (~windows => InvParts /\ Unasked /\ Withdrawn)
<1>1. Init => Inv BY InitTyped, InitAlone, InitInv, InitUnasked
<1>2. Inv /\ [Next]_vars => Inv'
  BY NextTyped, NextAlone, NextInv, NextWithdrawn, PlatformStays DEF Calm
<1>3. Inv /\ [Next]_vars =>
        [\A r \in Record :
           ~windows /\ file[r] \in Terminal /\ file'[r] \in InFlight => Deleting(r)]_vars
  BY NextWithdrawn DEF Calm
<1> HIDE DEF Inv
<1> QED BY <1>1, <1>2, <1>3, PTL DEF Spec, NoRevival
=============================================================================
