-------------------------- MODULE SchedulesProofs --------------------------
(***************************************************************************)
(* Schedules for any number of schedules, request threads, minutes, rename *)
(* attempts and crashes, on either platform.                               *)
(*                                                                         *)
(* Five results, from simplest to hardest:                                 *)
(*   - whatever overwrites whatever, a record's next_run_at is a minute    *)
(*     its own cron expression matches (NextMatchesAlways);                *)
(*   - a schedule deleted while nobody else used it stays deleted          *)
(*     (QuietDeleteAlways);                                                *)
(*   - a schedule paused while nobody else used it is not fired            *)
(*     (QuietPauseAlways);                                                 *)
(*   - without PATCHes and crashes, an occurrence starts one run           *)
(*     (OncePerOccurrenceAlways);                                          *)
(*   - without PATCHes, and whatever crashes, none is passed over          *)
(*     (NothingSkippedAlways).                                             *)
(***************************************************************************)
EXTENDS Schedules, WellFoundedInduction, TLAPS

-----------------------------------------------------------------------------
(* next_run *)

LEMMA LeastExists ==
    ASSUME NEW T, T \subseteq Nat, T # {}
    PROVE  \E x \in T : \A y \in T : x <= y
<1>1. PICK x \in T : \A y \in T : ~ (<<y, x>> \in OpToRel(<, Nat))
  BY NatLessThanWellFounded, WFMin
<1>2. ASSUME NEW y \in T PROVE x <= y
  <2>1. ~ (<<y, x>> \in OpToRel(<, Nat)) BY <1>1
  <2>2. ~ (y < x) BY <2>1 DEF OpToRel
  <2> QED BY <2>2
<1> QED BY <1>2

(* A record whose next_run_at its own expression matches. *)
Good == {r \in Schedule : r.next \in Matches[r.cron] \cup {Never}}

LEMMA NextRunMatches ==
    ASSUME NEW c \in Cron, NEW t PROVE NextRun(c, t) \in Matches[c] \cup {Never}
<1> DEFINE later == {m \in Matches[c] : m > t}
<1>1. CASE later = {} BY <1>1 DEF NextRun
<1>2. CASE later # {}
  <2>1. later \subseteq Nat BY SchedulesAssumption
  <2>2. \E x \in later : \A y \in later : x <= y BY <1>2, <2>1, LeastExists
  <2>3. Min(later) \in later BY <2>2 DEF Min
  <2> QED BY <1>2, <2>3 DEF NextRun
<1> QED BY <1>1, <1>2

LEMMA GoodRecords ==
    /\ Blank \in Good
    /\ \A c \in Cron, on \in BOOLEAN : New(c, on) \in Good
    /\ \A r \in Good, e \in Edit : Edited(r, e) \in Good
    /\ \A r \in Good : \A t : [r EXCEPT !.next = NextRun(r.cron, t)] \in Good
    /\ \A r \in Good : [r EXCEPT !.next = Never] \in Good
<1>0. \A c \in Cron : Matches[c] \subseteq Nat BY SchedulesAssumption
<1>1. \A c \in Cron : \A t : NextRun(c, t) \in Matches[c] \cup {Never} BY NextRunMatches
<1>2. Blank \in Good BY SchedulesAssumption DEF Blank, Good, Schedule, Never
<1>3. ASSUME NEW r \in Good, NEW e \in Edit PROVE Edited(r, e) \in Good
  <2>1. /\ e.cron \in Cron \cup {Unset} /\ e.enabled \in BOOLEAN \cup {Unset}
    BY SchedulesAssumption
  <2>2. r.cron \in Cron /\ r.enabled \in BOOLEAN BY DEF Good, Schedule
  <2> QED BY <1>0, <1>1, <2>1, <2>2 DEF Edited, Good, Schedule, Never
<1> QED BY <1>0, <1>1, <1>2, <1>3 DEF New, Good, Schedule, Never

-----------------------------------------------------------------------------
(* Every copy of a record is good: on disk, half-way there, in a thread's  *)
(* hands and in what the pass loaded.                                      *)

MatchInv ==
    /\ file \in [Record -> Good \cup Unreadable \cup {NoFile}]
    /\ tmp \in [Record -> Good \cup Unreadable \cup {NoFile}]
    /\ rec \in [Actor -> Good]
    /\ mem \in [Record -> Good \cup {NoFile}]

LEMMA ReadableGood == MatchInv => \A s \in Record : Readable(s) => file[s] \in Good
BY DEF MatchInv, Readable, Unreadable

LEMMA MatchInit == Init => MatchInv
BY GoodRecords DEF Init, FilesInit, MatchInv, Nothing

LEMMA MatchSave == ASSUME MatchInv, NEW a \in Actor, Save(a) PROVE MatchInv'
<1> USE DEF MatchInv
<1>0. rec[a] \in Good BY DEF MatchInv
<1>1. CASE SaveOpen(a) BY <1>1 DEF SaveOpen, OpenTmp, passVars, Unreadable
<1>2. CASE SaveWrite(a)
  BY <1>0, <1>2 DEF SaveWrite, WriteOut, Overlay, passVars, Unreadable
<1>3. CASE SaveReplace(a)
  <2>1. file' \in [Record -> Good \cup Unreadable \cup {NoFile}]
    BY <1>3 DEF SaveReplace, Replace
  <2>2. tmp' \in [Record -> Good \cup Unreadable \cup {NoFile}]
    BY <1>3 DEF SaveReplace, Replace
  <2> QED BY <1>3, <2>1, <2>2, GoodRecords DEF SaveReplace, Release, passVars
<1>4. CASE SaveRetry(a) BY <1>4 DEF SaveRetry, fileVars, passVars
<1>5. CASE SaveFails(a) BY <1>5, GoodRecords DEF SaveFails, Release, Nothing, passVars
<1>6. CASE SaveFallback(a) BY <1>6 DEF SaveFallback, OpenFile, passVars, Unreadable
<1>7. CASE SaveRewrite(a)
  BY <1>0, <1>7, GoodRecords DEF SaveRewrite, WriteOut, Overlay, Release, passVars, Unreadable
<1> QED BY <1>1, <1>2, <1>3, <1>4, <1>5, <1>6, <1>7 DEF Save

LEMMA MatchRequest == ASSUME MatchInv, NEW h \in Handler, Request(h) PROVE MatchInv'
<1>1. ASSUME NEW s \in Record, NEW r \in Good, Reads(h, s, r) PROVE MatchInv'
  BY <1>1 DEF Reads, MatchInv, passVars
<1>2. PICK s \in Record : Create(h, s) \/ ScheduleTask(h, s) \/ Patch(h, s) \/ Delete(h, s)
  BY DEF Request
<1>3. CASE Create(h, s) BY <1>1, <1>3, GoodRecords DEF Create
<1>4. CASE ScheduleTask(h, s) BY <1>1, <1>4, GoodRecords DEF ScheduleTask
<1>5. CASE Patch(h, s) BY <1>1, <1>5, GoodRecords, ReadableGood DEF Patch
<1>6. CASE Delete(h, s) BY <1>6 DEF Delete, UnlinkFile, MatchInv, passVars
<1> QED BY <1>2, <1>3, <1>4, <1>5, <1>6

LEMMA MatchPass == ASSUME MatchInv, Pass PROVE MatchInv'
<1> USE DEF MatchInv, fileVars
<1>0. Ticker \in Actor BY SchedulesAssumption
<1>1. CASE Wake BY <1>1, ReadableGood DEF Wake
<1>2. CASE Launch
  <2>1. rec'[Ticker] \in Good BY <1>0, <1>2, GoodRecords DEF Launch
  <2> QED BY <1>0, <1>2, <2>1 DEF Launch, passVars
<1>3. CASE NoUser
  <2>1. rec'[Ticker] \in Good BY <1>0, <1>3, GoodRecords DEF NoUser
  <2> QED BY <1>0, <1>3, <2>1 DEF NoUser, passVars
<1>4. CASE EndPass BY <1>4 DEF EndPass
<1>5. CASE Save(Ticker) BY <1>0, <1>5, MatchSave
<1>6. ASSUME NEW s \in Record, Skip(s) \/ Arm(s) \/ SaveTask(s) PROVE MatchInv'
  <2>1. mem[s] \in Good BY <1>6 DEF Skip, Arm, SaveTask, Visit
  <2>2. [mem[s] EXCEPT !.next = NextRun(mem[s].cron, at)] \in Good BY <2>1, GoodRecords
  <2>3. CASE Skip(s) BY <2>3 DEF Skip
  <2>4. CASE Arm(s) BY <2>2, <2>4 DEF Arm, Keep
  <2>5. CASE SaveTask(s) BY <2>1, <2>5 DEF SaveTask, Keep
  <2> QED BY <1>6, <2>3, <2>4, <2>5
<1> QED BY <1>1, <1>2, <1>3, <1>4, <1>5, <1>6 DEF Pass

LEMMA MatchNext == MatchInv /\ [Next]_vars => MatchInv'
<1> SUFFICES ASSUME MatchInv, [Next]_vars PROVE MatchInv' OBVIOUS
<1>1. ASSUME NEW h \in Handler, Save(h) PROVE MatchInv'
  BY <1>1, MatchSave, SchedulesAssumption
<1>2. CASE Tick BY <1>2 DEF Tick, MatchInv, fileVars, passVars
<1>3. CASE Crash BY <1>3, GoodRecords DEF Crash, MatchInv, Nothing
<1>4. CASE Boot BY <1>4 DEF Boot, MatchInv, fileVars, passVars
<1>5. ASSUME NEW s \in Record, DropOwner(s) PROVE MatchInv'
  BY <1>5 DEF DropOwner, MatchInv, fileVars, passVars
<1>6. CASE UNCHANGED vars BY <1>6 DEF vars, MatchInv, fileVars, passVars
<1> QED BY <1>1, <1>2, <1>3, <1>4, <1>5, <1>6, MatchRequest, MatchPass DEF Next

(* However PATCHes, the tool and the ticker overwrite one another's saves, *)
(* and wherever a crash leaves them, a record that can be read carries a   *)
(* next_run_at that its own cron expression matches.                       *)
THEOREM NextMatchesAlways == Spec => []NextMatchesCron
<1>1. MatchInv => NextMatchesCron BY ReadableGood DEF NextMatchesCron, Good
<1> QED BY MatchInit, MatchNext, <1>1, PTL DEF Spec

-----------------------------------------------------------------------------
(* Who works on what. *)

Shape ==
    /\ job \in [Actor -> Record \cup {NoRecord}]
    /\ fd \in [Actor -> {"closed", "tmp", "file", "unlinked"}]
    /\ pc \in [Actor -> Saving \cup {"idle", "scan", "fired"}]
    /\ deleted \in [Record -> Overlap] /\ paused \in [Record -> Overlap]
    /\ fired \in [Record -> [1 .. MaxTime -> 0 .. 2]]
    /\ alone \subseteq Handler
    /\ \A a \in Actor : pc[a] \in {"idle", "scan"} <=> job[a] = NoRecord

(* After a DELETE nothing overlapped, nobody has a copy to write back. *)
DeletedInv ==
    \A s \in Record : deleted[s] = "alone" =>
        /\ file[s] = NoFile /\ mem[s] = NoFile
        /\ \A a \in Actor : job[a] # s

(* A handler nobody overlapped publishes what it holds and nothing else. *)
AloneInv ==
    \A h \in alone : \E s \in Record :
        /\ job[h] = s /\ mem[s] = NoFile /\ pc[h] \in Saving
        /\ \A b \in Actor \ {h} : job[b] # s
        /\ pc[h] = "write" => fd[h] = "tmp" /\ tmp[s] = Empty
        /\ pc[h] \in {"replace", "fallback", "rewrite"} => tmp[s] = rec[h]
        /\ pc[h] = "rewrite" =>
              \/ fd[h] = "file" /\ file[s] = Empty
              \/ fd[h] = "unlinked" /\ file[s] = NoFile /\ deleted[s] # "no"

(* After a pause nothing overlapped, every copy of the record is disabled. *)
Off(c) == c \in Schedule => ~c.enabled
PausedInv ==
    \A s \in Record : paused[s] = "alone" =>
        /\ Off(file[s]) /\ Off(tmp[s]) /\ Off(mem[s])
        /\ \A a \in Actor : job[a] = s => ~rec[a].enabled
        /\ file[s] # NoFile \/ deleted[s] # "no"

(* A run is only started from an enabled record. *)
FiredInv == pc[Ticker] = "fired" => rec[Ticker].enabled

QuietInv == MatchInv /\ Shape /\ DeletedInv /\ AloneInv /\ PausedInv /\ FiredInv

LEMMA Apart ==
    /\ NoRecord \notin Record /\ Ticker \in Actor /\ Ticker \notin Handler /\ Handler \subseteq Actor
    /\ NoFile \notin Schedule /\ Empty \notin Schedule /\ Torn \notin Schedule
    /\ NoFile # Empty /\ NoFile # Torn /\ Empty # Torn
    /\ Good \subseteq Schedule
BY SchedulesAssumption, FilesAssumption, PayloadAssumption DEF Good

LEMMA QuietInit == Init => QuietInv
<1> SUFFICES ASSUME Init PROVE QuietInv OBVIOUS
<1>1. MatchInv BY MatchInit
<1>2. Shape BY Apart DEF Init, FilesInit, Shape, Saving, Overlap
<1> QED BY <1>1, <1>2, Apart DEF Init, FilesInit, QuietInv, DeletedInv, AloneInv, PausedInv, FiredInv

(* A step that touches neither files nor copies nor who is alone. *)
LEMMA QuietFrame ==
    ASSUME QuietInv, MatchInv',
           UNCHANGED <<file, tmp, job, fd, rec, pc, paused, deleted, fired, alone>>,
           \A s \in Record : mem'[s] = mem[s] \/ mem'[s] = NoFile
    PROVE  QuietInv'
<1>1. Shape' BY DEF QuietInv, Shape
<1>2. DeletedInv' BY DEF QuietInv, DeletedInv
<1>3. AloneInv' BY DEF QuietInv, AloneInv
<1>4. PausedInv' BY Apart DEF QuietInv, PausedInv, Off
<1>5. FiredInv' BY DEF QuietInv, FiredInv
<1> QED BY <1>1, <1>2, <1>3, <1>4, <1>5 DEF QuietInv

LEMMA QuietOpen == ASSUME QuietInv, MatchInv', NEW a \in Actor, SaveOpen(a) PROVE QuietInv'
<1>0. /\ pc[a] = "open" /\ pc' = [pc EXCEPT ![a] = "write"]
      /\ tmp' = [tmp EXCEPT ![job[a]] = Empty] /\ fd' = [fd EXCEPT ![a] = "tmp"]
      /\ UNCHANGED <<file, job, rec, mem, paused, deleted, fired, alone>>
  BY DEF SaveOpen, OpenTmp, Goto, passVars, taskVars, askVars
<1>1. Shape' BY <1>0 DEF QuietInv, Shape, Saving
<1>2. DeletedInv' BY <1>0 DEF QuietInv, DeletedInv
<1>3. AloneInv' BY <1>0, Apart DEF QuietInv, AloneInv, Shape, MatchInv, Saving
<1>4. PausedInv' BY <1>0, Apart DEF QuietInv, PausedInv, Off, MatchInv
<1>5. FiredInv' BY <1>0, Apart DEF QuietInv, FiredInv, Shape
<1> QED BY <1>1, <1>2, <1>3, <1>4, <1>5 DEF QuietInv

LEMMA QuietWrite == ASSUME QuietInv, MatchInv', NEW a \in Actor, SaveWrite(a) PROVE QuietInv'
<1>0. /\ pc[a] = "write" /\ pc' = [pc EXCEPT ![a] = "replace"]
      /\ fd' = [fd EXCEPT ![a] = "closed"]
      /\ UNCHANGED <<job, rec, mem, paused, deleted, fired, alone>>
  BY DEF SaveWrite, WriteOut, Goto, passVars, taskVars, askVars
<1>a. \/ /\ fd[a] = "tmp" /\ UNCHANGED file
          /\ \E c \in Overlay(tmp[job[a]], rec[a]) : tmp' = [tmp EXCEPT ![job[a]] = c]
      \/ /\ fd[a] = "file" /\ UNCHANGED tmp
          /\ \E c \in Overlay(file[job[a]], rec[a]) : file' = [file EXCEPT ![job[a]] = c]
      \/ UNCHANGED <<file, tmp>>
  BY DEF SaveWrite, WriteOut
<1>b. rec[a] \in Schedule /\ job[a] \in Record
  BY <1>0, Apart DEF QuietInv, MatchInv, Shape, Saving
<1>1. Shape' BY <1>0 DEF QuietInv, Shape, Saving
<1>2. DeletedInv' BY <1>0, <1>a DEF QuietInv, DeletedInv, MatchInv
<1>3. AloneInv'
  <2> SUFFICES ASSUME NEW h \in alone PROVE
        \E s \in Record :
            /\ job[h] = s /\ mem[s] = NoFile /\ pc'[h] \in Saving
            /\ \A b \in Actor \ {h} : job[b] # s
            /\ pc'[h] = "write" => fd'[h] = "tmp" /\ tmp'[s] = Empty
            /\ pc'[h] \in {"replace", "fallback", "rewrite"} => tmp'[s] = rec[h]
            /\ pc'[h] = "rewrite" =>
                  \/ fd'[h] = "file" /\ file'[s] = Empty
                  \/ fd'[h] = "unlinked" /\ file'[s] = NoFile /\ deleted[s] # "no"
    BY <1>0 DEF AloneInv
  <2>1. h \in Actor /\ job[h] \in Record BY Apart DEF QuietInv, Shape, AloneInv
  <2>2. CASE h # a
    <3>1. job[h] # job[a] BY <2>2 DEF QuietInv, AloneInv
    <3> QED BY <1>0, <1>a, <1>b, <2>1, <2>2, <3>1 DEF QuietInv, AloneInv, Shape, MatchInv
  <2>3. CASE h = a
    <3>1. fd[a] = "tmp" /\ tmp[job[a]] = Empty BY <1>0, <2>3 DEF QuietInv, AloneInv
    <3>2. tmp' = [tmp EXCEPT ![job[a]] = rec[a]]
      BY <3>1, <1>0 DEF SaveWrite, WriteOut, Overlay
    <3> QED BY <1>0, <1>b, <2>1, <2>3, <3>2 DEF QuietInv, AloneInv, Shape, MatchInv, Saving
  <2> QED BY <2>2, <2>3
<1>4. PausedInv' BY <1>0, <1>a, <1>b, Apart DEF QuietInv, PausedInv, Off, MatchInv, Overlay
<1>5. FiredInv' BY <1>0, Apart DEF QuietInv, FiredInv, Shape
<1> QED BY <1>1, <1>2, <1>3, <1>4, <1>5 DEF QuietInv

(* The save is over: what is published is what the saver held. *)
LEMMA QuietSaved ==
    ASSUME QuietInv, MatchInv', NEW a \in Actor, pc[a] \in Saving,
           Release(a), Saved(a), UNCHANGED <<mem, fired>>,
           fd' \in [Actor -> {"closed", "tmp", "file", "unlinked"}],
           \A s \in Record : s # job[a] => file'[s] = file[s] /\ tmp'[s] = tmp[s],
           \A b \in Actor : job[b] # job[a] => fd'[b] = fd[b],
           paused[job[a]] = "alone" => Off(file'[job[a]]) /\ Off(tmp'[job[a]]),
           a \in alone => tmp'[job[a]] \in {NoFile, rec[a]}
                         /\ (file'[job[a]] = rec[a] \/ file'[job[a]] = NoFile),
           a \in alone => file'[job[a]] # NoFile \/ deleted[job[a]] # "no",
           file[job[a]] # NoFile => file'[job[a]] # NoFile
    PROVE  QuietInv'
<1>b. rec[a] \in Schedule /\ job[a] \in Record
  BY Apart DEF QuietInv, MatchInv, Shape, Saving
<1>0. /\ job' = [job EXCEPT ![a] = NoRecord] /\ rec' = [rec EXCEPT ![a] = Blank]
      /\ deleted' = deleted
      /\ pc' = [pc EXCEPT ![a] = IF a = Ticker THEN "scan" ELSE "idle"]
  BY DEF Release, Saved, Goto, askVars
<1>c. /\ alone' \subseteq alone /\ a \notin alone'
      /\ \A s \in Record : paused'[s] = "alone" =>
            paused[s] = "alone" \/ (s = job[a] /\ ~rec[a].enabled /\ a \in alone)
      /\ paused' \in [Record -> Overlap]
  BY <1>b, Apart DEF Saved, askVars, QuietInv, Shape, Overlap
<1>1. Shape' BY <1>0, <1>c DEF QuietInv, Shape, Saving
<1>2. DeletedInv' BY <1>0, <1>b, Apart DEF QuietInv, DeletedInv, Shape
<1>3. AloneInv'
  <2> SUFFICES ASSUME NEW h \in alone' PROVE
        \E s \in Record :
            /\ job'[h] = s /\ mem'[s] = NoFile /\ pc'[h] \in Saving
            /\ \A b \in Actor \ {h} : job'[b] # s
            /\ pc'[h] = "write" => fd'[h] = "tmp" /\ tmp'[s] = Empty
            /\ pc'[h] \in {"replace", "fallback", "rewrite"} => tmp'[s] = rec'[h]
            /\ pc'[h] = "rewrite" =>
                  \/ fd'[h] = "file" /\ file'[s] = Empty
                  \/ fd'[h] = "unlinked" /\ file'[s] = NoFile /\ deleted'[s] # "no"
    BY DEF AloneInv
  <2>1. h \in alone /\ h # a /\ h \in Actor BY <1>c, Apart DEF QuietInv, Shape
  <2>2. job[h] # job[a] /\ job[h] \in Record BY <2>1 DEF QuietInv, AloneInv
  <2> QED BY <1>0, <1>b, <2>1, <2>2, Apart DEF QuietInv, AloneInv, Shape, MatchInv
<1>4. PausedInv'
  <2> SUFFICES ASSUME NEW s \in Record, paused'[s] = "alone" PROVE
        /\ Off(file'[s]) /\ Off(tmp'[s]) /\ Off(mem[s])
        /\ \A b \in Actor : job'[b] = s => ~(rec'[b].enabled)
        /\ file'[s] # NoFile \/ deleted[s] # "no"
    BY <1>0 DEF PausedInv, Off
  <2>1. CASE paused[s] = "alone"
    BY <1>0, <1>b, <2>1, Apart DEF QuietInv, PausedInv, Shape, MatchInv
  <2>2. CASE s = job[a] /\ ~rec[a].enabled /\ a \in alone
    <3>1. mem[s] = NoFile /\ \A b \in Actor \ {a} : job[b] # s
      BY <2>2 DEF QuietInv, AloneInv
    <3>2. \A b \in Actor : job'[b] # s BY <1>0, <1>b, <3>1, Apart DEF QuietInv, Shape
    <3> QED BY <1>0, <2>2, <3>1, <3>2, Apart DEF Off
  <2> QED BY <1>c, <2>1, <2>2
<1>5. FiredInv' BY <1>0, Apart DEF QuietInv, FiredInv, Shape
<1> QED BY <1>1, <1>2, <1>3, <1>4, <1>5 DEF QuietInv

LEMMA QuietReplace ==
    ASSUME QuietInv, MatchInv', NEW a \in Actor, SaveReplace(a) PROVE QuietInv'
<1> DEFINE s == job[a]
<1>0. /\ pc[a] = "replace" /\ tmp[s] # NoFile
      /\ file' = [file EXCEPT ![s] = tmp[s]] /\ tmp' = [tmp EXCEPT ![s] = NoFile]
      /\ Release(a) /\ Saved(a) /\ UNCHANGED <<mem, fired>>
      /\ fd' = [b \in Actor |->
                  IF job[b] # s THEN fd[b]
                  ELSE IF fd[b] = "tmp" THEN "file"
                  ELSE IF fd[b] = "file" THEN "unlinked" ELSE fd[b]]
  BY DEF SaveReplace, Replace, passVars, taskVars
<1>1. s \in Record BY <1>0 DEF QuietInv, Shape
<1>2. a \in alone => tmp[s] = rec[a] BY <1>0 DEF QuietInv, AloneInv
<1>3. fd' \in [Actor -> {"closed", "tmp", "file", "unlinked"}]
  BY <1>0 DEF QuietInv, Shape
<1>4. file'[s] = tmp[s] /\ tmp'[s] = NoFile /\ Off(NoFile)
  BY <1>0, <1>1, Apart DEF QuietInv, MatchInv, Off
<1>5. paused[s] = "alone" => Off(tmp[s]) BY <1>1 DEF QuietInv, PausedInv
<1>6. \A r \in Record : r # s => file'[r] = file[r] /\ tmp'[r] = tmp[r]
  BY <1>0 DEF QuietInv, MatchInv
<1>7. \A b \in Actor : job[b] # s => fd'[b] = fd[b] BY <1>0
<1> HIDE DEF s
<1> QED BY <1>0, <1>2, <1>3, <1>4, <1>5, <1>6, <1>7, QuietSaved DEF s, Saving

LEMMA QuietRewrite ==
    ASSUME QuietInv, MatchInv', NEW a \in Actor, SaveRewrite(a) PROVE QuietInv'
<1> DEFINE s == job[a]
<1>0. /\ pc[a] = "rewrite" /\ fd' = [fd EXCEPT ![a] = "closed"]
      /\ Release(a) /\ Saved(a) /\ UNCHANGED <<mem, fired>>
      /\ \/ /\ fd[a] = "tmp" /\ UNCHANGED file
            /\ \E c \in Overlay(tmp[s], rec[a]) : tmp' = [tmp EXCEPT ![s] = c]
         \/ /\ fd[a] = "file" /\ UNCHANGED tmp
            /\ \E c \in Overlay(file[s], rec[a]) : file' = [file EXCEPT ![s] = c]
         \/ fd[a] = "unlinked" /\ UNCHANGED <<file, tmp>>
  BY DEF SaveRewrite, WriteOut, passVars, taskVars
<1>1. s \in Record /\ rec[a] \in Schedule
  BY <1>0, Apart DEF QuietInv, Shape, MatchInv
<1>2. fd' \in [Actor -> {"closed", "tmp", "file", "unlinked"}]
  BY <1>0 DEF QuietInv, Shape
<1>3. \A r \in Record : r # s => file'[r] = file[r] /\ tmp'[r] = tmp[r]
  BY <1>0 DEF QuietInv, MatchInv
<1>4. \A b \in Actor : job[b] # s => fd'[b] = fd[b] BY <1>0 DEF QuietInv, Shape
<1>5. paused[s] = "alone" => Off(file'[s]) /\ Off(tmp'[s])
  <2> HAVE paused[s] = "alone"
  <2>1. Off(file[s]) /\ Off(tmp[s]) /\ Off(rec[a]) /\ Off(Torn)
    BY <1>1, Apart DEF QuietInv, PausedInv, Off
  <2>2. \A c \in Overlay(file[s], rec[a]) \cup Overlay(tmp[s], rec[a]) : Off(c)
    BY <2>1 DEF Overlay
  <2> QED BY <1>0, <1>1, <2>1, <2>2 DEF QuietInv, MatchInv
<1>6. ASSUME a \in alone
      PROVE  /\ tmp'[s] \in {NoFile, rec[a]}
             /\ file'[s] = rec[a] \/ file'[s] = NoFile
             /\ file'[s] # NoFile \/ deleted[s] # "no"
  <2>1. /\ tmp[s] = rec[a]
        /\ \/ fd[a] = "file" /\ file[s] = Empty
           \/ fd[a] = "unlinked" /\ file[s] = NoFile /\ deleted[s] # "no"
    BY <1>0, <1>6 DEF QuietInv, AloneInv
  <2>2. CASE fd[a] = "file" /\ file[s] = Empty
    <3>1. file' = [file EXCEPT ![s] = rec[a]] /\ tmp' = tmp BY <1>0, <2>2 DEF Overlay
    <3> QED BY <1>1, <2>1, <3>1, Apart DEF QuietInv, MatchInv
  <2>3. CASE fd[a] = "unlinked" /\ file[s] = NoFile /\ deleted[s] # "no"
    BY <1>0, <2>1, <2>3
  <2> QED BY <2>1, <2>2, <2>3
<1>7. file[s] # NoFile => file'[s] # NoFile
  BY <1>0, <1>1, Apart DEF QuietInv, MatchInv, Overlay
<1> HIDE DEF s
<1> QED BY <1>0, <1>2, <1>3, <1>4, <1>5, <1>6, <1>7, QuietSaved DEF s, Saving

LEMMA QuietSave == ASSUME QuietInv, MatchInv', NEW a \in Actor, Save(a) PROVE QuietInv'
<1>1. CASE SaveRetry(a)
  <2>0. /\ pc[a] = "replace" /\ pc' \in {pc, [pc EXCEPT ![a] = "fallback"]}
        /\ UNCHANGED <<file, tmp, job, fd, rec, mem, paused, deleted, fired, alone>>
    BY <1>1 DEF SaveRetry, Goto, fileVars, passVars, taskVars, askVars
  <2>1. Shape' BY <2>0 DEF QuietInv, Shape, Saving
  <2>2. DeletedInv' BY <2>0 DEF QuietInv, DeletedInv
  <2>3. AloneInv' BY <2>0, Apart DEF QuietInv, AloneInv, Shape, Saving
  <2>4. PausedInv' BY <2>0 DEF QuietInv, PausedInv, Off
  <2>5. FiredInv' BY <2>0, Apart DEF QuietInv, FiredInv, Shape
  <2> QED BY <2>1, <2>2, <2>3, <2>4, <2>5 DEF QuietInv
<1>2. CASE SaveFails(a)
  <2>0. /\ pc[a] = "replace" /\ pc' = [pc EXCEPT ![a] = "idle"]
        /\ job' = [job EXCEPT ![a] = NoRecord] /\ rec' = [rec EXCEPT ![a] = Blank]
        /\ mem' = mem \/ mem' = Nothing
        /\ UNCHANGED <<file, tmp, fd, paused, deleted, fired>>
        /\ alone' = alone \ {a}
    BY <1>2, Apart DEF SaveFails, Release, Goto, fileVars, passVars, taskVars, askVars,
                      QuietInv, Shape
  <2>1. Shape' BY <2>0, Apart DEF QuietInv, Shape, Saving
  <2>2. DeletedInv' BY <2>0, Apart DEF QuietInv, DeletedInv, Shape, Nothing
  <2>3. AloneInv' BY <2>0, Apart DEF QuietInv, AloneInv, Shape, MatchInv, Nothing
  <2>4. PausedInv' BY <2>0, Apart DEF QuietInv, PausedInv, Off, Shape, MatchInv, Nothing
  <2>5. FiredInv' BY <2>0, Apart DEF QuietInv, FiredInv, Shape
  <2> QED BY <2>1, <2>2, <2>3, <2>4, <2>5 DEF QuietInv
<1>3. CASE SaveFallback(a)
  <2>0. /\ pc[a] = "fallback" /\ pc' = [pc EXCEPT ![a] = "rewrite"]
        /\ file' = [file EXCEPT ![job[a]] = Empty] /\ fd' = [fd EXCEPT ![a] = "file"]
        /\ UNCHANGED <<tmp, job, rec, mem, paused, deleted, fired, alone>>
    BY <1>3 DEF SaveFallback, OpenFile, Goto, passVars, taskVars, askVars
  <2>1. Shape' BY <2>0 DEF QuietInv, Shape, Saving
  <2>2. DeletedInv' BY <2>0 DEF QuietInv, DeletedInv, MatchInv
  <2>3. AloneInv' BY <2>0, Apart DEF QuietInv, AloneInv, Shape, MatchInv, Saving
  <2>4. PausedInv' BY <2>0, Apart DEF QuietInv, PausedInv, Off, MatchInv
  <2>5. FiredInv' BY <2>0, Apart DEF QuietInv, FiredInv, Shape
  <2> QED BY <2>1, <2>2, <2>3, <2>4, <2>5 DEF QuietInv
<1> QED
  BY <1>1, <1>2, <1>3, QuietOpen, QuietWrite, QuietReplace, QuietRewrite DEF Save

(* A request begins its save: it is alone if nobody else has the record,   *)
(* and then nobody who has it stays alone.                                 *)
LEMMA QuietReads ==
    ASSUME QuietInv, MatchInv', NEW h \in Handler, NEW s \in Record, NEW r \in Good,
           Reads(h, s, r), deleted[s] # "alone", paused' \in [Record -> Overlap],
           \A q \in Record : paused'[q] = "alone" => paused[q] = "alone" /\ (q = s => ~r.enabled)
    PROVE  QuietInv'
<1>0. /\ pc[h] = "idle" /\ pc' = [pc EXCEPT ![h] = "open"]
      /\ job' = [job EXCEPT ![h] = s] /\ rec' = [rec EXCEPT ![h] = r]
      /\ UNCHANGED <<file, tmp, fd, mem, deleted, fired>>
  BY DEF Reads, Goto, passVars, taskVars
<1>a. /\ alone' = IF Shared(h, s) THEN alone \ ({h} \cup {b \in Handler : job[b] = s})
                  ELSE alone \cup {h}
      /\ h \in Actor /\ h # Ticker
  BY Apart DEF Reads
<1>1. Shape' BY <1>0, <1>a, Apart DEF QuietInv, Shape, Saving
<1>2. DeletedInv' BY <1>0, <1>a, Apart DEF QuietInv, DeletedInv, Shape
<1>3. AloneInv'
  <2> SUFFICES ASSUME NEW g \in alone' PROVE
        \E q \in Record :
            /\ job'[g] = q /\ mem[q] = NoFile /\ pc'[g] \in Saving
            /\ \A b \in Actor \ {g} : job'[b] # q
            /\ pc'[g] = "write" => fd[g] = "tmp" /\ tmp[q] = Empty
            /\ pc'[g] \in {"replace", "fallback", "rewrite"} => tmp[q] = rec'[g]
            /\ pc'[g] = "rewrite" =>
                  \/ fd[g] = "file" /\ file[q] = Empty
                  \/ fd[g] = "unlinked" /\ file[q] = NoFile /\ deleted[q] # "no"
    BY <1>0 DEF AloneInv
  <2>1. CASE g = h
    <3>1. ~Shared(h, s) BY <1>a, <2>1
    <3>2. mem[s] = NoFile /\ \A b \in Actor \ {h} : job[b] # s BY <3>1 DEF Shared
    <3> QED BY <1>0, <1>a, <2>1, <3>2 DEF QuietInv, Shape, Saving
  <2>2. CASE g # h
    <3>1. g \in alone /\ g \in Actor BY <1>a, <2>2, Apart DEF QuietInv, Shape
    <3>2. job[g] # s
      <4>1. CASE Shared(h, s) BY <1>a, <4>1, <3>1 DEF QuietInv, Shape
      <4>2. CASE ~Shared(h, s) BY <2>2, <3>1, <4>2 DEF Shared
      <4> QED BY <4>1, <4>2
    <3> QED BY <1>0, <1>a, <2>2, <3>1, <3>2 DEF QuietInv, AloneInv, Shape, MatchInv
  <2> QED BY <2>1, <2>2
<1>4. PausedInv' BY <1>0, <1>a DEF QuietInv, PausedInv, Off, Shape, MatchInv
<1>5. FiredInv' BY <1>0, <1>a, Apart DEF QuietInv, FiredInv, Shape
<1> QED BY <1>1, <1>2, <1>3, <1>4, <1>5 DEF QuietInv

(* DELETE unlinks; whoever has the file open goes on writing into nothing. *)
LEMMA QuietDelete ==
    ASSUME QuietInv, MatchInv', NEW h \in Handler, NEW s \in Record, Delete(h, s)
    PROVE  QuietInv'
<1>0. /\ pc[h] = "idle" /\ file[s] # NoFile
      /\ deleted' = [deleted EXCEPT ![s] = IF Shared(h, s) THEN "raced" ELSE "alone"]
      /\ UNCHANGED <<tmp, job, pc, rec, mem, fired, paused, alone>>
      /\ h \in Actor
  BY Apart DEF Delete, UnlinkFile, passVars, taskVars
<1>a. IF windows /\ Held(h, s, {"file"})
      THEN UNCHANGED <<file, fd>>
      ELSE /\ file' = [file EXCEPT ![s] = NoFile]
           /\ fd' = [b \in Actor |->
                       IF job[b] = s /\ fd[b] = "file" THEN "unlinked" ELSE fd[b]]
  BY DEF Delete, UnlinkFile
<1>b. deleted'[s] # "no" BY <1>0 DEF QuietInv, Shape
<1>1. Shape' BY <1>0, <1>a DEF QuietInv, Shape, Overlap
<1>2. DeletedInv'
  <2> SUFFICES ASSUME NEW q \in Record, deleted'[q] = "alone" PROVE
        file'[q] = NoFile /\ mem[q] = NoFile /\ \A a \in Actor : job[a] # q
    BY <1>0 DEF DeletedInv
  <2>1. CASE q = s
    <3>1. ~Shared(h, s) BY <1>0, <2>1 DEF QuietInv, Shape
    <3>2. mem[s] = NoFile /\ \A a \in Actor : job[a] # s
      BY <1>0, <3>1, Apart DEF Shared, QuietInv, Shape
    <3>3. ~Held(h, s, {"file"}) BY <3>2 DEF Held
    <3> QED BY <1>a, <2>1, <3>2, <3>3 DEF QuietInv, MatchInv
  <2>2. CASE q # s BY <1>0, <1>a, <2>2 DEF QuietInv, DeletedInv, Shape, MatchInv
  <2> QED BY <2>1, <2>2
<1>3. AloneInv'
  <2> SUFFICES ASSUME NEW g \in alone PROVE
        \E q \in Record :
            /\ job[g] = q /\ mem[q] = NoFile /\ pc[g] \in Saving
            /\ \A b \in Actor \ {g} : job[b] # q
            /\ pc[g] = "write" => fd'[g] = "tmp" /\ tmp[q] = Empty
            /\ pc[g] \in {"replace", "fallback", "rewrite"} => tmp[q] = rec[g]
            /\ pc[g] = "rewrite" =>
                  \/ fd'[g] = "file" /\ file'[q] = Empty
                  \/ fd'[g] = "unlinked" /\ file'[q] = NoFile /\ deleted'[q] # "no"
    BY <1>0 DEF AloneInv
  <2> DEFINE q == job[g]
  <2>1. /\ q \in Record /\ g \in Actor
        /\ pc[g] = "write" => fd[g] = "tmp"
        /\ pc[g] = "rewrite" =>
              \/ fd[g] = "file" /\ file[q] = Empty
              \/ fd[g] = "unlinked" /\ file[q] = NoFile /\ deleted[q] # "no"
    BY Apart DEF QuietInv, AloneInv, Shape
  <2>2. pc[g] = "write" => fd'[g] = "tmp" BY <1>a, <2>1
  <2>3. pc[g] = "rewrite" =>
              \/ fd'[g] = "file" /\ file'[q] = Empty
              \/ fd'[g] = "unlinked" /\ file'[q] = NoFile /\ deleted'[q] # "no"
    <3>1. CASE q = s
      BY <1>0, <1>a, <1>b, <2>1, <3>1 DEF QuietInv, MatchInv
    <3>2. CASE q # s
      BY <1>0, <1>a, <2>1, <3>2 DEF QuietInv, MatchInv, Shape
    <3> QED BY <3>1, <3>2
  <2> QED BY <2>2, <2>3 DEF QuietInv, AloneInv
<1>4. PausedInv' BY <1>0, <1>a, <1>b, Apart DEF QuietInv, PausedInv, Off, Shape, MatchInv
<1>5. FiredInv' BY <1>0 DEF QuietInv, FiredInv
<1> QED BY <1>1, <1>2, <1>3, <1>4, <1>5 DEF QuietInv

LEMMA QuietRequest ==
    ASSUME QuietInv, MatchInv', NEW h \in Handler, Request(h) PROVE QuietInv'
<1>1. PICK s \in Record : Create(h, s) \/ ScheduleTask(h, s) \/ Patch(h, s) \/ Delete(h, s)
  BY DEF Request
<1>2. ASSUME Fresh(s), NEW c \in Cron, NEW on \in BOOLEAN, Reads(h, s, New(c, on)), paused' = paused
      PROVE  QuietInv'
  <2>1. deleted[s] # "alone" /\ paused[s] # "alone"
    BY <1>2 DEF Fresh, QuietInv, PausedInv
  <2>2. New(c, on) \in Good BY GoodRecords
  <2> QED BY <1>2, <2>1, <2>2, QuietReads DEF QuietInv, Shape
<1>3. CASE Create(h, s) BY <1>2, <1>3 DEF Create
<1>4. CASE ScheduleTask(h, s) BY <1>2, <1>4 DEF ScheduleTask
<1>5. CASE Patch(h, s)
  <2>1. PICK e \in Edit : /\ Reads(h, s, Edited(file[s], e))
                          /\ paused' = [paused EXCEPT ![s] = IF e.enabled = TRUE THEN "no" ELSE @]
    BY <1>5 DEF Patch
  <2>2. file[s] \in Good /\ deleted[s] # "alone"
    BY <1>5, ReadableGood DEF Patch, QuietInv, DeletedInv, Readable
  <2>3. Edited(file[s], e) \in Good BY <2>2, GoodRecords
  <2>4. paused'[s] = "alone" => paused[s] = "alone" /\ ~Edited(file[s], e).enabled
    <3> HAVE paused'[s] = "alone"
    <3>1. paused[s] = "alone" /\ e.enabled # TRUE BY <2>1 DEF QuietInv, Shape
    <3>2. ~file[s].enabled BY <2>2, <3>1, Apart DEF QuietInv, PausedInv, Off
    <3>3. e.enabled \in BOOLEAN \cup {Unset} BY SchedulesAssumption
    <3> QED BY <3>1, <3>2, <3>3 DEF Edited
  <2>5. paused' \in [Record -> Overlap] BY <2>1 DEF QuietInv, Shape, Overlap
  <2>6. \A q \in Record : q # s => paused'[q] = paused[q] BY <2>1 DEF QuietInv, Shape
  <2> QED BY <2>1, <2>2, <2>3, <2>4, <2>5, <2>6, QuietReads
<1> QED BY <1>1, <1>3, <1>4, <1>5, QuietDelete

LEMMA OneMoreType ==
    ASSUME NEW runs \in [1 .. MaxTime -> 0 .. 2], NEW m
    PROVE  OneMore(runs, m) \in [1 .. MaxTime -> 0 .. 2]
<1> DEFINE n == IF runs[m] = 2 THEN 2 ELSE runs[m] + 1
<1>1. m \in 1 .. MaxTime => n \in 0 .. 2
  <2> HAVE m \in 1 .. MaxTime
  <2>1. runs[m] \in 0 .. 2 OBVIOUS
  <2> HIDE DEF n
  <2>2. \A k \in 0 .. 2 : (IF k = 2 THEN 2 ELSE k + 1) \in 0 .. 2 OBVIOUS
  <2> QED BY <2>1, <2>2 DEF n
<1> HIDE DEF n
<1>2. [runs EXCEPT ![m] = n] \in [1 .. MaxTime -> 0 .. 2]
  <2>1. ASSUME NEW k \in 1 .. MaxTime PROVE [runs EXCEPT ![m] = n][k] \in 0 .. 2
    BY <1>1
  <2> QED BY <2>1
<1> QED BY <1>2 DEF OneMore, n

LEMMA QuietPass == ASSUME QuietInv, MatchInv', Pass PROVE QuietInv'
<1>0. Ticker \in Actor /\ Ticker \notin Handler BY Apart
<1>1. CASE Wake
  <2>0. /\ pc[Ticker] = "idle" /\ pc' = [pc EXCEPT ![Ticker] = "scan"]
        /\ mem' = [s \in Record |-> IF Readable(s) THEN file[s] ELSE NoFile]
        /\ alone' = {h \in alone : job[h] # NoRecord /\ mem'[job[h]] = NoFile}
        /\ UNCHANGED <<file, tmp, job, fd, rec, paused, deleted, fired>>
    BY <1>1 DEF Wake, Goto, fileVars, taskVars
  <2>1. Shape' BY <2>0 DEF QuietInv, Shape
  <2>2. DeletedInv' BY <2>0 DEF QuietInv, DeletedInv, Readable
  <2>3. AloneInv'
    <3> SUFFICES ASSUME NEW g \in alone' PROVE
          \E q \in Record :
              /\ job[g] = q /\ mem'[q] = NoFile /\ pc'[g] \in Saving
              /\ \A b \in Actor \ {g} : job[b] # q
              /\ pc'[g] = "write" => fd[g] = "tmp" /\ tmp[q] = Empty
              /\ pc'[g] \in {"replace", "fallback", "rewrite"} => tmp[q] = rec[g]
              /\ pc'[g] = "rewrite" =>
                    \/ fd[g] = "file" /\ file[q] = Empty
                    \/ fd[g] = "unlinked" /\ file[q] = NoFile /\ deleted[q] # "no"
      BY <2>0 DEF AloneInv
    <3>1. g \in alone /\ mem'[job[g]] = NoFile /\ g \in Actor /\ g # Ticker
      BY <2>0, Apart DEF QuietInv, Shape
    <3>2. pc'[g] = pc[g] BY <2>0, <3>1 DEF QuietInv, Shape
    <3> QED BY <3>1, <3>2 DEF QuietInv, AloneInv
  <2>4. PausedInv' BY <2>0, Apart DEF QuietInv, PausedInv, Off
  <2>5. FiredInv' BY <1>0, <2>0 DEF FiredInv, QuietInv, Shape
  <2> QED BY <2>1, <2>2, <2>3, <2>4, <2>5 DEF QuietInv
<1>2. ASSUME pc[Ticker] = "fired", pc' = [pc EXCEPT ![Ticker] = "open"],
             rec'[Ticker].enabled = rec[Ticker].enabled,
             \A a \in Actor \ {Ticker} : rec'[a] = rec[a],
             fired' \in [Record -> [1 .. MaxTime -> 0 .. 2]],
             UNCHANGED <<file, tmp, job, fd, mem, paused, deleted, alone>>
      PROVE  QuietInv'
  <2>1. Shape' BY <1>2 DEF QuietInv, Shape, Saving
  <2>2. DeletedInv' BY <1>2 DEF QuietInv, DeletedInv
  <2>3. AloneInv' BY <1>0, <1>2, Apart DEF QuietInv, AloneInv, Shape
  <2>4. PausedInv' BY <1>2 DEF QuietInv, PausedInv, Off
  <2>5. FiredInv' BY <1>0, <1>2 DEF FiredInv, QuietInv, Shape
  <2> QED BY <1>2, <2>1, <2>2, <2>3, <2>4, <2>5 DEF QuietInv
<1>3. CASE Launch
  <2>1. fired' \in [Record -> [1 .. MaxTime -> 0 .. 2]]
    <3> DEFINE s == job[Ticker]  n == rec[Ticker].next
               line == OneMore(fired[s], n)
    <3>1. s \in Record BY <1>0, <1>3 DEF Launch, Ready, QuietInv, Shape
    <3>2. fired[s] \in [1 .. MaxTime -> 0 .. 2] BY <3>1 DEF QuietInv, Shape
    <3>4. line \in [1 .. MaxTime -> 0 .. 2] BY <3>2, OneMoreType
    <3>5. fired' = [fired EXCEPT ![s] = line] BY <1>3, <3>1, <3>2 DEF Launch, QuietInv, Shape
    <3> HIDE DEF s, line
    <3> QED BY <3>4, <3>5 DEF QuietInv, Shape
  <2>2. rec'[Ticker].enabled = rec[Ticker].enabled
    BY <1>0, <1>3 DEF Launch, QuietInv, MatchInv, Good, Schedule
  <2>3. \A a \in Actor \ {Ticker} : rec'[a] = rec[a] BY <1>3 DEF Launch, QuietInv, MatchInv
  <2> QED BY <1>2, <1>3, <2>1, <2>2, <2>3
          DEF Launch, Ready, Goto, fileVars, passVars, tickVars, askVars
<1>4. CASE NoUser
  <2>1. fired' \in [Record -> [1 .. MaxTime -> 0 .. 2]]
    BY <1>4 DEF NoUser, QuietInv, Shape
  <2>2. rec'[Ticker].enabled = rec[Ticker].enabled
    BY <1>0, <1>4 DEF NoUser, QuietInv, MatchInv, Good, Schedule
  <2>3. \A a \in Actor \ {Ticker} : rec'[a] = rec[a] BY <1>4 DEF NoUser, QuietInv, MatchInv
  <2> QED BY <1>2, <1>4, <2>1, <2>2, <2>3
          DEF NoUser, Ready, Goto, fileVars, passVars, tickVars, askVars
<1>5. CASE EndPass
  <2>0. /\ pc[Ticker] = "scan" /\ pc' = [pc EXCEPT ![Ticker] = "idle"]
        /\ UNCHANGED <<file, tmp, job, fd, rec, mem, paused, deleted, fired, alone>>
    BY <1>5 DEF EndPass, Goto, fileVars, taskVars, tickVars, askVars
  <2>1. Shape' BY <2>0 DEF QuietInv, Shape
  <2>2. DeletedInv' BY <2>0 DEF QuietInv, DeletedInv
  <2>3. AloneInv' BY <1>0, <2>0 DEF QuietInv, AloneInv, Shape
  <2>4. PausedInv' BY <2>0 DEF QuietInv, PausedInv, Off
  <2>5. FiredInv' BY <1>0, <2>0 DEF FiredInv, QuietInv, Shape
  <2> QED BY <2>1, <2>2, <2>3, <2>4, <2>5 DEF QuietInv
<1>6. CASE Save(Ticker) BY <1>0, <1>6, QuietSave
<1>7. ASSUME NEW s \in Record, Skip(s) PROVE QuietInv'
  <2>1. /\ mem' = [mem EXCEPT ![s] = NoFile]
        /\ UNCHANGED <<file, tmp, job, fd, rec, pc, paused, deleted, fired, alone>>
    BY <1>7 DEF Skip, fileVars, taskVars, tickVars, askVars
  <2> QED BY <2>1, QuietFrame DEF QuietInv, MatchInv
(* What the pass loaded passes into the ticker's hands, as enabled as it was. *)
<1>8. ASSUME NEW s \in Record, NEW r \in Good, NEW l \in {"open", "fired"},
             Visit(s), Keep(s, r, l), fired' = fired, r.enabled, mem[s].enabled
      PROVE  QuietInv'
  <2>0. /\ pc[Ticker] = "scan" /\ mem[s] # NoFile /\ pc' = [pc EXCEPT ![Ticker] = l]
        /\ job' = [job EXCEPT ![Ticker] = s] /\ rec' = [rec EXCEPT ![Ticker] = r]
        /\ mem' = [mem EXCEPT ![s] = NoFile]
        /\ UNCHANGED <<file, tmp, fd, paused, deleted, fired, alone>>
    BY <1>8 DEF Visit, Keep, Goto, tickVars, askVars
  <2>a. deleted[s] # "alone" BY <2>0 DEF QuietInv, DeletedInv
  <2>b. paused[s] # "alone"
    BY <1>8, <2>0, Apart DEF QuietInv, PausedInv, Off, MatchInv
  <2>1. Shape' BY <1>0, <2>0, Apart DEF QuietInv, Shape, Saving
  <2>2. DeletedInv' BY <1>0, <2>0, <2>a DEF QuietInv, DeletedInv, Shape, MatchInv
  <2>3. AloneInv' BY <1>0, <2>0, Apart DEF QuietInv, AloneInv, Shape, MatchInv
  <2>4. PausedInv' BY <1>0, <2>0, <2>b, Apart DEF QuietInv, PausedInv, Off, Shape, MatchInv
  <2>5. FiredInv' BY <1>0, <1>8, <2>0 DEF FiredInv, QuietInv, MatchInv
  <2> QED BY <2>1, <2>2, <2>3, <2>4, <2>5 DEF QuietInv
<1>9. ASSUME NEW s \in Record, Arm(s) \/ SaveTask(s) PROVE QuietInv'
  <2>1. mem[s] \in Good /\ mem[s].enabled
    BY <1>9 DEF Arm, SaveTask, Visit, Due, QuietInv, MatchInv
  <2>2. /\ [mem[s] EXCEPT !.next = NextRun(mem[s].cron, at)] \in Good
        /\ [mem[s] EXCEPT !.next = NextRun(mem[s].cron, at)].enabled
    BY <2>1, GoodRecords DEF Good, Schedule
  <2>3. CASE Arm(s) BY <1>8, <2>1, <2>2, <2>3 DEF Arm, taskVars
  <2>4. CASE SaveTask(s) BY <1>8, <2>1, <2>4 DEF SaveTask
  <2> QED BY <1>9, <2>3, <2>4
<1> QED BY <1>1, <1>3, <1>4, <1>5, <1>6, <1>7, <1>9 DEF Pass

LEMMA QuietNext == QuietInv /\ [Next]_vars => QuietInv'
<1> SUFFICES ASSUME QuietInv, [Next]_vars PROVE QuietInv' OBVIOUS
<1>0. MatchInv' BY MatchNext DEF QuietInv
<1>1. ASSUME NEW h \in Handler, Request(h) \/ Save(h) PROVE QuietInv'
  BY <1>0, <1>1, QuietRequest, QuietSave, Apart
<1>2. CASE Pass BY <1>0, <1>2, QuietPass
<1>3. CASE Tick
  BY <1>0, <1>3, QuietFrame DEF Tick, fileVars, passVars, taskVars, askVars
<1>4. CASE Boot
  BY <1>0, <1>4, QuietFrame DEF Boot, fileVars, passVars, taskVars, askVars
<1>5. ASSUME NEW s \in Record, DropOwner(s) PROVE QuietInv'
  BY <1>0, <1>5, QuietFrame DEF DropOwner, fileVars, passVars, taskVars, askVars
<1>6. CASE UNCHANGED vars
  BY <1>0, <1>6, QuietFrame DEF vars, fileVars, passVars, taskVars, askVars
<1>7. CASE Crash
  <2>0. /\ pc' = [a \in Actor |-> "idle"] /\ job' = [a \in Actor |-> NoRecord]
        /\ rec' = [a \in Actor |-> Blank] /\ fd' = [a \in Actor |-> "closed"]
        /\ mem' = Nothing /\ alone' = {}
        /\ UNCHANGED <<file, tmp, paused, deleted, fired>>
    BY <1>7 DEF Crash, taskVars
  <2>1. Shape' BY <2>0, Apart DEF QuietInv, Shape, Saving
  <2>2. DeletedInv' BY <2>0, Apart DEF QuietInv, DeletedInv, Nothing
  <2>3. AloneInv' BY <2>0 DEF AloneInv
  <2>4. PausedInv' BY <2>0, Apart DEF QuietInv, PausedInv, Off, Nothing
  <2>5. FiredInv' BY <2>0, Apart DEF FiredInv
  <2> QED BY <1>0, <2>1, <2>2, <2>3, <2>4, <2>5 DEF QuietInv
<1> QED BY <1>1, <1>2, <1>3, <1>4, <1>5, <1>6, <1>7 DEF Next

(* A DELETE that overlapped nobody else's use of the record: the file is   *)
(* gone for good, whatever passes, requests and crashes follow.            *)
THEOREM QuietDeleteAlways == Spec => []QuietDeleteHolds
<1>1. QuietInv => QuietDeleteHolds BY DEF QuietInv, DeletedInv, QuietDeleteHolds
<1> QED BY QuietInit, QuietNext, <1>1, PTL DEF Spec

(* A pause whose PATCH overlapped nobody else's use of the record: no run  *)
(* is started from it until it is enabled again.                           *)
THEOREM QuietPauseAlways == Spec => QuietPauseHolds
<1> DEFINE Silent == \A s \in Record : paused[s] = "alone" => fired'[s] = fired[s]
<1>1. QuietInv /\ [Next]_vars => [Silent]_vars
  <2> SUFFICES ASSUME QuietInv, Next, NEW s \in Record, paused[s] = "alone",
                      fired'[s] # fired[s]
               PROVE  FALSE
    OBVIOUS
  <2>1. Launch
    BY DEF Next, Request, Create, ScheduleTask, Patch, Delete, Reads, Save, SaveOpen, SaveWrite,
           SaveReplace, SaveRetry, SaveFails, SaveFallback, SaveRewrite, Pass, Wake, NoUser, EndPass,
           Skip, Arm, SaveTask, Tick, Crash, Boot, DropOwner, taskVars
  <2>2. job[Ticker] = s /\ rec[Ticker].enabled
    BY <2>1 DEF Launch, Ready, QuietInv, Shape, FiredInv
  <2> QED BY <2>2, Apart DEF QuietInv, PausedInv
<1> QED BY QuietInit, QuietNext, <1>1, PTL DEF Spec, QuietPauseHolds

-----------------------------------------------------------------------------
(* One run per occurrence, and none skipped. *)

(* No run was started, at all or, while nothing crashed, from r's          *)
(* next_run_at on.                                                         *)
Unfired(s) == \A m \in 1 .. MaxTime : fired[s][m] = 0
Clean(s, r) ==
    crashes = 0 /\ r \in Schedule /\ r.next # Never
        => \A m \in 1 .. MaxTime : m >= r.next => fired[s][m] = 0

(* The occurrence on disk may be moved past: its run was started, or a     *)
(* lookup of its user found nobody, or there is none.                      *)
Served(s) ==
    file[s].next = Never \/ fired[s][file[s].next] > 0 \/ file[s].next \in missed[s]

(* Whoever saves a record that only its creator and the ticker ever save   *)
(* publishes what it holds.                                                *)
Sole(s, a) ==
    /\ \A b \in Actor \ {a} : job[b] # s
    /\ mem[s] = NoFile
    /\ Clean(s, rec[a])
    /\ a # Ticker => Unfired(s) /\ file[s] \in {NoFile, Empty}
    /\ a = Ticker /\ Readable(s) => file[s].next = rec[a].next \/ Served(s)
    /\ pc[a] = "fired" =>
          /\ a = Ticker /\ rec[a].next # Never /\ rec[a].next <= at
          /\ Readable(s) => file[s].next = rec[a].next
    /\ pc[a] = "write" => fd[a] = "tmp" /\ tmp[s] = Empty
    /\ pc[a] = "replace" => tmp[s] = rec[a]
    /\ pc[a] = "rewrite" =>
          \/ fd[a] = "file" /\ file[s] = Empty
          \/ fd[a] = "unlinked" /\ file[s] = NoFile /\ deleted[s] # "no"

(* At most one run for an occurrence while nothing crashed, and none for   *)
(* one that the ticker's pass has not come to.                             *)
Counted(s) ==
    \A m \in 1 .. MaxTime : (crashes = 0 => fired[s][m] < 2) /\ (m > at => fired[s][m] = 0)

Known(s) == file[s] # NoFile \/ deleted[s] # "no"

Once(s) ==
    /\ Counted(s)
    /\ \A a \in Actor : job[a] = s => Sole(s, a)
    /\ (\A a \in Actor : job[a] # s) => Clean(s, file[s])
    /\ Clean(s, mem[s])
    /\ mem[s] # NoFile /\ Readable(s) => file[s].next = mem[s].next
    /\ mem[s] # NoFile \/ ~Unfired(s) \/ job[Ticker] = s => Known(s)

OnceInv ==
    /\ QuietInv
    /\ now \in 1 .. MaxTime /\ at \in Nat /\ at <= now /\ crashes \in Nat
    /\ missed \in [Record -> SUBSET Nat]
    /\ \A s \in Record \ edited : Once(s)

LEMMA NextRunLater ==
    ASSUME NEW c \in Cron, NEW t \in Nat PROVE NextRun(c, t) = Never \/ NextRun(c, t) > t
<1> DEFINE later == {m \in Matches[c] : m > t}
<1>1. CASE later = {} BY <1>1 DEF NextRun
<1>2. CASE later # {}
  <2>1. later \subseteq Nat BY SchedulesAssumption
  <2>2. \E x \in later : \A y \in later : x <= y BY <1>2, <2>1, LeastExists
  <2>3. Min(later) \in later BY <2>2 DEF Min
  <2> QED BY <1>2, <2>3 DEF NextRun
<1> QED BY <1>1, <1>2

LEMMA OnceInit == Init => OnceInv
<1> SUFFICES ASSUME Init PROVE OnceInv OBVIOUS
<1>1. QuietInv BY QuietInit
<1>2. ASSUME NEW s \in Record PROVE Once(s)
  <2>1. /\ file[s] = NoFile /\ mem[s] = NoFile /\ \A m \in 1 .. MaxTime : fired[s][m] = 0
        /\ \A a \in Actor : job[a] # s
    BY Apart DEF Init, FilesInit, Nothing
  <2> QED BY <2>1, Apart DEF Once, Clean, Unfired, Counted
<1>3. /\ now \in 1 .. MaxTime /\ at \in Nat /\ at <= now /\ crashes \in Nat
      /\ missed \in [Record -> SUBSET Nat]
  BY SchedulesAssumption DEF Init
<1> QED BY <1>1, <1>2, <1>3 DEF OnceInv

(* Nothing crashes, and no lookup is forgotten. *)
Calm == crashes' = crashes /\ \A q \in Record : missed[q] \subseteq missed'[q]

(* A step on other records; a pass may forget what it loaded of s. *)
LEMMA OnceSame ==
    ASSUME NEW s \in Record, Once(s), Calm, at' = at,
           file'[s] = file[s], tmp'[s] = tmp[s], fired'[s] = fired[s],
           mem'[s] \in {mem[s], NoFile}, deleted[s] # "no" => deleted'[s] # "no",
           \A a \in Actor : job'[a] = s <=> job[a] = s,
           \A a \in Actor : job[a] = s => rec'[a] = rec[a] /\ pc'[a] = pc[a] /\ fd'[a] = fd[a]
    PROVE  Once(s)'
<1>1. Counted(s)' BY DEF Once, Counted, Calm
<1>2. ASSUME NEW a \in Actor, job'[a] = s PROVE Sole(s, a)'
  BY <1>2 DEF Once, Sole, Clean, Unfired, Served, Readable, Calm
<1>3. ((\A a \in Actor : job[a] # s) => Clean(s, file[s]))' BY DEF Once, Clean, Calm
<1>4. Clean(s, mem[s])' BY Apart DEF Once, Clean, Calm
<1>5. (mem[s] # NoFile /\ Readable(s) => file[s].next = mem[s].next)'
  BY DEF Once, Readable
<1>6. (mem[s] # NoFile \/ ~Unfired(s) \/ job[Ticker] = s => Known(s))'
  BY Apart DEF Once, Unfired, Known
<1> QED BY <1>1, <1>2, <1>3, <1>4, <1>5, <1>6 DEF Once

(* An actor goes on with the record it is alone with ... *)
LEMMA OnceOn ==
    ASSUME NEW s \in Record, Once(s), NEW a \in Actor, job[a] = s, Sole(s, a)', Calm,
           at' = at, fired'[s] = fired[s], mem'[s] = mem[s], job' = job,
           deleted[s] # "no" => deleted'[s] # "no", file'[s] = NoFile => file[s] = NoFile
    PROVE  Once(s)'
<1>1. Counted(s)' BY DEF Once, Counted, Calm
<1>2. \A b \in Actor : job'[b] = s => b = a BY DEF Sole
<1>3. mem'[s] = NoFile BY DEF Sole
<1>4. Clean(s, mem[s])' BY <1>3, Apart DEF Clean
<1>5. (mem[s] # NoFile \/ ~Unfired(s) \/ job[Ticker] = s => Known(s))'
  BY DEF Once, Unfired, Known
<1> QED BY <1>1, <1>2, <1>3, <1>4, <1>5 DEF Once

(* ... or lets go of it, having published it or lost it to a DELETE. *)
LEMMA OnceDone ==
    ASSUME NEW s \in Record, Once(s), NEW a \in Actor, job[a] = s, Calm,
           job' = [job EXCEPT ![a] = NoRecord], job \in [Actor -> Record \cup {NoRecord}],
           at' = at, fired' = fired, mem' = mem, deleted' = deleted,
           file'[s] = rec[a] \/ (file'[s] = NoFile /\ deleted[s] # "no"),
           rec[a] # NoFile
    PROVE  Once(s)'
<1>1. Counted(s)' BY DEF Once, Counted, Calm
<1>2. Sole(s, a) BY DEF Once
<1>3. \A b \in Actor : job'[b] # s BY <1>2, Apart DEF Sole
<1>4. Clean(s, file[s])' BY <1>2, Apart DEF Sole, Clean, Calm
<1>5. mem'[s] = NoFile BY <1>2 DEF Sole
<1>6. Clean(s, mem[s])' BY <1>5, Apart DEF Clean
<1>7. Known(s)' BY DEF Known
<1> QED BY <1>1, <1>3, <1>4, <1>5, <1>6, <1>7 DEF Once

LEMMA OnceSave ==
    ASSUME QuietInv, NEW a \in Actor, Save(a), NEW s \in Record, Once(s)
    PROVE  Once(s)'
<1>0. /\ a \in Actor /\ pc[a] \in Saving /\ job[a] \in Record /\ rec[a] \in Schedule
      /\ at' = at /\ fired' = fired /\ deleted' = deleted /\ Calm
  <2>1. pc[a] \in Saving
    BY DEF Save, SaveOpen, SaveWrite, SaveReplace, SaveRetry, SaveFails, SaveFallback, SaveRewrite,
           Saving
  <2>2. at' = at /\ fired' = fired /\ deleted' = deleted /\ Calm
    BY DEF Calm, worldVars, Save, SaveOpen, SaveWrite, SaveReplace, SaveRetry, SaveFails, SaveFallback, SaveRewrite,
           Saved, passVars, taskVars, askVars
  <2> QED BY <2>1, <2>2, Apart DEF QuietInv, Shape, MatchInv, Saving
<1>1. CASE job[a] # s
  <2>1. \A b \in Actor : job'[b] = s <=> job[b] = s
    BY <1>1, Apart DEF Save, SaveOpen, SaveWrite, SaveReplace, SaveRetry, SaveFails, SaveFallback,
           SaveRewrite, Release, OpenTmp, OpenFile, fileVars, QuietInv, Shape
  <2>2. \A b \in Actor \ {a} : rec'[b] = rec[b] /\ pc'[b] = pc[b]
    BY DEF Save, SaveOpen, SaveWrite, SaveReplace, SaveRetry, SaveFails, SaveFallback,
           SaveRewrite, Saved, Goto, Release, QuietInv, Shape, MatchInv
  <2>3. \A b \in Actor : job[b] = s => fd'[b] = fd[b]
    BY <1>1 DEF Save, SaveOpen, SaveWrite, SaveReplace, SaveRetry, SaveFails, SaveFallback,
           SaveRewrite, OpenTmp, OpenFile, WriteOut, Replace, fileVars, QuietInv, Shape
  <2>4. file'[s] = file[s] /\ tmp'[s] = tmp[s]
    BY <1>1 DEF Save, SaveOpen, SaveWrite, SaveReplace, SaveRetry, SaveFails, SaveFallback,
           SaveRewrite, OpenTmp, OpenFile, WriteOut, Replace, fileVars, QuietInv, MatchInv
  <2>5. mem'[s] \in {mem[s], NoFile}
    BY DEF Save, SaveOpen, SaveWrite, SaveReplace, SaveRetry, SaveFails, SaveFallback,
           SaveRewrite, passVars, Nothing
  <2> QED BY <1>0, <1>1, <2>1, <2>2, <2>3, <2>4, <2>5, OnceSame
<1>2. CASE job[a] = s
  <2>0. Sole(s, a) BY <1>2 DEF Once
  <2>a. /\ pc \in [Actor -> Saving \cup {"idle", "scan", "fired"}]
        /\ fd \in [Actor -> {"closed", "tmp", "file", "unlinked"}]
        /\ job \in [Actor -> Record \cup {NoRecord}]
        /\ file \in [Record -> Good \cup Unreadable \cup {NoFile}]
        /\ tmp \in [Record -> Good \cup Unreadable \cup {NoFile}]
    BY DEF QuietInv, Shape, MatchInv
  <2>1. CASE SaveOpen(a)
    <3>0. /\ pc' = [pc EXCEPT ![a] = "write"] /\ fd' = [fd EXCEPT ![a] = "tmp"]
          /\ tmp' = [tmp EXCEPT ![s] = Empty]
          /\ UNCHANGED <<file, job, rec, mem>>
      BY <1>2, <2>1 DEF SaveOpen, OpenTmp, Goto, passVars
    <3>1. Sole(s, a)' BY <1>0, <2>0, <2>a, <3>0 DEF Sole, Clean, Unfired, Readable, Served, Calm
    <3> QED BY <1>0, <1>2, <2>a, <3>0, <3>1, OnceOn, Apart
  <2>2. CASE SaveWrite(a)
    <3>1. fd[a] = "tmp" /\ tmp[s] = Empty BY <2>0, <2>2 DEF SaveWrite, Sole
    <3>2. /\ pc' = [pc EXCEPT ![a] = "replace"] /\ tmp' = [tmp EXCEPT ![s] = rec[a]]
          /\ UNCHANGED <<file, job, rec, mem>>
      BY <1>2, <2>2, <3>1 DEF SaveWrite, WriteOut, Overlay, Goto, passVars
    <3>3. Sole(s, a)' BY <1>0, <2>0, <2>a, <3>2 DEF Sole, Clean, Unfired, Readable, Served, Calm
    <3> QED BY <1>0, <1>2, <2>a, <3>2, <3>3, OnceOn, Apart
  <2>3. CASE SaveReplace(a)
    <3>1. file'[s] = rec[a] BY <1>2, <2>0, <2>3, <2>a DEF SaveReplace, Replace, Sole
    <3>2. job' = [job EXCEPT ![a] = NoRecord] /\ mem' = mem
      BY <2>3 DEF SaveReplace, Release, passVars
    <3>3. rec[a] # NoFile BY <1>0, Apart
    <3>4. job \in [Actor -> Record \cup {NoRecord}] BY <2>a
    <3>5. at' = at /\ fired' = fired /\ deleted' = deleted /\ Calm BY <1>0
    <3> QED BY <1>2, <3>1, <3>2, <3>3, <3>4, <3>5, OnceDone
  <2>4. CASE SaveRetry(a)
    <3>1. /\ pc' = pc \/ pc' = [pc EXCEPT ![a] = "fallback"]
          /\ UNCHANGED <<file, tmp, fd, job, rec, mem>>
      BY <2>4 DEF SaveRetry, Goto, fileVars, passVars
    <3>2. Sole(s, a)' BY <1>0, <2>0, <2>a, <3>1 DEF Sole, Clean, Unfired, Readable, Served, Calm
    <3> QED BY <1>0, <1>2, <3>1, <3>2, OnceOn
  <2>5. CASE SaveFails(a)
    <3>1. tmp[s] = rec[a] BY <2>0, <2>5 DEF SaveFails, Sole
    <3> QED BY <1>0, <1>2, <2>5, <3>1, Apart DEF SaveFails
  <2>6. CASE SaveFallback(a)
    <3>0. /\ pc' = [pc EXCEPT ![a] = "rewrite"] /\ fd' = [fd EXCEPT ![a] = "file"]
          /\ file' = [file EXCEPT ![s] = Empty]
          /\ UNCHANGED <<tmp, job, rec, mem>>
      BY <1>2, <2>6 DEF SaveFallback, OpenFile, Goto, passVars
    <3>1. Sole(s, a)' BY <1>0, <2>0, <2>a, <3>0 DEF Sole, Clean, Unfired, Readable, Served, Calm
    <3> QED BY <1>0, <1>2, <2>a, <3>0, <3>1, OnceOn, Apart
  <2>7. CASE SaveRewrite(a)
    <3>1. \/ fd[a] = "file" /\ file[s] = Empty
          \/ fd[a] = "unlinked" /\ file[s] = NoFile /\ deleted[s] # "no"
      BY <2>0, <2>7 DEF SaveRewrite, Sole
    <3>2. file'[s] = rec[a] \/ (file'[s] = NoFile /\ deleted[s] # "no")
      <4>1. CASE fd[a] = "file" /\ file[s] = Empty
        <5>1. file' = [file EXCEPT ![s] = rec[a]]
          BY <1>2, <2>7, <4>1 DEF SaveRewrite, WriteOut, Overlay
        <5>2. file \in [Record -> Good \cup Unreadable \cup {NoFile}] BY <2>a
        <5>3. file'[s] = rec[a] BY <5>1, <5>2
        <5> QED BY <5>3
      <4>2. CASE fd[a] = "unlinked" /\ file[s] = NoFile /\ deleted[s] # "no"
        BY <2>7, <4>2 DEF SaveRewrite, WriteOut
      <4> QED BY <3>1, <4>1, <4>2
    <3>3. job' = [job EXCEPT ![a] = NoRecord] /\ mem' = mem
      BY <2>7 DEF SaveRewrite, Release, passVars
    <3> QED BY <1>0, <1>2, <2>a, <3>2, <3>3, OnceDone, Apart
  <2> QED BY <2>1, <2>2, <2>3, <2>4, <2>5, <2>6, <2>7 DEF Save
<1> QED BY <1>1, <1>2

(* Whoever begins on a record reads it alone, if nobody PATCHes it. *)
LEMMA OnceReads ==
    ASSUME QuietInv, NEW h \in Handler, NEW q \in Record, NEW r \in Schedule, Reads(h, q, r),
           NEW s \in Record, Once(s), s = q => Fresh(s)
    PROVE  Once(s)'
<1>0. /\ pc[h] = "idle" /\ job[h] = NoRecord /\ h \in Actor /\ h # Ticker
      /\ job' = [job EXCEPT ![h] = q] /\ rec' = [rec EXCEPT ![h] = r]
      /\ pc' = [pc EXCEPT ![h] = "open"]
      /\ UNCHANGED <<file, tmp, fd, at, mem, fired, deleted>> /\ Calm
  BY Apart DEF Reads, Goto, passVars, taskVars, worldVars, Calm, QuietInv, Shape
<1>a. /\ job \in [Actor -> Record \cup {NoRecord}] /\ rec \in [Actor -> Good]
      /\ pc \in [Actor -> Saving \cup {"idle", "scan", "fired"}]
  BY DEF QuietInv, Shape, MatchInv
<1>1. CASE s # q
  <2>1. \A a \in Actor : job'[a] = s <=> job[a] = s BY <1>0, <1>a, <1>1, Apart
  <2>2. \A a \in Actor : job[a] = s => rec'[a] = rec[a] /\ pc'[a] = pc[a] /\ fd'[a] = fd[a]
    BY <1>0, <1>a, Apart
  <2> QED BY <1>0, <2>1, <2>2, OnceSame
<1>2. CASE s = q
  <2>1. /\ file[s] = NoFile /\ tmp[s] = NoFile /\ deleted[s] = "no"
        /\ \A a \in Actor : job[a] # s
    BY <1>2 DEF Fresh
  <2>2. mem[s] = NoFile /\ Unfired(s) BY <2>1, Apart DEF Once, Known
  <2>3. /\ job'[h] = s /\ rec'[h] = r /\ pc'[h] = "open"
        /\ \A a \in Actor \ {h} : job'[a] # s
    BY <1>0, <1>2, <1>a, <2>1
  <2>4. Sole(s, h)' BY <1>0, <2>1, <2>2, <2>3, Apart DEF Sole, Clean, Unfired, Readable
  <2>5. Unfired(s)' BY <1>0, <2>2 DEF Unfired
  <2>6. mem'[s] = NoFile BY <1>0, <2>2
  <2>7. Counted(s)' BY <1>0 DEF Once, Counted, Calm
  <2>8. \A a \in Actor : job'[a] = s => a = h BY <2>3
  <2>9. Clean(s, mem[s])' BY <2>6, Apart DEF Clean
  <2>10. job'[Ticker] # s BY <1>0, <2>3, Apart
  <2> QED BY <1>0, <2>3, <2>4, <2>5, <2>6, <2>7, <2>8, <2>9, <2>10 DEF Once
<1> QED BY <1>1, <1>2

LEMMA OnceDelete ==
    ASSUME QuietInv, NEW h \in Handler, NEW q \in Record, Delete(h, q), NEW s \in Record, Once(s)
    PROVE  Once(s)'
<1>0. /\ deleted' = [deleted EXCEPT ![q] = IF Shared(h, q) THEN "raced" ELSE "alone"]
      /\ UNCHANGED <<tmp, job, pc, rec, at, mem, fired>> /\ Calm
      /\ \/ UNCHANGED <<file, fd>>
         \/ /\ file' = [file EXCEPT ![q] = NoFile]
            /\ fd' = [b \in Actor |->
                        IF job[b] = q /\ fd[b] = "file" THEN "unlinked" ELSE fd[b]]
  BY DEF Delete, UnlinkFile, passVars, taskVars, worldVars, Calm
<1>a. /\ deleted \in [Record -> Overlap] /\ fd \in [Actor -> {"closed", "tmp", "file", "unlinked"}]
      /\ file \in [Record -> Good \cup Unreadable \cup {NoFile}]
  BY DEF QuietInv, Shape, MatchInv
<1>1. CASE s # q
  <2>1. \A a \in Actor : job[a] = s => fd'[a] = fd[a] BY <1>0, <1>1, <1>a
  <2>2. file'[s] = file[s] /\ deleted'[s] = deleted[s] BY <1>0, <1>1, <1>a
  <2> QED BY <1>0, <2>1, <2>2, OnceSame
<1>2. CASE s = q
  <2>1. deleted'[s] # "no" BY <1>0, <1>2, <1>a
  <2>2. file'[s] \in {file[s], NoFile} BY <1>0, <1>2, <1>a
  <2>3. ASSUME NEW a \in Actor, job'[a] = s PROVE Sole(s, a)'
    <3>1. Sole(s, a) BY <1>0, <2>3 DEF Once
    <3>2. CASE UNCHANGED <<file, fd>> 
      BY <1>0, <2>1, <3>1, <3>2 DEF Sole, Clean, Unfired, Readable, Served, Calm
    <3>3. CASE /\ file' = [file EXCEPT ![q] = NoFile]
               /\ fd' = [b \in Actor |->
                           IF job[b] = q /\ fd[b] = "file" THEN "unlinked" ELSE fd[b]]
      <4>1. file'[s] = NoFile BY <1>2, <1>a, <3>3
      <4>2. fd'[a] = IF fd[a] = "file" THEN "unlinked" ELSE fd[a] BY <1>0, <1>2, <2>3, <3>3
      <4> QED BY <1>0, <2>1, <3>1, <4>1, <4>2 DEF Sole, Clean, Unfired, Readable, Calm
    <3> QED BY <1>0, <3>2, <3>3
  <2>4. ((\A a \in Actor : job[a] # s) => Clean(s, file[s]))'
    BY <1>0, <2>2, Apart DEF Once, Clean, Calm
  <2>5. Clean(s, mem[s])' BY <1>0 DEF Once, Clean, Calm
  <2>6. Counted(s)' BY <1>0 DEF Once, Counted, Calm
  <2>7. (mem[s] # NoFile /\ Readable(s) => file[s].next = mem[s].next)'
    BY <1>0, <2>2 DEF Once, Readable
  <2> QED BY <2>1, <2>3, <2>4, <2>5, <2>6, <2>7 DEF Once, Known
<1> QED BY <1>1, <1>2

LEMMA OnceRequest ==
    ASSUME QuietInv, NEW h \in Handler, Request(h),
           NEW s \in Record, s \notin edited', Once(s)
    PROVE  Once(s)'
<1>1. PICK q \in Record : Create(h, q) \/ ScheduleTask(h, q) \/ Patch(h, q) \/ Delete(h, q)
  BY DEF Request
<1>2. CASE Create(h, q)
  <2>1. PICK c \in Cron, on \in BOOLEAN : Reads(h, q, New(c, on)) BY <1>2 DEF Create
  <2>2. New(c, on) \in Schedule BY GoodRecords, Apart
  <2> QED BY <1>2, <2>1, <2>2, OnceReads DEF Create
<1>3. CASE ScheduleTask(h, q)
  <2>1. PICK c \in Cron : Reads(h, q, New(c, TRUE)) BY <1>3 DEF ScheduleTask
  <2>2. New(c, TRUE) \in Schedule BY GoodRecords, Apart
  <2> QED BY <1>3, <2>1, <2>2, OnceReads DEF ScheduleTask
<1>4. CASE Patch(h, q)
  <2>1. PICK e \in Edit : Reads(h, q, Edited(file[q], e)) BY <1>4 DEF Patch
  <2>2. Edited(file[q], e) \in Schedule
    BY <1>4, GoodRecords, ReadableGood, Apart DEF Patch, QuietInv
  <2>3. s # q BY <1>4 DEF Patch
  <2> QED BY <2>1, <2>2, <2>3, OnceReads
<1>5. CASE Delete(h, q) BY <1>5, OnceDelete
<1> QED BY <1>1, <1>2, <1>3, <1>4, <1>5

(* The ticker takes up what its pass loaded. *)
LEMMA OnceKeep ==
    ASSUME QuietInv, NEW q \in Record, NEW r \in Schedule, NEW l \in {"open", "fired"},
           Visit(q), Keep(q, r, l), UNCHANGED <<fired, missed>>, NEW s \in Record, Once(s),
           s = q => /\ Clean(s, r)
                    /\ l = "fired" => r.next # Never /\ r.next <= at
                    /\ r.next = mem[s].next \/ (l = "open" /\ mem[s].next = Never)
    PROVE  Once(s)'
<1>0. /\ pc[Ticker] = "scan" /\ mem[q] # NoFile /\ job[Ticker] = NoRecord
      /\ pc' = [pc EXCEPT ![Ticker] = l]
      /\ job' = [job EXCEPT ![Ticker] = q] /\ rec' = [rec EXCEPT ![Ticker] = r]
      /\ mem' = [mem EXCEPT ![q] = NoFile]
      /\ UNCHANGED <<file, tmp, fd, at, fired, deleted>> /\ Calm
  BY Apart DEF Visit, Keep, Goto, tickVars, askVars, worldVars, Calm, QuietInv, Shape
<1>a. /\ job \in [Actor -> Record \cup {NoRecord}] /\ rec \in [Actor -> Good]
      /\ pc \in [Actor -> Saving \cup {"idle", "scan", "fired"}]
      /\ mem \in [Record -> Good \cup {NoFile}]
  BY DEF QuietInv, Shape, MatchInv
<1>1. CASE s # q
  <2>1. \A a \in Actor : job'[a] = s <=> job[a] = s BY <1>0, <1>a, <1>1, Apart
  <2>2. \A a \in Actor : job[a] = s => rec'[a] = rec[a] /\ pc'[a] = pc[a] /\ fd'[a] = fd[a]
    BY <1>0, <1>a, Apart
  <2>3. mem'[s] = mem[s] BY <1>0, <1>a, <1>1
  <2> QED BY <1>0, <2>1, <2>2, <2>3, OnceSame
<1>2. CASE s = q
  <2>1. \A a \in Actor : job[a] # s BY <1>0, <1>2 DEF Once, Sole
  <2>2. /\ job'[Ticker] = s /\ rec'[Ticker] = r /\ pc'[Ticker] = l /\ mem'[s] = NoFile
        /\ \A a \in Actor \ {Ticker} : job'[a] # s
    BY <1>0, <1>2, <1>a, <2>1, Apart
  <2>3. Clean(s, r)' BY <1>0, <1>2 DEF Clean, Calm
  <2>a. Readable(s) => file[s].next = mem[s].next BY <1>0, <1>2 DEF Once
  <2>4. Sole(s, Ticker)'
    BY <1>0, <1>2, <2>2, <2>3, <2>a, Apart DEF Sole, Readable, Served
  <2>5. Counted(s)' BY <1>0 DEF Once, Counted, Calm
  <2>6. \A a \in Actor : job'[a] = s => a = Ticker BY <2>2
  <2>7. Clean(s, mem[s])' BY <2>2, Apart DEF Clean
  <2>8. Known(s)' BY <1>0, <1>2 DEF Once, Known
  <2> QED BY <2>2, <2>4, <2>5, <2>6, <2>7, <2>8, Apart DEF Once
<1> QED BY <1>1, <1>2

(* The occurrence is counted, and the record in hand moves past it. *)
LEMMA OnceLaunch ==
    ASSUME QuietInv, at \in Nat, now \in 1 .. MaxTime, at <= now, Launch, NEW s \in Record, Once(s)
    PROVE  Once(s)'
<1> DEFINE q == job[Ticker]  n == rec[Ticker].next  later == NextRun(rec[Ticker].cron, at)
<1>0. /\ pc[Ticker] = "fired" /\ pc' = [pc EXCEPT ![Ticker] = "open"]
      /\ fired' = [fired EXCEPT ![q] = OneMore(fired[q], n)]
      /\ rec' = [rec EXCEPT ![Ticker].next = later]
      /\ UNCHANGED <<file, tmp, job, fd, at, mem, deleted>> /\ Calm
  BY DEF Launch, Ready, Goto, fileVars, passVars, tickVars, askVars, worldVars, Calm
<1>a. /\ q \in Record /\ rec \in [Actor -> Good] /\ rec[Ticker] \in Schedule
      /\ pc \in [Actor -> Saving \cup {"idle", "scan", "fired"}]
      /\ fired \in [Record -> [1 .. MaxTime -> 0 .. 2]]
  BY <1>0, Apart DEF QuietInv, Shape, MatchInv
<1>1. CASE s # q
  <2>1. \A a \in Actor : job[a] = s => rec'[a] = rec[a] /\ pc'[a] = pc[a] /\ fd'[a] = fd[a]
    BY <1>0, <1>1, <1>a
  <2>2. fired'[s] = fired[s] BY <1>0, <1>1, <1>a
  <2> QED BY <1>0, <2>1, <2>2, OnceSame
<1>2. CASE s = q
  <2>0. Sole(s, Ticker) BY <1>2, Apart DEF Once
  <2>1. /\ n # Never /\ n <= at /\ n \in Nat
        /\ crashes = 0 => \A m \in 1 .. MaxTime : m >= n => fired[s][m] = 0
    BY <1>0, <1>a, <2>0 DEF Sole, Clean, Schedule
  <2>2. later = Never \/ later > at
    BY <1>a, NextRunLater DEF Schedule
  <2>3. /\ rec'[Ticker] = [rec[Ticker] EXCEPT !.next = later]
        /\ pc'[Ticker] = "open"
    BY <1>0, <1>a, Apart
  <2>4. rec'[Ticker].next = later BY <1>a, <2>3 DEF Schedule
  <2>5. fired'[s] = OneMore(fired[s], n) BY <1>0, <1>2, <1>a
  <2>a. n \in 1 .. MaxTime BY <2>1, SchedulesAssumption DEF Never
  <2>6. /\ \A m \in 1 .. MaxTime : m # n => fired'[s][m] = fired[s][m]
        /\ fired'[s][n] > 0 /\ (crashes = 0 => fired'[s][n] = 1)
    <3>1. fired[s] \in [1 .. MaxTime -> 0 .. 2] BY <1>a
    <3> DEFINE runs == fired[s]
    <3>2. crashes = 0 => runs[n] = 0 BY <2>1, <2>a
    <3> HIDE DEF runs, n
    <3>3. \A m \in 1 .. MaxTime :
             OneMore(runs, n)[m] = IF m = n THEN (IF runs[n] = 2 THEN 2 ELSE runs[n] + 1) ELSE runs[m]
      BY <3>1 DEF OneMore, runs
    <3>4. runs[n] \in 0 .. 2 BY <2>a, <3>1 DEF runs
    <3> QED BY <2>a, <2>5, <3>2, <3>3, <3>4 DEF runs
  <2>7. Counted(s)'
    <3> SUFFICES ASSUME NEW m \in 1 .. MaxTime
                 PROVE  (crashes = 0 => fired'[s][m] < 2) /\ (m > at => fired'[s][m] = 0)
      BY <1>0 DEF Counted, Calm
    <3>1. CASE m = n BY <2>1, <2>6, <3>1
    <3>2. CASE m # n BY <2>6, <3>2 DEF Once, Counted
    <3> QED BY <3>1, <3>2
  <2>8. later # Never => \A m \in 1 .. MaxTime : m >= later => fired'[s][m] = 0
    <3> SUFFICES ASSUME later # Never, NEW m \in 1 .. MaxTime, m >= later PROVE m > at
      BY <1>0, <2>7 DEF Counted
    <3>1. later \in Nat BY <1>a, NextRunMatches, SchedulesAssumption DEF Schedule, Never
    <3> QED BY <2>2, <3>1
  <2>9. Sole(s, Ticker)'
    <3>1. Clean(s, rec[Ticker])' BY <2>4, <2>8 DEF Clean
    <3>2. Readable(s) => file[s].next = n BY <1>0, <2>0 DEF Sole
    <3>3. (Readable(s) => Served(s))' BY <1>0, <2>6, <3>2 DEF Readable, Served
    <3> QED BY <1>0, <2>0, <2>3, <3>1, <3>3 DEF Sole
  <2>10. \A a \in Actor : job'[a] = s => a = Ticker BY <1>0, <2>0 DEF Sole
  <2>11. mem'[s] = NoFile BY <1>0, <2>0 DEF Sole
  <2>12. Clean(s, mem[s])' BY <2>11, Apart DEF Clean
  <2>13. Known(s)' BY <1>0, <1>2 DEF Once, Known
  <2> QED BY <1>0, <1>2, <2>7, <2>9, <2>10, <2>11, <2>12, <2>13, Apart DEF Once
<1> QED BY <1>1, <1>2

LEMMA OncePass ==
    ASSUME QuietInv, now \in 1 .. MaxTime, at \in Nat, at <= now,
           missed \in [Record -> SUBSET Nat], Pass, NEW s \in Record, Once(s)
    PROVE  Once(s)'
<1>0. Ticker \in Actor BY Apart
<1>1. CASE Wake
  <2>0. /\ job[Ticker] = NoRecord /\ at' = now
        /\ pc' = [pc EXCEPT ![Ticker] = "scan"]
        /\ mem'[s] = IF Readable(s) THEN file[s] ELSE NoFile
        /\ UNCHANGED <<file, tmp, job, fd, rec, fired, deleted>> /\ Calm
    BY <1>0, <1>1 DEF Wake, Goto, fileVars, taskVars, worldVars, Calm, QuietInv, Shape
  <2>1. \A a \in Actor : job[a] = s => pc'[a] = pc[a] /\ a # Ticker
    BY <2>0, Apart DEF QuietInv, Shape
  <2>2. ASSUME NEW a \in Actor, job[a] = s PROVE Sole(s, a)'
    <3>1. Sole(s, a) BY <2>2 DEF Once
    <3>2. mem'[s] = NoFile /\ pc'[a] = pc[a] BY <2>0, <2>1, <2>2, <3>1 DEF Sole, Readable
    <3>3. pc[a] # "fired"
      BY <2>1, <2>2, <3>1 DEF Sole
    <3> QED BY <2>0, <2>1, <2>2, <3>1, <3>2, <3>3 DEF Sole, Clean, Unfired, Calm
  <2>3. Counted(s)' BY <2>0 DEF Once, Counted, Calm
  <2>4. Clean(s, mem[s])'
    <3>1. CASE \A a \in Actor : job[a] # s BY <2>0, <3>1, Apart DEF Once, Clean, Calm
    <3>2. ASSUME NEW a \in Actor, job[a] = s PROVE mem'[s] = NoFile
      BY <2>0, <2>1, <3>2 DEF Once, Sole, Readable
    <3> QED BY <3>1, <3>2, Apart DEF Clean
  <2>5. ((\A a \in Actor : job[a] # s) => Clean(s, file[s]))' BY <2>0 DEF Once, Clean, Calm
  <2>6. (mem[s] # NoFile \/ ~Unfired(s) \/ job[Ticker] = s => Known(s))'
    BY <2>0 DEF Once, Unfired, Readable, Known
  <2>7. (mem[s] # NoFile /\ Readable(s) => file[s].next = mem[s].next)'
    BY <2>0 DEF Readable
  <2> QED BY <2>0, <2>2, <2>3, <2>4, <2>5, <2>6, <2>7 DEF Once
<1>2. CASE Launch BY <1>2, OnceLaunch
<1>3. CASE NoUser
  <2> DEFINE q == job[Ticker]
  <2>0. /\ pc[Ticker] = "fired" /\ pc' = [pc EXCEPT ![Ticker] = "open"]
        /\ rec' = [rec EXCEPT ![Ticker].next = Never]
        /\ UNCHANGED <<file, tmp, job, fd, at, mem, fired, deleted>>
        /\ missed' = [missed EXCEPT ![q] = @ \cup {rec[Ticker].next}] /\ crashes' = crashes
    BY <1>3 DEF NoUser, Miss, Ready, Goto, fileVars, passVars, tickVars, askVars, worldVars
  <2>a. /\ rec \in [Actor -> Good] /\ rec[Ticker] \in Schedule
        /\ pc \in [Actor -> Saving \cup {"idle", "scan", "fired"}]
    BY <1>0, Apart DEF QuietInv, Shape, MatchInv
  <2>b. Calm BY <2>0, <2>a DEF Calm
  <2>1. CASE q # s
    <3>1. \A a \in Actor : job[a] = s => rec'[a] = rec[a] /\ pc'[a] = pc[a] /\ fd'[a] = fd[a]
      BY <2>0, <2>1, <2>a
    <3> QED BY <2>0, <2>b, <3>1, OnceSame
  <2>2. CASE q = s
    <3>1. rec'[Ticker].next = Never /\ pc'[Ticker] = "open" BY <1>0, <2>0, <2>a DEF Schedule
    <3>2. Sole(s, Ticker) BY <1>0, <2>2 DEF Once
    <3>3. rec[Ticker].next \in missed'[s] BY <2>0, <2>2, <2>a
    <3>4. Sole(s, Ticker)' BY <2>0, <2>2, <3>1, <3>2, <3>3 DEF Sole, Clean, Readable, Served
    <3> QED BY <1>0, <2>0, <2>b, <2>2, <3>4, OnceOn
  <2> QED BY <2>1, <2>2
<1>4. CASE EndPass
  <2>0. /\ job[Ticker] = NoRecord /\ pc' = [pc EXCEPT ![Ticker] = "idle"]
        /\ UNCHANGED <<file, tmp, job, fd, rec, mem, at, deleted, fired>> /\ Calm
    BY <1>0, <1>4 DEF EndPass, Goto, fileVars, taskVars, tickVars, askVars, worldVars, Calm,
                      QuietInv, Shape
  <2>1. \A a \in Actor : job[a] = s => pc'[a] = pc[a] BY <2>0, Apart DEF QuietInv, Shape
  <2> QED BY <2>0, <2>1, OnceSame
<1>5. CASE Save(Ticker) BY <1>0, <1>5, OnceSave
<1>6. ASSUME NEW q \in Record, Skip(q) PROVE Once(s)'
  <2>1. /\ mem'[s] \in {mem[s], NoFile}
        /\ UNCHANGED <<file, tmp, job, fd, rec, pc, at, deleted, fired>> /\ Calm
    BY <1>6 DEF Skip, fileVars, taskVars, tickVars, askVars, worldVars, Calm, QuietInv, MatchInv
  <2> QED BY <2>1, OnceSame
<1>7. ASSUME NEW q \in Record, Arm(q) PROVE Once(s)'
  <2> DEFINE r == [mem[q] EXCEPT !.next = NextRun(mem[q].cron, at)]
  <2>1. mem[q] \in Good /\ mem[q].cron \in Cron
    BY <1>7 DEF Arm, Visit, QuietInv, MatchInv, Good, Schedule
  <2>2. r \in Schedule /\ r.next = NextRun(mem[q].cron, at)
    BY <2>1, GoodRecords, Apart DEF Good, Schedule
  <2>3. r.next \in Nat /\ (r.next = Never \/ r.next > at)
    BY <2>1, <2>2, NextRunLater DEF Schedule
  <2>4. Clean(s, r) BY <2>3 DEF Once, Clean, Counted
  <2>6. mem[q].next = Never BY <1>7 DEF Arm
  <2> HIDE DEF r
  <2>5. Visit(q) /\ Keep(q, r, "open") /\ UNCHANGED <<fired, missed>> BY <1>7 DEF Arm, taskVars, r
  <2> QED BY <2>2, <2>4, <2>5, <2>6, OnceKeep
<1>8. ASSUME NEW q \in Record, SaveTask(q) PROVE Once(s)'
  <2>1. mem[q] \in Schedule BY <1>8, Apart DEF SaveTask, Visit, QuietInv, MatchInv
  <2>2. Visit(q) /\ Keep(q, mem[q], "fired") /\ UNCHANGED <<fired, missed>>
    BY <1>8 DEF SaveTask
  <2>3. mem[q].next # Never /\ mem[q].next <= at BY <1>8 DEF SaveTask, Due
  <2>4. s = q => Clean(s, mem[q]) BY DEF Once
  <2> QED BY <2>1, <2>2, <2>3, <2>4, OnceKeep
<1> QED BY <1>1, <1>2, <1>3, <1>4, <1>5, <1>6, <1>7, <1>8 DEF Pass

(* The counts are closed: what a dead ticker had in hand may be fired      *)
(* again, but only of what it had not published.                           *)
LEMMA OnceCrash ==
    ASSUME QuietInv, crashes \in Nat, Crash, NEW s \in Record, Once(s) PROVE Once(s)'
<1>0. /\ job' = [a \in Actor |-> NoRecord] /\ mem'[s] = NoFile /\ crashes' # 0
      /\ UNCHANGED <<file, tmp, at, fired, deleted>>
  BY DEF Crash, Nothing, taskVars
<1>1. Counted(s)' BY <1>0 DEF Once, Counted
<1>2. \A a \in Actor : job'[a] # s BY <1>0, Apart
<1>3. Clean(s, file[s])' /\ Clean(s, mem[s])' BY <1>0 DEF Clean
<1>4. (~Unfired(s) => Known(s))' BY <1>0 DEF Once, Unfired, Known
<1> QED BY <1>0, <1>1, <1>2, <1>3, <1>4, Apart DEF Once

LEMMA OnceNext == OnceInv /\ [Next]_vars => OnceInv'
<1> SUFFICES ASSUME OnceInv, [Next]_vars PROVE OnceInv' OBVIOUS
<1>0. QuietInv' BY QuietNext DEF OnceInv
<1>a. \/ /\ UNCHANGED <<now, crashes>> /\ at' \in {at, now} /\ edited \subseteq edited'
         /\ missed' = missed \/ NoUser
      \/ Tick \/ Crash
  <2> DEFINE Steady == /\ UNCHANGED <<now, crashes>> /\ at' \in {at, now} /\ edited \subseteq edited'
                       /\ missed' = missed \/ NoUser
  <2>1. ASSUME NEW h \in Handler, Request(h) PROVE Steady
    BY <2>1 DEF Request, Create, ScheduleTask, Patch, Delete, Reads, passVars, taskVars, worldVars
  <2>2. ASSUME NEW a \in Actor, Save(a) PROVE Steady
    BY <2>2 DEF Save, SaveOpen, SaveWrite, SaveReplace, SaveRetry, SaveFails, SaveFallback,
                SaveRewrite, Saved, passVars, taskVars, askVars, worldVars
  <2>3. CASE Wake \/ Launch \/ NoUser \/ EndPass
    BY <2>3 DEF Wake, Launch, NoUser, EndPass, passVars, taskVars, tickVars, askVars, worldVars
  <2>4. ASSUME NEW s \in Record, Skip(s) \/ Arm(s) \/ SaveTask(s) PROVE Steady
    BY <2>4 DEF Skip, Arm, SaveTask, Keep, taskVars, tickVars, askVars, worldVars
  <2>5. ASSUME NEW s \in Record, DropOwner(s) PROVE Steady
    BY <2>5 DEF DropOwner, passVars, taskVars, askVars
  <2>6. CASE Boot BY <2>6 DEF Boot, passVars, taskVars, askVars
  <2>7. CASE UNCHANGED vars BY <2>7 DEF vars, passVars, taskVars, askVars, worldVars
  <2>8. CASE Pass BY <2>2, <2>3, <2>4, <2>8, Apart DEF Pass
  <2>9. ASSUME NEW h \in Handler, Save(h) PROVE Steady BY <2>2, <2>9, Apart
  <2> QED BY <2>1, <2>5, <2>6, <2>7, <2>8, <2>9 DEF Next
<1>b. /\ now' \in 1 .. MaxTime /\ at' \in Nat /\ at' <= now' /\ crashes' \in Nat
      /\ missed' \in [Record -> SUBSET Nat]
      /\ edited \subseteq edited'
  <2>1. CASE Tick BY <2>1, SchedulesAssumption DEF Tick, OnceInv, passVars, taskVars, askVars
  <2>2. CASE Crash BY <2>2 DEF Crash, OnceInv, taskVars
  <2>3. NoUser => missed' \in [Record -> SUBSET Nat]
    <3>1. NoUser => rec[Ticker].next \in Nat
      BY Apart DEF NoUser, Ready, OnceInv, QuietInv, Shape, MatchInv, Schedule
    <3>2. missed \in [Record -> SUBSET Nat] BY DEF OnceInv
    <3>3. NoUser => missed' = [missed EXCEPT ![job[Ticker]] = @ \cup {rec[Ticker].next}]
      BY DEF NoUser, Miss
    <3> QED BY <3>1, <3>2, <3>3
  <2>4. CASE ~Tick /\ ~Crash BY <1>a, <2>3, <2>4 DEF OnceInv
  <2> QED BY <2>1, <2>2, <2>4
<1> SUFFICES ASSUME NEW s \in Record, s \notin edited' PROVE Once(s)'
  BY <1>0, <1>b DEF OnceInv
<1>1. /\ QuietInv /\ now \in 1 .. MaxTime /\ at \in Nat /\ at <= now /\ crashes \in Nat
      /\ missed \in [Record -> SUBSET Nat] /\ Once(s)
  BY <1>b DEF OnceInv
<1>2. ASSUME NEW h \in Handler, Request(h) \/ Save(h) PROVE Once(s)'
  BY <1>1, <1>2, OnceRequest, OnceSave, Apart
<1>3. CASE Pass BY <1>1, <1>3, OncePass
<1>4. ASSUME UNCHANGED <<fileVars, pc, rec, at, mem, fired, deleted>>, Calm PROVE Once(s)'
  BY <1>1, <1>4, OnceSame DEF fileVars
<1>5. CASE Tick BY <1>4, <1>5 DEF Calm, Tick, passVars, taskVars, askVars
<1>6. CASE Boot BY <1>4, <1>6 DEF Calm, Boot, passVars, askVars
<1>7. ASSUME NEW q \in Record, DropOwner(q) PROVE Once(s)'
  BY <1>4, <1>7 DEF Calm, DropOwner, passVars, taskVars, askVars
<1>8. CASE UNCHANGED vars BY <1>4, <1>8 DEF Calm, worldVars, vars, passVars, taskVars, askVars
<1>9. CASE Crash BY <1>1, <1>9, OnceCrash
<1> QED BY <1>2, <1>3, <1>5, <1>6, <1>7, <1>8, <1>9 DEF Next

(* No next_run_at of a schedule nobody PATCHed starts two runs while the   *)
(* server does not crash: the ticker takes a copy up only when no run was  *)
(* counted from its next_run_at on, moves it past the one that it counts,  *)
(* and is alone with the record from loading it to publishing it.          *)
THEOREM OncePerOccurrenceAlways == Spec => []OncePerOccurrence
<1>1. OnceInv => OncePerOccurrence BY DEF OnceInv, Once, Counted, OncePerOccurrence
<1> QED BY OnceInit, OnceNext, <1>1, PTL DEF Spec

(* No save moves a record that nobody PATCHed past a minute that has come  *)
(* before a run was started for it or the lookup of its user found nobody, *)
(* whatever crashes: what the ticker publishes over a readable record is a *)
(* copy with the same next_run_at, or one that it has served.              *)
THEOREM NothingSkippedAlways == Spec => NothingSkipped
<1> DEFINE Kept ==
      \A s \in Record \ edited :
          /\ DueOnDisk(s)
          /\ file'[s] \notin {NoFile, Empty, Torn} /\ file'[s].next # file[s].next
          => \/ fired[s][file[s].next] > 0
             \/ file[s].next \in missed[s]
<1>1. OnceInv /\ [Next]_vars => [Kept]_vars
  <2> SUFFICES ASSUME OnceInv, Next, NEW s \in Record \ edited, DueOnDisk(s),
                      file'[s] \notin {NoFile, Empty, Torn}, file'[s].next # file[s].next
               PROVE  Served(s)
    BY DEF DueOnDisk, Due, Served
  <2>0. QuietInv /\ Once(s) /\ Readable(s) BY DEF OnceInv, DueOnDisk
  <2>1. ASSUME NEW a \in Actor, Save(a) PROVE Served(s)
    <3>0. /\ file \in [Record -> Good \cup Unreadable \cup {NoFile}] /\ pc[a] \in Saving
          /\ job[a] = s
      <4>1. file \in [Record -> Good \cup Unreadable \cup {NoFile}]
        BY <2>0 DEF QuietInv, MatchInv
      <4>2. pc[a] \in Saving
        BY <2>1 DEF Save, SaveOpen, SaveWrite, SaveReplace, SaveRetry, SaveFails, SaveFallback,
                    SaveRewrite, Saving
      <4>3. job[a] = s
        BY <2>1, <4>1 DEF Save, SaveOpen, SaveWrite, SaveReplace, SaveRetry, SaveFails, SaveFallback,
                    SaveRewrite, OpenTmp, OpenFile, WriteOut, Replace, fileVars
      <4> QED BY <4>1, <4>2, <4>3
    <3>1. Sole(s, a) BY <2>0, <3>0 DEF Once
    <3>2. a = Ticker /\ (file[s].next = rec[a].next \/ Served(s))
      BY <2>0, <3>1, Apart DEF Sole, Readable
    <3>3. CASE SaveWrite(a)
      BY <3>1, <3>3 DEF SaveWrite, WriteOut, Sole
    <3>4. CASE SaveReplace(a)
      <4>1. file'[s] = rec[a] BY <3>0, <3>1, <3>4 DEF SaveReplace, Replace, Sole
      <4> QED BY <3>2, <4>1
    <3>5. CASE SaveFallback(a) BY <3>0, <3>5 DEF SaveFallback, OpenFile
    <3>6. CASE SaveRewrite(a) BY <2>0, <3>1, <3>6 DEF SaveRewrite, Sole, Readable
    <3>7. CASE SaveOpen(a) \/ SaveRetry(a) \/ SaveFails(a)
      BY <3>7 DEF SaveOpen, OpenTmp, SaveRetry, SaveFails, fileVars
    <3> QED BY <2>1, <3>3, <3>4, <3>5, <3>6, <3>7 DEF Save
  <2>2. ASSUME NEW h \in Handler, Request(h) PROVE FALSE
    BY <2>0, <2>2 DEF Request, Create, ScheduleTask, Patch, Delete, Reads, UnlinkFile, QuietInv,
                      MatchInv
  <2>3. ~(Wake \/ Launch \/ NoUser \/ EndPass \/ Tick \/ Crash \/ Boot)
    BY DEF Wake, Launch, NoUser, EndPass, Tick, Crash, Boot, fileVars
  <2>4. ASSUME NEW q \in Record, Skip(q) \/ Arm(q) \/ SaveTask(q) \/ DropOwner(q) PROVE FALSE
    BY <2>4 DEF Skip, Arm, SaveTask, Keep, DropOwner, fileVars
  <2> QED BY <2>1, <2>2, <2>3, <2>4, Apart DEF Next, Pass
<1> QED BY OnceInit, OnceNext, <1>1, PTL DEF Spec, NothingSkipped
=============================================================================
