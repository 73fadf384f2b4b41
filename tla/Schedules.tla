----------------------------- MODULE Schedules -----------------------------
(***************************************************************************)
(* Recurring runs: praxia/server/routers/schedules.py, and the agent tool  *)
(* of praxia/agent/tools.py that creates a schedule.                       *)
(*                                                                         *)
(* A schedule is one record file (module RecordFiles).  Request handlers   *)
(* create, PATCH and delete it; one ticker thread per process wakes every  *)
(* minute, loads every record, and then works through what it loaded:      *)
(* computes a missing next_run_at, and fires what is due by saving a task, *)
(* looking its user up, starting the task's thread and saving the record   *)
(* it loaded with a new next_run_at.                                       *)
(*                                                                         *)
(* A cron expression is the set of minutes it matches; how it is parsed is *)
(* left out, and so are prompt and args: what PATCH does to `enabled` over *)
(* again.                                                                  *)
(***************************************************************************)
EXTENDS RecordFiles, FiniteSets, FiniteSetsExt

CONSTANTS
    Handler,     \* threads serving POST, PATCH and DELETE /schedules
    Ticker,      \* the thread "praxia-schedules"
    Cron,        \* cron expressions that parse_cron accepts
    Matches,     \* the minutes each of them matches
    Edit,        \* the bodies of PATCH requests
    Unset,       \* a field that a PATCH does not mention
    Leaver,      \* schedules whose user may be deleted
    MaxTime,     \* bound: the clock's last minute stands for all later ones
    MaxTries,    \* attempts at the rename before the direct write (8 in the code)
    MaxCrashes   \* bound on server crashes

ASSUME SchedulesAssumption ==
    /\ Actor = Handler \cup {Ticker} /\ Ticker \notin Handler
    /\ Matches \in [Cron -> SUBSET (Nat \ {0})]
    /\ \A c \in Cron : IsFiniteSet(Matches[c])
    /\ Unset \notin Cron \cup BOOLEAN
    /\ Edit \subseteq [cron : Cron \cup {Unset}, enabled : BOOLEAN \cup {Unset}]
    /\ Leaver \subseteq Record /\ Cron # {}
    /\ MaxTime \in Nat \ {0} /\ MaxTries \in Nat \ {0} /\ MaxCrashes \in Nat

Never == 0                    \* next_run_at is None
Minute == Nat \ {0}
Schedule == [cron : Cron, enabled : BOOLEAN, next : Nat]

(* What json.loads refuses is not taken for a record. *)
ASSUME PayloadAssumption == {NoFile, Empty, Torn} \cap Schedule = {}

(* next_run: the first match after minute t, if there is one within a year. *)
NextRun(c, t) ==
    LET later == {m \in Matches[c] : m > t}
    IN  IF later = {} THEN Never ELSE Min(later)

VARIABLES
    pc,        \* where each actor is
    rec,       \* the ScheduleRecord each actor works on
    tries,     \* failed rename attempts of the save in progress
    now,       \* the clock, in minutes
    at,        \* the `now` of the ticker's pass
    mem,       \* the records the pass loaded and has not come to yet
    woke,      \* when the last pass ended; 0 after a boot
    owner,     \* the schedules whose user exists
    orphans,   \* schedules a pending task was saved for whose thread is not started
    fired,     \* history: threads started per schedule and next_run_at
    missed,    \* history: the next_run_ats for which a lookup found no user
    paused,    \* history: schedules whose pause was answered ...
    alone,     \* ... and the handlers whose access nobody overlapped so far
    deleted,   \* history: schedules whose DELETE was answered
    edited,    \* history: schedules a PATCH was asked for
    server, crashes

passVars == <<at, mem, woke>>
taskVars == <<orphans, fired, missed>>
askVars == <<paused, alone, deleted, edited>>
worldVars == <<now, owner, server, crashes>>
vars == <<fileVars, pc, rec, tries, passVars, taskVars, askVars, worldVars>>

(* Not so, or so by a request that overlapped other users of the record,   *)
(* or by one that did not.                                                 *)
Overlap == {"no", "raced", "alone"}

Saving == {"open", "write", "replace", "fallback", "rewrite"}
Readable(s) == file[s] \notin {NoFile, Empty, Torn}
Blank == [cron |-> CHOOSE c \in Cron : TRUE, enabled |-> FALSE, next |-> Never]
Nothing == [s \in Record |-> NoFile]

TypeOK ==
    /\ FilesTypeOK(Schedule)
    /\ pc \in [Actor -> Saving \cup {"idle", "scan", "fired"}]
    /\ rec \in [Actor -> Schedule]
    /\ tries \in [Actor -> 0 .. MaxTries]
    /\ now \in 1 .. MaxTime /\ at \in 0 .. MaxTime /\ woke \in 0 .. MaxTime
    /\ mem \in [Record -> Schedule \cup {NoFile}]
    /\ owner \subseteq Record /\ orphans \subseteq Record /\ edited \subseteq Record
    /\ fired \in [Record -> [1 .. MaxTime -> 0 .. 2]]
    /\ missed \in [Record -> SUBSET (1 .. MaxTime)]
    /\ paused \in [Record -> Overlap] /\ deleted \in [Record -> Overlap]
    /\ alone \subseteq Handler
    /\ server \in {"up", "down"} /\ crashes \in 0 .. MaxCrashes

Init ==
    /\ FilesInit
    /\ job = [a \in Actor |-> NoRecord]
    /\ pc = [a \in Actor |-> "idle"] /\ rec = [a \in Actor |-> Blank]
    /\ tries = [a \in Actor |-> 0]
    /\ now = 1 /\ at = 0 /\ woke = 0 /\ mem = Nothing
    /\ owner = Record /\ orphans = {} /\ fired = [s \in Record |-> [m \in 1 .. MaxTime |-> 0]]
    /\ missed = [s \in Record |-> {}]
    /\ paused = [s \in Record |-> "no"] /\ deleted = [s \in Record |-> "no"]
    /\ alone = {} /\ edited = {}
    /\ server = "up" /\ crashes = 0

Goto(a, label) == pc' = [pc EXCEPT ![a] = label]

Release(a) ==
    /\ job' = [job EXCEPT ![a] = NoRecord]
    /\ rec' = [rec EXCEPT ![a] = Blank]

(* Somebody besides a has read s and may still write it back. *)
Shared(a, s) == (\E b \in Actor \ {a} : job[b] = s) \/ mem[s] # NoFile

-----------------------------------------------------------------------------
(* _save *)

(* The handler's save was its last step; the ticker's pass goes on. *)
Saved(a) ==
    /\ tries' = [tries EXCEPT ![a] = 0]
    /\ IF a = Ticker
       THEN Goto(a, "scan") /\ UNCHANGED askVars
       ELSE /\ Goto(a, "idle")
            /\ alone' = alone \ {a}
            /\ paused' = [paused EXCEPT ![job[a]] =
                            IF rec[a].enabled THEN "no"
                            ELSE IF a \in alone THEN "alone" ELSE "raced"]
            /\ UNCHANGED <<deleted, edited>>

SaveOpen(a) ==
    /\ pc[a] = "open"
    /\ OpenTmp(a)
    /\ Goto(a, "write")
    /\ UNCHANGED <<rec, tries, passVars, taskVars, askVars, worldVars>>

SaveWrite(a) ==
    /\ pc[a] = "write"
    /\ WriteOut(a, rec[a])
    /\ Goto(a, "replace")
    /\ UNCHANGED <<job, rec, tries, passVars, taskVars, askVars, worldVars>>

SaveReplace(a) ==
    /\ pc[a] = "replace"
    /\ Replace(a)
    /\ Release(a)
    /\ Saved(a)
    /\ UNCHANGED <<passVars, taskVars, worldVars>>

SaveRetry(a) ==
    /\ pc[a] = "replace"
    /\ tmp[job[a]] # NoFile /\ ReplaceBlocked(a)
    /\ IF tries[a] + 1 < MaxTries
       THEN tries' = [tries EXCEPT ![a] = @ + 1] /\ UNCHANGED pc
       ELSE tries' = [tries EXCEPT ![a] = 0] /\ Goto(a, "fallback")
    /\ UNCHANGED <<fileVars, rec, passVars, taskVars, askVars, worldVars>>

(* FileNotFoundError: another saver renamed this one's .tmp.  The request  *)
(* answers 500; the ticker's loop logs it and drops the rest of the pass.  *)
SaveFails(a) ==
    /\ pc[a] = "replace"
    /\ tmp[job[a]] = NoFile
    /\ Goto(a, "idle")
    /\ Release(a)
    /\ tries' = [tries EXCEPT ![a] = 0]
    /\ IF a = Ticker
       THEN mem' = Nothing /\ woke' = now /\ UNCHANGED <<at, askVars>>
       ELSE alone' = alone \ {a} /\ UNCHANGED <<passVars, paused, deleted, edited>>
    /\ UNCHANGED <<file, tmp, fd, windows, taskVars, worldVars>>

(* The direct write; the .tmp stays behind. *)
SaveFallback(a) ==
    /\ pc[a] = "fallback"
    /\ OpenFile(a)
    /\ Goto(a, "rewrite")
    /\ UNCHANGED <<rec, tries, passVars, taskVars, askVars, worldVars>>

SaveRewrite(a) ==
    /\ pc[a] = "rewrite"
    /\ WriteOut(a, rec[a])
    /\ Release(a)
    /\ Saved(a)
    /\ UNCHANGED <<passVars, taskVars, worldVars>>

Save(a) ==
    \/ SaveOpen(a) \/ SaveWrite(a) \/ SaveReplace(a) \/ SaveRetry(a) \/ SaveFails(a)
    \/ SaveFallback(a) \/ SaveRewrite(a)

-----------------------------------------------------------------------------
(* Request handlers. *)

Reads(h, s, r) ==
    /\ server = "up" /\ pc[h] = "idle"
    /\ job' = [job EXCEPT ![h] = s]
    /\ rec' = [rec EXCEPT ![h] = r]
    /\ Goto(h, "open")
    /\ alone' = IF Shared(h, s) THEN alone \ ({h} \cup {b \in Handler : job[b] = s})
                ELSE alone \cup {h}
    /\ UNCHANGED <<file, tmp, fd, windows, tries, passVars, taskVars, deleted, worldVars>>

(* A fresh uuid: no file, no request and no firing has named it before. *)
Fresh(s) ==
    /\ file[s] = NoFile /\ tmp[s] = NoFile /\ deleted[s] = "no"
    /\ \A a \in Actor : job[a] # s

New(c, on) == [cron |-> c, enabled |-> on, next |-> NextRun(c, now)]

(* POST /schedules *)
Create(h, s) ==
    /\ Fresh(s)
    /\ \E c \in Cron, on \in BOOLEAN : Reads(h, s, New(c, on))
    /\ UNCHANGED <<paused, edited>>

(* The tool schedule_recurring_task, in the thread of the agent's run. *)
ScheduleTask(h, s) ==
    /\ Fresh(s)
    /\ \E c \in Cron : Reads(h, s, New(c, TRUE))
    /\ UNCHANGED <<paused, edited>>

(* Mutant: a new cron expression keeps the old one's next_run_at. *)
Edited_StaleNext(r, e) ==
    [cron |-> IF e.cron = Unset THEN r.cron ELSE e.cron,
     next |-> r.next,
     enabled |-> IF e.enabled = Unset THEN r.enabled ELSE e.enabled]

(* What PATCH makes of the record it read: next_run_at follows the cron    *)
(* expression only; enabling does not renew it.                            *)
Edited(r, e) ==
    [cron |-> IF e.cron = Unset THEN r.cron ELSE e.cron,
     next |-> IF e.cron = Unset THEN r.next ELSE NextRun(e.cron, now),
     enabled |-> IF e.enabled = Unset THEN r.enabled ELSE e.enabled]

(* PATCH /schedules/{id}; a record that is missing or does not parse       *)
(* answers 404 or 500 and changes nothing.                                 *)
Patch(h, s) ==
    /\ Readable(s)
    /\ \E e \in Edit :
          /\ Reads(h, s, Edited(file[s], e))
          /\ paused' = [paused EXCEPT ![s] = IF e.enabled = TRUE THEN "no" ELSE @]
          /\ edited' = edited \cup {s}

(* Mutant: a deletion only disables the schedule. *)
Delete_Disables(h, s) ==
    /\ server = "up" /\ pc[h] = "idle"
    /\ Readable(s)
    /\ file' = [file EXCEPT ![s].enabled = FALSE]
    /\ deleted' = [deleted EXCEPT ![s] = IF Shared(h, s) THEN "raced" ELSE "alone"]
    /\ UNCHANGED <<tmp, fd, windows, job, pc, rec, tries, passVars, taskVars, paused, alone,
                   edited, worldVars>>

(* DELETE /schedules/{id}: nothing is read, the file is unlinked. *)
Delete(h, s) ==
    /\ server = "up" /\ pc[h] = "idle"
    /\ file[s] # NoFile
    /\ UnlinkFile(h, s)
    /\ deleted' = [deleted EXCEPT ![s] = IF Shared(h, s) THEN "raced" ELSE "alone"]
    /\ UNCHANGED <<job, pc, rec, tries, passVars, taskVars, paused, alone, edited, worldVars>>

-----------------------------------------------------------------------------
(* _tick_once *)

tickVars == <<tries, askVars, worldVars>>

(* The minute's sleep is over: load every schedule of every user. *)
Wake ==
    /\ server = "up" /\ pc[Ticker] = "idle"
    /\ now > woke \/ now = MaxTime
    /\ Goto(Ticker, "scan")
    /\ at' = now
    /\ mem' = [s \in Record |-> IF Readable(s) THEN file[s] ELSE NoFile]
    /\ alone' = {h \in alone : job[h] # NoRecord /\ mem'[job[h]] = NoFile}
    /\ UNCHANGED <<fileVars, rec, woke, taskVars, tries, paused, deleted, edited, worldVars>>

Visit(s) == server = "up" /\ pc[Ticker] = "scan" /\ mem[s] # NoFile

Due(r, t) == r.enabled /\ r.next # Never /\ r.next <= t

Skip(s) ==
    /\ Visit(s)
    /\ ~mem[s].enabled \/ mem[s].next > at
    /\ mem' = [mem EXCEPT ![s] = NoFile]
    /\ UNCHANGED <<fileVars, pc, rec, at, woke, taskVars, tickVars>>

Keep(s, r, label) ==
    /\ rec' = [rec EXCEPT ![Ticker] = r]
    /\ job' = [job EXCEPT ![Ticker] = s]
    /\ mem' = [mem EXCEPT ![s] = NoFile]
    /\ Goto(Ticker, label)
    /\ UNCHANGED <<file, tmp, fd, windows, at, woke, tickVars>>

(* Mutant: a missed minute is rescheduled instead of fired. *)
Arm_SkipsMissed(s) ==
    /\ Visit(s) /\ mem[s].enabled /\ mem[s].next < at
    /\ Keep(s, [mem[s] EXCEPT !.next = NextRun(mem[s].cron, at)], "open")
    /\ UNCHANGED taskVars

(* next_run_at is missing: compute it, and fire from the next pass on. *)
Arm(s) ==
    /\ Visit(s) /\ mem[s].enabled /\ mem[s].next = Never
    /\ Keep(s, [mem[s] EXCEPT !.next = NextRun(mem[s].cron, at)], "open")
    /\ UNCHANGED taskVars

(* Mutant: `enabled` is not looked at. *)
SaveTask_DisabledToo(s) ==
    /\ Visit(s) /\ mem[s].next # Never /\ mem[s].next <= at
    /\ Keep(s, mem[s], "fired")
    /\ orphans' = orphans \cup {s}
    /\ UNCHANGED <<fired, missed>>

(* The pending task is on disk before anything else happens. *)
SaveTask(s) ==
    /\ Visit(s) /\ Due(mem[s], at)
    /\ Keep(s, mem[s], "fired")
    /\ orphans' = orphans \cup {s}
    /\ UNCHANGED <<fired, missed>>

(* One more run started for minute m; two stand for all further ones. *)
OneMore(runs, m) == [runs EXCEPT ![m] = IF runs[m] = 2 THEN 2 ELSE runs[m] + 1]

Ready == server = "up" /\ pc[Ticker] = "fired"

(* Mutant: the record is saved as it was loaded. *)
Launch_NoAdvance ==
    LET s == job[Ticker] r == rec[Ticker] IN
    /\ Ready /\ s \in owner
    /\ fired' = [fired EXCEPT ![s] = OneMore(fired[s], r.next)]
    /\ orphans' = orphans \ {s}
    /\ Goto(Ticker, "open")
    /\ UNCHANGED <<fileVars, rec, missed, passVars, tickVars>>

(* The user is found: the thread starts, and only then the record moves on. *)
Launch ==
    LET s == job[Ticker] r == rec[Ticker] IN
    /\ Ready /\ s \in owner
    /\ fired' = [fired EXCEPT ![s] = OneMore(fired[s], r.next)]
    /\ orphans' = orphans \ {s}
    /\ rec' = [rec EXCEPT ![Ticker].next = NextRun(r.cron, at)]
    /\ Goto(Ticker, "open")
    /\ UNCHANGED <<fileVars, missed, passVars, tickVars>>

(* The next_run_at in hand goes without a run. *)
Miss ==
    missed' = [missed EXCEPT ![job[Ticker]] = @ \cup {rec[Ticker].next}]

(* Mutant: a schedule without a user keeps its next_run_at. *)
NoUser_KeepNext ==
    /\ Ready
    /\ Miss
    /\ Goto(Ticker, "open")
    /\ UNCHANGED <<fileVars, rec, passVars, orphans, fired, tickVars>>

(* The lookup finds nobody, and the record moves on without a run.  The    *)
(* user need not be gone: AuthManager may raise, and get_by_id misses whom *)
(* another request's rewrite of users.jsonl has yet to write back.         *)
NoUser ==
    /\ Ready
    /\ Miss
    /\ rec' = [rec EXCEPT ![Ticker].next = Never]
    /\ Goto(Ticker, "open")
    /\ UNCHANGED <<fileVars, passVars, orphans, fired, tickVars>>

EndPass ==
    /\ server = "up" /\ pc[Ticker] = "scan" /\ mem = Nothing
    /\ Goto(Ticker, "idle")
    /\ woke' = now
    /\ UNCHANGED <<fileVars, rec, at, mem, taskVars, tickVars>>

-----------------------------------------------------------------------------
(* The world. *)

Tick ==
    /\ now < MaxTime
    /\ now' = now + 1
    /\ UNCHANGED <<fileVars, pc, rec, tries, passVars, taskVars, askVars, owner, server, crashes>>

(* An administrator deletes the schedule's user. *)
DropOwner(s) ==
    /\ s \in owner \cap Leaver
    /\ owner' = owner \ {s}
    /\ UNCHANGED <<fileVars, pc, rec, tries, passVars, taskVars, askVars, now, server, crashes>>

Crash ==
    /\ server = "up" /\ crashes < MaxCrashes
    /\ server' = "down" /\ crashes' = crashes + 1
    /\ pc' = [a \in Actor |-> "idle"]
    /\ job' = [a \in Actor |-> NoRecord] /\ rec' = [a \in Actor |-> Blank]
    /\ fd' = [a \in Actor |-> "closed"]
    /\ tries' = [a \in Actor |-> 0]
    /\ mem' = Nothing /\ woke' = 0 /\ alone' = {}
    /\ UNCHANGED <<file, tmp, windows, at, taskVars, paused, deleted, edited, now, owner>>

(* The task router's boot marks every pending task as an error. *)
Boot ==
    /\ server = "down"
    /\ server' = "up"
    /\ orphans' = {}
    /\ UNCHANGED <<fileVars, pc, rec, tries, passVars, fired, missed, askVars, now, owner, crashes>>

-----------------------------------------------------------------------------
Request(h) ==
    \E s \in Record : Create(h, s) \/ ScheduleTask(h, s) \/ Patch(h, s) \/ Delete(h, s)

Pass ==
    \/ Wake \/ Launch \/ NoUser \/ EndPass \/ Save(Ticker)
    \/ \E s \in Record : Skip(s) \/ Arm(s) \/ SaveTask(s)

Next ==
    \/ \E h \in Handler : Request(h) \/ Save(h)
    \/ Pass \/ Tick \/ Crash \/ Boot
    \/ \E s \in Record : DropOwner(s)

Spec == Init /\ [][Next]_vars

(* The ticker's thread and a request that has begun get scheduled, time    *)
(* passes, and a dead server is restarted.                                 *)
FairSpec ==
    /\ Spec
    /\ WF_vars(Pass) /\ WF_vars(Tick) /\ WF_vars(Boot)
    /\ \A h \in Handler : WF_vars(Save(h))

-----------------------------------------------------------------------------
(* Properties. *)

(* The ticker wakes once a minute and a pass may be late or refused a      *)
(* rename; still no next_run_at starts two runs, whatever is deleted       *)
(* meanwhile.  (PATCHes and crashes are out of it: see the README.)        *)
OncePerOccurrence ==
    crashes = 0 => \A s \in Record \ edited : \A m \in 1 .. MaxTime : fired[s][m] < 2

DueOnDisk(s) == Readable(s) /\ Due(file[s], now)

(* Without PATCH, next_run_at leaves a minute that has come only after a   *)
(* run was started for it, or the lookup of its user for that very run     *)
(* found nobody: neither a crash nor a late pass skips an occurrence.      *)
NothingSkipped ==
    [][\A s \in Record \ edited :
          /\ DueOnDisk(s)
          /\ file'[s] \notin {NoFile, Empty, Torn} /\ file'[s].next # file[s].next
          => \/ fired[s][file[s].next] > 0
             \/ file[s].next \in missed[s]]_vars

(* Without PATCH, what is due does not stay due: it is fired and moved on, *)
(* or its user is not found, or it is deleted, even across a crash.        *)
DueIsServed ==
    \A s \in Record :
        (s \notin edited /\ DueOnDisk(s)) ~> (s \in edited \/ ~DueOnDisk(s))

(* next_run_at is a minute the record's own cron expression matches,       *)
(* however PATCHes of it and the ticker's saves overwrite one another.     *)
NextMatchesCron ==
    \A s \in Record :
        Readable(s) => file[s].next \in Matches[file[s].cron] \cup {Never}

(* A pause whose PATCH overlapped nobody else's use of the record holds    *)
(* until the schedule is enabled again.                                    *)
QuietPauseHolds ==
    [][\A s \in Record : paused[s] = "alone" => fired'[s] = fired[s]]_vars

(* A schedule deleted while nobody else used its record stays deleted: the *)
(* ticker's pass does not bring it back.                                   *)
QuietDeleteHolds == \A s \in Record : deleted[s] = "alone" => file[s] = NoFile

=============================================================================
