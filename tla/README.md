# A TLA+ model of the Praxia server

Praxia is a Python framework and a FastAPI server for LLM agents that work on a company's
documents and share a memory.  The language model is a remote service and its answers are
arbitrary; what this repository's own code must get right is the state around it: JSON
files that several threads read and rewrite, background workers that outlive the request
that started them, restarts, retries, periodic jobs, and approvals that arrive long after
the proposal.  The modules here model that state, TLC checks them on small instances, and
TLAPS proves the most important properties for instances of any size.

Contents: [inventory](#inventory) · [modules](#modules) ·
[shared conventions](#shared-conventions) · [runs](#runs-bounds-and-what-they-show) ·
[proofs](#proofs) · [what the model found](#what-the-model-found) ·
[not modelled](#not-modelled) · [plan](#plan)

Paths are relative to `praxia/` in the repository unless they begin with another directory.

## Inventory

Modelled, wholly or in part:

| Component | State it keeps | Operations | How it interacts | What is hard | What makes it correct |
|---|---|---|---|---|---|
| Task queue, `server/routers/tasks.py` | `tasks/<user>/<id>.json`, a daemon thread per task | create, run, poll, DELETE, reap at boot | its `_save` and `_run_task` serve batches and schedules too | the worker and DELETE save one record through one `.tmp`; a crash leaves records in flight; Windows refuses renames while a poll reads | whoever polls is answered; a result is never lost or taken back |
| Batches, `server/routers/batch.py`, tools in `agent/tools.py` | a batch record naming child tasks, a semaphore | create (request or tool), run children, wait, DELETE | children are tasks; a child's agent may wait for its own batch | a permit lost on an error path; children waiting for siblings while holding the permit; half-created batches | permits add up; every child gets its turn; nothing in flight is left unattended |
| Schedules, `server/routers/schedules.py` | a record per schedule with `next_run_at`, one ticker thread | POST, PATCH, DELETE, the ticker's pass | a firing saves a task record and starts its thread | the ticker writes back what it loaded before a PATCH or DELETE; crash between firing and saving; late passes | each occurrence fired once, none skipped; pauses and deletions hold |
| Chat threads and agent runs, `server/routers/threads.py`, `server/routers/agent.py` | `chats/<user>/<id>.json`, rewritten in place | create, rename, append, delete; run (prompt, history, reply); badge of an applied operation | all of a user's devices and the agent write the same file | read-modify-write without a lock; a run spans minutes; deletion meanwhile | nothing stored is lost; what is deleted stays deleted; the agent sees the real past, once |
| Workspace file tools, `agent/file_tools.py` | files of the user's folder, `<file>.praxia-tmp`, the pending operations of a run | queue and apply write, edit, render, delete | proposals come back with the run's answer, are applied by a later request, then recorded in the thread | the file changes between proposal and approval; crash or second apply in the middle | no half-written file; a badge means it was done |
| Shared memory, `memory/shared.py` | `shared_memory.jsonl`: bi-temporal blocks with a supersede chain | upsert, append, remove, get_by_label, as_of | written by users, flows and the consolidator | two reads before one write; torn rewrites; half-open intervals | one active block per label; chain whole; history without gaps; policy blocks stand |
| Promotion and sleep-time consolidation, `memory/promoter.py`, `memory/consolidator.py` | personal entries in; promoted blocks and a review queue out | cluster, score, gate, promote or queue | reads personal memory, writes shared memory | thresholds and gates together; an exception in the middle of a run | only what several independent users bear out and no verifier refuses is promoted |
| Agent: loop, retriever, verifier, commander, `agent/autonomous.py`, `agent/commander.py`, `agent/verifier.py` | the transcript, the tool calls of a turn, sources, rounds of drafts and verdicts; nothing persistent | run (loop); classify, retrieve, draft, verify, redraft, answer or abstain | called by the agent endpoint, tasks and the CLI; tools reach every other component | two models answer anything, malformed tool calls and scores included; ids of sources from several searches meet; floats and thresholds | every tool call is answered; no rejected draft passes for a grounded answer; a citation names one reported source; redrafting ends |

| Documents: folders, uploads, embedding backfill, `server/routers/documents.py` | `folders.json`, a JSON document per indexed file | create folder, upload, remove file, remove folder; the backfill after a start | uploads run on the event loop, the other handlers on pool threads, the backfill on an executor thread, all on the same files | an upload reads its folder, awaits the file and saves afterwards; the backfill writes back copies it read before a slow call | one document per file with its latest text; counts that are true; a vector of the text beside it |
| User accounts and SCIM, `auth/users.py`, `auth/manager.py`, `scim/server.py` | `users.jsonl`, truncated and rewritten | create, bootstrap, update, deactivate, delete, rotate key, SSO upsert; SCIM POST, PUT, PATCH, DELETE | SCIM and SSO run several of the store's operations for one request | several reads and rewrites per request, no lock; an account derived from an email | a key never opens another's account; what was answered is what is stored; one account per name |
| OAuth connections, `connectors/oauth/`, `server/routers/oauth.py` | `oauth_states.json`, `oauth_tokens.jsonl` | start, callback, use (with refresh), disconnect | browsers call back, connectors refresh while other requests save | codes that are valid once, refresh tokens that the provider rotates, calls of fifteen seconds between two accesses | a code goes out once; a connection keeps a refresh token its provider accepts |
| Personal memory, `memory/personal.py`, `policy.py`, `composite.py`, `router.py`, the orchestrator, the chats and settings of `ui/app.py` | `memory_policy.json`, the backends' records, the process environment, one cached orchestrator | ordinary and ephemeral chat, memory page, flow, change of policy or credentials | all sessions' scripts share one process; processes share the policy and the backends | an environment variable that is set while an agent runs; a cache cleared while it is being filled; backends that rank, tie and fail as they like | an ephemeral chat leaves nothing behind; no memory outlives its policy; fused answers are fair |

Not modelled (the reasons are in [Not modelled](#not-modelled) and in `PROJECT.json`):
sessions, SSO, roles and audit; most agent tools; frozen Markdown notes and the remote
memory services; webhooks; experiments; flows and LLM client; skills and the Document
Designer; extensions; MCP; parsers and exporters; evaluation and analytics; the UI's own
stores and texts; CLI.

## Modules

    TaskLifecycle <·· Tasks          (Tasks implements it)
    RecordFiles ─┬─ Tasks ───────── TasksProofs
                 ├─ Schedules ───── SchedulesProofs
                 ├─ Connections ─────────────────────── CommanderProofs
                 └─ Threads ─┐
                 Workspace ──┴─ Conversations ── ConversationsProofs
    TaskRecord ──┬─ Tasks
                 └─ Batches ─────── BatchesProofs
    Selection ───┬─ Conversations, Grounding
                 ├─ SharedBlocks ┐
                 └─ Promotion ───┴─ Consolidation ┬─ MemoryProofs
    Fusion ──────── Recall ───────────────────────┘
    AgentLoop ───┐
    Grounding ───┴─ Commander ───── CommanderProofs (with Connections)
    Documents ───── DocumentsProofs
    Accounts ────── AccountsProofs

Each `MC*` module instantiates the module after its prefix for TLC.

* **RecordFiles** says what the file system does under the routers' way of saving: `open`
  truncates, `write` puts bytes at the start of whatever file the handle refers to *by
  then*, `rename` moves a handle along with the file, and on Windows neither a rename nor
  an unlink succeeds while another thread has the file open.  A file's content is a payload,
  `Empty` (truncated, not yet written) or `Torn` (two payloads over one another).  The
  platform is a variable that never changes, so every run covers both.
* **TaskRecord** names the statuses of a task.
* **Tasks**: `Create`, `Begin`, `Invoke` are the request handler and `_run_task`;
  `Save*` are the file operations of `_save` with its retries and direct write;
  `BeginDelete`/`FinishDelete` the DELETE handler; `PollOpen`/`PollClose` a GET;
  `Crash`, `Boot`, `Reap*`, `BootDone` a restart with `reap_running_tasks_on_boot`.
* **TaskLifecycle** is what a client that polls may rely on: absent, pending, running, one
  result for good; withdrawn once it asked for a DELETE; lost only to a crash in the middle
  of a write, and never with a result.  It has one variable, a phase per task, and obliges
  whoever holds a task to start and conclude it.  `Tasks!Lifecycle` is its refinement: the
  mapping `Phase` reads the phase off the record on disk, and while a record is rewritten in
  place (the reaper's way, and the last resort of `_save`) off who is rewriting it.
* **Batches**: the creating request saves the children, then the batch, then starts the
  threads in order (`SaveChild`, `SaveBatch`, `StartChild`); a thread is `Acquire`,
  `PutStatus`/`Publish` and the agent's run, which may create no further batch but may wait
  for one (`Awaited`, `Deadline`); DELETE of a batch or of a child is `Load`,
  `PutCancelled`, `PublishCancelled`, `Unlink`.  Here a save is two steps, not the six of
  `Tasks`: what overlapping saves of one record do is `Tasks`' subject.
* **Schedules**: `Request` (POST, PATCH, DELETE), `Pass` (load all, fire or re-arm each,
  save), `Save*`, `Tick` (a minute passes), `Crash`, `Boot`, `DropOwner`.
  A cron expression is the set of minutes it matches.  The lookup of the schedule's user may
  find nobody (`NoUser`) although the user exists: `_tick_once` catches whatever `AuthManager`
  raises, and `get_by_id` misses a user whose line another request has yet to write back.
* **Selection**: the elements of a sequence at chosen indices, in order, which is what a list
  comprehension with an `if` keeps; defined so that the provers can reason about it.
* **SharedBlocks**: `Upsert`, `AppendToBlock`, `RemoveLabel` begin a call,
  `Check`/`CheckAppended` and `Merge` are its two reads of the file, `TruncateFile` and
  `WriteFile` its rewrite.
* **Promotion**: the scores and gates, in hundredths, over small entries.
* **Consolidation**: `Start`, then for each candidate `Judge` and `Promote`, `Enqueue` or
  `SkipCandidate`, then `Finish`, as one more writer next to the callers of SharedBlocks.
* **Threads**: the thread endpoints.  `Rename`, `AppendMessage`, `Delete` and the agent
  endpoint's own helpers read the file and compute what to write (`Amend`); `Open`
  truncates, `Write` writes.
* **Workspace**: an operation's effect on a text, a text being a multiset of passages, which
  is all that "replace `old` where it occurs `count` times" and the size limit depend on.
* **Conversations**: `BeginRun`, `StorePrompt`, `Propose`, `Answer`/`Fail`, `StoreReply`
  are `run_agent`; `BeginApply`/`ApplyDelete`, `OpenDraft`, `FillDraft`, `ReplaceDoc`,
  `Badge` are `apply_workspace_op`; they interleave with every action of Threads.  `took`
  are the applies whose rename or deletion went through, `landed` those whose own text the
  rename put there: applies share one `.praxia-tmp`, so the two differ.
* **AgentLoop**: `AskFails`, `AskSays`, `AskCalls` are the model's answers, `Invoke` is
  `_invoke_tool` with the message that answers the call, `EndTurn` and `Exhausted` close a
  step.  Of the arguments of a call only those of `final_answer` matter.
* **Grounding**: the retriever's layers, their ids and their union over sub-queries, and the
  verifier's parsing and aggregation.  Scores are per cent, groundedness is in 1/10000.
* **Commander**: `Classify` (tasks that skip retrieval), `Ground`, the loop's steps,
  `Deliver` (answers nobody verifies), and per verdict `Accept`, `Abstain`,
  `StopWithoutGain`, `Redraft`, `OutOfRounds`; `Raise` is the `.strip()` of an answer that is
  no text.  Where two floats are compared at the bound itself both outcomes are allowed.
* **Documents**: a request is the sequence of accesses to the disk still ahead of it, and
  each access is an action (`Register`, `FindExisting`, `OpenDocument`, `CountDocuments`,
  `MergeFolder`, `Unlink`, ...).  An upload whose file has arrived holds the event loop
  (`loop`) to its end, so no other upload comes between, while deletions and the backfill
  (`BackfillStart`, `VisitFolder`, `Embed`, `OpenBlob`, `BackfillEnd`) do.  `Restart` ends
  everything anywhere.  `RemoveTree` may fail with any part of the folder's documents still
  there, which the handler logs and answers as a deletion.
* **Accounts**: the same form.  `Begin*` and the requests say which accesses a request makes,
  `GetById`, `CheckFree`, `Reread`, `Truncate`, `WriteRows` and the others make them; a SCIM
  request is the sequence of the store's operations it calls.
* **Connections**: `Start`, `Callback`, `Use`, `Disconnect` begin a request; `Put`, `Pop` and
  the file steps of RecordFiles are the state store, `Exchange` and `Refresh` the provider's
  answers (refused, lost, with or without a new refresh token), `Reread`, `Without`, `Truncate`,
  `Write` the token store.  Any line may fail to decrypt when the file is reread, and is left
  out then, and any line may fail to encrypt after the file was opened for writing, which ends
  the request with the lines before it.  `StateExpires` and `TokenExpires` are time.
* **Fusion** fuses ranked answers by the five strategies; scores are fractions, compared by
  cross-multiplying.  A
  strategy is which records it keeps (`Kept`) and which go ahead of which (`Ahead`: the order
  in which a dictionary saw them, or the score with that order among equals); `Fuse` arranges
  the kept ones so and cuts.
* **Recall**: `Chat`, `OpenPage`, `Flow`, `Settings` begin a script; `SaveMode`, `SetMode`,
  `Answer`, `Restore` are a chat, `GetLoom`, `Load`, `Keep`, `Show` a memory page, `RunFlow`
  and `RecordEpisode` a flow in its own process, `Truncate`, `WritePolicy`, `SaveKeys`,
  `Clear` the settings.  What matches a query is left out: a backend answers the user's
  records in its own order, or fails.

### Shared conventions

* An actor is a thread of the server.  One action is what the code does between two points
  where another thread can come in: a system call on a shared file, or the wait for the
  agent or a semaphore.  In-memory work is part of the step before or after.
* A crash stops every thread of the process and keeps the files; a write cut short is a
  truncated file.
* Payloads are abstracted to what the properties distinguish: a task to its status, a
  schedule to cron, enabled and next minute, a message to who stored it and in which role.
* History variables (`asked`, `fired`, `kept`, `stored`, `quiet`, `told`, `calm`, `missed`,
  `took`, `landed`, `left`, `keyed`, ...) record
  what was promised to whom; no guard of a code action reads them.
* `TypeOK` in each module states the types of its variables.  It is proved for Tasks,
  AgentLoop with Commander, Accounts and Connections, and the parts a proof needs for Batches, Schedules,
  Conversations, Documents, SharedBlocks with Consolidation, and Recall.

## Runs, bounds and what they show

| Run | Instance | What it shows |
|---|---|---|
| `tasks_lifecycle` | 1 task, 2 DELETEs, 1 poll, 1 crash, both platforms | no task in flight unattended (POSIX); results kept, final statuses stay; polls are answered; `Tasks` implements `TaskLifecycle`, its fairness included |
| `batches_fanout` | 2 children, 1 permit, waiting for their own batch, 1 DELETE thread, 1 failed save, 1 crash | permits kept; nothing in flight unattended; every child runs and ends; undisturbed batches finish |
| `schedules_ticker` | 1 schedule, 3 minutes, 1 request thread, 1 crash, user may leave or not be found, both platforms | fired once, none skipped unless the lookup of its user found nobody, served eventually; pauses and deletions nothing overlapped hold; `next_run_at` always matches the cron |
| `conversations_devices` | 3 requests: a run and any two others, or two runs; 1 operation per run; the user may save the file once; 1 crash; both platforms | nothing stored is lost, deleted stays deleted, the agent saw the past, no half-written file; a badge's operation went through, with its own text where applies do not overlap |
| `consolidation_blocks` | a consolidator and a caller, 1 label, 3 blocks, 2 moments, 1 death | chain, uniqueness, history and policy blocks; only earned promotions |
| `consolidation_own` (violated) | 2 labels, one user's entries | nothing is auto-promoted through `Praxia.consolidate` |
| `commander_rounds` | 4 rounds, 2 steps of up to 2 calls, 1 tool beside `final_answer`, 3 configurations, 3 retrievals, 9 answers of the verifying model | tool calls answered; only grounded drafts released unmarked; citations true; redrafts pay |
| `documents_library` | 3 requests of any kind, 2 at a time, 2 folders, 1 path, 2 texts, 2 starts of the server, removals of a directory that fail | the library is what clients were told, but for what failed removals of folders leave on the disk; one document per file until the backfill writes; vectors of the text beside them |
| `accounts_requests` | 3 requests of any kind, 2 at a time, 3 names, 1 email, crashes | a key never opens another's account; what was told is stored; one account per name |
| `connections_oauth` | 3 requests of any kind, 2 at a time, 2 users, 2 providers, crashes, lost answers, lines that do not decrypt or encrypt, both platforms | a code is exchanged once; connections kept, all of them unless a line failed, each with a live refresh token |
| `recall_sessions` | 4 operations of any kind, 2 at a time, 3 records, 2 backends, pages of 2 | ephemeral chats leave nothing; no memory outlives its policy; fused pages are fair |
| `recall_own` (violated) | 2 users open their memory pages | the second is shown the first one's memory |

Why these bounds are enough to meet the interesting cases.  Every hazard listed in
`PROJECT.json` involves at most three parties on one record: two savers and a reader, or a
writer that had read before two others wrote.  Records of different ids share no file, so
one record (one label, one thread and one workspace file) is the general case for the file
operations; batches need two children because the second waits for the permit of the first.
`MaxTries = 2` keeps both a retry and the last resort of a refused rename (8 tries in the
code).  One crash can fall anywhere, the boot that follows included; a second crash during
reaping is the one case it leaves out.  `MaxTime = 3` minutes hold a minute the expression
skips between two it matches.  `MaxHistory = 2` makes a run's window shorter than the
conversation it follows only by leaving system messages out; the window's arithmetic is not
exercised beyond that.  Four rounds are the least in which a gain can be measured against
the wrong draft; two calls in a turn the least in which one is answered and the next is not
(an unknown tool, refused arguments, `final_answer` twice); two sub-queries that find the
same passage are where ids of two searches clash; the verifier's answers hold each decision,
a phantom source, an unsupported claim that is cited, a score out of range and NaN.  Three runs at a time on one thread are out of TLC's reach; two are
checked, and a run with any two other requests.

In Documents, Accounts and Connections two requests overlap and a third comes before,
between or after: enough for a request that finds what another one left, was refused for
or is about to overwrite.  Two folders are needed for a document that is in one and is looked
for in the other, two texts for a vector of the wrong one; with two starts of the server the
backfill runs twice or meets a restart.  The Accounts instance has the bootstrap admin and an
account that came through SSO, whose derived name another request may take.  Connections
starts with one connection, with and without a refresh token, and the three requests hold a
whole flow (start, callback) beside a use or a disconnect of the same or another connection.
In Recall the fourth operation is what comes after an overlap of two and a change of policy;
a page of two with three records is where something has to be cut (the theorem covers a page
of any size, the 20 of the memory page included).  The backends never name the same record,
since a record is written to one of them; what fusion does with answers that share records is
in the theorem's lemmas only.  Requests, users or
backends that are interchangeable are declared symmetric in the runs that check invariants
only, and a `VIEW` leaves out registers of requests that have ended.

`CHECK_DEADLOCK FALSE` is set in every run: each instance really stops, once its bounded
requests are served, its clock has run out and nobody asks for more.

`Consolidation_blocks` gives `consolidate` a memory that pools several users' entries, as
a caller can by passing its own `MemoryBackend`; with the memories the repository ships
the run `consolidation_own` tells what happens.

**Scope words.** Several properties hold only while uses of one file do not overlap, and
say so: `calm` in SharedBlocks and Accounts, `alone` in Schedules, `quiet` in Threads,
`disturbed` in Batches, `ordered` and `calm` in Connections (for the states, and for the
tokens), `calm` in Documents, where overlapping uploads count as calm, and `repaired`, which
the backfill's first write sets; `clean` in Recall, until two ephemeral chats overlap.  Three
more stand for failures of one request, not for overlaps: `keyed` in Connections holds until a
rewrite meets a line that does not decrypt or encrypt, `left` in Documents are the folders whose
directory could not be removed, and `missed` in Schedules the occurrences whose user was not
found; what the code does about each is told below as well.  The code takes no
lock, and its text does not claim to handle overlaps, except in the places quoted under
[What the model found](#what-the-model-found), where what overlap does is told too.  These words exclude only an overlap of the
few file operations of two requests: an agent's run, a ticker's pass with its record already
saved, a consolidation between two candidates, a call to a provider or to an embedding model
and an upload's wait for its file interleave freely with everything else.

**Fairness.** Only the code's own obligations are fair, and all of them weakly: a thread
that was started gets scheduled, an agent run returns or raises, a request that has begun
goes on, a wait ends at its deadline, time passes, and a dead server is started again.
No client is obliged to create, delete, poll or approve anything.  Weak fairness is enough
because nothing that disables these steps recurs: a semaphore is only released by steps
that are fair themselves.

## Proofs

| Theorem | Says, for any values of the constants |
|---|---|
| `TasksProofs!TypeCorrect` | `Tasks` keeps its types, and whoever saves works on a record |
| `TasksProofs!AttendedAlways` | while the server is up on POSIX, a task in flight on disk has a worker, or a DELETE about to unlink it |
| `TasksProofs!ResultAlwaysKept` | where nobody asked for a DELETE, the record on disk says what its worker ended with |
| `TasksProofs!NoRevivalAlways` | on POSIX, a task that showed a final status is in flight again only while a DELETE of it is being served |
| `TasksProofs!KeepsItsPromise` | every behaviour of `Tasks` is one of `TaskLifecycle` under the mapping (its safety part) |
| `BatchesProofs!PermitsAlwaysKept` | the free permits and the children inside a batch's semaphore add up to its size |
| `BatchesProofs!AttendedAlways` | while nothing is deleted, a child's record in flight has a thread or one about to be started, or its request failed half-way |
| `SchedulesProofs!NextMatchesAlways` | `next_run_at` is a minute the record's own expression matches |
| `SchedulesProofs!QuietDeleteAlways` | a DELETE that overlapped nothing is final |
| `SchedulesProofs!QuietPauseAlways` | a pause that overlapped nothing holds until the schedule is enabled |
| `SchedulesProofs!OncePerOccurrenceAlways` | without PATCHes and crashes no `next_run_at` starts two runs |
| `SchedulesProofs!NothingSkippedAlways` | without PATCHes, crashes or not, an occurrence that has come is only moved past once a run was started or the lookup of its user found nobody |
| `ConversationsProofs!BadgesAreTrue` | a badge in a thread stands for an operation whose rename or deletion went through, whatever overlaps or crashes, and for its own text in the file while changes of it do not overlap |
| `ConversationsProofs!NeverHalfWrittenAlways` | a workspace file holds one of the complete texts while applies do not overlap, whatever crashes |
| `ConversationsProofs!NothingLostAlways` | in a thread whose rewrites did not overlap, every recorded message is still there |
| `ConversationsProofs!DeletedStaysAlways` | a thread that was deleted with no rewrite under way is gone for good |
| `ConversationsProofs!AgentSawThePastAlways` | in a thread whose rewrites did not overlap, what an agent was sent is an unbroken stretch of what was said, before the run's own prompt |
| `CommanderProofs!RoundsTypeCorrect` | the loop, the rounds and the reply keep their types; never more than `MaxRounds` rounds |
| `CommanderProofs!GroundedAlways` | a rejected draft never leaves a blocking commander, except as the last one where the caller asked for that; an advisory one marks it |
| `CommanderProofs!ProgressAlways` | every redraft but the last gained `MinGain` on the draft before it |
| `CommanderProofs!CitationsAlways` | a citation names one reported source, and a passing claim or the text itself rests on it |
| `CommanderProofs!RedraftingEnds` | at most 2 + 10000 / `MinGain` rounds, however large `MaxRounds` |
| `CommanderProofs!CallsAlwaysAnswered` | in the transcript every tool call is answered right behind the message that made it, in order and under its id, or still has to be run |
| `DocumentsProofs!VectorsAlwaysMatch` | a stored vector is of the text beside it, whatever overlaps or restarts |
| `DocumentsProofs!OneDocumentAlways` | no two documents of one file as long as the backfill has opened none |
| `DocumentsProofs!LibraryKeptAlways` | while only uploads overlapped, a library nobody works on holds what the client was told, in folders that count it right, and beside it only what failed removals of folders left |
| `AccountsProofs!AccountsTyped` | the user store and the requests' registers keep their types |
| `AccountsProofs!KeysStayWithTheirOwner` | a line of `users.jsonl` carries a key that was issued for its account, whatever overlaps or crashes |
| `AccountsProofs!AsLastToldAlways` | while requests do not overlap, `users.jsonl` holds what the requests answered so far left, or is being rewritten |
| `AccountsProofs!OneAccountPerNameAlways` | ... and no two accounts share a name |
| `CommanderProofs!ConnectionsTyped` | the files, requests and history of the connections keep their types |
| `CommanderProofs!FlowsServedOnceAlways` | while no two requests are inside `oauth_states.json`, a code goes out at most once and no flow is forgotten, whatever crashes |
| `CommanderProofs!ConnectionsKeptAlways` | while no two requests rewrite the tokens file or change one connection, it holds nothing but the connections as they were made, renewed and cut, each with a refresh token that is good or being renewed, and all of them unless a line did not decrypt or encrypt |
| `MemoryProofs!ChainIsWhole` | while calls do not overlap, a label has one active block and its supersede chain can be walked both ways |
| `MemoryProofs!NothingIsForgotten` | ... every block a call returned can be looked up until its label is removed |
| `MemoryProofs!HistoryIsWhole` | ... `as_of` has exactly one answer for every moment since a label's first block, unless somebody backdated the label |
| `MemoryProofs!PoliciesStay` | ... a read-only block stays the active one of its label |
| `MemoryProofs!PromotionsAlwaysEarned` | whatever overlaps or dies, what was auto-promoted has its sources and passed the gates |
| `MemoryProofs!EphemeralAlways` | while ephemeral chats do not overlap one another, none of them writes and the process is left as the operator set it |
| `MemoryProofs!LoomFollowsAlways` | once every admin who changed the policy or the credentials has cleared the cache, the cached orchestrator is built from what is on file |
| `MemoryProofs!FairlyFusedAlways` | a memory page of any size keeps the order its backends agree on, repeats and invents nothing, is filled, and has each backend's best hit where ranks are weighed |

Arguments, and why the properties need strengthening:

* **Attended.** Alone it is not inductive: a worker whose `.tmp` was renamed away by a
  DELETE dies in its last save, and the record may then say "running".  The invariant adds
  where each actor can be (`Places`), that a stopped server has no threads (`Quiet`), that
  the reaper has not passed a record in flight (`ToReap`), that the worker's last `.tmp`
  never holds an earlier status (`LastWord`), and the heart of it, `Swept`: whoever has
  displaced a worker's `.tmp` is on its way to unlink what it published.
* **ResultKept and the lifecycle.** A record that nobody asked to delete has one writer at a
  time: its worker while the server that started it lives, then the reaper.  The invariant
  says what that writer has published so far for each place it can be in, retries and direct
  write included; the step simulation then maps each action to `Submit`, `Start`, `Conclude`,
  `Withdraw`, `Lose` or a stutter.
* **NoRevival.** A worker takes a final status back if it renames or writes an earlier one over
  it.  The invariants of the two results above are nearly enough: `Swept` covers the write
  through a handle on the record, `LastWord` the worker that has its result, and a record that
  is not yet there has no DELETE (`Unasked`).  What is left is a worker between "pending" and
  "running": until it has said the latter, a final status in the record is of a DELETE that has
  yet to unlink it, also where a handle on the replaced `.tmp` may still write one
  (`Withdrawn`).  TLC checked the two over the states of `tasks_lifecycle`.
* **PermitsKept.** The invariant adds that threads start in the order of the list
  (`InOrder`) and belong to a batch (`Owned`), so that one acquire or release changes the
  cardinality of exactly one batch's set by one.  It rests on the assumption that no task is
  an item of two batches, which `uuid4` ids give.
* **Attended children.** While nothing is deleted, a thread publishes what it has written
  (`Written`) and the record that it is about to change is in flight (`Minded`); the loop that
  starts the threads leaves no child out (`Begun`), and a dead server runs nothing (`Dead`).
* **NextMatches.** Every copy of a record anywhere, on disk, in a `.tmp`, in the ticker's
  list or in a handler, satisfies the property, so it does not matter whose write wins.
* **Quiet pauses and deletions.** After a request nothing overlapped, no copy of the record
  exists that would undo it; the invariant says so for every place a copy can be
  (`DeletedInv`, `PausedInv`) and describes what a handler that is alone publishes
  (`AloneInv`).
* **Occurrences.** A record that nobody PATCHes has one user at a time, the request that
  creates it and then the ticker (`Sole`).  Without crashes every copy the ticker can still take
  up has no run counted from its `next_run_at` on (`Once`, `Counted`); with them, what the
  ticker holds over a readable record has the same `next_run_at`, or the record's has been
  served: its run was started, or the lookup of its user found nobody (`Served`, `Known`).
* **Badges.** An operation's request is in `took` before it goes on to the badge, `took`
  only grows, and every thread payload, on disk or in a request's memory, carries badges of
  `took` only; overlapping rewrites can lose a badge but not invent one.  That what was renamed
  was the apply's own text needs the file quiet: the one apply under way then has the `.tmp`
  to itself, with its draft in it (`DocInv`), so `took` is no more than `landed` (`LandInv`).
* **Threads and workspace files.** The one apply under way has the `.tmp` for itself and
  renames it only when it is complete (`DocInv`).  A thread nobody overlapped holds what was
  recorded, or is being rewritten by the only request in its window, whose copy keeps all that
  and the message it is about to record (`ChatInv`); after a DELETE there is neither a file nor
  a request in that window.
* **What an agent has seen.** Every copy of a thread nobody overlapped, on disk or in the hand of
  the request that rewrites it, has each history handed out as a stretch that ends before that
  run's prompt (`Told`).  A copy only ever grows by its writer's message, so a stretch stays
  where it is, and a run that has not begun has said nothing yet.  The history is what users
  and assistants said in the window; that a selection from a stretch is a stretch of the
  selection from the whole (`Stretch`) is a matter of counting indices.  TLC checked
  `SeenInv` in the run first.
* **Rounds.** `Progress` says nothing of the draft in hand, so it is not inductive.  While
  rounds go on (`Going`), all of them asked for a redraft, each gained on the one before,
  and `prev` is the groundedness of the last; a new round is measured against that `prev`.
  For `RedraftingEnds` the invariant `PaidInv` adds that `prev` has paid for every round
  so far: `(rounds - 1) * MinGain <= prev`, and groundedness ends at 10000.
* **Citations.** Ids are made three times: per layer, from the position of a hit; for the union
  of several sub-queries, from the place of a source among those of its kind (`Place`), which
  grows along the list; and an artefact's sources are a part of what was found.  Each of these
  gives a list in which no id occurs twice (`Distinct`), and `CiteInv` carries that to the reply,
  whose citations the last verdict took from passing claims.  The union and the sum of the
  scores are recursions over lists whose length is not known: `Climb` is induction up to a
  bound, from a least counterexample, and `Solvable` says with it that such a recursion has a
  solution.
* **Answered calls.** The transcript is a sequence of messages; each assistant message must be
  followed by its results.  In between, the calls still to be run (`todo`) are the tail of
  the last message's calls: the message `Waiting` is the only one not yet answered in full,
  and its results end where the transcript will be once `todo` is done.  One lemma says
  what appending a message does to messages answered before.
* **Vectors.** Every copy of a document, on disk, in a request's hand or in the backfill's, has
  a vector of its own text, and the backfill embeds the text of the copy that it writes back.
* **One document per file.** An upload that has looked its file up holds the event loop until
  it has written, and what it found is still the only document of that file: nobody but an
  upload and the backfill adds one, and deletions only remove.  So an upload either replaces
  the document under its id or adds the first.
* **The library kept.** At most one thread is past its first access, and if anything waits
  meanwhile it is an upload (`Alone`).  The invariant says for each place that thread can be in
  how far the disk is from `Settled`: the index emptied, one document between "opened" and
  "written", one folder whose number is stale, or a folder taken off the index whose documents
  are still there.  Where nobody is under way the library is settled; a waiting upload needs
  only that its folder is still listed, which merging a folder by its id gives.  A removal that
  fails puts its folder into `left`, off the index; folder ids count up, so no folder is ever
  registered, and no document counted, under it again.
* **Keys.** Every copy of an account, in the file, in a hand or among lines to be written,
  carries an issued pair of key and id; an SSO login changes no key, and a rotation issues
  the pair before it writes.
* **As last told.** The programs of requests are put together from a few lists of accesses, and
  what the proof needs of them is which access may follow which (`Follows`): nobody truncates
  the file who has not just reread it, and nobody appends who has not looked for the name.
  `CalmInv` says of the request that is under way what its next access may rely on (`Fit`): a
  number not yet given out before an append, an account that the file holds before it is
  rewritten, and before the truncation lines that are the `Outcome` of the request.  What a
  rewrite writes keeps names and numbers apart because a rename looked for the new name one
  access before (`Rewritten`).
* **Flows.** What a thread may still have to do is one of 16 programs, closed under doing
  their first access (`Programs`).  A flow is put by one request (`Putting`), and only then
  handed out, so nobody can claim it before; a callback `Claiming` it has its code unsent, is
  the only one, and once it has left the states file the flow no longer waits there.  The
  request in the file has the `.tmp` to itself and what it will publish differs from what
  waits by its own flow, but for what expires meanwhile (`OrderedInv`).
* **Connections kept.** Two facts make refresh tokens safe to reason about: no token belongs to two
  connections, whichever copies of it are about (`OneOwner`, which needs no scope word), and
  while changes of one connection do not overlap, each connection told is accepted or in the
  hands of the request that renews it (`CalmInv`).  So a rotation that invalidates a token
  invalidates nobody else's.  What a request writes is a part of what was told of the others,
  with its own connection or without, and all of it while no line failed (`Draft`, `keyed`);
  what is in the file or about to be (`Kept`) only carries refresh tokens that are good.
* **Ephemeral chats.** At most one chat is `Under` way between looking at the mode and putting
  it back; what it saved is what the operator set; its agent has no memory before it runs and
  a read-only one from then on.
* **The cached loom.** `LoomFollowsPolicy` looks at the cache only; what may yet be put in it is
  with the scripts.  The invariant (`LoomInv`) says of every thread which rest of a program it is
  in (`Programs`), and that unless an admin has yet to clear the cache, a loom that a script is
  about to keep was built from what is on file too, or carries an older number than the cache,
  since a clear counts it up, and will be dropped.  TLC checked `LoomInv` over the two million
  states of `recall_sessions`.
* **Fair pages.** What a fused list is comes first, without the state: whenever a relation
  orders a finite set strictly, `Arranged` lists the set in that order (`Lists`), since the
  members with k - 1 others ahead of them are one each; `Seen` and the order by score are such
  relations; and a record that every answer which names the other ranks higher has the higher
  score, as the two sums of the records' points differ term by term.  That holds also of answers
  that share records (`FuseFacts`), however many and however long: the points are exact
  fractions, ordered by their cross-products (`Chained`, `PlusGrows`).  That the best hit of each backend is shown does not, and
  rests on the state: the answers of one search share no record, because ids count up and a
  write goes to one backend.  The invariant (`PageInv`) says that, and that every loom which is
  cached or about to be searched is one a policy gives, with at least one backend; TLC checked
  it over the states of `recall_sessions` too.
* **The chain and its history.** `ChainWhole` says nothing of a writer's list, the file that is
  about to be; the invariant (`CalmInv`) says of both that they are `Good`: ids occur once, one
  active block a label, links mirrored, policies active, and for each past moment one block that was
  believed then (`NoGap`).  A call that is alone reads the same file twice, so the block it
  closes is the active one of its label, and the one it adds begins at the moment at which the
  other ends.  Lemmas about `Selection` say that removing a label keeps what is about others
  (`GoodWithout`), and about `Superseded` that adding a block does (`GoodExtended`).  That a
  selection has the elements it should rests on a least index not yet counted, a minimal
  counterexample in a well-founded order: the form of induction the provers can be given.
* **Earned promotions.** A wish to promote in a writer's hand, a block in anybody's list and a
  block in the file all list enough contributors (`EarnedInv`); that the verdict itself passed
  the gates follows from the arithmetic of `Score` and the assumption on its weights.

All theorems rest on the `ASSUME`s of the modules they extend, which TLC evaluates in the
runs, and on nothing else.  Threads and Conversations assume so that the marks of a truncated
file are neither threads nor texts, SharedBlocks that "no block" is no block, and Promotion
that the weights of frequency and self-assessment together stay under the threshold, as the
code's do.  Commander assumes that what the layers answer are lists of texts, and that a
claim's score is a number, NaN included, and Recall that an admin chooses a policy of the
form's type and that a search asks for at least one record.  The bounds (`MaxCrashes`, `MaxTime`, ...) are
parameters in the theorems.

Only model-checked: everything temporal beyond `[]` (`Answered`, `Drains`, `DueIsServed` and
the fair part of `Lifecycle`: liveness under fairness and `ENABLED` are beyond this prover).
Every safety invariant and every action property of a passing run is a theorem.

## What the model found

Two runs end in a violation, each of a sentence of the repository:

1. "Auto-promotes high-confidence candidates" (`consolidator.py:7`): with any memory the
   repository ships there is one contributor, a frequency score of 0, and the source
   minimum demotes every candidate (`consolidation_own`).
2. "Each user's memory is namespaced" (`docs/specs/basic-design.en.md:154`), "Per-user JSONL
   or LTM backend" (`docs/FEATURES.md:234`): every parameter of `get_loom` (`ui/app.py:2207`)
   begins with an underscore, which `st.cache_resource` leaves out of its key, so the
   orchestrator of whoever came first serves every later session, and its memory page shows
   that user's records (`recall_own`).

Seen while modelling, with no run of their own:

* Tasks: `_save`'s "Persist a TaskRecord atomically" (`tasks.py:100`) holds for one saver at a
  time: the `.tmp` name is shared, so one saver publishes what another has just truncated.
  A record deleted while its worker runs is written back, and the reaper skips
  finished records, so it is not tidied up as `tasks.py:256-258` expects.  A second crash
  in the middle of a reap leaves a truncated record.  On Windows a poll can block the
  unlink and leave a record running with no worker, which is why `Attended` and `Answered`
  are about POSIX.
* Batches: "Cancel any still-in-flight children" (`batch.py:249`) also cancels a child that
  finished after the load, and its result is lost.  Creation is not all-or-nothing (`batch.py:11-12`): when a save fails, the children saved so
  far stay pending, with no thread and no batch, until the next boot; a worker whose `.tmp` a
  DELETE renamed dies without recording its result; `in_flight` counts children deleted
  one by one for ever.
* Schedules: a DELETE during the ticker's pass is undone by it, and the schedule fires on
  ("The user can view / pause / delete it", `agent/tools.py:1206`).  A PATCH that pauses during a pass is undone by the pass's save; a PATCH that
  read before a firing and saves after it fires the occurrence twice; so does a crash
  between the start of the thread and the save; a schedule whose user is gone leaves a
  pending task per firing; enabling a schedule with an old `next_run_at` fires at once.
  An existing user whom the lookup does not find, because `AuthManager` raises or `users.jsonl`
  is being rewritten by another request, loses the occurrence: the saved task stays pending and
  `next_run_at` starts over from the next pass (`schedules.py:275-284`).
* Shared memory: overlapping upserts lose blocks or leave two active ones, a reader that
  meets a truncated file saves nothing but its own block, a death in `_save_all` loses the
  rest of the file, and a backdated `valid_from` gives two answers for a past moment.
* Consolidation: running twice promotes twice ("Idempotent", `consolidator.py:10`); a
  candidate for a read-only label ends the run with `PermissionError`; review files of the
  same millisecond overwrite one another; the model's score is not clamped.
* Threads: overlapping appends lose a message or leave a thread that no longer parses
  ("a mobile client ... see the same history", `threads.py:5`).  History read during a rewrite is silently empty; a retried run stores its prompt
  twice and the agent sees the first copy as history.
* Workspace: two applies of one file share `<file>.praxia-tmp`, so the promise at
  `file_tools.py:31-33` holds for one apply at a time, and a badge may stand beside a file that
  holds the other apply's text, or half of it; an insertion applied twice inserts
  twice; a queued `write_file` overwrites what the user saved since without asking; a
  deletion that found nothing is recorded as applied.  The audit record the docstring
  promises (lines 37-39) is never written: `_audit` passes arguments `AuditLog.record` does
  not take and swallows the error.
* Agent loop: `final_answer` does not end the loop at once: the other calls of its turn
  still run, `final_answer(None)` does not end it at all, and an answer that is no text
  raises in the caller.  Each redraft runs the tools again, their effects included.
* Commander: the verifier grades scores and never asks that a passing claim name a source, so a
  claim with none, or with an id that no source has, is accepted ("Every accepted claim is
  traceable to a source", `docs/COMMANDED_AGENT.md:54`).  A failed run's "[agent error] ..." is an answer like any other, verified or
  delivered.  With no sources the default is to answer unverified, where the docs say it
  abstains; out of rounds the default, an advisory verifier, forwards the last draft with a
  note, where the docs say it abstains.  A NaN score passes as 1.  The decomposer hands the
  parser the model's response object, whose `.strip()` fails, so with the shipped model
  every question is searched as one.

* Documents: a folder is taken off the index first, and an `rmtree` that fails is logged and
  answered as a deletion (`documents.py:838-841`): its documents stay on the disk, out of sight.
  The backfill rewrites in place a document an upload or a removal has replaced in
  the meantime, so an old text or a removed document comes back and "one document per file"
  (`documents.py:29`) ends (`documents.py:872`).
* Accounts: overlapping requests lose or revive accounts, and a manager that is built while
  `users.jsonl` is truncated creates a bootstrap admin (`manager.py:50`).  SCIM's list calls
  `auth.users.all()`, which the store does not have (`scim/server.py:193`).
* Connections: `refresh` takes the provider's token address without `_resolve`
  (`token_store.py:160`, unlike `flow.py:105`), so a provider with `{subdomain}` in it can
  never refresh; a line that does not decrypt is skipped (`token_store.py:196-197`), so one
  failure of the key service, or a changed key, and the next save or disconnect of any connection
  erases the others for good; so does an encryption that fails after the file was opened for
  writing (`token_store.py:104-106`), with nothing overlapping and no crash; `_build_oauth_flow` passes no `url_params` (`oauth.py:34`).  "Atomically
  retrieve + remove" (`state_store.py:94`) is not so for two callbacks at once.
* Personal memory: two overlapping ephemeral chats can leave the process read-only for good,
  or let one of them write ("writes nothing back", `ui/i18n.py:685`).  Agents build their
  memory with the backend "auto" and see no policy, though `ui/app.py:4380-4382` says it is
  "observed by all PersonalMemory constructions"; the memory routes read `default_backend`
  and neither `backend` nor the strategy.  A composite whose write target did not load
  raises on every write (`policy.py:299`), where the routed kind is given another target
  (`policy.py:317`).  `LLMRouter()` lacks its argument, and the `TypeError` turns into the
  JSON backend unnoticed (`policy.py:319`).  Agreement between backends finds nothing, since
  a record's id is minted by the one backend it is written to.

## Not modelled

* HTTP, authentication of requests, formats, wording, prompts, ranking scores: no state.
* Read-only routes (lists, GETs that retry nothing), except the poll that holds a task file
  open on Windows.
* `file_tools` with `require_confirmation=False` (the server never uses it), its path
  confinement, attachments and the sources panel of `/agent/run`.
* Sessions, roles and policies: signed tokens and lookups, pure functions of a store that
  is modelled.  The one-time SSO state is the store Connections models.
* Agent tools other than those in Batches, Schedules, Workspace and Recall: each reads, or
  calls one operation of a modelled component.
* Webhooks: subscriptions are changed under a lock and renamed into place, a delivery is one
  logged attempt; only the command line uses them.  Experiments: a hash picks the variant, a
  log is appended to.
* The UI's own stores (`data/scopes.py`, `data/threads.py`): used by one Streamlit process
  and rewritten in the way Documents and Threads model.
* The remote memory services, connectors, parsers, exporters, audio, MCP: adapters without
  state of their own.
* The Document Designer's sandbox: generated code in a subprocess.
* The texts and the layout of the UI (`ui/i18n.py`, `ui/responsive.py` and nearly all of
  `ui/app.py`, together a quarter of the source) and the CLI: presentation, and one-shot
  commands over the components above.

So the modules stand for a small share of the source's lines: those where several actors
meet in shared state.  What is left is presentation, adapters, pure functions, or a pattern
that one of the modules already has.

## Plan

The order of importance in which the project was built, and what is left:

1. **RecordFiles, Tasks** and **Batches**, with `Attended` (of both), the permits and that no
   finished task comes back proved; then **TaskLifecycle**, with the refinement checked and its
   safety part proved.
2. **Schedules**, with quiet pauses and deletions, one run per occurrence and none skipped
   proved.
3. **Selection, SharedBlocks, Promotion, Consolidation**, with the chain, the history, policies
   and earned promotions proved.
4. **Threads, Workspace, Conversations**, with badges, nothing lost, deletions, whole files and
   what agents have seen proved.
5. **AgentLoop, Grounding, Commander**, with answered calls, release, citations, progress
   and the end of redrafting proved.
6. **Accounts**, **Documents**, **Connections**, **Fusion** and **Recall**, with keys, the
   accounts of requests that do not overlap, flows and connections, vectors, one document per
   file, the library kept, ephemeral chats, the cached loom and fair pages proved.

Left: the UI's own stores, should a second process ever use them;
the cron field parser and the retention rules against reference definitions.
