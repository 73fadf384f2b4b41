--------------------------- MODULE BatchesProofs ---------------------------
(***************************************************************************)
(* For any batches, any max_concurrency and any number of DELETE threads,  *)
(* failing saves and crashes: no step loses or mints a permit of a batch's *)
(* semaphore (PermitsAlwaysKept), and a child's record in flight has a     *)
(* thread that will finish it, or one about to be started                  *)
(* (AttendedAlways).                                                       *)
(***************************************************************************)
EXTENDS Batches, FiniteSetTheorems, TLAPS

Threads == Inside \cup {"none", "queued", "over"}

SemType ==
    /\ thread \in [Task -> Threads]
    /\ permits \in [Batch -> Int]
    /\ creator \in [Batch -> {"idle", "saving", "starting", "answered", "failed"}]
    /\ next \in [Batch -> Nat \ {0}]

(* A child whose turn in the start loop has not come has no thread yet. *)
ToStart(b, i) ==
    \/ creator[b] \in {"idle", "saving"}
    \/ creator[b] = "starting" /\ next[b] <= i

InOrder ==
    \A b \in Batch : \A i \in DOMAIN Children[b] :
        ToStart(b, i) => thread[Children[b][i]] = "none"

(* A thread belongs to a child of some batch. *)
Owned == \A t \in Task : thread[t] # "none" => \E b \in Batch : t \in Members(b)

Counted(b) == IsFiniteSet(Running(b)) /\ permits[b] + Cardinality(Running(b)) = Cap(b)

SemInv == SemType /\ InOrder /\ Owned /\ \A b \in Batch : Counted(b)

(* What the assumption says: no task is an item of two batches. *)
LEMMA Disjoint ==
    /\ \A b \in Batch : Members(b) \subseteq Task
    /\ \A b \in Batch : \A i \in DOMAIN Children[b] : Children[b][i] \in Task
    /\ \A b \in Batch : Cap(b) \in Int
    /\ \A b, c \in Batch : \A i \in DOMAIN Children[b], j \in DOMAIN Children[c] :
          Children[b][i] = Children[c][j] => b = c /\ i = j
    /\ \A b, c \in Batch : \A t \in Task : t \in Members(b) /\ t \in Members(c) => b = c
    /\ \A b \in Batch : \A t \in Members(b) : BatchOf(t) = b
<1>1. \A b \in Batch : \A i \in DOMAIN Children[b] : Children[b][i] \in Task
  BY BatchesAssumption
<1>2. \A b, c \in Batch : \A t \in Task : t \in Members(b) /\ t \in Members(c) => b = c
  BY BatchesAssumption DEF Members
<1>3. ASSUME NEW b \in Batch, NEW t \in Members(b) PROVE BatchOf(t) = b
  <2>1. t \in Task BY <1>1 DEF Members
  <2>2. \E c \in Batch : t \in Members(c) OBVIOUS
  <2>3. BatchOf(t) \in Batch /\ t \in Members(BatchOf(t)) BY <2>2 DEF BatchOf
  <2> QED BY <2>1, <2>3, <1>2
<1> QED BY <1>1, <1>2, <1>3, BatchesAssumption DEF Members, Cap

LEMMA SemInit == Init => SemInv
<1> SUFFICES ASSUME Init PROVE SemInv OBVIOUS
<1>1. SemType BY Disjoint DEF Init, SemType, Threads
<1>2. InOrder /\ Owned BY Disjoint DEF Init, InOrder, Owned
<1>3. ASSUME NEW b \in Batch PROVE Counted(b)
  <2>1. Running(b) = {} BY Disjoint DEF Init, Running, Inside
  <2> QED BY <2>1, FS_EmptySet, Disjoint DEF Init, Counted
<1> QED BY <1>1, <1>2, <1>3 DEF SemInv

(* One thread moves and stays on its side of the semaphore. *)
LEMMA SameSide ==
    ASSUME SemInv, NEW t \in Task, NEW l \in Threads,
           thread' = [thread EXCEPT ![t] = l], l # "none", thread[t] # "none",
           thread[t] \in Inside <=> l \in Inside,
           UNCHANGED <<permits, creator, next>>
    PROVE  SemInv'
<1>1. SemType' BY DEF SemInv, SemType
<1>2. InOrder' BY Disjoint DEF SemInv, SemType, InOrder, ToStart
<1>3. Owned' BY DEF SemInv, SemType, Owned
<1>4. ASSUME NEW b \in Batch PROVE Counted(b)'
  <2>1. Running(b)' = Running(b) BY Disjoint DEF SemInv, SemType, Running
  <2> QED BY <2>1 DEF SemInv, Counted
<1> QED BY <1>1, <1>2, <1>3, <1>4 DEF SemInv

LEMMA AcquireInv == ASSUME SemInv, NEW t \in Task, Acquire(t) PROVE SemInv'
<1> DEFINE b == BatchOf(t)
<1>0. /\ thread[t] = "queued" /\ thread' = [thread EXCEPT ![t] = "begin"]
      /\ permits' = [permits EXCEPT ![b] = @ - 1] /\ UNCHANGED <<creator, next>>
  BY DEF Acquire, Goto, creatorVars
<1>1. b \in Batch /\ t \in Members(b) BY <1>0, Disjoint DEF SemInv, Owned
<1>2. SemType' BY <1>0, <1>1 DEF SemInv, SemType, Threads, Inside
<1>3. InOrder' BY <1>0, Disjoint DEF SemInv, SemType, InOrder, ToStart
<1>4. Owned' BY <1>0, <1>1 DEF SemInv, SemType, Owned
<1>5. Counted(b)'
  <2>1. Running(b)' = Running(b) \cup {t} /\ t \notin Running(b)
    BY <1>0, <1>1, Disjoint DEF SemInv, SemType, Running, Inside
  <2>2. permits'[b] = permits[b] - 1 /\ Cap(b)' = Cap(b) BY <1>0, <1>1 DEF SemInv, SemType, Cap
  <2>3. Counted(b) BY <1>1 DEF SemInv
  <2>4. IsFiniteSet(Running(b)) /\ Cardinality(Running(b)) \in Nat
    BY <2>3, FS_CardinalityType DEF Counted
  <2>5. IsFiniteSet(Running(b)') /\ Cardinality(Running(b)') = Cardinality(Running(b)) + 1
    BY <2>1, <2>4, FS_AddElement
  <2> QED BY <2>2, <2>3, <2>4, <2>5, <1>1 DEF Counted, SemInv, SemType
<1>6. ASSUME NEW c \in Batch, c # b PROVE Counted(c)'
  <2>1. Running(c)' = Running(c) BY <1>0, <1>1, <1>6, Disjoint DEF SemInv, SemType, Running
  <2>2. permits'[c] = permits[c] BY <1>0, <1>1, <1>6 DEF SemInv, SemType
  <2> QED BY <2>1, <2>2 DEF SemInv, Counted
<1> QED BY <1>2, <1>3, <1>4, <1>5, <1>6 DEF SemInv

LEMMA ReleaseInv ==
    ASSUME SemInv, NEW t \in Task, thread[t] \in Inside, Release(t), UNCHANGED <<creator, next>>
    PROVE  SemInv'
<1> DEFINE b == BatchOf(t)
<1>0. /\ thread[t] # "none" /\ thread' = [thread EXCEPT ![t] = "over"]
      /\ permits' = [permits EXCEPT ![b] = @ + 1]
  BY DEF Release, Goto, Inside
<1>1. b \in Batch /\ t \in Members(b) BY <1>0, Disjoint DEF SemInv, Owned
<1>2. SemType' BY <1>0, <1>1 DEF SemInv, SemType, Threads
<1>3. InOrder' BY <1>0, Disjoint DEF SemInv, SemType, InOrder, ToStart
<1>4. Owned' BY <1>0, <1>1 DEF SemInv, SemType, Owned
<1>5. Counted(b)'
  <2>1. Running(b)' = Running(b) \ {t} /\ t \in Running(b)
    BY <1>0, <1>1, Disjoint DEF SemInv, SemType, Running, Inside
  <2>2. permits'[b] = permits[b] + 1 /\ Cap(b)' = Cap(b) BY <1>0, <1>1 DEF SemInv, SemType, Cap
  <2>3. Counted(b) BY <1>1 DEF SemInv
  <2>4. IsFiniteSet(Running(b)) /\ Cardinality(Running(b)) \in Nat
    BY <2>3, FS_CardinalityType DEF Counted
  <2>5. IsFiniteSet(Running(b)') /\ Cardinality(Running(b)') = Cardinality(Running(b)) - 1
    BY <2>1, <2>4, FS_RemoveElement
  <2> QED BY <2>2, <2>3, <2>4, <2>5, <1>1 DEF Counted, SemInv, SemType
<1>6. ASSUME NEW c \in Batch, c # b PROVE Counted(c)'
  <2>1. Running(c)' = Running(c) BY <1>0, <1>1, <1>6, Disjoint DEF SemInv, SemType, Running
  <2>2. permits'[c] = permits[c] BY <1>0, <1>1, <1>6 DEF SemInv, SemType
  <2> QED BY <2>1, <2>2 DEF SemInv, Counted
<1> QED BY <1>2, <1>3, <1>4, <1>5, <1>6 DEF SemInv

LEMMA ThreadInv == ASSUME SemInv, NEW t \in Task, Thread(t) PROVE SemInv'
<1>1. CASE Acquire(t) BY <1>1, AcquireInv
<1>2. CASE PutStatus(t)
  <2>1. \E l \in {"begun", "ended"} : thread' = [thread EXCEPT ![t] = l]
    BY <1>2 DEF PutStatus, Goto
  <2> QED BY <1>2, <2>1, SameSide DEF PutStatus, creatorVars, Inside, Threads
<1>3. CASE Publish(t)
  <2>1. CASE thread[t] = "begun" /\ Goto(t, "invoking") /\ UNCHANGED permits
    BY <1>3, <2>1, SameSide DEF Publish, Goto, creatorVars, Inside, Threads
  <2>2. CASE thread[t] \in {"begun", "ended"} /\ Release(t)
    BY <1>3, <2>2, ReleaseInv DEF Publish, creatorVars, Inside
  <2> QED BY <1>3, <2>1, <2>2 DEF Publish
<1>4. CASE Invoked(t) BY <1>4, SameSide DEF Invoked, Goto, creatorVars, Inside, Threads
<1>5. ASSUME NEW b \in Batch, Await(t, b) PROVE SemInv'
  BY <1>5, SameSide DEF Await, Goto, creatorVars, Inside, Threads
<1>6. CASE StopAwaiting(t) BY <1>6, SameSide DEF StopAwaiting, Goto, creatorVars, Inside, Threads
<1> QED BY <1>1, <1>2, <1>3, <1>4, <1>5, <1>6 DEF Thread, Awaited, Deadline

(* A step that leaves threads and permits alone and only moves a request   *)
(* on, or closes it.                                                       *)
LEMMA RequestInv ==
    ASSUME SemInv, UNCHANGED <<thread, permits>>, SemType',
           \A b \in Batch : \A i \in DOMAIN Children[b] : ToStart(b, i)' => ToStart(b, i)
    PROVE  SemInv'
<1>1. InOrder' BY DEF SemInv, InOrder
<1>2. Owned' BY DEF SemInv, Owned
<1>3. ASSUME NEW b \in Batch PROVE Counted(b)'
  <2>1. Running(b)' = Running(b) BY DEF Running
  <2> QED BY <2>1 DEF SemInv, Counted
<1> QED BY <1>1, <1>2, <1>3 DEF SemInv

LEMMA StartChildInv == ASSUME SemInv, NEW b \in Batch, StartChild(b) PROVE SemInv'
<1> DEFINE i == next[b]  t == Children[b][i]
<1>0. /\ creator[b] = "starting" /\ i <= Len(Children[b])
      /\ thread' = [thread EXCEPT ![t] = "queued"]
      /\ next' = [next EXCEPT ![b] = @ + 1] /\ UNCHANGED <<creator, permits>>
  BY DEF StartChild
<1>1. i \in DOMAIN Children[b] /\ t \in Task /\ t \in Members(b)
  BY <1>0, Disjoint, BatchesAssumption DEF SemInv, SemType, Members
<1>2. thread[t] = "none" BY <1>0, <1>1 DEF SemInv, SemType, InOrder, ToStart
<1>3. SemType' BY <1>0, <1>1 DEF SemInv, SemType, Threads
<1>4. InOrder'
  <2> SUFFICES ASSUME NEW c \in Batch, NEW j \in DOMAIN Children[c], ToStart(c, j)'
               PROVE  thread'[Children[c][j]] = "none"
    BY DEF InOrder
  <2>1. ToStart(c, j) /\ ~(c = b /\ j = i)
    BY <1>0, <1>1, BatchesAssumption DEF ToStart, SemInv, SemType
  <2>2. Children[c][j] # t BY <2>1, <1>1, Disjoint
  <2> QED BY <1>0, <2>1, <2>2, Disjoint DEF SemInv, SemType, InOrder
<1>5. Owned' BY <1>0, <1>1 DEF SemInv, SemType, Owned
<1>6. ASSUME NEW c \in Batch PROVE Counted(c)'
  <2>1. Running(c)' = Running(c)
    BY <1>0, <1>1, <1>2, Disjoint DEF SemInv, SemType, Running, Inside
  <2> QED BY <1>0, <2>1 DEF SemInv, Counted
<1> QED BY <1>3, <1>4, <1>5, <1>6 DEF SemInv

LEMMA CreatorInv == ASSUME SemInv, NEW b \in Batch, Creator(b) PROVE SemInv'
<1> USE DEF creatorVars, threadVars, SemInv, SemType, ToStart
<1>1. CASE Create(b) BY <1>1, RequestInv DEF Create
<1>2. CASE SaveChild(b) BY <1>2, RequestInv DEF SaveChild
<1>3. CASE SaveBatch(b)
  <2>1. UNCHANGED <<thread, permits>> /\ SemType' BY <1>3 DEF SaveBatch
  <2>2. \A c \in Batch : \A i \in DOMAIN Children[c] : ToStart(c, i)' => ToStart(c, i)
    BY <1>3 DEF SaveBatch
  <2> QED BY <2>1, <2>2, RequestInv
<1>4. CASE CreateFails(b) BY <1>4, RequestInv DEF CreateFails
<1>5. CASE StartChild(b) BY <1>5, StartChildInv
<1>6. CASE Answer(b) BY <1>6, RequestInv DEF Answer
<1> QED BY <1>1, <1>2, <1>3, <1>4, <1>5, <1>6 DEF Creator

(* A crash ends every thread and every semaphore with it. *)
LEMMA CrashInv == ASSUME SemInv, Crash PROVE SemInv'
<1>1. /\ SemType' /\ \A b \in Batch : permits'[b] = Cap(b)
      /\ \A t \in Task : thread'[t] \notin Inside /\ (thread[t] = "none" => thread'[t] = "none")
                        /\ (thread'[t] # "none" => thread[t] # "none")
      /\ \A b \in Batch : \A i \in DOMAIN Children[b] : ToStart(b, i)' => ToStart(b, i)
  BY Disjoint DEF Crash, SemInv, SemType, Threads, Inside, ToStart
<1>2. InOrder' BY <1>1, Disjoint DEF SemInv, InOrder
<1>3. Owned' BY <1>1 DEF SemInv, Owned
<1>4. ASSUME NEW b \in Batch PROVE Counted(b)'
  <2>1. Running(b)' = {} BY <1>1, Disjoint DEF Running
  <2>2. Cap(b)' = Cap(b) BY DEF Cap
  <2> QED BY <1>1, <2>1, <2>2, FS_EmptySet, Disjoint DEF Counted
<1> QED BY <1>1, <1>2, <1>3, <1>4 DEF SemInv

LEMMA SemNext == SemInv /\ [Next]_vars => SemInv'
<1> SUFFICES ASSUME SemInv, [Next]_vars PROVE SemInv' OBVIOUS
<1>1. ASSUME UNCHANGED <<thread, permits, creator, next>> PROVE SemInv'
  <2>1. SemType' BY <1>1 DEF SemInv, SemType
  <2> QED BY <1>1, <2>1, RequestInv DEF ToStart
<1>2. ASSUME NEW h \in Handler, Delete(h) PROVE SemInv'
  BY <1>1, <1>2 DEF Delete, DeleteBatch, DeleteTask, Load, PutCancelled, PublishCancelled, Unlink,
                    handlerRest, creatorVars, threadVars
<1>3. CASE Boot BY <1>1, <1>3 DEF Boot, creatorVars, threadVars
<1>4. CASE UNCHANGED vars BY <1>1, <1>4 DEF vars
<1> QED BY <1>2, <1>3, <1>4, CreatorInv, ThreadInv, CrashInv DEF Next

(* In every behaviour the permits of a batch and the children that hold    *)
(* one add up to max(1, max_concurrency): the `with sem:` of runner.       *)
THEOREM PermitsAlwaysKept == Spec => []PermitsKept
<1>1. SemInv => PermitsKept BY DEF SemInv, Counted, PermitsKept
<1> QED BY SemInit, SemNext, <1>1, PTL DEF Spec

-----------------------------------------------------------------------------
(* Nothing deleted: every record in flight is somebody's to finish. *)

(* What a child's thread is about to rename is what it has just written. *)
Written ==
    \A t \in Task :
        /\ thread[t] = "begun" => tmp[t] = "running"
        /\ thread[t] = "ended" => tmp[t] \in Terminal

(* The start loop leaves no child out. *)
Begun ==
    \A b \in Batch : \A i \in DOMAIN Children[b] :
        creator[b] = "starting" /\ i < next[b] => thread[Children[b][i]] # "none"

(* A dead server runs no request and no thread. *)
Dead ==
    /\ \A b \in Batch : creator[b] \notin {"saving", "starting"}
    /\ \A t \in Task : thread[t] \in {"none", "over"}

Minded(b, t) ==
    \/ thread[t] \in Inside \cup {"queued"}
    \/ thread[t] = "none" /\ StillToStart(b)
    \/ faults > 0 /\ creator[b] = "failed"

(* As long as nothing was deleted. *)
Calm ==
    /\ file \in [Task -> Content] /\ tmp \in [Task -> Content]
    /\ \A h \in Handler : handler[h].step = "idle"
    /\ Written /\ Begun
    /\ server = "down" => Dead
    /\ server = "up" =>
          \A t \in Task : file[t] \in InFlight => \E b \in Batch : t \in Members(b) /\ Minded(b, t)

CalmInv ==
    /\ SemInv
    /\ server \in {"up", "down"} /\ faults \in Nat /\ disturbed \in BOOLEAN
    /\ ~disturbed => Calm

LEMMA Apart ==
    /\ "pending" \in Content /\ "running" \in Content /\ "error" \in Content
    /\ "error" \notin InFlight /\ NoFile \notin InFlight /\ NoFile \notin Terminal
    /\ NoFile # "running" /\ Terminal \subseteq Content /\ Terminal \cap InFlight = {}
    /\ "done" \in Terminal /\ "error" \in Terminal
BY DEF Content, Status, InFlight, Terminal, NoFile

LEMMA CalmInit == Init => CalmInv
<1> SUFFICES ASSUME Init PROVE CalmInv OBVIOUS
<1>1. SemInv BY SemInit
<1>2. Calm
  BY Disjoint DEF Init, Calm, Written, Begun, Content, InFlight, NoFile, Idle
<1> QED BY <1>1, <1>2 DEF Init, CalmInv

(* A request or thread moves on and leaves every record minded. *)
LEMMA CalmStep ==
    ASSUME CalmInv, ~disturbed, SemInv', server = "up",
           UNCHANGED <<handler, server, disturbed>>, faults' \in Nat,
           file' \in [Task -> Content], tmp' \in [Task -> Content],
           Written', Begun',
           \A t \in Task, b \in Batch :
              file'[t] \in InFlight /\ file[t] \in InFlight /\ t \in Members(b) /\ Minded(b, t)
                 => Minded(b, t)',
           \A t \in Task :
              file'[t] \in InFlight /\ file[t] \notin InFlight
                 => \E b \in Batch : t \in Members(b) /\ Minded(b, t)'
    PROVE  CalmInv'
<1>1. ASSUME NEW t \in Task, file'[t] \in InFlight
      PROVE  \E b \in Batch : t \in Members(b) /\ Minded(b, t)'
  BY <1>1 DEF CalmInv, Calm
<1>2. \A t \in Task, b \in Batch : (t \in Members(b))' <=> t \in Members(b) BY DEF Members
<1>3. server' # "down" OBVIOUS
<1>4. \A h \in Handler : handler'[h].step = "idle" BY DEF CalmInv, Calm
<1>5. Calm' BY <1>1, <1>2, <1>3, <1>4 DEF Calm
<1> QED BY <1>5 DEF CalmInv

LEMMA CalmCreator ==
    ASSUME CalmInv, ~disturbed, SemInv', NEW b \in Batch, Creator(b) PROVE CalmInv'
<1>0. /\ file \in [Task -> Content] /\ tmp \in [Task -> Content] /\ faults \in Nat
      /\ Written /\ Begun
      /\ UNCHANGED <<handler, server, disturbed, tmp>>
      /\ thread \in [Task -> Threads] /\ next \in [Batch -> Nat \ {0}]
      /\ creator \in [Batch -> {"idle", "saving", "starting", "answered", "failed"}]
      /\ InOrder
  BY DEF CalmInv, Calm, SemInv, SemType, Creator, Create, SaveChild, SaveBatch, CreateFails,
         StartChild, Answer, filesVars, serverVars
<1>a. server = "up"
  BY DEF CalmInv, Calm, Dead, Creator, Create, SaveChild, SaveBatch, CreateFails, StartChild, Answer
<1>b. \A c \in Batch : \A i \in DOMAIN Children[c] : Children[c][i] \in Members(c) /\ i \in Nat
  BY BatchesAssumption DEF Members
<1>c. Len(Children[b]) \in Nat /\ DOMAIN Children[b] = 1 .. Len(Children[b]) /\ Len(Children[b]) > 0
  BY BatchesAssumption
<1>1. CASE Create(b)
  <2>0. /\ creator[b] = "idle" /\ creator' = [creator EXCEPT ![b] = "saving"]
        /\ UNCHANGED <<file, thread, next, faults>>
    BY <1>1 DEF Create, filesVars, threadVars, serverVars
  <2>1. Written' BY <1>0, <2>0 DEF Written
  <2>2. Begun' BY <1>0, <2>0 DEF Begun
  <2>3. \A t \in Task, c \in Batch : Minded(c, t) => Minded(c, t)'
    BY <1>0, <2>0 DEF Minded, StillToStart
  <2> QED BY <1>0, <1>a, <2>0, <2>1, <2>2, <2>3, CalmStep
<1>2. CASE SaveChild(b)
  <2>a. PICK u : u = Children[b][next[b]] OBVIOUS
  <2>0. /\ creator[b] = "saving" /\ next[b] <= Len(Children[b])
        /\ file' = [file EXCEPT ![u] = "pending"] /\ next' = [next EXCEPT ![b] = @ + 1]
        /\ UNCHANGED <<thread, creator, faults>>
    BY <1>2, <2>a DEF SaveChild, threadVars, serverVars
  <2>1. next[b] \in DOMAIN Children[b] BY <1>0, <1>c, <2>0
  <2>2. thread[u] = "none" /\ u \in Members(b)
    BY <1>0, <1>b, <2>a, <2>0, <2>1 DEF InOrder, ToStart
  <2>3. file' \in [Task -> Content] BY <1>0, <2>0, Apart
  <2>4. Written' BY <1>0, <2>0 DEF Written
  <2>5. Begun' BY <1>0, <2>0 DEF Begun
  <2>6. \A t \in Task, c \in Batch : Minded(c, t) => Minded(c, t)'
    BY <1>0, <2>0 DEF Minded, StillToStart
  <2>7. Minded(b, u)' BY <2>0, <2>2 DEF Minded, StillToStart
  <2>8. \A t \in Task : file'[t] \in InFlight /\ file[t] \notin InFlight => t = u
    BY <1>0, <2>0
  <2> QED BY <1>0, <1>a, <2>0, <2>2, <2>3, <2>4, <2>5, <2>6, <2>7, <2>8, CalmStep
<1>3. CASE SaveBatch(b)
  <2>0. /\ creator[b] = "saving" /\ creator' = [creator EXCEPT ![b] = "starting"]
        /\ next' = [next EXCEPT ![b] = 1] /\ UNCHANGED <<file, thread, faults>>
    BY <1>3 DEF SaveBatch, threadVars, serverVars
  <2>1. Written' BY <1>0, <2>0 DEF Written
  <2>2. Begun'
    <3> SUFFICES ASSUME NEW c \in Batch, NEW i \in DOMAIN Children[c],
                        creator'[c] = "starting", i < next'[c]
                 PROVE  thread'[Children[c][i]] # "none"
      BY DEF Begun
    <3>1. c # b BY <1>0, <1>c, <2>0
    <3> QED BY <1>0, <2>0, <3>1 DEF Begun
  <2>3. \A t \in Task, c \in Batch : Minded(c, t) => Minded(c, t)'
    BY <1>0, <1>c, <2>0 DEF Minded, StillToStart
  <2> QED BY <1>0, <1>a, <2>0, <2>1, <2>2, <2>3, CalmStep
<1>4. CASE CreateFails(b)
  <2>0. /\ creator[b] = "saving" /\ creator' = [creator EXCEPT ![b] = "failed"]
        /\ faults' = faults + 1 /\ UNCHANGED <<file, thread, next>>
    BY <1>4 DEF CreateFails, filesVars, threadVars
  <2>1. Written' BY <1>0, <2>0 DEF Written
  <2>2. Begun' BY <1>0, <2>0 DEF Begun
  <2>3. \A t \in Task, c \in Batch : Minded(c, t) => Minded(c, t)'
    BY <1>0, <2>0 DEF Minded, StillToStart
  <2> QED BY <1>0, <1>a, <2>0, <2>1, <2>2, <2>3, CalmStep
<1>5. CASE StartChild(b)
  <2> DEFINE i == next[b]  u == Children[b][i]
  <2>0. /\ creator[b] = "starting" /\ i <= Len(Children[b])
        /\ thread' = [thread EXCEPT ![u] = "queued"]
        /\ next' = [next EXCEPT ![b] = @ + 1] /\ UNCHANGED <<file, creator, faults>>
    BY <1>5 DEF StartChild, filesVars, serverVars
  <2>1. i \in DOMAIN Children[b] /\ u \in Task BY <1>0, <1>c, <2>0, Disjoint
  <2>2. Written' BY <1>0, <2>0 DEF Written
  <2>3. Begun'
    <3> SUFFICES ASSUME NEW c \in Batch, NEW j \in DOMAIN Children[c],
                        creator'[c] = "starting", j < next'[c]
                 PROVE  thread'[Children[c][j]] # "none"
      BY DEF Begun
    <3>1. CASE c = b /\ j = i BY <1>0, <2>0, <2>1, <3>1
    <3>2. CASE ~(c = b /\ j = i)
      <4>1. j < next[c] BY <1>0, <1>b, <2>0, <3>2
      <4>2. thread[Children[c][j]] # "none" BY <1>0, <2>0, <4>1 DEF Begun
      <4> QED BY <1>0, <2>0, <4>2
    <3> QED BY <3>1, <3>2
  <2>4. ASSUME NEW t \in Task, NEW c \in Batch, t \in Members(c), Minded(c, t)
        PROVE  Minded(c, t)'
    <3>1. CASE t = u BY <1>0, <2>0, <3>1 DEF Minded
    <3>2. CASE t # u /\ c = b /\ thread[t] = "none" /\ creator[b] = "starting"
      <4>1. PICK j \in DOMAIN Children[b] : t = Children[b][j] BY <2>4, <3>2 DEF Members
      <4>2. ~(j < i) /\ j # i BY <1>0, <3>2, <4>1 DEF Begun
      <4>3. next'[b] <= Len(Children[b]) BY <1>0, <1>c, <2>0, <4>2
      <4> QED BY <1>0, <2>0, <3>2, <4>3 DEF Minded, StillToStart
    <3>3. CASE t # u /\ ~(c = b /\ thread[t] = "none" /\ creator[b] = "starting")
      BY <1>0, <2>0, <2>4, <3>3 DEF Minded, StillToStart
    <3> QED BY <2>0, <3>1, <3>2, <3>3
  <2> QED BY <1>0, <1>a, <2>0, <2>2, <2>3, <2>4, CalmStep
<1>6. CASE Answer(b)
  <2>0. /\ creator[b] = "starting" /\ next[b] > Len(Children[b])
        /\ creator' = [creator EXCEPT ![b] = "answered"]
        /\ UNCHANGED <<file, thread, next, faults>>
    BY <1>6 DEF Answer, filesVars, threadVars, serverVars
  <2>1. Written' BY <1>0, <2>0 DEF Written
  <2>2. Begun' BY <1>0, <2>0 DEF Begun
  <2>3. \A t \in Task, c \in Batch : Minded(c, t) => Minded(c, t)'
    BY <1>0, <1>c, <2>0 DEF Minded, StillToStart
  <2> QED BY <1>0, <1>a, <2>0, <2>1, <2>2, <2>3, CalmStep
<1> QED BY <1>1, <1>2, <1>3, <1>4, <1>5, <1>6 DEF Creator

(* What a thread's step makes of its record, and of nobody else's. *)
LEMMA CalmMove ==
    ASSUME CalmInv, ~disturbed, SemInv', NEW t \in Task, NEW l \in Threads,
           thread[t] \in Inside \cup {"queued"}, thread' = [thread EXCEPT ![t] = l],
           UNCHANGED <<handler, server, faults, disturbed, creator, next>>,
           file' \in [Task -> Content], tmp' \in [Task -> Content],
           \A u \in Task \ {t} : file'[u] = file[u] /\ tmp'[u] = tmp[u],
           l = "begun" => tmp'[t] = "running", l = "ended" => tmp'[t] \in Terminal,
           l \notin Inside => file'[t] \notin InFlight, l # "none"
    PROVE  CalmInv'
<1>0. /\ Written /\ Begun /\ thread \in [Task -> Threads] /\ server = "up" /\ faults \in Nat
  BY DEF CalmInv, Calm, Dead, Inside, SemInv, SemType
<1>1. Written' BY <1>0 DEF Written
<1>2. Begun' BY <1>0, Disjoint DEF Begun
<1>3. ASSUME NEW u \in Task, NEW c \in Batch, file'[u] \in InFlight, Minded(c, u)
      PROVE  Minded(c, u)'
  <2>1. CASE u = t BY <1>0, <1>3, <2>1 DEF Minded
  <2>2. CASE u # t BY <1>0, <1>3, <2>2 DEF Minded, StillToStart
  <2> QED BY <2>1, <2>2
<1>4. ASSUME NEW u \in Task, file'[u] \in InFlight, file[u] \notin InFlight
      PROVE  \E c \in Batch : u \in Members(c) /\ Minded(c, u)'
  <2>1. u = t BY <1>4
  <2>2. PICK c \in Batch : t \in Members(c)
    BY DEF CalmInv, SemInv, Owned, Inside
  <2>3. thread'[t] \in Inside BY <1>0, <1>4, <2>1
  <2> QED BY <2>1, <2>2, <2>3 DEF Minded
<1> QED BY <1>0, <1>1, <1>2, <1>3, <1>4, CalmStep

LEMMA CalmThread ==
    ASSUME CalmInv, ~disturbed, SemInv', NEW t \in Task, Thread(t) PROVE CalmInv'
<1>0. /\ file \in [Task -> Content] /\ tmp \in [Task -> Content] /\ Written
      /\ UNCHANGED <<handler, server, faults, disturbed, creator, next>>
  BY DEF CalmInv, Calm, Thread, Acquire, PutStatus, Publish, Invoked, Await, Awaited, Deadline,
         StopAwaiting, creatorVars, serverVars
<1> DEFINE Moved(l) == thread' = [thread EXCEPT ![t] = l]
<1>1. ASSUME thread[t] \in Inside \cup {"queued"}, NEW l \in {"begin", "awaiting", "end"},
             Moved(l), UNCHANGED <<file, tmp>>
      PROVE  CalmInv'
  BY <1>0, <1>1, CalmMove DEF Threads, Inside
<1>2. CASE Acquire(t) BY <1>1, <1>2 DEF Acquire, Goto, filesVars
<1>3. CASE PutStatus(t)
  <2>1. CASE thread[t] = "begin" /\ Put(t, "running") /\ Goto(t, "begun")
    <3>1. /\ tmp' = [tmp EXCEPT ![t] = "running"] /\ file' = file /\ Moved("begun")
      BY <1>3, <2>1 DEF PutStatus, Put, Goto
    <3> QED BY <1>0, <2>1, <3>1, CalmMove, Apart DEF Threads, Inside
  <2>2. CASE thread[t] = "end" /\ (\E s \in {"done", "error"} : Put(t, s)) /\ Goto(t, "ended")
    <3>1. PICK s \in {"done", "error"} : Put(t, s) BY <2>2
    <3>2. /\ tmp' = [tmp EXCEPT ![t] = s] /\ file' = file /\ Moved("ended")
      BY <1>3, <2>2, <3>1 DEF PutStatus, Put, Goto
    <3>3. s \in Terminal /\ s \in Content BY Apart
    <3> QED BY <1>0, <2>2, <3>2, <3>3, CalmMove DEF Threads, Inside
  <2> QED BY <1>3, <2>1, <2>2 DEF PutStatus
<1>4. CASE Publish(t)
  <2>1. CASE thread[t] = "begun" /\ Move(t) /\ Goto(t, "invoking")
    <3>1. /\ file' = [file EXCEPT ![t] = tmp[t]] /\ tmp' = [tmp EXCEPT ![t] = NoFile]
          /\ Moved("invoking")
      BY <2>1 DEF Move, Goto
    <3>2. NoFile \in Content BY DEF Content
    <3> QED BY <1>0, <2>1, <3>1, <3>2, CalmMove DEF Threads, Inside
  <2>2. CASE thread[t] = "ended" /\ Move(t) /\ Release(t)
    <3>1. /\ file' = [file EXCEPT ![t] = tmp[t]] /\ tmp' = [tmp EXCEPT ![t] = NoFile]
          /\ Moved("over")
      BY <2>2 DEF Move, Release, Goto
    <3>2. NoFile \in Content BY DEF Content
    <3>3. file'[t] \notin InFlight BY <1>0, <2>2, <3>1, Apart DEF Written
    <3> QED BY <1>0, <2>2, <3>1, <3>2, <3>3, CalmMove DEF Threads, Inside
  <2>3. ~(thread[t] \in {"begun", "ended"} /\ tmp[t] = NoFile)
    BY <1>0, Apart DEF Written
  <2> QED BY <1>4, <2>1, <2>2, <2>3 DEF Publish
<1>5. CASE Invoked(t) BY <1>1, <1>5 DEF Invoked, Goto, filesVars, Inside
<1>6. ASSUME NEW b \in Batch, Await(t, b) PROVE CalmInv'
  BY <1>1, <1>6 DEF Await, Goto, filesVars, Inside
<1>7. CASE StopAwaiting(t) BY <1>1, <1>7 DEF StopAwaiting, Goto, filesVars, Inside
<1> QED BY <1>2, <1>3, <1>4, <1>5, <1>6, <1>7 DEF Thread, Awaited, Deadline

LEMMA CalmCrash == ASSUME CalmInv, ~disturbed, SemInv', Crash PROVE CalmInv'
<1>0. /\ server' = "down" /\ handler' = [h \in Handler |-> Idle]
      /\ creator' = [b \in Batch |->
                       IF creator[b] \in {"saving", "starting"} THEN "failed" ELSE creator[b]]
      /\ thread' = [t \in Task |-> IF thread[t] = "none" THEN "none" ELSE "over"]
      /\ UNCHANGED <<file, tmp, next, faults, disturbed>>
  BY DEF Crash, filesVars
<1>1. Written' BY <1>0 DEF Written
<1>2. Begun' BY <1>0 DEF Begun
<1>3. Dead' BY <1>0 DEF Dead
<1>4. \A h \in Handler : handler'[h].step = "idle" BY <1>0 DEF Idle
<1> QED BY <1>0, <1>1, <1>2, <1>3, <1>4 DEF CalmInv, Calm

LEMMA CalmBoot == ASSUME CalmInv, ~disturbed, SemInv', Boot PROVE CalmInv'
<1>0. /\ server' = "up"
      /\ file' = [t \in Task |-> IF file[t] \in InFlight THEN "error" ELSE file[t]]
      /\ UNCHANGED <<tmp, thread, creator, next, handler, faults, disturbed>>
  BY DEF Boot, creatorVars, threadVars
<1>1. file' \in [Task -> Content] BY <1>0, Apart DEF CalmInv, Calm
<1>2. Written' /\ Begun' BY <1>0 DEF CalmInv, Calm, Written, Begun
<1>3. \A t \in Task : file'[t] \notin InFlight BY <1>0, Apart
<1> QED BY <1>0, <1>1, <1>2, <1>3 DEF CalmInv, Calm

LEMMA CalmNext == CalmInv /\ [Next]_vars => CalmInv'
<1> SUFFICES ASSUME CalmInv, [Next]_vars PROVE CalmInv' OBVIOUS
<1>0. SemInv' BY SemNext DEF CalmInv
<1>1. CASE ~disturbed /\ (\E b \in Batch : Creator(b)) BY <1>0, <1>1, CalmCreator
<1>2. CASE ~disturbed /\ (\E t \in Task : Thread(t)) BY <1>0, <1>2, CalmThread
<1>3. CASE ~disturbed /\ Crash BY <1>0, <1>3, CalmCrash
<1>4. CASE ~disturbed /\ Boot BY <1>0, <1>4, CalmBoot
<1>5. ASSUME ~disturbed, NEW h \in Handler, Delete(h) PROVE CalmInv'
  <2>1. handler[h].step = "idle" BY <1>5 DEF CalmInv, Calm
  <2>2. disturbed' = TRUE /\ UNCHANGED <<server, faults>>
    BY <1>5, <2>1 DEF Delete, DeleteBatch, DeleteTask, Load, PutCancelled, PublishCancelled,
                      Unlink, At
  <2> QED BY <1>0, <2>2 DEF CalmInv
<1>6. CASE ~disturbed /\ UNCHANGED vars
  BY <1>0, <1>6 DEF vars, CalmInv, Calm, Written, Begun, Dead, Minded, StillToStart
<1>7. CASE disturbed
  <2> DEFINE Kept == /\ server' \in {"up", "down"} /\ faults' \in Nat
                     /\ disturbed' = disturbed \/ disturbed' = TRUE
  <2>0. server \in {"up", "down"} /\ faults \in Nat BY DEF CalmInv
  <2>1. ASSUME NEW b \in Batch, Creator(b) PROVE Kept
    BY <2>0, <2>1 DEF Creator, Create, SaveChild, SaveBatch, CreateFails, StartChild, Answer, serverVars
  <2>2. ASSUME NEW t \in Task, Thread(t) PROVE Kept
    BY <2>0, <2>2 DEF Thread, Acquire, PutStatus, Publish, Invoked, Await, Awaited, Deadline,
                      StopAwaiting, serverVars
  <2>3. ASSUME NEW h \in Handler, Delete(h) PROVE Kept
    BY <2>0, <2>3 DEF Delete, DeleteBatch, DeleteTask, Load, PutCancelled, PublishCancelled, Unlink,
                      handlerRest, serverVars
  <2>4. ASSUME Crash \/ Boot PROVE Kept BY <2>0, <2>4 DEF Crash, Boot
  <2>5. ASSUME UNCHANGED vars PROVE Kept BY <2>0, <2>5 DEF vars
  <2>6. ASSUME Kept PROVE CalmInv' BY <1>0, <1>7, <2>6, Zenon DEF CalmInv
  <2> HIDE DEF Kept
  <2> QED BY <2>1, <2>2, <2>3, <2>4, <2>5, <2>6 DEF Next
<1> QED BY <1>1, <1>2, <1>3, <1>4, <1>5, <1>6, <1>7 DEF Next

(* While nothing is deleted, a child's record that says "pending" or       *)
(* "running" has a thread that will change it or a request about to start  *)
(* that thread, or its request failed half-way.                            *)
THEOREM AttendedAlways == Spec => []Attended
<1>1. CalmInv => Attended
  <2> SUFFICES ASSUME CalmInv, server = "up", ~disturbed, NEW t \in Task, file[t] \in InFlight
               PROVE  \/ thread[t] \in Inside \cup {"queued"}
                      \/ thread[t] = "none" /\ StillToStart(BatchOf(t))
                      \/ faults > 0 /\ creator[BatchOf(t)] = "failed"
    BY DEF Attended
  <2>1. PICK b \in Batch : t \in Members(b) /\ Minded(b, t) BY DEF CalmInv, Calm
  <2>2. BatchOf(t) = b BY <2>1, Disjoint
  <2> QED BY <2>1, <2>2 DEF Minded
<1> QED BY CalmInit, CalmNext, <1>1, PTL DEF Spec
=============================================================================
