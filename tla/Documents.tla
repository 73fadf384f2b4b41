----------------------------- MODULE Documents -----------------------------
(***************************************************************************)
(* One user's document library: praxia/server/routers/documents.py and the *)
(* start of its embedding backfill in praxia/server/app.py.                *)
(*                                                                         *)
(* folders.json lists the registered folders; every indexed file is a JSON *)
(* document in its folder's directory.  Both are written in place (opened, *)
(* which empties them, then written), and nothing is locked.  Uploads are  *)
(* coroutines: once its file has arrived, an upload runs on the event loop *)
(* to its end.  The other handlers run on pool threads and the backfill on *)
(* an executor thread, so they meet the upload, and each other, between    *)
(* any two accesses to the disk.                                           *)
(*                                                                         *)
(* A document has one chunk, whose text stands for the file's content and  *)
(* whose vector is the text it was computed from.  rmtree is one step, and *)
(* may fail half-way.                                                      *)
(***************************************************************************)
EXTENDS Naturals, Sequences, FiniteSets

CONSTANTS
    Client,        \* requests that can be in progress at once
    Root,          \* absolute paths of the folders on the user's machine
    File,          \* relative paths
    Text,          \* what a file contains
    None,          \* no vector, no holder of the event loop
    MaxRequests,   \* bound on the requests served
    MaxBoots,      \* bound on the starts of the server
    MaxChunks      \* max_chunks_per_run of the backfill

ASSUME DocumentsAssumption ==
    /\ None \notin Text \cup Client
    /\ MaxRequests \in Nat /\ MaxBoots \in Nat
    /\ MaxChunks \in Nat \ {0}   \* 0 would mean no bound

Backfill == None   \* the backfill has registers of its own, under this name
Thread == Client \cup {Backfill}

VARIABLES
    folders,   \* folders.json ...
    torn,      \* ... unless it does not parse
    docs,      \* the documents that parse
    dirs,      \* the folders that have a directory
    todo,      \* the accesses each thread still has to make
    seen,      \* the folder list it read
    mine,      \* the folder it serves
    hand,      \* the document it has in hand
    opened,    \* whether the document it opened still has its name
    loop,      \* the upload that runs on the event loop
    plan,      \* backfill: folders not visited yet
    batch,     \* backfill: documents of this folder not visited yet
    room,      \* backfill: how many chunks this run may still embed
    boots,     \* how often the server has started
    due,       \* whether this start's backfill has yet to run
    fresh,     \* the next uuid
    served,    \* how many requests have begun
    told,      \* history: what was indexed and not removed, as told to the client
    calm,      \* history: only uploads overlapped, no crash cut a request short
    repaired,  \* history: the backfill has opened a document
    left       \* history: the folders whose directory could not be removed

disk == <<folders, torn, docs, dirs>>
sweep == <<plan, batch, room, boots, due>>
meters == <<fresh, served>>
ghosts == <<told, calm, repaired, left>>
vars == <<disk, todo, seen, mine, hand, opened, loop, sweep, meters, ghosts>>

Id == 0 .. MaxRequests + 3
Folder == [id: Id, path: Root, count: Nat]
Document == [folder: Id, id: Id, path: File, text: Text, vector: Text \cup {None}]
Entry == [folder: Id, path: File, text: Text]
Steps == {"find", "open", "write", "count", "merge", "empty", "save", "register",
          "unregister", "rmtree", "pick", "unlink", "recall", "recount", "visit", "blob"}

TypeOK ==
    /\ folders \subseteq Folder /\ torn \in BOOLEAN
    /\ docs \subseteq Document /\ dirs \subseteq Id
    /\ todo \in [Thread -> Seq(Steps)]
    /\ seen \in [Thread -> SUBSET Folder]
    /\ mine \in [Thread -> Folder]
    /\ hand \in [Thread -> Document]
    /\ opened \in [Thread -> BOOLEAN]
    /\ loop \in Client \cup {None}
    /\ plan \subseteq Id /\ batch \subseteq Document /\ room \in Nat
    /\ boots \in 0 .. MaxBoots /\ due \in BOOLEAN
    /\ fresh \in Nat /\ served \in 0 .. MaxRequests
    /\ told \subseteq Entry /\ calm \in BOOLEAN /\ repaired \in BOOLEAN /\ left \subseteq Id

(* _load_folders: a file that does not parse is an empty list. *)
Index == IF torn THEN {} ELSE folders

InFolder(f) == {d \in docs : d.folder = f}
SameFile(d, e) == d.folder = e.folder /\ d.id = e.id
EntryOf(d) == [folder |-> d.folder, path |-> d.path, text |-> d.text]

Busy(t) == todo[t] # <<>>
At(t, step) == Busy(t) /\ Head(todo[t]) = step
Continue(t) == todo' = [todo EXCEPT ![t] = Tail(@)]

(* The thread has nothing left to do, and leaves the event loop. *)
End(t) ==
    /\ todo' = [todo EXCEPT ![t] = <<>>]
    /\ loop' = IF loop = t THEN None ELSE loop

-----------------------------------------------------------------------------
(* Requests.  A folder and its oldest document, without a vector, are there *)
(* from before the upgrade that brought vectors.                           *)

SaveIndex == <<"empty", "save">>
Arriving == <<"find", "open", "write", "count", "merge">> \o SaveIndex
Registering == <<"register">> \o SaveIndex
Unregistering == <<"unregister">> \o SaveIndex \o <<"rmtree">>
Removing == <<"pick", "unlink", "recall", "recount">> \o SaveIndex

Init ==
    \E r \in Root, p \in File, x \in Text :
      LET f == [id |-> 1, path |-> r, count |-> 1]
          d == [folder |-> 1, id |-> 2, path |-> p, text |-> x, vector |-> None]
      IN /\ folders = {f} /\ torn = FALSE
         /\ docs = {d} /\ dirs = {1}
         /\ todo = [t \in Thread |-> <<>>]
         /\ seen = [t \in Thread |-> {}]
         /\ mine = [t \in Thread |-> f]
         /\ hand = [t \in Thread |-> d]
         /\ opened = [t \in Thread |-> FALSE]
         /\ loop = None
         /\ plan = {} /\ batch = {} /\ room = 0
         /\ boots = 1 /\ due = TRUE
         /\ fresh = 3 /\ served = 0
         /\ told = {EntryOf(d)} /\ calm = TRUE /\ repaired = FALSE /\ left = {}

(* An upload still receives its file, or runs on the event loop. *)
Uploading(t) == At(t, "find") \/ loop = t

(* Two requests get in each other's way unless both are uploads. *)
Begin(t, steps, folder, doc) ==
    /\ ~Busy(t)
    /\ served < MaxRequests
    /\ served' = served + 1
    /\ todo' = [todo EXCEPT ![t] = steps]
    /\ mine' = [mine EXCEPT ![t] = folder]
    /\ hand' = [hand EXCEPT ![t] = doc]
    /\ calm' = (calm /\ \A s \in Thread : Busy(s) => (steps = Arriving /\ s \in Client /\ Uploading(s)))
    /\ UNCHANGED <<disk, sweep, seen, opened, loop, told, repaired, left>>

NoFolder == [id |-> 0, path |-> CHOOSE r \in Root : TRUE, count |-> 0]
Doc(f, p, x) == [folder |-> f, id |-> 0, path |-> p, text |-> x, vector |-> None]
AnyDoc(f) == Doc(f, CHOOSE p \in File : TRUE, CHOOSE x \in Text : TRUE)

(* POST /documents/folder *)
CreateFolder(t) ==
    \E r \in Root :
        /\ Begin(t, Registering, [id |-> fresh, path |-> r, count |-> 0], AnyDoc(fresh))
        /\ fresh' = fresh + 1

(* POST .../upload: looks its folder up, on the event loop too, then awaits *)
(* the file.                                                               *)
Upload(t) ==
    /\ loop = None
    /\ \E f \in Index, p \in File, x \in Text :
          Begin(t, Arriving, f, Doc(f.id, p, x)) /\ UNCHANGED fresh

(* DELETE .../folder/{id}; an unknown folder is a 404 in "unregister". *)
DeleteFolder(t) ==
    \E f \in Index : Begin(t, Unregistering, f, AnyDoc(f.id)) /\ UNCHANGED fresh

(* DELETE .../file *)
DeleteFile(t) ==
    \E f \in Index, p \in File :
        Begin(t, Removing, f, [AnyDoc(f.id) EXCEPT !.path = p]) /\ UNCHANGED fresh

-----------------------------------------------------------------------------
(* The steps of the handlers. *)

(* create_folder: idempotent on the path. *)
Register(t) ==
    /\ At(t, "register")
    /\ IF \E f \in Index : f.path = mine[t].path
       THEN End(t) /\ UNCHANGED seen
       ELSE Continue(t) /\ seen' = [seen EXCEPT ![t] = Index \cup {mine[t]}] /\ UNCHANGED loop
    /\ UNCHANGED <<disk, sweep, mine, hand, opened, meters, ghosts>>

Unregister(t) ==
    /\ At(t, "unregister")
    /\ IF \A f \in Index : f.id # mine[t].id
       THEN End(t) /\ UNCHANGED seen
       ELSE /\ Continue(t)
            /\ seen' = [seen EXCEPT ![t] = {f \in Index : f.id # mine[t].id}]
            /\ UNCHANGED loop
    /\ UNCHANGED <<disk, sweep, mine, hand, opened, meters, ghosts>>

(* _save_folders: write_text empties the file ... *)
EmptyIndex(t) ==
    /\ At(t, "empty")
    /\ torn' = TRUE
    /\ Continue(t)
    /\ UNCHANGED <<folders, docs, dirs, sweep, seen, mine, hand, opened, loop, meters, ghosts>>

(* ... and writes it, over what somebody else may have written since: the  *)
(* end of a longer text may stay behind.                                   *)
SaveIndexFile(t) ==
    /\ At(t, "save")
    /\ folders' = seen[t]
    /\ torn' \in IF torn THEN {FALSE} ELSE BOOLEAN
    /\ IF Tail(todo[t]) = <<>> THEN End(t) ELSE Continue(t) /\ UNCHANGED loop
    /\ UNCHANGED <<docs, dirs, sweep, seen, mine, hand, opened, meters, ghosts>>

(* Whoever has one of these documents open writes into a file without a name. *)
Detached(gone) ==
    opened' = [s \in Thread |-> opened[s] /\ ~\E d \in gone : SameFile(d, hand[s])]

(* The names of this folder's documents, those being written included. *)
Names(f) ==
    {d.id : d \in InFolder(f)} \cup {hand[s].id : s \in {s \in Thread : opened[s] /\ hand[s].folder = f}}

(* rmtree; when it fails, whatever it did not come to stays, and the client *)
(* is told that the folder is deleted all the same.                        *)
RemoveTree(t) ==
    LET f == mine[t].id IN
    /\ At(t, "rmtree")
    /\ \E spared \in SUBSET Names(f) :
        /\ \/ spared = {} /\ dirs' = dirs \ {f} /\ UNCHANGED left
           \/ f \in dirs /\ UNCHANGED dirs /\ left' = left \cup {f}
        /\ docs' = {d \in docs : d.folder = f => d.id \in spared}
        /\ opened' = [s \in Thread |-> opened[s] /\ (hand[s].folder = f => hand[s].id \in spared)]
    /\ told' = {e \in told : e.folder # f}
    /\ End(t)
    /\ UNCHANGED <<folders, torn, sweep, seen, mine, hand, meters, calm, repaired>>

(* Mutant: a replaced document gets an id of its own. *)
FindExisting_NewId(t) ==
    /\ At(t, "find") /\ loop = None
    /\ dirs' = dirs \cup {mine[t].id}
    /\ LET existing == {d \in InFolder(mine[t].id) : d.path = hand[t].path} IN
       \/ /\ todo' = [todo EXCEPT ![t] = <<>>]
          /\ UNCHANGED <<hand, fresh, loop>>
       \/ \E vector \in {None, hand[t].text} :
            /\ \/ \E d \in existing :
                    /\ d.text # hand[t].text
                    /\ hand' = [hand EXCEPT ![t].id = fresh, ![t].vector = vector]
                    /\ fresh' = fresh + 1
               \/ /\ existing = {}
                  /\ hand' = [hand EXCEPT ![t].id = fresh, ![t].vector = vector]
                  /\ fresh' = fresh + 1
            /\ loop' = t
            /\ Continue(t)
    /\ UNCHANGED <<folders, torn, docs, sweep, seen, mine, opened, served, ghosts>>

(* Mutant: the upload awaits something between lookup and save. *)
FindExisting_Yields(t) ==
    /\ At(t, "find") /\ loop = None
    /\ dirs' = dirs \cup {mine[t].id}
    /\ LET existing == {d \in InFolder(mine[t].id) : d.path = hand[t].path} IN
       \/ /\ todo' = [todo EXCEPT ![t] = <<>>]
          /\ UNCHANGED <<hand, fresh, loop>>
       \/ \E vector \in {None, hand[t].text} :
            /\ \/ \E d \in existing :
                    /\ d.text # hand[t].text
                    /\ hand' = [hand EXCEPT ![t].id = d.id, ![t].vector = vector]
                    /\ UNCHANGED fresh
               \/ /\ existing = {}
                  /\ hand' = [hand EXCEPT ![t].id = fresh, ![t].vector = vector]
                  /\ fresh' = fresh + 1
            /\ UNCHANGED loop
            /\ Continue(t)
    /\ UNCHANGED <<folders, torn, docs, sweep, seen, mine, opened, served, ghosts>>

(* The file has arrived: the upload takes the event loop, and gives it back *)
(* at once if the file is unchanged, or nothing can be parsed from it; the  *)
(* document indexed before then stays.  embed_texts may fail.               *)
FindExisting(t) ==
    /\ At(t, "find") /\ loop = None
    /\ dirs' = dirs \cup {mine[t].id}
    /\ LET existing == {d \in InFolder(mine[t].id) : d.path = hand[t].path} IN
       \/ /\ todo' = [todo EXCEPT ![t] = <<>>]
          /\ UNCHANGED <<hand, fresh, loop>>
       \/ \E vector \in {None, hand[t].text} :
            /\ \/ \E d \in existing :
                    /\ d.text # hand[t].text
                    /\ hand' = [hand EXCEPT ![t].id = d.id, ![t].vector = vector]
                    /\ UNCHANGED fresh
               \/ /\ existing = {}
                  /\ hand' = [hand EXCEPT ![t].id = fresh, ![t].vector = vector]
                  /\ fresh' = fresh + 1
            /\ loop' = t
            /\ Continue(t)
    /\ UNCHANGED <<folders, torn, docs, sweep, seen, mine, opened, served, ghosts>>

(* write_text of a document: opened and emptied ... *)
OpenDocument(t) ==
    /\ At(t, "open")
    /\ docs' = {d \in docs : ~SameFile(d, hand[t])}
    /\ dirs' = dirs \cup {hand[t].folder}
    /\ opened' = [opened EXCEPT ![t] = TRUE]
    /\ Continue(t)
    /\ UNCHANGED <<folders, torn, sweep, seen, mine, hand, loop, meters, ghosts>>

(* ... and written; if somebody else wrote it since, it may not parse. *)
WriteDocument(t) ==
    /\ At(t, "write")
    /\ IF opened[t]
       THEN LET others == {d \in docs : ~SameFile(d, hand[t])} IN
            docs' \in {others \cup {hand[t]}} \cup IF others = docs THEN {} ELSE {others}
       ELSE UNCHANGED docs
    /\ opened' = [opened EXCEPT ![t] = FALSE]
    /\ told' = IF t = Backfill THEN told
               ELSE {e \in told : ~(e.folder = hand[t].folder /\ e.path = hand[t].path)}
                        \cup {EntryOf(hand[t])}
    /\ Continue(t)
    /\ UNCHANGED <<folders, torn, dirs, sweep, seen, mine, hand, loop, meters, calm, repaired, left>>

(* folder.doc_count, in the Folder read when the upload began. *)
CountDocuments(t) ==
    /\ At(t, "count")
    /\ mine' = [mine EXCEPT ![t].count = Cardinality(InFolder(mine[t].id))]
    /\ dirs' = dirs \cup {mine[t].id}
    /\ Continue(t)
    /\ UNCHANGED <<folders, torn, docs, sweep, seen, hand, opened, loop, meters, ghosts>>

MergeFolder(t) ==
    /\ At(t, "merge")
    /\ seen' = [seen EXCEPT ![t] = {IF f.id = mine[t].id THEN mine[t] ELSE f : f \in Index}]
    /\ Continue(t)
    /\ UNCHANGED <<disk, sweep, mine, hand, opened, loop, meters, ghosts>>

(* delete_file_by_path *)
PickDocument(t) ==
    /\ At(t, "pick")
    /\ dirs' = dirs \cup {mine[t].id}
    /\ LET found == {d \in InFolder(mine[t].id) : d.path = hand[t].path} IN
       \/ \E d \in found : hand' = [hand EXCEPT ![t] = d] /\ Continue(t) /\ UNCHANGED loop
       \/ found = {} /\ End(t) /\ UNCHANGED hand
    /\ UNCHANGED <<folders, torn, docs, sweep, seen, mine, opened, meters, ghosts>>

(* The file may be gone (500), or be there and not parse. *)
Unlink(t) ==
    /\ At(t, "unlink")
    /\ docs' = {d \in docs : ~SameFile(d, hand[t])}
    /\ Detached({hand[t]})
    /\ \/ /\ Continue(t) /\ UNCHANGED loop
          /\ told' = {e \in told : ~(e.folder = hand[t].folder /\ e.path = hand[t].path)}
       \/ docs' = docs /\ End(t) /\ UNCHANGED told
    /\ UNCHANGED <<folders, torn, dirs, sweep, seen, mine, hand, meters, calm, repaired, left>>

Recall(t) ==
    /\ At(t, "recall")
    /\ seen' = [seen EXCEPT ![t] = Index]
    /\ Continue(t)
    /\ UNCHANGED <<disk, sweep, mine, hand, opened, loop, meters, ghosts>>

Recount(t) ==
    /\ At(t, "recount")
    /\ seen' = [seen EXCEPT ![t] =
                  {IF f.id = mine[t].id THEN [f EXCEPT !.count = Cardinality(InFolder(f.id))] ELSE f
                     : f \in @}]
    /\ dirs' = dirs \cup {mine[t].id}
    /\ Continue(t)
    /\ UNCHANGED <<folders, torn, docs, sweep, mine, hand, opened, loop, meters, ghosts>>

-----------------------------------------------------------------------------
(* backfill_embeddings_for_user, once per start of the server. *)

BackfillStart ==
    /\ due /\ due' = FALSE
    /\ plan' = {f.id : f \in Index}
    /\ batch' = {}
    /\ room' = MaxChunks
    /\ todo' = [todo EXCEPT ![Backfill] = <<"visit">>]
    /\ calm' = (calm /\ \A t \in Client : ~Busy(t))
    /\ UNCHANGED <<disk, seen, mine, hand, opened, loop, boots, fresh, served, told, repaired, left>>

VisitFolder ==
    /\ At(Backfill, "visit") /\ batch = {} /\ room > 0
    /\ \E f \in plan :
        /\ plan' = plan \ {f}
        /\ batch' = {d \in InFolder(f) : d.vector = None}
    /\ UNCHANGED <<disk, todo, seen, mine, hand, opened, loop, room, boots, due, meters, ghosts>>

(* The provider answers, and the document is to be written, or it fails. *)
Embed ==
    /\ At(Backfill, "visit") /\ room > 0
    /\ \E d \in batch :
        /\ batch' = batch \ {d}
        /\ \/ /\ hand' = [hand EXCEPT ![Backfill] = [d EXCEPT !.vector = d.text]]
              /\ todo' = [todo EXCEPT ![Backfill] = <<"blob", "write", "visit">>]
              /\ room' = room - 1
           \/ UNCHANGED <<hand, todo, room>>
    /\ UNCHANGED <<disk, seen, mine, opened, loop, plan, boots, due, meters, ghosts>>

(* Mutant: the vectors are put into the document as it is now. *)
OpenBlob_Reread ==
    /\ At(Backfill, "blob")
    /\ IF hand[Backfill].folder \in dirs
       THEN /\ docs' = {d \in docs : ~SameFile(d, hand[Backfill])}
            /\ hand' = [hand EXCEPT ![Backfill] =
                  IF \E d \in docs : SameFile(d, @)
                  THEN [CHOOSE d \in docs : SameFile(d, @) EXCEPT !.vector = hand[Backfill].vector] ELSE @]
            /\ opened' = [opened EXCEPT ![Backfill] = TRUE]
            /\ repaired' = TRUE
            /\ Continue(Backfill)
       ELSE todo' = [todo EXCEPT ![Backfill] = <<>>] /\ UNCHANGED <<docs, hand, opened, repaired>>
    /\ UNCHANGED <<folders, torn, dirs, sweep, seen, mine, loop, fresh, served, told, calm, left>>

(* _save_doc_blob makes no directory: without one the run is aborted. *)
OpenBlob ==
    /\ At(Backfill, "blob")
    /\ IF hand[Backfill].folder \in dirs
       THEN /\ docs' = {d \in docs : ~SameFile(d, hand[Backfill])}
            /\ opened' = [opened EXCEPT ![Backfill] = TRUE]
            /\ repaired' = TRUE
            /\ Continue(Backfill)
       ELSE todo' = [todo EXCEPT ![Backfill] = <<>>] /\ UNCHANGED <<docs, opened, repaired>>
    /\ UNCHANGED <<folders, torn, dirs, sweep, seen, mine, hand, loop, fresh, served, told, calm, left>>

BackfillEnd ==
    /\ At(Backfill, "visit")
    /\ room = 0 \/ (plan = {} /\ batch = {})
    /\ todo' = [todo EXCEPT ![Backfill] = <<>>]
    /\ UNCHANGED <<disk, sweep, seen, mine, hand, opened, loop, meters, ghosts>>

(* The server dies and starts again. *)
Restart ==
    /\ boots < MaxBoots
    /\ boots' = boots + 1
    /\ due' = TRUE
    /\ todo' = [t \in Thread |-> <<>>]
    /\ opened' = [t \in Thread |-> FALSE]
    /\ loop' = None
    /\ calm' = (calm /\ \A t \in Thread : Busy(t) => At(t, "find") \/ At(t, "visit"))
    /\ UNCHANGED <<disk, seen, mine, hand, plan, batch, room, fresh, served, told, repaired, left>>

-----------------------------------------------------------------------------
Request(t) == CreateFolder(t) \/ Upload(t) \/ DeleteFolder(t) \/ DeleteFile(t)

Step(t) ==
    \/ Register(t) \/ Unregister(t) \/ EmptyIndex(t) \/ SaveIndexFile(t) \/ RemoveTree(t)
    \/ FindExisting(t) \/ OpenDocument(t) \/ CountDocuments(t) \/ MergeFolder(t)
    \/ PickDocument(t) \/ Unlink(t) \/ Recall(t) \/ Recount(t)

Sweep == BackfillStart \/ VisitFolder \/ Embed \/ OpenBlob \/ BackfillEnd

Next ==
    \/ \E t \in Client : Request(t) \/ Step(t)
    \/ \E t \in Thread : WriteDocument(t)
    \/ Sweep
    \/ Restart

Spec == Init /\ [][Next]_vars

-----------------------------------------------------------------------------
(* Properties. *)

(* However uploads overlap each other, and whatever they are sent, once    *)
(* nothing runs the library holds one document for every file indexed and  *)
(* not removed, with the text indexed last, in a folder that is registered *)
(* and knows how many it holds: the event loop orders the uploads, a       *)
(* replaced document keeps its id, a folder read before the file arrived   *)
(* is saved with counts taken after it, and the backfill changes no text.  *)
(* Beside it only what failed removals of folders left may be on the disk. *)
LibraryKept ==
    (calm /\ \A t \in Thread : ~Busy(t) \/ At(t, "find")) =>
        LET kept == {d \in docs : d.folder \notin left} IN
        /\ {EntryOf(d) : d \in kept} = told
        /\ \A d, e \in docs : EntryOf(d) = EntryOf(e) => d = e
        /\ \A d \in kept : \E f \in Index : f.id = d.folder
        /\ \A f \in Index : f.count = Cardinality(InFolder(f.id))

(* One document per file, as the storage layout at the head of the module  *)
(* says, through every overlap of uploads, removals and crashes, as long   *)
(* as the backfill has not opened a document.                              *)
OneDocumentPerFileUnrepaired ==
    repaired \/ \A d, e \in docs : d.folder = e.folder /\ d.path = e.path => d = e

(* A document's vector was computed from the text stored beside it, though *)
(* the backfill computes it from a copy that an upload may have replaced.  *)
VectorOfItsText == \A d \in docs : d.vector \in {None, d.text}
=============================================================================
