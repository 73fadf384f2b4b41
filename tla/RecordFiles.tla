---------------------------- MODULE RecordFiles ----------------------------
(***************************************************************************)
(* One JSON file per record, written the way the server's routers write    *)
(* it: the whole payload goes to <id>.json.tmp, which is then renamed over *)
(* <id>.json.  The .tmp name is derived from the record's id alone, so two *)
(* savers of one record share it; this module says what the file system    *)
(* then does, handle by handle.                                            *)
(*                                                                         *)
(* A file's content is a payload, or Empty (opened with "w" and not yet    *)
(* written) or Torn (two payloads written over one another); the last two  *)
(* do not parse as JSON.                                                   *)
(***************************************************************************)
EXTENDS Naturals

CONSTANTS
    Record,    \* record ids (uuid4: never minted twice)
    Actor,     \* threads that hold file handles
    NoRecord,  \* an actor that works on no record
    NoFile,    \* there is no such file
    Empty,     \* a file that was truncated and not yet written
    Torn       \* a file two payloads were written into

ASSUME FilesAssumption ==
    /\ NoRecord \notin Record
    /\ NoFile # Empty /\ NoFile # Torn /\ Empty # Torn

VARIABLES
    file,      \* <id>.json
    tmp,       \* <id>.json.tmp
    job,       \* the record each actor works on
    fd,        \* what the actor's open handle on that record refers to
    windows    \* the platform: may a file open elsewhere not be replaced or unlinked?

fileVars == <<file, tmp, job, fd, windows>>

Unreadable == {Empty, Torn}

FilesTypeOK(Payload) ==
    /\ file \in [Record -> Payload \cup Unreadable \cup {NoFile}]
    /\ tmp \in [Record -> Payload \cup Unreadable \cup {NoFile}]
    /\ job \in [Actor -> Record \cup {NoRecord}]
    /\ fd \in [Actor -> {"closed", "tmp", "file", "unlinked"}]
    /\ windows \in BOOLEAN

FilesInit ==
    /\ file = [r \in Record |-> NoFile]
    /\ tmp = [r \in Record |-> NoFile]
    /\ fd = [a \in Actor |-> "closed"]
    /\ windows \in BOOLEAN

(* Another actor has one of r's files open. *)
Held(a, r, kinds) == \E b \in Actor \ {a} : job[b] = r /\ fd[b] \in kinds

(* What two writes at offset 0 leave behind: into a just-truncated file    *)
(* the payload; over an earlier payload either the new one or a mixture,   *)
(* depending on which is longer.                                           *)
Overlay(old, new) == IF old = Empty THEN {new} ELSE {new, Torn}

(* open(tmp, "w"): truncates the file a second saver may be writing. *)
OpenTmp(a) ==
    /\ tmp' = [tmp EXCEPT ![job[a]] = Empty]
    /\ fd' = [fd EXCEPT ![a] = "tmp"]
    /\ UNCHANGED <<file, job, windows>>

(* open(path, "w"), the save's last resort and the reaper's only way. *)
OpenFile(a) ==
    /\ file' = [file EXCEPT ![job[a]] = Empty]
    /\ fd' = [fd EXCEPT ![a] = "file"]
    /\ UNCHANGED <<tmp, job, windows>>

(* Whether the actor lets go of the record with it is the caller's affair  *)
(* in the operations below.                                                *)

(* write and close: the bytes land wherever the handle's file is by now. *)
WriteOut(a, payload) ==
    /\ \/ /\ fd[a] = "tmp"
          /\ \E c \in Overlay(tmp[job[a]], payload) : tmp' = [tmp EXCEPT ![job[a]] = c]
          /\ UNCHANGED file
       \/ /\ fd[a] = "file"
          /\ \E c \in Overlay(file[job[a]], payload) : file' = [file EXCEPT ![job[a]] = c]
          /\ UNCHANGED tmp
       \/ /\ fd[a] = "unlinked"
          /\ UNCHANGED <<file, tmp>>
    /\ fd' = [fd EXCEPT ![a] = "closed"]
    /\ UNCHANGED windows

ReplaceBlocked(a) == windows /\ Held(a, job[a], {"tmp", "file"})

(* tmp.replace(path).  A handle on the .tmp now writes into the record, a  *)
(* handle on the replaced record into a file nobody can name.              *)
Replace(a) ==
    LET r == job[a] IN
    /\ tmp[r] # NoFile
    /\ ~ReplaceBlocked(a)
    /\ file' = [file EXCEPT ![r] = tmp[r]]
    /\ tmp' = [tmp EXCEPT ![r] = NoFile]
    /\ fd' = [b \in Actor |->
                IF job[b] # r THEN fd[b]
                ELSE IF fd[b] = "tmp" THEN "file"
                ELSE IF fd[b] = "file" THEN "unlinked" ELSE fd[b]]
    /\ UNCHANGED windows

(* path.unlink(), errors ignored by every caller. *)
UnlinkFile(a, r) ==
    /\ UNCHANGED <<tmp, windows>>
    /\ IF windows /\ Held(a, r, {"file"})
       THEN UNCHANGED <<file, fd>>
       ELSE /\ file' = [file EXCEPT ![r] = NoFile]
            /\ fd' = [b \in Actor |->
                        IF job[b] = r /\ fd[b] = "file" THEN "unlinked" ELSE fd[b]]

(* tmp.unlink() after the direct write, errors ignored. *)
UnlinkTmp(a) ==
    /\ IF windows /\ Held(a, job[a], {"tmp"})
       THEN UNCHANGED tmp
       ELSE tmp' = [tmp EXCEPT ![job[a]] = NoFile]
    /\ UNCHANGED <<file, job, fd, windows>>
=============================================================================
