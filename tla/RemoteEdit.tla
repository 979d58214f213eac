----------------------------- MODULE RemoteEdit -----------------------------
(***************************************************************************)
(* Editing a remote file in a local editor (src-tauri/src/commands/edit.rs,*)
(* src-tauri/src/edit/mod.rs): the file is downloaded, an editor opened on *)
(* it, and a task polls its modification time and uploads it when that has *)
(* moved.  A content is the number of the save that wrote it; a file that  *)
(* is read while it is saved is read in two halves.                        *)
(***************************************************************************)
EXTENDS Naturals

CONSTANTS EDITS,      \* calls of open_remote_edit, all on one remote file
          SAVES       \* bound: saves, and failures, of a behaviour

ASSUME EditAssumption == SAVES \in Nat

VARIABLES
    remote,    \* the remote file: the saves its halves come from, fewer when it is cut off
    task,      \* [EDITS -> where open_remote_edit and then its watcher are]
    local,     \* [EDITS -> the save the scratch file holds, and whether it is there]
    seen,      \* [EDITS -> last_mtime]
    half,      \* [EDITS -> what the upload under way has read]
    sent,      \* [EDITS -> history: the file this edit uploaded last]
    failed,    \* [EDITS -> history: its last upload failed]
    saves

editVars == <<remote, task, local, seen, half, sent, failed, saves>>

----------------------------------------------------------------------------

EditInit ==
    /\ remote = <<0, 0>>
    /\ task = [e \in EDITS |-> "none"]
    /\ local = [e \in EDITS |-> [save |-> 0, there |-> FALSE]]
    /\ seen = [e \in EDITS |-> 0] /\ half = [e \in EDITS |-> 0]
    /\ sent = [e \in EDITS |-> <<0, 0>>] /\ failed = [e \in EDITS |-> FALSE]
    /\ saves = 0

Save_ == saves < SAVES /\ saves' = saves + 1

(* The download (save 0 of this scratch file), then open_path: the editor may
   save before the watcher looks. *)
EditorOpens(e) ==
    /\ task[e] = "none"
    /\ task' = [task EXCEPT ![e] = "opened"]
    /\ local' = [local EXCEPT ![e] = [save |-> 0, there |-> TRUE]]
    /\ UNCHANGED <<remote, seen, half, sent, failed, saves>>

(* register, spawn_watcher: the modification time found here is the reference. *)
WatchStarts(e) ==
    /\ task[e] = "opened"
    /\ task' = [task EXCEPT ![e] = IF local[e].there THEN "watching" ELSE "ended"]
    /\ seen' = [seen EXCEPT ![e] = local[e].save]
    /\ UNCHANGED <<remote, local, half, sent, failed, saves>>

(* In place, or by removing the file and writing another. *)
EditorSaves(e) ==
    /\ task[e] # "none" /\ local[e].there /\ Save_
    /\ local' = [local EXCEPT ![e].save = saves']
    /\ UNCHANGED <<remote, task, seen, half, sent, failed>>

EditorRemoves(e) ==
    /\ task[e] \notin {"none", "ended"} /\ local[e].there
    /\ local' = [local EXCEPT ![e].there = FALSE]
    /\ UNCHANGED <<remote, task, seen, half, sent, failed, saves>>

EditorReplaces(e) ==
    /\ task[e] \notin {"none", "ended"} /\ ~local[e].there /\ Save_
    /\ local' = [local EXCEPT ![e] = [save |-> saves', there |-> TRUE]]
    /\ UNCHANGED <<remote, task, seen, half, sent, failed>>

----------------------------------------------------------------------------
(* The watcher *)

(* A file that is not there ends the watch and removes the scratch directory. *)
Poll(e) ==
    /\ task[e] = "watching"
    /\ IF ~local[e].there
       THEN task' = [task EXCEPT ![e] = "ended"] /\ UNCHANGED <<seen, failed>>
       ELSE /\ local[e].save # seen[e]
            /\ task' = [task EXCEPT ![e] = "reading"]
            /\ seen' = [seen EXCEPT ![e] = local[e].save]
            /\ failed' = [failed EXCEPT ![e] = FALSE]
    /\ UNCHANGED <<remote, local, half, sent, saves>>

(* upload(): create() empties the remote file before the first bytes are read. *)
ReadsHalf(e) ==
    /\ task[e] = "reading" /\ local[e].there
    /\ task' = [task EXCEPT ![e] = "writing"]
    /\ half' = [half EXCEPT ![e] = local[e].save]
    /\ remote' = <<>>
    /\ UNCHANGED <<local, seen, sent, failed, saves>>

(* Mutant: the modification time is remembered after the upload. *)
UploadSeesLater(e) ==
    /\ task[e] = "writing"
    /\ task' = [task EXCEPT ![e] = "watching"]
    /\ \E rest \in {half[e], local[e].save} : remote' = <<half[e], rest>>
    /\ sent' = [sent EXCEPT ![e] = remote']
    /\ seen' = [seen EXCEPT ![e] = local[e].save]
    /\ UNCHANGED <<local, half, failed, saves>>

(* The other half is read, from the file as it is now or, if the editor has
   replaced it, from the one that was opened, and the remote file replaced. *)
Uploads(e) ==
    /\ task[e] = "writing"
    /\ task' = [task EXCEPT ![e] = "watching"]
    /\ \E rest \in {half[e], local[e].save} : remote' = <<half[e], rest>>
    /\ sent' = [sent EXCEPT ![e] = remote']
    /\ UNCHANGED <<local, seen, half, failed, saves>>

(* Logged, and not tried again before the next save.  The remote file is as it
   was if the subsystem or create() failed, and cut off somewhere otherwise. *)
UploadFails(e) ==
    /\ task[e] \in {"reading", "writing"}
    /\ IF local[e].there THEN Save_ ELSE UNCHANGED saves
    /\ task' = [task EXCEPT ![e] = "watching"]
    /\ failed' = [failed EXCEPT ![e] = TRUE]
    /\ remote' \in IF task[e] = "reading" THEN {remote, <<>>} ELSE {remote, <<half[e]>>}
    /\ UNCHANGED <<local, seen, half, sent>>

EditNext ==
    \E e \in EDITS : \/ EditorOpens(e) \/ WatchStarts(e)
                     \/ EditorSaves(e) \/ EditorRemoves(e) \/ EditorReplaces(e)
                     \/ Poll(e) \/ ReadsHalf(e) \/ Uploads(e) \/ UploadFails(e)

(* The task runs, and an upload ends; the editor may do nothing. *)
EditFairness ==
    \A e \in EDITS : WF_editVars(WatchStarts(e) \/ Poll(e) \/ ReadsHalf(e) \/ Uploads(e) \/ UploadFails(e))

EditSpec == EditInit /\ [][EditNext]_editVars /\ EditFairness

----------------------------------------------------------------------------
(* Properties *)

Remotes == {<<>>} \cup {<<n>> : n \in 0..SAVES} \cup (0..SAVES) \X (0..SAVES)
EditTypeOK ==
    /\ remote \in Remotes
    /\ task \in [EDITS -> {"none", "opened", "watching", "reading", "writing", "ended"}]
    /\ local \in [EDITS -> [save : 0..SAVES, there : BOOLEAN]]
    /\ seen \in [EDITS -> 0..SAVES] /\ half \in [EDITS -> 0..SAVES]
    /\ sent \in [EDITS -> (0..SAVES) \X (0..SAVES)] /\ failed \in [EDITS -> BOOLEAN]

(* What is saved while the file is watched is uploaded whole, even when it is
   saved during the upload of an earlier save: unless an upload failed, or the
   watch ended because the file was not there when it was polled. *)
SavesReachRemote ==
    \A e \in EDITS : \A n \in 1..SAVES :
        (task[e] \in {"watching", "reading", "writing"} /\ local[e].save = n /\ seen[e] # n)
          ~> (sent[e] = <<n, n>> \/ local[e].save # n \/ failed[e] \/ task[e] = "ended")
=============================================================================
