-------------------------------- MODULE Files --------------------------------
(***************************************************************************)
(* The two file panes of an SFTP tab and the transfers between them:       *)
(* components/FilePane.tsx, SftpView.tsx, TransferPanel.tsx,               *)
(* stores/useTransfersStore.ts and the commands of commands/sftp.rs,       *)
(* commands/fs_local.rs.                                                   *)
(*                                                                         *)
(* A path is a sequence: the root of its side, then names.  <<>> is the    *)
(* `null` path of a pane that has not listed anything yet.  A call is one  *)
(* awaited invoke of a pane; answers come back in any order.  While a      *)
(* dialog is open, or a row is dragged, the user can do nothing else.      *)
(***************************************************************************)
EXTENDS Naturals, Sequences, FiniteSets

CONSTANTS NAMES,      \* the names of rows
          DIRNAMES,   \* those that name directories
          PLACES,     \* [Sides -> the paths that may exist there]
          TOP,        \* [Sides -> what initialPath() answers]
          DISK,       \* [Sides -> what exists at the start]
          EDITED,     \* bound: the sides where the user does more than drag, copy and paste
          SCENES,     \* bound: "edits" (every dialog), "moves" (transfers and deletions)
          CALLS,      \* bound: invokes of the panes in flight at once
          XFERS       \* bound: transfers not yet cleared from the panel

Sides == {"local", "remote"}

ASSUME FilesAssumption ==
    /\ DIRNAMES \subseteq NAMES
    /\ PLACES \in [Sides -> SUBSET Seq(NAMES \cup {TOP[s][1] : s \in Sides})]
    /\ TOP \in [Sides -> Seq(STRING)]
    /\ \A s \in Sides : Len(TOP[s]) = 1
    /\ DISK \in [Sides -> SUBSET UNION {PLACES[s] : s \in Sides}]
    /\ \A s \in Sides : DISK[s] \subseteq PLACES[s]
    /\ EDITED \subseteq Sides

VARIABLES
    disk,     \* [Sides -> the paths that exist]
    pane,     \* [Sides -> the React state of the pane]
    call,     \* [CALLS -> an awaited invoke]
    load,     \* what is dragged, or in SftpView's clipboard (bound: one of them), or Nothing
    xfer,     \* [XFERS -> a transfer: its worker, its row, its listener]
    picked,   \* history: the paths the user picked since the pane's path last changed
    scene,    \* which of SCENES this behaviour is
    doubt     \* history: [Sides -> the pane's rows need not be current]

fvars == <<disk, pane, call, load, xfer, picked, doubt, scene>>

----------------------------------------------------------------------------
(* Paths *)

joinPath(dir, name) == Append(dir, name)

parentOf(path) == IF Len(path) <= 1 THEN path ELSE SubSeq(path, 1, Len(path) - 1)

Ancestors(path) == {SubSeq(path, 1, i) : i \in 1..Len(path)}

RowsOf(s, dir) == {n \in NAMES : joinPath(dir, n) \in disk[s]}

Below(s, path) == {x \in disk[s] : path \in Ancestors(x)}

----------------------------------------------------------------------------
(* State *)

Nothing == [mode |-> "none", side |-> "none", dir |-> <<>>, names |-> {}]
NoDialog == [kind |-> "none", rows |-> {}, busy |-> FALSE]
Idle == [st |-> "idle", side |-> "local", dir |-> <<>>, del |-> {}, add |-> {},
         got |-> {}]
Free == [st |-> "free", src |-> "local", to |-> <<>>, flag |-> FALSE,
         row |-> "none", heard |-> FALSE]

FilesInit ==
    /\ scene \in SCENES
    /\ disk = DISK
    /\ pane = [s \in Sides |-> [path |-> <<>>, entries |-> {}, selected |-> {},
                                dialog |-> NoDialog]]
    /\ call = [c \in CALLS |-> Idle]
    /\ load = Nothing
    /\ xfer = [t \in XFERS |-> Free]
    /\ picked = [s \in Sides |-> {}]
    /\ doubt = [s \in Sides |-> TRUE]

(* What the user can reach: no dialog, menu or drag is in the way. *)
Hands == load.mode # "drag" /\ \A s \in Sides : pane[s].dialog.kind = "none"

(* FilePane's reload(dir) up to its await, and every other awaited command:
   one more call of the pane.  Its listing is in doubt when it is not alone. *)
InFlight(s) == \E c \in CALLS : call[c].st # "idle" /\ call[c].side = s

Invoke(s, st, dir, del, add) ==
    \E c \in CALLS :
        /\ call[c].st = "idle"
        /\ call' = [call EXCEPT ![c] = [st |-> st, side |-> s, dir |-> dir,
                                        del |-> del, add |-> add, got |-> {}]]
        /\ doubt' = [doubt EXCEPT ![s] = InFlight(s)]

(* Mutant: the directory is shown before its rows are known, selection kept. *)
ShowKeepsSelection(s, dir, rows) ==
    /\ pane' = [pane EXCEPT ![s].path = dir, ![s].entries = rows]
    /\ picked' = [picked EXCEPT ![s] = IF dir = pane[s].path THEN @ ELSE {}]

(* setEntries, setPath, and the effect on [path] that empties the selection. *)
Show(s, dir, rows) ==
    LET same == dir = pane[s].path IN
    /\ pane' = [pane EXCEPT ![s].path = dir, ![s].entries = rows,
                            ![s].selected = IF same THEN @ ELSE {}]
    /\ picked' = [picked EXCEPT ![s] = IF same THEN @ ELSE {}]

----------------------------------------------------------------------------
(* Navigation *)

(* Home (also the mount effect), the breadcrumb, "..", Refresh, a directory's
   row: every directory the pane lets the user ask for. *)
Targets(s) ==
    LET p == pane[s].path IN
    {TOP[s]} \cup Ancestors(p) \cup {joinPath(p, n) : n \in pane[s].entries \cap DIRNAMES}

Navigate(s) ==
    /\ Hands
    /\ s \in EDITED \/ pane[s].path = <<>>
    /\ \E dir \in Targets(s) : Invoke(s, "list", dir, {}, {})
    /\ UNCHANGED <<disk, pane, load, xfer, picked>>

(* The backend reads the directory, or fails. *)
ListDir(c) ==
    LET k == call[c] IN
    /\ k.st = "list"
    /\ Len(k.dir) = 1 \/ k.dir \in disk[k.side]
    /\ call' = [call EXCEPT ![c].st = "read", ![c].got = RowsOf(k.side, k.dir)]
    /\ UNCHANGED <<disk, pane, load, xfer, picked, doubt>>

ListDirFails(c) ==
    /\ call[c].st = "list"
    /\ call' = [call EXCEPT ![c] = Idle]
    /\ doubt' = [doubt EXCEPT ![call[c].side] = TRUE]
    /\ UNCHANGED <<disk, pane, load, xfer, picked>>

(* The answer reaches reload(): the last answer is shown, not the last click. *)
Listed(c) ==
    LET k == call[c] IN
    /\ k.st = "read"
    /\ Show(k.side, k.dir, k.got)
    /\ call' = [call EXCEPT ![c] = Idle]
    /\ UNCHANGED <<disk, load, xfer, doubt>>

----------------------------------------------------------------------------
(* Selection, menus and dialogs *)

(* A plain click, a toggle, a range, Select all. *)
Selections(s, n) ==
    LET sel == pane[s].selected IN
    {{n}, IF n \in sel THEN sel \ {n} ELSE sel \cup {n}}
        \cup {r \in SUBSET pane[s].entries : n \in r}

Pick(s, sel) ==
    picked' = [picked EXCEPT ![s] =
                 @ \cup {joinPath(pane[s].path, n) : n \in sel \ pane[s].selected}]

Select(s) ==
    /\ Hands
    /\ s \in EDITED
    /\ \E n \in pane[s].entries : \E sel \in Selections(s, n) :
          /\ pane' = [pane EXCEPT ![s].selected = sel]
          /\ Pick(s, sel)
    /\ UNCHANGED <<disk, call, load, xfer, doubt>>

(* A right-click or a drag on a row outside the selection narrows it first. *)
Narrowed(s, n) == IF n \in pane[s].selected THEN pane[s].selected ELSE {n}

(* The rows' menu: what the dialog it opens is about. *)
RowDialogs(s, n) ==
    LET sel == Narrowed(s, n) IN
    {[kind |-> "delete", rows |-> sel \cap pane[s].entries, busy |-> FALSE]}
        \cup {[kind |-> k, rows |-> {n}, busy |-> FALSE] :
                 k \in IF Cardinality(sel) <= 1 /\ scene = "edits" THEN {"rename", "properties"} ELSE {}}

OpenRowDialog(s) ==
    /\ Hands
    /\ s \in EDITED
    /\ \E n \in pane[s].entries : \E d \in RowDialogs(s, n) :
          /\ pane' = [pane EXCEPT ![s].selected = Narrowed(s, n), ![s].dialog = d]
          /\ Pick(s, Narrowed(s, n))
    /\ UNCHANGED <<disk, call, load, xfer, doubt>>

OpenNewDialog(s) ==
    /\ Hands
    /\ scene = "edits"
    /\ s \in EDITED
    /\ \E k \in {"mkdir", "newFile"} :
          pane' = [pane EXCEPT ![s].dialog = [NoDialog EXCEPT !.kind = k]]
    /\ UNCHANGED <<disk, call, load, xfer, picked, doubt>>

Dismiss(s) ==
    /\ pane[s].dialog.kind # "none"
    /\ pane' = [pane EXCEPT ![s].dialog = NoDialog]
    /\ UNCHANGED <<disk, call, load, xfer, picked, doubt>>

(* PromptDialog's submit: the path is the pane's path now, not the one at
   opening.  The dialog stays, disabled, until the answer.  Renaming is
   between names of files. *)
Submit(s) ==
    LET d == pane[s].dialog  p == pane[s].path IN
    /\ d.kind \in {"mkdir", "newFile", "rename"}
    /\ ~d.busy
    /\ p # <<>>
    /\ \E n \in IF d.kind = "mkdir" THEN DIRNAMES ELSE NAMES \ DIRNAMES :
          /\ joinPath(p, n) \in PLACES[s]
          /\ d.kind = "rename" => d.rows \cap DIRNAMES = {}
          /\ Invoke(s, "op", p, {joinPath(p, r) : r \in d.rows}, {joinPath(p, n)})
    /\ pane' = [pane EXCEPT ![s].dialog.busy = TRUE]
    /\ UNCHANGED <<disk, load, xfer, picked>>

(* deleteSelected: what is selected and shown now; the dialog closes at once. *)
ConfirmDelete(s) ==
    LET rows == pane[s].selected \cap pane[s].entries IN
    /\ pane[s].dialog.kind = "delete"
    /\ IF rows = {}
       THEN UNCHANGED <<call, doubt>>
       ELSE Invoke(s, "op", pane[s].path, {joinPath(pane[s].path, n) : n \in rows}, {})
    /\ pane' = [pane EXCEPT ![s].dialog = NoDialog]
    /\ UNCHANGED <<disk, load, xfer, picked>>

(* sftp_remove refuses a directory that is not empty, local_remove does not. *)
Removable(s, path) == path \in disk[s] /\ (s = "remote" => Below(s, path) = {path})

(* The command succeeds: refresh() of the directory it was confirmed in, and
   whatever dialog the pane shows by now is closed. *)
OpDone(c) ==
    LET k == call[c] IN
    /\ k.st = "op"
    /\ \A x \in k.del : Removable(k.side, x)
    /\ k.del = {} => k.add \cap disk[k.side] = {}
    /\ Len(k.dir) = 1 \/ k.dir \in disk[k.side]
    /\ disk' = [disk EXCEPT ![k.side] = (@ \ UNION {Below(k.side, x) : x \in k.del}) \cup k.add]
    /\ call' = [call EXCEPT ![c].st = "list", ![c].del = {}, ![c].add = {}]
    /\ pane' = [pane EXCEPT ![k.side].dialog = NoDialog]
    /\ UNCHANGED <<load, xfer, picked, doubt>>

(* It fails: a prompt stays open with the error; of a delete's removals, fired
   all at once, some may have been done, and nothing is reloaded. *)
OpFails(c) ==
    LET k == call[c] IN
    /\ k.st = "op"
    /\ IF k.add = {}
       THEN /\ \E gone \in SUBSET k.del :
                  /\ \A x \in gone : Removable(k.side, x)
                  /\ disk' = [disk EXCEPT ![k.side] = @ \ UNION {Below(k.side, x) : x \in gone}]
            /\ pane' = [pane EXCEPT ![k.side].dialog = NoDialog]
       ELSE /\ pane' = [pane EXCEPT ![k.side].dialog.busy = FALSE]
            /\ UNCHANGED disk
    /\ call' = [call EXCEPT ![c] = Idle]
    /\ doubt' = [doubt EXCEPT ![k.side] = TRUE]
    /\ UNCHANGED <<load, xfer, picked>>

----------------------------------------------------------------------------
(* Drag and drop, clipboard *)

Payload(mode, s, names) ==
    [mode |-> mode, side |-> s, dir |-> pane[s].path, names |-> names]

(* A drag takes what is selected, rows that are gone since included; Copy and
   Cut ("clip") take the selected rows, and leave the source where it is. *)
Take(s) ==
    /\ Hands
    /\ scene = "moves"
    /\ \E n \in pane[s].entries :
          LET sel == Narrowed(s, n) IN
          /\ load' \in {Payload("drag", s, sel), Payload("clip", s, sel \cap pane[s].entries)}
          /\ pane' = [pane EXCEPT ![s].selected = sel]
          /\ Pick(s, sel)
    /\ UNCHANGED <<disk, call, xfer, doubt>>

(* dispatchTransfer: one sftp_upload or sftp_download per name, each registered,
   spawned and answered, or refused. *)
Fire(s) ==
    \E names \in SUBSET load.names :
    \E slot \in [names -> {t \in XFERS : xfer[t].st = "free"}] :
        /\ \A a, b \in names : slot[a] = slot[b] => a = b
        /\ \A n \in names : joinPath(pane[s].path, n) \in PLACES[s]
        /\ xfer' = [t \in XFERS |->
              IF \E n \in names : slot[n] = t
              THEN [Free EXCEPT !.st = "running", !.src = load.side,
                      !.to = joinPath(pane[s].path, CHOOSE n \in names : slot[n] = t)]
              ELSE xfer[t]]

(* A drop or a paste, on the other side only.  The clipboard survives the paste
   of a copy, not that of a cut. *)
CanPaste(s) == load # Nothing /\ load.side # s /\ pane[s].path # <<>>

Give(s) ==
    /\ load.mode = "drag" \/ Hands
    /\ scene = "moves"
    /\ CanPaste(s)
    /\ Fire(s)
    /\ load' \in {Nothing} \cup (IF load.mode = "clip" THEN {load} ELSE {})
    /\ UNCHANGED <<disk, pane, call, picked, doubt>>

DragEnd ==
    /\ load.mode = "drag"
    /\ load' = Nothing
    /\ UNCHANGED <<disk, pane, call, xfer, picked, doubt>>

----------------------------------------------------------------------------
(* Transfers *)

Dest(t) == IF xfer[t].src = "local" THEN "remote" ELSE "local"

(* The id is answered and register() shows a row; its listen() calls resolve
   later (one that resolves after the end changes nothing and is left out). *)
Registered(t) ==
    /\ xfer[t].st # "free"
    /\ xfer[t].row = "none"
    /\ xfer' = [xfer EXCEPT ![t].row = "running"]
    /\ UNCHANGED <<disk, pane, call, load, picked, doubt>>

Listening(t) ==
    /\ xfer[t].row # "none"
    /\ xfer[t].st = "running"
    /\ ~xfer[t].heard
    /\ xfer' = [xfer EXCEPT ![t].heard = TRUE]
    /\ UNCHANGED <<disk, pane, call, load, picked, doubt>>

Cancel(t) ==
    /\ Hands
    /\ xfer[t].row = "running"
    /\ xfer[t].st = "running"
    /\ xfer' = [xfer EXCEPT ![t].flag = TRUE]
    /\ UNCHANGED <<disk, pane, call, load, picked, doubt>>

(* The worker ends, unregisters and emits transfer-done: "lost" when nobody
   listens yet.  A failed or cancelled one may leave a partial file. *)
Ends(t) ==
    LET x == xfer[t]  s == Dest(t) IN
    /\ x.st = "running"
    /\ \E end \in {"done", "error"} \cup (IF x.flag THEN {"cancelled"} ELSE {}) :
          /\ xfer' = [xfer EXCEPT ![t].st = IF x.heard THEN end ELSE "lost",
                                  ![t].heard = FALSE, ![t].flag = FALSE]
          /\ \/ /\ x.to \in PLACES[s]
                /\ Len(parentOf(x.to)) = 1 \/ parentOf(x.to) \in disk[s]
                /\ disk' = [disk EXCEPT ![s] = @ \cup {x.to}]
                /\ doubt' = [doubt EXCEPT ![s] = @ \/ end # "done" \/ ~x.heard]
             \/ end # "done" /\ UNCHANGED <<disk, doubt>>
    /\ UNCHANGED <<pane, call, load, picked>>

(* Mutant: the panes do not look at completionTick. *)
DoneUnseen(t) ==
    /\ xfer[t].st \in {"done", "error", "cancelled"}
    /\ xfer[t].row = "running"
    /\ xfer' = [xfer EXCEPT ![t].row = xfer[t].st]
    /\ UNCHANGED <<disk, pane, call, load, picked, doubt>>

(* A listing of the directory was read before it received the file, or may have
   been, and its answer is about to be shown. *)
ReadEarlier(s, dir) ==
    \E c \in CALLS : call[c].st = "read" /\ call[c].side = s /\ call[c].dir = dir

(* transfer-done arrives: the row's status, completionTick, and the effect that
   reloads the pane whose directory received the file.  A pane that is on its way
   there is not reloaded. *)
Done(t) ==
    LET x == xfer[t]  s == Dest(t) IN
    /\ x.st \in {"done", "error", "cancelled"}
    /\ x.row = "running"
    /\ xfer' = [xfer EXCEPT ![t].row = x.st]
    /\ IF x.st = "done" /\ pane[s].path = parentOf(x.to)
       THEN Invoke(s, "list", pane[s].path, {}, {})
       ELSE /\ doubt' = [doubt EXCEPT ![s] = @ \/ (x.st = "done" /\ ReadEarlier(s, parentOf(x.to)))]
            /\ UNCHANGED call
    /\ UNCHANGED <<disk, pane, load, picked>>

(* Mutant: "clear" drops the rows whose transfer-done is on its way, too. *)
ClearEnded ==
    /\ Hands
    /\ \E t \in XFERS : xfer[t].row # "none" /\ xfer[t].st # "running"
    /\ xfer' = [t \in XFERS |-> IF xfer[t].row = "none" \/ xfer[t].st = "running"
                               THEN xfer[t] ELSE Free]
    /\ UNCHANGED <<disk, pane, call, load, picked, doubt>>

(* "Effacer terminés": offered when some row is not running. *)
ClearCompleted ==
    /\ Hands
    /\ \E t \in XFERS : xfer[t].row \notin {"none", "running"}
    /\ xfer' = [t \in XFERS |-> IF xfer[t].row \in {"none", "running"} THEN xfer[t] ELSE Free]
    /\ UNCHANGED <<disk, pane, call, load, picked, doubt>>

----------------------------------------------------------------------------

PaneStep(s) ==
    \/ Navigate(s) \/ Select(s) \/ OpenRowDialog(s) \/ OpenNewDialog(s) \/ Dismiss(s)
    \/ Submit(s) \/ ConfirmDelete(s) \/ Take(s) \/ Give(s)
CallStep(c) == ListDir(c) \/ ListDirFails(c) \/ Listed(c) \/ OpDone(c) \/ OpFails(c)
XferStep(t) == Registered(t) \/ Listening(t) \/ Cancel(t) \/ Ends(t) \/ Done(t)

FilesNext ==
    /\ \/ \E s \in Sides : PaneStep(s)
       \/ \E c \in CALLS : CallStep(c)
       \/ \E t \in XFERS : XferStep(t)
       \/ DragEnd
       \/ ClearCompleted
    /\ UNCHANGED scene

FilesSpec == FilesInit /\ [][FilesNext]_fvars

----------------------------------------------------------------------------
(* Properties *)

Paths == Seq(NAMES \cup {TOP[s][1] : s \in Sides})

(* The state has its shape: a prompt waits for an answer only while it is open,
   a row has ended only when its transfer has, and only a worker that still runs
   can be cancelled or listened to. *)
FilesTypeOK ==
    /\ disk \in [Sides -> SUBSET Paths]
    /\ pane \in [Sides -> [path : Paths, entries : SUBSET NAMES, selected : SUBSET NAMES,
            dialog : [kind : {"none", "mkdir", "newFile", "rename", "delete", "properties"},
                      rows : SUBSET NAMES, busy : BOOLEAN]]]
    /\ call \in [CALLS -> [st : {"idle", "list", "read", "op"}, side : Sides, dir : Paths,
            del : SUBSET Paths, add : SUBSET Paths, got : SUBSET NAMES]]
    /\ load \in [mode : {"none", "drag", "clip"}, side : Sides \cup {"none"}, dir : Paths,
            names : SUBSET NAMES]
    /\ xfer \in [XFERS -> [st : {"free", "running", "lost", "done", "error", "cancelled"},
            src : Sides, to : Paths, flag : BOOLEAN,
            row : {"none", "running", "done", "error", "cancelled"}, heard : BOOLEAN]]
    /\ picked \in [Sides -> SUBSET Paths]
    /\ doubt \in [Sides -> BOOLEAN]
    /\ scene \in SCENES
    /\ \A t \in XFERS : /\ xfer[t].row \in {"none", "running", xfer[t].st}
                        /\ xfer[t].flag \/ xfer[t].heard => xfer[t].st = "running"

(* Listings are answered late and out of order, a menu is opened on a selection
   made before, and the directory is the pane's own at the moment of the click:
   still a deletion only ever names paths the user picked while the pane showed
   their directory, and so does what is dragged or put in the clipboard. *)
ActsOnPicked ==
    [][/\ \A c \in CALLS : call[c].st # "op" /\ call'[c].st = "op" /\ call'[c].add = {}
                              => call'[c].del \subseteq picked[call'[c].side]
       /\ load' # load /\ load' # Nothing
            => \A n \in load'.names : joinPath(load'.dir, n) \in picked'[load'.side]]_fvars

(* A pane with no call in flight and no transfer-done on its way shows what its
   directory holds.  The exceptions (`doubt`): its last listing was not alone in
   flight (answers come in any order), a command or a listing failed, a transfer
   into it failed, was cancelled or ended before anyone listened, or its
   transfer-done came while the pane showed another directory and had read, but
   not yet shown, this one.  So a file transferred into the directory on the
   screen does show up without Refresh, as FilePane says, once its transfer-done
   was heard; and nothing in the panel, cleared rows included, takes that away. *)
FreshUnlessInDoubt ==
    \A s \in Sides :
        (/\ pane[s].path # <<>>
         /\ ~doubt[s]
         /\ ~InFlight(s)
         /\ ~\E t \in XFERS : Dest(t) = s /\ xfer[t].st = "done" /\ xfer[t].row # "done")
        => pane[s].entries = RowsOf(s, pane[s].path)
=============================================================================
