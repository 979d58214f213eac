---------------------------- MODULE FilesProofs ----------------------------
(***************************************************************************)
(* Theorems about Files: its types, that deletions and drags name what the *)
(* user picked, and that a pane shows what its directory holds.            *)
(***************************************************************************)
EXTENDS Files, SequenceTheorems, TLAPS

----------------------------------------------------------------------------
(* Files: the invariant *)

Dialogs == [kind : {"none", "mkdir", "newFile", "rename", "delete", "properties"},
            rows : SUBSET NAMES, busy : BOOLEAN]
Panes == [path : Paths, entries : SUBSET NAMES, selected : SUBSET NAMES, dialog : Dialogs]
CallRecords == [st : {"idle", "list", "read", "op"}, side : Sides, dir : Paths,
                del : SUBSET Paths, add : SUBSET Paths, got : SUBSET NAMES]
Loads == {Nothing} \cup [mode : {"drag", "clip"}, side : Sides, dir : Paths,
                        names : SUBSET NAMES]
Xfers == [st : {"free", "running", "lost", "done", "error", "cancelled"},
          src : Sides, to : Paths, flag : BOOLEAN,
          row : {"none", "running", "done", "error", "cancelled"}, heard : BOOLEAN]

(* A slot of the panel that holds no transfer has no row. *)
FreeHasNoRow == \A t \in XFERS : xfer[t].st = "free" => xfer[t].row = "none"

(* What is selected was picked in the directory that is shown. *)
SelectionPicked ==
    \A s \in Sides : \A n \in pane[s].selected : joinPath(pane[s].path, n) \in picked[s]

Awaits(c, s) == call[c].st # "idle" /\ call[c].side = s
OnItsWay(t, s) == Dest(t) = s /\ xfer[t].st = "done" /\ xfer[t].row # "done"

(* While nothing is in doubt the pane awaits one answer, *)
OneCall(s) == \A b, c \in CALLS : Awaits(b, s) /\ Awaits(c, s) => b = c

(* A list of dir's rows says of each name what is there, unless a transfer-done
   is on its way for it. *)
Agrees(s, dir, rows) ==
    \A n \in NAMES :
        LET x == joinPath(dir, n) IN
        \/ n \in rows <=> x \in disk[s]
        \/ \E t \in XFERS : OnItsWay(t, s) /\ xfer[t].to = x

(* Such a list is what that answer holds, once it was read, *)
ReadCurrent(s) ==
    \A c \in CALLS : call[c].side = s /\ call[c].st = "read" /\ call[c].dir # <<>>
                        => Agrees(s, call[c].dir, call[c].got)

(* and what is shown with no answer awaited. *)
ShownCurrent(s) ==
    pane[s].path # <<>> /\ ~InFlight(s) => Agrees(s, pane[s].path, pane[s].entries)

Current(s) == ~doubt[s] => OneCall(s) /\ ReadCurrent(s) /\ ShownCurrent(s)

(* FilesTypeOK, with names for its records; what is dragged comes from a side. *)
Typed ==
    /\ disk \in [Sides -> SUBSET Paths]
    /\ pane \in [Sides -> Panes]
    /\ call \in [CALLS -> CallRecords]
    /\ load \in Loads
    /\ xfer \in [XFERS -> Xfers]
    /\ picked \in [Sides -> SUBSET Paths]
    /\ doubt \in [Sides -> BOOLEAN]
    /\ scene \in SCENES
    /\ \A t \in XFERS : /\ xfer[t].row \in {"none", "running", xfer[t].st}
                        /\ xfer[t].flag \/ xfer[t].heard => xfer[t].st = "running"

(* The inductive invariant. *)
FilesInv ==
    Typed /\ FreeHasNoRow /\ SelectionPicked /\ \A s \in Sides : Current(s)

----------------------------------------------------------------------------
(* Files: the operators *)

(* Paths are closed under the operators that make them, and parentOf undoes
   joinPath but at the root. *)
LEMMA JoinPath ==
    \A p \in Paths : \A n \in NAMES :
        /\ joinPath(p, n) \in Paths
        /\ p # <<>> => parentOf(joinPath(p, n)) = p
<1> SUFFICES ASSUME NEW p \in Paths, NEW n \in NAMES
             PROVE  /\ joinPath(p, n) \in Paths
                    /\ p # <<>> => parentOf(joinPath(p, n)) = p
    OBVIOUS
<1> DEFINE S == NAMES \cup {TOP[s][1] : s \in Sides}
<1>1. p \in Seq(S) /\ n \in S
    BY DEF Paths
<1> HIDE DEF S
<1>2. Append(p, n) \in Seq(S) /\ Len(Append(p, n)) = Len(p) + 1
    BY <1>1, AppendProperties
<1>3. joinPath(p, n) \in Paths
    BY <1>2 DEF joinPath, Paths, S
<1>4. ASSUME p # <<>>
      PROVE  parentOf(joinPath(p, n)) = p
    <2>1. Len(p) \in Nat /\ Len(p) >= 1
        BY <1>1, <1>4, EmptySeq, LenProperties
    <2>2. parentOf(Append(p, n)) = SubSeq(Append(p, n), 1, Len(p))
        BY <1>2, <2>1 DEF parentOf
    <2>3. Append(p, n) = p \o <<n>> /\ <<n>> \in Seq(S)
        BY <1>1, AppendIsConcat
    <2>4. SubSeq(p \o <<n>>, 1, Len(p)) = SubSeq(p, 1, Len(p))
        BY <1>1, <2>1, <2>3, SubSeqOfConcat1
    <2>5. SubSeq(p, 1, Len(p)) = p
        BY <1>1, SubSeqFull
    <2> QED BY <2>2, <2>3, <2>4, <2>5 DEF joinPath
<1> QED BY <1>3, <1>4

(* What the breadcrumb offers are paths, and so is the root of a side. *)
LEMMA AncestorPaths ==
    /\ \A p \in Paths : Ancestors(p) \subseteq Paths
    /\ <<>> \in Paths
    /\ \A s \in Sides : TOP[s] \in Paths /\ PLACES[s] \subseteq Paths /\ DISK[s] \subseteq Paths
<1> DEFINE S == NAMES \cup {TOP[s][1] : s \in Sides}
<1>1. ASSUME NEW p \in Paths, NEW i \in 1..Len(p)
      PROVE  SubSeq(p, 1, i) \in Paths
    <2>1. p \in Seq(S)
        BY DEF Paths
    <2>2. \A j \in 1..i : p[j] \in S
        BY <2>1
    <2> HIDE DEF S
    <2>3. i \in Int
        OBVIOUS
    <2>4. SubSeq(p, 1, i) \in Seq(S)
        BY <2>2, <2>3, SubSeqProperties
    <2> QED BY <2>4 DEF Paths, S
<1>2. <<>> \in Paths
    BY DEF Paths
<1>3. ASSUME NEW s \in Sides
      PROVE  TOP[s] \in Paths /\ PLACES[s] \subseteq Paths /\ DISK[s] \subseteq Paths
    <2>1. PLACES[s] \subseteq Paths /\ DISK[s] \subseteq PLACES[s]
        BY FilesAssumption DEF Paths
    <2>2. TOP[s] \in Seq(STRING) /\ Len(TOP[s]) = 1
        BY FilesAssumption
    <2>3. TOP[s] = <<TOP[s][1]>>
        BY <2>2
    <2>4. <<TOP[s][1]>> \in Seq(S)
        OBVIOUS
    <2> QED BY <2>1, <2>3, <2>4 DEF Paths
<1> QED BY <1>1, <1>2, <1>3 DEF Ancestors

(* What each way to write a pane makes of it. *)
LEMMA PaneWrites ==
    ASSUME NEW f \in [Sides -> Panes], NEW s \in Sides
    PROVE  /\ \A sel \in SUBSET NAMES : [f EXCEPT ![s].selected = sel] \in [Sides -> Panes]
           /\ \A d \in Dialogs : [f EXCEPT ![s].dialog = d] \in [Sides -> Panes]
           /\ \A b \in BOOLEAN : [f EXCEPT ![s].dialog.busy = b] \in [Sides -> Panes]
           /\ \A sel \in SUBSET NAMES : \A d \in Dialogs :
                 [f EXCEPT ![s].selected = sel, ![s].dialog = d] \in [Sides -> Panes]
<1> DEFINE r == f[s]
<1>0. r \in Panes
    OBVIOUS
<1>1. /\ \A sel \in SUBSET NAMES : [r EXCEPT !.selected = sel] \in Panes
      /\ \A d \in Dialogs : [r EXCEPT !.dialog = d] \in Panes
      /\ \A sel \in SUBSET NAMES : \A d \in Dialogs :
            [r EXCEPT !.selected = sel, !.dialog = d] \in Panes
    <2> HIDE DEF r
    <2> QED BY <1>0 DEF Panes
<1>2. ASSUME NEW b \in BOOLEAN
      PROVE  [r EXCEPT !.dialog.busy = b] \in Panes
    <2> HIDE DEF r
    <2>1. r.dialog \in Dialogs
        BY <1>0 DEF Panes
    <2>2. [r.dialog EXCEPT !.busy = b] \in Dialogs
        BY <2>1 DEF Dialogs
    <2>3. [r EXCEPT !.dialog = [r.dialog EXCEPT !.busy = b]] \in Panes
        BY <1>1, <2>2
    <2> QED BY <2>3
<1>3. \A q \in Panes : [f EXCEPT ![s] = q] \in [Sides -> Panes]
    OBVIOUS
<1> QED BY <1>1, <1>2, <1>3

(* What each way to write a call makes of it. *)
LEMMA CallWrites ==
    ASSUME NEW f \in [CALLS -> CallRecords], NEW c \in CALLS,
           NEW rows \in SUBSET NAMES
    PROVE  /\ [f EXCEPT ![c] = Idle] \in [CALLS -> CallRecords]
           /\ [f EXCEPT ![c].st = "read", ![c].got = rows] \in [CALLS -> CallRecords]
           /\ [f EXCEPT ![c].st = "list", ![c].del = {}, ![c].add = {}]
                  \in [CALLS -> CallRecords]
<1> DEFINE r == f[c]
<1>0. r \in CallRecords
    OBVIOUS
<1>1. /\ Idle \in CallRecords
      /\ [r EXCEPT !.st = "read", !.got = rows] \in CallRecords
      /\ [r EXCEPT !.st = "list", !.del = {}, !.add = {}] \in CallRecords
    <2> HIDE DEF r
    <2>1. Idle \in CallRecords
        BY AncestorPaths DEF CallRecords, Idle, Sides
    <2> QED BY <1>0, <2>1 DEF CallRecords
<1>2. \A q \in CallRecords : [f EXCEPT ![c] = q] \in [CALLS -> CallRecords]
    OBVIOUS
<1> QED BY <1>1, <1>2

(* The fields of what the variables hold. *)
LEMMA FieldsTyped ==
    ASSUME Typed
    PROVE  /\ \A s \in Sides : /\ pane[s] \in Panes
                               /\ pane[s].path \in Paths
                               /\ pane[s].entries \in SUBSET NAMES
                               /\ pane[s].selected \in SUBSET NAMES
                               /\ pane[s].dialog \in Dialogs
           /\ \A c \in CALLS : /\ call[c] \in CallRecords
                               /\ call[c].side \in Sides
                               /\ call[c].dir \in Paths
                               /\ call[c].add \in SUBSET Paths
                               /\ call[c].got \in SUBSET NAMES
           /\ \A t \in XFERS : /\ xfer[t] \in Xfers
                               /\ xfer[t].to \in Paths
                               /\ Dest(t) \in Sides
<1>1. /\ \A s \in Sides : pane[s] \in Panes
      /\ \A c \in CALLS : call[c] \in CallRecords
      /\ \A t \in XFERS : xfer[t] \in Xfers
    BY DEF Typed
<1>2. \A r \in Panes : /\ r.path \in Paths /\ r.entries \in SUBSET NAMES
                       /\ r.selected \in SUBSET NAMES /\ r.dialog \in Dialogs
    BY DEF Panes
<1>3. \A r \in CallRecords : /\ r.side \in Sides /\ r.dir \in Paths
                             /\ r.add \in SUBSET Paths /\ r.got \in SUBSET NAMES
    BY DEF CallRecords
<1>4. \A r \in Xfers : r.to \in Paths
    BY DEF Xfers
<1> QED BY <1>1, <1>2, <1>3, <1>4 DEF Dest, Sides

(* A new call: the slot that takes it was free, and there is doubt when
   another one was in flight. *)
Invoked(s, c, k) ==
    /\ call[c].st = "idle"
    /\ call' = [call EXCEPT ![c] = k]
    /\ k.side = s /\ k.st # "idle" /\ k.st # "read"
    /\ doubt' = [doubt EXCEPT ![s] = InFlight(s)]

(* Invoke makes such a call, with the fields it was given. *)
LEMMA InvokeMakes ==
    ASSUME NEW s \in Sides, NEW st \in {"list", "op"}, NEW dir \in Paths,
           NEW del \in SUBSET Paths, NEW add \in SUBSET Paths,
           Invoke(s, st, dir, del, add)
    PROVE  \E c \in CALLS : \E k \in CallRecords :
              Invoked(s, c, k) /\ k.st = st /\ k.del = del /\ k.add = add
<1> PICK c \in CALLS :
       /\ call[c].st = "idle"
       /\ call' = [call EXCEPT ![c] = [st |-> st, side |-> s, dir |-> dir,
                                       del |-> del, add |-> add, got |-> {}]]
       /\ doubt' = [doubt EXCEPT ![s] = InFlight(s)]
    BY DEF Invoke
<1> DEFINE k == [st |-> st, side |-> s, dir |-> dir, del |-> del, add |-> add, got |-> {}]
<1>1. k \in CallRecords
    BY DEF CallRecords
<1>2. Invoked(s, c, k)
    BY DEF Invoked
<1> QED BY <1>1, <1>2

----------------------------------------------------------------------------
(* Files: what keeps a pane current *)

(* Nothing side s shows, awaits or knows changes. *)
Quiet(s) ==
    /\ doubt'[s] = doubt[s]
    /\ disk'[s] = disk[s]
    /\ pane'[s].path = pane[s].path /\ pane'[s].entries = pane[s].entries
    /\ \A c \in CALLS : call'[c] = call[c] \/ (~Awaits(c, s) /\ ~Awaits(c, s)')
    /\ \A t \in XFERS : OnItsWay(t, s) => OnItsWay(t, s)' /\ xfer'[t].to = xfer[t].to

(* Lists that agreed with a directory of s still do. *)
LEMMA QuietAgrees ==
    ASSUME NEW s \in Sides, Quiet(s), NEW dir, NEW rows, Agrees(s, dir, rows)
    PROVE  Agrees(s, dir, rows)'
BY DEF Agrees, Quiet

(* Then it stays current. *)
LEMMA QuietStaysCurrent ==
    ASSUME NEW s \in Sides, Current(s), Quiet(s)
    PROVE  Current(s)'
<1> SUFFICES ASSUME ~doubt'[s]
             PROVE  (OneCall(s) /\ ReadCurrent(s) /\ ShownCurrent(s))'
    BY DEF Current
<1>0. OneCall(s) /\ ReadCurrent(s) /\ ShownCurrent(s)
    BY DEF Current, Quiet
<1>1. \A c \in CALLS : Awaits(c, s)' => Awaits(c, s) /\ call'[c] = call[c]
    BY DEF Quiet, Awaits
<1>2. OneCall(s)'
    BY <1>0, <1>1 DEF OneCall
<1>3. ReadCurrent(s)'
    <2> SUFFICES ASSUME NEW c \in CALLS, call'[c].side = s, call'[c].st = "read",
                        call'[c].dir # <<>>
                 PROVE  Agrees(s, call[c].dir, call[c].got)'
        BY DEF ReadCurrent
    <2> DEFINE dir == call[c].dir  rows == call[c].got
    <2>1. call'[c] = call[c]
        BY <1>1 DEF Awaits
    <2>2. Agrees(s, dir, rows)
        BY <1>0, <2>1 DEF ReadCurrent
    <2>3. \A p, q : Agrees(s, p, q) => Agrees(s, p, q)'
        BY QuietAgrees
    <2> QED BY <2>1, <2>2, <2>3 DEF Agrees
<1>4. InFlight(s)' <=> InFlight(s)
    BY DEF InFlight, Quiet, Awaits
<1>5. ShownCurrent(s)'
    <2>1. \A p, q : Agrees(s, p, q) => Agrees(s, p, q)'
        BY QuietAgrees
    <2> QED BY <1>0, <1>4, <2>1 DEF ShownCurrent, Quiet, Agrees
<1> QED BY <1>2, <1>3, <1>5

(* A new call leaves its pane current, whatever has become of transfers: what is
   shown does not count until it is answered. *)
LEMMA InvokedStaysCurrent ==
    ASSUME NEW s \in Sides, Typed, Current(s), NEW c \in CALLS, NEW k, Invoked(s, c, k)
    PROVE  Current(s)'
<1> SUFFICES ASSUME ~doubt'[s]
             PROVE  (OneCall(s) /\ ReadCurrent(s) /\ ShownCurrent(s))'
    BY DEF Current
<1>0. ~InFlight(s)
    BY DEF Invoked, Typed
<1>1. call'[c] = k /\ \A b \in CALLS : b # c => call'[b] = call[b]
    BY DEF Invoked, Typed
<1>2. \A b \in CALLS : Awaits(b, s)' <=> b = c
    BY <1>0, <1>1 DEF InFlight, Awaits, Invoked
<1>3. OneCall(s)'
    BY <1>2 DEF OneCall
<1>4. ReadCurrent(s)'
    BY <1>1, <1>2 DEF ReadCurrent, Awaits, Invoked
<1>5. InFlight(s)'
    BY <1>2 DEF InFlight, Awaits
<1> QED BY <1>3, <1>4, <1>5 DEF ShownCurrent

(* It is nothing to the other pane. *)
LEMMA InvokedElsewhere ==
    ASSUME NEW s \in Sides, NEW r \in Sides, r # s, Typed,
           NEW c \in CALLS, NEW k, Invoked(s, c, k)
    PROVE  /\ doubt'[r] = doubt[r]
           /\ \A b \in CALLS : call'[b] = call[b] \/ (~Awaits(b, r) /\ ~Awaits(b, r)')
<1>1. doubt'[r] = doubt[r]
    BY DEF Invoked, Typed
<1>2. call'[c] = k /\ \A b \in CALLS : b # c => call'[b] = call[b]
    BY DEF Invoked, Typed
<1>3. ~Awaits(c, r) /\ ~Awaits(c, r)'
    BY <1>2 DEF Invoked, Awaits
<1> QED BY <1>1, <1>2, <1>3

(* Where nothing but calls and doubts changed, all panes stay current. *)
LEMMA InvokeKeepsCurrent ==
    ASSUME Typed, \A r \in Sides : Current(r),
           NEW s \in Sides, NEW c \in CALLS, NEW k, Invoked(s, c, k),
           UNCHANGED <<disk, xfer>>,
           \A r \in Sides : /\ pane'[r].path = pane[r].path
                            /\ pane'[r].entries = pane[r].entries
    PROVE  \A r \in Sides : Current(r)'
<1> SUFFICES ASSUME NEW r \in Sides
             PROVE  Current(r)'
    OBVIOUS
<1>1. CASE r = s
    BY <1>1, InvokedStaysCurrent
<1>2. CASE r # s
    <2>1. Quiet(r)
        BY <1>2, InvokedElsewhere DEF Quiet, OnItsWay, Dest
    <2> QED BY <2>1, QuietStaysCurrent
<1> QED BY <1>1, <1>2

----------------------------------------------------------------------------
(* Files: what the user does to a pane *)

(* What Pick records is all that the new selection adds. *)
LEMMA PickCovers ==
    ASSUME NEW s \in Sides, NEW sel \in SUBSET NAMES, Typed, SelectionPicked, Pick(s, sel),
           pane'[s].path = pane[s].path, pane'[s].selected = sel,
           \A r \in Sides : r # s => pane'[r] = pane[r]
    PROVE  /\ picked' \in [Sides -> SUBSET Paths]
           /\ SelectionPicked'
           /\ \A n \in sel : joinPath(pane[s].path, n) \in picked'[s]
<1> DEFINE p == pane[s].path
           more == {joinPath(p, n) : n \in sel \ pane[s].selected}
<1>1. p \in Paths
    BY DEF Typed, Panes
<1>2. more \subseteq Paths
    BY <1>1, JoinPath
<1>3. /\ picked'[s] = picked[s] \cup more
      /\ \A r \in Sides : r # s => picked'[r] = picked[r]
      /\ picked' \in [Sides -> SUBSET Paths]
    <2>1. picked' = [picked EXCEPT ![s] = picked[s] \cup more]
        BY DEF Pick
    <2> HIDE DEF more
    <2> QED BY <1>2, <2>1 DEF Typed
<1>4. \A n \in sel : joinPath(p, n) \in picked'[s]
    BY <1>3 DEF SelectionPicked
<1>5. SelectionPicked'
    BY <1>3, <1>4 DEF SelectionPicked
<1> QED BY <1>3, <1>4, <1>5

(* A step that leaves paths and rows, calls, transfers and disks alone. *)
LEMMA HandsKeep ==
    ASSUME FilesInv, UNCHANGED <<disk, call, xfer, doubt, scene>>,
           pane' \in [Sides -> Panes], picked' \in [Sides -> SUBSET Paths], load' \in Loads,
           \A s \in Sides : /\ pane'[s].path = pane[s].path
                            /\ pane'[s].entries = pane[s].entries,
           SelectionPicked'
    PROVE  FilesInv'
<1>1. Typed'
    BY DEF FilesInv, Typed
<1>2. FreeHasNoRow'
    BY DEF FilesInv, FreeHasNoRow
<1>3. ASSUME NEW s \in Sides
      PROVE  Current(s)'
    <2>1. Quiet(s)
        BY DEF Quiet, OnItsWay, Dest
    <2> QED BY <2>1, QuietStaysCurrent DEF FilesInv
<1> QED BY <1>1, <1>2, <1>3 DEF FilesInv

(* Dialogs that are made or closed. *)
LEMMA DialogsMade ==
    /\ NoDialog \in Dialogs
    /\ \A k \in {"mkdir", "newFile"} : [NoDialog EXCEPT !.kind = k] \in Dialogs
    /\ \A s \in Sides : \A n \in NAMES : Typed => Narrowed(s, n) \in SUBSET NAMES
                                               /\ RowDialogs(s, n) \subseteq Dialogs
<1>1. NoDialog \in Dialogs
    BY DEF NoDialog, Dialogs
<1>2. \A k \in {"mkdir", "newFile"} : [NoDialog EXCEPT !.kind = k] \in Dialogs
    BY <1>1 DEF NoDialog, Dialogs
<1>3. ASSUME NEW s \in Sides, NEW n \in NAMES, Typed
      PROVE  Narrowed(s, n) \in SUBSET NAMES /\ RowDialogs(s, n) \subseteq Dialogs
    <2>1. pane[s].selected \in SUBSET NAMES
        BY <1>3, FieldsTyped
    <2>2. Narrowed(s, n) \in SUBSET NAMES
        BY <2>1 DEF Narrowed
    <2> DEFINE sel == Narrowed(s, n)
    <2>3. [kind |-> "delete", rows |-> sel \cap pane[s].entries, busy |-> FALSE] \in Dialogs
        BY <2>2 DEF Dialogs
    <2>4. \A k \in {"rename", "properties"} :
             [kind |-> k, rows |-> {n}, busy |-> FALSE] \in Dialogs
        BY DEF Dialogs
    <2> QED BY <2>2, <2>3, <2>4 DEF RowDialogs
<1> QED BY <1>1, <1>2, <1>3

(* Clicks on rows. *)
LEMMA SelectStep ==
    ASSUME FilesInv, NEW s \in Sides, Select(s), UNCHANGED scene
    PROVE  FilesInv'
<1>1. Typed /\ SelectionPicked
    BY DEF FilesInv
<1>2. pane[s] \in Panes
    BY <1>1 DEF Typed
<1> PICK n \in pane[s].entries : \E sel \in Selections(s, n) :
       pane' = [pane EXCEPT ![s].selected = sel] /\ Pick(s, sel)
    BY DEF Select
<1> PICK sel \in Selections(s, n) :
       pane' = [pane EXCEPT ![s].selected = sel] /\ Pick(s, sel)
    OBVIOUS
<1>3. sel \in SUBSET NAMES
    BY <1>2 DEF Selections, Panes
<1>4. pane' \in [Sides -> Panes]
    <2>1. pane \in [Sides -> Panes]
        BY <1>1 DEF Typed
    <2> QED BY <1>3, <2>1, PaneWrites
<1>5. /\ pane'[s].path = pane[s].path /\ pane'[s].entries = pane[s].entries
      /\ pane'[s].selected = sel
      /\ \A r \in Sides : r # s => pane'[r] = pane[r]
    BY <1>1, <1>2 DEF Typed, Panes
<1>6. picked' \in [Sides -> SUBSET Paths] /\ SelectionPicked'
    BY <1>1, <1>3, <1>5, PickCovers
<1>7. UNCHANGED <<disk, call, xfer, doubt, scene>> /\ load' \in Loads
    BY <1>1 DEF Select, Typed
<1>8. \A r \in Sides : /\ pane'[r].path = pane[r].path
                       /\ pane'[r].entries = pane[r].entries
    BY <1>5
<1> QED BY <1>4, <1>6, <1>7, <1>8, HandsKeep

(* The rows' menu. *)
LEMMA OpenRowDialogStep ==
    ASSUME FilesInv, NEW s \in Sides, OpenRowDialog(s), UNCHANGED scene
    PROVE  FilesInv'
<1>1. Typed /\ SelectionPicked
    BY DEF FilesInv
<1> PICK n \in pane[s].entries : \E d \in RowDialogs(s, n) :
       /\ pane' = [pane EXCEPT ![s].selected = Narrowed(s, n), ![s].dialog = d]
       /\ Pick(s, Narrowed(s, n))
    BY DEF OpenRowDialog
<1> PICK d \in RowDialogs(s, n) :
       /\ pane' = [pane EXCEPT ![s].selected = Narrowed(s, n), ![s].dialog = d]
       /\ Pick(s, Narrowed(s, n))
    OBVIOUS
<1>2. n \in NAMES /\ pane \in [Sides -> Panes] /\ pane[s] \in Panes
    BY <1>1, FieldsTyped DEF Typed
<1>3. Narrowed(s, n) \in SUBSET NAMES /\ d \in Dialogs
    BY <1>1, <1>2, DialogsMade
<1>4. pane' \in [Sides -> Panes]
    BY <1>2, <1>3, PaneWrites
<1>5. /\ pane'[s].path = pane[s].path /\ pane'[s].entries = pane[s].entries
      /\ pane'[s].selected = Narrowed(s, n)
      /\ \A r \in Sides : r # s => pane'[r] = pane[r]
    <2> DEFINE sel == Narrowed(s, n)
    <2> HIDE DEF sel
    <2>1. pane' = [pane EXCEPT ![s].selected = sel, ![s].dialog = d]
        BY DEF sel
    <2>2. /\ pane'[s].path = pane[s].path /\ pane'[s].entries = pane[s].entries
          /\ pane'[s].selected = sel
          /\ \A r \in Sides : r # s => pane'[r] = pane[r]
        BY <1>2, <2>1 DEF Panes
    <2> QED BY <2>2 DEF sel
<1>6. picked' \in [Sides -> SUBSET Paths] /\ SelectionPicked'
    BY <1>1, <1>3, <1>5, PickCovers
<1>7. UNCHANGED <<disk, call, xfer, doubt, scene>> /\ load' \in Loads
    BY <1>1 DEF OpenRowDialog, Typed
<1>8. \A r \in Sides : /\ pane'[r].path = pane[r].path
                       /\ pane'[r].entries = pane[r].entries
    BY <1>5
<1> QED BY <1>4, <1>6, <1>7, <1>8, HandsKeep

(* A step that writes nothing of the panes but a dialog. *)
DialogOnly(s) ==
    /\ \A r \in Sides : /\ pane'[r].path = pane[r].path
                         /\ pane'[r].entries = pane[r].entries
                         /\ pane'[r].selected = pane[r].selected
    /\ pane' \in [Sides -> Panes]

(* That is what writing a dialog, or its busy flag, does. *)
LEMMA DialogWritten ==
    ASSUME Typed, NEW s \in Sides, NEW d \in Dialogs, NEW b \in BOOLEAN,
           \/ pane' = [pane EXCEPT ![s].dialog = d]
           \/ pane' = [pane EXCEPT ![s].dialog.busy = b]
    PROVE  DialogOnly(s)
<1>1. pane \in [Sides -> Panes]
    BY DEF Typed
<1>2. pane' \in [Sides -> Panes]
    <2>1. /\ [pane EXCEPT ![s].dialog = d] \in [Sides -> Panes]
          /\ [pane EXCEPT ![s].dialog.busy = b] \in [Sides -> Panes]
        BY <1>1, PaneWrites
    <2> QED BY <2>1
<1>3. CASE pane' = [pane EXCEPT ![s].dialog = d]
    BY <1>1, <1>2, <1>3 DEF DialogOnly, Panes
<1>4. CASE pane' = [pane EXCEPT ![s].dialog.busy = b]
    BY <1>1, <1>2, <1>4 DEF DialogOnly, Panes
<1> QED BY <1>3, <1>4

(* It keeps what is selected among what was picked. *)
LEMMA DialogKeepsSelection ==
    ASSUME SelectionPicked, NEW s \in Sides, DialogOnly(s), picked' = picked
    PROVE  SelectionPicked'
BY DEF SelectionPicked, DialogOnly

(* Opening a prompt, and Escape. *)
LEMMA DialogSteps ==
    ASSUME FilesInv, NEW s \in Sides, OpenNewDialog(s) \/ Dismiss(s), UNCHANGED scene
    PROVE  FilesInv'
<1>1. Typed /\ SelectionPicked
    BY DEF FilesInv
<1>2. \E d \in Dialogs : pane' = [pane EXCEPT ![s].dialog = d]
    BY DialogsMade DEF OpenNewDialog, Dismiss
<1>3. DialogOnly(s)
    BY <1>1, <1>2, DialogWritten
<1>4. UNCHANGED <<disk, call, load, xfer, picked, doubt, scene>>
    BY DEF OpenNewDialog, Dismiss
<1>5. SelectionPicked'
    BY <1>1, <1>3, <1>4, DialogKeepsSelection
<1>6. load' \in Loads /\ picked' \in [Sides -> SUBSET Paths]
    BY <1>1, <1>4 DEF Typed
<1> QED BY <1>3, <1>4, <1>5, <1>6, HandsKeep DEF DialogOnly

(* A drag that starts, Copy and Cut. *)
LEMMA TakeStep ==
    ASSUME FilesInv, NEW s \in Sides, Take(s), UNCHANGED scene
    PROVE  /\ FilesInv'
           /\ load'.side = s
           /\ \A n \in load'.names : joinPath(load'.dir, n) \in picked'[s]
<1>1. Typed /\ SelectionPicked
    BY DEF FilesInv
<1> PICK n \in pane[s].entries :
       LET sel == Narrowed(s, n) IN
       /\ load' \in {Payload("drag", s, sel), Payload("clip", s, sel \cap pane[s].entries)}
       /\ pane' = [pane EXCEPT ![s].selected = sel]
       /\ Pick(s, sel)
    BY DEF Take
<1> DEFINE sel == Narrowed(s, n)
<1>2. n \in NAMES /\ pane \in [Sides -> Panes] /\ pane[s] \in Panes
    BY <1>1, FieldsTyped DEF Typed
<1>3. sel \in SUBSET NAMES
    BY <1>1, <1>2, DialogsMade
<1>a. /\ load' \in {Payload("drag", s, sel), Payload("clip", s, sel \cap pane[s].entries)}
      /\ pane' = [pane EXCEPT ![s].selected = sel]
      /\ Pick(s, sel)
    OBVIOUS
<1> HIDE DEF sel
<1>4. pane' \in [Sides -> Panes]
    <2>1. [pane EXCEPT ![s].selected = sel] \in [Sides -> Panes]
        BY <1>2, <1>3, PaneWrites
    <2> QED BY <1>a, <2>1
<1>5. /\ pane'[s].path = pane[s].path /\ pane'[s].entries = pane[s].entries
      /\ pane'[s].selected = sel
      /\ \A r \in Sides : r # s => pane'[r] = pane[r]
    BY <1>2, <1>a DEF Panes
<1>6. /\ picked' \in [Sides -> SUBSET Paths] /\ SelectionPicked'
      /\ \A m \in sel : joinPath(pane[s].path, m) \in picked'[s]
    BY <1>1, <1>3, <1>5, <1>a, PickCovers
<1>7. UNCHANGED <<disk, call, xfer, doubt, scene>>
    BY DEF Take
<1>8. \A r \in Sides : /\ pane'[r].path = pane[r].path
                       /\ pane'[r].entries = pane[r].entries
    BY <1>5
<1>9. /\ load' \in Loads /\ load'.side = s
      /\ load'.dir = pane[s].path /\ load'.names \subseteq sel
    <2>1. pane[s].path \in Paths
        BY <1>1, FieldsTyped
    <2> QED BY <1>3, <1>a, <2>1 DEF Payload, Loads
<1>10. FilesInv'
    BY <1>4, <1>6, <1>7, <1>8, <1>9, HandsKeep
<1> QED BY <1>6, <1>9, <1>10

----------------------------------------------------------------------------
(* Files: commands and transfers that begin *)

(* A step that does nothing but make a call, and perhaps write a dialog. *)
LEMMA InvokeKeeps ==
    ASSUME FilesInv, NEW s \in Sides, NEW c \in CALLS, NEW k \in CallRecords,
           Invoked(s, c, k), DialogOnly(s), UNCHANGED <<disk, load, xfer, picked, scene>>
    PROVE  FilesInv'
<1>1. Typed /\ SelectionPicked /\ FreeHasNoRow /\ \A r \in Sides : Current(r)
    BY DEF FilesInv
<1>2. call' \in [CALLS -> CallRecords]
    BY <1>1 DEF Invoked, Typed
<1>3. doubt' \in [Sides -> BOOLEAN]
    <2> DEFINE b == InFlight(s)
    <2>1. b \in BOOLEAN
        BY DEF InFlight
    <2>2. doubt' = [doubt EXCEPT ![s] = b]
        BY DEF Invoked
    <2> HIDE DEF b
    <2> QED BY <1>1, <2>1, <2>2 DEF Typed
<1>4. Typed'
    BY <1>1, <1>2, <1>3 DEF Typed, DialogOnly
<1>5. FreeHasNoRow'
    BY <1>1 DEF FreeHasNoRow
<1>6. SelectionPicked'
    BY <1>1, DialogKeepsSelection
<1>7. \A r \in Sides : Current(r)'
    BY <1>1, InvokeKeepsCurrent DEF DialogOnly
<1> QED BY <1>4, <1>5, <1>6, <1>7 DEF FilesInv

(* A pane that does not change has had only its dialog written. *)
LEMMA NoDialogWritten == Typed /\ pane' = pane => \A s \in Sides : DialogOnly(s)
BY DEF Typed, DialogOnly

(* Home, the breadcrumb, "..", Refresh, a directory's row. *)
LEMMA NavigateStep ==
    ASSUME FilesInv, NEW s \in Sides, Navigate(s), UNCHANGED scene
    PROVE  FilesInv' /\ \A c \in CALLS : call'[c].st = "op" => call[c].st = "op"
<1>1. Typed
    BY DEF FilesInv
<1> PICK dir \in Targets(s) : Invoke(s, "list", dir, {}, {})
    BY DEF Navigate
<1>2. dir \in Paths
    <2>1. pane[s].path \in Paths /\ pane[s].entries \subseteq NAMES
        BY <1>1, FieldsTyped
    <2> QED BY <2>1, AncestorPaths, JoinPath DEF Targets
<1>3. PICK c \in CALLS : \E k \in CallRecords : Invoked(s, c, k) /\ k.st = "list"
    BY <1>2, InvokeMakes
<1>4. PICK k \in CallRecords : Invoked(s, c, k) /\ k.st = "list"
    BY <1>3
<1>5. DialogOnly(s) /\ UNCHANGED <<disk, load, xfer, picked, scene>>
    BY <1>1, NoDialogWritten DEF Navigate
<1>6. \A b \in CALLS : call'[b].st = "op" => call[b].st = "op"
    BY <1>1, <1>4 DEF Invoked, Typed
<1> QED BY <1>4, <1>5, <1>6, InvokeKeeps

(* The names of rows make paths. *)
LEMMA RowPaths ==
    ASSUME Typed, NEW s \in Sides, NEW rows \in SUBSET NAMES
    PROVE  {joinPath(pane[s].path, n) : n \in rows} \subseteq Paths
BY FieldsTyped, JoinPath

(* A prompt is confirmed. *)
LEMMA SubmitStep ==
    ASSUME FilesInv, NEW s \in Sides, Submit(s), UNCHANGED scene
    PROVE  /\ FilesInv'
           /\ \A c \in CALLS : call[c].st # "op" /\ call'[c].st = "op" => call'[c].add # {}
<1>1. Typed
    BY DEF FilesInv
<1> DEFINE p == pane[s].path  d == pane[s].dialog
<1> PICK n \in IF d.kind = "mkdir" THEN DIRNAMES ELSE NAMES \ DIRNAMES :
       /\ joinPath(p, n) \in PLACES[s]
       /\ Invoke(s, "op", p, {joinPath(p, r) : r \in d.rows}, {joinPath(p, n)})
    BY DEF Submit
<1>2. p \in Paths /\ d \in Dialogs
    BY <1>1, FieldsTyped
<1>3. d.rows \in SUBSET NAMES
    BY <1>2 DEF Dialogs
<1>4. /\ {joinPath(p, r) : r \in d.rows} \in SUBSET Paths
      /\ {joinPath(p, n)} \in SUBSET Paths
    BY <1>1, <1>3, RowPaths, AncestorPaths
<1>5. PICK c \in CALLS : \E k \in CallRecords : Invoked(s, c, k) /\ k.add = {joinPath(p, n)}
    <2> DEFINE del == {joinPath(p, r) : r \in d.rows}  add == {joinPath(p, n)}
    <2>1. del \in SUBSET Paths /\ add \in SUBSET Paths /\ Invoke(s, "op", p, del, add)
        BY <1>4
    <2> HIDE DEF del, add, p
    <2>2. \E c \in CALLS : \E k \in CallRecords : Invoked(s, c, k) /\ k.add = add
        BY <1>2, <2>1, InvokeMakes
    <2> QED BY <2>2 DEF add, p
<1>6. PICK k \in CallRecords : Invoked(s, c, k) /\ k.add = {joinPath(p, n)}
    BY <1>5
<1>7. DialogOnly(s)
    BY <1>1, DialogWritten, DialogsMade DEF Submit
<1>8. FilesInv'
    BY <1>6, <1>7, InvokeKeeps DEF Submit
<1>9. \A b \in CALLS : b # c => call'[b] = call[b]
    BY <1>1, <1>6 DEF Invoked, Typed
<1>10. call'[c].add # {}
    BY <1>1, <1>6 DEF Invoked, Typed
<1> QED BY <1>8, <1>9, <1>10

(* "Supprimer" is confirmed. *)
LEMMA ConfirmDeleteStep ==
    ASSUME FilesInv, NEW s \in Sides, ConfirmDelete(s), UNCHANGED scene
    PROVE  /\ FilesInv'
           /\ \A c \in CALLS : call[c].st # "op" /\ call'[c].st = "op"
                                  => call'[c].del \subseteq picked[call'[c].side]
<1>1. Typed /\ SelectionPicked
    BY DEF FilesInv
<1> DEFINE rows == pane[s].selected \cap pane[s].entries
           del == {joinPath(pane[s].path, n) : n \in rows}
<1>2. rows \in SUBSET NAMES /\ pane[s].path \in Paths
    BY <1>1, FieldsTyped
<1>3. del \in SUBSET Paths /\ del \subseteq picked[s]
    BY <1>1, <1>2, RowPaths DEF SelectionPicked
<1>4. DialogOnly(s)
    BY <1>1, DialogWritten, DialogsMade DEF ConfirmDelete
<1>5. UNCHANGED <<disk, load, xfer, picked, scene>>
    BY DEF ConfirmDelete
<1>6. CASE rows = {}
    <2>1. UNCHANGED <<call, doubt>>
        BY <1>6 DEF ConfirmDelete
    <2>2. SelectionPicked'
        BY <1>1, <1>4, <1>5, DialogKeepsSelection
    <2>3. load' \in Loads /\ picked' \in [Sides -> SUBSET Paths]
        BY <1>1, <1>5 DEF Typed
    <2>4. FilesInv'
        BY <1>4, <1>5, <2>1, <2>2, <2>3, HandsKeep DEF DialogOnly
    <2> QED BY <2>1, <2>4
<1>7. CASE rows # {}
    <2>1. Invoke(s, "op", pane[s].path, del, {})
        BY <1>7 DEF ConfirmDelete
    <2> HIDE DEF del
    <2>2. PICK c \in CALLS : \E k \in CallRecords : Invoked(s, c, k) /\ k.del = del
        BY <1>2, <1>3, <2>1, InvokeMakes
    <2>3. PICK k \in CallRecords : Invoked(s, c, k) /\ k.del = del
        BY <2>2
    <2>4. FilesInv'
        BY <1>4, <1>5, <2>3, InvokeKeeps
    <2>5. \A b \in CALLS : b # c => call'[b] = call[b]
        BY <1>1, <2>3 DEF Invoked, Typed
    <2>6. call'[c].del = del /\ call'[c].side = s
        BY <1>1, <2>3 DEF Invoked, Typed
    <2> QED BY <1>3, <2>4, <2>5, <2>6
<1> QED BY <1>6, <1>7

(* A transfer that has just begun: no row, no listener, not cancelled. *)
Began(x) == x.st = "running" /\ x.row = "none" /\ ~x.flag /\ ~x.heard

(* A slot of the panel stays as it is, or was free and takes a new transfer. *)
LEMMA FireTakesFree ==
    ASSUME Typed, NEW s \in Sides, load \in Loads, load # Nothing, Fire(s)
    PROVE  /\ xfer' \in [XFERS -> Xfers]
           /\ \A t \in XFERS : xfer'[t] = xfer[t] \/ (xfer[t].st = "free" /\ Began(xfer'[t]))
<1> PICK names \in SUBSET load.names : \E slot \in [names -> {t \in XFERS : xfer[t].st = "free"}] :
        /\ \A n \in names : joinPath(pane[s].path, n) \in PLACES[s]
        /\ xfer' = [t \in XFERS |->
              IF \E n \in names : slot[n] = t
              THEN [Free EXCEPT !.st = "running", !.src = load.side,
                      !.to = joinPath(pane[s].path, CHOOSE n \in names : slot[n] = t)]
              ELSE xfer[t]]
    BY DEF Fire
<1> PICK slot \in [names -> {t \in XFERS : xfer[t].st = "free"}] :
        /\ \A n \in names : joinPath(pane[s].path, n) \in PLACES[s]
        /\ xfer' = [t \in XFERS |->
              IF \E n \in names : slot[n] = t
              THEN [Free EXCEPT !.st = "running", !.src = load.side,
                      !.to = joinPath(pane[s].path, CHOOSE n \in names : slot[n] = t)]
              ELSE xfer[t]]
    OBVIOUS
<1> DEFINE to(t) == joinPath(pane[s].path, CHOOSE n \in names : slot[n] = t)
           new(p) == [Free EXCEPT !.st = "running", !.src = load.side, !.to = p]
<1>1. load.side \in Sides
    BY DEF Loads
<1>2. \A p \in Paths : new(p) \in Xfers /\ Began(new(p))
    BY <1>1 DEF Free, Xfers, Began
<1>3. ASSUME NEW t \in XFERS, \E n \in names : slot[n] = t
      PROVE  to(t) \in Paths /\ xfer[t].st = "free"
    <2>1. (CHOOSE n \in names : slot[n] = t) \in names
        BY <1>3
    <2> QED BY <1>3, <2>1, AncestorPaths
<1>4. xfer' = [t \in XFERS |-> IF \E n \in names : slot[n] = t THEN new(to(t)) ELSE xfer[t]]
    OBVIOUS
<1> HIDE DEF to, new
<1>5. ASSUME NEW t \in XFERS
      PROVE  /\ xfer'[t] \in Xfers
             /\ xfer'[t] = xfer[t] \/ (xfer[t].st = "free" /\ Began(xfer'[t]))
    <2>1. CASE \E n \in names : slot[n] = t
        <3>1. xfer'[t] = new(to(t))
            BY <1>4, <2>1
        <3>2. to(t) \in Paths /\ xfer[t].st = "free"
            BY <1>3, <2>1
        <3>3. new(to(t)) \in Xfers /\ Began(new(to(t)))
            BY <1>2, <3>2
        <3> QED BY <3>1, <3>2, <3>3
    <2>2. CASE ~\E n \in names : slot[n] = t
        BY <1>4, <2>2 DEF Typed
    <2> QED BY <2>1, <2>2
<1>6. xfer' = [t \in XFERS |-> xfer'[t]]
    BY <1>4
<1> QED BY <1>5, <1>6

(* A step that leaves panes, calls and disks alone keeps the invariant when
   transfers keep their types and those on their way to being told stay so. *)
LEMMA TransfersKeep ==
    ASSUME FilesInv, UNCHANGED <<disk, pane, call, picked, doubt, scene>>,
           load' \in Loads, xfer' \in [XFERS -> Xfers],
           \A t \in XFERS :
              /\ xfer'[t].row \in {"none", "running", xfer'[t].st}
              /\ xfer'[t].flag \/ xfer'[t].heard => xfer'[t].st = "running"
              /\ xfer'[t].st = "free" => xfer'[t].row = "none"
              /\ xfer[t].st = "done" /\ xfer[t].row # "done" =>
                    /\ xfer'[t].st = "done" /\ xfer'[t].row # "done"
                    /\ xfer'[t].to = xfer[t].to /\ xfer'[t].src = xfer[t].src
    PROVE  FilesInv'
<1>1. Typed'
    BY DEF FilesInv, Typed
<1>2. FreeHasNoRow'
    BY DEF FreeHasNoRow
<1>3. SelectionPicked'
    BY DEF FilesInv, SelectionPicked
<1>4. ASSUME NEW s \in Sides
      PROVE  Current(s)'
    <2>1. Quiet(s)
        BY DEF Quiet, OnItsWay, Dest
    <2> QED BY <2>1, QuietStaysCurrent DEF FilesInv
<1> QED BY <1>1, <1>2, <1>3, <1>4 DEF FilesInv

(* A drop or a paste. *)
LEMMA GiveStep ==
    ASSUME FilesInv, NEW s \in Sides, Give(s), UNCHANGED scene
    PROVE  /\ FilesInv'
           /\ load' = load \/ load' = Nothing
           /\ \A t \in XFERS : xfer[t].row = "running" => xfer'[t].row = "running"
<1>1. Typed /\ FreeHasNoRow
    BY DEF FilesInv
<1>2. load \in Loads /\ load # Nothing /\ Fire(s)
    BY <1>1 DEF Typed, Give, CanPaste
<1>3. /\ xfer' \in [XFERS -> Xfers]
      /\ \A t \in XFERS : xfer'[t] = xfer[t] \/ (xfer[t].st = "free" /\ Began(xfer'[t]))
    BY <1>1, <1>2, FireTakesFree
<1>4. load' = load \/ load' = Nothing
    BY DEF Give
<1>5. load' \in Loads
    BY <1>2, <1>4 DEF Loads
<1>6. UNCHANGED <<disk, pane, call, picked, doubt, scene>>
    BY DEF Give
<1>7. ASSUME NEW t \in XFERS
      PROVE  /\ xfer'[t].row \in {"none", "running", xfer'[t].st}
             /\ xfer'[t].flag \/ xfer'[t].heard => xfer'[t].st = "running"
             /\ xfer'[t].st = "free" => xfer'[t].row = "none"
             /\ xfer[t].st = "done" /\ xfer[t].row # "done" =>
                   /\ xfer'[t].st = "done" /\ xfer'[t].row # "done"
                   /\ xfer'[t].to = xfer[t].to /\ xfer'[t].src = xfer[t].src
             /\ xfer[t].row = "running" => xfer'[t].row = "running"
    <2>1. CASE xfer'[t] = xfer[t]
        BY <1>1, <2>1 DEF Typed, FreeHasNoRow
    <2>2. CASE xfer[t].st = "free" /\ Began(xfer'[t])
        BY <1>1, <2>2 DEF Began, FreeHasNoRow
    <2> QED BY <1>3, <2>1, <2>2
<1>8. FilesInv'
    BY <1>3, <1>5, <1>6, <1>7, TransfersKeep
<1> QED BY <1>4, <1>7, <1>8

(* A drag that ends elsewhere. *)
LEMMA DragEndStep ==
    ASSUME FilesInv, DragEnd, UNCHANGED scene
    PROVE  FilesInv'
<1>1. Typed /\ SelectionPicked
    BY DEF FilesInv
<1>2. load' \in Loads
    BY DEF DragEnd, Loads
<1>3. UNCHANGED <<disk, pane, call, xfer, picked, doubt, scene>>
    BY DEF DragEnd
<1>4. pane' \in [Sides -> Panes] /\ picked' \in [Sides -> SUBSET Paths]
    BY <1>1, <1>3 DEF Typed
<1>5. SelectionPicked'
    BY <1>1, <1>3 DEF SelectionPicked
<1> QED BY <1>2, <1>3, <1>4, <1>5, HandsKeep

----------------------------------------------------------------------------
(* Files: answers *)

(* Call c goes on, or is over. *)
WithAnswer(c, k) ==
    /\ call' = [call EXCEPT ![c] = k]
    /\ k \in CallRecords
    /\ k.st = "idle" \/ (k.side = call[c].side /\ k.st \in {"read", "list"})

(* No other call changes, none becomes a command, and to the other pane this one
   is nothing. *)
LEMMA AnswerKeeps ==
    ASSUME Typed, NEW c \in CALLS, NEW k, WithAnswer(c, k)
    PROVE  /\ call' \in [CALLS -> CallRecords]
           /\ call'[c] = k /\ \A b \in CALLS : b # c => call'[b] = call[b]
           /\ \A b \in CALLS : call'[b].st = "op" => call[b].st = "op"
           /\ \A r \in Sides : r # call[c].side => \A b \in CALLS :
                 call'[b] = call[b] \/ (~Awaits(b, r) /\ ~Awaits(b, r)')
<1>1. call \in [CALLS -> CallRecords] /\ call' = [call EXCEPT ![c] = k] /\ k \in CallRecords
    BY DEF Typed, WithAnswer
<1>2. call' \in [CALLS -> CallRecords]
    BY <1>1
<1>3. call'[c] = k /\ \A b \in CALLS : b # c => call'[b] = call[b]
    BY <1>1
<1>4. \A b \in CALLS : call'[b].st = "op" => call[b].st = "op"
    BY <1>3 DEF WithAnswer
<1>5. ASSUME NEW r \in Sides, r # call[c].side
      PROVE  ~Awaits(c, r) /\ ~Awaits(c, r)'
    <2>1. ~Awaits(c, r)
        BY <1>5 DEF Awaits
    <2>2. k.st = "idle" \/ k.side # r
        BY <1>5 DEF WithAnswer
    <2> QED BY <1>3, <2>1, <2>2 DEF Awaits
<1> QED BY <1>2, <1>3, <1>4, <1>5

(* The other pane: nothing of it changes. *)
LEMMA AnswerElsewhere ==
    ASSUME Typed, NEW c \in CALLS, NEW k, WithAnswer(c, k), xfer' = xfer,
           NEW r \in Sides, r # call[c].side, Current(r),
           doubt'[r] = doubt[r], disk'[r] = disk[r],
           pane'[r].path = pane[r].path, pane'[r].entries = pane[r].entries
    PROVE  Current(r)'
<1>1. Quiet(r)
    BY AnswerKeeps DEF Quiet, OnItsWay, Dest
<1> QED BY <1>1, QuietStaysCurrent

(* A listing reads its directory: for its pane that is what is there. *)
LEMMA ListDirStep ==
    ASSUME FilesInv, NEW c \in CALLS, ListDir(c), UNCHANGED scene
    PROVE  FilesInv' /\ \A b \in CALLS : call'[b].st = "op" => call[b].st = "op"
<1>1. Typed /\ SelectionPicked /\ FreeHasNoRow /\ \A r \in Sides : Current(r)
    BY DEF FilesInv
<1> PICK s \in Sides : s = call[c].side
    BY <1>1, FieldsTyped
<1> DEFINE rows == RowsOf(s, call[c].dir)
           k == [call[c] EXCEPT !.st = "read", !.got = rows]
<1>2. call[c] \in CallRecords /\ call[c].st = "list"
    BY <1>1, FieldsTyped DEF ListDir
<1>3. /\ k \in CallRecords /\ k.st = "read" /\ k.side = s
      /\ k.dir = call[c].dir /\ k.got = rows
    <2> DEFINE q == call[c]
    <2>1. rows \in SUBSET NAMES
        BY DEF RowsOf
    <2> HIDE DEF rows, q
    <2>2. q \in CallRecords
        BY <1>2 DEF q
    <2>3. LET n == [q EXCEPT !.st = "read", !.got = rows]
          IN  /\ n \in CallRecords /\ n.st = "read" /\ n.side = q.side
              /\ n.dir = q.dir /\ n.got = rows
        BY <2>1, <2>2 DEF CallRecords
    <2> QED BY <2>3 DEF q
<1>4. call' = [call EXCEPT ![c] = k] /\ UNCHANGED <<disk, pane, load, xfer, picked, doubt>>
    BY <1>1 DEF ListDir, Typed
<1> HIDE DEF rows, k
<1>5. WithAnswer(c, k)
    BY <1>3, <1>4 DEF WithAnswer
<1>6. /\ call' \in [CALLS -> CallRecords]
      /\ call'[c] = k /\ \A b \in CALLS : b # c => call'[b] = call[b]
      /\ \A b \in CALLS : call'[b].st = "op" => call[b].st = "op"
    BY <1>1, <1>5, AnswerKeeps
<1>7. Typed'
    BY <1>1, <1>4, <1>6 DEF Typed
<1>8. SelectionPicked' /\ FreeHasNoRow'
    BY <1>1, <1>4 DEF SelectionPicked, FreeHasNoRow
<1>9. Current(s)'
    <2> SUFFICES ASSUME ~doubt'[s]
                 PROVE  (OneCall(s) /\ ReadCurrent(s) /\ ShownCurrent(s))'
        BY DEF Current
    <2>1. OneCall(s) /\ ReadCurrent(s)
        BY <1>1, <1>2, <1>4 DEF Current
    <2>2. \A b \in CALLS : Awaits(b, s)' <=> Awaits(b, s)
        BY <1>2, <1>3, <1>6 DEF Awaits
    <2>3. OneCall(s)'
        BY <2>1, <2>2 DEF OneCall
    <2>4. Agrees(s, call[c].dir, call[c].got)'
        BY <1>3, <1>4, <1>6 DEF rows, RowsOf, Agrees
    <2>5. ASSUME NEW b \in CALLS, b # c, Awaits(b, s)'
          PROVE  FALSE
        BY <1>2, <1>6, <2>1, <2>5 DEF OneCall, Awaits
    <2>6. ReadCurrent(s)'
        BY <2>4, <2>5 DEF ReadCurrent, Awaits
    <2>7. InFlight(s)'
        BY <1>3, <1>6 DEF InFlight
    <2> QED BY <2>3, <2>6, <2>7 DEF ShownCurrent
<1>10. ASSUME NEW r \in Sides, r # s
       PROVE  Current(r)'
    BY <1>1, <1>4, <1>5, <1>10, AnswerElsewhere
<1> QED BY <1>6, <1>7, <1>8, <1>9, <1>10 DEF FilesInv

(* A call that fails leaves its pane in doubt, whatever it has done to the disk. *)
LEMMA FailureKeeps ==
    ASSUME FilesInv, NEW c \in CALLS, call' = [call EXCEPT ![c] = Idle],
           doubt' = [doubt EXCEPT ![call[c].side] = TRUE],
           disk' \in [Sides -> SUBSET Paths], DialogOnly(call[c].side),
           \A r \in Sides : r # call[c].side => disk'[r] = disk[r],
           UNCHANGED <<load, xfer, picked, scene>>
    PROVE  FilesInv' /\ \A b \in CALLS : call'[b].st = "op" => call[b].st = "op"
<1>1. Typed /\ SelectionPicked /\ FreeHasNoRow /\ \A r \in Sides : Current(r)
    BY DEF FilesInv
<1> PICK s \in Sides : s = call[c].side
    BY <1>1, FieldsTyped
<1>3. Idle \in CallRecords /\ Idle.st = "idle"
    BY AncestorPaths DEF Idle, CallRecords, Sides
<1>4. WithAnswer(c, Idle)
    BY <1>3 DEF WithAnswer
<1>5. /\ call' \in [CALLS -> CallRecords]
      /\ \A b \in CALLS : call'[b].st = "op" => call[b].st = "op"
    BY <1>1, <1>4, AnswerKeeps
<1>6. /\ doubt' \in [Sides -> BOOLEAN] /\ doubt'[s]
      /\ \A r \in Sides : r # s => doubt'[r] = doubt[r]
    BY <1>1 DEF Typed
<1>7. Typed'
    BY <1>1, <1>5, <1>6 DEF Typed, DialogOnly
<1>8. SelectionPicked' /\ FreeHasNoRow'
    BY <1>1, DialogKeepsSelection DEF FreeHasNoRow
<1>9. Current(s)'
    BY <1>6 DEF Current
<1>10. ASSUME NEW r \in Sides, r # s
       PROVE  Current(r)'
    BY <1>1, <1>4, <1>6, <1>10, AnswerElsewhere DEF DialogOnly
<1> QED BY <1>5, <1>7, <1>8, <1>9, <1>10 DEF FilesInv

(* A listing or a command fails. *)
LEMMA FailSteps ==
    ASSUME FilesInv, NEW c \in CALLS, ListDirFails(c) \/ OpFails(c), UNCHANGED scene
    PROVE  FilesInv' /\ \A b \in CALLS : call'[b].st = "op" => call[b].st = "op"
<1>1. Typed
    BY DEF FilesInv
<1> PICK s \in Sides : s = call[c].side
    BY <1>1, FieldsTyped
<1>2. CASE ListDirFails(c)
    <2>1. /\ call' = [call EXCEPT ![c] = Idle] /\ doubt' = [doubt EXCEPT ![call[c].side] = TRUE]
          /\ UNCHANGED <<disk, pane, load, xfer, picked>>
        BY <1>2 DEF ListDirFails
    <2>2. disk' \in [Sides -> SUBSET Paths] /\ DialogOnly(s)
        BY <1>1, <2>1, NoDialogWritten DEF Typed
    <2>3. DialogOnly(call[c].side)
        BY <2>2
    <2> QED BY <2>1, <2>2, <2>3, FailureKeeps
<1>3. CASE OpFails(c)
    <2>1. /\ call' = [call EXCEPT ![c] = Idle] /\ doubt' = [doubt EXCEPT ![call[c].side] = TRUE]
          /\ UNCHANGED <<load, xfer, picked>>
        BY <1>3 DEF OpFails
    <2>2. /\ disk' \in [Sides -> SUBSET Paths]
          /\ \A r \in Sides : r # s => disk'[r] = disk[r]
        <3>1. \E gone \in SUBSET Paths : disk' = [disk EXCEPT ![s] = @ \ gone]
            <4>1. CASE call[c].add = {}
                <5>1. PICK gone \in SUBSET call[c].del :
                         disk' = [disk EXCEPT ![s] = @ \ UNION {Below(s, x) : x \in gone}]
                    BY <1>3, <4>1 DEF OpFails
                <5>2. disk[s] \in SUBSET Paths
                    BY <1>1 DEF Typed
                <5>3. UNION {Below(s, x) : x \in gone} \in SUBSET Paths
                    BY <5>2 DEF Below
                <5> QED BY <5>1, <5>3
            <4>2. CASE call[c].add # {}
                <5>1. disk' = [disk EXCEPT ![s] = @ \ {}]
                    BY <1>1, <1>3, <4>2 DEF OpFails, Typed
                <5> QED BY <5>1
            <4> QED BY <4>1, <4>2
        <3> QED BY <1>1, <3>1 DEF Typed
    <2>3. DialogOnly(s)
        <3>1. \/ pane' = [pane EXCEPT ![s].dialog = NoDialog]
              \/ pane' = [pane EXCEPT ![s].dialog.busy = FALSE]
            BY <1>3 DEF OpFails
        <3> QED BY <1>1, <3>1, DialogWritten, DialogsMade
    <2>4. DialogOnly(call[c].side)
        BY <2>3
    <2> QED BY <2>1, <2>2, <2>4, FailureKeeps
<1> QED BY <1>2, <1>3

(* A command is done: only its own pane's directory changed, and the reload that
   follows is the one call the pane awaits. *)
LEMMA OpDoneStep ==
    ASSUME FilesInv, NEW c \in CALLS, OpDone(c), UNCHANGED scene
    PROVE  FilesInv' /\ \A b \in CALLS : call'[b].st = "op" => call[b].st = "op"
<1>1. Typed /\ SelectionPicked /\ FreeHasNoRow /\ \A r \in Sides : Current(r)
    BY DEF FilesInv
<1> PICK s \in Sides : s = call[c].side
    BY <1>1, FieldsTyped
<1> DEFINE k == [call[c] EXCEPT !.st = "list", !.del = {}, !.add = {}]
<1>2. call[c] \in CallRecords /\ call[c].st = "op" /\ call[c].add \in SUBSET Paths
    BY <1>1, FieldsTyped DEF OpDone
<1>3. k \in CallRecords /\ k.st = "list" /\ k.side = s
    <2> DEFINE q == call[c]
    <2> HIDE DEF q
    <2>1. q \in CallRecords
        BY <1>2 DEF q
    <2>2. LET n == [q EXCEPT !.st = "list", !.del = {}, !.add = {}]
          IN  n \in CallRecords /\ n.st = "list" /\ n.side = q.side
        BY <2>1 DEF CallRecords
    <2> QED BY <2>2 DEF q
<1>4. /\ call' = [call EXCEPT ![c] = k]
      /\ UNCHANGED <<load, xfer, picked, doubt>>
      /\ pane' = [pane EXCEPT ![s].dialog = NoDialog]
    BY <1>1 DEF OpDone, Typed
<1>5. /\ disk' \in [Sides -> SUBSET Paths]
      /\ \A r \in Sides : r # s => disk'[r] = disk[r]
    <2> DEFINE gone == UNION {Below(s, x) : x \in call[c].del}
    <2>1. disk' = [disk EXCEPT ![s] = (disk[s] \ gone) \cup call[c].add]
        BY DEF OpDone
    <2> HIDE DEF gone
    <2> QED BY <1>1, <1>2, <2>1 DEF Typed
<1> HIDE DEF k
<1>6. WithAnswer(c, k)
    BY <1>3, <1>4 DEF WithAnswer
<1>7. /\ call' \in [CALLS -> CallRecords]
      /\ call'[c] = k /\ \A b \in CALLS : b # c => call'[b] = call[b]
      /\ \A b \in CALLS : call'[b].st = "op" => call[b].st = "op"
    BY <1>1, <1>6, AnswerKeeps
<1>8. DialogOnly(s)
    BY <1>1, <1>4, DialogWritten, DialogsMade
<1>9. Typed'
    BY <1>1, <1>4, <1>5, <1>7, <1>8 DEF Typed, DialogOnly
<1>10. SelectionPicked' /\ FreeHasNoRow'
    BY <1>1, <1>4, <1>8, DialogKeepsSelection DEF FreeHasNoRow
<1>11. Current(s)'
    <2> SUFFICES ASSUME ~doubt'[s]
                 PROVE  (OneCall(s) /\ ReadCurrent(s) /\ ShownCurrent(s))'
        BY DEF Current
    <2>1. OneCall(s)
        BY <1>1, <1>4 DEF Current
    <2>2. \A b \in CALLS : Awaits(b, s)' <=> Awaits(b, s)
        BY <1>2, <1>3, <1>7 DEF Awaits
    <2>3. OneCall(s)'
        BY <2>1, <2>2 DEF OneCall
    <2>4. \A b \in CALLS : call'[b].side = s /\ call'[b].st = "read" => b = c
        BY <1>2, <1>7, <2>1 DEF OneCall, Awaits
    <2>5. ReadCurrent(s)'
        BY <1>3, <1>7, <2>4 DEF ReadCurrent
    <2>6. InFlight(s)'
        BY <1>3, <1>7 DEF InFlight
    <2> QED BY <2>3, <2>5, <2>6 DEF ShownCurrent
<1>12. ASSUME NEW r \in Sides, r # s
       PROVE  Current(r)'
    BY <1>1, <1>4, <1>5, <1>6, <1>8, <1>12, AnswerElsewhere DEF DialogOnly
<1> QED BY <1>7, <1>9, <1>10, <1>11, <1>12 DEF FilesInv

(* A listing is shown: unless something is in doubt it was the only call, and
   what it read is still what the directory holds. *)
LEMMA ListedStep ==
    ASSUME FilesInv, NEW c \in CALLS, Listed(c), UNCHANGED scene
    PROVE  FilesInv' /\ \A b \in CALLS : call'[b].st = "op" => call[b].st = "op"
<1>1. Typed /\ SelectionPicked /\ FreeHasNoRow /\ \A r \in Sides : Current(r)
    BY DEF FilesInv
<1> PICK s \in Sides : s = call[c].side
    BY <1>1, FieldsTyped
<1> DEFINE dir == call[c].dir  same == dir = pane[s].path
           sel == IF same THEN pane[s].selected ELSE {}
           old == IF same THEN picked[s] ELSE {}
<1>2. /\ call[c].st = "read" /\ dir \in Paths /\ call[c].got \in SUBSET NAMES
      /\ sel \in SUBSET NAMES /\ old \in SUBSET Paths
      /\ pane \in [Sides -> Panes]
    BY <1>1, FieldsTyped DEF Listed, Typed
<1>3. /\ pane' = [pane EXCEPT ![s].path = dir, ![s].entries = call[c].got, ![s].selected = sel]
      /\ picked' = [picked EXCEPT ![s] = old]
      /\ call' = [call EXCEPT ![c] = Idle]
      /\ UNCHANGED <<disk, load, xfer, doubt>>
    BY DEF Listed, Show
<1>4. /\ pane' \in [Sides -> Panes]
      /\ pane'[s].path = dir /\ pane'[s].entries = call[c].got /\ pane'[s].selected = sel
      /\ \A r \in Sides : r # s => pane'[r] = pane[r]
    <2> DEFINE rows == call[c].got
    <2>0. rows \in SUBSET NAMES /\ dir \in Paths /\ sel \in SUBSET NAMES
        BY <1>2
    <2> HIDE DEF sel, dir, rows
    <2>1. pane' = [pane EXCEPT ![s].path = dir, ![s].entries = rows, ![s].selected = sel]
        BY <1>3 DEF rows
    <2> DEFINE r == pane[s]
               q == [r EXCEPT !.path = dir, !.entries = rows, !.selected = sel]
    <2>2. pane' = [pane EXCEPT ![s] = q]
        BY <2>1
    <2>3. r \in Panes
        BY <1>2
    <2>4. q \in Panes /\ q.path = dir /\ q.entries = rows /\ q.selected = sel
        <3> HIDE DEF r
        <3> QED BY <2>0, <2>3 DEF Panes
    <2> HIDE DEF q
    <2>5. pane' \in [Sides -> Panes] /\ pane'[s] = q /\ \A b \in Sides : b # s => pane'[b] = pane[b]
        BY <1>2, <2>2, <2>4
    <2> QED BY <2>4, <2>5 DEF rows
<1>5. /\ picked' \in [Sides -> SUBSET Paths] /\ picked'[s] = old
      /\ \A r \in Sides : r # s => picked'[r] = picked[r]
    <2> HIDE DEF old
    <2> QED BY <1>1, <1>2, <1>3 DEF Typed
<1>6. Idle \in CallRecords /\ Idle.st = "idle"
    BY AncestorPaths DEF Idle, CallRecords, Sides
<1>7. WithAnswer(c, Idle)
    BY <1>3, <1>6 DEF WithAnswer
<1>8. /\ call' \in [CALLS -> CallRecords]
      /\ call'[c] = Idle /\ \A b \in CALLS : b # c => call'[b] = call[b]
      /\ \A b \in CALLS : call'[b].st = "op" => call[b].st = "op"
    BY <1>1, <1>7, AnswerKeeps
<1>9. Typed'
    BY <1>1, <1>3, <1>4, <1>5, <1>8 DEF Typed
<1>10. FreeHasNoRow'
    BY <1>1, <1>3 DEF FreeHasNoRow
<1>11. SelectionPicked'
    <2>1. \A n \in sel : joinPath(dir, n) \in old
        BY <1>1 DEF SelectionPicked
    <2> HIDE DEF sel, dir, old
    <2>2. \A r \in Sides : r # s => pane'[r] = pane[r] /\ picked'[r] = picked[r]
        BY <1>4, <1>5
    <2>3. \A n \in pane'[s].selected : joinPath(pane'[s].path, n) \in picked'[s]
        BY <1>4, <1>5, <2>1
    <2>4. ASSUME NEW r \in Sides
          PROVE  \A n \in pane'[r].selected : joinPath(pane'[r].path, n) \in picked'[r]
        BY <1>1, <2>2, <2>3 DEF SelectionPicked
    <2> QED BY <2>4 DEF SelectionPicked
<1>12. Current(s)'
    <2> SUFFICES ASSUME ~doubt'[s]
                 PROVE  (OneCall(s) /\ ReadCurrent(s) /\ ShownCurrent(s))'
        BY DEF Current
    <2>1. OneCall(s) /\ ReadCurrent(s)
        BY <1>1, <1>3 DEF Current
    <2>2. \A b \in CALLS : ~Awaits(b, s)'
        BY <1>2, <1>6, <1>8, <2>1 DEF OneCall, Awaits
    <2>3. OneCall(s)'
        BY <2>2 DEF OneCall
    <2>4. ReadCurrent(s)'
        BY <2>2 DEF ReadCurrent, Awaits
    <2>5. dir # <<>> => Agrees(s, dir, call[c].got)
        BY <1>2, <2>1 DEF ReadCurrent
    <2>6. pane'[s].path # <<>> => Agrees(s, pane[s].path, pane[s].entries)'
        <3> HIDE DEF dir
        <3> QED BY <1>3, <1>4, <2>5 DEF Agrees, OnItsWay, Dest
    <2>7. ShownCurrent(s)'
        BY <2>6 DEF ShownCurrent
    <2> QED BY <2>3, <2>4, <2>7
<1>13. ASSUME NEW r \in Sides, r # s
       PROVE  Current(r)'
    BY <1>1, <1>3, <1>4, <1>7, <1>13, AnswerElsewhere
<1> QED BY <1>8, <1>9, <1>10, <1>11, <1>12, <1>13 DEF FilesInv

----------------------------------------------------------------------------
(* Files: transfers *)

(* Transfer t becomes x, no other one changes, and x is a good one. *)
Becomes(t, x) ==
    /\ xfer' = [xfer EXCEPT ![t] = x]
    /\ x \in Xfers /\ x.st # "free"
    /\ x.to = xfer[t].to /\ x.src = xfer[t].src
    /\ x.row \in {"none", "running", x.st}
    /\ x.flag \/ x.heard => x.st = "running"

(* Then all transfers are good ones. *)
LEMMA BecomesKeeps ==
    ASSUME Typed, FreeHasNoRow, NEW t \in XFERS, NEW x, Becomes(t, x)
    PROVE  /\ xfer' \in [XFERS -> Xfers]
           /\ xfer'[t] = x /\ \A u \in XFERS : u # t => xfer'[u] = xfer[u]
           /\ \A u \in XFERS :
                 /\ xfer'[u].row \in {"none", "running", xfer'[u].st}
                 /\ xfer'[u].flag \/ xfer'[u].heard => xfer'[u].st = "running"
                 /\ xfer'[u].st = "free" => xfer'[u].row = "none"
<1>1. xfer \in [XFERS -> Xfers] /\ x \in Xfers /\ xfer' = [xfer EXCEPT ![t] = x]
    BY DEF Typed, Becomes
<1>2. xfer'[t] = x /\ \A u \in XFERS : u # t => xfer'[u] = xfer[u]
    BY <1>1
<1>3. xfer' \in [XFERS -> Xfers]
    BY <1>1
<1>4. ASSUME NEW u \in XFERS
      PROVE  /\ xfer'[u].row \in {"none", "running", xfer'[u].st}
             /\ xfer'[u].flag \/ xfer'[u].heard => xfer'[u].st = "running"
             /\ xfer'[u].st = "free" => xfer'[u].row = "none"
    <2>1. CASE u = t
        BY <1>2, <2>1 DEF Becomes
    <2>2. CASE u # t
        BY <1>2, <2>2 DEF Typed, FreeHasNoRow
    <2> QED BY <2>1, <2>2
<1> QED BY <1>2, <1>3, <1>4

(* What each way to write a transfer makes of it. *)
LEMMA XferWrites ==
    ASSUME NEW x \in Xfers
    PROVE  /\ LET y == [x EXCEPT !.row = "running"]
              IN  /\ y \in Xfers /\ y.st = x.st /\ y.to = x.to /\ y.src = x.src
                  /\ y.row = "running" /\ y.flag = x.flag /\ y.heard = x.heard
           /\ LET y == [x EXCEPT !.heard = TRUE]
              IN  /\ y \in Xfers /\ y.st = x.st /\ y.to = x.to /\ y.src = x.src /\ y.row = x.row
           /\ LET y == [x EXCEPT !.flag = TRUE]
              IN  /\ y \in Xfers /\ y.st = x.st /\ y.to = x.to /\ y.src = x.src /\ y.row = x.row
BY DEF Xfers

(* The id is answered, the listeners are registered, the user cancels. *)
LEMMA EarlySteps ==
    ASSUME FilesInv, NEW t \in XFERS, Registered(t) \/ Listening(t) \/ Cancel(t), UNCHANGED scene
    PROVE  FilesInv'
<1>1. Typed /\ FreeHasNoRow
    BY DEF FilesInv
<1>2. xfer \in [XFERS -> Xfers] /\ xfer[t] \in Xfers
    BY <1>1 DEF Typed
<1>3. UNCHANGED <<disk, pane, call, load, picked, doubt>> /\ load' \in Loads
    BY <1>1 DEF Registered, Listening, Cancel, Typed
<1>4. \E x : /\ Becomes(t, x) /\ x.st = xfer[t].st
             /\ xfer[t].row = "running" => x.row = "running"
             /\ xfer[t].st = "done" => x.row # "done"
    <2>1. CASE Registered(t)
        <3> DEFINE x == [xfer[t] EXCEPT !.row = "running"]
        <3>1. xfer[t].st # "free" /\ xfer' = [xfer EXCEPT ![t] = x]
            BY <2>1 DEF Registered
        <3>2. /\ x \in Xfers /\ x.st = xfer[t].st /\ x.to = xfer[t].to /\ x.src = xfer[t].src
              /\ x.row = "running" /\ x.flag = xfer[t].flag /\ x.heard = xfer[t].heard
            BY <1>2, XferWrites
        <3> HIDE DEF x
        <3>3. Becomes(t, x)
            BY <1>1, <3>1, <3>2 DEF Becomes, Typed
        <3> QED BY <3>2, <3>3
    <2>2. CASE Listening(t)
        <3> DEFINE x == [xfer[t] EXCEPT !.heard = TRUE]
        <3>1. xfer[t].st = "running" /\ xfer' = [xfer EXCEPT ![t] = x]
            BY <2>2 DEF Listening
        <3>2. /\ x \in Xfers /\ x.st = xfer[t].st /\ x.to = xfer[t].to /\ x.src = xfer[t].src
              /\ x.row = xfer[t].row
            BY <1>2, XferWrites
        <3> HIDE DEF x
        <3>3. Becomes(t, x)
            BY <1>1, <3>1, <3>2 DEF Becomes, Typed
        <3> QED BY <3>1, <3>2, <3>3
    <2>3. CASE Cancel(t)
        <3> DEFINE x == [xfer[t] EXCEPT !.flag = TRUE]
        <3>1. xfer[t].st = "running" /\ xfer' = [xfer EXCEPT ![t] = x]
            BY <2>3 DEF Cancel
        <3>2. /\ x \in Xfers /\ x.st = xfer[t].st /\ x.to = xfer[t].to /\ x.src = xfer[t].src
              /\ x.row = xfer[t].row
            BY <1>2, XferWrites
        <3> HIDE DEF x
        <3>3. Becomes(t, x)
            BY <1>1, <3>1, <3>2 DEF Becomes, Typed
        <3> QED BY <3>1, <3>2, <3>3
    <2> QED BY <2>1, <2>2, <2>3
<1> PICK x : /\ Becomes(t, x) /\ x.st = xfer[t].st
             /\ xfer[t].row = "running" => x.row = "running"
             /\ xfer[t].st = "done" => x.row # "done"
    BY <1>4
<1>5. /\ xfer' \in [XFERS -> Xfers]
      /\ xfer'[t] = x /\ \A u \in XFERS : u # t => xfer'[u] = xfer[u]
      /\ \A u \in XFERS :
            /\ xfer'[u].row \in {"none", "running", xfer'[u].st}
            /\ xfer'[u].flag \/ xfer'[u].heard => xfer'[u].st = "running"
            /\ xfer'[u].st = "free" => xfer'[u].row = "none"
    BY <1>1, BecomesKeeps
<1>6. \A u \in XFERS : xfer[u].st = "done" /\ xfer[u].row # "done" =>
         /\ xfer'[u].st = "done" /\ xfer'[u].row # "done"
         /\ xfer'[u].to = xfer[u].to /\ xfer'[u].src = xfer[u].src
    BY <1>5 DEF Becomes
<1>7. FilesInv'
    BY <1>3, <1>5, <1>6, TransfersKeep
<1> QED BY <1>7

(* "Effacer terminés" frees the slots of rows that have ended. *)
LEMMA ClearStep ==
    ASSUME FilesInv, ClearCompleted, UNCHANGED scene
    PROVE  FilesInv'
<1>1. Typed /\ FreeHasNoRow
    BY DEF FilesInv
<1>2. /\ xfer' = [t \in XFERS |-> IF xfer[t].row \in {"none", "running"} THEN xfer[t] ELSE Free]
      /\ UNCHANGED <<disk, pane, call, load, picked, doubt>>
    BY DEF ClearCompleted
<1>3. Free \in Xfers /\ Free.st = "free" /\ Free.row = "none" /\ ~Free.flag /\ ~Free.heard
    BY AncestorPaths DEF Free, Xfers, Sides
<1>4. ASSUME NEW t \in XFERS
      PROVE  \/ xfer[t].row \in {"none", "running"} /\ xfer'[t] = xfer[t]
             \/ xfer[t].row \notin {"none", "running"} /\ xfer'[t] = Free
    BY <1>2
<1>5. xfer' \in [XFERS -> Xfers]
    BY <1>1, <1>2, <1>3 DEF Typed
<1>6. ASSUME NEW t \in XFERS
      PROVE  /\ xfer'[t].row \in {"none", "running", xfer'[t].st}
             /\ xfer'[t].flag \/ xfer'[t].heard => xfer'[t].st = "running"
             /\ xfer'[t].st = "free" => xfer'[t].row = "none"
             /\ xfer[t].st = "done" /\ xfer[t].row # "done" =>
                   /\ xfer'[t].st = "done" /\ xfer'[t].row # "done"
                   /\ xfer'[t].to = xfer[t].to /\ xfer'[t].src = xfer[t].src
             /\ xfer[t].row = "running" => xfer'[t].row = "running"
    <2>1. CASE xfer[t].row \in {"none", "running"} /\ xfer'[t] = xfer[t]
        BY <1>1, <2>1 DEF Typed, FreeHasNoRow
    <2>2. CASE xfer[t].row \notin {"none", "running"} /\ xfer'[t] = Free
        BY <1>1, <1>3, <2>2 DEF Typed
    <2> QED BY <1>4, <2>1, <2>2
<1>7. FilesInv'
    BY <1>1, <1>2, <1>5, <1>6, TransfersKeep DEF Typed
<1> QED BY <1>7

(* Where only the disk and transfers change, lists that agree all the same are
   current. *)
LEMMA AgreeingStays ==
    ASSUME NEW s \in Sides, ReadCurrent(s), ShownCurrent(s), UNCHANGED <<pane, call>>,
           \A dir, rows : Agrees(s, dir, rows) => Agrees(s, dir, rows)'
    PROVE  ReadCurrent(s)' /\ ShownCurrent(s)'
<1>1. ReadCurrent(s)'
    BY DEF ReadCurrent, Agrees
<1>2. ShownCurrent(s)'
    BY DEF ShownCurrent, InFlight, Agrees
<1> QED BY <1>1, <1>2

(* The worker ends: a file that arrives where nothing is in doubt belongs to a
   transfer that will be told. *)
LEMMA EndsStep ==
    ASSUME FilesInv, NEW t \in XFERS, Ends(t), UNCHANGED scene
    PROVE  FilesInv'
<1>1. Typed /\ FreeHasNoRow /\ SelectionPicked /\ \A r \in Sides : Current(r)
    BY DEF FilesInv
<1> PICK s \in Sides : s = Dest(t)
    BY <1>1, FieldsTyped
<1> PICK end \in {"done", "error"} \cup (IF xfer[t].flag THEN {"cancelled"} ELSE {}) :
       /\ xfer' = [xfer EXCEPT ![t].st = IF xfer[t].heard THEN end ELSE "lost",
                               ![t].heard = FALSE, ![t].flag = FALSE]
       /\ \/ /\ xfer[t].to \in PLACES[s]
             /\ disk' = [disk EXCEPT ![s] = @ \cup {xfer[t].to}]
             /\ doubt' = [doubt EXCEPT ![s] = @ \/ end # "done" \/ ~xfer[t].heard]
          \/ end # "done" /\ UNCHANGED <<disk, doubt>>
    BY DEF Ends
<1> DEFINE st == IF xfer[t].heard THEN end ELSE "lost"
           x == [xfer[t] EXCEPT !.st = st, !.heard = FALSE, !.flag = FALSE]
<1>2. xfer[t] \in Xfers /\ xfer[t].st = "running" /\ xfer[t].to \in Paths
    BY <1>1, FieldsTyped DEF Ends
<1>3. st \in {"lost", "done", "error", "cancelled"}
    OBVIOUS
<1>4. /\ x \in Xfers /\ x.st = st /\ ~x.heard /\ ~x.flag
      /\ x.to = xfer[t].to /\ x.src = xfer[t].src /\ x.row = xfer[t].row
    <2> DEFINE y == xfer[t]
    <2> HIDE DEF st, y
    <2>1. y \in Xfers
        BY <1>2 DEF y
    <2>2. LET z == [y EXCEPT !.st = st, !.heard = FALSE, !.flag = FALSE]
          IN  /\ z \in Xfers /\ z.st = st /\ ~z.heard /\ ~z.flag
              /\ z.to = y.to /\ z.src = y.src /\ z.row = y.row
        BY <1>3, <2>1 DEF Xfers
    <2> QED BY <2>2 DEF y
<1>5. xfer[t].row \in {"none", "running"}
    BY <1>1, <1>2 DEF Typed, Xfers
<1>6. xfer' = [xfer EXCEPT ![t] = x]
    BY <1>1 DEF Typed
<1>7. UNCHANGED <<pane, call, load, picked>>
    BY DEF Ends
<1> HIDE DEF x
<1>8. Becomes(t, x)
    BY <1>3, <1>4, <1>5, <1>6 DEF Becomes
<1>9. /\ xfer' \in [XFERS -> Xfers]
      /\ xfer'[t] = x /\ \A u \in XFERS : u # t => xfer'[u] = xfer[u]
      /\ \A u \in XFERS :
            /\ xfer'[u].row \in {"none", "running", xfer'[u].st}
            /\ xfer'[u].flag \/ xfer'[u].heard => xfer'[u].st = "running"
            /\ xfer'[u].st = "free" => xfer'[u].row = "none"
    BY <1>1, <1>8, BecomesKeeps
<1>10. /\ disk' \in [Sides -> SUBSET Paths] /\ doubt' \in [Sides -> BOOLEAN]
       /\ \A r \in Sides : r # s => disk'[r] = disk[r] /\ doubt'[r] = doubt[r]
       /\ \/ disk'[s] = disk[s] /\ doubt'[s] = doubt[s]
          \/ /\ disk'[s] = disk[s] \cup {xfer[t].to}
             /\ ~doubt'[s] => ~doubt[s] /\ end = "done" /\ xfer[t].heard
    <2> DEFINE b == doubt[s] \/ end # "done" \/ ~xfer[t].heard
    <2>1. b \in BOOLEAN
        OBVIOUS
    <2>2. ~b => ~doubt[s] /\ end = "done" /\ xfer[t].heard
        OBVIOUS
    <2>3. \/ /\ disk' = [disk EXCEPT ![s] = @ \cup {xfer[t].to}]
             /\ doubt' = [doubt EXCEPT ![s] = b]
          \/ UNCHANGED <<disk, doubt>>
        OBVIOUS
    <2> HIDE DEF b
    <2> QED BY <1>1, <1>2, <2>1, <2>2, <2>3 DEF Typed
<1>11. Typed'
    BY <1>1, <1>7, <1>9, <1>10 DEF Typed
<1>12. SelectionPicked' /\ FreeHasNoRow'
    BY <1>1, <1>7, <1>9 DEF SelectionPicked, FreeHasNoRow
<1>13. \A r \in Sides : \A u \in XFERS :
          OnItsWay(u, r) => OnItsWay(u, r)' /\ xfer'[u].to = xfer[u].to
    BY <1>2, <1>9 DEF OnItsWay, Dest
<1>14. ASSUME NEW r \in Sides, disk'[r] = disk[r], doubt'[r] = doubt[r]
       PROVE  Current(r)'
    <2>1. Quiet(r)
        BY <1>7, <1>13, <1>14 DEF Quiet
    <2> QED BY <1>1, <2>1, QuietStaysCurrent
<1>15. ASSUME disk'[s] = disk[s] \cup {xfer[t].to},
              ~doubt'[s] => ~doubt[s] /\ end = "done" /\ xfer[t].heard
       PROVE  Current(s)'
    <2> SUFFICES ASSUME ~doubt'[s]
                 PROVE  (OneCall(s) /\ ReadCurrent(s) /\ ShownCurrent(s))'
        BY DEF Current
    <2>1. OneCall(s) /\ ReadCurrent(s) /\ ShownCurrent(s) /\ st = "done"
        BY <1>1, <1>15 DEF Current
    <2>2. OneCall(s)'
        BY <1>7, <2>1 DEF OneCall, Awaits
    <2>3. OnItsWay(t, s)' /\ xfer'[t].to = xfer[t].to
        BY <1>4, <1>5, <1>9, <2>1 DEF OnItsWay, Dest
    <2>4. ASSUME NEW dir, NEW rows, Agrees(s, dir, rows), NEW n \in NAMES
          PROVE  LET y == joinPath(dir, n) IN
                 \/ n \in rows <=> y \in disk'[s]
                 \/ \E u \in XFERS : OnItsWay(u, s)' /\ xfer'[u].to = y
        <3> DEFINE y == joinPath(dir, n)
        <3>1. CASE y = xfer[t].to
            BY <2>3, <3>1
        <3>2. CASE y # xfer[t].to
            <4>1. y \in disk'[s] <=> y \in disk[s]
                BY <1>15, <3>2
            <4>2. \/ n \in rows <=> y \in disk[s]
                  \/ \E u \in XFERS : OnItsWay(u, s) /\ xfer[u].to = y
                BY <2>4 DEF Agrees
            <4> HIDE DEF y
            <4>3. \/ n \in rows <=> y \in disk'[s]
                  \/ \E u \in XFERS : OnItsWay(u, s)' /\ xfer'[u].to = y
                BY <1>13, <4>1, <4>2
            <4> QED BY <4>3 DEF y
        <3> QED BY <3>1, <3>2
    <2>5. \A dir, rows : Agrees(s, dir, rows) => Agrees(s, dir, rows)'
        BY <2>4 DEF Agrees
    <2> QED BY <1>7, <2>1, <2>2, <2>5, AgreeingStays
<1>16. \A r \in Sides : Current(r)'
    BY <1>10, <1>14, <1>15
<1> QED BY <1>11, <1>12, <1>16 DEF FilesInv

(* transfer-done arrives: the pane that shows the directory reloads, and to any
   other directory the file is nothing. *)
LEMMA DoneStep ==
    ASSUME FilesInv, NEW t \in XFERS, Done(t), UNCHANGED scene
    PROVE  /\ FilesInv'
           /\ \A c \in CALLS : call'[c].st = "op" => call[c].st = "op"
<1>1. Typed /\ FreeHasNoRow /\ SelectionPicked /\ \A r \in Sides : Current(r)
    BY DEF FilesInv
<1> PICK s \in Sides : s = Dest(t)
    BY <1>1, FieldsTyped
<1> DEFINE x == [xfer[t] EXCEPT !.row = xfer[t].st]
<1>2. /\ xfer[t] \in Xfers /\ xfer[t].st \in {"done", "error", "cancelled"}
      /\ xfer[t].row = "running" /\ xfer[t].to \in Paths
    BY <1>1, FieldsTyped DEF Done
<1>3. /\ x \in Xfers /\ x.st = xfer[t].st /\ x.row = xfer[t].st
      /\ x.to = xfer[t].to /\ x.src = xfer[t].src
      /\ x.flag = xfer[t].flag /\ x.heard = xfer[t].heard
    <2> DEFINE y == xfer[t]
    <2> HIDE DEF y
    <2>1. y \in Xfers /\ y.st \in {"done", "error", "cancelled"}
        BY <1>2 DEF y
    <2>2. LET z == [y EXCEPT !.row = y.st]
          IN  /\ z \in Xfers /\ z.st = y.st /\ z.row = y.st
              /\ z.to = y.to /\ z.src = y.src /\ z.flag = y.flag /\ z.heard = y.heard
        BY <2>1 DEF Xfers
    <2> QED BY <2>2 DEF y
<1>4. xfer' = [xfer EXCEPT ![t] = x] /\ UNCHANGED <<disk, pane, load, picked>>
    BY <1>1 DEF Done, Typed
<1> HIDE DEF x
<1>5. Becomes(t, x)
    BY <1>1, <1>2, <1>3, <1>4 DEF Becomes, Typed
<1>6. /\ xfer' \in [XFERS -> Xfers]
      /\ xfer'[t] = x /\ \A u \in XFERS : u # t => xfer'[u] = xfer[u]
      /\ \A u \in XFERS :
            /\ xfer'[u].row \in {"none", "running", xfer'[u].st}
            /\ xfer'[u].flag \/ xfer'[u].heard => xfer'[u].st = "running"
            /\ xfer'[u].st = "free" => xfer'[u].row = "none"
    BY <1>1, <1>5, BecomesKeeps
<1>7. SelectionPicked' /\ FreeHasNoRow'
    BY <1>1, <1>4, <1>6 DEF SelectionPicked, FreeHasNoRow
<1>9. \A r \in Sides : \A u \in XFERS :
         OnItsWay(u, r) /\ u # t => OnItsWay(u, r)' /\ xfer'[u].to = xfer[u].to
    BY <1>6 DEF OnItsWay, Dest
<1>10. \A r \in Sides : r # s => ~OnItsWay(t, r)
    BY DEF OnItsWay
<1>11. CASE xfer[t].st = "done" /\ pane[s].path = parentOf(xfer[t].to)
    <2>1. Invoke(s, "list", pane[s].path, {}, {})
        BY <1>11 DEF Done
    <2>2. pane[s].path \in Paths
        BY <1>1, FieldsTyped
    <2>3. PICK c \in CALLS : \E k \in CallRecords : Invoked(s, c, k) /\ k.st = "list"
        BY <2>1, <2>2, InvokeMakes
    <2>4. PICK k \in CallRecords : Invoked(s, c, k) /\ k.st = "list"
        BY <2>3
    <2>5. /\ call' \in [CALLS -> CallRecords]
          /\ \A b \in CALLS : call'[b].st = "op" => call[b].st = "op"
        BY <1>1, <2>4 DEF Invoked, Typed
    <2>6. doubt' \in [Sides -> BOOLEAN]
        <3> DEFINE b == InFlight(s)
        <3>1. b \in BOOLEAN
            BY DEF InFlight
        <3>2. doubt' = [doubt EXCEPT ![s] = b]
            BY <2>4 DEF Invoked
        <3> HIDE DEF b
        <3> QED BY <1>1, <3>1, <3>2 DEF Typed
    <2>7. Typed'
        BY <1>1, <1>4, <1>6, <2>5, <2>6 DEF Typed
    <2>8. Current(s)'
        BY <1>1, <2>4, InvokedStaysCurrent
    <2>9. ASSUME NEW r \in Sides, r # s
          PROVE  Current(r)'
        <3>1. Quiet(r)
            BY <1>1, <1>4, <1>9, <1>10, <2>4, <2>9, InvokedElsewhere DEF Quiet
        <3> QED BY <1>1, <3>1, QuietStaysCurrent
    <2> QED BY <1>7, <2>5, <2>7, <2>8, <2>9 DEF FilesInv
<1>12. CASE ~(xfer[t].st = "done" /\ pane[s].path = parentOf(xfer[t].to))
    <2>1. /\ UNCHANGED call
          /\ doubt' = [doubt EXCEPT ![s] = doubt[s] \/
                           (xfer[t].st = "done" /\ ReadEarlier(s, parentOf(xfer[t].to)))]
        BY <1>1, <1>12 DEF Done, Typed
    <2>a. /\ doubt' \in [Sides -> BOOLEAN]
          /\ \A r \in Sides : r # s \/ xfer[t].st # "done" => doubt'[r] = doubt[r]
          /\ ~doubt'[s] /\ xfer[t].st = "done"
               => ~doubt[s] /\ ~ReadEarlier(s, parentOf(xfer[t].to))
        <3> DEFINE b == doubt[s] \/ (xfer[t].st = "done" /\ ReadEarlier(s, parentOf(xfer[t].to)))
        <3>1. b \in BOOLEAN
            BY <1>1 DEF Typed
        <3>2. /\ xfer[t].st # "done" => b = doubt[s]
              /\ ~b /\ xfer[t].st = "done"
                   => ~doubt[s] /\ ~ReadEarlier(s, parentOf(xfer[t].to))
            BY <1>1 DEF Typed
        <3>3. doubt' = [doubt EXCEPT ![s] = b]
            BY <2>1
        <3> HIDE DEF b
        <3> QED BY <1>1, <3>1, <3>2, <3>3 DEF Typed
    <2>2. Typed'
        BY <1>1, <1>4, <1>6, <2>1, <2>a DEF Typed
    <2>3. ASSUME NEW r \in Sides, r # s \/ xfer[t].st # "done"
          PROVE  Current(r)'
        <3>1. ~OnItsWay(t, r)
            BY <1>10, <2>3 DEF OnItsWay
        <3>2. Quiet(r)
            BY <1>4, <1>9, <2>1, <2>3, <2>a, <3>1 DEF Quiet
        <3> QED BY <1>1, <3>2, QuietStaysCurrent
    <2>4. ASSUME xfer[t].st = "done", ~doubt'[s]
          PROVE  (OneCall(s) /\ ReadCurrent(s) /\ ShownCurrent(s))'
        <3>1. OneCall(s) /\ ReadCurrent(s) /\ ShownCurrent(s)
            BY <1>1, <2>4, <2>a DEF Current
        <3>2. OneCall(s)'
            BY <2>1, <3>1 DEF OneCall, Awaits
        <3>3. ASSUME NEW dir \in Paths, dir # <<>>, dir # parentOf(xfer[t].to),
                     NEW rows, Agrees(s, dir, rows), NEW n \in NAMES
              PROVE  LET y == joinPath(dir, n) IN
                     \/ n \in rows <=> y \in disk[s]
                     \/ \E u \in XFERS : OnItsWay(u, s)' /\ xfer'[u].to = y
            <4> DEFINE y == joinPath(dir, n)
            <4>1. parentOf(y) = dir
                BY <3>3, JoinPath
            <4>2. xfer[t].to # y
                BY <3>3, <4>1
            <4>3. \/ n \in rows <=> y \in disk[s]
                  \/ \E u \in XFERS : OnItsWay(u, s) /\ xfer[u].to = y
                BY <3>3 DEF Agrees
            <4> HIDE DEF y
            <4>4. \/ n \in rows <=> y \in disk[s]
                  \/ \E u \in XFERS : OnItsWay(u, s)' /\ xfer'[u].to = y
                BY <1>9, <4>2, <4>3
            <4> QED BY <4>4 DEF y
        <3>4. \A dir \in Paths : \A rows :
                 dir # <<>> /\ dir # parentOf(xfer[t].to) /\ Agrees(s, dir, rows)
                   => Agrees(s, dir, rows)'
            BY <1>4, <3>3 DEF Agrees
        <3>5. ReadCurrent(s)'
            <4> SUFFICES ASSUME NEW c \in CALLS, call[c].side = s, call[c].st = "read",
                                call[c].dir # <<>>
                         PROVE  Agrees(s, call[c].dir, call[c].got)'
                BY <2>1 DEF ReadCurrent
            <4>1. call[c].dir \in Paths
                BY <1>1, FieldsTyped
            <4>2. call[c].dir # parentOf(xfer[t].to)
                BY <2>4, <2>a DEF ReadEarlier
            <4>3. Agrees(s, call[c].dir, call[c].got)
                BY <3>1 DEF ReadCurrent
            <4> QED BY <2>1, <3>4, <4>1, <4>2, <4>3 DEF Agrees
        <3>6. pane[s].path \in Paths
            BY <1>1, FieldsTyped
        <3>7. ShownCurrent(s)'
            BY <1>4, <1>12, <2>1, <2>4, <3>1, <3>4, <3>6 DEF ShownCurrent, InFlight, Agrees
        <3> QED BY <3>2, <3>5, <3>7
    <2>5. Current(s)'
        BY <2>3, <2>4 DEF Current
    <2>6. \A r \in Sides : Current(r)'
        BY <2>3, <2>5
    <2> QED BY <1>7, <2>1, <2>2, <2>6 DEF FilesInv
<1> QED BY <1>11, <1>12

----------------------------------------------------------------------------
(* Files: the theorems *)

(* At the start both panes are empty and in doubt. *)
LEMMA FilesStarts == FilesInit => FilesInv
<1> SUFFICES ASSUME FilesInit
             PROVE  FilesInv
    OBVIOUS
<1>1. pane \in [Sides -> Panes] /\ picked \in [Sides -> SUBSET Paths]
    <2>1. [path |-> <<>>, entries |-> {}, selected |-> {}, dialog |-> NoDialog] \in Panes
        BY AncestorPaths, DialogsMade DEF Panes
    <2> QED BY <2>1 DEF FilesInit
<1>2. call \in [CALLS -> CallRecords]
    <2>1. Idle \in CallRecords
        BY AncestorPaths DEF Idle, CallRecords, Sides
    <2> QED BY <2>1 DEF FilesInit
<1>3. Free \in Xfers /\ Free.st = "free" /\ Free.row = "none" /\ ~Free.flag /\ ~Free.heard
    BY AncestorPaths DEF Free, Xfers, Sides
<1>4. xfer = [t \in XFERS |-> Free]
    BY DEF FilesInit
<1>5. disk \in [Sides -> SUBSET Paths]
    <2>1. DISK = [s \in Sides |-> DISK[s]]
        BY FilesAssumption
    <2> QED BY <2>1, AncestorPaths DEF FilesInit
<1>6. load \in Loads /\ scene \in SCENES /\ doubt = [s \in Sides |-> TRUE]
    BY DEF FilesInit, Loads
<1>7. Typed
    BY <1>1, <1>2, <1>3, <1>4, <1>5, <1>6 DEF Typed
<1>8. FreeHasNoRow
    BY <1>3, <1>4 DEF FreeHasNoRow
<1>9. SelectionPicked
    BY DEF FilesInit, SelectionPicked
<1>10. \A s \in Sides : Current(s)
    BY <1>6 DEF Current
<1> QED BY <1>7, <1>8, <1>9, <1>10 DEF FilesInv

(* What ActsOnPicked says of a step. *)
Picks ==
    /\ \A c \in CALLS : call[c].st # "op" /\ call'[c].st = "op" /\ call'[c].add = {}
                           => call'[c].del \subseteq picked[call'[c].side]
    /\ load' # load /\ load' # Nothing
         => \A n \in load'.names : joinPath(load'.dir, n) \in picked'[load'.side]

(* A step that starts no command and takes nothing picks nothing. *)
LEMMA NothingPicked ==
    ASSUME \A c \in CALLS : call'[c].st = "op" => call[c].st = "op",
           load' = load \/ load' = Nothing
    PROVE  Picks
BY DEF Picks

(* Every step keeps the invariant, and acts on what was picked. *)
LEMMA FilesStep == FilesInv /\ [FilesNext]_fvars => FilesInv' /\ Picks
<1> SUFFICES ASSUME FilesInv, [FilesNext]_fvars
             PROVE  FilesInv' /\ Picks
    OBVIOUS
<1>1. ASSUME NEW s \in Sides, PaneStep(s), UNCHANGED scene
      PROVE  FilesInv' /\ Picks
    <2>1. CASE Navigate(s)
        <3>1. FilesInv' /\ \A c \in CALLS : call'[c].st = "op" => call[c].st = "op"
            BY <1>1, <2>1, NavigateStep
        <3>2. UNCHANGED <<load, xfer>>
            BY <2>1 DEF Navigate
        <3> QED BY <3>1, <3>2, NothingPicked
    <2>2. CASE Select(s)
        <3>1. UNCHANGED <<call, load, xfer>>
            BY <2>2 DEF Select
        <3> QED BY <1>1, <2>2, <3>1, SelectStep, NothingPicked
    <2>3. CASE OpenRowDialog(s)
        <3>1. UNCHANGED <<call, load, xfer>>
            BY <2>3 DEF OpenRowDialog
        <3> QED BY <1>1, <2>3, <3>1, OpenRowDialogStep, NothingPicked
    <2>4. CASE OpenNewDialog(s) \/ Dismiss(s)
        <3>1. UNCHANGED <<call, load, xfer>>
            BY <2>4 DEF OpenNewDialog, Dismiss
        <3> QED BY <1>1, <2>4, <3>1, DialogSteps, NothingPicked
    <2>5. CASE Submit(s)
        <3>1. UNCHANGED <<load, xfer>>
            BY <2>5 DEF Submit
        <3> QED BY <1>1, <2>5, <3>1, SubmitStep DEF Picks
    <2>6. CASE ConfirmDelete(s)
        <3>1. UNCHANGED <<load, xfer>>
            BY <2>6 DEF ConfirmDelete
        <3> QED BY <1>1, <2>6, <3>1, ConfirmDeleteStep DEF Picks
    <2>7. CASE Take(s)
        <3>1. UNCHANGED <<call, xfer>>
            BY <2>7 DEF Take
        <3> QED BY <1>1, <2>7, <3>1, TakeStep DEF Picks
    <2>8. CASE Give(s)
        <3>1. call' = call
            BY <2>8 DEF Give
        <3> QED BY <1>1, <2>8, <3>1, GiveStep, NothingPicked
    <2> QED BY <1>1, <2>1, <2>2, <2>3, <2>4, <2>5, <2>6, <2>7, <2>8 DEF PaneStep
<1>2. ASSUME NEW c \in CALLS, CallStep(c), UNCHANGED scene
      PROVE  FilesInv' /\ Picks
    <2>1. UNCHANGED <<load, xfer>>
        BY <1>2 DEF CallStep, ListDir, ListDirFails, Listed, OpDone, OpFails
    <2>2. FilesInv' /\ \A b \in CALLS : call'[b].st = "op" => call[b].st = "op"
        BY <1>2, ListDirStep, FailSteps, ListedStep, OpDoneStep DEF CallStep
    <2> QED BY <2>1, <2>2, NothingPicked
<1>3. ASSUME NEW t \in XFERS, XferStep(t), UNCHANGED scene
      PROVE  FilesInv' /\ Picks
    <2>1. CASE Registered(t) \/ Listening(t) \/ Cancel(t)
        <3>1. UNCHANGED <<call, load>>
            BY <2>1 DEF Registered, Listening, Cancel
        <3> QED BY <1>3, <2>1, <3>1, EarlySteps, NothingPicked
    <2>2. CASE Ends(t)
        <3>1. UNCHANGED <<call, load>>
            BY <2>2 DEF Ends
        <3> QED BY <1>3, <2>2, <3>1, EndsStep, NothingPicked
    <2>3. CASE Done(t)
        <3>1. load' = load
            BY <2>3 DEF Done
        <3> QED BY <1>3, <2>3, <3>1, DoneStep, NothingPicked
    <2> QED BY <1>3, <2>1, <2>2, <2>3 DEF XferStep
<1>4. ASSUME DragEnd, UNCHANGED scene
      PROVE  FilesInv' /\ Picks
    <2>1. load' = Nothing /\ UNCHANGED <<call, xfer>>
        BY <1>4 DEF DragEnd
    <2> QED BY <1>4, <2>1, DragEndStep, NothingPicked
<1>5. ASSUME ClearCompleted, UNCHANGED scene
      PROVE  FilesInv' /\ Picks
    <2>1. UNCHANGED <<call, load>>
        BY <1>5 DEF ClearCompleted
    <2> QED BY <1>5, <2>1, ClearStep, NothingPicked
<1>6. ASSUME UNCHANGED fvars
      PROVE  FilesInv' /\ Picks
    <2>1. UNCHANGED <<disk, pane, call, load, xfer, picked, doubt, scene>>
        BY <1>6 DEF fvars
    <2>2. Typed' /\ FreeHasNoRow' /\ SelectionPicked'
        BY <2>1 DEF FilesInv, Typed, FreeHasNoRow, SelectionPicked
    <2>3. ASSUME NEW s \in Sides
          PROVE  Current(s)'
        <3>1. Quiet(s)
            BY <2>1 DEF Quiet, OnItsWay, Dest
        <3> QED BY <3>1, QuietStaysCurrent DEF FilesInv
    <2> QED BY <2>1, <2>2, <2>3, NothingPicked DEF FilesInv
<1> QED BY <1>1, <1>2, <1>3, <1>4, <1>5, <1>6 DEF FilesNext

(* The invariant, for any names, places and numbers of calls and transfers. *)
THEOREM FilesInvariant == FilesSpec => []FilesInv
<1>1. FilesInit => FilesInv
    BY FilesStarts
<1>2. FilesInv /\ [FilesNext]_fvars => FilesInv'
    BY FilesStep
<1> QED BY <1>1, <1>2, PTL DEF FilesSpec

(* The state of the file browser keeps its shape. *)
THEOREM FilesTyped == FilesSpec => []FilesTypeOK
<1>1. FilesInv => FilesTypeOK
    <2> SUFFICES ASSUME Typed
                 PROVE  FilesTypeOK
        BY DEF FilesInv
    <2>1. load \in [mode : {"none", "drag", "clip"}, side : Sides \cup {"none"}, dir : Paths,
                    names : SUBSET NAMES]
        BY AncestorPaths DEF Typed, Loads, Nothing
    <2> QED BY <2>1 DEF Typed, FilesTypeOK, Panes, Dialogs, CallRecords, Xfers
<1> QED BY <1>1, FilesInvariant, PTL

(* What a pane shows is what its directory holds, unless the code gives reason
   to doubt it or a transfer-done is on its way. *)
THEOREM PanesAlwaysFresh == FilesSpec => []FreshUnlessInDoubt
<1>1. FilesInv => FreshUnlessInDoubt
    <2> SUFFICES ASSUME FilesInv, NEW s \in Sides, pane[s].path # <<>>, ~doubt[s], ~InFlight(s),
                        ~\E t \in XFERS : OnItsWay(t, s)
                 PROVE  pane[s].entries = RowsOf(s, pane[s].path)
        BY DEF FreshUnlessInDoubt, OnItsWay
    <2>1. ShownCurrent(s)
        BY DEF FilesInv, Current
    <2>2. pane[s].entries \in SUBSET NAMES
        BY FieldsTyped DEF FilesInv
    <2>3. \A n \in NAMES : n \in pane[s].entries <=> joinPath(pane[s].path, n) \in disk[s]
        BY <2>1 DEF ShownCurrent, Agrees
    <2> QED BY <2>2, <2>3 DEF RowsOf
<1> QED BY <1>1, FilesInvariant, PTL

(* A deletion, a drag and a copy name only what the user picked where it was
   shown, in whatever order listings are answered. *)
THEOREM AlwaysActsOnPicked == FilesSpec => ActsOnPicked
<1>1. FilesInv /\ [FilesNext]_fvars => [Picks]_fvars
    BY FilesStep
<1> QED BY <1>1, FilesInvariant, PTL DEF FilesSpec, ActsOnPicked, Picks

=============================================================================
