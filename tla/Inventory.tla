------------------------------ MODULE Inventory ------------------------------
(***************************************************************************)
(* Hosts and what they refer to, in the database, in the zustand stores    *)
(* and in the dialogs: components/HostFormDialog.tsx, ServerList.tsx,      *)
(* Sidebar.tsx, KeysSection.tsx, IdentitiesSection.tsx, TagPicker.tsx,     *)
(* KeyPicker.tsx, the five stores and the tables of src-tauri/src/store.   *)
(*                                                                         *)
(* A behaviour is about one kind of row a host refers to: its group, its   *)
(* identity (a column of hosts), its tags or its keys (a link table).      *)
(* A request is one await of a store function; the database does one       *)
(* command at a time, answers are applied in any order.                    *)
(***************************************************************************)
EXTENDS Naturals, FiniteSets

CONSTANTS HOSTS,   \* bound: host ids ever given out
          ROWS,    \* bound: ids of groups, identities, tags or keys
          KINDS,   \* {"group", "identity", "tag", "key"}
          REQS,    \* bound: store functions awaiting at once
          ASKS,    \* bound: clicks that call a store function
          NoHost

ASSUME InventoryAssumption ==
    KINDS \subseteq {"group", "identity", "tag", "key"} /\ NoHost \notin HOSTS

VARIABLES
    kind,     \* the member of KINDS this behaviour is about
    db,       \* [hosts, rows, refs]: the tables
    seen,     \* the same in the stores: useServersStore and the kind's own store
    born,     \* ids given out (uuids: never again)
    req,      \* [REQS -> a request]
    asked,    \* how many of the ASKS are used
    form,     \* the dialogs: new host (MainLayout), edit (ServerList), a row's editor
    error,    \* useServersStore.error: the last refresh() of the hosts failed
    drawn,    \* ServerList is drawn with its hosts and, over them, the edit form
    dubious   \* history: fields of `seen` that are, or may be, behind the database

ivars == <<kind, db, seen, born, req, asked, form, error, drawn, dubious>>

----------------------------------------------------------------------------
(* State *)

Column == kind \in {"group", "identity"}
Cells == {"hosts", "rows", "refs"}

(* What refresh() of the host store, and of the kind's store, fetch: one
   command each, or two at once (Promise.all) when there is a link table. *)
HostParts == IF Column THEN {{"hosts", "refs"}} ELSE {{"hosts"}}
RowParts == IF Column THEN {{"rows"}} ELSE {{"rows"}, {"refs"}}

NoRefs == [h \in HOSTS |-> {}]
Unasked == [st |-> "free", op |-> "none", by |-> "none", h |-> NoHost, r |-> {}, refs |-> {},
            parts |-> {}, got |-> [hosts |-> {}, rows |-> {}, refs |-> NoRefs],
            stale |-> FALSE, late |-> FALSE, toggled |-> {}, hasty |-> FALSE]
Closed == [open |-> FALSE, busy |-> FALSE, h |-> NoHost, had |-> {}, refs |-> {},
           toggled |-> {}, sure |-> FALSE]

(* Of a closed dialog only the pickers' lists matter: all else is reset on opening. *)
Shut(f) == [Closed EXCEPT !.refs = IF Column THEN {} ELSE form[f].refs]

(* New ids are interchangeable: any one will do. *)
OneId(s) == IF s = {} THEN {} ELSE {CHOOSE x \in s : TRUE}

InvInit ==
    /\ kind \in KINDS
    /\ \E h \in OneId(HOSTS), r \in OneId(ROWS) :
          /\ db = [hosts |-> {h}, rows |-> {r}, refs |-> [NoRefs EXCEPT ![h] = {r}]]
          /\ born = {h, r}
    /\ seen = db
    /\ req = [q \in REQS |-> Unasked]
    /\ asked = 0
    /\ form = [f \in {"new", "edit", "row"} |-> Closed]
    /\ error = FALSE /\ drawn = TRUE
    /\ dubious = {}

(* Request slots are interchangeable too. *)
Slot == OneId({q \in REQS : req[q].st = "free"})

(* The edit form is drawn over a dialog opened while it was away. *)
OnTop(f) == form[f].open /\ IF f = "edit" THEN drawn ELSE ~(form["edit"].open /\ drawn)
ModalOpen == \E f \in DOMAIN form : OnTop(f)
Reading(q) == req[q].op \in {"hosts", "rows"}
Writing == \E q \in REQS : req[q].st # "free" /\ ~Reading(q)

Request(op, by, h, r, refs) ==
    [Unasked EXCEPT !.st = "asked", !.op = op, !.by = by, !.h = h, !.r = r, !.refs = refs,
                    !.parts = CASE op = "hosts" -> HostParts [] op = "rows" -> RowParts
                                [] OTHER -> {}]

Ask(request) ==
    /\ asked < ASKS /\ asked' = asked + 1
    /\ \E q \in Slot : req' = [req EXCEPT ![q] = request]

----------------------------------------------------------------------------
(* What ServerList draws *)

(* It returns early on an error and on an empty list.  (Its filters, which show
   an empty list too, are left out.) *)
HostsShown == ~error /\ seen.hosts # {}

(* Unmounted, the edit form forgets all but what ServerList holds: whether it is
   open, and the host, with the column it had at the click. *)
Away(x) == IF x.open THEN [Closed EXCEPT !.open = TRUE, !.h = x.h, !.had = x.had, !.refs = x.had]
           ELSE Closed
(* What is answered to an unmounted form changes the store alone. *)
Unheard(c) ==
    IF c.by = "edit" /\ c.op \in {"rows", "newRow"}
    THEN [c EXCEPT !.by = "none", !.h = NoHost, !.late = FALSE] ELSE c

(* The list goes, and the edit form with it. *)
Unmounted ==
    /\ drawn /\ ~HostsShown /\ drawn' = FALSE
    /\ req' = [q \in REQS |-> Unheard(req[q])]
    /\ form' = [form EXCEPT !["edit"] = Away(@)]
    /\ UNCHANGED <<kind, db, seen, born, error, dubious>>

(* They come back, over any dialog opened meanwhile: the form is new then, idle,
   and its effect runs once more. *)
Remounted ==
    /\ ~drawn /\ HostsShown /\ drawn' = TRUE
    /\ IF form["edit"].open
       THEN /\ \E q \in Slot :
                  req' = [req EXCEPT ![q] = Request("rows", "edit", form["edit"].h, {}, {})]
            /\ form' = [f \in DOMAIN form |-> [form[f] EXCEPT !.sure = FALSE]]
       ELSE UNCHANGED <<req, form>>
    /\ UNCHANGED <<kind, db, seen, born, error, dubious>>

----------------------------------------------------------------------------
(* What the user does *)

(* A list or a picker is mounted: ServerList, KeysSection, IdentitiesSection,
   TagPicker, KeyPicker. *)
MountRows ==
    /\ Ask(Request("rows", "none", NoHost, {}, {}))
    /\ UNCHANGED <<kind, db, seen, born, form, error, dubious, drawn>>

(* refresh() of the hosts begins by forgetting the last one's error. *)
MountHosts ==
    /\ Ask(Request("hosts", "none", NoHost, {}, {}))
    /\ error' = FALSE
    /\ UNCHANGED <<kind, db, seen, born, form, dubious, drawn>>

(* The column of the row ServerList hands to the form. *)
Had(f, h) == IF Column /\ f = "edit" THEN seen.refs[h] ELSE {}

(* Mutant: the form's effect leaves the selects as the last opening left them. *)
OpenHostFormUnreset(f, h) ==
    /\ ~ModalOpen
    /\ \/ f = "new" /\ h = NoHost
       \/ f = "edit" /\ drawn /\ h \in seen.hosts
    /\ form' = [form EXCEPT ![f] =
          [Closed EXCEPT !.open = TRUE, !.h = h, !.refs = form[f].refs, !.had = Had(f, h),
                         !.sure = Column /\ ~Writing /\ "refs" \notin dubious]]
    /\ asked < ASKS /\ asked' = asked + 1
    /\ \E q \in Slot :
          req' = [x \in REQS |-> IF x = q THEN Request("rows", f, h, {}, {})
                                 ELSE [req[x] EXCEPT !.late = @ \/ req[x].by = f]]
    /\ UNCHANGED <<kind, db, seen, born, error, dubious, drawn>>

(* HostFormDialog's effect on [open, host?.id].  The selects of a column are
   reset at once; the pickers' lists only by the answer of a refresh, and what
   an earlier opening asked for is still to come. *)
OpenHostForm(f, h) ==
    /\ ~ModalOpen
    /\ \/ f = "new" /\ h = NoHost
       \/ f = "edit" /\ drawn /\ h \in seen.hosts
    /\ form' = [form EXCEPT ![f] =
          [Closed EXCEPT !.open = TRUE, !.h = h, !.had = Had(f, h),
                         !.refs = IF Column THEN Had(f, h) ELSE form[f].refs,
                         !.sure = Column /\ ~Writing /\ "refs" \notin dubious]]
    /\ asked < ASKS /\ asked' = asked + 1
    /\ \E q \in Slot :
          req' = [x \in REQS |-> IF x = q THEN Request("rows", f, h, {}, {})
                                 ELSE [req[x] EXCEPT !.late = @ \/ req[x].by = f]]
    /\ UNCHANGED <<kind, db, seen, born, error, dubious, drawn>>

(* The group prompt of Sidebar, the key dialogs, the identity editor; tags have
   no dialog of their own. *)
OpenRowForm ==
    /\ ~ModalOpen
    /\ kind # "tag"
    /\ form' = [form EXCEPT !["row"] = [Closed EXCEPT !.open = TRUE]]
    /\ req' = [x \in REQS |-> [req[x] EXCEPT !.late = @ \/ req[x].by = "row"]]
    /\ UNCHANGED <<kind, db, seen, born, error, dubious, drawn>>

Dismiss_(f) ==
    /\ OnTop(f)
    /\ form' = [form EXCEPT ![f] = Shut(f)]
    /\ UNCHANGED <<kind, db, seen, born, req, error, dubious, drawn>>

(* A select holds one row, a picker several. *)
Toggle(f, r) ==
    LET x == form[f] IN
    /\ f # "row" /\ OnTop(f) /\ r \in seen.rows
    /\ form' = [form EXCEPT
          ![f].refs = IF r \in x.refs THEN x.refs \ {r} ELSE IF Column THEN {r} ELSE x.refs \cup {r},
          ![f].toggled = @ \cup {r} \cup (IF Column THEN x.refs ELSE {})]
    /\ UNCHANGED <<kind, db, seen, born, req, error, dubious, drawn>>

(* TagPicker's createAndSelect: it adds the tag to the list as it was at the click. *)
PickerCreates(f) ==
    LET x == form[f] IN
    /\ kind = "tag" /\ f # "row" /\ OnTop(f)
    /\ Ask(Request("newRow", f, x.h, {}, x.refs))
    /\ UNCHANGED <<kind, db, seen, born, form, error, dubious, drawn>>

(* onSubmit: the button is disabled while a submission is on its way. *)
SubmitHost(f) ==
    LET x == form[f] IN
    /\ f # "row" /\ OnTop(f) /\ ~x.busy
    /\ Ask([Request("save", f, x.h, {}, x.refs) EXCEPT !.toggled = x.toggled,
                                                       !.hasty = ~x.sure])
    /\ form' = [form EXCEPT ![f].busy = TRUE]
    /\ UNCHANGED <<kind, db, seen, born, error, dubious, drawn>>

(* The identity editor's button is not disabled meanwhile. *)
SubmitRow ==
    LET x == form["row"] IN
    /\ OnTop("row")
    /\ kind = "identity" \/ ~x.busy
    /\ Ask(Request("newRow", "row", NoHost, {}, {}))
    /\ form' = [form EXCEPT !["row"].busy = TRUE]
    /\ UNCHANGED <<kind, db, seen, born, error, dubious, drawn>>

(* The confirmation dialogs of ServerList, KeysSection and IdentitiesSection. *)
DeleteHost ==
    /\ ~ModalOpen /\ drawn
    /\ \E h \in seen.hosts : Ask(Request("delHost", "none", h, {}, {}))
    /\ UNCHANGED <<kind, db, seen, born, form, error, dubious, drawn>>

DeleteRow ==
    /\ ~ModalOpen
    /\ kind # "tag" /\ (kind = "group" => drawn)
    /\ \E r \in seen.rows : Ask(Request("delRow", "none", NoHost, {r}, {}))
    /\ UNCHANGED <<kind, db, seen, born, form, error, dubious, drawn>>

(* A host dropped on a group's header, or "Retirer du groupe". *)
MoveHost ==
    /\ ~ModalOpen /\ drawn
    /\ kind = "group"
    /\ \E h \in seen.hosts, to \in {{}} \cup {{r} : r \in seen.rows} :
          /\ to # seen.refs[h]
          /\ Ask([Request("move", "none", h, {}, to) EXCEPT !.toggled = seen.refs[h] \cup to,
                                                            !.hasty = "refs" \in dubious \/ Writing])
    /\ UNCHANGED <<kind, db, seen, born, form, error, dubious, drawn>>

----------------------------------------------------------------------------
(* The database *)

(* A command changes the tables: what was answered, or half read, before is
   outdated from now on, and what is still to be executed was asked for before. *)
Executed(q, tables, done) ==
    /\ db' = tables
    /\ req' = [x \in REQS |->
          IF x = q THEN [done EXCEPT !.st = "ok"]
          ELSE [req[x] EXCEPT !.hasty = @ \/ req[x].st = "asked",
                              !.stale = @ \/ req[x].st = "ok"
                                  \/ (Reading(x) /\ req[x].parts \notin {HostParts, RowParts})]]
    /\ UNCHANGED <<kind, seen, form, error, dubious, drawn>>

(* A list command; the last one of a refresh answers it. *)
Read(q) ==
    /\ req[q].st = "asked"
    /\ \E part \in req[q].parts :
          req' = [req EXCEPT
             ![q].got = [f \in Cells |-> IF f \in part THEN db[f] ELSE @[f]],
             ![q].parts = @ \ {part},
             ![q].st = IF req[q].parts = {part} THEN "ok" ELSE "asked"]
    /\ UNCHANGED <<kind, db, seen, born, form, error, dubious, drawn>>

(* hosts::create and hosts::update: the column is written with the row, its
   foreign key is checked. *)
ExecSave(q) ==
    LET c == req[q]  linked == IF Column THEN c.refs ELSE {} IN
    /\ c.st = "asked" /\ c.op = "save"
    /\ linked \subseteq db.rows
    /\ \E h \in IF c.h = NoHost THEN OneId(HOSTS \ born) ELSE db.hosts \cap {c.h} :
          /\ Executed(q, [db EXCEPT !.hosts = @ \cup {h},
                                    !.refs[h] = IF Column THEN c.refs ELSE @],
                         [c EXCEPT !.h = h, !.r = IF c.h = NoHost THEN {"created"} ELSE {}])
          /\ born' = born \cup {h}

(* set_host_tags, set_host_keys: one transaction, foreign keys checked. *)
ExecLinks(q) ==
    LET c == req[q] IN
    /\ c.st = "asked" /\ c.op = "links"
    /\ c.h \in db.hosts /\ c.refs \subseteq db.rows
    /\ Executed(q, [db EXCEPT !.refs[c.h] = c.refs], c)
    /\ UNCHANGED born

ExecNewRow(q) ==
    LET c == req[q] IN
    /\ c.st = "asked" /\ c.op = "newRow"
    /\ \E r \in OneId(ROWS \ born) :
          /\ Executed(q, [db EXCEPT !.rows = @ \cup {r}], [c EXCEPT !.r = {r}])
          /\ born' = born \cup {r}

(* ON DELETE SET NULL, ON DELETE CASCADE: either way no host refers to it. *)
ExecDelRow(q) ==
    LET c == req[q] IN
    /\ c.st = "asked" /\ c.op = "delRow"
    /\ Executed(q, [db EXCEPT !.rows = @ \ c.r, !.refs = [h \in HOSTS |-> @[h] \ c.r]], c)
    /\ UNCHANGED born

ExecDelHost(q) ==
    LET c == req[q] IN
    /\ c.st = "asked" /\ c.op = "delHost"
    /\ Executed(q, [db EXCEPT !.hosts = @ \ {c.h}, !.refs[c.h] = {}], c)
    /\ UNCHANGED born

(* groups::move_host of a host that is gone updates no row and succeeds. *)
ExecMove(q) ==
    LET c == req[q] IN
    /\ c.st = "asked" /\ c.op = "move"
    /\ c.refs \subseteq db.rows
    /\ Executed(q, [db EXCEPT !.refs[c.h] = IF c.h \in db.hosts THEN c.refs ELSE @], c)
    /\ UNCHANGED born

----------------------------------------------------------------------------
(* The answers *)

(* The store writes `cells`: from an outdated answer, from a whole fresh list
   (which clears the doubt) or as one row's patch. *)
Wrote(q, cells, whole) ==
    dubious' = IF req[q].stale THEN dubious \cup cells
               ELSE IF whole THEN dubious \ cells ELSE dubious

(* The form behind a refresh takes its host's links, whichever opening asked:
   `host` is that opening's. *)
TakeLinks(q, links) ==
    LET c == req[q]  f == c.by IN
    IF Column \/ f = "none" THEN form
    ELSE [form EXCEPT
           ![f].refs = IF f = "edit" THEN links[c.h] ELSE {},
           ![f].toggled = IF c.late THEN @ ELSE {},
           ![f].sure = OnTop(f) /\ ~c.late /\ ~c.stale
                         /\ ~\E x \in REQS \ {q} : req[x].st # "free" /\ ~Reading(x)]

Refreshed(q) ==
    LET c == req[q]  cells == UNION (IF c.op = "hosts" THEN HostParts ELSE RowParts) IN
    /\ c.st = "ok" /\ Reading(q)
    /\ seen' = [f \in Cells |-> IF f \in cells THEN c.got[f] ELSE seen[f]]
    /\ Wrote(q, cells, TRUE)
    /\ form' = TakeLinks(q, c.got.refs)
    /\ req' = [req EXCEPT ![q] = Unasked]
    /\ UNCHANGED <<kind, db, born, error, drawn>>

(* A dialog's function is over: the dialog on screen, this opening's or a later
   one's, is closed, or told of the failure. *)
Finished(f, ok) ==
    [form EXCEPT ![f] = IF ok \/ ~form[f].open THEN Shut(f)
                        ELSE [form[f] EXCEPT !.busy = FALSE]]

(* update() replaces the row if the store has it, create() adds it; then the
   links, for which the form keeps waiting. *)
Saved(q) ==
    LET c == req[q]
        known == c.h \in seen.hosts \/ c.r # {}
        links == [c EXCEPT !.st = "asked", !.op = "links", !.r = {}, !.stale = FALSE,
                           !.hasty = @ \/ c.stale]
    IN
    /\ c.st = "ok" /\ c.op = "save"
    /\ seen' = IF ~known THEN seen
               ELSE [seen EXCEPT !.hosts = @ \cup {c.h}, !.refs[c.h] = IF Column THEN c.refs ELSE @]
    /\ Wrote(q, {"hosts"} \cup (IF Column THEN {"refs"} ELSE {}), FALSE)
    /\ req' = [req EXCEPT ![q] = IF Column THEN Unasked ELSE links]
    /\ form' = IF Column THEN Finished(c.by, TRUE) ELSE form
    /\ UNCHANGED <<kind, db, born, error, drawn>>

LinksSaved(q) ==
    LET c == req[q] IN
    /\ c.st = "ok" /\ c.op = "links"
    /\ seen' = [seen EXCEPT !.refs[c.h] = c.refs]
    /\ Wrote(q, {"refs"}, FALSE)
    /\ form' = Finished(c.by, TRUE)
    /\ req' = [req EXCEPT ![q] = Unasked]
    /\ UNCHANGED <<kind, db, born, error, drawn>>

RowCreated(q) ==
    LET c == req[q] IN
    /\ c.st = "ok" /\ c.op = "newRow"
    /\ seen' = [seen EXCEPT !.rows = @ \cup c.r]
    /\ Wrote(q, {"rows"}, FALSE)
    /\ form' = IF c.by = "row" THEN Finished("row", TRUE) ELSE IF c.by = "none" THEN form
               ELSE [form EXCEPT ![c.by].refs = c.refs \cup c.r,
                                 ![c.by].toggled = IF form[c.by].open THEN @ \cup c.r ELSE {},
                                 ![c.by].sure = @ /\ ~c.late /\ form[c.by].refs = c.refs]
    /\ req' = [req EXCEPT ![q] = Unasked]
    /\ UNCHANGED <<kind, db, born, error, drawn>>

(* Mutant: the hosts are not fetched again after a group is deleted. *)
RowDeletedOnly(q) ==
    LET c == req[q] IN
    /\ c.st = "ok" /\ c.op = "delRow"
    /\ seen' = [seen EXCEPT !.rows = @ \ c.r]
    /\ Wrote(q, {"rows"}, FALSE)
    /\ req' = [req EXCEPT ![q] = Unasked]
    /\ UNCHANGED <<kind, db, born, form, error, drawn>>

(* A group's deletion and a move are followed by refresh() of the hosts, and
   until its answer the store's references are known to be old; the stores of
   identities and keys leave the hosts' references alone. *)
RowDeleted(q) ==
    LET c == req[q] IN
    /\ c.st = "ok" /\ c.op = "delRow"
    /\ seen' = [seen EXCEPT !.rows = @ \ c.r]
    /\ dubious' = dubious \cup (IF c.stale THEN {"rows"} ELSE {})
                           \cup (IF kind = "group" THEN {"refs"} ELSE {})
    /\ error' = (error /\ kind # "group")
    /\ req' = [req EXCEPT ![q] = IF kind = "group" THEN Request("hosts", "none", NoHost, {}, {})
                                 ELSE Unasked]
    /\ UNCHANGED <<kind, db, born, form, drawn>>

Moved(q) ==
    /\ req[q].st = "ok" /\ req[q].op = "move"
    /\ error' = FALSE
    /\ dubious' = dubious \cup {"refs"}
    /\ req' = [req EXCEPT ![q] = Request("hosts", "none", NoHost, {}, {})]
    /\ UNCHANGED <<kind, db, seen, born, form, drawn>>

HostDeleted(q) ==
    LET c == req[q] IN
    /\ c.st = "ok" /\ c.op = "delHost"
    /\ seen' = [seen EXCEPT !.hosts = @ \ {c.h}]
    /\ Wrote(q, {"hosts"}, FALSE)
    /\ req' = [req EXCEPT ![q] = Unasked]
    /\ UNCHANGED <<kind, db, born, form, error, drawn>>

(* A command fails.  A refresh swallows it, that of the hosts shows it instead of
   the list, and the form then takes its links from the store as it is. *)
Failed(q) ==
    LET c == req[q]  f == c.by IN
    /\ c.st = "asked"
    /\ dubious' = IF c.op = "hosts" THEN dubious \cup UNION HostParts
                  ELSE IF c.op = "rows" THEN dubious \cup UNION RowParts ELSE dubious
    /\ error' = (error \/ c.op = "hosts")
    /\ form' = IF c.op \in {"save", "links"} \/ f = "row" THEN Finished(f, FALSE)
               ELSE IF ~Reading(q) \/ Column \/ f = "none" THEN form
               ELSE [form EXCEPT ![f].refs = IF f = "edit" THEN seen.refs[c.h] ELSE {},
                                 ![f].sure = FALSE]
    /\ req' = [req EXCEPT ![q] = Unasked]
    /\ UNCHANGED <<kind, db, seen, born, drawn>>

----------------------------------------------------------------------------

Clicks ==
    \/ MountRows \/ MountHosts \/ SubmitRow \/ DeleteHost \/ DeleteRow \/ MoveHost
    \/ \E h \in HOSTS \cup {NoHost} : OpenHostForm("new", h) \/ OpenHostForm("edit", h)
    \/ \E f \in DOMAIN form : PickerCreates(f) \/ SubmitHost(f)
Handling ==
    \/ OpenRowForm
    \/ \E f \in DOMAIN form : Dismiss_(f) \/ \E r \in ROWS : Toggle(f, r)
Exec(q) ==
    \/ Read(q) \/ ExecSave(q) \/ ExecLinks(q) \/ ExecNewRow(q) \/ ExecDelRow(q)
    \/ ExecDelHost(q) \/ ExecMove(q)
Answer(q) ==
    \/ Refreshed(q) \/ Saved(q) \/ LinksSaved(q) \/ RowCreated(q) \/ RowDeleted(q)
    \/ Moved(q) \/ HostDeleted(q) \/ Failed(q)

(* A change of the host store is drawn before anything else happens. *)
InvNext ==
    \/ (Unmounted \/ Remounted) /\ UNCHANGED asked
    \/ /\ drawn = HostsShown
       /\ \/ Clicks
          \/ /\ Handling \/ \E q \in REQS : Exec(q) \/ Answer(q)
             /\ UNCHANGED asked

InvSpec == InvInit /\ [][InvNext]_ivars

----------------------------------------------------------------------------
(* Properties *)

(* The state has its shape, and the foreign keys hold in the database. *)
InvTypeOK ==
    /\ kind \in KINDS
    /\ \A t \in {db, seen} : t \in [hosts : SUBSET HOSTS, rows : SUBSET ROWS,
                                    refs : [HOSTS -> SUBSET ROWS]]
    /\ born \subseteq HOSTS \cup ROWS
    /\ DOMAIN req = REQS
    /\ \A q \in REQS : req[q].st \in {"free", "asked", "ok"} /\ req[q].h \in HOSTS \cup {NoHost}
    /\ DOMAIN form = {"new", "edit", "row"}
    /\ \A f \in DOMAIN form : form[f].h \in HOSTS \cup {NoHost} /\ form[f].refs \subseteq ROWS
    /\ error \in BOOLEAN /\ drawn \in BOOLEAN
    /\ dubious \subseteq Cells
    /\ \A h \in HOSTS : db.refs[h] \subseteq IF h \in db.hosts THEN db.rows ELSE {}
    /\ Column => \A h \in HOSTS : Cardinality(db.refs[h]) <= 1

(* The stores are patched by hand after every command and refreshed now and
   then, in any order: once nothing is on its way they agree with the database
   on hosts, on rows, and on which of these rows a host refers to, and a host
   never refers to a group the list does not show, which would hide the host.
   A store is excused (`dubious`), until it is written from a whole fresh list,
   - if its last word is an answer outdated by a command executed before it was
     applied, or half read when one was,
   - if a refresh of it failed, or
   - for the references, if a host was moved or a group deleted, and the
     refresh of the hosts that follows has not been answered. *)
StoresFollow ==
    (\A q \in REQS : req[q].st = "free") =>
       /\ "hosts" \notin dubious => seen.hosts = db.hosts
       /\ "rows" \notin dubious => seen.rows = db.rows
       /\ dubious = {} => \A h \in db.hosts : seen.refs[h] \cap db.rows = db.refs[h]
       /\ dubious = {} /\ kind = "group" =>
             \A h \in seen.hosts : seen.refs[h] \subseteq seen.rows

(* Saving a host rewrites all its references from what the form holds, and a move
   its group: they change only those the user toggled in that opening of the
   form, or moved between.  Excused (`hasty`) is a save
   - of a picker's list (tags, keys) before the opening's own refresh was
     answered, after it failed, or when a command was under way at its answer
     or had outdated it,
   - of a select (group, identity), or a move, that began while a command was
     under way or the store's references were dubious, as above,
   - from a list that an answer to an earlier opening, or a tag created from an
     older state of the list, had replaced,
   - of a select in a form that ServerList unmounted and brought back, or, of
     either kind, in a dialog over which it brought one back, and
   - overtaken by another command before it was executed, or, between the host
     and its links, before it was answered. *)
OnlyToggledChange ==
    [][\A h \in db.hosts \cap db'.hosts : \A r \in db.rows \cap db'.rows :
          (r \in db.refs[h]) # (r \in db'.refs[h]) =>
             \E q \in REQS : /\ req[q].st = "asked" /\ req'[q].st = "ok"
                             /\ req[q].hasty \/ r \in req[q].toggled]_ivars
=============================================================================
